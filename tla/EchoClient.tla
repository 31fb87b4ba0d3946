----------------------------- MODULE EchoClient -----------------------------
(***************************************************************************)
(* hw-4: examples/client.cpp against the echo server: lines are sent over  *)
(* a non-blocking socket, what has come back is printed after each, and at *)
(* the end of the input "stop" is sent and the rest is read.  A send takes *)
(* what there is room for, and neither side looks at how much that was:    *)
(* the server drops the rest of its buffer.  A byte here stands for two.   *)
(* No line has "stop" in it.                                               *)
(***************************************************************************)
EXTENDS Integers, Sequences, SequencesExt

CONSTANTS
  Room,      (* bytes each direction of the connection holds *)
  Packet,    (* PACKET_SIZE of the server *)
  MaxLine,   (* the longest line, its newline counted *)
  MaxLines   (* bound on the lines of the input *)

\* What the constants have to be; the module that instantiates this one asserts it.
EchoClientAssumption ==
  Room \in Nat \ {0} /\ Packet \in Nat /\ Packet >= 2 /\ MaxLine \in Nat /\ MaxLines \in Nat

VARIABLES
  pc,       (* where main is *)
  eof,      (* std::cin.eof() *)
  lines,    (* lines read *)
  line,     (* str *)
  up, down, (* bytes on their way to the server and back *)
  taken,    (* bytes that send took *)
  printed,  (* bytes printed *)
  server,   (* the event the server waits for, or "closed" *)
  buffer,   (* the buffer of the server's connection *)
  cut       (* history: the server dropped bytes *)

client == <<pc, eof, lines, line, taken, printed>>
vars == <<client, up, down, server, buffer, cut>>

\* Byte i of line k; "stop" is the last thing sent.
LineOf(k, n) == [i \in 1 .. n |-> <<k, i>>]
Stop == LineOf(MaxLines + 1, 2)
HasStop(s) == Len(s) >= 2 /\ s[Len(s) - 1] = Stop[1] /\ s[Len(s)] = Stop[2]
Text(s) == SubSeq(s, 1, Len(s) - 2)

Init ==
  /\ pc \in {"getline", "terminated"}   \* connection_error ends main
  /\ eof = FALSE /\ lines = 0 /\ line = <<>>
  /\ up = <<>> /\ down = <<>> /\ taken = <<>> /\ printed = <<>>
  /\ server = "reads" /\ buffer = <<>> /\ cut = FALSE

\* The last line may end with the input instead of a newline, and may be empty.
GetLine ==
  /\ pc = "getline" /\ lines < MaxLines
  /\ \E n \in 0 .. MaxLine, e \in BOOLEAN :
       /\ n > 0 \/ e
       /\ line' = LineOf(lines + 1, n) /\ eof' = e
  /\ lines' = lines + 1 /\ pc' = "write"
  /\ UNCHANGED <<up, down, taken, printed, server, buffer, cut>>

\* connection.write(s): some bytes, which go nowhere when the server has closed,
\* or socket_error, which nobody catches here: there is room for none (EAGAIN), or
\* the client knows that the server has closed.
Send(s, next) ==
  \/ /\ server = "closed" \/ (s # <<>> /\ Len(up) = Room)
     /\ pc' = "terminated" /\ UNCHANGED <<up, taken>>
  \/ /\ \E n \in 0 .. Len(s) :
          /\ n > 0 \/ s = <<>>
          /\ Len(up) + n <= Room
          /\ up' = up \o SubSeq(s, 1, n) /\ taken' = taken \o SubSeq(s, 1, n)
     /\ pc' = next

WriteLine ==
  /\ pc = "write" /\ Send(line, "read")
  /\ UNCHANGED <<eof, lines, line, down, printed, server, buffer, cut>>

\* connection.read() and the bytes printed.
PrintSome == \E n \in 1 .. Len(down) :
           printed' = printed \o SubSeq(down, 1, n) /\ down' = SubSeq(down, n + 1, Len(down))

ReadSome ==
  /\ pc = "read" /\ PrintSome
  /\ UNCHANGED <<pc, eof, lines, line, up, taken, server, buffer, cut>>

\* Nothing there (EAGAIN, a socket_error), or the end (0): back to the loop.
ReadNothing ==
  /\ pc = "read" /\ down = <<>>
  /\ pc' = IF eof THEN "stop" ELSE "getline"
  /\ UNCHANGED <<eof, lines, line, up, down, taken, printed, server, buffer, cut>>

WriteStop ==
  /\ pc = "stop" /\ Send(Stop, "drain")
  /\ UNCHANGED <<eof, lines, line, down, printed, server, buffer, cut>>

Drain ==
  /\ pc = "drain" /\ PrintSome
  /\ UNCHANGED <<pc, eof, lines, line, up, taken, server, buffer, cut>>

\* read() is 0 in the end; until then EAGAIN is tried again and again.
DrainEnds ==
  /\ pc = "drain" /\ down = <<>> /\ server = "closed" /\ pc' = "ended"
  /\ UNCHANGED <<eof, lines, line, up, down, taken, printed, server, buffer, cut>>

-----------------------------------------------------------------------------
\* callback for READ_EVENT: substr throws for a buffer of less than four bytes,
\* which ends the connection.
ServerReads ==
  /\ server = "reads"
  /\ \E n \in 1 .. Len(up) :
       LET b == buffer \o SubSeq(up, 1, n)
           short == Len(b) < 2
       IN /\ up' = SubSeq(up, n + 1, Len(up))
          /\ buffer' = IF short THEN <<>> ELSE b
          /\ cut' = (cut \/ short)
          /\ server' = IF short THEN "closed"
                       ELSE IF Len(b) >= Packet \/ HasStop(b) THEN "writes" ELSE "reads"
  /\ UNCHANGED <<client, down>>

\* Mutated form: the buffer is not cleared behind a write.
ServerWritesOn ==
  /\ server = "writes" /\ Len(down) < Room
  /\ LET s == IF HasStop(buffer) THEN Text(buffer) ELSE buffer IN
       \E n \in 0 .. Len(s) :
         /\ n > 0 \/ s = <<>>
         /\ Len(down) + n <= Room
         /\ down' = down \o SubSeq(s, 1, n) /\ cut' = (cut \/ n < Len(s))
  /\ server' = IF HasStop(buffer) THEN "closed" ELSE "reads"
  /\ UNCHANGED <<client, up, buffer>>

\* callback for WRITE_EVENT: write takes some bytes of the buffer, but for a
\* "stop" at its end, and the buffer is cleared, or the connection closed.
ServerWrites ==
  /\ server = "writes" /\ Len(down) < Room
  /\ LET s == IF HasStop(buffer) THEN Text(buffer) ELSE buffer IN
       \E n \in 0 .. Len(s) :
         /\ n > 0 \/ s = <<>>
         /\ Len(down) + n <= Room
         /\ down' = down \o SubSeq(s, 1, n) /\ cut' = (cut \/ n < Len(s))
  /\ server' = IF HasStop(buffer) THEN "closed" ELSE "reads"
  /\ buffer' = <<>>
  /\ UNCHANGED <<client, up>>

\* It may also close for reasons of its own.
ServerCloses ==
  /\ server # "closed" /\ server' = "closed" /\ buffer' = <<>> /\ cut' = TRUE
  /\ UNCHANGED <<client, up, down>>

Main == WriteLine \/ ReadSome \/ ReadNothing \/ WriteStop \/ Drain \/ DrainEnds
Server == ServerReads \/ ServerWrites

Next == GetLine \/ Main \/ Server \/ ServerCloses

Spec == Init /\ [][Next]_vars

\* The user may stop typing and the server need not close.
FairSpec == Spec /\ WF_vars(Main) /\ WF_vars(Server)

-----------------------------------------------------------------------------
\* Types; neither direction holds more than it has room for.
TypeOK ==
  /\ pc \in {"getline", "write", "read", "stop", "drain", "ended", "terminated"}
  /\ eof \in BOOLEAN /\ lines \in 0 .. MaxLines
  /\ Len(up) <= Room /\ Len(down) <= Room
  /\ server \in {"reads", "writes", "closed"} /\ cut \in BOOLEAN
  /\ pc = "drain" => eof

\* The order in which bytes are sent.
Before(a, b) == a[1] < b[1] \/ (a[1] = b[1] /\ a[2] < b[2])
InOrder(s) == \A i, j \in DOMAIN s : i < j => Before(s[i], s[j])

\* Whatever is cut off lines and echoes, what comes back was taken before, and
\* comes in its order and no byte twice.
EchoesInOrder ==
  InOrder(printed \o down) /\ ToSet(printed \o down) \subseteq ToSet(taken)

\* A client that ended, and whose server dropped nothing, sent a whole "stop" and
\* has printed all that was taken before it.
AllIsPrinted == pc = "ended" /\ ~cut => HasStop(taken) /\ printed = Text(taken)

\* The client ends when its "stop" was taken whole, with the buffers full or not,
\* echoed or dropped.  When only a part of it was, client and server may wait for
\* each other.
StopEnds == (pc = "drain" /\ HasStop(taken)) ~> pc = "ended"
=============================================================================
