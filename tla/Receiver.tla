------------------------------ MODULE Receiver ------------------------------
(***************************************************************************)
(* hw-6/HttpFramework: Receiver::receive and read_body over                *)
(* Connection::read, for one request of a connection.  The manager resumes *)
(* the routine while epoll reports the socket readable, and may kill it.   *)
(* In the headers a digit stands for a Content-Length of that number, and  *)
(* NoNumber for one that stoull does not take; a line that is not empty is *)
(* a header with a value.  HttpParsing has the rest.                       *)
(***************************************************************************)
EXTENDS StringView

CONSTANTS
  Streams,  (* what a client may send *)
  MaxRead,  (* MAX_BYTES_READ *)
  NoNumber  (* a character, see above *)

\* What the constants have to be; the module that instantiates this one asserts it.
ReceiverAssumption == MaxRead \in Nat \ {0} /\ Streams \subseteq Seq(0 .. 255)

VARIABLES
  unsent,  (* what the client has not sent *)
  socket,  (* what came and was not read *)
  fin,     (* the client has closed or reset the connection *)
  buffer,  (* Connection::buffer_ *)
  pc,      (* the loop the routine is in, or how receive ended *)
  pos,     (* where the next search starts *)
  reads,   (* history: how much of the stream had been read after each read *)
  start, length, was_read, (* start_pos, body_len and was_read of read_body *)
  body,    (* the body returned *)
  stream   (* history: all the client means to send *)

vars == <<unsent, socket, fin, buffer, pc, pos, reads, start, length, was_read, body, stream>>
client == <<unsent, fin, stream>>

Init ==
  /\ stream \in Streams /\ unsent = stream
  /\ socket = <<>> /\ fin = "no" /\ buffer = <<>>
  /\ pc = "headers" /\ pos = 0 /\ reads = <<>>
  /\ start = 0 /\ length = 0 /\ was_read = 0 /\ body = <<>>

ClientSends ==
  /\ fin = "no"
  /\ \E n \in 1 .. Len(unsent) :
       socket' = socket \o Substr(unsent, 0, n) /\ unsent' = RemovePrefix(unsent, n)
  /\ UNCHANGED <<fin, buffer, pc, pos, reads, start, length, was_read, body, stream>>

ClientEnds ==
  /\ fin = "no" /\ \E how \in {"closed", "reset"} : fin' = how
  /\ UNCHANGED <<unsent, socket, buffer, pc, pos, reads, start, length, was_read, body, stream>>

-----------------------------------------------------------------------------
\* Connection::read

Readable == socket # <<>> \/ fin # "no"
Taken == Substr(socket, 0, MaxRead)

\* Mutated form: EAGAIN returns the -1 of recv.
BytesUnchecked == IF socket = <<>> /\ fin = "no" THEN Npos ELSE Len(Taken)

\* Bytes returned: 0 for EAGAIN as for the end of the stream.
Bytes == Len(Taken)

ReadSoFar == IF reads = <<>> THEN 0 ELSE reads[Len(reads)]

\* append takes the bytes as a C string: what follows a NUL is dropped.
Appended == buffer \o Substr(Taken, 0, Find(Taken, <<NUL>>, 0))

Read ==
  /\ fin # "reset"
  /\ buffer' = Appended /\ socket' = RemovePrefix(socket, Len(Taken))
  /\ reads' = IF Bytes = 0 THEN reads ELSE Append(reads, ReadSoFar + Bytes)

-----------------------------------------------------------------------------
\* Receiver

\* split_until_body: what HeadersMap gets, which may be another part of the
\* buffer than the search found.
HeadersView(text) ==
  LET view == RemovePrefix(text, Find(text, Endline, 0) + Len(Endline))
  IN Substr(view, 0, Find(view, HeadersEnd, 0) + Len(Endline))

\* The Content-Length of a text: Npos without one, NoNumber for no number.
Declared(text) ==
  LET at == FindIn(HeadersView(text), (48 .. 57) \cup {NoNumber}, 0)
  IN IF at = Npos THEN Npos
     ELSE IF HeadersView(text)[at + 1] = NoNumber THEN NoNumber
     ELSE HeadersView(text)[at + 1] - 48

\* HeadersMap gets an empty line, which has no value, when the request has no
\* headers and what came behind it has: split_until_body goes on to their end.
HasEmptyLine(text) == Find(HeadersView(text), Endline, 0) = 0

\* The end of the headers is found: parse them, and go on with the body.
Headers(end) ==
  LET declared == Declared(Appended)
      throws   == HasEmptyLine(Appended) \/ declared = NoNumber
  IN IF throws \/ declared = Npos
     THEN /\ pc' = IF throws THEN "thrown" ELSE "done"
          /\ UNCHANGED <<start, length, was_read>>
     ELSE /\ pc' = "first" /\ start' = end + Len(HeadersEnd) /\ length' = declared
          /\ was_read' = Len(Appended) - start'

\* Mutated form: pos moves before the search.
ReceiveMoved ==
  /\ pc = "headers" /\ Readable /\ Read
  /\ LET end == Find(Appended, HeadersEnd, pos + Bytes)
     IN IF end # Npos THEN Headers(end) /\ UNCHANGED pos
        ELSE pos' = pos + Bytes /\ UNCHANGED <<pc, start, length, was_read>>
  /\ UNCHANGED <<client, body>>

\* One round of receive, up to its yield.
Receive ==
  /\ pc = "headers" /\ Readable /\ Read
  /\ LET end == Find(Appended, HeadersEnd, pos)
     IN IF end # Npos THEN Headers(end) /\ UNCHANGED pos
        ELSE pos' = pos + Bytes /\ UNCHANGED <<pc, start, length, was_read>>
  /\ UNCHANGED <<client, body>>

\* Mutated form: the rest of the buffer is the body.
ReadBodyToTheEnd ==
  /\ pc = "first" \/ (pc = "body" /\ Readable)
  /\ Read /\ was_read' = was_read + Bytes
  /\ IF was_read' < length THEN pc' = "body" /\ UNCHANGED body
     ELSE pc' = "done" /\ body' = Substr(Appended, start, Npos)
  /\ UNCHANGED <<client, pos, start, length>>

\* One round of read_body: the first one follows at once and always reads.
ReadBody ==
  /\ pc = "first" \/ (pc = "body" /\ Readable)
  /\ Read /\ was_read' = was_read + Bytes
  /\ IF was_read' < length THEN pc' = "body" /\ UNCHANGED body
     ELSE pc' = "done" /\ body' = Substr(Appended, start, length)
  /\ UNCHANGED <<client, pos, start, length>>

\* A reset connection: tcp_error.
ReadFails ==
  /\ pc \in {"headers", "first", "body"} /\ fin = "reset" /\ pc' = "thrown"
  /\ UNCHANGED <<client, socket, buffer, pos, reads, start, length, was_read, body>>

\* The manager kills the routine in its yield.
Kill ==
  /\ pc \in {"headers", "body"} /\ pc' = "thrown"
  /\ UNCHANGED <<client, socket, buffer, pos, reads, start, length, was_read, body>>

Next == ClientSends \/ ClientEnds \/ Receive \/ ReadBody \/ ReadFails \/ Kill

Spec == Init /\ [][Next]_vars

-----------------------------------------------------------------------------
Got == Substr(stream, 0, ReadSoFar)   \* what was read of the stream

\* Types: no more is read at once than `buffer' of Connection::read has room
\* for, sizes are never negative, and nothing but NUL and what follows is lost.
TypeOK ==
  /\ fin \in {"no", "closed", "reset"}
  /\ pc \in {"headers", "first", "body", "done", "thrown"}
  /\ reads \in Seq(Nat)
  /\ \A k \in DOMAIN reads :
       reads[k] - (IF k = 1 THEN 0 ELSE reads[k - 1]) \in 1 .. MaxRead
  /\ stream = Got \o socket \o unsent
  /\ Len(buffer) <= Len(Got) /\ (Find(Got, <<NUL>>, 0) = Npos => buffer = Got)
  /\ pos \in Nat /\ start \in 0 .. Len(buffer) /\ was_read \in Nat /\ length \in 0 .. 9

\* What the client meant: the end of its headers, their Content-Length, and the
\* end of its request.
End == Find(stream, HeadersEnd, 0)
BodyStart == End + Len(HeadersEnd)
Meant == Declared(Substr(stream, 0, BodyStart))
Request == BodyStart + (IF Meant \in {Npos, NoNumber} THEN 0 ELSE Meant)
NoNul == Find(Substr(stream, 0, IF End = Npos THEN Npos ELSE Request), <<NUL>>, 0) = Npos

\* The end of a read lies inside the end of the headers.
Cut == End # Npos /\ \E k \in DOMAIN reads : reads[k] - End \in 1 .. 3

\* Unless the end of the headers is cut, a request without NUL that is received is
\* received as it was meant, wherever the network and the reads cut it: the body is
\* the declared number of bytes behind the headers, also when more is in the buffer,
\* and a text without an end of headers is no request.  The headers of what follows
\* are never taken for those of a request.
BodyIsTheDeclaredPart ==
  pc = "done" /\ ~Cut /\ NoNul =>
    End # Npos /\ body = Substr(stream, BodyStart, Request - BodyStart)

\* receive yields only when the request is not complete - or for ever, when a
\* read had cut the end of the headers or a NUL came before it.
YieldsForAReason ==
  pc \in {"headers", "body"} /\ End # Npos /\ Len(Got) >= Request =>
    Cut \/ Find(Got, <<NUL>>, 0) # Npos
=============================================================================
