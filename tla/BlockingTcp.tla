---------------------------- MODULE BlockingTcp -----------------------------
(***************************************************************************)
(* hw-3: tcp::Server and tcp::Connection in the server of                  *)
(* example/test1.cpp, which takes one client after the other and prints    *)
(* what it sends byte by byte, and in clients that connect, write, close   *)
(* and connect again.  Calls block.  accept may fail and connections may   *)
(* be reset at any time.                                                   *)
(***************************************************************************)
EXTENDS Integers, Sequences, FiniteSets

CONSTANTS
  Clients,
  Backlog,     (* g_default_max_connections *)
  Buffer,      (* bytes of a connection the system holds *)
  MaxConnects, (* bound on the connections of a client *)
  MaxBytes     (* bound on the bytes written to a connection *)

\* What the constants have to be; the module that instantiates this one asserts it.
BlockingTcpAssumption ==
  /\ Backlog \in Nat \ {0} /\ Buffer \in Nat \ {0}
  /\ MaxConnects \in Nat /\ MaxBytes \in Nat

Connections == Clients \X (1 .. MaxConnects)
None == <<>>

VARIABLES
  pc,     (* the main of the server: "accept", "read" or "ended" *)
  queue,  (* connections that wait for accept *)
  cur,    (* serverEndPoint, or None *)
  peer,   (* [Connections -> the client's side: "none", "open", "closed", "reset"] *)
  sent, got,  (* [Connections -> bytes handed to the system, bytes printed] *)
  out,    (* what the server printed: the connection of each byte *)
  conns,  (* [Clients -> connections made]; the last one is its fd_ *)
  left    (* [Clients -> bytes that writeExact has still to write] *)

vars == <<pc, queue, cur, peer, sent, got, out, conns, left>>
server == <<pc, queue, cur, got, out>>

Init ==
  /\ pc \in {"accept", "ended"}   \* the constructor may throw: bind, listen
  /\ queue = <<>> /\ cur = None /\ out = <<>>
  /\ peer = [k \in Connections |-> "none"]
  /\ sent = [k \in Connections |-> 0] /\ got = [k \in Connections |-> 0]
  /\ conns = [c \in Clients |-> 0] /\ left = [c \in Clients |-> 0]

Fd(c) == <<c, conns[c]>>
IsOpened(c) == conns[c] > 0 /\ peer[Fd(c)] = "open"

-----------------------------------------------------------------------------
\* A client

\* The new socket replaces the old one, which is closed first.
Connect(c) ==
  /\ pc # "ended" /\ left[c] = 0 /\ conns[c] < MaxConnects /\ Len(queue) < Backlog
  /\ conns' = [conns EXCEPT ![c] = @ + 1]
  /\ peer' = [k \in Connections |->
                CASE k = <<c, conns[c] + 1>> -> "open"
                  [] k = Fd(c) /\ peer[k] = "open" -> "closed"
                  [] OTHER -> peer[k]]
  /\ queue' = Append(queue, <<c, conns[c] + 1>>)
  /\ UNCHANGED <<pc, cur, sent, got, out, left>>

WriteExact(c) ==
  /\ IsOpened(c) /\ left[c] = 0
  /\ \E n \in 1 .. MaxBytes - sent[Fd(c)] : left' = [left EXCEPT ![c] = n]
  /\ UNCHANGED <<server, peer, sent, conns>>

\* Mutated form: one call that does not wait for room.
WriteAll(c) ==
  /\ left[c] > 0 /\ IsOpened(c) /\ pc # "ended"
  /\ sent' = [sent EXCEPT ![Fd(c)] = @ + left[c]]
  /\ left' = [left EXCEPT ![c] = 0]
  /\ UNCHANGED <<server, peer, conns>>

\* One round of writeExact: as much as there is room for, at least a byte.
Write(c) ==
  /\ left[c] > 0 /\ IsOpened(c) /\ pc # "ended"
  /\ \E n \in 1 .. left[c] :
       /\ sent[Fd(c)] + n - got[Fd(c)] <= Buffer
       /\ sent' = [sent EXCEPT ![Fd(c)] = @ + n]
       /\ left' = [left EXCEPT ![c] = @ - n]
  /\ UNCHANGED <<server, peer, conns>>

\* set_timeout sets SO_SNDTIMEO only (SO_SNDTIMEO | SO_RCVTIMEO is its number):
\* write throws out of writeExact before close(), and the client goes on.
WriteTimesOut(c) ==
  /\ left[c] > 0 /\ IsOpened(c) /\ sent[Fd(c)] - got[Fd(c)] = Buffer
  /\ left' = [left EXCEPT ![c] = 0]
  /\ UNCHANGED <<server, peer, sent, conns>>

\* The server is gone, or the connection was reset: socket_error, or SIGPIPE.
WriteFails(c) ==
  /\ left[c] > 0 /\ (pc = "ended" \/ ~IsOpened(c))
  /\ left' = [left EXCEPT ![c] = 0]
  /\ peer' = [peer EXCEPT ![Fd(c)] = IF @ = "open" THEN "closed" ELSE @]
  /\ UNCHANGED <<server, sent, conns>>

Close(c) ==
  /\ IsOpened(c) /\ left[c] = 0
  /\ peer' = [peer EXCEPT ![Fd(c)] = "closed"]
  /\ UNCHANGED <<server, sent, conns, left>>

Reset(c) ==
  /\ IsOpened(c) /\ peer' = [peer EXCEPT ![Fd(c)] = "reset"]
  /\ UNCHANGED <<server, sent, conns, left>>

-----------------------------------------------------------------------------
\* The server

\* Mutated form: the newest connection first.
AcceptNewest ==
  /\ pc = "accept" /\ queue # <<>>
  /\ cur' = queue[Len(queue)] /\ queue' = SubSeq(queue, 1, Len(queue) - 1)
  /\ pc' = "read"
  /\ UNCHANGED <<peer, sent, got, out, conns, left>>

Accept ==
  /\ pc = "accept" /\ queue # <<>>
  /\ cur' = Head(queue) /\ queue' = Tail(queue) /\ pc' = "read"
  /\ UNCHANGED <<peer, sent, got, out, conns, left>>

\* accept_error, outside of main's try: the program ends for everybody.
AcceptFails ==
  /\ pc = "accept" /\ pc' = "ended" /\ queue' = <<>>
  /\ UNCHANGED <<cur, peer, sent, got, out, conns, left>>

\* Mutated form: two bytes are read at a time.
ReadTwoBytes ==
  /\ pc = "read" /\ peer[cur] # "reset" /\ got[cur] + 1 < sent[cur]
  /\ got' = [got EXCEPT ![cur] = @ + 2] /\ out' = out \o <<cur, cur>>
  /\ UNCHANGED <<pc, queue, cur, peer, sent, conns, left>>

\* readExact(&c, 1), and the byte is printed.
ReadByte ==
  /\ pc = "read" /\ peer[cur] # "reset" /\ got[cur] < sent[cur]
  /\ got' = [got EXCEPT ![cur] = @ + 1] /\ out' = Append(out, cur)
  /\ UNCHANGED <<pc, queue, cur, peer, sent, conns, left>>

\* Mutated forms: the first pause ends a connection; a reset does not.
ReadFailsEarly ==
  /\ pc = "read" /\ (peer[cur] # "open" \/ (got[cur] > 0 /\ got[cur] = sent[cur]))
  /\ pc' = "accept" /\ cur' = None
  /\ UNCHANGED <<queue, peer, sent, got, out, conns, left>>
ReadFailsAtEnd ==
  /\ pc = "read" /\ peer[cur] = "closed" /\ got[cur] = sent[cur]
  /\ pc' = "accept" /\ cur' = None
  /\ UNCHANGED <<queue, peer, sent, got, out, conns, left>>

\* recv returns 0 or -1: a tcp::error, which main reports; serverEndPoint ends.
ReadFails ==
  /\ pc = "read"
  /\ peer[cur] = "reset" \/ (peer[cur] = "closed" /\ got[cur] = sent[cur])
  /\ pc' = "accept" /\ cur' = None
  /\ UNCHANGED <<queue, peer, sent, got, out, conns, left>>

Server == Accept \/ ReadByte \/ ReadFails
Client(c) == Write(c) \/ WriteFails(c)
User(c) == Connect(c) \/ WriteExact(c) \/ WriteTimesOut(c) \/ Close(c) \/ Reset(c)

Next == Server \/ AcceptFails \/ \E c \in Clients : Client(c) \/ User(c)

Spec == Init /\ [][Next]_vars

\* The server and a writeExact that has room go on; users need not.
FairSpec == Spec /\ WF_vars(Server) /\ \A c \in Clients : WF_vars(Client(c))

-----------------------------------------------------------------------------
\* Types; no connection has more bytes in flight than the system holds, and
\* the backlog is bounded.
TypeOK ==
  /\ pc \in {"accept", "read", "ended"}
  /\ queue \in Seq(Connections) /\ Len(queue) <= Backlog
  /\ cur \in Connections \cup {None} /\ (cur # None <=> pc = "read")
  /\ peer \in [Connections -> {"none", "open", "closed", "reset"}]
  /\ \A k \in Connections : got[k] \in 0 .. sent[k] /\ sent[k] <= got[k] + Buffer
  /\ out \in Seq(Connections)
  /\ conns \in [Clients -> 0 .. MaxConnects] /\ left \in [Clients -> 0 .. MaxBytes]

\* One client after the other, each until its end: the bytes of a connection are
\* printed together, those of a client in the order of its connections.
NotMixed ==
  \A i, j \in DOMAIN out : i < j =>
    /\ out[i] = out[j] => \A m \in i .. j : out[m] = out[i]
    /\ out[i][1] = out[j][1] => out[i][2] <= out[j][2]

\* A connection that its client closed, also by connecting again, is printed to
\* its last byte before the server turns to the next one.
Waiting(k) == k = cur \/ \E i \in DOMAIN queue : queue[i] = k
ClosedIsComplete ==
  \A k \in Connections :
    peer[k] \in {"open", "closed"} /\ ~Waiting(k) /\ pc # "ended" =>
      peer[k] = "closed" /\ got[k] = sent[k]

\* The server waits for one client at a time: a connection is served once all
\* connections accepted before it have ended.
ServedInTurn ==
  \A k \in Connections :
    (/\ \E i \in DOMAIN queue : queue[i] = k /\ \A j \in 1 .. i - 1 : peer[queue[j]] # "open"
     /\ cur # None => peer[cur] # "open")
    ~> (cur = k \/ pc = "ended")

\* writeExact ends, unless its connection is not served: another client is.
WritesEnd ==
  \A c \in Clients :
    (left[c] > 0 /\ cur = Fd(c)) ~> (left[c] = 0 \/ peer[Fd(c)] # "open")
=============================================================================
