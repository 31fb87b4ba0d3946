----------------------------- MODULE TcpServer -----------------------------
(***************************************************************************)
(* hw-4: tcp::Server with its EpollManager, running the callback and the   *)
(* main loop of examples/echo_server.cpp, in one thread.                   *)
(*                                                                         *)
(* A client sends a stream of units (two bytes each; "stop" is two units)  *)
(* that reaches its socket one unit at a time, so that the server's reads  *)
(* cut it anywhere.  The server collects what it reads and sends it back   *)
(* once it is a packet long or ends with "stop".                           *)
(***************************************************************************)
EXTENDS Integers, Sequences, FiniteSets, Functions

CONSTANTS
  Clients,
  Fds,       (* descriptor numbers accept can return *)
  Master,    (* Server::masterSocket_ *)
  Unit,      (* two bytes of a stream *)
  Stop,      (* the two units of "stop" *)
  Sends,     (* [Clients -> what the client sends] *)
  Slow,      (* clients that may leave what they get unread for ever *)
  Packet,    (* PACKET_SIZE, in units *)
  MaxRead,   (* MAX_BYTES_READ, in units *)
  CtlFails   (* epoll_ctl may fail *)

ASSUME FdsAssumption == Fds \subseteq Nat /\ IsFiniteSet(Fds) /\ Master \notin Fds
ASSUME StreamAssumption ==
  /\ Stop \in Seq(Unit) /\ Len(Stop) = 2
  /\ Sends \in [Clients -> Seq(Unit)]
  /\ Slow \subseteq Clients
ASSUME SizeAssumption ==
  /\ Packet \in Nat /\ Packet >= Len(Stop)
  /\ MaxRead \in Nat \ {0}
  /\ CtlFails \in BOOLEAN

VARIABLES
  link,       (* [Clients -> idle, queued in the backlog, open or closed] *)
  peer,       (* [Clients -> what the other end did: up, fin or reset] *)
  sent,       (* [Clients -> units that arrived at the socket] *)
  got,        (* [Clients -> units read from it] *)
  echoed,     (* [Clients -> what send took for the client] *)
  missing,    (* history: [Clients -> how many units send did not take] *)
  full,       (* clients whose send buffer has no room *)
  slaves,     (* EpollManager::slaveSockets_, a function on some of Fds *)
  todo,       (* the rest of Events *)
  accepting,  (* in acceptClients *)
  alive       (* main has not returned *)

clientVars == <<link, peer, sent, full>>
vars == <<clientVars, got, echoed, missing, slaves, todo, accepting, alive>>

Event == {"READ_EVENT", "WRITE_EVENT"}

\* A Connection of the table: open, or closed by the callback and left there.
Connection == [opened: {TRUE}, con: Clients, buffer: Seq(Unit), event: Event]
Left == [opened |-> FALSE]

\* What epoll_wait reports: the descriptor and EPOLLERR or EPOLLHUP.
Report == [fd: Fds \cup {Master}, broken: BOOLEAN]
MasterReport == [fd |-> Master, broken |-> FALSE]

Init ==
  /\ link = [c \in Clients |-> "idle"]
  /\ peer = [c \in Clients |-> "up"]
  /\ sent = [c \in Clients |-> 0]
  /\ got = [c \in Clients |-> 0]
  /\ echoed = [c \in Clients |-> <<>>]
  /\ missing = [c \in Clients |-> 0]
  /\ full = {}
  /\ slaves = [f \in {} |-> Left]
  /\ todo = {}
  /\ accepting = FALSE
  /\ alive = TRUE

-----------------------------------------------------------------------------
\* Streams.

\* buffer.substr(buffer.size() - 4) == "stop", of a buffer that has 4 bytes.
EndsWithStop(s) == Len(s) >= 2 /\ SubSeq(s, Len(s) - 1, Len(s)) = Stop

\* Mutated form: the callback does not shorten the buffer.
StopStays(s) == s

\* buffer.resize(buffer.size() - 4), if it ends with "stop".
WithoutStop(s) == IF EndsWithStop(s) THEN SubSeq(s, 1, Len(s) - 2) ELSE s

\* Mutated form: as many units as asked for, arrived or not.
ChunkAsAsked(c) ==
  SubSeq(Sends[c], got[c] + 1,
         IF got[c] + MaxRead < Len(Sends[c]) THEN got[c] + MaxRead ELSE Len(Sends[c]))

\* What one recv returns: all that arrived, up to MAX_BYTES_READ.
Chunk(c) ==
  SubSeq(Sends[c], got[c] + 1, IF got[c] + MaxRead < sent[c] THEN got[c] + MaxRead ELSE sent[c])

-----------------------------------------------------------------------------
\* The clients and the network.

Connect(c) ==
  /\ alive /\ link[c] = "idle"
  /\ link' = [link EXCEPT ![c] = "queued"]
  /\ UNCHANGED <<peer, sent, full, got, echoed, missing, slaves, todo, accepting, alive>>

SendUnit(c) ==
  /\ link[c] \in {"queued", "open"} /\ peer[c] = "up" /\ sent[c] < Len(Sends[c])
  /\ sent' = [sent EXCEPT ![c] = @ + 1]
  /\ UNCHANGED <<link, peer, full, got, echoed, missing, slaves, todo, accepting, alive>>

Disconnect(c) ==
  /\ link[c] \in {"queued", "open"}
  /\ \/ peer[c] = "up" /\ peer' = [peer EXCEPT ![c] = "fin"]
     \/ peer[c] # "reset" /\ peer' = [peer EXCEPT ![c] = "reset"]
  /\ UNCHANGED <<link, sent, full, got, echoed, missing, slaves, todo, accepting, alive>>

Drain(c) ==
  /\ c \in full /\ full' = full \ {c}
  /\ UNCHANGED <<link, peer, sent, got, echoed, missing, slaves, todo, accepting, alive>>

-----------------------------------------------------------------------------
\* EpollManager::run.

OpenFds == {f \in DOMAIN slaves : slaves[f].opened}

\* Level-triggered: what the connection is registered for can be done at once.
ReadyFor(e) ==
  IF e.event = "READ_EVENT" THEN got[e.con] < sent[e.con] \/ peer[e.con] # "up"
                            ELSE e.con \notin full

\* Mutated form: the constructor does not register the master socket.
ReportsOfSlaves ==
  {[fd |-> f, broken |-> FALSE] :
     f \in {g \in OpenFds : peer[slaves[g].con] # "reset" /\ ReadyFor(slaves[g])}}
  \cup {[fd |-> f, broken |-> TRUE] : f \in {g \in OpenFds : peer[slaves[g].con] = "reset"}}

Reports ==
  {[fd |-> f, broken |-> FALSE] :
     f \in {g \in OpenFds : peer[slaves[g].con] # "reset" /\ ReadyFor(slaves[g])}}
  \cup {[fd |-> f, broken |-> TRUE] : f \in {g \in OpenFds : peer[slaves[g].con] = "reset"}}
  \cup {r \in {MasterReport} : \E c \in Clients : link[c] = "queued"}

\* epoll_wait has no timeout: it returns when something is ready.
Wake ==
  /\ alive /\ ~accepting /\ todo = {} /\ Reports # {}
  /\ todo' = Reports
  /\ UNCHANGED <<clientVars, got, echoed, missing, slaves, accepting, alive>>

AcceptClients ==
  /\ ~accepting /\ MasterReport \in todo
  /\ todo' = todo \ {MasterReport}
  /\ accepting' = TRUE
  /\ UNCHANGED <<clientVars, got, echoed, missing, slaves, alive>>

\* Mutated form: the new manager goes on with the static array of events.
RestartInTheLoop(accepted) ==
  /\ CtlFails
  /\ link' = [c \in Clients |-> IF link[c] = "open" \/ c \in accepted THEN "closed" ELSE link[c]]
  /\ slaves' = [f \in {} |-> Left]
  /\ accepting' = FALSE
  /\ UNCHANGED todo

\* The manager and its connections are destroyed, with those just accepted,
\* when an epoll_error leaves run(); main catches it and eventLoop() starts over
\* with a new manager.
Restart(accepted) ==
  /\ CtlFails
  /\ link' = [c \in Clients |-> IF link[c] = "open" \/ c \in accepted THEN "closed" ELSE link[c]]
  /\ slaves' = [f \in {} |-> Left]
  /\ todo' = {}
  /\ accepting' = FALSE

FreeFds == Fds \ OpenFds

\* addNewConnection assigns to the entry of the descriptor, over the closed
\* connection that may have been left there.
AddNewConnection(c, fd) ==
  /\ slaves' = [f \in DOMAIN slaves \cup {fd} |->
                  IF f = fd THEN [opened |-> TRUE, con |-> c, buffer |-> <<>>,
                                  event |-> "READ_EVENT"]
                            ELSE slaves[f]]
  /\ link' = [link EXCEPT ![c] = "open"]

\* One turn of acceptClients' loop: accept returns the lowest free number.
Accept(c, fd) ==
  /\ accepting /\ link[c] = "queued"
  /\ fd \in FreeFds /\ \A free \in FreeFds : fd <= free
  /\ \/ AddNewConnection(c, fd) /\ UNCHANGED <<todo, accepting>>
     \/ Restart({c})
  /\ UNCHANGED <<peer, sent, full, got, echoed, missing, alive>>

AcceptWouldBlock ==
  /\ accepting /\ FreeFds # {} /\ \A c \in Clients : link[c] # "queued"
  /\ accepting' = FALSE
  /\ UNCHANGED <<clientVars, got, echoed, missing, slaves, todo, alive>>

\* Without a free number accept fails before it looks at the backlog, which may be
\* empty.  accept_error is no epoll_error: main returns and everything is closed.
AcceptFails ==
  /\ accepting /\ FreeFds = {}
  /\ link' = [c \in Clients |-> IF link[c] = "idle" THEN "idle" ELSE "closed"]
  /\ slaves' = [f \in {} |-> Left]
  /\ todo' = {}
  /\ accepting' = FALSE
  /\ alive' = FALSE
  /\ UNCHANGED <<peer, sent, full, got, echoed, missing>>

-----------------------------------------------------------------------------
\* EpollManager::handleClient, with the callback.

Handled(r) == r \in todo /\ r.fd # Master /\ ~accepting

Others(r) == todo' = todo \ {r}

\* Mutated form: the destructor of the entry leaves the descriptor open.
EraseOnly(f) ==
  /\ slaves' = Restrict(slaves, DOMAIN slaves \ {f})
  /\ UNCHANGED link

\* deleteConnection: the entry goes, and its destructor closes the descriptor.
Delete(f) ==
  /\ slaves' = Restrict(slaves, DOMAIN slaves \ {f})
  /\ link' = [link EXCEPT ![slaves[f].con] = "closed"]

\* Mutated form: the callback forgets to close.
StayOpen(f) == UNCHANGED <<slaves, link>>

\* Connection::close in the callback.  deleteConnection then erases the key
\* fd_, which is -1 by now, and the entry stays.
Close(f) ==
  /\ slaves' = [slaves EXCEPT ![f] = Left]
  /\ link' = [link EXCEPT ![slaves[f].con] = "closed"]

\* Mutated form: no clear_buffer after a write.
ContinueUncleared(f, buffer, event) ==
  /\ slaves' = [slaves EXCEPT ![f] =
       [slaves[f] EXCEPT !.buffer = IF buffer = <<>> THEN @ ELSE buffer, !.event = event]]
  /\ UNCHANGED link

\* The connection after the callback; changeEvent when the callback asks for
\* another event.
Continue(f, buffer, event) ==
  /\ slaves' = [slaves EXCEPT ![f] = [slaves[f] EXCEPT !.buffer = buffer, !.event = event]]
  /\ UNCHANGED link

HandleBroken(r) ==
  /\ Handled(r) /\ r.broken
  /\ Delete(r.fd) /\ Others(r)
  /\ UNCHANGED <<peer, sent, full, got, echoed, missing, accepting, alive>>

Reading(r) == Handled(r) /\ ~r.broken /\ slaves[r.fd].event = "READ_EVENT"

\* recv finds data.  With fewer than 4 bytes in the buffer substr throws, and
\* the connection is deleted as after any exception.
Read(r) ==
  /\ Reading(r)
  /\ LET con == slaves[r.fd].con
         buffer == slaves[r.fd].buffer \o Chunk(con)
     IN /\ got[con] < sent[con]
        /\ got' = [got EXCEPT ![con] = @ + Len(Chunk(con))]
        /\ \/ /\ Len(buffer) >= Packet \/ EndsWithStop(buffer)
              /\ \/ Continue(r.fd, buffer, "WRITE_EVENT") /\ Others(r) /\ UNCHANGED accepting
                 \/ Restart({})
           \/ /\ Len(buffer) < 2
              /\ Delete(r.fd) /\ Others(r) /\ UNCHANGED accepting
           \/ /\ Len(buffer) \in 2 .. Packet - 1 /\ ~EndsWithStop(buffer)
              /\ Continue(r.fd, buffer, "READ_EVENT") /\ Others(r) /\ UNCHANGED accepting
  /\ UNCHANGED <<peer, sent, full, echoed, missing, alive>>

\* recv finds no data: 0 after a fin, else an error, which read() throws.
ReadNothing(r) ==
  /\ Reading(r)
  /\ LET con == slaves[r.fd].con
     IN /\ got[con] = sent[con]
        /\ IF peer[con] = "fin" THEN Close(r.fd) ELSE Delete(r.fd)
  /\ Others(r)
  /\ UNCHANGED <<peer, sent, full, got, echoed, missing, accepting, alive>>

Writing(r) == Handled(r) /\ ~r.broken /\ slaves[r.fd].event = "WRITE_EVENT"

\* How much send takes: all, or what there is room for, also if the client reads.
Taken(out) == IF out = <<>> THEN {0} ELSE 1 .. Len(out)

\* What send did not take is dropped with the buffer.  There may be no room behind it.
Write(r) ==
  /\ Writing(r)
  /\ LET con == slaves[r.fd].con
         buffer == slaves[r.fd].buffer
         out == WithoutStop(buffer)
     IN /\ peer[con] # "reset"
        /\ \E n \in Taken(out) :
             /\ echoed' = [echoed EXCEPT ![con] = @ \o SubSeq(out, 1, n)]
             /\ missing' = [missing EXCEPT ![con] = @ + (Len(out) - n)]
             /\ full' \in {full \cup {con}} \cup IF n < Len(out) THEN {} ELSE {full}
        /\ \/ EndsWithStop(buffer) /\ Close(r.fd) /\ Others(r) /\ UNCHANGED accepting
           \/ /\ ~EndsWithStop(buffer)
              /\ \/ Continue(r.fd, <<>>, "READ_EVENT") /\ Others(r) /\ UNCHANGED accepting
                 \/ Restart({})
  /\ UNCHANGED <<peer, sent, got, alive>>

\* send fails since the event was reported, and write() throws.
WriteFails(r) ==
  /\ Writing(r) /\ peer[slaves[r.fd].con] = "reset"
  /\ Delete(r.fd) /\ Others(r)
  /\ UNCHANGED <<peer, sent, full, got, echoed, missing, accepting, alive>>

Server ==
  \/ Wake \/ AcceptClients \/ AcceptWouldBlock \/ AcceptFails
  \/ \E c \in Clients, fd \in Fds : Accept(c, fd)
  \/ \E r \in Report :
       HandleBroken(r) \/ Read(r) \/ ReadNothing(r) \/ Write(r) \/ WriteFails(r)

World == \E c \in Clients : Connect(c) \/ SendUnit(c) \/ Disconnect(c) \/ Drain(c)

Next == Server \/ World

Spec == Init /\ [][Next]_vars

\* The thread of the server is scheduled, and clients that are not slow read what
\* they get; they promise nothing else.
FairSpec == Spec /\ WF_vars(Server) /\ \A c \in Clients \ Slow : WF_vars(Drain(c))

-----------------------------------------------------------------------------
\* Properties.

Received(c) == SubSeq(Sends[c], 1, got[c])

TypeOK ==
  /\ link \in [Clients -> {"idle", "queued", "open", "closed"}]
  /\ peer \in [Clients -> {"up", "fin", "reset"}]
  /\ sent \in [Clients -> Nat] /\ got \in [Clients -> Nat]
  /\ \A c \in Clients : got[c] <= sent[c] /\ sent[c] <= Len(Sends[c])
  /\ echoed \in [Clients -> Seq(Unit)]
  /\ missing \in [Clients -> Nat] /\ full \subseteq Clients
  /\ slaves \in [DOMAIN slaves -> Connection \cup {Left}] /\ DOMAIN slaves \subseteq Fds
  /\ todo \subseteq Report
  /\ accepting \in BOOLEAN /\ alive \in BOOLEAN

\* An event of the array still to be handled points to a connection that is
\* open and can do what the event says, whatever the earlier events of the
\* array made the manager accept, close or delete.
EventsAreCurrent ==
  \A r \in todo : r.fd # Master =>
    /\ r.fd \in OpenFds
    /\ peer[slaves[r.fd].con] = "reset" \/ (~r.broken /\ ReadyFor(slaves[r.fd]))

\* The accepted connections that are not closed are those of the table, each
\* under one descriptor: none is leaked, and none is closed but still served.
OpenConnectionsAreServed ==
  /\ \A c \in Clients : link[c] = "open" => \E f \in OpenFds : slaves[f].con = c
  /\ \A f \in OpenFds : link[slaves[f].con] = "open"
  /\ \A f, g \in OpenFds : slaves[f].con = slaves[g].con => f = g

\* s is the stream t without m of its units: the i-th unit of s is the one h[i]
\* further on in t.
Without(s, t, m) ==
  \E h \in [1 .. Len(s) -> 0 .. m] :
    \A i, j \in 1 .. Len(s) : s[i] = t[i + h[i]] /\ (i <= j => h[i] <= h[j])

\* What a client got back and what is buffered for it are what it sent, once and in
\* order, without the units that send did not take and nothing else: all of it, when
\* send took all.  The buffer is the end of what was received.
OnlyUntakenIsLost ==
  \A f \in OpenFds :
    LET c == slaves[f].con
        b == slaves[f].buffer
    IN /\ Without(echoed[c] \o b, Sends[c], missing[c])
       /\ Len(echoed[c]) + Len(b) + missing[c] = got[c]
       /\ b = SubSeq(Sends[c], got[c] - Len(b) + 1, got[c])

\* While the peer is up and epoll_ctl does not fail, the server closes a
\* connection when the "stop" at the end of what it received is the only thing that
\* was not handed to send, or there are less than 4 bytes to look for one.
ClosesForAReason ==
  [][\A c \in Clients :
       link[c] = "open" /\ link'[c] = "closed" /\ peer[c] = "up" /\ alive' /\ ~CtlFails =>
         LET rest == got'[c] - Len(echoed'[c]) - missing'[c]
         IN rest = 1 \/ (rest = 2 /\ EndsWithStop(Received(c)'))]_vars

\* A connection that the peer ended, or whose stream ended with "stop", is
\* closed; only a peer that does not read can delay it until it resets.
ConnectionsEnd ==
  \A c \in Clients :
    /\ link[c] = "open" /\ peer[c] = "reset" ~> link[c] = "closed"
    /\ c \notin Slow =>
         ( /\ link[c] = "open"
           /\ peer[c] = "fin" \/ (sent[c] = Len(Sends[c]) /\ EndsWithStop(Sends[c])) )
         ~> link[c] = "closed"

\* A client in the backlog is accepted, or refused when the server ends.
QueuedAreAccepted == \A c \in Clients : link[c] = "queued" ~> link[c] # "queued"

=============================================================================
