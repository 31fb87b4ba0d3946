---------------------------- MODULE EpollManager ----------------------------
(***************************************************************************)
(* hw-6/HttpFramework: Server::run and the EpollManager each of its        *)
(* threads runs, with the coroutine that serves each connection.           *)
(*                                                                         *)
(* The managers share the listening socket and the descriptor numbers of   *)
(* the process; everything else is local to a thread.  A manager is split  *)
(* where the rest of the world can act: at epoll_wait, at each accept, and *)
(* at each system call the coroutine makes on its connection.  The         *)
(* coroutines are those of Coroutine, seen through RoutineLifecycle.       *)
(* A coroutine keeps a reference to the RoutineInfo it was started with;   *)
(* once that is erased, its memory may be given to a RoutineInfo of any    *)
(* manager, and the coroutine then uses the connection of that one.        *)
(*                                                                         *)
(* A request is a number of segments, each read by one recv; the peer may  *)
(* send them, close (fin) or reset at any time.  The process has the       *)
(* descriptors Fds for its connections.                                    *)
(***************************************************************************)
EXTENDS Integers, FiniteSets, Functions

CONSTANTS
  Threads,   (* the managers *)
  Clients,   (* the connections that will be made *)
  Fds,       (* descriptor numbers accept4 can return *)
  Master,    (* Server::masterSocket_ *)
  Request,   (* what each client asks, see RequestKind *)
  NoFd

RequestKind == [segments: Nat \ {0},  (* recv calls its request takes *)
                valid: BOOLEAN,       (* parses, and onRequest returns *)
                keepAlive: BOOLEAN,   (* "Connection: Keep-Alive" *)
                slow: BOOLEAN,        (* its window may not take a response *)
                aborts: BOOLEAN]      (* it may close before it sent all *)

ASSUME RequestAssumption == Request \in [Clients -> RequestKind]
ASSUME FdsAssumption ==
  Fds \subseteq Nat /\ IsFiniteSet(Fds) /\ Master \notin Fds /\ NoFd \notin Fds

VARIABLES
  link,      (* [Clients -> idle, queued in the backlog, open or closed] *)
  peer,      (* [Clients -> what the other end did: up, fin or reset] *)
  sent,      (* [Clients -> segments that arrived at the socket] *)
  got,       (* [Clients -> segments read into Connection::buffer_] *)
  cleared,   (* the connections whose request was taken out of the buffer *)
  replies,   (* [Clients -> whose requests the responses it got answer] *)
  strayed,   (* history: connections used by the coroutine of another one *)
  descriptors, (* the open numbers of the process, each with its connection *)
  routines,  (* [Threads -> EpollManager::routines_] *)
  table,     (* [Threads -> the routines of the thread's ordinator] *)
  pc,        (* [Threads -> where the manager is] *)
  todo,      (* [Threads -> events or timed out ids still to be handled] *)
  cur,       (* [Threads -> the id given to resume or kill] *)
  killing,   (* [Threads -> in checkTimeouts rather than in the event loop] *)
  alive      (* the process has not been terminated *)

kernel == <<link, peer, sent, descriptors>>
buffers == <<got, cleared, replies, strayed>>
loop == <<pc, todo, cur, killing>>
vars == <<kernel, buffers, routines, table, loop, alive>>

Info == [con: Clients, current_event: {"EPOLLIN", "EPOLLOUT"}, expired: BOOLEAN]

\* Where a coroutine will go on, whose request its stack holds, and its reference
\* `info': the connection whose RoutineInfo lies there, or did last.  It is taken
\* when the coroutine is first resumed, not when it is created.
NotStarted == [at |-> "entry"]
Body == {NotStarted} \union
          [at: {"receive", "respond", "send", "again", "failed"},
           of: Clients, info: Clients]

Event == [fd: Fds \union {Master}, err: BOOLEAN]

-----------------------------------------------------------------------------
(* The kernel and the other ends of the connections *)

Backlog == {c \in Clients : link[c] = "queued"}

FreeFds == Fds \ DOMAIN descriptors

\* accept4 returns the lowest descriptor that is not open.
IsNewFd(fd) == fd \in FreeFds /\ \A other \in FreeFds : fd <= other

\* The events epoll reports for a connection that is registered.
Ready(info) ==
  \/ peer[info.con] = "reset"
  \/ info.current_event = "EPOLLOUT"
  \/ /\ info.current_event = "EPOLLIN"
     /\ sent[info.con] > got[info.con] \/ peer[info.con] = "fin"

ClientEvents(t) ==
  {[fd |-> fd, err |-> peer[routines[t][fd].con] = "reset"] :
     fd \in {f \in DOMAIN routines[t] : Ready(routines[t][f])}}

Connect(c) ==
  /\ link[c] = "idle"
  /\ link' = [link EXCEPT ![c] = "queued"]
  /\ UNCHANGED <<peer, sent, descriptors, buffers, routines, table, loop, alive>>

SendSegment(c) ==
  /\ link[c] \in {"queued", "open"}
  /\ peer[c] = "up"
  /\ sent[c] < Request[c].segments
  /\ sent' = [sent EXCEPT ![c] = @ + 1]
  /\ UNCHANGED <<link, peer, descriptors, buffers, routines, table, loop, alive>>

Disconnect(c, how) ==
  /\ link[c] \in {"queued", "open"}
  /\ peer[c] = "up"
  /\ how = "fin" => sent[c] = Request[c].segments \/ Request[c].aborts
  /\ peer' = [peer EXCEPT ![c] = how]
  /\ UNCHANGED <<link, sent, descriptors, buffers, routines, table, loop, alive>>

\* The read timeout of a connection passes.
Expire(t, fd) ==
  /\ fd \in DOMAIN routines[t]
  /\ ~routines[t][fd].expired
  /\ routines' = [routines EXCEPT ![t][fd].expired = TRUE]
  /\ UNCHANGED <<kernel, buffers, table, loop, alive>>

-----------------------------------------------------------------------------
(* run *)

At(t, place) == alive /\ pc[t] = place

Goto(t, place) == pc' = [pc EXCEPT ![t] = place]

\* epoll_wait returns events.  The listening socket is EPOLLEXCLUSIVE, so a
\* manager may sleep through connections another one was told about.
Wake(t) ==
  /\ At(t, "wait")
  /\ \E events \in {ClientEvents(t)} \union
         {ClientEvents(t) \union {[fd |-> Master, err |-> FALSE]} : c \in Backlog} :
       /\ events # {}
       /\ todo' = [todo EXCEPT ![t] = events]
  /\ killing' = [killing EXCEPT ![t] = FALSE]
  /\ Goto(t, "dispatch")
  /\ UNCHANGED <<kernel, buffers, routines, table, cur, alive>>

\* Mutated form: the comparison of checkTimeouts the other way round.
WakeByTimeoutReversed(t) ==
  LET early == {fd \in DOMAIN routines[t] : ~routines[t][fd].expired}
  IN /\ At(t, "wait")
     /\ ClientEvents(t) = {}
     /\ early # {}
     /\ todo' = [todo EXCEPT ![t] = {[fd |-> fd, err |-> FALSE] : fd \in early}]
     /\ killing' = [killing EXCEPT ![t] = TRUE]
     /\ Goto(t, "dispatch")
     /\ UNCHANGED <<kernel, buffers, routines, table, cur, alive>>

\* epoll_wait returns 0: checkTimeouts collects the ids whose time is over.
WakeByTimeout(t) ==
  LET expired == {fd \in DOMAIN routines[t] : routines[t][fd].expired}
  IN /\ At(t, "wait")
     /\ ClientEvents(t) = {}
     /\ expired # {}
     /\ todo' = [todo EXCEPT ![t] = {[fd |-> fd, err |-> FALSE] : fd \in expired}]
     /\ killing' = [killing EXCEPT ![t] = TRUE]
     /\ Goto(t, "dispatch")
     /\ UNCHANGED <<kernel, buffers, routines, table, cur, alive>>

LoopEnds(t) ==
  /\ At(t, "dispatch")
  /\ todo[t] = {}
  /\ Goto(t, "wait")
  /\ UNCHANGED <<kernel, buffers, routines, table, todo, cur, killing, alive>>

-----------------------------------------------------------------------------
(* acceptClients: `i' never grows, so the loop ends with EAGAIN only *)

AcceptClients(t, e) ==
  /\ At(t, "dispatch")
  /\ e \in todo[t]
  /\ e.fd = Master
  /\ todo' = [todo EXCEPT ![t] = @ \ {e}]
  /\ Goto(t, "accept")
  /\ UNCHANGED <<kernel, buffers, routines, table, cur, killing, alive>>

\* RoutineInfo is given memory no other has: fresh memory, or that of a
\* connection that was destroyed, with whatever still refers to it.
Placed(body, old, c) ==
  IF body # NotStarted /\ body.info = old THEN [body EXCEPT !.info = c] ELSE body

\* Coroutine::create keeps the routine that has the id already.
CreateRoutine(t, fd, old, c) ==
  table' = [u \in Threads |->
    [i \in DOMAIN table[u] \union (IF u = t THEN {fd} ELSE {}) |->
       IF i \in DOMAIN table[u] THEN Placed(table[u][i], old, c) ELSE NotStarted]]

\* accept4 and addNewConnection.  The emplace keeps an entry that has the id.
Accept(t, c, fd) ==
  /\ At(t, "accept")
  /\ c \in Backlog
  /\ IsNewFd(fd)
  /\ link' = [link EXCEPT ![c] = "open"]
  /\ descriptors' = [i \in DOMAIN descriptors \union {fd} |->
                       IF i = fd THEN c ELSE descriptors[i]]
  /\ LET info == [con |-> c, current_event |-> "EPOLLIN", expired |-> FALSE]
     IN routines' = [routines EXCEPT ![t] =
          [i \in DOMAIN @ \union {fd} |-> IF i \in DOMAIN @ THEN @[i] ELSE info]]
  /\ \E old \in {c} \union {k \in Clients : link[k] = "closed"} :
       CreateRoutine(t, fd, old, c)
  /\ UNCHANGED <<peer, sent, buffers, loop, alive>>

AcceptWouldBlock(t) ==
  /\ At(t, "accept")
  /\ Backlog = {} /\ FreeFds # {}
  /\ Goto(t, "dispatch")
  /\ UNCHANGED <<kernel, buffers, routines, table, todo, cur, killing, alive>>

\* Mutated form: the result of accept4 is not compared with -1.
AcceptFailureUnchecked(t) ==
  /\ At(t, "accept")
  /\ FreeFds = {}
  /\ \E c \in Clients :
       LET info == [con |-> c, current_event |-> "EPOLLIN", expired |-> FALSE]
       IN routines' = [routines EXCEPT ![t] =
            [i \in DOMAIN @ \union {NoFd} |-> IF i = NoFd THEN info ELSE @[i]]]
  /\ UNCHANGED <<kernel, buffers, table, loop, alive>>

\* accept4 has no descriptor to return, which it says before it looks at the
\* backlog: accept_error leaves run() and the function of the thread, which
\* terminates the process.
AcceptFails(t) ==
  /\ At(t, "accept")
  /\ FreeFds = {}
  /\ alive' = FALSE
  /\ UNCHANGED <<kernel, buffers, routines, table, loop>>

-----------------------------------------------------------------------------
(* handleClient and checkTimeouts: the id is resumed or killed, and after   *)
(* either, whatever the coroutine did, its connection is deleted.           *)

\* deleteConnection: the entry is taken out of routines_, then destroyed.
DeleteConnection(t, fd) ==
  /\ routines' = [routines EXCEPT ![t] = Restrict(@, DOMAIN @ \ {fd})]
  /\ cur' = [cur EXCEPT ![t] = fd]
  /\ Goto(t, "destroy")

\* What close(2) does with a number: the file that is open there now is closed.
CloseNumber(fd) ==
  /\ descriptors' = Restrict(descriptors, DOMAIN descriptors \ {fd})
  /\ link' = [c \in Clients |-> IF fd \in DOMAIN descriptors /\ descriptors[fd] = c
                                THEN "closed" ELSE link[c]]

\* Mutated form: Descriptor::close leaves its number, and ~Descriptor closes it
\* once more.
CloseFdTwice(t) ==
  /\ At(t, "destroy")
  /\ CloseNumber(cur[t])
  /\ \/ cur' = [cur EXCEPT ![t] = NoFd] /\ Goto(t, "dispatch")
     \/ UNCHANGED <<cur, pc>>
  /\ UNCHANGED <<peer, sent, buffers, routines, table, todo, killing, alive>>

\* ~Connection shuts the socket down and closes it, then its memory is freed.
CloseFd(t) ==
  /\ At(t, "destroy")
  /\ CloseNumber(cur[t])
  /\ cur' = [cur EXCEPT ![t] = NoFd]
  /\ Goto(t, "dispatch")
  /\ UNCHANGED <<peer, sent, buffers, routines, table, todo, killing, alive>>

\* Mutated form: no return after deleteConnection.
DropClientAndServe(t, e) ==
  /\ At(t, "dispatch")
  /\ e \in todo[t]
  /\ e.err
  /\ todo' = [todo EXCEPT ![t] = @ \ {e}]
  /\ routines' = [routines EXCEPT ![t] = Restrict(@, DOMAIN @ \ {e.fd})]
  /\ cur' = [cur EXCEPT ![t] = e.fd]
  /\ Goto(t, "close")
  /\ UNCHANGED <<kernel, buffers, table, killing, alive>>

\* EPOLLERR or EPOLLHUP: deleted without a resume; the coroutine stays.
DropClient(t, e) ==
  /\ At(t, "dispatch")
  /\ e \in todo[t]
  /\ e.err
  /\ todo' = [todo EXCEPT ![t] = @ \ {e}]
  /\ DeleteConnection(t, e.fd)
  /\ UNCHANGED <<kernel, buffers, table, killing, alive>>

\* The coroutine of the id starts, with a reference to the RoutineInfo of the id,
\* or goes on where it yielded, with the reference it has.  A kill throws out of
\* the yield.
ResumeRoutine(t, fd) ==
  LET body       == table[t][fd]
      Receive(c) == [at |-> "receive", of |-> c, info |-> c]
      Run(b)     == table' = [table EXCEPT ![t][fd] = b] /\ Goto(t, "serve")
  IN \/ body = NotStarted /\ Run(Receive(routines[t][fd].con))
     \/ body # NotStarted /\ killing[t] /\ Run([body EXCEPT !.at = "failed"])
     \/ /\ body # NotStarted /\ ~killing[t]
        /\ Run(IF body.at = "again" THEN Receive(body.info) ELSE body)

ServeClient(t, e) ==
  /\ At(t, "dispatch")
  /\ e \in todo[t]
  /\ e.fd # Master /\ ~e.err
  /\ todo' = [todo EXCEPT ![t] = @ \ {e}]
  /\ cur' = [cur EXCEPT ![t] = e.fd]
  /\ ResumeRoutine(t, e.fd)
  /\ UNCHANGED <<kernel, buffers, routines, killing, alive>>

\* Mutated form: a routine that yielded keeps its connection.
CloseIfEnded(t) ==
  /\ At(t, "close")
  /\ IF cur[t] \in DOMAIN table[t]
     THEN Goto(t, "dispatch") /\ cur' = [cur EXCEPT ![t] = NoFd] /\ UNCHANGED routines
     ELSE DeleteConnection(t, cur[t])
  /\ UNCHANGED <<kernel, buffers, table, todo, killing, alive>>

\* The end of handleClient and of an iteration of checkTimeouts.  The refreshed
\* timeout is erased with the entry.
CloseClient(t) ==
  /\ At(t, "close")
  /\ DeleteConnection(t, cur[t])
  /\ UNCHANGED <<kernel, buffers, table, todo, killing, alive>>

-----------------------------------------------------------------------------
(* clientRoutine on the stack of the coroutine *)

Serves(t, place) == At(t, "serve") /\ table[t][cur[t]].at = place

\* The connection whose event is handled, and the one the reference of the
\* coroutine finds; they differ when the coroutine is an older connection's.
Own(t) == routines[t][cur[t]].con
Con(t) == table[t][cur[t]].info

Uses(c, t) == strayed' = IF c = Own(t) THEN strayed ELSE strayed \union {c}

EndRoutine(t) ==
  /\ table' = [table EXCEPT ![t] = Restrict(@, DOMAIN @ \ {cur[t]})]
  /\ Goto(t, "close")

\* Mutated form: yield does not look at the exception a kill left.
YieldAfterKill(t, place) ==
  /\ table' = [table EXCEPT ![t][cur[t]].at = place]
  /\ Goto(t, "close")

\* Coroutine::yield: a killed routine gets its exception instead, and ends.
YieldAt(t, place) ==
  IF killing[t] THEN EndRoutine(t)
  ELSE /\ table' = [table EXCEPT ![t][cur[t]].at = place]
       /\ Goto(t, "close")

\* Mutated form: the end of the headers is not looked for.
ReceiveAnyway(t) ==
  LET c == Con(t)
  IN /\ Serves(t, "receive")
     /\ link[c] = "open"
     /\ got' = IF sent[c] > got[c] THEN [got EXCEPT ![c] = @ + 1] ELSE got
     /\ table' = [table EXCEPT ![t][cur[t]].at = "respond", ![t][cur[t]].of = c]
     /\ UNCHANGED <<kernel, cleared, strayed, replies, routines, loop, alive>>

\* Receiver::receive and clear_buffer: one recv, which fails after a reset once
\* everything that arrived was read; a request that is not complete yields, also
\* after EAGAIN and at the end of the stream.  `pos' of a coroutine that was
\* started for another connection may hide the end of the headers.  A request
\* that is refused throws before or after the buffer is cleared.
Receive(t) ==
  LET c    == Con(t)
      body == table[t][cur[t]]
      more == sent[c] > got[c]
  IN /\ Serves(t, "receive")
     /\ link[c] = "open"
     /\ got' = IF more THEN [got EXCEPT ![c] = @ + 1] ELSE got
     /\ Uses(c, t)
     /\ \/ /\ peer[c] = "reset" /\ ~more
           /\ EndRoutine(t) /\ UNCHANGED cleared
        \/ /\ peer[c] # "reset" \/ more
           /\ got'[c] < Request[c].segments \/ c \in cleared \/ body.of # c
           /\ YieldAt(t, "receive") /\ UNCHANGED cleared
        \/ /\ peer[c] # "reset" \/ more
           /\ got'[c] = Request[c].segments /\ c \notin cleared
           /\ IF Request[c].valid
              THEN /\ table' = [table EXCEPT ![t][cur[t]].at = "respond",
                                             ![t][cur[t]].of = c]
                   /\ cleared' = cleared \union {c}
                   /\ UNCHANGED pc
              ELSE /\ EndRoutine(t)
                   /\ cleared' \in {cleared, cleared \union {c}}
     /\ UNCHANGED <<kernel, replies, routines, todo, cur, killing, alive>>

ChangeEvent(t, new) ==
  routines' = [routines EXCEPT ![t][cur[t]].current_event = new]

\* onRequest and changeEvent(id, EPOLLOUT).
Respond(t) ==
  /\ Serves(t, "respond")
  /\ ChangeEvent(t, "EPOLLOUT")
  /\ table' = [table EXCEPT ![t][cur[t]].at = "send"]
  /\ UNCHANGED <<kernel, buffers, loop, alive>>

\* Mutated form: send yields before it writes.
YieldBeforeSend(t) ==
  /\ Serves(t, "send")
  /\ YieldAt(t, "send")
  /\ UNCHANGED <<kernel, buffers, routines, todo, cur, killing, alive>>

\* HttpResponse::send takes the whole response: the routine waits for the
\* next request of a keep-alive connection, or returns.
SendAll(t) ==
  LET c == Con(t)
      of == table[t][cur[t]].of
  IN /\ Serves(t, "send")
     /\ link[c] = "open" /\ peer[c] # "reset"
     /\ replies' = [replies EXCEPT ![c] = @ \union {of}]
     /\ Uses(c, t)
     /\ IF Request[of].keepAlive
        THEN ChangeEvent(t, "EPOLLIN") /\ YieldAt(t, "again")
        ELSE EndRoutine(t) /\ UNCHANGED routines
     /\ UNCHANGED <<kernel, got, cleared, todo, cur, killing, alive>>

\* A part of the response goes out (the routine yields), or nothing does:
\* send fails with EAGAIN, or because of the reset, and write throws.
SendStalls(t) ==
  LET c == Con(t)
  IN /\ Serves(t, "send")
     /\ link[c] = "open"
     /\ \/ Request[c].slow /\ peer[c] # "reset" /\ YieldAt(t, "send")
        \/ (Request[c].slow \/ peer[c] = "reset") /\ EndRoutine(t)
     /\ UNCHANGED <<kernel, buffers, routines, todo, cur, killing, alive>>

\* A coroutine reads from or writes to what is no connection of its thread: one
\* that was destroyed, which fails with a tcp_error (its descriptor is -1) or
\* crashes the process, or one another thread may be using.
UseStale(t) ==
  /\ Serves(t, "receive") \/ Serves(t, "send")
  /\ \A fd \in DOMAIN routines[t] : routines[t][fd].con # Con(t)
  /\ \/ EndRoutine(t) /\ UNCHANGED alive
     \/ alive' = FALSE /\ UNCHANGED <<table, pc>>
  /\ UNCHANGED <<kernel, buffers, routines, todo, cur, killing>>

\* The exception of a kill leaves clientRoutine.
Fail(t) ==
  /\ Serves(t, "failed")
  /\ EndRoutine(t)
  /\ UNCHANGED <<kernel, buffers, routines, todo, cur, killing, alive>>

-----------------------------------------------------------------------------
Init ==
  /\ link = [c \in Clients |-> "idle"]
  /\ peer = [c \in Clients |-> "up"]
  /\ sent = [c \in Clients |-> 0]
  /\ got = [c \in Clients |-> 0]
  /\ replies = [c \in Clients |-> {}]
  /\ cleared = {} /\ strayed = {}
  /\ descriptors = [fd \in {} |-> fd]
  /\ routines = [t \in Threads |-> [fd \in {} |-> Info]]
  /\ table = [t \in Threads |-> [fd \in {} |-> NotStarted]]
  /\ pc = [t \in Threads |-> "wait"]
  /\ todo = [t \in Threads |-> {}]
  /\ cur = [t \in Threads |-> NoFd]
  /\ killing = [t \in Threads |-> FALSE]
  /\ alive = TRUE

Environment ==
  \/ \E c \in Clients : Connect(c) \/ SendSegment(c)
  \/ \E c \in Clients, how \in {"fin", "reset"} : Disconnect(c, how)
  \/ \E t \in Threads, fd \in Fds : Expire(t, fd)

Manager(t) ==
  \/ Wake(t) \/ WakeByTimeout(t) \/ LoopEnds(t)
  \/ \E e \in todo[t] : AcceptClients(t, e) \/ DropClient(t, e) \/ ServeClient(t, e)
  \/ \E c \in Clients, fd \in Fds : Accept(t, c, fd)
  \/ AcceptWouldBlock(t) \/ AcceptFails(t)
  \/ CloseClient(t) \/ CloseFd(t)

ClientRoutine(t) == Receive(t) \/ Respond(t) \/ SendAll(t) \/ SendStalls(t)
                    \/ UseStale(t) \/ Fail(t)

Next ==
  \/ Environment
  \/ \E t \in Threads : Manager(t) \/ ClientRoutine(t)

Spec == Init /\ [][Next]_vars

\* The threads are scheduled and time passes; other ends owe nothing.
Fairness ==
  /\ \A t \in Threads : WF_vars(Manager(t) \/ ClientRoutine(t))
  /\ \A t \in Threads, fd \in Fds : WF_vars(Expire(t, fd))

FairSpec == Spec /\ Fairness

-----------------------------------------------------------------------------
(* Properties that hold whatever the clients do *)

\* Type invariant: the tables of the threads and the places of their loops.
TypeOK ==
  /\ link \in [Clients -> {"idle", "queued", "open", "closed"}]
  /\ peer \in [Clients -> {"up", "fin", "reset"}]
  /\ sent \in [Clients -> Nat] /\ got \in [Clients -> Nat]
  /\ replies \in [Clients -> SUBSET Clients]
  /\ cleared \subseteq Clients /\ strayed \subseteq Clients
  /\ DOMAIN descriptors \subseteq Fds
  /\ descriptors \in [DOMAIN descriptors -> Clients]
  /\ DOMAIN routines = Threads /\ DOMAIN table = Threads
  /\ \A t \in Threads :
       /\ DOMAIN routines[t] \subseteq Fds
       /\ routines[t] \in [DOMAIN routines[t] -> Info]
       /\ DOMAIN table[t] \subseteq Fds
       /\ table[t] \in [DOMAIN table[t] -> Body]
  /\ pc \in [Threads -> {"wait", "dispatch", "accept", "serve", "close", "destroy"}]
  /\ todo \in [Threads -> SUBSET Event]
  /\ cur \in [Threads -> Fds \union {NoFd}]
  /\ killing \in [Threads -> BOOLEAN]
  /\ alive \in BOOLEAN

\* No `at' of the event loop throws out_of_range: every event or timed out id
\* a manager still has to handle, and the id it is handling, names a
\* connection of its own routines_ and a routine of its ordinator, although
\* connections are deleted and accepted while the list is worked off.
EventsNameLiveConnections ==
  \A t \in Threads :
    /\ \A e \in todo[t] : e.fd # Master =>
         e.fd \in DOMAIN routines[t] /\ e.fd \in DOMAIN table[t]
    /\ pc[t] \in {"serve", "close"} => cur[t] \in DOMAIN routines[t]
    /\ pc[t] = "serve" => cur[t] \in DOMAIN table[t]

\* The numbers a manager will close: those of its routines_, and the one whose
\* Connection it is destroying.
Owned(t) == DOMAIN routines[t] \union (IF pc[t] = "destroy" THEN {cur[t]} ELSE {})

\* Every open number is owned by one manager and every owned one is open, so no
\* close by one thread hits a number another one was given by accept4, and none
\* is left open; and behind the number of an entry is the connection of the entry.
DescriptorsHaveOneOwner ==
  /\ \A t1, t2 \in Threads : t1 # t2 => Owned(t1) \cap Owned(t2) = {}
  /\ \A t \in Threads : Owned(t) \subseteq DOMAIN descriptors
  /\ \A fd \in DOMAIN descriptors : \E t \in Threads : fd \in Owned(t)
  /\ \A t \in Threads :
       /\ \A fd \in DOMAIN routines[t] : descriptors[fd] = routines[t][fd].con
       /\ pc[t] = "destroy" => cur[t] \notin DOMAIN routines[t]

\* handleClient deletes the connection after its first resume whether the
\* routine ended or yielded: a manager back in epoll_wait holds connections
\* nothing was read from or sent to, so a request in two segments and a
\* second keep-alive request are never read to their end.  Not so a connection
\* whose RoutineInfo got the memory a suspended routine refers to: that routine
\* reads and answers in its place.
ConnectionsAreServedOnce ==
  \A t \in Threads : pc[t] = "wait" =>
    \A fd \in DOMAIN routines[t] :
      LET info == routines[t][fd]
      IN /\ info.current_event = "EPOLLIN"
         /\ info.con \notin strayed => got[info.con] = 0 /\ replies[info.con] = {}

\* The coroutine of one thread as a caller of the library sees it.
RoutineStatus(t) ==
  [fd \in Fds |-> IF fd \notin DOMAIN table[t] THEN "absent"
                  ELSE IF pc[t] = "serve" /\ cur[t] = fd THEN "running"
                  ELSE "ready"]

Killed(t) == IF pc[t] = "serve" /\ killing[t] THEN {cur[t]} ELSE {}

Library(t) == INSTANCE RoutineLifecycle
  WITH Ids <- Fds, status <- RoutineStatus(t), doomed <- Killed(t)

\* Each manager uses the coroutines as the library allows: it resumes and
\* kills from the main stack, only routines that are ready, and a killed
\* routine does not yield.
ManagersFollowTheLibrary ==
  /\ \A t \in Threads : Library(t)!Init
  /\ [][\A t \in Threads : [Library(t)!Next]_(Library(t)!vars)]_vars

\* Every connection that reaches the backlog is closed in the end, whatever
\* its other end does, unless the process terminates: by its first event, or
\* by the timeout once the events stop.
ConnectionsEnd ==
  \A c \in Clients : link[c] = "queued" ~> link[c] = "closed" \/ ~alive

-----------------------------------------------------------------------------
(* Properties of one-shot traffic: requests of one segment, no keep-alive,   *)
(* responses that fit the window, and a descriptor for every connection.     *)

\* No routine outlives its connection except one that never started, and
\* the process stays up.
NothingStale ==
  /\ alive
  /\ \A t \in Threads : \A fd \in DOMAIN table[t] :
       table[t][fd] # NotStarted => pc[t] = "serve" /\ cur[t] = fd

\* A connection receives no response but the one to its own request, and
\* only after all of the request was read.
RepliesGoToTheirRequest ==
  \A c \in Clients : replies[c] \subseteq {c}
    /\ (c \in replies[c] => got[c] = Request[c].segments)

\* A valid request that arrived before its connection was accepted is
\* answered, even when the read timeout passes first: the kill starts the
\* routine, which finds the request and answers it.
QueuedRequestsAreAnswered ==
  \A c \in Clients :
    link[c] = "queued" /\ sent[c] = Request[c].segments /\ Request[c].valid
      ~> c \in replies[c] \/ peer[c] = "reset"
=============================================================================
