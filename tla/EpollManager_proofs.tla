-------------------------- MODULE EpollManager_proofs --------------------------
(***************************************************************************)
(* Proofs about EpollManager, for every number of threads and descriptors  *)
(* and every traffic.                                                      *)
(***************************************************************************)
EXTENDS EpollManager, FiniteSetTheorems, TLAPS

Busy(t) == pc[t] \in {"serve", "close"}

\* A coroutine that has been resumed.
Started == [at: {"receive", "respond", "send", "again", "failed"},
            of: Clients, info: Clients]

\* The list a manager works off names each id once, only ids of its own
\* routines_, and never the id that is being handled; epoll reports no error for
\* the listening socket.
EventsInv(t) ==
  /\ \A e \in todo[t] : e.fd # Master =>
       e.fd \in DOMAIN routines[t] /\ (Busy(t) => e.fd # cur[t])
  /\ \A e \in todo[t] : e.err => e.fd # Master
  /\ \A e1, e2 \in todo[t] : e1.fd = e2.fd => e1 = e2

\* The id being handled is tracked, and every tracked id has a coroutine
\* except the one whose coroutine just ended.
TableInv(t) ==
  /\ Busy(t) => cur[t] \in DOMAIN routines[t]
  /\ pc[t] = "serve" => cur[t] \in DOMAIN table[t]
  /\ \A fd \in DOMAIN routines[t] :
       fd \in DOMAIN table[t] \/ (pc[t] = "close" /\ cur[t] = fd)

\* The connection being handled was read from or written to, and those an older
\* coroutine used; no other.
UntouchedInv ==
  /\ \A c \in Clients : link[c] \in {"idle", "queued"} => got[c] = 0 /\ replies[c] = {}
  /\ \A t \in Threads : \A fd \in DOMAIN routines[t] :
       \/ Busy(t) /\ cur[t] = fd
       \/ /\ routines[t][fd].current_event = "EPOLLIN"
          /\ routines[t][fd].con \notin strayed =>
               got[routines[t][fd].con] = 0 /\ replies[routines[t][fd].con] = {}

\* The open connections are the files of the process, each under one number.
DescriptorInv ==
  /\ \A c \in Clients :
       link[c] = "open" <=> \E fd \in DOMAIN descriptors : descriptors[fd] = c
  /\ \A fd1, fd2 \in DOMAIN descriptors :
       descriptors[fd1] = descriptors[fd2] => fd1 = fd2

IInv ==
  /\ TypeOK
  /\ DescriptorsHaveOneOwner /\ DescriptorInv
  /\ \A t \in Threads : EventsInv(t) /\ TableInv(t)
  /\ UntouchedInv

\* The initial state: no connection, no coroutine, no event.
LEMMA InitInvariant == Init => IInv
<1> SUFFICES ASSUME Init PROVE IInv
  OBVIOUS
<1> USE DEF Init
<1>1. \A t \in Threads : DOMAIN routines[t] = {} /\ DOMAIN table[t] = {}
  OBVIOUS
<1>2. DOMAIN descriptors = {}
  OBVIOUS
<1>3. TypeOK
  BY <1>1, <1>2 DEF TypeOK
<1>4. DescriptorsHaveOneOwner /\ DescriptorInv
  BY <1>1, <1>2 DEF DescriptorsHaveOneOwner, DescriptorInv, Owned
<1>5. \A t \in Threads : EventsInv(t) /\ TableInv(t)
  BY <1>1 DEF EventsInv, TableInv, Busy
<1>6. UntouchedInv
  BY <1>1 DEF UntouchedInv
<1>7. QED
  BY <1>3, <1>4, <1>5, <1>6 DEF IInv

-----------------------------------------------------------------------------
\* An entry of routines_ is an open connection, and no other has it.
LEMMA EntriesAreOpen ==
  ASSUME IInv, NEW t \in Threads, NEW fd \in DOMAIN routines[t]
  PROVE  /\ fd \in Owned(t) /\ fd \in DOMAIN descriptors
         /\ descriptors[fd] = routines[t][fd].con
         /\ routines[t][fd].con \in Clients
         /\ link[routines[t][fd].con] = "open"
<1>1. fd \in Owned(t) /\ fd \in DOMAIN descriptors
  BY DEF IInv, DescriptorsHaveOneOwner, Owned
<1>2. descriptors[fd] = routines[t][fd].con /\ routines[t][fd].con \in Clients
  BY DEF IInv, DescriptorsHaveOneOwner, TypeOK, Info
<1>3. QED
  BY <1>1, <1>2 DEF IInv, DescriptorInv

\* One connection has one entry.
LEMMA EntriesDiffer ==
  ASSUME IInv, NEW t \in Threads, NEW fd \in DOMAIN routines[t],
         NEW u \in Threads, NEW i \in DOMAIN routines[u],
         routines[t][fd].con = routines[u][i].con
  PROVE  t = u /\ fd = i
<1>1. /\ fd \in Owned(t) /\ i \in Owned(u)
      /\ fd \in DOMAIN descriptors /\ i \in DOMAIN descriptors
      /\ descriptors[fd] = descriptors[i]
  BY EntriesAreOpen
<1>2. fd = i
  BY <1>1 DEF IInv, DescriptorInv
<1>3. QED
  BY <1>1, <1>2 DEF IInv, DescriptorsHaveOneOwner

\* A step that opens and closes nothing, and leaves the entries as they are, keeps
\* every descriptor with its one owner.
LEMMA OwnersKept ==
  ASSUME DescriptorsHaveOneOwner, descriptors' = descriptors,
         \A t \in Threads :
           /\ DOMAIN routines'[t] = DOMAIN routines[t]
           /\ \A fd \in DOMAIN routines[t] :
                routines'[t][fd].con = routines[t][fd].con
           /\ pc'[t] = "destroy" <=> pc[t] = "destroy"
           /\ pc[t] = "destroy" => cur'[t] = cur[t]
  PROVE  DescriptorsHaveOneOwner'
<1>1. \A t \in Threads : Owned(t)' = Owned(t)
  BY DEF Owned
<1>2. QED
  BY <1>1 DEF DescriptorsHaveOneOwner

\* What taking an entry out of routines_ does.
Unlinked(t, fd) ==
  /\ DOMAIN routines' = Threads
  /\ DOMAIN routines'[t] = DOMAIN routines[t] \ {fd}
  /\ \A i \in DOMAIN routines[t] \ {fd} : routines'[t][i] = routines[t][i]
  /\ routines'[t] \in [DOMAIN routines'[t] -> Info]
  /\ \A u \in Threads \ {t} : routines'[u] = routines[u]
  /\ pc' = [pc EXCEPT ![t] = "destroy"] /\ cur' = [cur EXCEPT ![t] = fd]

\* deleteConnection takes one entry out of routines_, and no other thread sees it.
LEMMA DeleteEffect ==
  ASSUME TypeOK, NEW t \in Threads, NEW fd \in DOMAIN routines[t],
         DeleteConnection(t, fd)
  PROVE  Unlinked(t, fd)
  BY DEF Unlinked, DeleteConnection, Goto, Restrict, TypeOK, Info

\* The number of an erased entry stays with the manager until it is closed.
LEMMA DeleteKeepsOwners ==
  ASSUME IInv, NEW t \in Threads, NEW fd \in DOMAIN routines[t],
         DeleteConnection(t, fd), descriptors' = descriptors, pc[t] # "destroy"
  PROVE  DescriptorsHaveOneOwner'
<1>0. Unlinked(t, fd)
  BY DeleteEffect DEF IInv
<1>1. pc'[t] = "destroy" /\ cur'[t] = fd
      /\ \A u \in Threads \ {t} : pc'[u] = pc[u] /\ cur'[u] = cur[u]
  BY <1>0 DEF Unlinked, IInv, TypeOK
<1>2. \A u \in Threads : Owned(u)' = Owned(u)
  BY <1>0, <1>1 DEF Owned, Unlinked
<1>3. ASSUME NEW u \in Threads
      PROVE  /\ \A i \in DOMAIN routines'[u] : descriptors[i] = routines'[u][i].con
             /\ pc'[u] = "destroy" => cur'[u] \notin DOMAIN routines'[u]
  BY <1>0, <1>1 DEF Unlinked, IInv, DescriptorsHaveOneOwner
<1>4. QED
  BY <1>2, <1>3 DEF DescriptorsHaveOneOwner, IInv

\* What the end of a resume does to the coroutines of the manager, whether the
\* routine ended or yielded.
Left(t) ==
  /\ DOMAIN table' = Threads
  /\ pc' = [pc EXCEPT ![t] = "close"]
  /\ DOMAIN table'[t] \subseteq DOMAIN table[t]
  /\ DOMAIN table[t] \ {cur[t]} \subseteq DOMAIN table'[t]
  /\ table'[t] \in [DOMAIN table'[t] -> Body]
  /\ \A u \in Threads \ {t} : table'[u] = table[u]

\* The end and the yield of a routine, as the change they make.
LEMMA LeaveEffect ==
  ASSUME TypeOK, NEW t \in Threads, NEW place \in {"receive", "send", "again"},
         cur[t] \in DOMAIN table[t], table[t][cur[t]].at # "entry",
         EndRoutine(t) \/ YieldAt(t, place)
  PROVE  Left(t)
<1> USE DEF Left
<1>1. CASE EndRoutine(t)
  BY <1>1 DEF EndRoutine, Goto, Restrict, TypeOK
<1>2. CASE ~EndRoutine(t)
  <2> DEFINE fd == cur[t]
  <2>1. table[t][fd] \in Body /\ table[t][fd].at # "entry"
    BY DEF TypeOK
  <2>2. table[t][fd] \in Started
    BY <2>1 DEF Body, NotStarted, Started
  <2>3. [table[t][fd] EXCEPT !.at = place] \in Body
    BY <2>2 DEF Body, Started
  <2>4. /\ table' = [table EXCEPT ![t][fd].at = place]
        /\ pc' = [pc EXCEPT ![t] = "close"]
    BY <1>2 DEF YieldAt, Goto
  <2>5. table'[t] = [table[t] EXCEPT ![fd] = [table[t][fd] EXCEPT !.at = place]]
    BY <2>4 DEF TypeOK
  <2>6. QED
    BY <2>3, <2>4, <2>5 DEF TypeOK
<1>3. QED
  BY <1>1, <1>2

\* changeEvent changes the event of one connection and nothing else.
EventChanged(t) ==
  /\ DOMAIN routines' = Threads
  /\ DOMAIN routines'[t] = DOMAIN routines[t]
  /\ routines'[t] \in [DOMAIN routines[t] -> Info]
  /\ routines'[t][cur[t]].con = routines[t][cur[t]].con
  /\ \A i \in DOMAIN routines[t] \ {cur[t]} : routines'[t][i] = routines[t][i]
  /\ \A u \in Threads \ {t} : routines'[u] = routines[u]

\* changeEvent, as the change it makes.
LEMMA ChangeEventEffect ==
  ASSUME TypeOK, NEW t \in Threads, NEW new \in {"EPOLLIN", "EPOLLOUT"},
         cur[t] \in DOMAIN routines[t], ChangeEvent(t, new)
  PROVE  EventChanged(t)
<1> USE DEF EventChanged
<1> DEFINE fd == cur[t]
<1>1. routines[t][fd] \in Info
  BY DEF TypeOK
<1>2. [routines[t][fd] EXCEPT !.current_event = new] \in Info
      /\ [routines[t][fd] EXCEPT !.current_event = new].con = routines[t][fd].con
  BY <1>1 DEF Info
<1>3. routines' = [routines EXCEPT ![t][fd].current_event = new]
  BY DEF ChangeEvent
<1>4. routines'[t] = [routines[t] EXCEPT
                        ![fd] = [routines[t][fd] EXCEPT !.current_event = new]]
  BY <1>3 DEF TypeOK
<1>5. QED
  BY <1>2, <1>3, <1>4 DEF TypeOK

\* accept4, addNewConnection and Coroutine::create together.
Accepted(t, c, fd) ==
  /\ DOMAIN routines' = Threads /\ DOMAIN table' = Threads
  /\ DOMAIN routines'[t] = DOMAIN routines[t] \union {fd}
  /\ routines'[t][fd] =
       [con |-> c, current_event |-> "EPOLLIN", expired |-> FALSE]
  /\ \A i \in DOMAIN routines[t] : i # fd /\ routines'[t][i] = routines[t][i]
  /\ routines'[t] \in [DOMAIN routines'[t] -> Info]
  /\ \A u \in Threads \ {t} :
       routines'[u] = routines[u] /\ DOMAIN table'[u] = DOMAIN table[u]
  /\ \A u \in Threads : fd \notin DOMAIN routines[u] /\ fd \notin Owned(u)
  /\ DOMAIN table'[t] = DOMAIN table[t] \union {fd}
  /\ \A u \in Threads : table'[u] \in [DOMAIN table'[u] -> Body]
  /\ link[c] = "queued" /\ link' = [link EXCEPT ![c] = "open"]
  /\ fd \notin DOMAIN descriptors
  /\ DOMAIN descriptors' = DOMAIN descriptors \union {fd}
  /\ descriptors'[fd] = c
  /\ \A i \in DOMAIN descriptors : descriptors'[i] = descriptors[i]
  /\ descriptors' \in [DOMAIN descriptors' -> Clients]

\* Giving a reference another RoutineInfo keeps the coroutine what it is.
LEMMA PlacedIsBody ==
  ASSUME NEW body \in Body, NEW old \in Clients, NEW c \in Clients
  PROVE  Placed(body, old, c) \in Body
<1>1. CASE body = NotStarted
  BY <1>1 DEF Placed
<1>2. CASE body # NotStarted
  <2>1. body \in Started
    BY <1>2 DEF Body, Started
  <2>2. [body EXCEPT !.info = c] \in Body
    BY <2>1 DEF Body, Started
  <2>3. QED
    BY <2>2 DEF Placed
<1>3. QED
  BY <1>1, <1>2

\* accept4 with addNewConnection, as the change they make.
LEMMA AcceptEffect ==
  ASSUME IInv, NEW t \in Threads, NEW c \in Clients, NEW fd \in Fds,
         Accept(t, c, fd)
  PROVE  Accepted(t, c, fd)
<1> USE DEF Accepted, IInv
<1>1. fd \notin DOMAIN descriptors
  BY DEF Accept, IsNewFd, FreeFds
<1>2. \A u \in Threads : fd \notin DOMAIN routines[u] /\ fd \notin Owned(u)
  BY <1>1 DEF DescriptorsHaveOneOwner, Owned
<1>3. /\ routines'[t] = [i \in DOMAIN routines[t] \union {fd} |->
           IF i \in DOMAIN routines[t] THEN routines[t][i]
           ELSE [con |-> c, current_event |-> "EPOLLIN", expired |-> FALSE]]
      /\ DOMAIN routines' = Threads
      /\ \A u \in Threads \ {t} : routines'[u] = routines[u]
  BY DEF Accept, TypeOK
<1>4. PICK old \in Clients : CreateRoutine(t, fd, old, c)
  BY DEF Accept
<1>5. /\ DOMAIN table' = Threads
      /\ \A u \in Threads :
           table'[u] = [i \in DOMAIN table[u] \union (IF u = t THEN {fd} ELSE {}) |->
                          IF i \in DOMAIN table[u] THEN Placed(table[u][i], old, c)
                          ELSE NotStarted]
  BY <1>4 DEF CreateRoutine
<1>6. \A u \in Threads : \A i \in DOMAIN table[u] : table[u][i] \in Body
  BY DEF TypeOK
<1>7. NotStarted \in Body
  BY DEF Body
<1>8. ASSUME NEW u \in Threads PROVE table'[u] \in [DOMAIN table'[u] -> Body]
  <2>1. \A i \in DOMAIN table[u] : Placed(table[u][i], old, c) \in Body
    BY <1>6, PlacedIsBody
  <2>2. table'[u] = [i \in DOMAIN table[u] \union (IF u = t THEN {fd} ELSE {}) |->
                       IF i \in DOMAIN table[u] THEN Placed(table[u][i], old, c)
                       ELSE NotStarted]
    BY <1>5
  <2>3. \A i \in DOMAIN table'[u] : table'[u][i] \in Body
    BY <1>7, <2>1, <2>2
  <2>4. table'[u] = [i \in DOMAIN table'[u] |-> table'[u][i]]
    BY <2>2
  <2> HIDE DEF IInv
  <2>5. QED
    BY <2>3, <2>4
<1>9. DOMAIN table'[t] = DOMAIN table[t] \union {fd}
      /\ \A u \in Threads \ {t} : DOMAIN table'[u] = DOMAIN table[u]
  BY <1>5
<1>10. routines'[t] \in [DOMAIN routines'[t] -> Info]
  BY <1>3 DEF TypeOK, Info
<1>11. link[c] = "queued" /\ link' = [link EXCEPT ![c] = "open"]
  BY DEF Accept, Backlog
<1>12. descriptors' = [i \in DOMAIN descriptors \union {fd} |->
                         IF i = fd THEN c ELSE descriptors[i]]
  BY DEF Accept
<1>13. descriptors' \in [DOMAIN descriptors' -> Clients]
  BY <1>12 DEF TypeOK
<1>14. QED
  BY <1>1, <1>2, <1>3, <1>5, <1>8, <1>9, <1>10, <1>11, <1>12, <1>13

\* What resuming the coroutine of an id does to the ordinator.
Resumed(t, fd) ==
  /\ DOMAIN table' = Threads
  /\ DOMAIN table'[t] = DOMAIN table[t]
  /\ table'[t] \in [DOMAIN table[t] -> Body]
  /\ \A u \in Threads \ {t} : table'[u] = table[u]
  /\ pc' = [pc EXCEPT ![t] = "serve"]

\* The switch to a routine, as the change it makes.
LEMMA ResumeEffect ==
  ASSUME TypeOK, NEW t \in Threads, NEW fd \in DOMAIN routines[t],
         fd \in DOMAIN table[t], ResumeRoutine(t, fd)
  PROVE  Resumed(t, fd)
<1> USE DEF Resumed
<1> DEFINE body == table[t][fd]
           Receiving(c) == [at |-> "receive", of |-> c, info |-> c]
<1>1. body \in Body /\ routines[t][fd].con \in Clients
  BY DEF TypeOK, Info
<1>2. \A c \in Clients : Receiving(c) \in Body
  BY DEF Body
<1>3. body # NotStarted => body \in Started
  BY <1>1 DEF Body, Started
<1>4. body # NotStarted => body.info \in Clients /\ [body EXCEPT !.at = "failed"] \in Body
  BY <1>3 DEF Body, Started
<1>5. /\ pc' = [pc EXCEPT ![t] = "serve"]
      /\ \/ table' = [table EXCEPT ![t][fd] = Receiving(routines[t][fd].con)]
         \/ body # NotStarted /\ table' = [table EXCEPT ![t][fd] = [body EXCEPT !.at = "failed"]]
         \/ body # NotStarted /\ table' = [table EXCEPT ![t][fd] = Receiving(body.info)]
         \/ table' = [table EXCEPT ![t][fd] = body]
  BY DEF ResumeRoutine, Goto
<1> HIDE DEF body, Receiving
<1>6. \E b \in Body : table' = [table EXCEPT ![t][fd] = b]
  BY <1>1, <1>2, <1>4, <1>5
<1>7. QED
  BY <1>5, <1>6 DEF TypeOK

\* The passing of a timeout is recorded and changes nothing else.
Expired(t, fd) ==
  /\ DOMAIN routines' = Threads
  /\ routines'[t] \in [DOMAIN routines[t] -> Info]
  /\ \A u \in Threads : DOMAIN routines'[u] = DOMAIN routines[u]
  /\ \A u \in Threads : \A i \in DOMAIN routines[u] :
       /\ routines'[u][i].con = routines[u][i].con
       /\ routines'[u][i].current_event = routines[u][i].current_event
  /\ \A u \in Threads \ {t} : routines'[u] = routines[u]

\* A timeout, as the change it makes.
LEMMA ExpireEffect ==
  ASSUME TypeOK, NEW t \in Threads, NEW fd \in Fds, Expire(t, fd)
  PROVE  Expired(t, fd)
<1> USE DEF Expired
<1>1. fd \in DOMAIN routines[t] /\ routines[t][fd] \in Info
  BY DEF Expire, TypeOK
<1> DEFINE new == [routines[t][fd] EXCEPT !.expired = TRUE]
<1>2. /\ new \in Info
      /\ new.con = routines[t][fd].con
      /\ new.current_event = routines[t][fd].current_event
  BY <1>1 DEF Info
<1>3. routines' = [routines EXCEPT ![t][fd].expired = TRUE]
  BY DEF Expire
<1>4. routines'[t] = [routines[t] EXCEPT ![fd] = new]
  BY <1>3 DEF TypeOK
<1>5. QED
  BY <1>1, <1>2, <1>3, <1>4 DEF TypeOK

-----------------------------------------------------------------------------
\* The steps of the kernel and of the other ends keep the invariant.
LEMMA EnvironmentStep == IInv /\ Environment => IInv'
<1> SUFFICES ASSUME IInv, Environment PROVE IInv'
  OBVIOUS
<1> USE DEF IInv
<1>1. ASSUME NEW c \in Clients, Connect(c) PROVE IInv'
  <2>1. TypeOK'
    BY <1>1 DEF Connect, TypeOK, buffers, loop
  <2>2. UNCHANGED <<descriptors, got, replies, strayed, routines, table, pc, todo, cur>>
    BY <1>1 DEF Connect, buffers, loop
  <2>3. DescriptorsHaveOneOwner'
    BY <2>2, OwnersKept
  <2>4. DescriptorInv'
    <3>1. ASSUME NEW k \in Clients PROVE link'[k] = "open" <=> link[k] = "open"
      BY <1>1 DEF Connect, TypeOK
    <3>2. QED
      BY <2>2, <3>1 DEF DescriptorInv
  <2>5. UntouchedInv'
    <3>1. ASSUME NEW k \in Clients, link'[k] \in {"idle", "queued"}
          PROVE  link[k] \in {"idle", "queued"}
      BY <1>1, <3>1 DEF Connect, TypeOK
    <3>2. \A k \in Clients :
            link'[k] \in {"idle", "queued"} => got[k] = 0 /\ replies[k] = {}
      BY <3>1 DEF UntouchedInv
    <3>3. QED
      BY <2>2, <3>2 DEF UntouchedInv, Busy
  <2>6. \A t \in Threads : EventsInv(t)' /\ TableInv(t)'
    BY <2>2 DEF EventsInv, TableInv, Busy
  <2>7. QED
    BY <2>1, <2>3, <2>4, <2>5, <2>6
<1>2. ASSUME UNCHANGED <<link, descriptors, buffers, routines, table, loop, alive>>, TypeOK'
      PROVE  IInv'
  <2> USE <1>2 DEF buffers, loop
  <2>1. DescriptorsHaveOneOwner'
    BY OwnersKept
  <2>2. DescriptorInv'
    BY DEF DescriptorInv
  <2>3. UntouchedInv'
    BY DEF UntouchedInv, Busy
  <2>4. \A t \in Threads : EventsInv(t)' /\ TableInv(t)'
    BY DEF EventsInv, TableInv, Busy
  <2>5. QED
    BY <2>1, <2>2, <2>3, <2>4
<1>3. ASSUME NEW c \in Clients, SendSegment(c) PROVE IInv'
  <2>1. TypeOK'
    BY <1>3 DEF SendSegment, TypeOK, buffers, loop
  <2>2. QED
    BY <1>2, <1>3, <2>1 DEF SendSegment
<1>4. ASSUME NEW c \in Clients, NEW how \in {"fin", "reset"}, Disconnect(c, how)
      PROVE  IInv'
  <2>1. TypeOK'
    BY <1>4 DEF Disconnect, TypeOK, buffers, loop
  <2>2. QED
    BY <1>2, <1>4, <2>1 DEF Disconnect
<1>5. ASSUME NEW t \in Threads, NEW fd \in Fds, Expire(t, fd) PROVE IInv'
  <2>0. Expired(t, fd)
    BY <1>5, ExpireEffect
  <2> USE <1>5, <2>0 DEF Expired
  <2>1. UNCHANGED <<kernel, buffers, table, loop, alive>>
    BY DEF Expire
  <2>2. TypeOK'
    BY <2>1 DEF TypeOK, kernel, buffers, loop
  <2>3. DescriptorsHaveOneOwner'
    BY <2>1, OwnersKept DEF kernel, loop
  <2>4. DescriptorInv'
    BY <2>1 DEF DescriptorInv, kernel
  <2>5. UntouchedInv'
    <3>1. UNCHANGED <<link, got, replies, strayed, pc, cur>>
      BY <2>1 DEF kernel, buffers, loop
    <3>2. ASSUME NEW u \in Threads, NEW i \in DOMAIN routines'[u],
                 ~(Busy(u) /\ cur[u] = i)
          PROVE  /\ routines'[u][i].current_event = "EPOLLIN"
                 /\ routines'[u][i].con \notin strayed =>
                      got[routines'[u][i].con] = 0 /\ replies[routines'[u][i].con] = {}
      <4>1. i \in DOMAIN routines[u]
        OBVIOUS
      <4>2. /\ routines'[u][i].con = routines[u][i].con
            /\ routines'[u][i].current_event = routines[u][i].current_event
        BY <4>1
      <4>3. /\ routines[u][i].current_event = "EPOLLIN"
            /\ routines[u][i].con \notin strayed =>
                 got[routines[u][i].con] = 0 /\ replies[routines[u][i].con] = {}
        BY <3>2, <4>1 DEF UntouchedInv
      <4>4. QED
        BY <4>2, <4>3
    <3>3. QED
      BY <3>1, <3>2 DEF UntouchedInv, Busy
  <2>6. \A u \in Threads : EventsInv(u)' /\ TableInv(u)'
    BY <2>1 DEF EventsInv, TableInv, Busy, loop
  <2>7. QED
    BY <2>2, <2>3, <2>4, <2>5, <2>6
<1>6. QED
  BY <1>1, <1>3, <1>4, <1>5 DEF Environment

\* The steps of the event loop that touch no connection keep the invariant.
LEMMA LoopStep ==
  ASSUME IInv, NEW t \in Threads,
         \/ Wake(t) \/ WakeByTimeout(t) \/ LoopEnds(t)
         \/ \E e \in todo[t] : AcceptClients(t, e)
         \/ AcceptWouldBlock(t) \/ AcceptFails(t)
  PROVE  IInv'
<1> USE DEF IInv
<1>1. /\ UNCHANGED <<kernel, buffers, routines, table, cur>>
      /\ ~Busy(t) /\ ~Busy(t)' /\ pc[t] # "destroy" /\ pc'[t] # "destroy"
      /\ \A u \in Threads \ {t} : pc'[u] = pc[u] /\ todo'[u] = todo[u]
  BY DEF Wake, WakeByTimeout, LoopEnds, AcceptClients, AcceptWouldBlock,
         AcceptFails, At, Goto, Busy, TypeOK, loop
<1>2. /\ todo' \in [Threads -> SUBSET Event]
      /\ EventsInv(t)'
  <2>1. CASE Wake(t)
    <3> DEFINE master == [fd |-> Master, err |-> FALSE]
    <3>1. PICK events : /\ todo' = [todo EXCEPT ![t] = events]
                        /\ \/ events = ClientEvents(t)
                           \/ events = ClientEvents(t) \union {master}
      BY <2>1 DEF Wake
    <3>2. ASSUME NEW e \in ClientEvents(t)
          PROVE  /\ e.fd \in DOMAIN routines[t] /\ e.fd \in Fds /\ e \in Event
                 /\ e = [fd |-> e.fd, err |-> peer[routines[t][e.fd].con] = "reset"]
      <4>1. PICK fd \in DOMAIN routines[t] :
              e = [fd |-> fd, err |-> peer[routines[t][fd].con] = "reset"]
        BY <3>2 DEF ClientEvents
      <4>2. e.fd = fd /\ fd \in Fds
        BY <4>1 DEF TypeOK
      <4>3. QED
        BY <4>1, <4>2 DEF Event
    <3>3. master \in Event /\ master.fd = Master /\ Master \notin Fds
      BY FdsAssumption DEF Event
    <3>4. todo'[t] = events /\ todo' \in [Threads -> SUBSET Event]
      BY <3>1, <3>2, <3>3 DEF TypeOK
    <3>5. ASSUME NEW e1 \in events, NEW e2 \in events, e1.fd = e2.fd
          PROVE  e1 = e2
      <4>1. CASE e1.fd = Master
        <5>1. e1 \notin ClientEvents(t) /\ e2 \notin ClientEvents(t)
          BY <3>2, <3>3, <3>5, <4>1
        <5>2. e1 = master /\ e2 = master
          <6>1. events \subseteq ClientEvents(t) \union {master}
            BY <3>1
          <6> HIDE DEF master
          <6>2. QED
            BY <5>1, <6>1
        <5>3. QED
          BY <5>2
      <4>2. CASE e1.fd # Master
        <5>1. e1 \in ClientEvents(t) /\ e2 \in ClientEvents(t)
          BY <3>1, <3>3, <3>5, <4>2
        <5>2. e1 = [fd |-> e1.fd, err |-> peer[routines[t][e1.fd].con] = "reset"]
          BY <3>2, <5>1
        <5>3. e2 = [fd |-> e2.fd, err |-> peer[routines[t][e2.fd].con] = "reset"]
          BY <3>2, <5>1
        <5>4. QED
          BY <5>2, <5>3, <3>5
      <4>3. QED
        BY <4>1, <4>2
    <3>6. QED
      BY <1>1, <3>1, <3>2, <3>3, <3>4, <3>5 DEF EventsInv
  <2>2. CASE WakeByTimeout(t)
    <3> DEFINE expired == {fd \in DOMAIN routines[t] : routines[t][fd].expired}
    <3> DEFINE events == {[fd |-> fd, err |-> FALSE] : fd \in expired}
    <3>1. todo' = [todo EXCEPT ![t] = events]
      BY <2>2 DEF WakeByTimeout
    <3>2. expired \subseteq Fds /\ expired \subseteq DOMAIN routines[t]
      BY DEF TypeOK
    <3>3. ASSUME NEW e \in events
          PROVE  e \in Event /\ e.fd \in expired /\ e = [fd |-> e.fd, err |-> FALSE]
      <4>1. PICK fd \in expired : e = [fd |-> fd, err |-> FALSE]
        BY <3>3
      <4>2. e.fd = fd
        BY <4>1
      <4>3. QED
        BY <3>2, <4>1, <4>2 DEF Event
    <3>4. todo' \in [Threads -> SUBSET Event] /\ todo'[t] = events
      BY <3>1, <3>3 DEF TypeOK
    <3>5. \A e1, e2 \in events : e1.fd = e2.fd => e1 = e2
      BY <3>3
    <3>6. ~Busy(t)' /\ DOMAIN routines'[t] = DOMAIN routines[t]
      BY <1>1
    <3> HIDE DEF events, expired
    <3>7. QED
      BY <3>2, <3>3, <3>4, <3>5, <3>6 DEF EventsInv
  <2>3. CASE ~Wake(t) /\ ~WakeByTimeout(t)
    <3>1. todo' \in [Threads -> SUBSET Event] /\ todo'[t] \subseteq todo[t]
      BY <2>3 DEF LoopEnds, AcceptClients, AcceptWouldBlock, AcceptFails, TypeOK, loop
    <3>2. QED
      BY <1>1, <3>1 DEF EventsInv
  <2>4. QED
    BY <2>1, <2>2, <2>3
<1>3. TypeOK'
  <2>1. /\ pc' \in [Threads -> {"wait", "dispatch", "accept", "serve", "close", "destroy"}]
        /\ killing' \in [Threads -> BOOLEAN]
        /\ alive' \in BOOLEAN
    <3>1. \E place \in {"wait", "dispatch", "accept"} :
            pc' = pc \/ pc' = [pc EXCEPT ![t] = place]
      BY DEF Wake, WakeByTimeout, LoopEnds, AcceptClients, AcceptWouldBlock,
             AcceptFails, Goto, loop
    <3>2. \E k \in BOOLEAN : killing' = killing \/ killing' = [killing EXCEPT ![t] = k]
      BY DEF Wake, WakeByTimeout, LoopEnds, AcceptClients, AcceptWouldBlock,
             AcceptFails, loop
    <3>3. alive' = alive \/ alive' = FALSE
      BY DEF Wake, WakeByTimeout, LoopEnds, AcceptClients, AcceptWouldBlock,
             AcceptFails
    <3>4. pc' \in [Threads -> {"wait", "dispatch", "accept", "serve", "close", "destroy"}]
      BY <3>1 DEF TypeOK
    <3>5. killing' \in [Threads -> BOOLEAN]
      BY <3>2 DEF TypeOK
    <3>6. alive' \in BOOLEAN
      BY <3>3 DEF TypeOK
    <3>7. QED
      BY <3>4, <3>5, <3>6
  <2>2. QED
    BY <1>1, <1>2, <2>1 DEF TypeOK, kernel, buffers
<1>4. DescriptorsHaveOneOwner'
  BY <1>1, OwnersKept DEF kernel
<1>5. DescriptorInv'
  BY <1>1 DEF DescriptorInv, kernel
<1>6. UntouchedInv'
  BY <1>1 DEF UntouchedInv, Busy, kernel, buffers
<1>7. \A u \in Threads : EventsInv(u)' /\ TableInv(u)'
  BY <1>1, <1>2 DEF EventsInv, TableInv, Busy
<1>8. QED
  BY <1>3, <1>4, <1>5, <1>6, <1>7

-----------------------------------------------------------------------------
\* Accepting a connection gives its new owner an unused descriptor.
LEMMA AcceptKeepsOwners ==
  ASSUME IInv, NEW t \in Threads, NEW c \in Clients, NEW fd \in Fds,
         Accept(t, c, fd)
  PROVE  DescriptorsHaveOneOwner' /\ DescriptorInv'
<1>0. Accepted(t, c, fd)
  BY AcceptEffect
<1>1. pc' = pc /\ cur' = cur /\ pc[t] = "accept"
  BY DEF Accept, loop, At
<1> USE DEF IInv
<1>2. Owned(t)' = Owned(t) \union {fd} /\ \A u \in Threads \ {t} : Owned(u)' = Owned(u)
  BY <1>0, <1>1 DEF Owned, Accepted
<1>3. \A u1, u2 \in Threads : u1 # u2 => Owned(u1)' \cap Owned(u2)' = {}
  BY <1>0, <1>2 DEF DescriptorsHaveOneOwner, Accepted
<1>4. /\ \A u \in Threads : Owned(u)' \subseteq DOMAIN descriptors'
      /\ \A i \in DOMAIN descriptors' : \E u \in Threads : i \in Owned(u)'
  <2>1. /\ \A u \in Threads : Owned(u) \subseteq DOMAIN descriptors
        /\ \A i \in DOMAIN descriptors : \E u \in Threads : i \in Owned(u)
    BY DEF DescriptorsHaveOneOwner
  <2>2. DOMAIN descriptors' = DOMAIN descriptors \union {fd}
    BY <1>0 DEF Accepted
  <2>3. \A u \in Threads : Owned(u) \subseteq Owned(u)'
    BY <1>2
  <2>4. \A u \in Threads : Owned(u)' \subseteq Owned(u) \union {fd}
    BY <1>2
  <2>5. fd \in Owned(t)'
    BY <1>2
  <2>6. QED
    BY <2>1, <2>2, <2>3, <2>4, <2>5
<1>5. ASSUME NEW u \in Threads
      PROVE  /\ \A i \in DOMAIN routines'[u] : descriptors'[i] = routines'[u][i].con
             /\ pc'[u] = "destroy" => cur'[u] \notin DOMAIN routines'[u]
  <2>1. \A i \in DOMAIN routines[u] : i # fd /\ i \in DOMAIN descriptors
    BY <1>0, EntriesAreOpen DEF Accepted
  <2>2. \A i \in DOMAIN routines'[u] :
          \/ i = fd /\ u = t
          \/ i \in DOMAIN routines[u] /\ routines'[u][i] = routines[u][i]
    BY <1>0 DEF Accepted
  <2>3. \A i \in DOMAIN routines'[u] : descriptors'[i] = routines'[u][i].con
    BY <1>0, <2>1, <2>2 DEF Accepted, DescriptorsHaveOneOwner
  <2>4. ASSUME pc'[u] = "destroy" PROVE cur'[u] \notin DOMAIN routines'[u]
    <3>1. u # t /\ cur[u] \notin DOMAIN routines[u]
      BY <1>1, <2>4 DEF DescriptorsHaveOneOwner
    <3>2. QED
      BY <1>0, <1>1, <3>1 DEF Accepted
  <2>5. QED
    BY <2>3, <2>4
<1>6. DescriptorsHaveOneOwner'
  BY <1>3, <1>4, <1>5 DEF DescriptorsHaveOneOwner
<1>7. \A i \in DOMAIN descriptors : descriptors[i] # c
  BY <1>0 DEF DescriptorInv, Accepted
<1>8. ASSUME NEW k \in Clients
      PROVE  link'[k] = "open" <=> \E i \in DOMAIN descriptors' : descriptors'[i] = k
  <2>1. CASE k = c
    <3>1. link'[k] = "open"
      BY <1>0, <2>1 DEF Accepted, TypeOK
    <3>2. fd \in DOMAIN descriptors' /\ descriptors'[fd] = k
      BY <1>0, <2>1 DEF Accepted
    <3>3. QED
      BY <3>1, <3>2
  <2>2. CASE k # c
    <3>1. link'[k] = link[k]
      BY <1>0, <2>2 DEF Accepted, TypeOK
    <3>2. (\E i \in DOMAIN descriptors' : descriptors'[i] = k)
            <=> \E i \in DOMAIN descriptors : descriptors[i] = k
      BY <1>0, <2>2 DEF Accepted
    <3>3. QED
      BY <3>1, <3>2 DEF DescriptorInv
  <2>3. QED
    BY <2>1, <2>2
<1>9. \A i1, i2 \in DOMAIN descriptors' : descriptors'[i1] = descriptors'[i2] => i1 = i2
  BY <1>0, <1>7 DEF DescriptorInv, Accepted
<1>10. QED
  BY <1>6, <1>8, <1>9 DEF DescriptorInv

\* Accepting keeps the invariant.
LEMMA AcceptStep ==
  ASSUME IInv, NEW t \in Threads, NEW c \in Clients, NEW fd \in Fds,
         Accept(t, c, fd)
  PROVE  IInv'
<1>0. Accepted(t, c, fd)
  BY AcceptEffect
<1>3. DescriptorsHaveOneOwner' /\ DescriptorInv'
  BY AcceptKeepsOwners
<1> USE <1>0 DEF Accepted, IInv
<1>1. /\ UNCHANGED <<peer, sent, got, cleared, replies, strayed>>
      /\ UNCHANGED <<pc, todo, cur, killing, alive>>
      /\ ~Busy(t)
  BY DEF Accept, At, Busy, buffers, loop
<1>2. TypeOK'
  <2>1. ASSUME NEW u \in Threads
        PROVE  DOMAIN table'[u] \subseteq Fds /\ DOMAIN routines'[u] \subseteq Fds
    <3>1. DOMAIN table[u] \subseteq Fds /\ DOMAIN routines[u] \subseteq Fds
      BY DEF TypeOK
    <3>2. QED
      BY <3>1
  <2>2. \A u \in Threads : routines'[u] \in [DOMAIN routines'[u] -> Info]
    BY DEF TypeOK
  <2>3. DOMAIN descriptors' \subseteq Fds
    BY DEF TypeOK
  <2>4. link' \in [Clients -> {"idle", "queued", "open", "closed"}]
    BY DEF TypeOK
  <2>5. QED
    BY <1>1, <2>1, <2>2, <2>3, <2>4 DEF TypeOK
<1>4. \A u \in Threads : EventsInv(u)' /\ TableInv(u)'
  BY <1>1 DEF EventsInv, TableInv, Busy
<1>5. UntouchedInv'
  <2>1. got' = got /\ replies' = replies /\ strayed' = strayed /\ pc' = pc /\ cur' = cur
    BY <1>1
  <2>2. \A k \in Clients : link'[k] \in {"idle", "queued"} => link[k] \in {"idle", "queued"}
    BY DEF TypeOK
  <2>3. got[c] = 0 /\ replies[c] = {}
    BY DEF UntouchedInv
  <2>4. ASSUME NEW u \in Threads, NEW i \in DOMAIN routines'[u],
               ~(Busy(u) /\ cur[u] = i)
        PROVE  /\ routines'[u][i].current_event = "EPOLLIN"
               /\ routines'[u][i].con \notin strayed =>
                    got[routines'[u][i].con] = 0 /\ replies[routines'[u][i].con] = {}
    <3>1. CASE u = t /\ i = fd
      BY <2>3, <3>1
    <3>2. CASE ~(u = t /\ i = fd)
      <4>1. i \in DOMAIN routines[u] /\ routines'[u][i] = routines[u][i]
        BY <3>2
      <4>2. QED
        BY <2>4, <4>1 DEF UntouchedInv
    <3>3. QED
      BY <3>1, <3>2
  <2>5. ASSUME NEW k \in Clients, link'[k] \in {"idle", "queued"}
        PROVE  got'[k] = 0 /\ replies'[k] = {}
    BY <2>1, <2>2, <2>5 DEF UntouchedInv
  <2>6. \A u \in Threads : Busy(u)' <=> Busy(u)
    BY <2>1 DEF Busy
  <2> HIDE DEF Accepted, IInv
  <2>7. QED
    BY <2>1, <2>4, <2>5, <2>6 DEF UntouchedInv
<1>6. QED
  BY <1>2, <1>3, <1>4, <1>5

-----------------------------------------------------------------------------
\* Erasing the entry of an event that is being handled: the others of the manager
\* stay as they were.
LEMMA DeleteStep ==
  ASSUME IInv, NEW t \in Threads, NEW fd \in DOMAIN routines[t],
         DeleteConnection(t, fd),
         UNCHANGED <<kernel, buffers, table, killing, alive>>,
         todo' \in [Threads -> SUBSET Event],
         \A u \in Threads \ {t} : todo'[u] = todo[u],
         pc[t] \in {"dispatch", "close"}, Busy(t) => cur[t] = fd,
         todo'[t] \subseteq todo[t], \A e \in todo'[t] : e.fd # fd,
         fd \in DOMAIN table[t] \/ pc[t] = "close"
  PROVE  IInv'
<1>0. Unlinked(t, fd)
  BY DeleteEffect DEF IInv
<1>2. DescriptorsHaveOneOwner'
  BY DeleteKeepsOwners DEF kernel
<1> USE <1>0 DEF Unlinked, IInv, kernel, buffers
<1>3. DescriptorInv'
  BY DEF DescriptorInv
<1>4. /\ pc' \in [Threads -> {"wait", "dispatch", "accept", "serve", "close", "destroy"}]
      /\ cur' \in [Threads -> Fds \union {NoFd}]
      /\ pc'[t] = "destroy" /\ ~Busy(t)'
      /\ \A u \in Threads \ {t} : pc'[u] = pc[u] /\ cur'[u] = cur[u]
  BY DEF TypeOK, Busy
<1>5. TypeOK'
  BY <1>4 DEF TypeOK
<1>6. \A u \in Threads \ {t} : EventsInv(u)' /\ TableInv(u)'
  BY <1>4 DEF EventsInv, TableInv, Busy
<1>7. EventsInv(t)'
  BY <1>4 DEF EventsInv
<1>8. TableInv(t)'
  BY <1>4 DEF TableInv, Busy
<1>9. UntouchedInv'
  <2>1. ASSUME NEW u \in Threads, NEW i \in DOMAIN routines'[u],
               ~(Busy(u)' /\ cur'[u] = i)
        PROVE  /\ routines'[u][i].current_event = "EPOLLIN"
               /\ routines'[u][i].con \notin strayed' =>
                    got'[routines'[u][i].con] = 0 /\ replies'[routines'[u][i].con] = {}
    <3>1. i \in DOMAIN routines[u] /\ routines'[u][i] = routines[u][i]
      OBVIOUS
    <3>2. ~(Busy(u) /\ cur[u] = i)
      BY <1>4, <2>1 DEF Busy
    <3>3. QED
      BY <3>1, <3>2 DEF UntouchedInv
  <2>2. \A k \in Clients :
          link'[k] \in {"idle", "queued"} => got'[k] = 0 /\ replies'[k] = {}
    BY DEF UntouchedInv
  <2>3. QED
    BY <2>1, <2>2 DEF UntouchedInv
<1>10. QED
  BY <1>2, <1>3, <1>5, <1>6, <1>7, <1>8, <1>9

\* Dropping a client that hung up keeps the invariant.
LEMMA DropClientStep ==
  ASSUME IInv, NEW t \in Threads, NEW e \in todo[t], DropClient(t, e)
  PROVE  IInv'
<1>1. /\ pc[t] = "dispatch" /\ e.err
      /\ DeleteConnection(t, e.fd)
      /\ UNCHANGED <<kernel, buffers, table, killing, alive>>
  BY DEF DropClient, At
<1>2. e.fd \in DOMAIN routines[t] /\ e.fd \in DOMAIN table[t]
  BY <1>1 DEF EventsInv, TableInv, IInv
<1>3. /\ todo' \in [Threads -> SUBSET Event]
      /\ todo'[t] = todo[t] \ {e}
      /\ \A u \in Threads \ {t} : todo'[u] = todo[u]
  BY DEF DropClient, TypeOK, IInv
<1>4. \A other \in todo'[t] : other.fd # e.fd
  BY <1>3 DEF EventsInv, IInv
<1>5. QED
  BY <1>1, <1>2, <1>3, <1>4, DeleteStep DEF Busy

\* The deletion after the resume keeps the invariant.
LEMMA CloseClientStep ==
  ASSUME IInv, NEW t \in Threads, CloseClient(t)
  PROVE  IInv'
<1>1. /\ pc[t] = "close" /\ todo' = todo
      /\ DeleteConnection(t, cur[t])
      /\ UNCHANGED <<kernel, buffers, table, killing, alive>>
  BY DEF CloseClient, At
<1>2. cur[t] \in DOMAIN routines[t]
  BY <1>1 DEF TableInv, Busy, IInv
<1>3. \A e \in todo[t] : e.fd # cur[t]
  <2>1. \A e \in todo[t] : e.fd # Master => e.fd # cur[t]
    BY <1>1 DEF EventsInv, Busy, IInv
  <2>2. cur[t] # Master
    BY <1>2, FdsAssumption DEF TypeOK, IInv
  <2>3. QED
    BY <2>1, <2>2
<1>4. todo' \in [Threads -> SUBSET Event]
  BY <1>1 DEF TypeOK, IInv
<1>5. QED
  BY <1>1, <1>2, <1>3, <1>4, DeleteStep

\* What close(2) does with an open number.
Closed(fd) ==
  /\ DOMAIN descriptors' = DOMAIN descriptors \ {fd}
  /\ \A i \in DOMAIN descriptors' : descriptors'[i] = descriptors[i]
  /\ link' \in [Clients -> {"idle", "queued", "open", "closed"}]
  /\ link'[descriptors[fd]] = "closed"
  /\ \A k \in Clients : k # descriptors[fd] => link'[k] = link[k]

\* close(2), as the change it makes.
LEMMA CloseEffect ==
  ASSUME TypeOK, NEW fd \in DOMAIN descriptors, CloseNumber(fd)
  PROVE  Closed(fd)
  BY DEF Closed, CloseNumber, Restrict, TypeOK

\* Closing gives up the number of the connection that is destroyed, and no other.
LEMMA CloseFdStep ==
  ASSUME IInv, NEW t \in Threads, CloseFd(t)
  PROVE  IInv'
<1> DEFINE fd == cur[t]
<1> USE DEF IInv
<1>1. /\ pc[t] = "destroy" /\ CloseNumber(fd)
      /\ cur' = [cur EXCEPT ![t] = NoFd] /\ pc' = [pc EXCEPT ![t] = "dispatch"]
      /\ UNCHANGED <<peer, sent, buffers, routines, table, todo, killing, alive>>
  BY DEF CloseFd, At, Goto
<1>2. fd \in Owned(t) /\ fd \in DOMAIN descriptors /\ fd \notin DOMAIN routines[t]
  BY <1>1 DEF DescriptorsHaveOneOwner, Owned
<1>3. Closed(fd)
  BY <1>1, <1>2, CloseEffect
<1>4. /\ pc' \in [Threads -> {"wait", "dispatch", "accept", "serve", "close", "destroy"}]
      /\ cur' \in [Threads -> Fds \union {NoFd}]
      /\ pc'[t] = "dispatch" /\ ~Busy(t)' /\ ~Busy(t)
      /\ \A u \in Threads \ {t} : pc'[u] = pc[u] /\ cur'[u] = cur[u]
  BY <1>1 DEF TypeOK, Busy
<1> HIDE DEF fd
<1>5. TypeOK'
  <2>1. DOMAIN descriptors' \subseteq Fds /\ descriptors' \in [DOMAIN descriptors' -> Clients]
    <3>1. descriptors' = Restrict(descriptors, DOMAIN descriptors \ {fd})
      BY <1>1 DEF CloseNumber
    <3>2. QED
      BY <3>1 DEF Restrict, TypeOK
  <2>2. QED
    BY <1>1, <1>3, <1>4, <2>1 DEF TypeOK, Closed, buffers
<1>6. DescriptorsHaveOneOwner'
  <2>1. Owned(t)' = Owned(t) \ {fd} /\ \A u \in Threads \ {t} : Owned(u)' = Owned(u)
    BY <1>1, <1>2, <1>4 DEF Owned, fd
  <2>2. \A u \in Threads \ {t} : fd \notin Owned(u)
    BY <1>2 DEF DescriptorsHaveOneOwner
  <2>3. \A u1, u2 \in Threads : u1 # u2 => Owned(u1)' \cap Owned(u2)' = {}
    BY <2>1 DEF DescriptorsHaveOneOwner
  <2>4. /\ \A u \in Threads : Owned(u)' \subseteq DOMAIN descriptors'
        /\ \A i \in DOMAIN descriptors' : \E u \in Threads : i \in Owned(u)'
    <3>1. /\ \A u \in Threads : Owned(u) \subseteq DOMAIN descriptors
          /\ \A i \in DOMAIN descriptors : \E u \in Threads : i \in Owned(u)
      BY DEF DescriptorsHaveOneOwner
    <3>2. DOMAIN descriptors' = DOMAIN descriptors \ {fd}
      BY <1>3 DEF Closed
    <3>3. \A u \in Threads : Owned(u)' = Owned(u) \ {fd}
      BY <2>1, <2>2
    <3>4. QED
      BY <3>1, <3>2, <3>3
  <2>5. ASSUME NEW u \in Threads
        PROVE  /\ \A i \in DOMAIN routines'[u] : descriptors'[i] = routines'[u][i].con
               /\ pc'[u] = "destroy" => cur'[u] \notin DOMAIN routines'[u]
    <3>1. \A i \in DOMAIN routines[u] : i \in DOMAIN descriptors /\ i # fd
      BY <1>2, <2>2, EntriesAreOpen
    <3>2. \A i \in DOMAIN routines[u] : descriptors'[i] = routines[u][i].con
      BY <1>3, <3>1 DEF Closed, DescriptorsHaveOneOwner
    <3>3. pc'[u] = "destroy" => u # t
      BY <1>4
    <3>4. QED
      BY <1>1, <1>4, <3>2, <3>3 DEF DescriptorsHaveOneOwner
  <2>6. QED
    BY <2>3, <2>4, <2>5 DEF DescriptorsHaveOneOwner
<1>7. DescriptorInv'
  <2>1. \A i1, i2 \in DOMAIN descriptors' : descriptors'[i1] = descriptors'[i2] => i1 = i2
    BY <1>3 DEF DescriptorInv, Closed
  <2>2. ASSUME NEW k \in Clients
        PROVE  link'[k] = "open" <=> \E i \in DOMAIN descriptors' : descriptors'[i] = k
    <3>1. CASE k = descriptors[fd]
      <4>1. \A i \in DOMAIN descriptors' : descriptors'[i] # k
        BY <1>2, <1>3, <3>1 DEF DescriptorInv, Closed
      <4>2. QED
        BY <1>3, <3>1, <4>1 DEF Closed
    <3>2. CASE k # descriptors[fd]
      <4>1. link'[k] = link[k]
        BY <1>3, <3>2 DEF Closed
      <4>2. (\E i \in DOMAIN descriptors' : descriptors'[i] = k)
              <=> \E i \in DOMAIN descriptors : descriptors[i] = k
        BY <1>3, <3>2 DEF Closed
      <4>3. QED
        BY <4>1, <4>2 DEF DescriptorInv
    <3>3. QED
      BY <3>1, <3>2
  <2>3. QED
    BY <2>1, <2>2 DEF DescriptorInv
<1>8. \A u \in Threads : EventsInv(u)' /\ TableInv(u)'
  <2>1. \A u \in Threads \ {t} : EventsInv(u)' /\ TableInv(u)'
    BY <1>1, <1>4 DEF EventsInv, TableInv, Busy
  <2>2. EventsInv(t)'
    BY <1>1, <1>4 DEF EventsInv
  <2>3. TableInv(t)'
    BY <1>1, <1>4 DEF TableInv, Busy
  <2>4. QED
    BY <2>1, <2>2, <2>3
<1>9. UntouchedInv'
  <2>1. \A k \in Clients : link'[k] \in {"idle", "queued"} => link[k] \in {"idle", "queued"}
    BY <1>3 DEF Closed
  <2>2. /\ UNCHANGED <<got, replies, strayed, routines>>
        /\ \A u \in Threads : Busy(u)' <=> Busy(u)
        /\ \A u \in Threads : Busy(u) => cur'[u] = cur[u]
    BY <1>1, <1>4 DEF Busy, buffers
  <2>3. QED
    BY <2>1, <2>2 DEF UntouchedInv
<1>10. QED
  BY <1>5, <1>6, <1>7, <1>8, <1>9

\* A resume or a kill starts on a tracked connection that has a coroutine.
LEMMA ServeClientStep ==
  ASSUME IInv, NEW t \in Threads, NEW e \in todo[t], ServeClient(t, e)
  PROVE  IInv'
<1> USE DEF IInv
<1> DEFINE fd == e.fd
<1>1. /\ pc[t] = "dispatch" /\ fd # Master /\ ResumeRoutine(t, fd)
      /\ UNCHANGED <<kernel, buffers, routines, killing, alive>>
      /\ todo' = [todo EXCEPT ![t] = todo[t] \ {e}]
      /\ cur' = [cur EXCEPT ![t] = fd]
  BY DEF ServeClient, At
<1>2. fd \in DOMAIN routines[t] /\ fd \in DOMAIN table[t]
  BY <1>1 DEF EventsInv, TableInv
<1>3. Resumed(t, fd)
  BY <1>1, <1>2, ResumeEffect
<1> HIDE DEF fd
<1>4. /\ todo' \in [Threads -> SUBSET Event] /\ todo'[t] = todo[t] \ {e}
      /\ cur' \in [Threads -> Fds \union {NoFd}] /\ cur'[t] = fd
      /\ \A u \in Threads \ {t} : todo'[u] = todo[u] /\ cur'[u] = cur[u]
  BY <1>1, <1>2 DEF TypeOK
<1>5. /\ pc' \in [Threads -> {"wait", "dispatch", "accept", "serve", "close", "destroy"}]
      /\ pc'[t] = "serve"
      /\ \A u \in Threads \ {t} : pc'[u] = pc[u]
  BY <1>1, <1>3 DEF Resumed, TypeOK
<1>6. TypeOK'
  BY <1>1, <1>3, <1>4, <1>5 DEF Resumed, TypeOK, kernel, buffers
<1>7. DescriptorsHaveOneOwner' /\ DescriptorInv'
  <2>1. DescriptorsHaveOneOwner'
    BY <1>1, <1>4, <1>5, OwnersKept DEF kernel
  <2>2. DescriptorInv'
    BY <1>1 DEF DescriptorInv, kernel
  <2>3. QED
    BY <2>1, <2>2
<1>8. \A u \in Threads \ {t} : EventsInv(u)' /\ TableInv(u)'
  BY <1>1, <1>3, <1>4, <1>5 DEF Resumed, EventsInv, TableInv, Busy
<1>9. EventsInv(t)'
  <2>1. \A other \in todo'[t] : other \in todo[t] /\ other.fd # fd
    BY <1>4 DEF EventsInv, fd
  <2>2. QED
    BY <1>1, <1>4, <2>1 DEF EventsInv, Busy
<1>10. TableInv(t)'
  <2>1. routines' = routines /\ DOMAIN table'[t] = DOMAIN table[t]
    BY <1>1, <1>3 DEF Resumed
  <2>2. QED
    BY <1>1, <1>2, <1>4, <1>5, <2>1 DEF TableInv, Busy
<1>11. UntouchedInv'
  <2>1. UNCHANGED <<link, got, replies, strayed, routines>>
    BY <1>1 DEF kernel, buffers
  <2>2. \A u \in Threads : \A i : Busy(u) /\ cur[u] = i => Busy(u)' /\ cur'[u] = i
    BY <1>1, <1>4, <1>5 DEF Busy
  <2>3. QED
    BY <2>1, <2>2 DEF UntouchedInv
<1>12. QED
  BY <1>6, <1>7, <1>8, <1>9, <1>10, <1>11

-----------------------------------------------------------------------------
\* The coroutine goes on without giving the thread back.
GoesOn(t) ==
  /\ DOMAIN table' = Threads
  /\ pc' = pc
  /\ DOMAIN table'[t] = DOMAIN table[t]
  /\ table'[t] \in [DOMAIN table[t] -> Body]
  /\ \A u \in Threads \ {t} : table'[u] = table[u]

\* A step inside of a routine changes its own place only.
LEMMA GoesOnEffect ==
  ASSUME TypeOK, NEW t \in Threads, cur[t] \in DOMAIN table[t], NEW b \in Body,
         table' = [table EXCEPT ![t][cur[t]] = b], pc' = pc
  PROVE  GoesOn(t)
<1>1. table'[t] = [table[t] EXCEPT ![cur[t]] = b]
  BY DEF TypeOK
<1>2. QED
  BY <1>1 DEF GoesOn, TypeOK

\* A step of clientRoutine changes the event of the connection it serves, reads
\* and writes the one its reference finds, and either goes on or leaves.
LEMMA RoutineStep ==
  ASSUME IInv, NEW t \in Threads, pc[t] = "serve", Con(t) \in Clients,
         UNCHANGED <<kernel, todo, cur, killing>>, alive' \in BOOLEAN,
         got' \in [Clients -> Nat], replies' \in [Clients -> SUBSET Clients],
         cleared' \subseteq Clients,
         \A k \in Clients : k # Con(t) => got'[k] = got[k] /\ replies'[k] = replies[k],
         \/ UNCHANGED <<got, replies, strayed>>
         \/ link[Con(t)] = "open" /\ Uses(Con(t), t),
         EventChanged(t),
         Left(t) \/ GoesOn(t)
  PROVE  IInv'
<1> USE DEF EventChanged
<1>0. IInv
  OBVIOUS
<1>1. cur[t] \in DOMAIN routines[t] /\ Busy(t)
  BY DEF TableInv, Busy, IInv
<1>2. /\ DOMAIN table' = Threads
      /\ pc' \in [Threads -> {"wait", "dispatch", "accept", "serve", "close", "destroy"}]
      /\ \/ pc'[t] = "close"
         \/ pc'[t] = "serve" /\ DOMAIN table'[t] = DOMAIN table[t]
      /\ DOMAIN table'[t] \subseteq DOMAIN table[t]
      /\ DOMAIN table[t] \ {cur[t]} \subseteq DOMAIN table'[t]
      /\ table'[t] \in [DOMAIN table'[t] -> Body]
      /\ \A u \in Threads \ {t} : table'[u] = table[u] /\ pc'[u] = pc[u]
  BY DEF Left, GoesOn, TypeOK, IInv
<1>3. strayed' \subseteq Clients /\ strayed \subseteq strayed'
  BY DEF Uses, IInv, TypeOK
<1>4. TypeOK'
  BY <1>2, <1>3 DEF TypeOK, kernel, IInv
<1>5. \A u \in Threads :
        /\ DOMAIN routines'[u] = DOMAIN routines[u]
        /\ \A i \in DOMAIN routines[u] : routines'[u][i].con = routines[u][i].con
  BY <1>1
<1>6. DescriptorsHaveOneOwner'
  BY <1>2, <1>5, OwnersKept DEF kernel, IInv
<1>7. DescriptorInv'
  BY DEF DescriptorInv, kernel, IInv
<1>8. \A u \in Threads \ {t} : EventsInv(u)' /\ TableInv(u)'
  BY <1>2 DEF EventsInv, TableInv, Busy, IInv
<1>9. EventsInv(t)'
  BY <1>1, <1>2, <1>5 DEF EventsInv, Busy, IInv
<1>10. TableInv(t)'
  BY <1>1, <1>2, <1>5 DEF TableInv, Busy, IInv
<1>11. UntouchedInv'
  <2>1. ASSUME NEW k \in Clients, link'[k] \in {"idle", "queued"}
        PROVE  got'[k] = 0 /\ replies'[k] = {}
    <3>1. link[k] \in {"idle", "queued"}
      BY <2>1 DEF kernel
    <3>2. got[k] = 0 /\ replies[k] = {}
      BY <3>1 DEF UntouchedInv, IInv
    <3>3. got'[k] = got[k] /\ replies'[k] = replies[k]
      BY <3>1
    <3>4. QED
      BY <3>2, <3>3
  <2>2. Busy(t)' /\ cur'[t] = cur[t]
    BY <1>2 DEF Busy
  <2>3. ASSUME NEW u \in Threads, NEW i \in DOMAIN routines'[u],
               ~(Busy(u)' /\ cur'[u] = i)
        PROVE  /\ routines'[u][i].current_event = "EPOLLIN"
               /\ routines'[u][i].con \notin strayed' =>
                    got'[routines'[u][i].con] = 0 /\ replies'[routines'[u][i].con] = {}
    <3> DEFINE con == routines[u][i].con
    <3>1. ~(u = t /\ i = cur[t]) /\ i \in DOMAIN routines[u]
      BY <2>2, <2>3, <1>5
    <3>2. routines'[u][i] = routines[u][i]
      BY <3>1
    <3>3. ~(Busy(u) /\ cur[u] = i)
      BY <2>3, <3>1, <1>2 DEF Busy
    <3>4. con # Own(t) /\ con \in Clients
      BY <3>1, <1>1, EntriesDiffer, EntriesAreOpen DEF Own
    <3>5. /\ routines[u][i].current_event = "EPOLLIN"
          /\ con \notin strayed => got[con] = 0 /\ replies[con] = {}
      BY <3>1, <3>3 DEF UntouchedInv, IInv
    <3>6. ASSUME con \notin strayed' PROVE got'[con] = got[con] /\ replies'[con] = replies[con]
      <4>1. CASE con # Con(t)
        BY <3>4, <4>1
      <4>2. CASE con = Con(t)
        BY <3>4, <3>6, <4>2 DEF Uses
      <4>3. QED
        BY <4>1, <4>2
    <3>7. QED
      BY <1>3, <3>2, <3>5, <3>6
  <2>4. QED
    BY <2>1, <2>3 DEF UntouchedInv
<1>12. QED
  BY <1>4, <1>6, <1>7, <1>8, <1>9, <1>10, <1>11 DEF IInv

\* Every step of a routine keeps the invariant.
LEMMA ClientRoutineStep ==
  ASSUME IInv, NEW t \in Threads, ClientRoutine(t)
  PROVE  IInv'
<1> DEFINE c == Con(t)
           body == table[t][cur[t]]
<1>1. /\ pc[t] = "serve"
      /\ UNCHANGED <<kernel, todo, cur, killing>>
      /\ alive' \in {alive, FALSE}
  BY DEF ClientRoutine, Receive, Respond, SendAll, SendStalls, UseStale, Fail, Serves, At,
         loop
<1>2. body.at \in {"receive", "respond", "send", "failed"}
  BY DEF ClientRoutine, Receive, Respond, SendAll, SendStalls, UseStale, Fail, Serves
<1>3. /\ cur[t] \in DOMAIN table[t] /\ cur[t] \in DOMAIN routines[t]
      /\ body \in Body
  BY <1>1 DEF TableInv, Busy, TypeOK, IInv
<1>4. /\ body \in Started
      /\ body.of \in Clients /\ c \in Clients
  BY <1>2, <1>3 DEF Body, NotStarted, Started, Con
<1>5. routines' = routines => EventChanged(t)
  BY <1>3 DEF EventChanged, TypeOK, IInv
<1>6. \A place \in {"receive", "send", "again"} :
        EndRoutine(t) \/ YieldAt(t, place) => Left(t)
  BY <1>2, <1>3, LeaveEffect DEF IInv
<1>0. /\ got \in [Clients -> Nat] /\ replies \in [Clients -> SUBSET Clients]
      /\ cleared \subseteq Clients /\ alive' \in BOOLEAN
  BY <1>1 DEF IInv, TypeOK
<1> HIDE DEF c, body
<1>7. CASE Receive(t)
  <2>1. /\ UNCHANGED <<replies, routines>>
        /\ got' = got \/ got' = [got EXCEPT ![c] = got[c] + 1]
        /\ link[c] = "open" /\ Uses(c, t)
        /\ cleared' = cleared \/ cleared' = cleared \union {c}
    BY <1>7 DEF Receive, c
  <2>2. /\ got' \in [Clients -> Nat] /\ cleared' \subseteq Clients
        /\ \A k \in Clients : k # c => got'[k] = got[k]
    BY <2>1, <1>0, <1>4
  <2>3. \/ EndRoutine(t) \/ YieldAt(t, "receive")
        \/ table' = [table EXCEPT ![t][cur[t]].at = "respond", ![t][cur[t]].of = c] /\ pc' = pc
    BY <1>7 DEF Receive, c
  <2>4. [body EXCEPT !.at = "respond", !.of = c] \in Body
    BY <1>4 DEF Body, Started
  <2>5. ASSUME table' = [table EXCEPT ![t][cur[t]].at = "respond", ![t][cur[t]].of = c],
               pc' = pc
        PROVE  GoesOn(t)
    <3>1. table' = [table EXCEPT ![t][cur[t]] = [body EXCEPT !.at = "respond", !.of = c]]
      BY <1>3, <2>5 DEF body, IInv, TypeOK
    <3>2. QED
      BY <1>3, <2>4, <2>5, <3>1, GoesOnEffect DEF IInv
  <2>6. Left(t) \/ GoesOn(t)
    BY <2>3, <2>5, <1>6
  <2>7. EventChanged(t)
    BY <1>5, <2>1
  <2>8. QED
    BY <1>0, <1>1, <1>4, <2>1, <2>2, <2>6, <2>7, RoutineStep DEF c
<1>8. CASE Respond(t)
  <2>1. /\ UNCHANGED <<got, replies, strayed, cleared, pc>>
        /\ ChangeEvent(t, "EPOLLOUT")
        /\ table' = [table EXCEPT ![t][cur[t]].at = "send"]
    BY <1>8 DEF Respond, buffers, loop
  <2>2. EventChanged(t)
    BY <2>1, <1>3, ChangeEventEffect DEF IInv
  <2>3. [body EXCEPT !.at = "send"] \in Body
    BY <1>4 DEF Body, Started
  <2>4. table' = [table EXCEPT ![t][cur[t]] = [body EXCEPT !.at = "send"]]
    BY <1>3, <2>1 DEF body, IInv, TypeOK
  <2>5. GoesOn(t)
    BY <1>3, <2>1, <2>3, <2>4, GoesOnEffect DEF IInv
  <2>6. QED
    BY <1>0, <1>1, <1>4, <2>1, <2>2, <2>5, RoutineStep DEF c
<1>9. CASE SendAll(t)
  <2>1. /\ got' = got /\ cleared' = cleared
        /\ link[c] = "open" /\ Uses(c, t)
        /\ replies' = [replies EXCEPT ![c] = replies[c] \union {body.of}]
        /\ \/ ChangeEvent(t, "EPOLLIN") /\ YieldAt(t, "again")
           \/ EndRoutine(t) /\ UNCHANGED routines
    BY <1>9 DEF SendAll, c, body
  <2>2. /\ replies' \in [Clients -> SUBSET Clients]
        /\ \A k \in Clients : k # c => replies'[k] = replies[k]
    BY <2>1, <1>0, <1>4
  <2>3. EventChanged(t) /\ Left(t)
    BY <2>1, <1>3, <1>5, <1>6, ChangeEventEffect DEF IInv
  <2>4. QED
    BY <1>0, <1>1, <1>4, <2>1, <2>2, <2>3, RoutineStep DEF c
<1>10. CASE SendStalls(t) \/ Fail(t) \/ UseStale(t)
  <2>1. /\ UNCHANGED <<got, cleared, replies, strayed, routines>>
        /\ EndRoutine(t) \/ YieldAt(t, "send") \/ UNCHANGED <<table, pc>>
    BY <1>10 DEF SendStalls, Fail, UseStale, buffers
  <2>2. UNCHANGED <<table, pc>> => GoesOn(t)
    BY DEF GoesOn, IInv, TypeOK
  <2>3. Left(t) \/ GoesOn(t)
    BY <2>1, <2>2, <1>6
  <2>4. QED
    BY <1>0, <1>1, <1>4, <1>5, <2>1, <2>3, RoutineStep DEF c
<1>11. QED
  BY <1>7, <1>8, <1>9, <1>10 DEF ClientRoutine

-----------------------------------------------------------------------------
\* No step of the server or of the world around it breaks the invariant.
THEOREM StepInvariant == IInv /\ [Next]_vars => IInv'
<1> SUFFICES ASSUME IInv, [Next]_vars PROVE IInv'
  OBVIOUS
<1>1. CASE Environment
  BY <1>1, EnvironmentStep
<1>2. ASSUME NEW t \in Threads, Manager(t) PROVE IInv'
  <2>1. CASE \E e \in todo[t] : DropClient(t, e) \/ ServeClient(t, e)
    BY <2>1, DropClientStep, ServeClientStep
  <2>2. CASE \E c \in Clients, fd \in Fds : Accept(t, c, fd)
    BY <2>2, AcceptStep
  <2>3. CASE CloseClient(t) \/ CloseFd(t)
    BY <2>3, CloseClientStep, CloseFdStep
  <2>4. CASE \/ Wake(t) \/ WakeByTimeout(t) \/ LoopEnds(t)
             \/ \E e \in todo[t] : AcceptClients(t, e)
             \/ AcceptWouldBlock(t) \/ AcceptFails(t)
    BY <2>4, LoopStep
  <2>5. QED
    BY <1>2, <2>1, <2>2, <2>3, <2>4 DEF Manager
<1>3. ASSUME NEW t \in Threads, ClientRoutine(t) PROVE IInv'
  BY <1>3, ClientRoutineStep
<1>4. CASE UNCHANGED vars
  BY <1>4 DEF IInv, vars, kernel, buffers, loop, TypeOK, DescriptorsHaveOneOwner, Owned,
              DescriptorInv, EventsInv, TableInv, UntouchedInv, Busy
<1>5. QED
  BY <1>1, <1>2, <1>3, <1>4 DEF Next

\* The invariant holds in every state the server can reach.
THEOREM Invariance == Spec => []IInv
<1>1. Init => IInv
  BY InitInvariant
<1>2. IInv /\ [Next]_vars => IInv'
  BY StepInvariant
<1>3. QED
  BY <1>1, <1>2, PTL DEF Spec

\* The tables and the loops of the managers keep their types.
THEOREM TypeCorrect == Spec => []TypeOK
<1>1. IInv => TypeOK
  BY DEF IInv
<1>2. QED
  BY <1>1, Invariance, PTL

\* Whatever is deleted and accepted while a manager works off its events, the
\* `at' calls of its loop find the connection and its coroutine.
THEOREM EventsNameLiveConnectionsHolds == Spec => []EventsNameLiveConnections
<1>1. IInv => EventsNameLiveConnections
  BY DEF IInv, EventsNameLiveConnections, EventsInv, TableInv, Busy
<1>2. QED
  BY <1>1, Invariance, PTL

\* However accept4 in some threads and close in others interleave, an open number
\* belongs to one manager, and none is closed by another or left open.
THEOREM DescriptorsHaveOneOwnerHolds == Spec => []DescriptorsHaveOneOwner
<1>1. IInv => DescriptorsHaveOneOwner
  BY DEF IInv
<1>2. QED
  BY <1>1, Invariance, PTL

\* Between two rounds of its loop a manager holds fresh connections only, and
\* those a suspended routine with a stale reference used in their place.
THEOREM ConnectionsAreServedOnceHolds == Spec => []ConnectionsAreServedOnce
<1>1. IInv => ConnectionsAreServedOnce
  BY DEF IInv, ConnectionsAreServedOnce, UntouchedInv, Busy
<1>2. QED
  BY <1>1, Invariance, PTL

-----------------------------------------------------------------------------
\* A manager as a user of the coroutine library: what RoutineLifecycle allows it.
LibraryStep(t) == [Library(t)!Next]_(Library(t)!vars)

\* The library sees nothing of a step that keeps the routines of a thread and
\* the one that runs.
LEMMA LibraryStutters ==
  ASSUME NEW t \in Threads, DOMAIN table'[t] = DOMAIN table[t],
         pc[t] = "serve" <=> pc'[t] = "serve",
         pc[t] = "serve" => cur'[t] = cur[t] /\ killing'[t] = killing[t]
  PROVE  LibraryStep(t)
<1>1. Library(t)!vars' = Library(t)!vars
  BY DEF Library!vars, RoutineStatus, Killed
<1>2. QED
  BY <1>1 DEF LibraryStep

\* A resume or a kill from the main stack.
LEMMA LibraryRuns ==
  ASSUME TypeOK, NEW t \in Threads, NEW fd \in Fds, fd \in DOMAIN table[t],
         pc[t] # "serve", pc'[t] = "serve", cur'[t] = fd, killing'[t] = killing[t],
         DOMAIN table'[t] = DOMAIN table[t]
  PROVE  LibraryStep(t)
<1>1. /\ RoutineStatus(t)[fd] = "ready"
      /\ RoutineStatus(t)' = [RoutineStatus(t) EXCEPT ![fd] = "running"]
      /\ \A i \in Fds : RoutineStatus(t)[i] # "running"
  BY DEF RoutineStatus
<1>2. Killed(t) = {} /\ Killed(t)' = IF killing[t] THEN {fd} ELSE {}
  BY DEF Killed
<1>3. Library(t)!NobodyRuns
  BY <1>1 DEF Library!NobodyRuns
<1>4. Library(t)!Resume(fd) \/ Library(t)!Kill(fd)
  BY <1>1, <1>2, <1>3 DEF Library!Resume, Library!Kill
<1>5. QED
  BY <1>4 DEF LibraryStep, Library!Next

\* The routine that runs ends, or yields when it was not killed.
LEMMA LibraryLeaves ==
  ASSUME TypeOK, NEW t \in Threads, pc[t] = "serve", cur[t] \in DOMAIN table[t],
         pc'[t] = "close",
         \/ DOMAIN table'[t] = DOMAIN table[t] \ {cur[t]}
         \/ ~killing[t] /\ DOMAIN table'[t] = DOMAIN table[t]
  PROVE  LibraryStep(t)
<1>1. /\ cur[t] \in Fds /\ RoutineStatus(t)[cur[t]] = "running"
      /\ Killed(t)' = {} /\ Killed(t) = IF killing[t] THEN {cur[t]} ELSE {}
  BY DEF RoutineStatus, Killed, TypeOK
<1>2. CASE DOMAIN table'[t] = DOMAIN table[t] \ {cur[t]}
  <2>1. RoutineStatus(t)' = [RoutineStatus(t) EXCEPT ![cur[t]] = "absent"]
    BY <1>2 DEF RoutineStatus
  <2>2. Library(t)!End(cur[t])
    BY <1>1, <2>1 DEF Library!End
  <2>3. QED
    BY <1>1, <2>2 DEF LibraryStep, Library!Next
<1>3. CASE ~killing[t] /\ DOMAIN table'[t] = DOMAIN table[t]
  <2>1. RoutineStatus(t)' = [RoutineStatus(t) EXCEPT ![cur[t]] = "ready"]
    BY <1>3 DEF RoutineStatus
  <2>2. Library(t)!Suspend(cur[t])
    BY <1>1, <1>3, <2>1 DEF Library!Suspend
  <2>3. QED
    BY <1>1, <2>2 DEF LibraryStep, Library!Next
<1>4. QED
  BY <1>2, <1>3

\* A manager uses the library as RoutineLifecycle allows in each of its steps.
LEMMA ManagerFollows ==
  ASSUME IInv, NEW t \in Threads, Manager(t)
  PROVE  LibraryStep(t)
<1>1. CASE \E c \in Clients, fd \in Fds : Accept(t, c, fd)
  <2>1. PICK c \in Clients, fd \in Fds : Accept(t, c, fd)
    BY <1>1
  <2>2. Accepted(t, c, fd)
    BY <2>1, AcceptEffect
  <2>3. pc[t] = "accept" /\ pc' = pc /\ cur' = cur /\ killing' = killing
    BY <2>1 DEF Accept, At, loop
  <2>4. CASE fd \in DOMAIN table[t]
    <3>1. DOMAIN table'[t] = DOMAIN table[t]
      BY <2>2, <2>4 DEF Accepted
    <3>2. QED
      BY <2>3, <3>1, LibraryStutters
  <2>5. CASE fd \notin DOMAIN table[t]
    <3>1. /\ RoutineStatus(t)[fd] = "absent"
          /\ RoutineStatus(t)' = [RoutineStatus(t) EXCEPT ![fd] = "ready"]
          /\ Killed(t)' = Killed(t)
      BY <2>2, <2>3, <2>5 DEF RoutineStatus, Killed, Accepted
    <3>2. Library(t)!Create(fd)
      BY <3>1 DEF Library!Create
    <3>3. QED
      BY <3>2 DEF LibraryStep, Library!Next
  <2>6. QED
    BY <2>4, <2>5
<1>2. CASE \E e \in todo[t] : ServeClient(t, e)
  <2>1. PICK e \in todo[t] : ServeClient(t, e)
    BY <1>2
  <2>2. /\ pc[t] = "dispatch" /\ e.fd # Master /\ ResumeRoutine(t, e.fd)
        /\ cur' = [cur EXCEPT ![t] = e.fd] /\ killing' = killing
    BY <2>1 DEF ServeClient, At
  <2>3. e.fd \in DOMAIN routines[t] /\ e.fd \in DOMAIN table[t] /\ e.fd \in Fds
    BY <2>2 DEF IInv, EventsInv, TableInv, TypeOK
  <2>4. Resumed(t, e.fd)
    BY <2>2, <2>3, ResumeEffect DEF IInv
  <2>5. /\ DOMAIN table'[t] = DOMAIN table[t] /\ cur'[t] = e.fd
        /\ pc'[t] = "serve"
    BY <2>2, <2>4 DEF Resumed, IInv, TypeOK
  <2>6. QED
    BY <2>2, <2>3, <2>5, LibraryRuns DEF IInv
<1>3. CASE \/ Wake(t) \/ WakeByTimeout(t) \/ LoopEnds(t)
           \/ \E e \in todo[t] : AcceptClients(t, e) \/ DropClient(t, e)
           \/ AcceptWouldBlock(t) \/ AcceptFails(t) \/ CloseClient(t) \/ CloseFd(t)
  <2>1. table' = table /\ pc[t] # "serve" /\ pc'[t] # "serve"
    BY <1>3 DEF Wake, WakeByTimeout, LoopEnds, AcceptClients, DropClient, AcceptWouldBlock,
                AcceptFails, CloseClient, CloseFd, DeleteConnection, At, Goto, loop, IInv,
                TypeOK
  <2>2. QED
    BY <2>1, LibraryStutters
<1>4. QED
  BY <1>1, <1>2, <1>3 DEF Manager

\* Every step of a routine is one of the library's life cycle, or none.
LEMMA RoutineFollows ==
  ASSUME IInv, NEW t \in Threads, ClientRoutine(t)
  PROVE  LibraryStep(t)
<1>1. /\ pc[t] = "serve" /\ UNCHANGED <<cur, killing>>
      /\ table[t][cur[t]].at \in {"receive", "respond", "send", "failed"}
  BY DEF ClientRoutine, Receive, Respond, SendAll, SendStalls, UseStale, Fail, Serves, At,
         loop
<1>2. cur[t] \in DOMAIN table[t]
  BY <1>1 DEF IInv, TableInv
<1>3. \/ pc' = pc /\ DOMAIN table'[t] = DOMAIN table[t]
      \/ EndRoutine(t)
      \/ ~killing[t] /\ \E b : /\ table' = [table EXCEPT ![t][cur[t]] = b]
                               /\ pc' = [pc EXCEPT ![t] = "close"]
  <2>1. ASSUME NEW place, YieldAt(t, place), ~EndRoutine(t)
        PROVE  ~killing[t] /\ \E b : /\ table' = [table EXCEPT ![t][cur[t]] = b]
                                     /\ pc' = [pc EXCEPT ![t] = "close"]
    BY <2>1 DEF YieldAt, Goto
  <2>2. CASE Receive(t)
    <3>1. \/ EndRoutine(t) \/ YieldAt(t, "receive")
          \/ /\ pc' = pc
             /\ table' = [table EXCEPT ![t][cur[t]].at = "respond",
                                       ![t][cur[t]].of = Con(t)]
      BY <2>2 DEF Receive
    <3>2. ASSUME NEW c,
                 table' = [table EXCEPT ![t][cur[t]].at = "respond", ![t][cur[t]].of = c]
          PROVE  DOMAIN table'[t] = DOMAIN table[t]
      <4>1. t \in DOMAIN table
        BY DEF IInv, TypeOK
      <4> HIDE DEF IInv
      <4>2. QED
        BY <3>2, <4>1
    <3>3. QED
      BY <2>1, <3>1, <3>2
  <2>3. CASE Respond(t)
    BY <2>3 DEF Respond, loop, IInv, TypeOK
  <2>4. CASE SendAll(t)
    BY <2>1, <2>4 DEF SendAll
  <2>5. CASE SendStalls(t)
    BY <2>1, <2>5 DEF SendStalls
  <2>6. CASE UseStale(t) \/ Fail(t)
    BY <2>6 DEF UseStale, Fail
  <2>7. QED
    BY <2>2, <2>3, <2>4, <2>5, <2>6 DEF ClientRoutine
<1>4. CASE pc' = pc /\ DOMAIN table'[t] = DOMAIN table[t]
  BY <1>1, <1>4, LibraryStutters
<1>5. CASE EndRoutine(t)
  <2>1. pc'[t] = "close" /\ DOMAIN table'[t] = DOMAIN table[t] \ {cur[t]}
    BY <1>5 DEF EndRoutine, Goto, Restrict, IInv, TypeOK
  <2>2. QED
    BY <1>1, <1>2, <2>1, LibraryLeaves DEF IInv
<1>6. CASE ~killing[t] /\ \E b : /\ table' = [table EXCEPT ![t][cur[t]] = b]
                                 /\ pc' = [pc EXCEPT ![t] = "close"]
  <2>1. pc'[t] = "close" /\ DOMAIN table'[t] = DOMAIN table[t]
    BY <1>6 DEF IInv, TypeOK
  <2>2. QED
    BY <1>1, <1>2, <1>6, <2>1, LibraryLeaves DEF IInv
<1>7. QED
  BY <1>3, <1>4, <1>5, <1>6

\* A step of one thread is none of the ordinators of the others.
LEMMA OthersStutter ==
  ASSUME IInv, NEW t \in Threads, Manager(t) \/ ClientRoutine(t), NEW u \in Threads \ {t}
  PROVE  LibraryStep(u)
<1>1. CASE \E c \in Clients, fd \in Fds : Accept(t, c, fd)
  <2>1. PICK c \in Clients, fd \in Fds : Accept(t, c, fd)
    BY <1>1
  <2>2. DOMAIN table'[u] = DOMAIN table[u]
    BY <2>1, AcceptEffect DEF Accepted
  <2>3. UNCHANGED <<pc, cur, killing>>
    BY <2>1 DEF Accept, loop
  <2>4. QED
    BY <2>2, <2>3, LibraryStutters
<1>2. CASE ~\E c \in Clients, fd \in Fds : Accept(t, c, fd)
  <2>1. /\ \E place : pc' = pc \/ pc' = [pc EXCEPT ![t] = place]
        /\ \E id : cur' = cur \/ cur' = [cur EXCEPT ![t] = id]
        /\ \E k : killing' = killing \/ killing' = [killing EXCEPT ![t] = k]
        /\ \E row : table' = table \/ table' = [table EXCEPT ![t] = row]
    <3>1. CASE \/ Wake(t) \/ WakeByTimeout(t) \/ LoopEnds(t)
               \/ \E e \in todo[t] : AcceptClients(t, e) \/ DropClient(t, e)
               \/ AcceptWouldBlock(t) \/ AcceptFails(t) \/ CloseClient(t) \/ CloseFd(t)
      BY <3>1 DEF Wake, WakeByTimeout, LoopEnds, AcceptClients, DropClient, AcceptWouldBlock,
                  AcceptFails, CloseClient, CloseFd, DeleteConnection, Goto, loop
    <3>2. CASE \E e \in todo[t] : ServeClient(t, e)
      <4>1. PICK e \in todo[t] : ServeClient(t, e)
        BY <3>2
      <4>2. \E b : table' = [table EXCEPT ![t][e.fd] = b] /\ Goto(t, "serve")
        BY <4>1 DEF ServeClient, ResumeRoutine
      <4>3. QED
        BY <4>1, <4>2 DEF ServeClient, Goto, IInv, TypeOK
    <3>3. CASE ClientRoutine(t)
      <4>1. UNCHANGED <<cur, killing>>
        BY <3>3 DEF ClientRoutine, Receive, Respond, SendAll, SendStalls, UseStale, Fail, loop
      <4>2. pc' = pc \/ pc' = [pc EXCEPT ![t] = "close"]
        BY <3>3 DEF ClientRoutine, Receive, Respond, SendAll, SendStalls, UseStale, Fail,
                    EndRoutine, YieldAt, Goto, loop
      <4>3. \E row : table' = table \/ table' = [table EXCEPT ![t] = row]
        <5>1. CASE EndRoutine(t) \/ \E place : YieldAt(t, place)
          BY <5>1 DEF EndRoutine, YieldAt, IInv, TypeOK
        <5>2. CASE ~(EndRoutine(t) \/ \E place : YieldAt(t, place))
          BY <3>3, <5>2 DEF ClientRoutine, Receive, Respond, SendAll, SendStalls, UseStale,
                            Fail, IInv, TypeOK
        <5>3. QED
          BY <5>1, <5>2
      <4>4. QED
        BY <4>1, <4>2, <4>3
    <3>4. QED
      BY <1>2, <3>1, <3>2, <3>3 DEF Manager
  <2>2. /\ pc'[u] = pc[u] /\ cur'[u] = cur[u] /\ table'[u] = table[u]
        /\ killing'[u] = killing[u]
    BY <2>1 DEF IInv, TypeOK
  <2>3. QED
    BY <2>2, LibraryStutters
<1>3. QED
  BY <1>1, <1>2

\* Every step is one of the life cycle, or none, for each thread.
LEMMA NextFollows ==
  ASSUME IInv, [Next]_vars
  PROVE  \A t \in Threads : LibraryStep(t)
<1>1. CASE Environment \/ UNCHANGED vars
  <2>1. UNCHANGED <<table, pc, cur, killing>>
    BY <1>1 DEF Environment, Connect, SendSegment, Disconnect, Expire, vars, loop
  <2>2. QED
    BY <2>1, LibraryStutters
<1>2. ASSUME NEW t \in Threads, Manager(t) \/ ClientRoutine(t)
      PROVE  \A u \in Threads : LibraryStep(u)
  BY <1>2, ManagerFollows, RoutineFollows, OthersStutter
<1>3. QED
  BY <1>1, <1>2 DEF Next

\* Whatever the clients and the other threads do, each manager resumes and kills
\* from the main stack, only routines that are ready, and no killed routine
\* yields: the assumptions Coroutine makes of its callers hold for the server.
THEOREM ManagersFollowTheLibraryHolds == Spec => ManagersFollowTheLibrary
<1>1. Init => \A t \in Threads : Library(t)!Init
  BY DEF Init, Library!Init, RoutineStatus, Killed
<1>2. IInv /\ [Next]_vars => [\A t \in Threads : [Library(t)!Next]_(Library(t)!vars)]_vars
  BY NextFollows DEF LibraryStep
<1>3. QED
  BY <1>1, <1>2, Invariance, PTL DEF Spec, ManagersFollowTheLibrary

-----------------------------------------------------------------------------
(***************************************************************************)
(* One-shot traffic: requests of one segment, no keep-alive, responses     *)
(* that fit the window of the client, and a descriptor more than           *)
(* connections, for the accept4 that finds the backlog empty.  For it the  *)
(* server of hw-6/HttpFramework works, with any number of threads and      *)
(* clients.                                                                *)
(***************************************************************************)
OneShot ==
  /\ \A c \in Clients : /\ Request[c].segments = 1
                        /\ ~Request[c].keepAlive /\ ~Request[c].slow /\ ~Request[c].aborts
  /\ IsFiniteSet(Clients) /\ Cardinality(Clients) < Cardinality(Fds)

\* What the other ends have sent.
SentInv ==
  \A c \in Clients : sent[c] \in {0, 1} /\ (peer[c] = "fin" => sent[c] = 1)

\* Only the routine that runs has started, and it was started for the
\* connection it serves, to which its reference leads.
ServesInv(t) ==
  /\ \A fd \in DOMAIN table[t] :
       table[t][fd] # NotStarted => pc[t] = "serve" /\ cur[t] = fd
  /\ pc[t] = "serve" =>
       /\ table[t][cur[t]].of = Own(t) /\ Con(t) = Own(t)
       /\ table[t][cur[t]].at \in {"receive", "respond", "send"}

\* A routine that still receives has read nothing, and finds its request unless
\* it is killed; one that answers has read its request.
RequestInv(t) ==
  pc[t] = "serve" =>
    IF table[t][cur[t]].at = "receive"
    THEN /\ got[Con(t)] = 0 /\ replies[Con(t)] = {}
         /\ killing[t] \/ sent[Con(t)] = 1
    ELSE got[Con(t)] = 1

\* An event that is no error and no timeout is a request that has arrived.
ReadyInv(t) ==
  killing[t] \/ \A e \in todo[t] :
    e.fd # Master /\ ~e.err => sent[routines[t][e.fd].con] = 1

ThreadInv(t) == ServesInv(t) /\ RequestInv(t) /\ ReadyInv(t)

OneShotInv ==
  /\ alive /\ SentInv /\ RepliesGoToTheirRequest
  /\ strayed = {} /\ \A c \in cleared : got[c] = 1
  /\ \A t \in Threads : ThreadInv(t)

\* The invariant holds at the start.
LEMMA OneShotInit == Init => OneShotInv
  BY DEF Init, OneShotInv, SentInv, RepliesGoToTheirRequest, ThreadInv, ServesInv,
         RequestInv, ReadyInv

-----------------------------------------------------------------------------
\* accept4 finds a descriptor: every connection has at most one.
LEMMA DescriptorsSuffice ==
  ASSUME OneShot, IInv
  PROVE  FreeFds # {}
<1> SUFFICES ASSUME FreeFds = {} PROVE FALSE
  OBVIOUS
<1> DEFINE f == [fd \in Fds |-> descriptors[fd]]
<1>1. \A fd \in Fds : fd \in DOMAIN descriptors /\ descriptors[fd] \in Clients
  BY DEF FreeFds, IInv, TypeOK
<1>2. f \in [Fds -> Clients]
  BY <1>1
<1>3. /\ IsFiniteSet(Clients) /\ IsFiniteSet(Fds)
      /\ Cardinality(Clients) < Cardinality(Fds)
  BY FdsAssumption DEF OneShot
<1>4. \A fd \in Fds : f[fd] = descriptors[fd]
  OBVIOUS
<1> HIDE DEF f
<1>5. \E x, y \in Fds : x # y /\ f[x] = f[y]
  BY <1>2, <1>3, FS_PigeonHole
<1>6. PICK x, y \in Fds : x # y /\ descriptors[x] = descriptors[y]
  BY <1>4, <1>5
<1>7. QED
  BY <1>1, <1>6 DEF IInv, DescriptorInv

-----------------------------------------------------------------------------
\* What a step leaves of a thread that takes no part in it.
Aside(u) ==
  /\ pc'[u] = pc[u] /\ cur'[u] = cur[u] /\ killing'[u] = killing[u]
  /\ todo'[u] = todo[u] /\ table'[u] = table[u]
  /\ DOMAIN routines'[u] = DOMAIN routines[u]
  /\ \A fd \in DOMAIN routines[u] : routines'[u][fd].con = routines[u][fd].con

\* Such a thread keeps its invariant, if nothing happens to its connection but
\* that more arrives.
LEMMA AsideKept ==
  ASSUME IInv, OneShotInv, NEW u \in Threads, Aside(u),
         \A c \in Clients : sent[c] = 1 => sent'[c] = 1,
         pc[u] = "serve" => got'[Con(u)] = got[Con(u)] /\ replies'[Con(u)] = replies[Con(u)]
  PROVE  ThreadInv(u)'
<1> USE DEF Aside
<1>1. ThreadInv(u)
  BY DEF OneShotInv
<1>2. pc[u] = "serve" => /\ cur[u] \in DOMAIN routines[u]
                         /\ Con(u)' = Con(u) /\ Own(u)' = Own(u) /\ Own(u) \in Clients
  BY DEF IInv, TableInv, Busy, Con, Own, TypeOK, Info
<1>3. ServesInv(u)'
  BY <1>1, <1>2 DEF ThreadInv, ServesInv
<1>4. RequestInv(u)'
  <2>1. SUFFICES ASSUME pc[u] = "serve" PROVE RequestInv(u)'
    BY DEF RequestInv
  <2>2. RequestInv(u) /\ Con(u) \in Clients
    BY <1>1, <1>2, <2>1 DEF ThreadInv, ServesInv
  <2>3. /\ table'[u][cur'[u]].at = table[u][cur[u]].at /\ killing'[u] = killing[u]
        /\ got'[Con(u)'] = got[Con(u)] /\ replies'[Con(u)'] = replies[Con(u)]
        /\ sent[Con(u)] = 1 => sent'[Con(u)'] = 1
    BY <1>2, <2>1, <2>2
  <2>4. QED
    BY <2>1, <2>2, <2>3 DEF RequestInv
<1>5. ReadyInv(u)'
  <2>1. ASSUME NEW e \in todo[u], e.fd # Master
        PROVE  /\ routines'[u][e.fd].con = routines[u][e.fd].con
               /\ routines[u][e.fd].con \in Clients
    BY <2>1 DEF IInv, EventsInv, TypeOK, Info
  <2>2. QED
    BY <1>1, <2>1 DEF ThreadInv, ReadyInv
<1>6. QED
  BY <1>3, <1>4, <1>5 DEF ThreadInv

\* The clients send their request once, and end after it.
LEMMA OneShotEnvironment ==
  ASSUME OneShot, IInv, OneShotInv, Environment
  PROVE  OneShotInv'
<1> USE DEF OneShotInv
<1>1. ASSUME NEW c \in Clients, Connect(c) \/ SendSegment(c) PROVE OneShotInv'
  <2>1. /\ UNCHANGED <<peer, buffers, routines, table, loop, alive>>
        /\ sent' = sent \/ (sent[c] < 1 /\ sent' = [sent EXCEPT ![c] = sent[c] + 1])
    BY <1>1 DEF Connect, SendSegment, OneShot
  <2>2. SentInv' /\ \A k \in Clients : sent[k] = 1 => sent'[k] = 1
    BY <2>1 DEF SentInv, IInv, TypeOK
  <2>3. \A t \in Threads : ThreadInv(t)'
    BY <2>1, <2>2, AsideKept DEF Aside, buffers, loop
  <2>4. QED
    BY <2>1, <2>2, <2>3 DEF RepliesGoToTheirRequest, buffers
<1>2. ASSUME NEW c \in Clients, NEW how \in {"fin", "reset"}, Disconnect(c, how)
      PROVE  OneShotInv'
  <2>1. /\ UNCHANGED <<sent, buffers, routines, table, loop, alive>>
        /\ peer' = [peer EXCEPT ![c] = how]
        /\ how = "fin" => sent[c] = 1
    BY <1>2 DEF Disconnect, OneShot
  <2>2. SentInv'
    BY <2>1 DEF SentInv, IInv, TypeOK
  <2>3. \A t \in Threads : ThreadInv(t)'
    BY <2>1, AsideKept DEF Aside, buffers, loop
  <2>4. QED
    BY <2>1, <2>2, <2>3 DEF RepliesGoToTheirRequest, buffers
<1>3. ASSUME NEW t \in Threads, NEW fd \in Fds, Expire(t, fd) PROVE OneShotInv'
  <2>1. /\ UNCHANGED <<kernel, buffers, table, loop, alive>>
        /\ Expired(t, fd)
    BY <1>3, ExpireEffect DEF Expire, IInv
  <2>2. \A u \in Threads : ThreadInv(u)'
    BY <2>1, AsideKept DEF Aside, Expired, kernel, buffers, loop
  <2>3. QED
    BY <2>1, <2>2 DEF RepliesGoToTheirRequest, SentInv, kernel, buffers
<1>4. QED
  BY <1>1, <1>2, <1>3 DEF Environment

-----------------------------------------------------------------------------
\* The thread that takes the step stays on the main stack: what it holds has
\* not started, and what it was told of has arrived.
LEMMA OneShotManager ==
  ASSUME IInv, OneShotInv, NEW t \in Threads, pc'[t] # "serve",
         \A u \in Threads \ {t} : Aside(u),
         \A fd \in DOMAIN table'[t] : table'[t][fd] = NotStarted,
         ReadyInv(t)', UNCHANGED <<peer, sent, buffers, alive>>
  PROVE  OneShotInv'
<1>1. ThreadInv(t)'
  BY DEF ThreadInv, ServesInv, RequestInv
<1>2. \A u \in Threads \ {t} : ThreadInv(u)'
  BY AsideKept DEF buffers
<1>3. QED
  BY <1>1, <1>2 DEF OneShotInv, SentInv, RepliesGoToTheirRequest, buffers

\* A manager that is not in a routine has none that started.
LEMMA NoneStarted ==
  ASSUME OneShotInv, NEW t \in Threads, pc[t] # "serve", NEW fd \in DOMAIN table[t]
  PROVE  table[t][fd] = NotStarted
  BY DEF OneShotInv, ThreadInv, ServesInv

\* The steps of the event loop that touch no connection; no accept fails.
LEMMA OneShotLoop ==
  ASSUME OneShot, IInv, OneShotInv, NEW t \in Threads,
         \/ Wake(t) \/ WakeByTimeout(t) \/ LoopEnds(t)
         \/ \E e \in todo[t] : AcceptClients(t, e)
         \/ AcceptWouldBlock(t) \/ AcceptFails(t)
  PROVE  OneShotInv'
<1>1. ~AcceptFails(t)
  BY DescriptorsSuffice DEF AcceptFails
<1>2. /\ UNCHANGED <<kernel, buffers, routines, table, cur, alive>>
      /\ pc[t] # "serve" /\ pc'[t] # "serve"
      /\ \A u \in Threads \ {t} : Aside(u)
  BY <1>1 DEF Wake, WakeByTimeout, LoopEnds, AcceptClients, AcceptWouldBlock, At, Goto,
              Aside, loop, IInv, TypeOK
<1>3. ReadyInv(t)'
  <2>1. CASE Wake(t)
    <3>1. \A e \in todo'[t] : e.fd # Master => e \in ClientEvents(t)
      BY <2>1 DEF Wake, IInv, TypeOK
    <3>2. ASSUME NEW e \in ClientEvents(t), ~e.err
          PROVE  sent[routines[t][e.fd].con] = 1
      <4>1. PICK fd \in DOMAIN routines[t] :
              /\ e = [fd |-> fd, err |-> peer[routines[t][fd].con] = "reset"]
              /\ Ready(routines[t][fd])
        BY <3>2 DEF ClientEvents
      <4>2. e.fd = fd /\ peer[routines[t][fd].con] # "reset"
        BY <3>2, <4>1
      <4>3. routines[t][fd].con \in Clients
        BY DEF IInv, TypeOK, Info
      <4>4. got[routines[t][fd].con] = 0 /\ routines[t][fd].current_event = "EPOLLIN"
        BY <2>1 DEF Wake, At, IInv, UntouchedInv, Busy, OneShotInv
      <4>5. QED
        BY <4>1, <4>2, <4>3, <4>4 DEF Ready, OneShotInv, SentInv
    <3>3. QED
      BY <1>2, <3>1, <3>2 DEF ReadyInv, kernel
  <2>2. CASE WakeByTimeout(t)
    BY <2>2 DEF WakeByTimeout, ReadyInv, IInv, TypeOK
  <2>3. CASE ~Wake(t) /\ ~WakeByTimeout(t)
    <3>1. todo'[t] \subseteq todo[t] /\ killing' = killing
      BY <1>1, <2>3 DEF LoopEnds, AcceptClients, AcceptWouldBlock, IInv, TypeOK
    <3>2. QED
      BY <1>2, <3>1 DEF OneShotInv, ThreadInv, ReadyInv, kernel
  <2>4. QED
    BY <2>1, <2>2, <2>3
<1>4. QED
  BY <1>2, <1>3, NoneStarted, OneShotManager DEF kernel

\* A new connection gets a routine that has not started, be it one that an
\* older connection left behind, and no reference leads to it but its own.
LEMMA OneShotAccept ==
  ASSUME IInv, OneShotInv, NEW t \in Threads, NEW c \in Clients, NEW fd \in Fds,
         Accept(t, c, fd)
  PROVE  OneShotInv'
<1>1. Accepted(t, c, fd)
  BY AcceptEffect
<1>2. UNCHANGED <<peer, sent, buffers, loop, alive>> /\ pc[t] = "accept"
  BY DEF Accept, At
<1>3. PICK old \in Clients :
        (old = c \/ link[old] = "closed") /\ CreateRoutine(t, fd, old, c)
  BY DEF Accept
<1>4. \A u \in Threads :
        table'[u] = [i \in DOMAIN table[u] \union (IF u = t THEN {fd} ELSE {}) |->
                       IF i \in DOMAIN table[u] THEN Placed(table[u][i], old, c)
                       ELSE NotStarted]
  BY <1>3 DEF CreateRoutine
<1>5. ASSUME NEW u \in Threads, NEW i \in DOMAIN table[u]
      PROVE  Placed(table[u][i], old, c) = table[u][i]
  <2>1. CASE table[u][i] = NotStarted
    BY <2>1 DEF Placed
  <2>2. CASE table[u][i] # NotStarted
    <3>1. pc[u] = "serve" /\ cur[u] = i /\ Con(u) = Own(u)
      BY <2>2 DEF OneShotInv, ThreadInv, ServesInv
    <3>2. cur[u] \in DOMAIN routines[u]
      BY <3>1 DEF IInv, TableInv, Busy
    <3>3. table[u][i].info = Own(u) /\ link[Own(u)] = "open"
      BY <3>1, <3>2, EntriesAreOpen DEF Con, Own
    <3>4. link[c] = "queued"
      BY <1>1 DEF Accepted
    <3>5. table[u][i].info # old
      BY <1>3, <3>3, <3>4
    <3>6. QED
      BY <3>5 DEF Placed
  <2>3. QED
    BY <2>1, <2>2
<1>6. \A u \in Threads \ {t} : table'[u] = table[u]
  <2>1. ASSUME NEW u \in Threads \ {t} PROVE table'[u] = [i \in DOMAIN table[u] |-> table[u][i]]
    BY <1>4, <1>5
  <2>2. \A u \in Threads : table[u] = [i \in DOMAIN table[u] |-> table[u][i]]
    BY DEF IInv, TypeOK
  <2>3. QED
    BY <2>1, <2>2
<1>7. \A u \in Threads \ {t} : Aside(u)
  BY <1>1, <1>2, <1>6 DEF Accepted, Aside, loop
<1>8. \A i \in DOMAIN table'[t] : table'[t][i] = NotStarted
  <2>1. \A i \in DOMAIN table[t] : table[t][i] = NotStarted
    BY <1>2, NoneStarted
  <2>2. table'[t] = [i \in DOMAIN table[t] \union {fd} |->
                       IF i \in DOMAIN table[t] THEN Placed(table[t][i], old, c)
                       ELSE NotStarted]
    BY <1>4
  <2>3. \A i \in DOMAIN table[t] : Placed(table[t][i], old, c) = NotStarted
    BY <1>5, <2>1
  <2>4. QED
    BY <2>2, <2>3
<1>9. ReadyInv(t)'
  <2>1. \A e \in todo[t] : e.fd # Master => routines'[t][e.fd] = routines[t][e.fd]
    BY <1>1 DEF Accepted, IInv, EventsInv
  <2>2. QED
    BY <1>2, <2>1 DEF OneShotInv, ThreadInv, ReadyInv, loop
<1>10. QED
  BY <1>2, <1>7, <1>8, <1>9, OneShotManager DEF loop

\* Erasing a connection: the routines that have not started stay behind.
LEMMA OneShotDelete ==
  ASSUME IInv, OneShotInv, NEW t \in Threads,
         (\E e \in todo[t] : DropClient(t, e)) \/ CloseClient(t)
  PROVE  OneShotInv'
<1>1. PICK fd \in DOMAIN routines[t] :
        /\ DeleteConnection(t, fd)
        /\ todo'[t] \subseteq todo[t] /\ \A e \in todo'[t] : e.fd # fd
        /\ \A u \in Threads \ {t} : todo'[u] = todo[u]
  <2>1. CASE \E e \in todo[t] : DropClient(t, e)
    <3>1. PICK e \in todo[t] : DropClient(t, e)
      BY <2>1
    <3>2. /\ e.fd \in DOMAIN routines[t] /\ todo'[t] = todo[t] \ {e}
          /\ \A other \in todo[t] : other.fd = e.fd => other = e
          /\ \A u \in Threads \ {t} : todo'[u] = todo[u]
      BY <3>1 DEF DropClient, IInv, EventsInv, TypeOK
    <3>3. QED
      BY <3>1, <3>2 DEF DropClient
  <2>2. CASE CloseClient(t)
    <3>1. pc[t] = "close" /\ cur[t] \in DOMAIN routines[t] /\ todo' = todo
      BY <2>2 DEF CloseClient, At, IInv, TableInv, Busy
    <3>2. cur[t] # Master
      BY <3>1, FdsAssumption DEF IInv, TypeOK
    <3>3. \A e \in todo[t] : e.fd # cur[t]
      BY <3>1, <3>2 DEF IInv, EventsInv, Busy
    <3>4. QED
      BY <2>2, <3>1, <3>3 DEF CloseClient
  <2>3. QED
    BY <2>1, <2>2
<1>2. Unlinked(t, fd)
  BY <1>1, DeleteEffect DEF IInv
<1>3. /\ UNCHANGED <<kernel, buffers, table, killing, alive>>
      /\ pc[t] # "serve"
  BY DEF DropClient, CloseClient, At
<1>4. /\ pc'[t] # "serve"
      /\ \A u \in Threads \ {t} : pc'[u] = pc[u] /\ cur'[u] = cur[u] /\ todo'[u] = todo[u]
  BY <1>1, <1>2 DEF Unlinked, IInv, TypeOK
<1>5. \A u \in Threads \ {t} : Aside(u)
  BY <1>2, <1>3, <1>4 DEF Unlinked, Aside
<1>6. ReadyInv(t)'
  <2>1. \A e \in todo'[t] : e.fd # Master => routines'[t][e.fd] = routines[t][e.fd]
    BY <1>1, <1>2 DEF Unlinked, IInv, EventsInv
  <2>2. QED
    BY <1>1, <1>3, <2>1 DEF OneShotInv, ThreadInv, ReadyInv, kernel
<1>7. QED
  BY <1>3, <1>4, <1>5, <1>6, NoneStarted, OneShotManager DEF kernel

\* Closing the descriptor changes no routine.
LEMMA OneShotClose ==
  ASSUME IInv, OneShotInv, NEW t \in Threads, CloseFd(t)
  PROVE  OneShotInv'
<1>1. /\ UNCHANGED <<peer, sent, buffers, routines, table, todo, killing, alive>>
      /\ pc[t] = "destroy" /\ pc'[t] = "dispatch"
      /\ \A u \in Threads \ {t} : pc'[u] = pc[u] /\ cur'[u] = cur[u]
  BY DEF CloseFd, At, Goto, IInv, TypeOK
<1>2. \A u \in Threads \ {t} : Aside(u)
  BY <1>1 DEF Aside
<1>3. ReadyInv(t)'
  BY <1>1 DEF OneShotInv, ThreadInv, ReadyInv
<1>4. QED
  BY <1>1, <1>2, <1>3, NoneStarted, OneShotManager

\* A resume or a kill finds a routine that has not started, on a connection
\* nothing was read from.
LEMMA OneShotServe ==
  ASSUME IInv, OneShotInv, NEW t \in Threads, NEW e \in todo[t], ServeClient(t, e)
  PROVE  OneShotInv'
<1> DEFINE fd == e.fd
           c == routines[t][fd].con
<1>1. /\ pc[t] = "dispatch" /\ fd # Master /\ ~e.err
      /\ UNCHANGED <<kernel, buffers, routines, killing, alive>>
      /\ todo' = [todo EXCEPT ![t] = todo[t] \ {e}]
      /\ cur' = [cur EXCEPT ![t] = fd]
  BY DEF ServeClient, At
<1>2. /\ fd \in DOMAIN routines[t] /\ fd \in DOMAIN table[t] /\ fd \in Fds
      /\ c \in Clients /\ got[c] = 0 /\ replies[c] = {}
  BY <1>1 DEF IInv, EventsInv, TableInv, UntouchedInv, Busy, TypeOK, Info, OneShotInv
<1>3. table[t][fd] = NotStarted
  BY <1>1, <1>2, NoneStarted
<1>4. /\ table' = [table EXCEPT ![t][fd] = [at |-> "receive", of |-> c, info |-> c]]
      /\ pc' = [pc EXCEPT ![t] = "serve"]
  BY <1>3 DEF ServeClient, ResumeRoutine, Goto
<1>5. /\ pc'[t] = "serve" /\ cur'[t] = fd /\ todo'[t] = todo[t] \ {e}
      /\ DOMAIN table'[t] = DOMAIN table[t]
      /\ table'[t][fd] = [at |-> "receive", of |-> c, info |-> c]
      /\ \A i \in DOMAIN table[t] : i # fd => table'[t][i] = table[t][i]
      /\ \A u \in Threads \ {t} : Aside(u)
  BY <1>1, <1>2, <1>4 DEF Aside, IInv, TypeOK
<1>6. Con(t)' = c /\ Own(t)' = c
  BY <1>1, <1>5 DEF Con, Own
<1>7. killing[t] \/ sent[c] = 1
  BY <1>1 DEF OneShotInv, ThreadInv, ReadyInv
<1> HIDE DEF fd, c
<1>8. ServesInv(t)'
  BY <1>1, <1>5, <1>6, NoneStarted DEF ServesInv
<1>9. RequestInv(t)'
  BY <1>1, <1>2, <1>5, <1>6, <1>7 DEF RequestInv, kernel, buffers
<1>10. ReadyInv(t)'
  BY <1>1, <1>5 DEF OneShotInv, ThreadInv, ReadyInv, kernel
<1>11. \A u \in Threads \ {t} : ThreadInv(u)'
  BY <1>1, <1>5, AsideKept DEF kernel, buffers
<1>12. QED
  BY <1>1, <1>8, <1>9, <1>10, <1>11
     DEF OneShotInv, ThreadInv, SentInv, RepliesGoToTheirRequest, kernel, buffers

-----------------------------------------------------------------------------
\* A step of a routine touches its own connection and its own thread only.
LEMMA RoutineAlone ==
  ASSUME IInv, OneShotInv, NEW t \in Threads, ClientRoutine(t)
  PROVE  /\ pc[t] = "serve" /\ cur[t] \in DOMAIN table[t] /\ Con(t) \in Clients
         /\ Con(t) = Own(t) /\ Own(t)' = Own(t) /\ ~UseStale(t)
         /\ UNCHANGED <<kernel, todo, cur, killing, alive, strayed>>
         /\ \A k \in Clients : k # Con(t) => got'[k] = got[k] /\ replies'[k] = replies[k]
         /\ \A u \in Threads \ {t} : Aside(u) /\ ThreadInv(u)'
         /\ ReadyInv(t)'
<1> DEFINE c == Con(t)
<1>1. /\ pc[t] = "serve"
      /\ UNCHANGED <<kernel, todo, cur, killing>>
  BY DEF ClientRoutine, Receive, Respond, SendAll, SendStalls, UseStale, Fail, Serves, At,
         loop
<1>2. /\ cur[t] \in DOMAIN table[t] /\ cur[t] \in DOMAIN routines[t]
      /\ c = Own(t) /\ c \in Clients
  <2>1. cur[t] \in DOMAIN table[t] /\ cur[t] \in DOMAIN routines[t] /\ c = Own(t)
    BY <1>1 DEF IInv, TableInv, Busy, OneShotInv, ThreadInv, ServesInv
  <2>2. QED
    BY <2>1, EntriesAreOpen DEF Own
<1>3. ~UseStale(t)
  BY <1>2 DEF UseStale, Own
<1>4. alive' = alive /\ strayed' = strayed
  BY <1>2, <1>3
     DEF ClientRoutine, Receive, Respond, SendAll, SendStalls, Fail, Uses, buffers
<1>5. EventChanged(t)
  <2>1. routines' = routines \/ \E new \in {"EPOLLIN", "EPOLLOUT"} : ChangeEvent(t, new)
    BY <1>3 DEF ClientRoutine, Receive, Respond, SendAll, SendStalls, Fail
  <2>2. CASE routines' = routines
    BY <1>2, <2>2 DEF EventChanged, IInv, TypeOK
  <2>3. CASE \E new \in {"EPOLLIN", "EPOLLOUT"} : ChangeEvent(t, new)
    BY <1>2, <2>3, ChangeEventEffect DEF IInv
  <2>4. QED
    BY <2>1, <2>2, <2>3
<1>6. \A i \in DOMAIN routines[t] : routines'[t][i].con = routines[t][i].con
  BY <1>5 DEF EventChanged
<1>7. Own(t)' = Own(t)
  BY <1>1, <1>2, <1>6 DEF Own
<1>8. \A k \in Clients : k # c => got'[k] = got[k] /\ replies'[k] = replies[k]
  <2>1. got' = got \/ got' = [got EXCEPT ![c] = got[c] + 1]
    BY <1>3 DEF ClientRoutine, Receive, Respond, SendAll, SendStalls, Fail, buffers
  <2>2. replies' = replies
        \/ replies' = [replies EXCEPT ![c] = replies[c] \union {table[t][cur[t]].of}]
    BY <1>3 DEF ClientRoutine, Receive, Respond, SendAll, SendStalls, Fail, buffers
  <2> HIDE DEF c
  <2>3. QED
    BY <2>1, <2>2 DEF IInv, TypeOK
<1>9. ASSUME NEW u \in Threads \ {t} PROVE Aside(u) /\ ThreadInv(u)'
  <2>1. /\ pc'[u] = pc[u] /\ table'[u] = table[u]
    BY DEF ClientRoutine, Receive, Respond, SendAll, SendStalls, UseStale, Fail, YieldAt,
           EndRoutine, Goto, loop, IInv, TypeOK
  <2>2. Aside(u)
    BY <1>1, <1>5, <2>1 DEF Aside, EventChanged
  <2>3. pc[u] = "serve" => Con(u) \in Clients /\ Con(u) # c
    <3>1. SUFFICES ASSUME pc[u] = "serve" PROVE Con(u) \in Clients /\ Con(u) # c
      OBVIOUS
    <3>2. cur[u] \in DOMAIN routines[u] /\ Con(u) = Own(u)
      BY <3>1 DEF IInv, TableInv, Busy, OneShotInv, ThreadInv, ServesInv
    <3>3. QED
      BY <1>2, <3>2, EntriesAreOpen, EntriesDiffer DEF Own
  <2>4. QED
    BY <1>1, <1>8, <2>2, <2>3, AsideKept DEF kernel
<1>10. ReadyInv(t)'
  <2>1. \A e \in todo[t] : e.fd # Master => routines'[t][e.fd].con = routines[t][e.fd].con
    BY <1>6 DEF IInv, EventsInv
  <2>2. QED
    BY <1>1, <2>1 DEF OneShotInv, ThreadInv, ReadyInv, kernel
<1>11. QED
  BY <1>1, <1>2, <1>3, <1>4, <1>7, <1>8, <1>9, <1>10

\* A routine that ends leaves none that started.
LEMMA RoutineEnds ==
  ASSUME IInv, OneShotInv, NEW t \in Threads, pc[t] = "serve", cur[t] \in DOMAIN table[t],
         EndRoutine(t)
  PROVE  pc'[t] = "close" /\ \A fd \in DOMAIN table'[t] : table'[t][fd] = NotStarted
<1>1. /\ pc'[t] = "close" /\ DOMAIN table'[t] = DOMAIN table[t] \ {cur[t]}
      /\ \A fd \in DOMAIN table'[t] : table'[t][fd] = table[t][fd]
  BY DEF EndRoutine, Goto, Restrict, IInv, TypeOK
<1>2. QED
  BY <1>1 DEF OneShotInv, ThreadInv, ServesInv

\* A routine that goes on is the one that has started.
LEMMA RoutineGoesOn ==
  ASSUME IInv, OneShotInv, NEW t \in Threads, pc[t] = "serve", cur[t] \in DOMAIN table[t],
         NEW b, table' = [table EXCEPT ![t][cur[t]] = b], pc' = pc, cur' = cur,
         b.of = Own(t)', b.info = Own(t)', b.at \in {"receive", "respond", "send"}
  PROVE  ServesInv(t)' /\ table'[t][cur'[t]] = b
<1>1. table'[t] = [table[t] EXCEPT ![cur[t]] = b]
  BY DEF IInv, TypeOK
<1>2. QED
  BY <1>1 DEF OneShotInv, ThreadInv, ServesInv, Con

\* The change of a coroutine that has read a request.
LEMMA Responding ==
  ASSUME NEW c \in Clients, NEW body \in Started, body.info = c
  PROVE  [body EXCEPT !.at = "respond", !.of = c]
           = [at |-> "respond", of |-> c, info |-> c]
<1> DEFINE read == [body EXCEPT !.at = "respond"]
           new  == [read EXCEPT !.of = c]
<1>1. read \in Started /\ read.info = c /\ read.at = "respond"
  BY DEF Started
<1> HIDE DEF read
<1>2. new \in Started /\ new.at = "respond" /\ new.of = c /\ new.info = c
  BY <1>1 DEF Started
<1> HIDE DEF new
<1>3. new = [at |-> new.at, of |-> new.of, info |-> new.info]
  BY <1>2 DEF Started
<1>4. QED
  BY <1>2, <1>3 DEF new, read

\* A routine reads its whole request at once, answers it, and ends.
LEMMA OneShotRoutine ==
  ASSUME OneShot, IInv, OneShotInv, NEW t \in Threads, ClientRoutine(t)
  PROVE  OneShotInv'
<1> DEFINE c == Con(t)
           body == table[t][cur[t]]
<1>1. /\ pc[t] = "serve" /\ cur[t] \in DOMAIN table[t] /\ c \in Clients
      /\ c = Own(t) /\ Own(t)' = c /\ ~UseStale(t)
      /\ UNCHANGED <<kernel, todo, cur, killing, alive, strayed>>
      /\ \A k \in Clients : k # c => got'[k] = got[k] /\ replies'[k] = replies[k]
      /\ \A u \in Threads \ {t} : ThreadInv(u)'
      /\ ReadyInv(t)'
  BY RoutineAlone
<1>2. /\ body.of = c /\ body.info = c /\ body.at \in {"receive", "respond", "send"}
      /\ body.at = "receive" =>
           got[c] = 0 /\ replies[c] = {} /\ (killing[t] \/ sent[c] = 1)
      /\ body.at # "receive" => got[c] = 1
  BY <1>1 DEF OneShotInv, ThreadInv, ServesInv, RequestInv, Con
<1>3. Request[c].segments = 1 /\ ~Request[c].keepAlive /\ ~Request[c].slow
  BY <1>1 DEF OneShot
<1>4. got[c] \in Nat /\ killing[t] \in BOOLEAN /\ sent[c] \in {0, 1}
  BY <1>1 DEF IInv, TypeOK, OneShotInv, SentInv
<1>5. ASSUME EndRoutine(t) \/ (ServesInv(t)' /\ RequestInv(t)'),
             replies'[c] \subseteq {c}, c \in replies'[c] => got'[c] = 1,
             \A k \in cleared' : got'[k] = 1
      PROVE  OneShotInv'
  <2>1. ServesInv(t)' /\ RequestInv(t)'
    BY <1>1, <1>5, RoutineEnds DEF ServesInv, RequestInv
  <2>2. RepliesGoToTheirRequest'
    <3> HIDE DEF c
    <3>1. QED
      BY <1>1, <1>5, <1>3 DEF OneShotInv, RepliesGoToTheirRequest, OneShot
  <2>3. SentInv' /\ alive' /\ strayed' = {}
    BY <1>1 DEF OneShotInv, SentInv, kernel
  <2>4. QED
    BY <1>1, <1>5, <2>1, <2>2, <2>3 DEF OneShotInv, ThreadInv
<1>6. replies[c] \subseteq {c} /\ (c \in replies[c] => got[c] = 1)
  BY <1>1, <1>3 DEF OneShotInv, RepliesGoToTheirRequest
<1>7. \A k \in cleared : got[k] = 1
  BY DEF OneShotInv
<1>8. CASE Receive(t)
  <2>1. /\ body.at = "receive" /\ replies' = replies
        /\ got' = IF sent[c] > got[c] THEN [got EXCEPT ![c] = got[c] + 1] ELSE got
    BY <1>8 DEF Receive, Serves
  <2>2. got'[c] = sent[c]
    BY <1>1, <1>2, <1>4, <2>1 DEF IInv, TypeOK
  <2>3. c \notin cleared
    BY <1>2, <1>7, <2>1
  <2>4. \A k \in cleared' : got'[k] = 1
    <3>1. cleared' = cleared \/ (cleared' = cleared \union {c} /\ got'[c] = 1)
      BY <1>3, <1>8 DEF Receive
    <3>2. \A k \in cleared : k # c /\ k \in Clients
      BY <2>3 DEF IInv, TypeOK
    <3>3. QED
      BY <1>1, <1>7, <3>1, <3>2
  <2>5. \/ EndRoutine(t)
        \/ got'[c] = 1 /\ pc' = pc
           /\ table' = [table EXCEPT ![t][cur[t]].at = "respond", ![t][cur[t]].of = c]
    BY <1>2, <1>3, <1>4, <1>8, <2>1, <2>2, <2>3 DEF Receive, YieldAt
  <2>6. CASE ~EndRoutine(t)
    <3> DEFINE b == [at |-> "respond", of |-> c, info |-> c]
    <3>1. body \in Started
      BY <1>1, <2>1 DEF IInv, TypeOK, Body, NotStarted, Started
    <3>2. [body EXCEPT !.at = "respond", !.of = c] = b
      BY <1>1, <1>2, <3>1, Responding
    <3>3. table' = [table EXCEPT ![t][cur[t]] = b]
      BY <1>1, <2>5, <2>6, <3>2 DEF IInv, TypeOK
    <3>4. /\ b.of = Own(t)' /\ b.info = Own(t)' /\ b.at = "respond"
          /\ cur' = cur /\ pc' = pc
      BY <1>1, <2>5, <2>6
    <3>5. b.info = c
      OBVIOUS
    <3> HIDE DEF b, body
    <3>6. ServesInv(t)' /\ table'[t][cur'[t]] = b
      BY <1>1, <3>3, <3>4, RoutineGoesOn
    <3>7. Con(t)' = c
      BY <3>5, <3>6 DEF Con
    <3>8. RequestInv(t)'
      BY <2>5, <2>6, <3>4, <3>6, <3>7 DEF RequestInv
    <3>9. QED
      BY <1>5, <1>6, <1>2, <2>1, <2>4, <2>5, <2>6, <3>6, <3>8
  <2>7. QED
    BY <1>2, <1>5, <2>1, <2>4, <2>6
<1>9. CASE Respond(t)
  <2>1. /\ body.at = "respond" /\ UNCHANGED <<got, replies, cleared>> /\ pc' = pc
        /\ table' = [table EXCEPT ![t][cur[t]].at = "send"]
    BY <1>9 DEF Respond, Serves, buffers, loop
  <2> DEFINE b == [at |-> "send", of |-> c, info |-> c]
  <2>2. body \in Started
    BY <1>1, <2>1 DEF IInv, TypeOK, Body, NotStarted, Started
  <2>3. [body EXCEPT !.at = "send"] = b
    BY <1>2, <2>2 DEF Started
  <2>4. table' = [table EXCEPT ![t][cur[t]] = b]
    BY <1>1, <2>1, <2>3 DEF IInv, TypeOK
  <2>5. b.of = Own(t)' /\ b.info = Own(t)' /\ b.info = c /\ b.at = "send" /\ cur' = cur
    BY <1>1
  <2>6. got'[c] = 1
    BY <1>2, <2>1
  <2> HIDE DEF b, body
  <2>7. ServesInv(t)' /\ table'[t][cur'[t]] = b
    BY <1>1, <2>1, <2>4, <2>5, RoutineGoesOn
  <2>8. Con(t)' = c
    BY <2>5, <2>7 DEF Con
  <2>9. RequestInv(t)'
    BY <2>5, <2>6, <2>7, <2>8 DEF RequestInv
  <2>10. QED
    BY <1>5, <1>6, <1>7, <2>1, <2>7, <2>9
<1>10. CASE SendAll(t)
  <2>1. /\ body.at = "send" /\ got' = got /\ cleared' = cleared /\ EndRoutine(t)
        /\ replies' = [replies EXCEPT ![c] = replies[c] \union {c}]
    BY <1>2, <1>3, <1>10 DEF SendAll, Serves
  <2>2. replies'[c] = replies[c] \union {c}
    BY <1>1, <2>1 DEF IInv, TypeOK
  <2>3. QED
    BY <1>2, <1>5, <1>6, <1>7, <2>1, <2>2
<1>11. CASE SendStalls(t) \/ Fail(t)
  <2>1. UNCHANGED <<got, replies, cleared>> /\ EndRoutine(t)
    BY <1>2, <1>3, <1>11 DEF SendStalls, Fail, Serves, buffers
  <2>2. QED
    BY <1>5, <1>6, <1>7, <2>1
<1>12. QED
  BY <1>1, <1>8, <1>9, <1>10, <1>11 DEF ClientRoutine

-----------------------------------------------------------------------------
\* No step breaks the invariant of one-shot traffic.
LEMMA OneShotStep ==
  ASSUME OneShot, IInv, OneShotInv, [Next]_vars
  PROVE  OneShotInv'
<1>1. CASE Environment
  BY <1>1, OneShotEnvironment
<1>2. ASSUME NEW t \in Threads, Manager(t) PROVE OneShotInv'
  <2>1. CASE \E e \in todo[t] : ServeClient(t, e)
    BY <2>1, OneShotServe
  <2>2. CASE \E c \in Clients, fd \in Fds : Accept(t, c, fd)
    BY <2>2, OneShotAccept
  <2>3. CASE (\E e \in todo[t] : DropClient(t, e)) \/ CloseClient(t)
    BY <2>3, OneShotDelete
  <2>4. CASE CloseFd(t)
    BY <2>4, OneShotClose
  <2>5. CASE \/ Wake(t) \/ WakeByTimeout(t) \/ LoopEnds(t)
             \/ \E e \in todo[t] : AcceptClients(t, e)
             \/ AcceptWouldBlock(t) \/ AcceptFails(t)
    BY <2>5, OneShotLoop
  <2>6. QED
    BY <1>2, <2>1, <2>2, <2>3, <2>4, <2>5 DEF Manager
<1>3. ASSUME NEW t \in Threads, ClientRoutine(t) PROVE OneShotInv'
  BY <1>3, OneShotRoutine
<1>4. CASE UNCHANGED vars
  BY <1>4 DEF OneShotInv, SentInv, RepliesGoToTheirRequest, ThreadInv, ServesInv,
              RequestInv, ReadyInv, Con, Own, vars, kernel, buffers, loop
<1>5. QED
  BY <1>1, <1>2, <1>3, <1>4 DEF Next

\* The invariant holds in every state.
THEOREM OneShotInvariance == ASSUME OneShot PROVE Spec => []OneShotInv
<1>1. Init => OneShotInv
  BY OneShotInit
<1>2. IInv /\ OneShotInv /\ [Next]_vars => OneShotInv'
  BY OneShotStep
<1>3. QED
  BY <1>1, <1>2, Invariance, PTL DEF Spec

\* For one-shot traffic no routine outlives its connection but one that never
\* started, and no thread ends: EpollManager.cpp:165 deletes a connection after
\* its first resume, which is then all it needs.
THEOREM NothingStaleHolds == ASSUME OneShot PROVE Spec => []NothingStale
<1>1. OneShotInv => NothingStale
  BY DEF OneShotInv, ThreadInv, ServesInv, NothingStale
<1>2. QED
  BY <1>1, OneShotInvariance, PTL

\* For one-shot traffic a client gets the answer to its own request, read to its
\* end, or none, however often its descriptor number is used again.
THEOREM RepliesGoToTheirRequestHolds ==
  ASSUME OneShot PROVE Spec => []RepliesGoToTheirRequest
<1>1. OneShotInv => RepliesGoToTheirRequest
  BY DEF OneShotInv
<1>2. QED
  BY <1>1, OneShotInvariance, PTL
=============================================================================
