----------------------------- MODULE HttpServer -----------------------------
(***************************************************************************)
(* hw-6/HttpFramework: the life of a Server object of a program that       *)
(* catches what its calls throw: opening, opening again at another         *)
(* address, set_max_connect, close and run with its threads.  A manager    *)
(* (EpollManager has its loop) is one descriptor and ends with an          *)
(* exception or never.  Other processes take and leave ports meanwhile.    *)
(***************************************************************************)
EXTENDS Integers, FiniteSets

CONSTANTS
  Ports,      (* port numbers *)
  FdLimit,    (* descriptors the process may have for its server *)
  MaxThreads, (* g_max_threads *)
  Hardware    (* std::thread::hardware_concurrency() *)

\* What the constants have to be; the module that instantiates this one asserts it.
HttpServerAssumption ==
  0 \notin Ports /\ FdLimit \in Nat /\ MaxThreads \in Nat \ {0} /\ Hardware \in Nat

VARIABLES
  others,    (* ports of other processes *)
  sockets,   (* [descriptor -> its port, or 0, and if it listens] *)
  master,    (* Server::masterSocket_ *)
  fd,        (* the local `fd' of open *)
  port,      (* its argument *)
  object,    (* the Server: none, made, open (being), ready, gone *)
  wanted,    (* number_threads of run, 0 outside of it *)
  threads,   (* managers whose std::thread was started *)
  epolls,    (* managers with an epoll descriptor; the last is main's *)
  thrown,    (* the last call ended with an exception *)
  alive      (* std::terminate was not called *)

vars == <<others, sockets, master, fd, port, object, wanted, threads, epolls, thrown, alive>>
running == <<wanted, threads, epolls>>

NoFd == 0
Closed == [port |-> 0, listens |-> FALSE]
Fds == 1 .. FdLimit
Open == {f \in Fds : sockets[f].port # 0 \/ f \in {fd, master}}
Room == Cardinality(Open) + Cardinality(epolls) < FdLimit

Idle == alive /\ object = "ready" /\ fd = NoFd /\ wanted = 0

Init ==
  /\ others = {} /\ sockets = [f \in Fds |-> Closed]
  /\ master = NoFd /\ fd = NoFd /\ port = 0 /\ object = "none"
  /\ wanted = 0 /\ threads = {} /\ epolls = {}
  /\ thrown = FALSE /\ alive = TRUE

OtherTakes(p) ==
  /\ \A f \in Open : sockets[f].port # p
  /\ others' = others \cup {p}
  /\ UNCHANGED <<sockets, master, fd, port, object, running, thrown, alive>>

OtherLeaves(p) ==
  /\ p \in others /\ others' = others \ {p}
  /\ UNCHANGED <<sockets, master, fd, port, object, running, thrown, alive>>

-----------------------------------------------------------------------------
\* Server::open, from the constructor or on a server that may be open

\* Server::Server: what open throws destroys the members only.
Construct == object \in {"none", "gone"} /\ object' = "made"
Again == Idle /\ UNCHANGED object

Socket(p) ==
  /\ alive /\ fd = NoFd /\ wanted = 0 /\ (Construct \/ Again)
  /\ Room /\ fd' = CHOOSE f \in Fds : f \notin Open
  /\ port' = p /\ thrown' = FALSE
  /\ UNCHANGED <<others, sockets, master, running, alive>>

\* The call throws: `fd' is closed, and a server under construction is none.
Throws == thrown' = TRUE /\ object' = (IF object = "ready" THEN "ready" ELSE "none")

NoSocket ==
  /\ alive /\ fd = NoFd /\ wanted = 0 /\ ~Room
  /\ object \in {"none", "gone", "ready"} /\ Throws
  /\ UNCHANGED <<others, sockets, master, fd, port, running, alive>>

\* Mutated form: the old socket is given up before the new one is bound.
OpenFailsClosed ==
  /\ fd # NoFd /\ sockets[fd].port = 0 /\ Throws
  /\ sockets' = [f \in Fds |-> Closed]
  /\ fd' = NoFd /\ master' = NoFd
  /\ UNCHANGED <<others, port, running, alive>>

\* A bad address, bind or listen: bind fails when the port is taken, by this
\* server too, and for other reasons.
OpenFails ==
  /\ fd # NoFd /\ Throws
  /\ sockets' = [sockets EXCEPT ![fd] = Closed] /\ fd' = NoFd
  /\ UNCHANGED <<others, master, port, running, alive>>

Taken(p) == p \in others \/ \E f \in Open : sockets[f].port = p

Bind ==
  /\ fd # NoFd /\ sockets[fd].port = 0 /\ ~Taken(port)
  /\ sockets' = [sockets EXCEPT ![fd].port = port]
  /\ UNCHANGED <<others, master, fd, port, object, running, thrown, alive>>

\* Mutated form: the moved-from descriptor replaces the old one without a close.
ListenKeeping ==
  /\ fd # NoFd /\ sockets[fd].port # 0
  /\ sockets' = [sockets EXCEPT ![fd].listens = TRUE]
  /\ master' = fd /\ fd' = NoFd /\ object' = "ready"
  /\ UNCHANGED <<others, port, running, thrown, alive>>

\* listen, and the move into masterSocket_, which closes the socket it had.
Listen ==
  /\ fd # NoFd /\ sockets[fd].port # 0
  /\ sockets' = [f \in Fds |-> IF f = fd THEN [port |-> port, listens |-> TRUE]
                               ELSE IF f = master THEN Closed ELSE sockets[f]]
  /\ master' = fd /\ fd' = NoFd /\ object' = "ready"
  /\ UNCHANGED <<others, port, running, thrown, alive>>

\* listen on the socket that listens, or on -1: tcp_error.
SetMaxConnect ==
  /\ Idle /\ thrown' = (master = NoFd)
  /\ UNCHANGED <<others, sockets, master, fd, port, object, running, alive>>

\* Server::close, which the destructor calls too.
CloseMaster ==
  /\ sockets' = [f \in Fds |-> IF f = master THEN Closed ELSE sockets[f]]
  /\ master' = NoFd /\ thrown' = FALSE

Close ==
  /\ Idle /\ CloseMaster
  /\ UNCHANGED <<others, fd, port, object, running, alive>>

Destroy ==
  /\ Idle /\ CloseMaster /\ object' = "gone"
  /\ UNCHANGED <<others, fd, port, running, alive>>

-----------------------------------------------------------------------------
\* Server::run

Managers(n) == IF n \in 1 .. MaxThreads THEN n ELSE IF Hardware = 0 THEN 2 ELSE Hardware

Run(n) ==
  /\ Idle /\ wanted' = Managers(n) /\ thrown' = FALSE
  /\ UNCHANGED <<others, sockets, master, fd, port, object, threads, epolls, alive>>

Next1 == Cardinality(epolls) + 1

\* The constructor of a manager runs in main: epoll_create1 and the master's
\* epoll_ctl, which fails for a server that is closed.
MakeManager ==
  /\ alive /\ wanted > 0 /\ Next1 <= wanted /\ Cardinality(threads) = Next1 - 1
  /\ Room /\ master # NoFd
  /\ epolls' = epolls \cup {Next1}
  /\ UNCHANGED <<others, sockets, master, fd, port, object, wanted, threads, thrown, alive>>

StartThread ==
  /\ alive /\ wanted > 0 /\ Next1 - 1 < wanted /\ Next1 - 1 \in epolls \ threads
  /\ threads' = threads \cup {Next1 - 1}
  /\ UNCHANGED <<others, sockets, master, fd, port, object, wanted, epolls, thrown, alive>>

Terminate ==
  /\ alive' = FALSE /\ sockets' = [f \in Fds |-> Closed]
  /\ master' = NoFd /\ epolls' = {} /\ threads' = {}
  /\ UNCHANGED <<others, fd, port, object, wanted, thrown>>

\* Mutated form: the threads are left to themselves.
LeaveThreads ==
  /\ thrown' = TRUE /\ wanted' = 0
  /\ epolls' = epolls \cap threads
  /\ UNCHANGED <<others, sockets, master, fd, port, object, threads, alive>>

\* The exception leaves run: a thread that was started is destroyed joinable.
RunFails ==
  IF threads # {} THEN Terminate
  ELSE /\ thrown' = TRUE /\ wanted' = 0 /\ epolls' = {}
       /\ UNCHANGED <<others, sockets, master, fd, port, object, threads, alive>>

NoManager ==
  /\ alive /\ wanted > 0 /\ Next1 <= wanted /\ Cardinality(threads) = Next1 - 1
  /\ ~Room \/ master = NoFd
  /\ RunFails

\* std::thread throws system_error; the manager it would have run is destroyed.
NoThread ==
  /\ alive /\ wanted > 0 /\ Next1 - 1 < wanted /\ Next1 - 1 \in epolls \ threads
  /\ RunFails

\* Mutated form: the exception ends its thread only.
ThreadEnds(m) ==
  /\ alive /\ m \in threads
  /\ epolls' = epolls \ {m} /\ threads' = threads \ {m}
  /\ UNCHANGED <<others, sockets, master, fd, port, object, wanted, thrown, alive>>

\* accept_error or epoll_error in the loop of a thread.
ThreadThrows(m) == alive /\ m \in threads /\ Terminate

Served == alive /\ wanted > 0 /\ Cardinality(epolls) = wanted /\ Cardinality(threads) = wanted - 1

\* The same in the loop of the manager that main runs.
MainThrows == Served /\ RunFails

-----------------------------------------------------------------------------
Opening == NoSocket \/ OpenFails \/ Bind \/ Listen \/ \E p \in Ports : Socket(p)
Running ==
  \/ \E n \in 0 .. MaxThreads + 1 : Run(n)
  \/ MakeManager \/ StartThread \/ NoManager \/ NoThread \/ MainThrows
  \/ \E m \in threads : ThreadThrows(m)
Next ==
  \/ \E p \in Ports : OtherTakes(p) \/ OtherLeaves(p)
  \/ Opening \/ SetMaxConnect \/ Close \/ Destroy \/ Running

Spec == Init /\ [][Next]_vars

-----------------------------------------------------------------------------
\* Types, and the descriptors of the server and its managers are as many as the
\* process may have.
TypeOK ==
  /\ others \subseteq Ports /\ master \in Fds \cup {NoFd} /\ fd \in Fds \cup {NoFd}
  /\ sockets \in [Fds -> [port : Ports \cup {0}, listens : BOOLEAN]]
  /\ port \in Ports \cup {0} /\ object \in {"none", "made", "ready", "gone"}
  /\ wanted \in Nat /\ threads \subseteq epolls /\ epolls \subseteq 1 .. wanted
  /\ Cardinality(Open) + Cardinality(epolls) <= FdLimit
  /\ thrown \in BOOLEAN /\ alive \in BOOLEAN

\* Between calls the process listens at one address at most, that of the server,
\* whichever calls of open threw and wherever they did.
ListensAtOneAddress ==
  fd = NoFd /\ alive =>
    {f \in Fds : sockets[f] # Closed} = {master} \ {NoFd}

\* In every step: a call of open that throws leaves a server where it was, at
\* the address it had, with its backlog.
FailedOpenChangesNothing ==
  fd # NoFd /\ fd' = NoFd /\ thrown' /\ object = "ready" =>
    master' = master /\ (master # NoFd => sockets'[master] = sockets[master])

\* In every step: a server never goes on with fewer managers than it started;
\* all of them work, or the process ends.
AllManagersOrNone ==
  Served => Served' \/ ~alive' \/ (wanted' = 0 /\ epolls' = {})

\* In every step: when run throws, no thread is left behind that uses the server;
\* it is as open as before, and its epoll descriptors are closed.
RunThrowsClean ==
  wanted > 0 /\ wanted' = 0 =>
    threads' = {} /\ epolls' = {} /\ master' = master /\ sockets' = sockets
=============================================================================
