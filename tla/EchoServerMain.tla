--------------------------- MODULE EchoServerMain ---------------------------
(***************************************************************************)
(* hw-4: main of examples/echo_server.cpp with get_port_safety, from its   *)
(* arguments to the event loop, which TcpServer has.  The manager is its   *)
(* epoll descriptor here, and its loop ends with an exception or never.    *)
(* The system gives descriptors and takes them back as others need them.   *)
(***************************************************************************)
EXTENDS Integers, FiniteSets

CONSTANTS
  Ips,       (* addresses a user may type *)
  AnyIp,     (* "0.0.0.0", one of Ips *)
  Numbers,   (* the digits of a port argument, as a number *)
  NoDigits,  (* a port argument that begins with none *)
  Room       (* descriptors the system has at most *)

UInt16Max == 65535
Wide == 2 * (UInt16Max + 1)   \* stands for 2^64, a multiple of 2^16 as well

\* What the constants have to be; the module that instantiates this one asserts it.
EchoServerMainAssumption ==
  /\ AnyIp \in Ips /\ Numbers \subseteq 0 .. Wide - 1
  /\ NoDigits \notin Nat /\ Room \in Nat \ {0}

\* A port argument: blanks, a sign and digits, and maybe something more.
PortText == [digits : Numbers \cup {NoDigits}, minus : BOOLEAN, junk : BOOLEAN]

VARIABLES
  argc, ip, text,  (* argc, argv[1], argv[2] *)
  port,     (* the local `port' of main *)
  pc,       (* where main is *)
  address,  (* where masterSocket_ listens, or NoAddress *)
  epolls,   (* open epoll descriptors *)
  free,     (* descriptors the system has left *)
  code      (* what main returned, or Aborted after std::terminate *)

args == <<argc, ip, text>>
vars == <<args, port, pc, address, epolls, free, code>>

NoAddress == <<>>
Running == -1
Aborted == 134

Init ==
  /\ argc \in 2 .. 4 /\ ip \in Ips /\ text \in PortText
  /\ port = 0 /\ pc = "argc" /\ address = NoAddress /\ epolls = 0
  /\ free \in 0 .. Room /\ code = Running

Goes(place) == pc' = place /\ UNCHANGED code
\* The descriptors of a process go with it.
Ends(n) ==
  pc' = "ended" /\ code' = n /\ address' = NoAddress /\ epolls' = 0

Usage ==
  /\ pc = "argc"
  /\ IF argc # 3 THEN Ends(1) ELSE Goes("port") /\ UNCHANGED <<address, epolls>>
  /\ UNCHANGED <<args, port, free>>

-----------------------------------------------------------------------------
\* get_port_safety

\* std::stoul: a minus negates, and what follows the digits is ignored.
Stoul == IF text.minus /\ text.digits # 0 THEN Wide - text.digits ELSE text.digits

BadPort ==
  /\ pc = "port" /\ text.digits = NoDigits /\ Ends(1)
  /\ UNCHANGED <<args, port, free>>

\* Mutated form: the number is cut to eight bits.
GetPortByte ==
  /\ pc = "port" /\ text.digits # NoDigits
  /\ port' = Stoul % 256 /\ Goes("open")
  /\ UNCHANGED <<args, address, epolls, free>>

\* The test is of `port', which nothing was assigned to and no value of which
\* is above UINT16_MAX, so that it is never true.
GetPort ==
  /\ pc = "port" /\ text.digits # NoDigits
  /\ port' = Stoul % (UInt16Max + 1) /\ Goes("open")
  /\ UNCHANGED <<args, address, epolls, free>>

-----------------------------------------------------------------------------
\* The constructor of the server, with an address that is always good

OpenServer ==
  /\ pc = "open" /\ free > 0 /\ free' = free - 1
  /\ address' = <<AnyIp, port>> /\ Goes("loop")
  /\ UNCHANGED <<args, port, epolls>>

\* No socket, or bind or listen fails: a socket_error that nobody catches.
OpenFails ==
  /\ pc = "open" /\ Ends(Aborted)
  /\ UNCHANGED <<args, port, free>>

-----------------------------------------------------------------------------
\* The loop of main

\* Mutated form: a manager with a second descriptor.
EventLoopTwo ==
  /\ pc = "loop" /\ free > 1 /\ free' = free - 1
  /\ epolls' = epolls + 1 /\ Goes("serving")
  /\ UNCHANGED <<args, port, address>>

\* Server::eventLoop builds a manager.
EventLoop ==
  /\ pc = "loop" /\ free > 0 /\ free' = free - 1
  /\ epolls' = epolls + 1 /\ Goes("serving")
  /\ UNCHANGED <<args, port, address>>

\* epoll_create fails: epoll_error, and the loop tries again at once.
NoEpoll ==
  /\ pc = "loop" /\ free = 0
  /\ UNCHANGED vars

\* Mutated forms: the manager is not destroyed; the server is with it.
EpollErrorLeaks ==
  /\ pc = "serving" /\ Goes("loop")
  /\ UNCHANGED <<args, port, address, epolls, free>>
EpollErrorCloses ==
  /\ pc = "serving" /\ Goes("loop")
  /\ epolls' = 0 /\ free' = free + 1 /\ address' = NoAddress
  /\ UNCHANGED <<args, port>>

\* epoll_wait or epoll_ctl fails: the manager is destroyed, and main goes on.
EpollError ==
  /\ pc = "serving" /\ Goes("loop")
  /\ epolls' = epolls - 1 /\ free' = free + 1
  /\ UNCHANGED <<args, port, address>>

\* Another exception, an accept_error for one.
OtherError ==
  /\ pc = "serving" /\ Ends(1) /\ free' = free + 2
  /\ UNCHANGED <<args, port>>

\* Other processes take a descriptor or give one back.
SystemTakes ==
  /\ free > 0 /\ free' = free - 1
  /\ UNCHANGED <<args, port, pc, address, epolls, code>>
SystemGives ==
  /\ free < Room /\ free' = free + 1
  /\ UNCHANGED <<args, port, pc, address, epolls, code>>

Main ==
  Usage \/ BadPort \/ GetPort \/ OpenServer \/ OpenFails \/ EventLoop \/ NoEpoll
Next ==
  Main \/ EpollError \/ OtherError \/ SystemTakes \/ SystemGives

Spec == Init /\ [][Next]_vars

\* main runs; it gets its descriptor if it asks for it again and again while
\* the system has one again and again.
FairSpec == Spec /\ WF_vars(Main) /\ SF_vars(EventLoop)

-----------------------------------------------------------------------------
\* Types; one manager at a time, and its descriptor is closed when it is gone.
TypeOK ==
  /\ argc \in 2 .. 4 /\ ip \in Ips /\ text \in PortText
  /\ port \in 0 .. UInt16Max /\ code \in {Running, 0, 1, Aborted}
  /\ pc \in {"argc", "port", "open", "loop", "serving", "ended"}
  /\ address = NoAddress \/ address \in Ips \X (0 .. UInt16Max)
  /\ epolls = (IF pc = "serving" THEN 1 ELSE 0)
  /\ free \in Nat

\* In every step: the server listens from its construction to the end of main, at
\* one address; errors of epoll, however many, never lose the connections of the
\* backlog.
ListensThroughErrors ==
  address # NoAddress => address' = address \/ pc' = "ended"

\* A correct argument is taken for the port it names.
GoodPortIsUsed ==
  address # NoAddress /\ ~text.minus /\ text.digits <= UInt16Max =>
    address[2] = text.digits

\* main serves or ends, unless the system has no descriptor for the manager for
\* ever: then it spins.
ServesOrEnds == ([]<>(free > 0)) => []<>(pc \in {"serving", "ended"})

\* "Bad port" (echo_server.cpp:52) for a number that is no port.
BadPortIsRefused == address # NoAddress => Stoul \in 0 .. UInt16Max
=============================================================================
