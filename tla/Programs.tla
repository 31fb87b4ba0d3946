------------------------------ MODULE Programs ------------------------------
(***************************************************************************)
(* Small programs and libraries: the loggers of hw-2 and hw-6              *)
(* (VectorExample, Logger), the blocking TCP library of hw-3               *)
(* (BlockingTcp), the client of hw-4 and the main of its server            *)
(* (EchoClient, EchoServerMain) and the key-value files of hw-7 (KvIndex). *)
(* They share no state: every behaviour is one of one part, whose name is  *)
(* in `part'.                                                              *)
(***************************************************************************)
EXTENDS Integers, Sequences, FiniteSets

CONSTANTS
  MaxOptions, Numbers, MaxSize,                          (* of VectorExample *)
  Threads, Loggers, Streams, Own, StreamOf, FirstGlobal, (* of Logger *)
  UsedLevels, End, MaxMessages,
  Calls,      (* the numbers of messages that the threads may log together *)
  Clients, Backlog, Buffer, MaxConnects, MaxBytes,       (* of BlockingTcp *)
  Connects,   (* the numbers of connections that the clients may make together *)
  Room, Packet, MaxLine, MaxLines,                       (* of EchoClient *)
  Ips, AnyIp, PortNumbers, NoDigits, MaxFree,            (* of EchoServerMain *)
  MaxGigabytes, PerGigabyte, MaxElements                 (* of KvIndex *)

VARIABLES part,
  argv, optind, logger, vec, good, cmd, index, vector_pc, logged,
  level, mutex, global, out, log_pc, note, errors,
  server_pc, queue, cur, peer, sent, got, shown, conns, left,
  client_pc, eof, lines, line, up, down, taken, printed, server, buffer, cut,
  argc, ip, text, port, main_pc, address, epolls, free, code,
  file_pc, gigabytes, vector, start, written, file, broken, path, fds

vectors == <<argv, optind, logger, vec, good, cmd, index, vector_pc, logged>>
logs == <<level, mutex, global, out, log_pc, note, errors>>
tcp == <<server_pc, queue, cur, peer, sent, got, shown, conns, left>>
echo == <<client_pc, eof, lines, line, up, down, taken, printed, server, buffer, cut>>
main == <<argc, ip, text, port, main_pc, address, epolls, free, code>>
files == <<file_pc, gigabytes, vector, start, written, file, broken, path, fds>>
all == <<part, vectors, logs, tcp, echo, main, files>>

-----------------------------------------------------------------------------
VE == INSTANCE VectorExample WITH pc <- vector_pc, line <- logged
LG == INSTANCE Logger WITH pc <- log_pc
BT == INSTANCE BlockingTcp WITH pc <- server_pc, out <- shown
EC == INSTANCE EchoClient WITH pc <- client_pc
EM == INSTANCE EchoServerMain WITH Numbers <- PortNumbers, Room <- MaxFree, pc <- main_pc
KI == INSTANCE KvIndex WITH pc <- file_pc

ASSUME VectorsAssumption == VE!VectorAssumption
ASSUME LogsAssumption ==
  LG!LoggerAssumption /\ IsFiniteSet(Loggers) /\ End \notin LG!Note
ASSUME TcpAssumption == BT!BlockingTcpAssumption
ASSUME EchoAssumption == EC!EchoClientAssumption
ASSUME MainAssumption == EM!EchoServerMainAssumption
ASSUME FilesAssumption == KI!KvIndexAssumption

-----------------------------------------------------------------------------
\* A part that is not the one of a behaviour stays at one of its beginnings.
Start ==
  /\ part \in {"vectors", "logs", "tcp", "echo", "main", "files"}
  /\ VE!Init /\ (part # "vectors" => argv = <<>>)
  /\ LG!Init
  /\ BT!Init /\ (part # "tcp" => server_pc = "accept")
  /\ EC!Init /\ (part # "echo" => client_pc = "getline")
  /\ EM!Init
  /\ part # "main" =>
       /\ argc = 2 /\ ip = AnyIp /\ free = 0
       /\ text = [digits |-> NoDigits, minus |-> FALSE, junk |-> FALSE]
  /\ KI!Init /\ (part # "files" => gigabytes = 0)

FewCalls == [t \in Threads |-> note'[t].nr] \in Calls
FewConnects == conns' \in Connects

VectorStep(action) ==
  part = "vectors" /\ action /\ UNCHANGED <<part, logs, tcp, echo, main, files>>
LogStep(action) ==
  part = "logs" /\ action /\ UNCHANGED <<part, vectors, tcp, echo, main, files>>
TcpStep(action) ==
  part = "tcp" /\ action /\ UNCHANGED <<part, vectors, logs, echo, main, files>>
EchoStep(action) ==
  part = "echo" /\ action /\ UNCHANGED <<part, vectors, logs, tcp, main, files>>
MainStep(action) ==
  part = "main" /\ action /\ UNCHANGED <<part, vectors, logs, tcp, echo, files>>
FileStep(action) ==
  part = "files" /\ action /\ UNCHANGED <<part, vectors, logs, tcp, echo, main>>

Step ==
  \/ VectorStep(VE!Next)
  \/ LogStep(LG!Next) /\ FewCalls
  \/ TcpStep(BT!Next) /\ FewConnects
  \/ EchoStep(EC!Next)
  \/ MainStep(EM!Next)
  \/ FileStep(KI!Next)

Parts ==
  /\ Start /\ [][Step]_all
  /\ \A t \in Threads : WF_all(LogStep(LG!Log(t)))
  /\ WF_all(TcpStep(BT!Server))
  /\ \A c \in Clients : WF_all(TcpStep(BT!Client(c)))
  /\ WF_all(EchoStep(EC!Main)) /\ WF_all(EchoStep(EC!Server))
  /\ WF_all(MainStep(EM!Main)) /\ SF_all(MainStep(EM!EventLoop))

-----------------------------------------------------------------------------
\* The types of the parts; no buffer holds more than it has room for, and no
\* mutex has two owners.
TypesOK ==
  /\ VE!TypeOK /\ LG!TypeOK /\ BT!TypeOK
  /\ EC!TypeOK /\ EM!TypeOK /\ KI!TypeOK

\* hw-3, client.cpp and hw-7: what is received, printed or written is what was
\* sent, echoed or generated, in its order and nothing twice, however it was cut on
\* the way; to its end where nobody dropped a part.
StreamsAreInOrder ==
  /\ BT!NotMixed /\ BT!ClosedIsComplete
  /\ EC!EchoesInOrder /\ EC!AllIsPrinted
  /\ KI!EachKeyOnce

\* BaseLogger.cpp and Logger.cpp: lines are whole, errors are logged at every
\* level, and options take effect one after the other.
LogIsComplete ==
  [][/\ LG!LinesAreWhole' /\ LG!ErrorsAreNeverLost'
     /\ VE!OptionsTakeEffect' /\ [VE!IndexErrorsAreLogged]_vectors]_all

\* What fails changes no more than what it says: no file stays open behind a
\* constructor that throws, input that fails stores one 0, no address is lost with
\* a manager, and a port that an argument names is not replaced by another.
FailuresLeaveNothing ==
  [][/\ KI!NothingStaysOpen
     /\ VE!FailedInputStoresZero
     /\ EM!ListensThroughErrors /\ EM!GoodPortIsUsed']_all

\* Nobody waits for ever: connections are served in turn, writeExact, the client
\* and the loggers' calls end, and main serves or ends.
NobodyWaitsForEver ==
  /\ BT!ServedInTurn /\ BT!WritesEnd
  /\ EC!StopEnds /\ LG!CallsReturn
  /\ EM!ServesOrEnds

\* "Bad port" (echo_server.cpp:52) is for a number that is no port.
BadPortIsRefused == EM!BadPortIsRefused
=============================================================================
