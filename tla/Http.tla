-------------------------------- MODULE Http --------------------------------
(***************************************************************************)
(* A request, an answer and the server of hw-6/HttpFramework: what         *)
(* Receiver takes from a socket, how its text is parsed (HttpParsing), how *)
(* an answer is made and sent (HttpResponse), and the life of the Server   *)
(* (HttpServer).  Every behaviour is one of one part, whose name is in     *)
(* `part': how they follow each other in a coroutine is EpollManager's.    *)
(***************************************************************************)
EXTENDS Integers, Sequences, FiniteSets

CONSTANTS
  Streams, MaxRead, NoNumber,                        (* of Receiver *)
  Lines, Pairs, Fields, MaxItems, After, Queries, HeaderTexts, (* of HttpParsing *)
  Names, Bodies, Hello, Codes, MaxCalls,             (* of HttpResponse *)
  Ports, FdLimit, MaxThreads, Hardware               (* of HttpServer *)

VARIABLES part,
  unsent, socket, fin, buffer, receiving, pos, reads, start, length, was_read, received, stream,
  meant, text, parsing, rest, line, fields, params,
  answering, status, headers, body, calls, msg, sended, got,
  others, sockets, master, fd, port, object, wanted, threads, epolls, thrown, alive

receiver == <<unsent, socket, fin, buffer, receiving, pos, reads, start, length, was_read,
              received, stream>>
parser == <<meant, text, parsing, rest, line, fields, params>>
answer == <<answering, status, headers, body, calls, msg, sended, got>>
server == <<others, sockets, master, fd, port, object, wanted, threads, epolls, thrown, alive>>
all == <<part, receiver, parser, answer, server>>

-----------------------------------------------------------------------------
RC == INSTANCE Receiver WITH pc <- receiving, body <- received
HP == INSTANCE HttpParsing WITH Headers <- HeaderTexts, pc <- parsing, headers <- fields
HR == INSTANCE HttpResponse WITH pc <- answering
HS == INSTANCE HttpServer

ASSUME StreamsAssumption == RC!ReceiverAssumption
ASSUME TextsAssumption == HP!ParserAssumption
ASSUME AnswersAssumption == HR!ResponseAssumption
ASSUME ServersAssumption == HS!HttpServerAssumption

-----------------------------------------------------------------------------
\* A part that is not the one of a behaviour stays where it begins.
Start ==
  /\ part \in {"receiver", "parser", "answer", "server"}
  /\ HR!Init /\ HS!Init
  /\ RC!Init /\ (part # "receiver" => stream = CHOOSE s \in Streams : TRUE)
  /\ HP!Init
  /\ part # "parser" =>
       meant = HP!NoRequest /\ text = HP!TextOf(meant.first, <<>>, HP!Endline, <<>>)

ReceiverStep == part = "receiver" /\ RC!Next /\ UNCHANGED <<part, parser, answer, server>>
ParserStep == part = "parser" /\ HP!Next /\ UNCHANGED <<part, receiver, answer, server>>
AnswerStep == part = "answer" /\ HR!Next /\ UNCHANGED <<part, receiver, parser, server>>
ServerStep == part = "server" /\ HS!Next /\ UNCHANGED <<part, receiver, parser, answer>>

Step == ReceiverStep \/ ParserStep \/ AnswerStep \/ ServerStep

Parts == Start /\ [][Step]_all

-----------------------------------------------------------------------------
\* The types of the four parts: no size is negative and none wraps around.
TypesOK == RC!TypeOK /\ HP!TypeOK /\ HR!TypeOK /\ HS!TypeOK

\* Receiver.cpp, HeadersMap.cpp, FirstLines.cpp and utils.cpp: onRequest gets the
\* request the client wrote, wherever the network cut it, and an exception or a
\* routine that waits for more is for a reason.
RequestsAreUnderstood ==
  /\ RC!BodyIsTheDeclaredPart /\ RC!YieldsForAReason
  /\ HP!ClientIsUnderstood /\ HP!ThrowsForAMissingValue

\* HttpResponse.cpp: a client gets the answer once and in order, and reads its
\* body by the Content-Length the answer has.
AnswersAreReadable == HR!ResponseIsOne /\ HR!ClientReadsTheBody

\* Server.cpp: a call of open that throws leaves a server at its address, run
\* never goes on with fewer managers and leaves no thread behind, and the
\* process listens at the address of its server only.  And no text makes a loop
\* of the parser (utils.cpp, HeadersMap.cpp) go on for ever.
FailuresAndLoopsEnd ==
  [][/\ HS!ListensAtOneAddress'
     /\ HS!FailedOpenChangesNothing
     /\ HS!AllManagersOrNone /\ HS!RunThrowsClean
     /\ [HP!RoundsTakeText]_parser]_all
=============================================================================
