---------------------------- MODULE HttpResponse ----------------------------
(***************************************************************************)
(* hw-6/HttpFramework: an HttpResponse from its constructor to the last    *)
(* byte of HttpResponse::send, over Connection::write.  A handler of a     *)
(* user makes any calls; the one of example.cpp is an action of its own.   *)
(* A line and a character of the body count as one byte.                   *)
(***************************************************************************)
EXTENDS Integers, Sequences, FiniteSets, Functions

CONSTANTS
  Names,     (* header names *)
  Bodies,    (* what a handler gives to setBody *)
  Hello,     (* the body of example.cpp, one of Bodies *)
  Codes,     (* status codes a handler may use *)
  MaxCalls   (* bound on the calls of a handler; the example makes two *)

ContentLength == "Content-Length"
ContentType == "Content-Type"
StatusInfo == {200, 400, 404, 500, 501}   \* g_status_info

Chars == UNION {{b[i] : i \in DOMAIN b} : b \in Bodies}

\* What the constants have to be; the module that instantiates this one asserts it.
\* The names of calls are no names of headers.
ResponseAssumption ==
  /\ MaxCalls \in Nat /\ MaxCalls >= 2 /\ Codes \subseteq Nat
  /\ Bodies \subseteq Seq(Chars) /\ Hello \in Bodies
  /\ Names \cap {"setStatus", "setBody"} = {}

VARIABLES
  pc,        (* where the coroutine of the request is *)
  status, headers, body,   (* members of the response *)
  calls,     (* the names of the calls the handler has made *)
  msg,       (* `msg' of send *)
  sended,    (* how much of it write has taken *)
  got        (* what the client has received *)

vars == <<pc, status, headers, body, calls, msg, sended, got>>

NoHeaders == [n \in {} |-> 0]

Init ==
  /\ pc = "request" /\ status = 200 /\ headers = NoHeaders /\ body = <<>>
  /\ calls = <<>> /\ msg = <<>> /\ sended = 0 /\ got = <<>>

Called(name) == Len(calls) < MaxCalls /\ calls' = Append(calls, name)

\* emplace: the first value stays, and setHeader returns false.
Emplace(map, n, v) ==
  [m \in DOMAIN map \cup {n} |-> IF m \in DOMAIN map THEN map[m] ELSE v]

-----------------------------------------------------------------------------
\* A handler

Construct ==
  /\ pc = "request" /\ pc' = "handler"
  /\ \E c \in Codes : status' = c
  /\ UNCHANGED <<headers, body, calls, msg, sended, got>>

SetStatus ==
  /\ pc = "handler" /\ Called("setStatus")
  /\ \E c \in Codes : status' = c
  /\ UNCHANGED <<pc, headers, body, msg, sended, got>>

SetHeader ==
  /\ pc = "handler"
  /\ \E n \in Names, v \in {0, 1} :
       Called(n) /\ headers' = Emplace(headers, n, v)
  /\ UNCHANGED <<pc, status, body, msg, sended, got>>

\* Mutated form: the size is that of the argument after its move.
SetBodyMoved ==
  /\ pc = "handler" /\ Called("setBody")
  /\ \E b \in Bodies : body' = b /\ headers' = Emplace(headers, ContentLength, 0)
  /\ UNCHANGED <<pc, status, msg, sended, got>>

\* The length of an earlier body stays.
SetBody ==
  /\ pc = "handler" /\ Called("setBody")
  /\ \E b \in Bodies :
       body' = b /\ headers' = Emplace(headers, ContentLength, Len(b))
  /\ UNCHANGED <<pc, status, msg, sended, got>>

\* MyServer::onRequest of example.cpp, for GET and for another method.
OnRequest ==
  /\ pc = "request" /\ pc' = "return" /\ status' = 200
  /\ \/ /\ headers' = Emplace(Emplace(NoHeaders, ContentType, 0), ContentLength, Len(Hello))
        /\ body' = Hello /\ calls' = <<ContentType, "setBody">>
     \/ UNCHANGED <<headers, body, calls>>
  /\ UNCHANGED <<msg, sended, got>>

Return ==
  /\ pc = "handler" /\ pc' = "return"
  /\ UNCHANGED <<status, headers, body, calls, msg, sended, got>>

-----------------------------------------------------------------------------
\* HttpResponse::send

Line(order, i) == <<order[i], headers[order[i]]>>
Endline == <<"">>

\* The headers come in the order of the hash table, whatever that is.
Compose ==
  /\ pc = "return" /\ status \in StatusInfo /\ pc' = "send"
  /\ \E order \in Bijection(1 .. Cardinality(DOMAIN headers), DOMAIN headers) :
       msg' = <<<<"HTTP", status>>>> \o [i \in DOMAIN order |-> Line(order, i)]
                \o <<Endline>> \o body \o <<Endline, Endline>>
  /\ UNCHANGED <<status, headers, body, calls, sended, got>>

\* g_status_info.at throws out_of_range.
UnknownStatus ==
  /\ pc = "return" /\ status \notin StatusInfo /\ pc' = "thrown"
  /\ UNCHANGED <<status, headers, body, calls, msg, sended, got>>

\* Mutated form: write may take as many bytes as the message has.
WriteTooMuch ==
  /\ pc = "send"
  /\ \E n \in 1 .. Len(msg) :
       /\ got' = got \o SubSeq(msg, 1, n) /\ sended' = sended + n
       /\ pc' = IF sended' < Len(msg) THEN "yield" ELSE "sent"
  /\ UNCHANGED <<status, headers, body, calls, msg>>

\* Mutated form: a second write starts with the first byte again.
WriteAgain ==
  /\ pc = "send"
  /\ \E n \in 1 .. Len(msg) - sended :
       /\ got' = got \o SubSeq(msg, 1, n) /\ sended' = sended + n
       /\ pc' = IF sended' < Len(msg) THEN "yield" ELSE "sent"
  /\ UNCHANGED <<status, headers, body, calls, msg>>

Write ==
  /\ pc = "send"
  /\ \E n \in 1 .. Len(msg) - sended :
       /\ got' = got \o SubSeq(msg, sended + 1, sended + n) /\ sended' = sended + n
       /\ pc' = IF sended' < Len(msg) THEN "yield" ELSE "sent"
  /\ UNCHANGED <<status, headers, body, calls, msg>>

\* Whatever send returns but EINTR, a full socket included: tcp_error.
WriteFails ==
  /\ pc = "send" /\ pc' = "thrown"
  /\ UNCHANGED <<status, headers, body, calls, msg, sended, got>>

Resume ==
  /\ pc = "yield" /\ pc' = "send"
  /\ UNCHANGED <<status, headers, body, calls, msg, sended, got>>

\* The manager kills the routine: what is left of the response is lost.
Kill ==
  /\ pc = "yield" /\ pc' = "thrown"
  /\ UNCHANGED <<status, headers, body, calls, msg, sended, got>>

Handler == Construct \/ SetStatus \/ SetHeader \/ SetBody \/ OnRequest \/ Return
Send == Compose \/ UnknownStatus \/ Write \/ WriteFails \/ Resume \/ Kill

Next == Handler \/ Send

Spec == Init /\ [][Next]_vars

-----------------------------------------------------------------------------
\* Types, and send takes from its message what is there.
TypeOK ==
  /\ pc \in {"request", "handler", "return", "send", "yield", "sent", "thrown"}
  /\ status \in Codes \cup {200} /\ body \in Bodies \cup {<<>>}
  /\ DOMAIN headers \subseteq Names \cup {ContentLength, ContentType}
  /\ \A n \in DOMAIN headers : headers[n] \in Nat
  /\ Len(calls) <= MaxCalls /\ sended \in 0 .. Len(msg)

\* A client that is not cut off gets the whole message once, however write and
\* the yields cut it; one that is cut off has the beginning of it.
ResponseIsOne ==
  /\ got = SubSeq(msg, 1, Len(got))
  /\ pc = "sent" => got = msg

Times(name) == Cardinality({i \in DOMAIN calls : calls[i] = name})

\* What a client reads that trusts the Content-Length of the answer.
HeadersGot == {i \in DOMAIN got : \E n \in DOMAIN headers : got[i] = <<n, headers[n]>>}
LengthRead == LET i == CHOOSE i \in HeadersGot : got[i][1] = ContentLength IN got[i][2]
Blank == CHOOSE i \in DOMAIN got : got[i] = Endline /\ \A j \in 1 .. i - 1 : got[j] # Endline
BodyRead == SubSeq(got, Blank + 1, Blank + LengthRead)

\* A client that reads as many bytes as the answer says has the body, whatever
\* else the handler called - if the body was set once and its length never by hand.
ClientReadsTheBody ==
  pc = "sent" /\ Times("setBody") = 1 /\ Times(ContentLength) = 0 => BodyRead = body
=============================================================================
