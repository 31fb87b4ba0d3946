------------------------------- MODULE MCHttp -------------------------------
(***************************************************************************)
(* The instance of Http for TLC: streams, texts, answers and servers that  *)
(* are small and have what is unusual in them.                             *)
(***************************************************************************)
EXTENDS Http

Text(n, chars) == UNION {[1 .. k -> chars] : k \in 0 .. n}
CRLF == <<13, 10>>

\* Headers with and without a length, with a length that is no number and with
\* a NUL; bodies that are short, long, have a NUL, or are another request.
Bytes ==
  {h \o CRLF \o CRLF \o b :
     h \in {<<65>> \o CRLF \o <<n>> : n \in {66, 50, 90}} \cup {<<65>>, <<0>> \o CRLF \o <<51>>},
     b \in {<<>>, <<120, 121>>, <<120, 0>>, <<51>> \o CRLF \o CRLF}}
  \cup {<<65>> \o CRLF}

\* "gET" and "H/1.0", "PUT" and "H/2", "POS" and "1.1".
FirstLines ==
  {[method |-> "GET", version |-> "V1_0", verb |-> <<103, 69, 84>>,
    protocol |-> <<72, 47, 49, 46, 48>>],
   [method |-> "UNSUPPORTED", version |-> "UNSUPPORTED", verb |-> <<80, 85, 84>>,
    protocol |-> <<72, 47, 50>>],
   [method |-> "POST", version |-> "V1_1", verb |-> <<80, 79, 83, 84>>,
    protocol |-> <<49, 46, 49>>]}

\* Parameters of "a" and "%1", one with a byte that is no ASCII, header lines of "A", "a" and "B-".
FewPairs == [key : {<<97>>, <<37, 49>>}, value : {<<>>, <<38, 195, 61>>}]
FewFields == [name : {<<65>>, <<97>>, <<66, 45>>}, value : {<<120>>, <<121, 32, 58>>, <<>>}]
NextRequests == {<<>>, CRLF, <<71, 32>> \o CRLF \o CRLF}

\* Anything of "a1&=%" for a query string, anything of "A: " for header lines.
AnyQueries == Text(3, {97, 49, 38, 61, 37})
AnyHeaders == Text(2, {65, 58, 32})

Hi == <<<<"h", 1>>, <<"i", 2>>>>
FewBodies == {<<>>, Hi, <<<<"b", 1>>>>}
=============================================================================
