---------------------------- MODULE HttpParsing ----------------------------
(***************************************************************************)
(* hw-6/HttpFramework: how the text of a request becomes an HttpRequest:   *)
(* Receiver::split_until_body, QueryLine, HeadersMap, make_params, with    *)
(* parse_query_string and decode_url.  A step is one round of a loop.      *)
(* The texts are those a client writes for a request it means, and those   *)
(* that have anything for a query string and for header lines.             *)
(***************************************************************************)
EXTENDS StringView, SequencesExt, FiniteSets

CONSTANTS
  Lines,     (* first lines: [method, version, verb, protocol] *)
  Pairs,     (* [key, value] of a query string, before their encoding *)
  Fields,    (* [name, value] of a header line *)
  MaxItems,  (* parameters, or header lines, of a request *)
  After,     (* what follows the request in the buffer *)
  Queries,   (* texts after the `?' *)
  Headers    (* texts between the first line and the empty one *)

Text == Seq(0 .. 255)

VARIABLES
  meant,   (* the request the client meant, or NoRequest *)
  text,    (* what Receiver::receive found in the buffer *)
  pc,      (* which loop runs *)
  rest,    (* headers_view, or query_string *)
  line,    (* the members of the QueryLine *)
  headers, (* HeadersMap::data_ *)
  params   (* HttpRequest::params_ *)

vars == <<meant, text, pc, rest, line, headers, params>>

-----------------------------------------------------------------------------
\* utils.cpp

Hex(c) == CASE c \in 48 .. 57 -> c - 48
            [] c \in 65 .. 70 -> c - 55
            [] c \in 97 .. 102 -> c - 87
            [] OTHER -> Npos
IsHex(c) == Hex(c) # Npos

\* Mutated form: a char that is a signed number.
StrtoulSigned(a, b) ==
  LET n == IF IsHex(a) /\ IsHex(b) THEN 16 * Hex(a) + Hex(b) ELSE 0
  IN IF n > 127 THEN n - 256 ELSE n

\* strtoul of two characters to the base 16, cut to a char.  Blanks and a sign
\* may come first, and what follows the digits is ignored.
Strtoul(a, b) ==
  CASE IsHex(a) /\ IsHex(b) -> 16 * Hex(a) + Hex(b)
    [] IsHex(a) /\ ~IsHex(b) -> Hex(a)
    [] a \in TAB .. CR \cup {Space, 43} /\ IsHex(b) -> Hex(b)
    [] a = 45 /\ IsHex(b) -> (256 - Hex(b)) % 256
    [] OTHER -> 0

Bad == <<Npos>>   \* not a text
Put(c, tail) == IF tail = Bad THEN Bad ELSE <<c>> \o tail
OrEmpty(t) == IF t = Bad THEN <<>> ELSE t

\* A `%' without two more characters makes the whole result empty.
decode_url(s) ==
  LET from[i \in 1 .. Len(s) + 1] ==
        IF i > Len(s) THEN <<>>
        ELSE IF s[i] # Percent THEN Put(s[i], from[i + 1])
        ELSE IF i > Len(s) - 2 THEN Bad
        ELSE Put(Strtoul(s[i + 1], s[i + 2]), from[i + 3])
  IN OrEmpty(from[1])

Whitespaces == {Space, TAB}

\* The first character stays, whatever it is.
rtrim(s) ==
  LET last == CHOOSE i \in DOMAIN s :
                /\ i = 1 \/ s[i] \notin Whitespaces
                /\ \A j \in i + 1 .. Len(s) : s[j] \in Whitespaces
  IN IF s = <<>> THEN s ELSE SubSeq(s, 1, last)

\* The k-th word that operator>> reads.
Word(s, k) ==
  LET blank(i) == s[i] \in TAB .. CR \cup {Space}
      starts == {i \in DOMAIN s : ~blank(i) /\ (i = 1 \/ blank(i - 1))}
      word(i) == SubSeq(s, i, CHOOSE j \in i .. Len(s) :
                   /\ \A n \in i .. j : ~blank(n)
                   /\ j = Len(s) \/ blank(j + 1))
  IN IF \E i \in starts : Cardinality({j \in starts : j <= i}) = k
     THEN word(CHOOSE i \in starts : Cardinality({j \in starts : j <= i}) = k)
     ELSE <<>>

\* Mutated form: operator[], where the last value stays.
Assign(map, key, value) ==
  [k \in DOMAIN map \cup {key} |-> IF k = key THEN value ELSE map[k]]

\* unordered_map::emplace: the key that is there stays as it is.
Emplace(map, key, value) ==
  IF key \in DOMAIN map THEN map
  ELSE [k \in DOMAIN map \cup {key} |-> IF k = key THEN value ELSE map[k]]

Empty == [k \in {} |-> <<>>]

-----------------------------------------------------------------------------
\* FirstLines.cpp

MethodOf(word) ==
  CASE LowerCase(word) = <<103, 101, 116>> -> "GET"
    [] LowerCase(word) = <<112, 111, 115, 116>> -> "POST"
    [] OTHER -> "UNSUPPORTED"
VersionOf(word) ==
  LET number == RemovePrefix(word, Find(word, <<Slash>>, 0) + 1)
  IN CASE number = <<49, 46, 48>> -> "V1_0"
       [] number = <<49, 46, 49>> -> "V1_1"
       [] OTHER -> "UNSUPPORTED"

-----------------------------------------------------------------------------
\* How a client writes a request

Digit(n) == IF n < 10 THEN 48 + n ELSE 55 + n
Blanks == TAB .. CR \cup {Space}
Reserved == {Percent, Amp, Equals, Question} \cup Blanks \cup 128 .. 255
Encode(s) ==
  FlattenSeq([i \in DOMAIN s |->
    IF s[i] \in Reserved THEN <<Percent, Digit(s[i] \div 16), Digit(s[i] % 16)>>
    ELSE <<s[i]>>])

QueryOf(ps) ==
  FlattenSeq([i \in DOMAIN ps |->
    (IF i > 1 THEN <<Amp>> ELSE <<>>) \o Encode(ps[i].key) \o <<Equals>> \o Encode(ps[i].value)])
HeadersOf(fs) ==
  FlattenSeq([i \in DOMAIN fs |-> fs[i].name \o <<Colon, Space>> \o fs[i].value \o Endline])
TextOf(first, query, lines, after) ==
  first.verb \o <<Space, Slash, Question>> \o query \o <<Space>> \o first.protocol
    \o Endline \o lines \o Endline \o after

Requests ==
  [first : Lines, pairs : SeqOf(Pairs, MaxItems), fields : SeqOf(Fields, MaxItems),
   after : After]
NoRequest == [first |-> CHOOSE f \in Lines : TRUE]

Without(s, chars) == \A i \in DOMAIN s : s[i] \notin chars
Blank(s) == \A i \in DOMAIN s : s[i] \in Whitespaces

\* What the constants have to be; the module that instantiates this one asserts it.
\* A client keeps to the grammar of HTTP: a word has no blank, a name no colon, a line
\* no end of a line, a value no blank before it; a line means what its words say.
ParserAssumption ==
  /\ Lines # {} /\ \A f \in Lines : f.verb \in Text /\ f.protocol \in Text
  /\ \A p \in Pairs : p.key \in Text /\ p.value \in Text
  /\ \A f \in Fields : f.name \in Text /\ f.value \in Text
  /\ MaxItems \in Nat
  /\ After \subseteq Text /\ Queries \subseteq Text /\ Headers \subseteq Text
  /\ \A f \in Lines :
       /\ f.verb # <<>> /\ Without(f.verb, Blanks) /\ f.method = MethodOf(f.verb)
       /\ f.protocol # <<>> /\ Without(f.protocol, Blanks) /\ f.version = VersionOf(f.protocol)
  /\ \A f \in Fields :
       /\ Without(f.name, Whitespaces \cup {Colon, CR}) /\ Without(f.value, {CR})
       /\ Blank(f.value) \/ f.value[1] \notin Whitespaces

-----------------------------------------------------------------------------
Init ==
  /\ \/ /\ meant \in Requests
        /\ text = TextOf(meant.first, QueryOf(meant.pairs), HeadersOf(meant.fields), meant.after)
     \/ /\ meant = NoRequest
        /\ \E q \in Queries, h \in Headers :
             text = TextOf(meant.first, q, h \o Endline, <<>>)
  /\ pc = "split" /\ rest = <<>>
  /\ line = [method |-> "UNSUPPORTED", version |-> "UNSUPPORTED", path |-> <<>>]
  /\ headers = Empty /\ params = Empty

\* Mutated form: the end of the line is left to the headers.
SplitBefore ==
  /\ pc = "split" /\ pc' = "line"
  /\ LET size == Find(text, Endline, 0)
         view == RemovePrefix(text, size)
     IN /\ line' = [line EXCEPT !.path = Substr(text, 0, size)]
        /\ rest' = Substr(view, 0, Find(view, HeadersEnd, 0) + Len(Endline))
  /\ UNCHANGED <<meant, text, headers, params>>

\* Receiver::split_until_body; the first line waits in `line.path'.
Split ==
  /\ pc = "split" /\ pc' = "line"
  /\ LET size == Find(text, Endline, 0)
         view == RemovePrefix(text, size + Len(Endline))
     IN /\ line' = [line EXCEPT !.path = Substr(text, 0, size)]
        /\ rest' = Substr(view, 0, Find(view, HeadersEnd, 0) + Len(Endline))
  /\ UNCHANGED <<meant, text, headers, params>>

QueryLine ==
  /\ pc = "line" /\ pc' = "headers"
  /\ line' = [method |-> MethodOf(Word(line.path, 1)), path |-> Word(line.path, 2),
              version |-> VersionOf(Word(line.path, 3))]
  /\ UNCHANGED <<meant, text, rest, headers, params>>

\* One line of HeadersMap::HeadersMap.
LineOf(view) == Substr(view, 0, Find(view, Endline, 0))
\* A line without a colon is a header whose value is the line.
NameOf(l) == LowerCase(rtrim(Substr(l, 0, Find(l, <<Colon>>, 0))))
ValuePos(l) ==
  FirstOf({i \in Find(l, <<Colon>>, 0) + 1 .. Len(l) - 1 : l[i + 1] \notin Whitespaces})

HeaderLine ==
  /\ pc = "headers" /\ rest # <<>> /\ ValuePos(LineOf(rest)) # Npos
  /\ LET l == LineOf(rest)
     IN headers' = Emplace(headers, NameOf(l), Substr(l, ValuePos(l), Npos))
  /\ rest' = RemovePrefix(rest, Find(rest, Endline, 0) + Len(Endline))
  /\ UNCHANGED <<meant, text, pc, line, params>>

\* substr(npos) throws out_of_range, which leaves Receiver::receive.
NoValue ==
  /\ pc = "headers" /\ rest # <<>> /\ ValuePos(LineOf(rest)) = Npos
  /\ pc' = "thrown"
  /\ UNCHANGED <<meant, text, rest, line, headers, params>>

\* HttpRequest::make_params; without a `?' there is no query string.
MakeParams ==
  /\ pc = "headers" /\ rest = <<>>
  /\ LET pos == Find(line.path, <<Question>>, 0)
     IN rest' = IF pos = Npos THEN <<>> ELSE RemovePrefix(line.path, pos + 1)
  /\ pc' = "params"
  /\ UNCHANGED <<meant, text, line, headers, params>>

\* Mutated form: the `&' between two pairs is not removed.
Untrimmed == rest

\* One round of parse_query_string.
Trimmed == IF rest[1] = Amp THEN RemovePrefix(rest, 1) ELSE rest
Pair == Substr(Trimmed, 0, Find(Trimmed, <<Amp>>, 0))

\* Without a `=' the key and the value are the whole pair.
QueryParam ==
  /\ pc = "params" /\ rest # <<>>
  /\ LET size == Find(Pair, <<Equals>>, 0)
     IN params' = Emplace(params, decode_url(Substr(Pair, 0, size)),
                                  decode_url(Substr(Pair, size + 1, Npos)))
  /\ rest' = RemovePrefix(Trimmed, Len(Pair))
  /\ UNCHANGED <<meant, text, pc, line, headers>>

Parsed ==
  /\ pc = "params" /\ rest = <<>> /\ pc' = "done"
  /\ UNCHANGED <<meant, text, rest, line, headers, params>>

Stop == pc \in {"done", "thrown"} /\ UNCHANGED vars

Next ==
  Split \/ QueryLine \/ HeaderLine \/ NoValue \/ MakeParams \/ QueryParam \/ Parsed \/ Stop

Spec == Init /\ [][Next]_vars

-----------------------------------------------------------------------------
IsMap(map) == DOMAIN map \subseteq Text /\ \A k \in DOMAIN map : map[k] \in Text

\* Types; and no size_t wraps around: what is left is an end of the text.
TypeOK ==
  /\ text \in Text /\ rest \in Text
  /\ pc \in {"split", "line", "headers", "params", "done", "thrown"}
  /\ line.method \in {"GET", "POST", "UNSUPPORTED"}
  /\ line.version \in {"V1_0", "V1_1", "UNSUPPORTED"} /\ line.path \in Text
  /\ IsMap(headers) /\ IsMap(params)

Values(items, key(_), value(_)) ==
  [k \in {key(items[i]) : i \in DOMAIN items} |->
     value(items[CHOOSE i \in DOMAIN items :
                   key(items[i]) = k /\ \A j \in 1 .. i - 1 : key(items[j]) # k])]

HeaderName(f) == LowerCase(f.name)
HeaderValue(f) == f.value
Key(p) == p.key
Value(p) == p.value

\* What a client writes is what onRequest gets: each parameter, encoded and
\* decoded, and each header under its name in lower case, with the first of the
\* values when a name occurs twice.
ClientIsUnderstood ==
  pc = "done" /\ meant # NoRequest /\ meant.fields # <<>> =>
    /\ line.method = meant.first.method /\ line.version = meant.first.version
    /\ params = Values(meant.pairs, Key, Value)
    /\ headers = Values(meant.fields, HeaderName, HeaderValue)

\* The parser throws for a header without a value, which HTTP allows, and for a
\* request without headers whose successor is in the buffer, and for no other.
ThrowsForAMissingValue ==
  meant # NoRequest /\ pc \in {"done", "thrown"} =>
    (pc = "thrown" <=> \/ \E i \in DOMAIN meant.fields : Blank(meant.fields[i].value)
                       \/ meant.fields = <<>> /\ Find(Endline \o meant.after, HeadersEnd, 0) # Npos)

\* In every step of the parser: no text makes a loop go on for ever, each round
\* takes something of it.
RoundsTakeText == pc' # pc \/ Len(rest') < Len(rest)
=============================================================================
