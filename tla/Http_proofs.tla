----------------------------- MODULE Http_proofs -----------------------------
(***************************************************************************)
(* Proofs about Http, for any streams, texts, answers and servers: what    *)
(* receive takes from a socket, that the parser's loops end, that answers  *)
(* are readable, and what a failed open or run leaves behind.              *)
(***************************************************************************)
EXTENDS Http, TLAPS, SequenceTheorems, FiniteSetTheorems

\* Induction without a predicate: a set of numbers up to n with 0 and, for each of its
\* members below n, the next number has n; else adding 1 would put it one to one into
\* a smaller set.
LEMMA SetInduction ==
  ASSUME NEW n \in Nat, NEW B \in SUBSET (0 .. n), 0 \in B, \A i \in B : i < n => i + 1 \in B
  PROVE  n \in B
<1> SUFFICES ASSUME n \notin B PROVE FALSE
  OBVIOUS
<1>1. IsFiniteSet(0 .. n)
  BY FS_Interval
<1>2. IsFiniteSet(B)
  BY <1>1, FS_Subset
<1>3. PICK f : f = [i \in B |-> i + 1]
  OBVIOUS
<1>4. f \in [B -> B \ {0}]
  BY <1>3
<1>5. ~ \E i, j \in B : i # j /\ f[i] = f[j]
  BY <1>3
<1>6. IsFiniteSet(B \ {0}) /\ Cardinality(B \ {0}) = Cardinality(B) - 1
    /\ Cardinality(B) \in Nat
  BY <1>2, FS_RemoveElement, FS_CardinalityType
<1>7. Cardinality(B \ {0}) < Cardinality(B)
  BY <1>6
<1>8. \E i, j \in B : i # j /\ f[i] = f[j]
  BY <1>2, <1>4, <1>6, <1>7, FS_PigeonHole
<1>9. QED BY <1>5, <1>8

\* A set of numbers that has a member has a least one.
LEMMA LeastNatural == ASSUME NEW S \in SUBSET Nat, NEW n \in S
    PROVE \E m \in S : \A k \in S : m <= k
<1> SUFFICES ASSUME \A m \in S : \E k \in S : k < m PROVE FALSE
  OBVIOUS
<1> DEFINE B == {i \in 0 .. n : \A k \in 0 .. i : k \notin S}
<1>1. B \in SUBSET (0 .. n) /\ 0 \in B
  OBVIOUS
<1>2. ASSUME NEW i \in B, i < n PROVE i + 1 \in B
  <2>1. i + 1 \notin S
    BY <1>2
  <2>2. QED BY <1>2, <2>1
<1>3. n \in Nat
  OBVIOUS
<1> HIDE DEF B
<1>4. n \in B
  BY <1>1, <1>2, <1>3, SetInduction
<1>5. QED BY <1>4 DEF B

-----------------------------------------------------------------------------
\* Texts

LEMMA CharIs == ASSUME NEW s \in HP!Text
  PROVE DOMAIN s = 1 .. Len(s) /\ Len(s) \in Nat /\ \A i \in 1 .. Len(s) : s[i] \in 0 .. 255
<1> DEFINE C == 0 .. 255
<1> HIDE DEF C
<1>1. s \in Seq(C)
  BY DEF HP!Text, C
<1>2. DOMAIN s = 1 .. Len(s) /\ Len(s) \in Nat /\ \A i \in 1 .. Len(s) : s[i] \in C
  BY <1>1
<1>3. QED BY <1>2 DEF C

\* Texts of one and of three characters, as Encode makes them.
LEMMA ShortText == ASSUME NEW a \in 0 .. 255, NEW b \in 0 .. 255, NEW c \in 0 .. 255
  PROVE <<a>> \in HP!Text /\ <<a, b, c>> \in HP!Text
<1> DEFINE C == 0 .. 255
<1> HIDE DEF C
<1>1. a \in C /\ b \in C /\ c \in C
  BY DEF C
<1>2. <<a>> \in Seq(C) /\ <<a, b, c>> \in Seq(C)
  BY <1>1
<1>3. QED BY <1>2 DEF HP!Text, C

\* The first of a set of positions.
LEMMA FirstIs == ASSUME NEW P \in SUBSET Nat
  PROVE  \/ P = {} /\ HP!FirstOf(P) = HP!Npos
         \/ HP!FirstOf(P) \in P /\ \A j \in P : HP!FirstOf(P) <= j
<1>1. CASE P = {}
  BY <1>1 DEF HP!FirstOf
<1>2. CASE P # {}
  <2>1. PICK n : n \in P
    BY <1>2
  <2>2. \E m \in P : \A k \in P : m <= k
    BY <2>1, LeastNatural
  <2>3. QED BY <1>2, <2>2 DEF HP!FirstOf
<1>3. QED BY <1>1, <1>2

\* Where a text t is found in s.
LEMMA FindIs == ASSUME NEW s \in HP!Text, NEW t \in HP!Text, NEW from \in Nat
  PROVE  \/ /\ HP!Find(s, t, from) = HP!Npos
            /\ \A i \in from .. Len(s) - Len(t) : SubSeq(s, i + 1, i + Len(t)) # t
         \/ /\ HP!Find(s, t, from) \in Nat /\ from <= HP!Find(s, t, from)
            /\ HP!Find(s, t, from) + Len(t) <= Len(s)
            /\ SubSeq(s, HP!Find(s, t, from) + 1, HP!Find(s, t, from) + Len(t)) = t
            /\ \A i \in from .. Len(s) - Len(t) :
                 SubSeq(s, i + 1, i + Len(t)) = t => HP!Find(s, t, from) <= i
<1> DEFINE P == {i \in from .. Len(s) - Len(t) : SubSeq(s, i + 1, i + Len(t)) = t}
<1>1. Len(s) \in Nat /\ Len(t) \in Nat
  BY DEF HP!Text
<1>2. P \in SUBSET Nat /\ HP!Find(s, t, from) = HP!FirstOf(P)
  BY <1>1 DEF HP!Find
<1>3. \A i : i \in P <=> i \in from .. Len(s) - Len(t) /\ SubSeq(s, i + 1, i + Len(t)) = t
  OBVIOUS
<1> HIDE DEF P
<1>4. CASE P = {} /\ HP!FirstOf(P) = HP!Npos
  BY <1>2, <1>3, <1>4
<1>5. CASE HP!FirstOf(P) \in P /\ \A j \in P : HP!FirstOf(P) <= j
  <2>1. PICK f : f = HP!FirstOf(P)
    OBVIOUS
  <2>2. f \in from .. Len(s) - Len(t) /\ SubSeq(s, f + 1, f + Len(t)) = t
    BY <1>3, <1>5, <2>1
  <2>3. f \in Nat /\ from <= f /\ f + Len(t) <= Len(s)
    BY <1>1, <2>2
  <2>4. \A i \in from .. Len(s) - Len(t) : SubSeq(s, i + 1, i + Len(t)) = t => f <= i
    BY <1>3, <1>5, <2>1
  <2>5. QED BY <1>2, <2>1, <2>2, <2>3, <2>4
<1>6. QED BY <1>2, <1>4, <1>5, FirstIs

\* What a part of a text is, from m to n.
LEMMA SubSeqIs == ASSUME NEW s \in HP!Text, NEW m \in Nat \ {0}, NEW n \in Int, n <= Len(s)
  PROVE  /\ SubSeq(s, m, n) \in HP!Text
         /\ Len(SubSeq(s, m, n)) = IF m <= n THEN n - m + 1 ELSE 0
         /\ \A i \in 1 .. n - m + 1 : SubSeq(s, m, n)[i] = s[m + i - 1]
<1>1. s \in Seq(0 .. 255) /\ Len(s) \in Nat
  BY DEF HP!Text
<1> DEFINE C == 0 .. 255
<1> HIDE DEF C
<1>2. s \in Seq(C)
  BY <1>1 DEF C
<1>3. CASE m <= n
  <2>1. m \in 1 .. Len(s) + 1 /\ n \in m - 1 .. Len(s)
    BY <1>1, <1>3
  <2>2. /\ SubSeq(s, m, n) \in Seq(C) /\ Len(SubSeq(s, m, n)) = n - m + 1
        /\ \A i \in 1 .. n - m + 1 : SubSeq(s, m, n)[i] = s[m + i - 1]
    BY <1>2, <2>1, SubSeqProperties
  <2>3. QED BY <1>3, <2>2 DEF HP!Text, C
<1>4. CASE ~(m <= n)
  <2>1. n - m + 1 <= 0
    BY <1>4
  <2>2. SubSeq(s, m, n) = <<>>
    BY <1>2, <1>4
  <2>3. QED BY <1>4, <2>1, <2>2 DEF HP!Text
<1>5. QED BY <1>3, <1>4

\* A part of a text, and what is behind a part.
LEMMA SubstrIs == ASSUME NEW s \in HP!Text, NEW at \in Nat, NEW n \in Nat \cup {HP!Npos}
  PROVE HP!Substr(s, at, n) \in HP!Text /\ Len(HP!Substr(s, at, n)) <= Len(s)
<1>1. Len(s) \in Nat
  BY DEF HP!Text
<1>2. PICK k : k = IF n = HP!Npos \/ at + n > Len(s) THEN Len(s) ELSE at + n
  OBVIOUS
<1>3. k \in Nat /\ k <= Len(s)
  BY <1>1, <1>2 DEF HP!Npos
<1>4. HP!Substr(s, at, n) = SubSeq(s, at + 1, k)
  BY <1>2 DEF HP!Substr
<1>5. /\ SubSeq(s, at + 1, k) \in HP!Text
      /\ Len(SubSeq(s, at + 1, k)) = IF at + 1 <= k THEN k - (at + 1) + 1 ELSE 0
  BY <1>1, <1>3, SubSeqIs
<1>6. QED BY <1>1, <1>3, <1>4, <1>5

\* remove_prefix leaves a text, shorter by what was removed.
LEMMA RemovePrefixIs == ASSUME NEW s \in HP!Text, NEW n \in Nat
  PROVE  /\ HP!RemovePrefix(s, n) \in HP!Text
         /\ Len(HP!RemovePrefix(s, n)) = IF n <= Len(s) THEN Len(s) - n ELSE 0
<1>1. Len(s) \in Nat /\ Len(s) <= Len(s)
  BY DEF HP!Text
<1>2. /\ SubSeq(s, n + 1, Len(s)) \in HP!Text
      /\ Len(SubSeq(s, n + 1, Len(s))) = IF n + 1 <= Len(s) THEN Len(s) - (n + 1) + 1 ELSE 0
  BY <1>1, SubSeqIs
<1>3. QED BY <1>1, <1>2 DEF HP!RemovePrefix

\* What two texts are, one behind the other.
LEMMA TextsJoined == ASSUME NEW a \in HP!Text, NEW b \in HP!Text
  PROVE  /\ a \o b \in HP!Text /\ Len(a \o b) = Len(a) + Len(b)
         /\ \A i \in 1 .. Len(a) : (a \o b)[i] = a[i]
         /\ \A i \in 1 .. Len(b) : (a \o b)[Len(a) + i] = b[i]
<1>1. Len(a) \in Nat /\ Len(b) \in Nat
  BY DEF HP!Text
<1>2. /\ a \o b \in HP!Text /\ Len(a \o b) = Len(a) + Len(b)
      /\ \A i \in 1 .. Len(a) + Len(b) : (a \o b)[i] = IF i <= Len(a) THEN a[i]
         ELSE b[i - Len(a)]
  BY DEF HP!Text
<1>3. ASSUME NEW i \in 1 .. Len(b) PROVE (a \o b)[Len(a) + i] = b[i]
  <2>1. Len(a) + i \in 1 .. Len(a) + Len(b) /\ ~(Len(a) + i <= Len(a))
      /\ Len(a) + i - Len(a) = i
    BY <1>1
  <2>2. QED BY <1>2, <2>1
<1>4. \A i \in 1 .. Len(a) : (a \o b)[i] = a[i]
  BY <1>1, <1>2
<1>5. QED BY <1>2, <1>3, <1>4


-----------------------------------------------------------------------------
\* The texts of Receiver and of HttpParsing are the same.
LEMMA SameViews ==
  /\ RC!Npos = HP!Npos /\ RC!NUL = HP!NUL
  /\ RC!Endline = HP!Endline /\ RC!HeadersEnd = HP!HeadersEnd
  /\ \A s, t, at : RC!Find(s, t, at) = HP!Find(s, t, at)
  /\ \A s, C, at : RC!FindIn(s, C, at) = HP!FindIn(s, C, at)
  /\ \A s, at, n : RC!Substr(s, at, n) = HP!Substr(s, at, n)
  /\ \A s, n : RC!RemovePrefix(s, n) = HP!RemovePrefix(s, n)
<1>1. RC!Npos = HP!Npos /\ RC!NUL = HP!NUL /\ RC!Endline = HP!Endline
  BY DEF RC!Npos, HP!Npos, RC!NUL, HP!NUL, RC!Endline, HP!Endline, RC!CR, HP!CR, RC!LF,
      HP!LF
<1>2. RC!HeadersEnd = HP!HeadersEnd
  BY <1>1 DEF RC!HeadersEnd, HP!HeadersEnd
<1>3. \A P : RC!FirstOf(P) = HP!FirstOf(P)
  BY <1>1 DEF RC!FirstOf, HP!FirstOf
<1>4. \A s, t, at : RC!Find(s, t, at) = HP!Find(s, t, at)
  BY <1>3 DEF RC!Find, HP!Find
<1>5. \A s, C, at : RC!FindIn(s, C, at) = HP!FindIn(s, C, at)
  BY <1>3 DEF RC!FindIn, HP!FindIn
<1>6. \A s, at, n : RC!Substr(s, at, n) = HP!Substr(s, at, n)
  BY <1>1 DEF RC!Substr, HP!Substr
<1>7. \A s, n : RC!RemovePrefix(s, n) = HP!RemovePrefix(s, n)
  BY DEF RC!RemovePrefix, HP!RemovePrefix
<1>8. QED BY <1>1, <1>2, <1>4, <1>5, <1>6, <1>7

\* Every instance has the cardinality and the bijections of its own modules.
LEMMA SizeOfStarts == \A S : HP!Cardinality(S) = Cardinality(S)
  BY DEF HP!Cardinality, Cardinality

\* The Cardinality that HttpServer sees is that of FiniteSets.
LEMMA SizeOfSockets == \A S : HS!Cardinality(S) = Cardinality(S)
  BY DEF HS!Cardinality, Cardinality

\* The same of HttpResponse, and of its bijections.
LEMMA SizeOfHeaders ==
  /\ \A S : HR!Cardinality(S) = Cardinality(S)
  /\ \A S, T : HR!Bijection(S, T) = Bijection(S, T)
<1>1. \A S : HR!Cardinality(S) = Cardinality(S)
  BY DEF HR!Cardinality, Cardinality
<1>2. \A S, T : HR!Bijection(S, T) = Bijection(S, T)
  BY DEF HR!Bijection, HR!Injection, HR!Surjection, HR!IsInjective,
    Bijection, Injection, Surjection, IsInjective
<1>3. QED BY <1>1, <1>2


-----------------------------------------------------------------------------
(***************************************************************************)
(* HttpParsing: types, and every round of a loop takes text                *)
(***************************************************************************)

-----------------------------------------------------------------------------
\* What a client writes is a text.

LEMMA TextsAre ==
  /\ Lines # {} /\ \A f \in Lines : f.verb \in HP!Text /\ f.protocol \in HP!Text
  /\ \A p \in Pairs : p.key \in HP!Text /\ p.value \in HP!Text
  /\ \A f \in Fields : f.name \in HP!Text /\ f.value \in HP!Text
  /\ MaxItems \in Nat
  /\ After \subseteq HP!Text /\ Queries \subseteq HP!Text /\ HeaderTexts \subseteq HP!Text
  BY TextsAssumption DEF HP!ParserAssumption

\* The separators of a request are texts.
LEMMA ShortTexts ==
  /\ <<>> \in HP!Text /\ HP!Endline \in HP!Text /\ HP!HeadersEnd \in HP!Text
  /\ <<HP!Amp>> \in HP!Text /\ <<HP!Equals>> \in HP!Text /\ <<HP!Colon>> \in HP!Text
     /\ <<HP!Question>> \in HP!Text
  /\ <<HP!Slash>> \in HP!Text /\ <<HP!Colon, HP!Space>> \in HP!Text
     /\ <<HP!Space>> \in HP!Text
  /\ <<HP!Space, HP!Slash, HP!Question>> \in HP!Text
  /\ Len(HP!Endline) = 2 /\ Len(<<HP!Amp>>) = 1
  BY DEF HP!Text, HP!Endline, HP!HeadersEnd, HP!Amp, HP!Equals, HP!Colon, HP!Question,
      HP!Slash, HP!Space, HP!CR, HP!LF

\* Texts one behind the other, and one more.
LEMMA FlattenSteps ==
  ASSUME NEW n \in Nat \ {0}, NEW q, DOMAIN q = 1 .. n, Len(q) = n
  PROVE  \E f : /\ HP!FlattenSeq(q) = f[n]
               /\ \A i \in 1 .. n : f[i] = IF i = 1 THEN q[i] ELSE f[i - 1] \o q[i]
<1> DEFINE Flat(f, k) == f = [i \in 1 .. k |-> IF i = 1 THEN q[i] ELSE f[i - 1] \o q[i]]
           B == {k \in 0 .. n : \E f : Flat(f, k)}
<1>1. B \in SUBSET (0 .. n)
  OBVIOUS
<1>2. 0 \in B
  <2>1. Flat(<<>>, 0)
    OBVIOUS
  <2> HIDE DEF Flat
  <2>2. QED BY <2>1
<1>3. ASSUME NEW k \in B, k < n PROVE k + 1 \in B
  <2>1. PICK f : Flat(f, k)
    OBVIOUS
  <2>2. k \in Nat
    OBVIOUS
  <2> DEFINE g == [i \in 1 .. k + 1 |->
                     IF i <= k THEN f[i] ELSE IF i = 1 THEN q[i] ELSE f[i - 1] \o q[i]]
  <2>3. \A i \in 1 .. k : f[i] = IF i = 1 THEN q[i] ELSE f[i - 1] \o q[i]
    BY <2>1
  <2>4. ASSUME NEW i \in 1 .. k + 1 PROVE g[i] = IF i = 1 THEN q[i] ELSE g[i - 1] \o q[i]
    <3>1. CASE i = 1
      <4>1. 1 <= k => f[1] = q[1]
        BY <2>2, <2>3
      <4>2. QED BY <2>2, <3>1, <4>1
    <3>2. CASE i # 1 /\ i <= k
      <4>1. i - 1 \in 1 .. k + 1 /\ i - 1 <= k /\ i \in 1 .. k
        BY <2>2, <3>2
      <4>2. g[i] = f[i] /\ g[i - 1] = f[i - 1]
        BY <4>1
      <4>3. QED BY <2>3, <3>2, <4>1, <4>2
    <3>3. CASE i # 1 /\ ~(i <= k)
      <4>1. i - 1 \in 1 .. k + 1 /\ i - 1 <= k
        BY <2>2, <3>3
      <4>2. g[i] = f[i - 1] \o q[i] /\ g[i - 1] = f[i - 1]
        BY <3>3, <4>1
      <4>3. QED BY <3>3, <4>2
    <3>4. QED BY <3>1, <3>2, <3>3
  <2>5. Flat(g, k + 1)
    <3> HIDE DEF g
    <3>1. g = [i \in 1 .. k + 1 |-> g[i]]
      BY DEF g
    <3>2. QED BY <2>4, <3>1
  <2>6. k + 1 \in 0 .. n
    BY <1>3, <2>2
  <2> HIDE DEF g, Flat
  <2>7. QED BY <2>5, <2>6
<1>4. n \in B
  <2> HIDE DEF B
  <2>1. \A k \in B : k < n => k + 1 \in B
    BY <1>3
  <2>2. QED BY <1>1, <1>2, <2>1, SetInduction
<1>5. PICK f : f = CHOOSE g : Flat(g, n)
  OBVIOUS
<1>6. Flat(f, n)
  BY <1>4, <1>5
<1>7. HP!FlattenSeq(q) = f[n]
  BY <1>5 DEF HP!FlattenSeq
<1>8. \A i \in 1 .. n : f[i] = IF i = 1 THEN q[i] ELSE f[i - 1] \o q[i]
  BY <1>6
<1>9. QED BY <1>7, <1>8

\* The texts that FlattenSeq makes on its way.
LEMMA FlattenFronts ==
  ASSUME NEW n \in Nat, NEW q, DOMAIN q = 1 .. n, Len(q) = n, q \in Seq(HP!Text)
  PROVE  \E g \in [0 .. n -> HP!Text] :
           /\ g[0] = <<>> /\ g[n] = HP!FlattenSeq(q)
           /\ \A i \in 1 .. n : g[i] = g[i - 1] \o q[i]
<1>1. CASE n = 0
  <2>1. q = <<>>
    BY <1>1
  <2>2. HP!FlattenSeq(q) = <<>>
    BY <2>1 DEF HP!FlattenSeq
  <2>3. PICK g : g = [i \in 0 .. n |-> <<>>]
    OBVIOUS
  <2>4. g \in [0 .. n -> HP!Text] /\ g[0] = <<>> /\ g[n] = <<>>
    BY <2>3, ShortTexts
  <2>5. QED BY <1>1, <2>2, <2>4
<1>2. CASE n # 0
  <2>1. n \in Nat \ {0}
    BY <1>2
  <2>2. PICK f : /\ HP!FlattenSeq(q) = f[n]
                 /\ \A i \in 1 .. n : f[i] = IF i = 1 THEN q[i] ELSE f[i - 1] \o q[i]
    BY <2>1, FlattenSteps
  <2>3. PICK g : g = [i \in 0 .. n |-> IF i = 0 THEN <<>> ELSE f[i]]
    OBVIOUS
  <2>4. g[0] = <<>> /\ g[n] = HP!FlattenSeq(q) /\ \A i \in 1 .. n : g[i] = f[i]
    BY <2>1, <2>2, <2>3
  <2>5. \A i \in 1 .. n : q[i] \in HP!Text
    OBVIOUS
  <2>6. ASSUME NEW i \in 1 .. n PROVE g[i] = g[i - 1] \o q[i]
    <3>1. CASE i = 1
      <4>1. q[1] \in HP!Text /\ g[1] = q[1] /\ 1 - 1 = 0
        BY <2>2, <2>4, <2>5, <3>1
      <4>2. <<>> \o q[1] = q[1]
        <5> DEFINE C == 0 .. 255
        <5> HIDE DEF C
        <5>1. q[1] \in Seq(C)
          BY <4>1 DEF HP!Text, C
        <5>2. QED BY <5>1, ConcatEmptySeq
      <4>3. QED BY <2>4, <3>1, <4>1, <4>2
    <3>2. CASE i # 1
      <4>1. i - 1 \in 1 .. n
        BY <3>2
      <4>2. QED BY <2>2, <2>4, <3>2, <4>1
    <3>3. QED BY <3>1, <3>2
  <2> DEFINE C == {k \in 0 .. n : g[k] \in HP!Text}
  <2>7. \A k : k \in C <=> k \in 0 .. n /\ g[k] \in HP!Text
    OBVIOUS
  <2> HIDE DEF C
  <2>8. C \in SUBSET (0 .. n) /\ 0 \in C
    BY <2>1, <2>4, <2>7, ShortTexts
  <2>9. ASSUME NEW k \in C, k < n PROVE k + 1 \in C
    <3>1. k \in Nat /\ k + 1 \in 1 .. n /\ k + 1 - 1 = k /\ g[k] \in HP!Text
      BY <2>7, <2>9
    <3>2. PICK x \in 1 .. n : x = k + 1 /\ x - 1 = k
      BY <3>1
    <3>3. g[x] = g[x - 1] \o q[x]
      BY <2>6
    <3>4. q[x] \in HP!Text /\ g[x - 1] \in HP!Text
      BY <2>5, <3>1, <3>2
    <3>5. g[x] \in HP!Text
      BY <3>3, <3>4, TextsJoined
    <3>6. x \in 0 .. n
      OBVIOUS
    <3>7. QED BY <2>7, <3>2, <3>5, <3>6
  <2>10. ASSUME NEW k \in 0 .. n PROVE k \in C
    <3>1. k \in Nat /\ k <= n
      OBVIOUS
    <3>2. PICK D : D = {i \in C : i <= k}
      OBVIOUS
    <3>3. D \in SUBSET (0 .. k) /\ 0 \in D
      <4>1. \A i \in D : i \in C /\ i \in Nat /\ i <= k
        BY <2>8, <3>2
      <4>2. \A i \in D : i \in 0 .. k
        BY <3>1, <4>1
      <4>3. 0 \in C /\ 0 <= k
        BY <2>8, <3>1
      <4>4. QED BY <3>2, <4>2, <4>3
    <3>4. \A i \in D : i < k => i + 1 \in D
      <4>1. TAKE i \in D
      <4>2. HAVE i < k
      <4>3. i \in C /\ i \in 0 .. k /\ i < n
        BY <3>1, <3>2, <3>3, <4>2
      <4>4. i + 1 \in C /\ i + 1 <= k
        BY <2>9, <3>1, <4>2, <4>3
      <4>5. QED BY <3>2, <4>4
    <3>5. k \in D
      BY <3>1, <3>3, <3>4, SetInduction
    <3>6. QED BY <3>2, <3>5
  <2>11. g \in [0 .. n -> HP!Text]
    BY <2>3, <2>7, <2>10
  <2>12. QED BY <2>4, <2>6, <2>11
<1>3. QED BY <1>1, <1>2

\* Texts one behind the other are a text.
LEMMA FlattenIs ==
  ASSUME NEW n \in Nat, NEW q, DOMAIN q = 1 .. n, Len(q) = n, q \in Seq(HP!Text)
  PROVE  HP!FlattenSeq(q) \in HP!Text
<1>1. PICK g \in [0 .. n -> HP!Text] : g[n] = HP!FlattenSeq(q)
  BY FlattenFronts
<1>2. n \in 0 .. n
  OBVIOUS
<1>3. QED BY <1>1, <1>2

\* A character that is escaped is written with three.
LEMMA EncodeIs == ASSUME NEW s \in HP!Text PROVE HP!Encode(s) \in HP!Text
<1> DEFINE q == [i \in DOMAIN s |->
                   IF s[i] \in HP!Reserved
                       THEN <<HP!Percent, HP!Digit(s[i] \div 16), HP!Digit(s[i] % 16)>>
                   ELSE <<s[i]>>]
<1>1. DOMAIN s = 1 .. Len(s) /\ Len(s) \in Nat /\ \A i \in 1 .. Len(s) : s[i] \in 0 .. 255
  BY CharIs
<1>2. ASSUME NEW i \in 1 .. Len(s) PROVE q[i] \in HP!Text
  <2>1. CASE s[i] \in HP!Reserved
    <3>1. \A c \in HP!Reserved : HP!Digit(c \div 16) \in 0 .. 255
        /\ HP!Digit(c % 16) \in 0 .. 255
      BY DEF HP!Reserved, HP!Blanks, HP!Digit, HP!Percent, HP!Amp, HP!Equals, HP!Question,
          HP!Space, HP!TAB, HP!CR
    <3>2. PICK a, b : a = HP!Digit(s[i] \div 16) /\ b = HP!Digit(s[i] % 16)
      OBVIOUS
    <3>3. a \in 0 .. 255 /\ b \in 0 .. 255 /\ HP!Percent \in 0 .. 255
      <4>1. PICK c \in HP!Reserved : c = s[i]
        BY <2>1
      <4>2. HP!Digit(c \div 16) \in 0 .. 255 /\ HP!Digit(c % 16) \in 0 .. 255
        BY <3>1
      <4>3. HP!Percent \in 0 .. 255
        BY DEF HP!Percent
      <4>4. QED BY <3>2, <4>1, <4>2, <4>3
    <3>4. q[i] = <<HP!Percent, a, b>>
      BY <1>1, <2>1, <3>2
    <3>5. QED BY <3>3, <3>4, ShortText
  <2>2. CASE s[i] \notin HP!Reserved
    <3>1. q[i] = <<s[i]>> /\ s[i] \in 0 .. 255
      BY <1>1, <2>2
    <3>2. QED BY <3>1, ShortText
  <2>3. QED BY <2>1, <2>2
<1>3. DOMAIN q = 1 .. Len(s) /\ HP!Encode(s) = HP!FlattenSeq(q)
  BY <1>1 DEF HP!Encode
<1> HIDE DEF q
<1>4. q = [i \in 1 .. Len(s) |-> q[i]]
  BY <1>1 DEF q
<1>5. q \in Seq(HP!Text) /\ Len(q) = Len(s)
  BY <1>1, <1>2, <1>4
<1>6. QED BY <1>1, <1>3, <1>5, FlattenIs

\* The query string of any parameters is a text.
LEMMA QueryIs == ASSUME NEW k \in Nat, NEW ps \in [1 .. k -> Pairs]
    PROVE HP!QueryOf(ps) \in HP!Text
<1> DEFINE q == [i \in DOMAIN ps |->
      (IF i > 1 THEN <<HP!Amp>> ELSE <<>>) \o HP!Encode(ps[i].key) \o <<HP!Equals>>
          \o HP!Encode(ps[i].value)]
<1>1. ASSUME NEW i \in 1 .. k PROVE q[i] \in HP!Text
  <2>1. ps[i] \in Pairs
    OBVIOUS
  <2>2. PICK a, b, c : a = HP!Encode(ps[i].key) /\ b = HP!Encode(ps[i].value)
                       /\ c = IF i > 1 THEN <<HP!Amp>> ELSE <<>>
    OBVIOUS
  <2>3. a \in HP!Text /\ b \in HP!Text
    BY <2>1, <2>2, TextsAre, EncodeIs
  <2>4. c \in HP!Text /\ <<HP!Equals>> \in HP!Text
    BY <2>2, ShortTexts
  <2>5. c \o a \in HP!Text
    BY <2>3, <2>4, TextsJoined
  <2>6. (c \o a) \o <<HP!Equals>> \in HP!Text
    BY <2>4, <2>5, TextsJoined
  <2>7. ((c \o a) \o <<HP!Equals>>) \o b \in HP!Text
    BY <2>3, <2>6, TextsJoined
  <2>8. q[i] = c \o a \o <<HP!Equals>> \o b
    BY <2>2
  <2>9. QED BY <2>7, <2>8
<1>2. DOMAIN q = 1 .. k /\ HP!QueryOf(ps) = HP!FlattenSeq(q)
  BY DEF HP!QueryOf
<1> HIDE DEF q
<1>3. q = [i \in 1 .. k |-> q[i]]
  BY DEF q
<1>4. q \in Seq(HP!Text) /\ Len(q) = k
  BY <1>1, <1>3
<1>5. QED BY <1>2, <1>4, FlattenIs

\* The header lines of any fields are a text.
LEMMA HeadersAre == ASSUME NEW k \in Nat, NEW fs \in [1 .. k -> Fields]
    PROVE HP!HeadersOf(fs) \in HP!Text
<1> DEFINE q == [i \in DOMAIN fs |-> fs[i].name \o <<HP!Colon, HP!Space>> \o fs[i].value
    \o HP!Endline]
<1>1. ASSUME NEW i \in 1 .. k PROVE q[i] \in HP!Text
  <2>1. fs[i] \in Fields
    OBVIOUS
  <2>2. PICK a, b : a = fs[i].name /\ b = fs[i].value
    OBVIOUS
  <2>3. a \in HP!Text /\ b \in HP!Text
    BY <2>1, <2>2, TextsAre
  <2>4. a \o <<HP!Colon, HP!Space>> \in HP!Text
    BY <2>3, TextsJoined, ShortTexts
  <2>5. (a \o <<HP!Colon, HP!Space>>) \o b \in HP!Text
    BY <2>3, <2>4, TextsJoined
  <2>6. ((a \o <<HP!Colon, HP!Space>>) \o b) \o HP!Endline \in HP!Text
    BY <2>5, TextsJoined, ShortTexts
  <2>7. q[i] = a \o <<HP!Colon, HP!Space>> \o b \o HP!Endline
    BY <2>2
  <2>8. QED BY <2>6, <2>7
<1>2. DOMAIN q = 1 .. k /\ HP!HeadersOf(fs) = HP!FlattenSeq(q)
  BY DEF HP!HeadersOf
<1> HIDE DEF q
<1>3. q = [i \in 1 .. k |-> q[i]]
  BY DEF q
<1>4. q \in Seq(HP!Text) /\ Len(q) = k
  BY <1>1, <1>3
<1>5. QED BY <1>2, <1>4, FlattenIs

\* A request whose parts are texts is one.
LEMMA TextOfIs ==
  ASSUME NEW f \in Lines, NEW query \in HP!Text, NEW lines \in HP!Text, NEW after \in HP!Text
  PROVE  HP!TextOf(f, query, lines, after) \in HP!Text
<1>1. PICK a, b : a = f.verb /\ b = f.protocol
  OBVIOUS
<1>2. a \in HP!Text /\ b \in HP!Text
  BY <1>1, TextsAre
<1> USE ShortTexts
<1>3. PICK t1 : t1 = a \o <<HP!Space, HP!Slash, HP!Question>> /\ t1 \in HP!Text
  BY <1>2, TextsJoined
<1>4. PICK t2 : t2 = t1 \o query /\ t2 \in HP!Text
  BY <1>3, TextsJoined
<1>5. PICK t3 : t3 = t2 \o <<HP!Space>> /\ t3 \in HP!Text
  BY <1>4, TextsJoined
<1>6. PICK t4 : t4 = t3 \o b /\ t4 \in HP!Text
  BY <1>2, <1>5, TextsJoined
<1>7. PICK t5 : t5 = t4 \o HP!Endline /\ t5 \in HP!Text
  BY <1>6, TextsJoined
<1>8. PICK t6 : t6 = t5 \o lines /\ t6 \in HP!Text
  BY <1>7, TextsJoined
<1>9. PICK t7 : t7 = t6 \o HP!Endline /\ t7 \in HP!Text
  BY <1>8, TextsJoined
<1>10. PICK t8 : t8 = t7 \o after /\ t8 \in HP!Text
  BY <1>9, TextsJoined
<1>11. HP!TextOf(f, query, lines, after) = t8
  BY <1>1, <1>3, <1>4, <1>5, <1>6, <1>7, <1>8, <1>9, <1>10 DEF HP!TextOf
<1>12. QED BY <1>10, <1>11

\* What the parser begins with is a text, meant or not.
LEMMA ParserInit == HP!Init => text \in HP!Text
<1> SUFFICES ASSUME HP!Init PROVE text \in HP!Text
  OBVIOUS
<1>1. CASE /\ meant \in HP!Requests
           /\ text = HP!TextOf(meant.first, HP!QueryOf(meant.pairs),
              HP!HeadersOf(meant.fields), meant.after)
  <2>1. PICK m \in HP!Requests : m = meant
    BY <1>1
  <2>2. m.first \in Lines /\ m.after \in HP!Text
    BY TextsAre DEF HP!Requests
  <2>3. HP!QueryOf(m.pairs) \in HP!Text
    <3>1. PICK k \in 0 .. MaxItems : m.pairs \in [1 .. k -> Pairs]
      BY DEF HP!Requests, HP!SeqOf
    <3>2. QED BY <3>1, QueryIs, TextsAre
  <2>4. HP!HeadersOf(m.fields) \in HP!Text
    <3>1. PICK k \in 0 .. MaxItems : m.fields \in [1 .. k -> Fields]
      BY DEF HP!Requests, HP!SeqOf
    <3>2. QED BY <3>1, HeadersAre, TextsAre
  <2>5. HP!TextOf(m.first, HP!QueryOf(m.pairs), HP!HeadersOf(m.fields), m.after) \in HP!Text
    BY <2>2, <2>3, <2>4, TextOfIs
  <2>6. QED BY <1>1, <2>1, <2>5
<1>2. CASE /\ meant = HP!NoRequest
           /\ \E q \in Queries, h \in HeaderTexts :
                text = HP!TextOf(meant.first, q, h \o HP!Endline, <<>>)
  <2>1. PICK f : f = meant.first
    OBVIOUS
  <2>2. f \in Lines
    BY <1>2, <2>1, TextsAre DEF HP!NoRequest
  <2>3. PICK q \in Queries, h \in HeaderTexts : text = HP!TextOf(f, q, h \o HP!Endline, <<>>)
    BY <1>2, <2>1
  <2>4. h \o HP!Endline \in HP!Text /\ q \in HP!Text /\ <<>> \in HP!Text
    BY TextsAre, TextsJoined, ShortTexts
  <2>5. HP!TextOf(f, q, h \o HP!Endline, <<>>) \in HP!Text
    BY <2>2, <2>4, TextOfIs
  <2>6. QED BY <2>3, <2>5
<1>3. QED BY <1>1, <1>2 DEF HP!Init

-----------------------------------------------------------------------------
\* What the parser makes of a text is made of texts.

LEMMA HexIs == ASSUME NEW c \in 0 .. 255, HP!IsHex(c) PROVE HP!Hex(c) \in 0 .. 15
  BY DEF HP!IsHex, HP!Hex, HP!Npos

\* Two characters decode to a character, whatever they are.
LEMMA StrtoulIs == ASSUME NEW a \in 0 .. 255, NEW b \in 0 .. 255
    PROVE HP!Strtoul(a, b) \in 0 .. 255
<1>1. PICK x, y : x = HP!Hex(a) /\ y = HP!Hex(b)
  OBVIOUS
<1>2. (HP!IsHex(a) => x \in 0 .. 15) /\ (HP!IsHex(b) => y \in 0 .. 15)
  BY <1>1, HexIs
<1>3. CASE HP!IsHex(a) /\ HP!IsHex(b)
  BY <1>1, <1>2, <1>3 DEF HP!Strtoul
<1>4. CASE HP!IsHex(a) /\ ~HP!IsHex(b)
  BY <1>1, <1>2, <1>4 DEF HP!Strtoul
<1>5. CASE ~HP!IsHex(a) /\ HP!IsHex(b)
  <2>1. HP!Strtoul(a, b) \in {y, (256 - y) % 256, 0}
    BY <1>1, <1>5 DEF HP!Strtoul
  <2>2. (256 - y) % 256 \in 0 .. 255
    BY <1>2, <1>5
  <2>3. QED BY <1>2, <1>5, <2>1, <2>2
<1>6. CASE ~HP!IsHex(a) /\ ~HP!IsHex(b)
  BY <1>6 DEF HP!Strtoul
<1>7. QED BY <1>3, <1>4, <1>5, <1>6

\* The value of f at i, for the f of decode_url.
Decoded(s, f, i) ==
  IF i > Len(s) THEN <<>>
  ELSE IF s[i] # HP!Percent THEN HP!Put(s[i], f[i + 1])
  ELSE IF i > Len(s) - 2 THEN HP!Bad
  ELSE HP!Put(HP!Strtoul(s[i + 1], s[i + 2]), f[i + 3])

\* One round of decode_url needs what comes later in the text only.
LEMMA DecodedAgrees ==
  ASSUME NEW s \in HP!Text, NEW f, NEW g, NEW i \in 1 .. Len(s) + 1,
         \A j \in i + 1 .. Len(s) + 1 : f[j] = g[j]
  PROVE  Decoded(s, f, i) = Decoded(s, g, i)
<1>1. Len(s) \in Nat
  BY DEF HP!Text
<1>2. i <= Len(s) => f[i + 1] = g[i + 1]
  BY <1>1
<1>3. i <= Len(s) - 2 => f[i + 3] = g[i + 3]
  BY <1>1
<1>4. QED BY <1>1, <1>2, <1>3 DEF Decoded

\* One round of decode_url makes a text of a text, or gives up.
LEMMA DecodedIs ==
  ASSUME NEW s \in HP!Text, NEW f, NEW i \in 1 .. Len(s) + 1,
         \A j \in i + 1 .. Len(s) + 1 : f[j] \in HP!Text \cup {HP!Bad}
  PROVE  Decoded(s, f, i) \in HP!Text \cup {HP!Bad}
<1>1. Len(s) \in Nat /\ \A j \in 1 .. Len(s) : s[j] \in 0 .. 255
  BY CharIs
<1>2. \A c \in 0 .. 255, t \in HP!Text \cup {HP!Bad} : HP!Put(c, t) \in HP!Text \cup {HP!Bad}
  BY ShortText, TextsJoined DEF HP!Put
<1>3. CASE i > Len(s)
  BY <1>1, <1>3, ShortTexts DEF Decoded
<1>4. CASE i <= Len(s) /\ s[i] # HP!Percent
  <2>0. i \in Nat /\ i + 1 \in i + 1 .. Len(s) + 1 /\ i \in 1 .. Len(s)
    BY <1>1, <1>4
  <2>1. f[i + 1] \in HP!Text \cup {HP!Bad} /\ s[i] \in 0 .. 255
    BY <1>1, <2>0
  <2>2. Decoded(s, f, i) = HP!Put(s[i], f[i + 1])
    BY <1>1, <1>4 DEF Decoded
  <2>3. QED BY <1>2, <2>1, <2>2
<1>5. CASE i <= Len(s) - 2 /\ s[i] = HP!Percent
  <2>1. f[i + 3] \in HP!Text \cup {HP!Bad} /\ i + 1 \in 1 .. Len(s)
      /\ i + 2 \in 1 .. Len(s) /\ i <= Len(s)
    BY <1>1, <1>5
  <2>2. HP!Strtoul(s[i + 1], s[i + 2]) \in 0 .. 255
    BY <1>1, <2>1, StrtoulIs
  <2>3. Decoded(s, f, i) = HP!Put(HP!Strtoul(s[i + 1], s[i + 2]), f[i + 3])
    BY <1>1, <1>5, <2>1 DEF Decoded
  <2>4. QED BY <1>2, <2>1, <2>2, <2>3
<1>6. CASE i <= Len(s) /\ s[i] = HP!Percent /\ ~(i <= Len(s) - 2)
  BY <1>1, <1>6 DEF Decoded
<1>7. QED BY <1>1, <1>3, <1>4, <1>5, <1>6

\* The rounds of decode_url, from the last to the first.
LEMMA DecodeRounds == ASSUME NEW s \in HP!Text
  PROVE  \E f : /\ HP!decode_url(s) = HP!OrEmpty(f[1])
               /\ \A i \in 1 .. Len(s) + 1 : f[i] = Decoded(s, f, i)
<1>1. PICK n \in Nat : n = Len(s)
  BY DEF HP!Text
<1> DEFINE From(f, k) == f = [i \in n + 1 - k .. n + 1 |-> Decoded(s, f, i)]
           B == {k \in 0 .. n : \E f : From(f, k)}
<1>2. B \in SUBSET (0 .. n)
  OBVIOUS
<1>3. 0 \in B
  <2> DEFINE f == [i \in n + 1 - 0 .. n + 1 |-> <<>>]
  <2>1. \A i \in n + 1 - 0 .. n + 1 : i > Len(s)
    BY <1>1
  <2>2. \A i \in n + 1 - 0 .. n + 1 : Decoded(s, f, i) = <<>>
    BY <2>1 DEF Decoded
  <2>3. From(f, 0)
    <3> DEFINE D == n + 1 - 0 .. n + 1
    <3> HIDE DEF D
    <3>1. \A i \in D : Decoded(s, [j \in D |-> <<>>], i) = <<>>
      BY <2>2 DEF D
    <3>2. [j \in D |-> <<>>] = [i \in D |-> Decoded(s, [j \in D |-> <<>>], i)]
      BY <3>1
    <3>3. QED BY <3>2 DEF D
  <2> HIDE DEF f, From
  <2>4. QED BY <2>3
<1>4. ASSUME NEW k \in B, k < n PROVE k + 1 \in B
  <2>1. PICK f : From(f, k)
    OBVIOUS
  <2>2. k \in Nat
    OBVIOUS
  <2> DEFINE g == [i \in n + 1 - (k + 1) .. n + 1 |->
                     IF i >= n + 1 - k THEN f[i] ELSE Decoded(s, f, i)]
  <2>3. \A i \in n + 1 - k .. n + 1 : f[i] = Decoded(s, f, i)
    BY <2>1
  <2>4. \A i \in n + 1 - k .. n + 1 : g[i] = f[i] /\ i \in n + 1 - (k + 1) .. n + 1
    BY <2>2
  <2>5. ASSUME NEW i \in n + 1 - (k + 1) .. n + 1 PROVE g[i] = Decoded(s, g, i)
    <3>1. i \in 1 .. Len(s) + 1 /\ \A j \in i + 1 .. Len(s) + 1 : j \in n + 1 - k .. n + 1
      BY <1>1, <1>4, <2>2
    <3>2. \A j \in i + 1 .. Len(s) + 1 : f[j] = g[j]
      BY <2>4, <3>1
    <3>3. g[i] = Decoded(s, f, i)
      <4>1. CASE i >= n + 1 - k
        <5>1. i \in n + 1 - k .. n + 1
          BY <2>2, <4>1
        <5>2. QED BY <2>3, <2>4, <5>1
      <4>2. CASE ~(i >= n + 1 - k)
        BY <4>2
      <4>3. QED BY <4>1, <4>2
    <3> HIDE DEF g
    <3>4. Decoded(s, f, i) = Decoded(s, g, i)
      BY <3>1, <3>2, DecodedAgrees
    <3>5. QED BY <3>3, <3>4
  <2>6. From(g, k + 1)
    <3> HIDE DEF g
    <3>1. g = [i \in n + 1 - (k + 1) .. n + 1 |-> g[i]]
      BY DEF g
    <3>2. QED BY <2>5, <3>1
  <2>7. k + 1 \in 0 .. n
    BY <1>4, <2>2
  <2> HIDE DEF g, From
  <2>8. QED BY <2>6, <2>7
<1>5. n \in B
  <2> HIDE DEF B
  <2>1. \A k \in B : k < n => k + 1 \in B
    BY <1>4
  <2>2. QED BY <1>2, <1>3, <2>1, SetInduction
<1>6. PICK f : f = CHOOSE g : g = [i \in 1 .. Len(s) + 1 |-> Decoded(s, g, i)]
  OBVIOUS
<1>7. f = [i \in 1 .. Len(s) + 1 |-> Decoded(s, f, i)]
  <2>1. PICK g : From(g, n)
    BY <1>5
  <2>2. n + 1 - n = 1
    OBVIOUS
  <2>3. g = [i \in 1 .. Len(s) + 1 |-> Decoded(s, g, i)]
    BY <1>1, <2>1, <2>2
  <2>4. QED BY <1>6, <2>3
<1>8. HP!decode_url(s) = HP!OrEmpty(f[1])
  BY <1>6 DEF HP!decode_url, Decoded
<1>9. QED BY <1>7, <1>8

\* decode_url makes a text of any text.
LEMMA DecodeIs == ASSUME NEW s \in HP!Text PROVE HP!decode_url(s) \in HP!Text
<1>1. PICK n \in Nat : n = Len(s)
  BY DEF HP!Text
<1>2. PICK f : /\ HP!decode_url(s) = HP!OrEmpty(f[1])
               /\ \A i \in 1 .. Len(s) + 1 : f[i] = Decoded(s, f, i)
  BY DecodeRounds
<1>3. \A i \in 1 .. n + 1 : f[i] = Decoded(s, f, i)
  BY <1>1, <1>2
<1> DEFINE C == {k \in 0 .. n : \A i \in n + 1 - k .. n + 1 : f[i] \in HP!Text \cup {HP!Bad}}
<1>4. C \in SUBSET (0 .. n) /\ 0 \in C
  <2>1. n + 1 \in 1 .. n + 1 /\ n + 1 \in 1 .. Len(s) + 1
    BY <1>1
  <2>2. \A j \in n + 1 + 1 .. Len(s) + 1 : f[j] \in HP!Text \cup {HP!Bad}
    BY <1>1
  <2>3. f[n + 1] \in HP!Text \cup {HP!Bad}
    BY <1>3, <2>1, <2>2, DecodedIs
  <2>4. \A i \in n + 1 - 0 .. n + 1 : i = n + 1
    OBVIOUS
  <2>5. QED BY <2>3, <2>4
<1>5. ASSUME NEW k \in C, k < n PROVE k + 1 \in C
  <2>1. k \in Nat /\ k + 1 \in 0 .. n
    BY <1>5
  <2>2. PICK i : i = n + 1 - (k + 1)
    OBVIOUS
  <2>3. i \in 1 .. n + 1 /\ i \in 1 .. Len(s) + 1
      /\ \A j \in i + 1 .. Len(s) + 1 : j \in n + 1 - k .. n + 1
    BY <1>1, <1>5, <2>1, <2>2
  <2>4. \A j \in i + 1 .. Len(s) + 1 : f[j] \in HP!Text \cup {HP!Bad}
    BY <2>3
  <2>5. f[i] \in HP!Text \cup {HP!Bad}
    BY <1>3, <2>3, <2>4, DecodedIs
  <2>6. \A j \in n + 1 - (k + 1) .. n + 1 : j = i \/ j \in n + 1 - k .. n + 1
    BY <2>1, <2>2
  <2>7. QED BY <2>1, <2>5, <2>6
<1>6. n \in C
  <2> HIDE DEF C
  <2>1. \A k \in C : k < n => k + 1 \in C
    BY <1>5
  <2>2. QED BY <1>4, <2>1, SetInduction
<1>7. 1 \in n + 1 - n .. n + 1
  OBVIOUS
<1>8. f[1] \in HP!Text \cup {HP!Bad}
  BY <1>6, <1>7
<1>9. QED BY <1>2, <1>8, ShortTexts DEF HP!OrEmpty

\* A text without the blanks at its end keeps a first character.
LEMMA RtrimIs == ASSUME NEW s \in HP!Text PROVE HP!rtrim(s) \in HP!Text
<1>1. DOMAIN s = 1 .. Len(s) /\ Len(s) \in Nat
  BY CharIs
<1>2. CASE s = <<>>
  BY <1>2, ShortTexts DEF HP!rtrim
<1>3. CASE s # <<>>
  <2>1. Len(s) # 0
    BY <1>3 DEF HP!Text
  <2> DEFINE P == {i \in 1 .. Len(s) : \A j \in i + 1 .. Len(s) : s[j] \in HP!Whitespaces}
  <2>2. P \in SUBSET Nat /\ Len(s) \in P
    BY <1>1, <2>1
  <2>3. PICK m \in P : \A k \in P : m <= k
    BY <2>2, LeastNatural
  <2>4. m = 1 \/ s[m] \notin HP!Whitespaces
    <3> SUFFICES ASSUME m # 1, s[m] \in HP!Whitespaces PROVE FALSE
      OBVIOUS
    <3>1. m \in 1 .. Len(s) /\ \A j \in m + 1 .. Len(s) : s[j] \in HP!Whitespaces
      BY <2>3
    <3>2. m - 1 \in 1 .. Len(s) /\ \A j \in m - 1 + 1 .. Len(s) : j = m
        \/ j \in m + 1 .. Len(s)
      BY <1>1, <3>1
    <3>3. m - 1 \in P
      BY <3>1, <3>2
    <3>4. m <= m - 1
      <4> HIDE DEF P
      <4>1. QED BY <2>3, <3>3
    <3>5. QED BY <3>1, <3>4
  <2>5. PICK last : last = CHOOSE i \in DOMAIN s :
                /\ i = 1 \/ s[i] \notin HP!Whitespaces
                /\ \A j \in i + 1 .. Len(s) : s[j] \in HP!Whitespaces
    OBVIOUS
  <2>6. last \in 1 .. Len(s)
    BY <1>1, <2>3, <2>4, <2>5
  <2>7. HP!rtrim(s) = SubSeq(s, 1, last)
    BY <1>3, <2>5 DEF HP!rtrim
  <2>8. last \in Int /\ last <= Len(s)
    BY <1>1, <2>6
  <2>9. QED BY <2>7, <2>8, SubSeqIs
<1>4. QED BY <1>2, <1>3

Blanks == HP!TAB .. HP!CR \cup {HP!Space}

\* A word has an end.
LEMMA WordEnds == ASSUME NEW s \in HP!Text, NEW i \in 1 .. Len(s), s[i] \notin Blanks
  PROVE  \E e \in i .. Len(s) :
           (\A n \in i .. e : s[n] \notin Blanks) /\ (e = Len(s) \/ s[e + 1] \in Blanks)
<1>1. Len(s) \in Nat /\ i \in Nat /\ i >= 1 /\ i <= Len(s)
  <2>1. Len(s) \in Nat
    BY CharIs
  <2>2. QED BY <2>1
<1> DEFINE P == {j \in i .. Len(s) : j = Len(s) \/ s[j + 1] \in Blanks}
<1>2. P \in SUBSET Nat /\ Len(s) \in P /\ P \subseteq i .. Len(s)
  BY <1>1
<1>3. \A j \in i .. Len(s) : j \in P <=> (j = Len(s) \/ s[j + 1] \in Blanks)
  OBVIOUS
<1> HIDE DEF P
<1>4. PICK m \in P : \A n \in P : m <= n
  BY <1>2, LeastNatural
<1>5. m \in i .. Len(s) /\ m \in Nat
  BY <1>1, <1>2
<1>6. ASSUME NEW n \in i .. m, n # i PROVE s[n] \notin Blanks
  <2>1. n \in Nat /\ n > i /\ n <= m
    BY <1>1, <1>5, <1>6
  <2>2. n - 1 \in i .. Len(s) /\ ~(m <= n - 1) /\ n - 1 + 1 = n
    BY <1>1, <1>5, <2>1
  <2>3. n - 1 \notin P
    BY <1>4, <2>2
  <2>4. QED BY <1>3, <2>2, <2>3
<1>7. QED BY <1>3, <1>4, <1>5, <1>6

\* A word of a text.
LEMMA WordIs == ASSUME NEW s \in HP!Text, NEW k \in Nat PROVE HP!Word(s, k) \in HP!Text
<1>1. DOMAIN s = 1 .. Len(s) /\ Len(s) \in Nat
  BY CharIs
<1> DEFINE blank(i) == s[i] \in HP!TAB .. HP!CR \cup {HP!Space}
           starts == {i \in DOMAIN s : ~blank(i) /\ (i = 1 \/ blank(i - 1))}
           word(i) == SubSeq(s, i, CHOOSE j \in i .. Len(s) :
                   /\ \A n \in i .. j : ~blank(n)
                   /\ j = Len(s) \/ blank(j + 1))
<1>2. ASSUME NEW i \in starts PROVE word(i) \in HP!Text
  <2>1. i \in 1 .. Len(s) /\ s[i] \notin Blanks
    BY <1>1 DEF Blanks
  <2>2. \E e \in i .. Len(s) : (\A n \in i .. e : ~blank(n)) /\ (e = Len(s) \/ blank(e + 1))
    BY <2>1, WordEnds DEF Blanks
  <2>3. PICK e : e = CHOOSE j \in i .. Len(s) :
                   /\ \A n \in i .. j : ~blank(n)
                   /\ j = Len(s) \/ blank(j + 1)
    OBVIOUS
  <2>4. e \in i .. Len(s)
    BY <2>2, <2>3
  <2>5. word(i) = SubSeq(s, i, e)
    BY <2>3
  <2> HIDE DEF blank, starts, word
  <2>6. PICK m : m = i
    OBVIOUS
  <2>7. m \in 1 .. Len(s) /\ e \in m .. Len(s)
    BY <2>1, <2>4, <2>6
  <2>8. m \in Nat \ {0} /\ e \in Int /\ e <= Len(s)
    BY <1>1, <2>7
  <2>9. SubSeq(s, m, e) \in HP!Text
    BY <2>8, SubSeqIs
  <2>10. QED BY <2>5, <2>6, <2>9
<1>3. CASE \E i \in starts : Cardinality({j \in starts : j <= i}) = k
  <2>1. PICK i : i = CHOOSE x \in starts : Cardinality({j \in starts : j <= x}) = k
    OBVIOUS
  <2>2. i \in starts
    <3> HIDE DEF starts
    <3>1. QED BY <1>3, <2>1
  <2>3. HP!Word(s, k) = word(i)
    BY <1>3, <2>1, SizeOfStarts DEF HP!Word
  <2> HIDE DEF word, starts
  <2>4. QED BY <1>2, <2>2, <2>3
<1>4. CASE ~ \E i \in starts : Cardinality({j \in starts : j <= i}) = k
  <2>1. HP!Word(s, k) = <<>>
    BY <1>4, SizeOfStarts DEF HP!Word
  <2>2. QED BY <2>1, ShortTexts
<1>5. QED BY <1>3, <1>4

\* to_lowercase makes a text of any text.
LEMMA LowerCaseIs == ASSUME NEW s \in HP!Text PROVE HP!LowerCase(s) \in HP!Text
<1>1. DOMAIN s = 1 .. Len(s) /\ Len(s) \in Nat /\ \A i \in 1 .. Len(s) : s[i] \in 0 .. 255
  BY CharIs
<1>2. \A c \in 0 .. 255 : HP!Lower(c) \in 0 .. 255
  BY DEF HP!Lower
<1> DEFINE C == 0 .. 255
<1> HIDE DEF C
<1>3. \A i \in 1 .. Len(s) : HP!Lower(s[i]) \in C
  BY <1>1, <1>2 DEF C
<1>4. [i \in 1 .. Len(s) |-> HP!Lower(s[i])] \in Seq(C)
  BY <1>1, <1>3
<1>5. QED BY <1>1, <1>4 DEF HP!LowerCase, HP!Text, C

\* emplace keeps a map from texts to texts one.
LEMMA EmplaceKeepsMaps ==
  ASSUME NEW map, NEW key \in HP!Text, NEW value \in HP!Text, HP!IsMap(map)
  PROVE  HP!IsMap(HP!Emplace(map, key, value))
  BY DEF HP!Emplace, HP!IsMap

-----------------------------------------------------------------------------
\* The parser

QueryLines == [method : {"GET", "POST", "UNSUPPORTED"},
    version : {"V1_0", "V1_1", "UNSUPPORTED"},
               path : HP!Text]

ParserTypes ==
  /\ text \in HP!Text /\ rest \in HP!Text
  /\ parsing \in {"split", "line", "headers", "params", "done", "thrown"}
  /\ line \in QueryLines /\ HP!IsMap(fields) /\ HP!IsMap(params)

\* The types hold at the start.
LEMMA ParserTypesInit == HP!Init => ParserTypes
<1> SUFFICES ASSUME HP!Init PROVE ParserTypes
  OBVIOUS
<1>1. HP!IsMap(HP!Empty)
  BY DEF HP!IsMap, HP!Empty
<1>2. line \in QueryLines
  BY ShortTexts DEF HP!Init, QueryLines
<1>3. text \in HP!Text
  BY ParserInit
<1>4. QED BY <1>1, <1>2, <1>3, ShortTexts DEF HP!Init, ParserTypes

\* The part of a text before where t is found, and what is behind it.
LEMMA PartsAre == ASSUME NEW s \in HP!Text, NEW t \in HP!Text, NEW n \in Nat, n > 0
  PROVE  /\ HP!Substr(s, 0, HP!Find(s, t, 0)) \in HP!Text
         /\ HP!Substr(s, 0, HP!Find(s, t, 0) + n) \in HP!Text
         /\ HP!RemovePrefix(s, HP!Find(s, t, 0) + n) \in HP!Text
         /\ n > 1 /\ s # <<>> => Len(HP!RemovePrefix(s, HP!Find(s, t, 0) + n)) < Len(s)
<1>1. PICK f : f = HP!Find(s, t, 0)
  OBVIOUS
<1>2. f = HP!Npos \/ f \in Nat
  BY <1>1, FindIs
<1>3. f + n \in Nat /\ (n > 1 => f + n > 0)
  BY <1>2 DEF HP!Npos
<1>4. HP!Substr(s, 0, f) \in HP!Text /\ HP!Substr(s, 0, f + n) \in HP!Text
  <2>1. f \in Nat \cup {HP!Npos} /\ f + n \in Nat \cup {HP!Npos} /\ 0 \in Nat
    BY <1>2, <1>3
  <2>2. QED BY <2>1, SubstrIs
<1>5. /\ HP!RemovePrefix(s, f + n) \in HP!Text
      /\ Len(HP!RemovePrefix(s, f + n)) = IF f + n <= Len(s) THEN Len(s) - (f + n) ELSE 0
  BY <1>3, RemovePrefixIs
<1>6. s # <<>> => Len(s) > 0
  BY DEF HP!Text
<1>7. Len(s) \in Nat
  BY CharIs
<1>8. QED BY <1>1, <1>3, <1>4, <1>5, <1>6, <1>7

\* split_until_body keeps the types.
LEMMA SplitKeeps == ASSUME ParserTypes, HP!Split PROVE ParserTypes'
<1>1. PICK size : size = HP!Find(text, HP!Endline, 0)
  OBVIOUS
<1>2. PICK view : view = HP!RemovePrefix(text, size + Len(HP!Endline))
  OBVIOUS
<1>3. Len(HP!Endline) = 2 /\ HP!Endline \in HP!Text /\ HP!HeadersEnd \in HP!Text
  BY ShortTexts
<1>4. HP!Substr(text, 0, size) \in HP!Text /\ view \in HP!Text
  <2>1. text \in HP!Text /\ 2 \in Nat /\ 2 > 0
    BY DEF ParserTypes
  <2>2. QED BY <1>1, <1>2, <1>3, <2>1, PartsAre
<1>5. HP!Substr(view, 0, HP!Find(view, HP!HeadersEnd, 0) + Len(HP!Endline)) \in HP!Text
  <2>1. 2 \in Nat /\ 2 > 0
    OBVIOUS
  <2>2. QED BY <1>3, <1>4, <2>1, PartsAre
<1>6. rest' = HP!Substr(view, 0, HP!Find(view, HP!HeadersEnd, 0) + Len(HP!Endline))
  BY <1>1, <1>2 DEF HP!Split
<1>7. line' = [line EXCEPT !.path = HP!Substr(text, 0, size)]
  BY <1>1 DEF HP!Split
<1>8. line' \in QueryLines
  BY <1>4, <1>7 DEF ParserTypes, QueryLines
<1>9. QED BY <1>5, <1>6, <1>8 DEF HP!Split, ParserTypes

\* QueryLine keeps the types.
LEMMA QueryLineKeeps == ASSUME ParserTypes, HP!QueryLine PROVE ParserTypes'
<1>1. line.path \in HP!Text
  BY DEF ParserTypes, QueryLines
<1>2. HP!Word(line.path, 2) \in HP!Text
  BY <1>1, WordIs
<1>3. HP!MethodOf(HP!Word(line.path, 1)) \in {"GET", "POST", "UNSUPPORTED"}
  BY DEF HP!MethodOf
<1>4. HP!VersionOf(HP!Word(line.path, 3)) \in {"V1_0", "V1_1", "UNSUPPORTED"}
  BY DEF HP!VersionOf
<1>5. line' \in QueryLines
  BY <1>2, <1>3, <1>4 DEF HP!QueryLine, QueryLines
<1>6. QED BY <1>5 DEF HP!QueryLine, ParserTypes

\* A header line keeps the types, and takes something of the text.
LEMMA HeaderLineKeeps == ASSUME ParserTypes, HP!HeaderLine
  PROVE ParserTypes' /\ Len(rest') < Len(rest)
<1>1. PICK s : s = rest
  OBVIOUS
<1>2. s \in HP!Text /\ s # <<>>
  BY <1>1 DEF ParserTypes, HP!HeaderLine
<1>3. PICK l : l = HP!LineOf(s)
  OBVIOUS
<1>4. 2 \in Nat /\ 2 > 1 /\ 2 > 0 /\ Len(HP!Endline) = 2 /\ HP!Endline \in HP!Text
    /\ <<HP!Colon>> \in HP!Text
  BY ShortTexts
<1>5. l \in HP!Text
  BY <1>2, <1>3, <1>4, PartsAre DEF HP!LineOf
<1>6. HP!RemovePrefix(s, HP!Find(s, HP!Endline, 0) + 2) \in HP!Text
  BY <1>2, <1>4, PartsAre
<1>7. Len(HP!RemovePrefix(s, HP!Find(s, HP!Endline, 0) + 2)) < Len(s)
  BY <1>2, <1>4, PartsAre
<1>8. HP!NameOf(l) \in HP!Text
  <2>1. HP!Substr(l, 0, HP!Find(l, <<HP!Colon>>, 0)) \in HP!Text
    BY <1>4, <1>5, PartsAre
  <2>2. QED BY <2>1, RtrimIs, LowerCaseIs DEF HP!NameOf
<1>9. HP!Substr(l, HP!ValuePos(l), HP!Npos) \in HP!Text
  <2>1. PICK f : f = HP!Find(l, <<HP!Colon>>, 0)
    OBVIOUS
  <2>2. f = HP!Npos \/ f \in Nat
    BY <1>4, <1>5, <2>1, FindIs
  <2> DEFINE P == {i \in f + 1 .. Len(l) - 1 : l[i + 1] \notin HP!Whitespaces}
  <2>3. P \in SUBSET Nat
    BY <2>2 DEF HP!Npos
  <2>4. HP!ValuePos(l) = HP!FirstOf(P)
    BY <2>1 DEF HP!ValuePos
  <2>5. HP!ValuePos(l) # HP!Npos
    BY <1>1, <1>3 DEF HP!HeaderLine
  <2>6. HP!ValuePos(l) \in Nat
    <3> HIDE DEF P
    <3>1. QED BY <2>3, <2>4, <2>5, FirstIs
  <2>7. HP!Npos \in Nat \cup {HP!Npos}
    OBVIOUS
  <2>8. QED BY <1>5, <2>6, <2>7, SubstrIs
<1>10. fields' = HP!Emplace(fields, HP!NameOf(l), HP!Substr(l, HP!ValuePos(l), HP!Npos))
  BY <1>1, <1>3 DEF HP!HeaderLine
<1>11. PICK h : h = fields
  OBVIOUS
<1>12. HP!IsMap(h)
  BY <1>11 DEF ParserTypes
<1>13. HP!IsMap(HP!Emplace(h, HP!NameOf(l), HP!Substr(l, HP!ValuePos(l), HP!Npos)))
  BY <1>8, <1>9, <1>12, EmplaceKeepsMaps
<1>14. rest' = HP!RemovePrefix(s, HP!Find(s, HP!Endline, 0) + 2)
  BY <1>1, <1>4 DEF HP!HeaderLine
<1>15. HP!IsMap(fields') /\ rest' \in HP!Text
  BY <1>6, <1>10, <1>11, <1>13, <1>14
<1>16. ParserTypes'
  BY <1>15 DEF HP!HeaderLine, ParserTypes
<1>17. QED BY <1>1, <1>7, <1>14, <1>16

\* make_params keeps the types.
LEMMA MakeParamsKeeps == ASSUME ParserTypes, HP!MakeParams PROVE ParserTypes'
<1>1. PICK p : p = line.path
  OBVIOUS
<1>2. p \in HP!Text /\ <<HP!Question>> \in HP!Text
  BY <1>1, ShortTexts DEF ParserTypes, QueryLines
<1>3. HP!RemovePrefix(p, HP!Find(p, <<HP!Question>>, 0) + 1) \in HP!Text
  <2>1. 1 \in Nat /\ 1 > 0
    OBVIOUS
  <2>2. QED BY <1>2, <2>1, PartsAre
<1>4. rest' = IF HP!Find(p, <<HP!Question>>, 0) = HP!Npos THEN <<>>
              ELSE HP!RemovePrefix(p, HP!Find(p, <<HP!Question>>, 0) + 1)
  BY <1>1 DEF HP!MakeParams
<1>5. rest' \in HP!Text
  BY <1>3, <1>4, ShortTexts
<1>6. QED BY <1>5 DEF HP!MakeParams, ParserTypes

\* A round of parse_query_string takes a pair, or at least its `&'.
LEMMA QueryParamKeeps == ASSUME ParserTypes, HP!QueryParam
  PROVE ParserTypes' /\ Len(rest') < Len(rest)
<1>1. PICK s : s = rest
  OBVIOUS
<1>2. s \in HP!Text /\ s # <<>> /\ Len(s) \in Nat /\ Len(s) > 0
  BY <1>1 DEF ParserTypes, HP!QueryParam, HP!Text
<1>3. PICK t : t = HP!Trimmed
  OBVIOUS
<1>4. t = IF s[1] = HP!Amp THEN HP!RemovePrefix(s, 1) ELSE s
  BY <1>1, <1>3 DEF HP!Trimmed
<1>5. t \in HP!Text /\ Len(t) = IF s[1] = HP!Amp THEN Len(s) - 1 ELSE Len(s)
  <2>1. 1 \in Nat /\ 1 <= Len(s)
    BY <1>2
  <2>2. /\ HP!RemovePrefix(s, 1) \in HP!Text
        /\ Len(HP!RemovePrefix(s, 1)) = IF 1 <= Len(s) THEN Len(s) - 1 ELSE 0
    BY <1>2, <2>1, RemovePrefixIs
  <2>3. QED BY <1>2, <1>4, <2>1, <2>2
<1>6. PICK f : f = HP!Find(t, <<HP!Amp>>, 0)
  OBVIOUS
<1>7. <<HP!Amp>> \in HP!Text /\ Len(<<HP!Amp>>) = 1 /\ <<HP!Equals>> \in HP!Text
  BY ShortTexts
<1>8. f = HP!Npos \/ (f \in Nat /\ f + 1 <= Len(t) /\ SubSeq(t, f + 1, f + 1) = <<HP!Amp>>)
  <2>1. 0 \in Nat
    OBVIOUS
  <2>2. \/ f = HP!Npos
        \/ f \in Nat /\ f + Len(<<HP!Amp>>) <= Len(t)
           /\ SubSeq(t, f + 1, f + Len(<<HP!Amp>>)) = <<HP!Amp>>
    <3>1. PICK w : w = <<HP!Amp>>
      OBVIOUS
    <3>2. w \in HP!Text /\ 0 \in Nat
      BY <1>7, <3>1
    <3>3. \/ HP!Find(t, w, 0) = HP!Npos
          \/ /\ HP!Find(t, w, 0) \in Nat /\ HP!Find(t, w, 0) + Len(w) <= Len(t)
             /\ SubSeq(t, HP!Find(t, w, 0) + 1, HP!Find(t, w, 0) + Len(w)) = w
      BY <1>5, <3>2, FindIs
    <3>4. QED BY <1>6, <3>1, <3>3
  <2>3. QED BY <1>7, <2>2
<1>9. PICK p : p = HP!Pair
  OBVIOUS
<1>10. p = HP!Substr(t, 0, f)
  BY <1>3, <1>6, <1>9 DEF HP!Pair
<1>11. p \in HP!Text /\ Len(p) = IF f = HP!Npos THEN Len(t) ELSE f
  <2>1. PICK k : k = IF f = HP!Npos \/ 0 + f > Len(t) THEN Len(t) ELSE 0 + f
    OBVIOUS
  <2>2. Len(t) \in Nat
    BY <1>5, CharIs
  <2>3. k \in Nat /\ k <= Len(t) /\ k = IF f = HP!Npos THEN Len(t) ELSE f
    BY <1>8, <2>1, <2>2 DEF HP!Npos
  <2>4. p = SubSeq(t, 0 + 1, k)
    BY <1>10, <2>1 DEF HP!Substr
  <2>5. SubSeq(t, 1, k) \in HP!Text /\ Len(SubSeq(t, 1, k)) = IF 1 <= k THEN k - 1 + 1 ELSE 0
    BY <1>5, <2>3, SubSeqIs
  <2>6. 0 + 1 = 1 /\ (IF 1 <= k THEN k - 1 + 1 ELSE 0) = k
    BY <2>3
  <2>7. QED BY <2>3, <2>4, <2>5, <2>6
<1>12. s[1] # HP!Amp => Len(p) > 0
  <2> SUFFICES ASSUME s[1] # HP!Amp, f = 0 PROVE FALSE
    BY <1>2, <1>5, <1>8, <1>11
  <2>1. t = s
    BY <1>4
  <2>2. SubSeq(t, 1, 1) = <<HP!Amp>>
    BY <1>8 DEF HP!Npos
  <2>3. 1 \in Nat \ {0} /\ 1 \in Int /\ 1 <= Len(t)
    BY <1>2, <2>1
  <2>4. \A i \in 1 .. 1 - 1 + 1 : SubSeq(t, 1, 1)[i] = t[1 + i - 1]
    BY <1>5, <2>3, SubSeqIs
  <2>5. SubSeq(t, 1, 1)[1] = t[1]
    BY <2>4
  <2>6. t[1] = HP!Amp
    <3>1. <<HP!Amp>>[1] = HP!Amp
      OBVIOUS
    <3>2. QED BY <2>2, <2>5, <3>1
  <2>7. QED BY <2>1, <2>6
<1>13. Len(p) \in Nat /\ Len(p) <= Len(t) /\ Len(t) \in Nat
  <2>1. Len(t) \in Nat
    BY <1>5, CharIs
  <2>2. QED BY <1>8, <1>11, <2>1
<1>14. /\ HP!RemovePrefix(t, Len(p)) \in HP!Text
       /\ Len(HP!RemovePrefix(t, Len(p))) = IF Len(p) <= Len(t) THEN Len(t) - Len(p) ELSE 0
  BY <1>5, <1>13, RemovePrefixIs
<1>15. rest' = HP!RemovePrefix(t, Len(p))
  BY <1>3, <1>9 DEF HP!QueryParam
<1>16. Len(rest') < Len(rest) /\ rest' \in HP!Text
  BY <1>1, <1>2, <1>5, <1>12, <1>13, <1>14, <1>15
<1>17. PICK size : size = HP!Find(p, <<HP!Equals>>, 0)
  OBVIOUS
<1>18. size = HP!Npos \/ size \in Nat
  BY <1>7, <1>11, <1>17, FindIs
<1>19. HP!Substr(p, 0, size) \in HP!Text /\ HP!Substr(p, size + 1, HP!Npos) \in HP!Text
  <2>1. size + 1 \in Nat /\ 0 \in Nat /\ size \in Nat \cup {HP!Npos}
      /\ HP!Npos \in Nat \cup {HP!Npos}
    BY <1>18 DEF HP!Npos
  <2>2. QED BY <1>11, <2>1, SubstrIs
<1>20. params' = HP!Emplace(params, HP!decode_url(HP!Substr(p, 0, size)),
    HP!decode_url(HP!Substr(p, size + 1, HP!Npos)))
  BY <1>9, <1>17 DEF HP!QueryParam
<1>21. PICK h : h = params
  OBVIOUS
<1>22. HP!IsMap(h) /\ HP!decode_url(HP!Substr(p, 0, size)) \in HP!Text
    /\ HP!decode_url(HP!Substr(p, size + 1, HP!Npos)) \in HP!Text
  BY <1>19, <1>21, DecodeIs DEF ParserTypes
<1>23. HP!IsMap(HP!Emplace(h, HP!decode_url(HP!Substr(p, 0, size)),
    HP!decode_url(HP!Substr(p, size + 1, HP!Npos))))
  BY <1>22, EmplaceKeepsMaps
<1>24. HP!IsMap(params')
  BY <1>20, <1>21, <1>23
<1>25. ParserTypes'
  BY <1>16, <1>24 DEF HP!QueryParam, ParserTypes
<1>26. QED BY <1>16, <1>25

\* Every step keeps the types, and one that stays in its loop takes something.
LEMMA ParserStepKept == ParserTypes /\ [HP!Next]_(HP!vars) => ParserTypes'
    /\ [HP!RoundsTakeText]_(HP!vars)
<1> SUFFICES ASSUME ParserTypes, [HP!Next]_(HP!vars) PROVE ParserTypes'
    /\ [HP!RoundsTakeText]_(HP!vars)
  OBVIOUS
<1>1. CASE HP!Split
  BY <1>1, SplitKeeps DEF HP!Split, HP!RoundsTakeText
<1>2. CASE HP!QueryLine
  BY <1>2, QueryLineKeeps DEF HP!QueryLine, HP!RoundsTakeText
<1>3. CASE HP!HeaderLine
  BY <1>3, HeaderLineKeeps DEF HP!RoundsTakeText
<1>4. CASE HP!NoValue
  BY <1>4 DEF HP!NoValue, ParserTypes, HP!RoundsTakeText
<1>5. CASE HP!MakeParams
  BY <1>5, MakeParamsKeeps DEF HP!MakeParams, HP!RoundsTakeText
<1>6. CASE HP!QueryParam
  BY <1>6, QueryParamKeeps DEF HP!RoundsTakeText
<1>7. CASE HP!Parsed
  BY <1>7 DEF HP!Parsed, ParserTypes, HP!RoundsTakeText
<1>8. CASE UNCHANGED HP!vars
  BY <1>8 DEF HP!vars, ParserTypes
<1>9. QED BY <1>1, <1>2, <1>3, <1>4, <1>5, <1>6, <1>7, <1>8 DEF HP!Next, HP!Stop

\* The strengthened types are those of the parser.
LEMMA ParserTypesAre == ParserTypes => HP!TypeOK
  BY DEF ParserTypes, HP!TypeOK, QueryLines

\* HeadersMap.cpp and utils.cpp: for any request the types hold, and each round of a
\* loop of the parser takes something of the text it has left, so that it ends.
THEOREM ParserHolds == HP!Spec => []HP!TypeOK /\ [][HP!RoundsTakeText]_(HP!vars)
<1>1. QED BY ParserTypesInit, ParserStepKept, ParserTypesAre, PTL DEF HP!Spec

-----------------------------------------------------------------------------
(***************************************************************************)
(* Receiver: any stream, cut anywhere                                      *)
(***************************************************************************)

-----------------------------------------------------------------------------
\* Parts of a stream

\* b is the beginning of s.
Begins(b, s) == Len(b) <= Len(s) /\ \A i \in 1 .. Len(b) : b[i] = s[i]

\* t stands in s at the position i.
At(s, t, i) == i + Len(t) <= Len(s) /\ \A j \in 1 .. Len(t) : s[i + j] = t[j]

\* Texts with the same characters are the same.
LEMMA SameTexts ==
  ASSUME NEW a \in HP!Text, NEW b \in HP!Text, Len(a) = Len(b),
         \A i \in 1 .. Len(a) : a[i] = b[i]
  PROVE  a = b
  BY SeqEqual DEF HP!Text

\* A part of a text is t when its characters are.
LEMMA AtIs == ASSUME NEW s \in HP!Text, NEW t \in HP!Text, NEW i \in Nat, i <= Len(s) - Len(t)
  PROVE  SubSeq(s, i + 1, i + Len(t)) = t <=> At(s, t, i)
<1>1. Len(s) \in Nat /\ Len(t) \in Nat
  BY CharIs
<1>2. i + 1 \in Nat \ {0} /\ i + Len(t) \in Int /\ i + Len(t) <= Len(s)
  BY <1>1
<1>3. PICK u : u = SubSeq(s, i + 1, i + Len(t))
  OBVIOUS
<1>4. /\ u \in HP!Text /\ Len(u) = IF i + 1 <= i + Len(t) THEN i + Len(t) - (i + 1) + 1 ELSE 0
      /\ \A j \in 1 .. i + Len(t) - (i + 1) + 1 : u[j] = s[i + 1 + j - 1]
  BY <1>2, <1>3, SubSeqIs
<1>5. Len(u) = Len(t) /\ \A j \in 1 .. Len(t) : u[j] = s[i + j]
  <2>1. i + Len(t) - (i + 1) + 1 = Len(t)
      /\ (IF i + 1 <= i + Len(t) THEN Len(t) ELSE 0) = Len(t)
    BY <1>1
  <2>2. \A j \in 1 .. Len(t) : i + 1 + j - 1 = i + j
    BY <1>1
  <2>3. QED BY <1>4, <2>1, <2>2
<1>6. u = t <=> \A j \in 1 .. Len(t) : u[j] = t[j]
  BY <1>4, <1>5, SameTexts
<1>7. i + Len(t) <= Len(s)
  BY <1>1
<1>8. u = t <=> At(s, t, i)
  BY <1>5, <1>6, <1>7 DEF At
<1>9. QED BY <1>3, <1>8

\* Where t is found first, with At.
LEMMA FoundIs == ASSUME NEW s \in HP!Text, NEW t \in HP!Text, NEW from \in Nat
  PROVE  \/ HP!Find(s, t, from) = HP!Npos /\ \A i \in Nat : from <= i => ~At(s, t, i)
         \/ /\ HP!Find(s, t, from) \in Nat /\ from <= HP!Find(s, t, from)
               /\ At(s, t, HP!Find(s, t, from))
            /\ \A i \in Nat : from <= i /\ At(s, t, i) => HP!Find(s, t, from) <= i
<1>1. Len(s) \in Nat /\ Len(t) \in Nat
  BY CharIs
<1>2. PICK f : f = HP!Find(s, t, from)
  OBVIOUS
<1>3. \A i \in Nat : At(s, t, i) => i <= Len(s) - Len(t)
  BY <1>1 DEF At
<1>4. \A i \in Nat : from <= i /\ At(s, t, i) =>
        i \in from .. Len(s) - Len(t) /\ SubSeq(s, i + 1, i + Len(t)) = t
  <2>1. TAKE i \in Nat
  <2>2. HAVE from <= i /\ At(s, t, i)
  <2>3. i <= Len(s) - Len(t)
    BY <1>3, <2>2
  <2>4. SubSeq(s, i + 1, i + Len(t)) = t
    BY <2>2, <2>3, AtIs
  <2>5. QED BY <1>1, <2>2, <2>3, <2>4
<1>5. CASE /\ f = HP!Npos
           /\ \A i \in from .. Len(s) - Len(t) : SubSeq(s, i + 1, i + Len(t)) # t
  BY <1>2, <1>4, <1>5
<1>6. CASE /\ f \in Nat /\ from <= f /\ f + Len(t) <= Len(s)
           /\ SubSeq(s, f + 1, f + Len(t)) = t
           /\ \A i \in from .. Len(s) - Len(t) : SubSeq(s, i + 1, i + Len(t)) = t => f <= i
  <2>1. f <= Len(s) - Len(t)
    BY <1>1, <1>6
  <2>2. At(s, t, f)
    BY <1>6, <2>1, AtIs
  <2>3. QED BY <1>2, <1>4, <1>6, <2>2
<1>7. QED BY <1>2, <1>5, <1>6, FindIs

\* A text that begins s has what is found in s within it, and nothing before.
LEMMA FoundInBeginning ==
  ASSUME NEW s \in HP!Text, NEW b \in HP!Text, NEW t \in HP!Text, Begins(b, s),
         NEW from \in Nat,
         NEW f \in Nat, f = HP!Find(s, t, 0), from <= f, f + Len(t) <= Len(b)
  PROVE  HP!Find(b, t, from) = f
<1>1. Len(s) \in Nat /\ Len(t) \in Nat /\ Len(b) \in Nat /\ Len(b) <= Len(s)
  BY CharIs DEF Begins
<1>2. \A i \in Nat : At(b, t, i) => At(s, t, i)
  <2>1. TAKE i \in Nat
  <2>2. HAVE At(b, t, i)
  <2>3. \A j \in 1 .. Len(t) : i + j \in 1 .. Len(b)
    BY <1>1, <2>2 DEF At
  <2>4. QED BY <1>1, <2>2, <2>3 DEF At, Begins
<1>3. f # HP!Npos
  BY DEF HP!Npos
<1>4. At(s, t, f) /\ \A i \in Nat : 0 <= i /\ At(s, t, i) => f <= i
  <2>1. 0 \in Nat
    OBVIOUS
  <2>2. QED BY <1>3, <2>1, FoundIs
<1>5. At(b, t, f)
  <2>1. \A j \in 1 .. Len(t) : f + j \in 1 .. Len(b)
    BY <1>1
  <2>2. QED BY <1>1, <1>4, <2>1 DEF At, Begins
<1>6. \A i \in Nat : At(b, t, i) => f <= i
  BY <1>2, <1>4
<1>7. PICK g : g = HP!Find(b, t, from)
  OBVIOUS
<1>8. g \in Nat /\ At(b, t, g) /\ \A i \in Nat : from <= i /\ At(b, t, i) => g <= i
  BY <1>5, <1>7, FoundIs
<1>9. g <= f /\ f <= g
  BY <1>5, <1>6, <1>8
<1>10. QED BY <1>7, <1>8, <1>9

\* Nothing is found in the beginning of a text that does not have it.
LEMMA NotInBeginning ==
  ASSUME NEW s \in HP!Text, NEW b \in HP!Text, NEW t \in HP!Text, Begins(b, s),
         NEW from \in Nat,
         HP!Find(s, t, 0) = HP!Npos
  PROVE  HP!Find(b, t, from) = HP!Npos
<1>1. Len(s) \in Nat /\ Len(t) \in Nat /\ Len(b) \in Nat /\ Len(b) <= Len(s)
  BY CharIs DEF Begins
<1>2. \A i \in Nat : At(b, t, i) => At(s, t, i)
  <2>1. TAKE i \in Nat
  <2>2. HAVE At(b, t, i)
  <2>3. \A j \in 1 .. Len(t) : i + j \in 1 .. Len(b)
    BY <1>1, <2>2 DEF At
  <2>4. QED BY <1>1, <2>2, <2>3 DEF At, Begins
<1>3. \A i \in Nat : ~At(s, t, i)
  <2>1. 0 \in Nat /\ \A i \in Nat : 0 <= i
    OBVIOUS
  <2>2. HP!Find(s, t, 0) \notin Nat
    BY DEF HP!Npos
  <2>3. QED BY <2>1, <2>2, FoundIs
<1>4. \A i \in Nat : ~At(b, t, i)
  BY <1>2, <1>3
<1>5. QED BY <1>4, FoundIs

\* The ends of a line and of the headers, and NUL, character by character.
LEMMA Ends ==
  /\ <<>> \in HP!Text /\ HP!Endline \in HP!Text /\ HP!HeadersEnd \in HP!Text
     /\ <<HP!NUL>> \in HP!Text
  /\ Len(HP!Endline) = 2 /\ Len(HP!HeadersEnd) = 4 /\ Len(<<HP!NUL>>) = 1
  /\ HP!Endline[1] = HP!CR /\ HP!Endline[2] = HP!LF /\ HP!CR # HP!LF
  /\ HP!HeadersEnd[1] = HP!CR /\ HP!HeadersEnd[2] = HP!LF /\ HP!HeadersEnd[3] = HP!CR
     /\ HP!HeadersEnd[4] = HP!LF
  BY DEF HP!Text, HP!Endline, HP!HeadersEnd, HP!CR, HP!LF, HP!NUL

\* Where an end of line is.
LEMMA EndlineAt == ASSUME NEW s \in HP!Text, NEW i \in Nat
  PROVE At(s, HP!Endline, i) <=> i + 2 <= Len(s) /\ s[i + 1] = HP!CR /\ s[i + 2] = HP!LF
  BY Ends DEF At

\* Where an end of the headers is.
LEMMA HeadersEndAt == ASSUME NEW s \in HP!Text, NEW i \in Nat
  PROVE At(s, HP!HeadersEnd, i) <=>
          /\ i + 4 <= Len(s) /\ s[i + 1] = HP!CR /\ s[i + 2] = HP!LF /\ s[i + 3] = HP!CR
             /\ s[i + 4] = HP!LF
<1>1. Len(HP!HeadersEnd) = 4 /\ \A j \in 1 .. 4 : j = 1 \/ j = 2 \/ j = 3 \/ j = 4
  BY Ends
<1>2. 1 \in 1 .. 4 /\ 2 \in 1 .. 4 /\ 3 \in 1 .. 4 /\ 4 \in 1 .. 4
  OBVIOUS
<1>3. (\A j \in 1 .. 4 : s[i + j] = HP!HeadersEnd[j]) <=>
        /\ s[i + 1] = HP!HeadersEnd[1] /\ s[i + 2] = HP!HeadersEnd[2]
        /\ s[i + 3] = HP!HeadersEnd[3] /\ s[i + 4] = HP!HeadersEnd[4]
  BY <1>1, <1>2
<1>4. QED BY <1>1, <1>3, Ends DEF At

\* Where a NUL is.
LEMMA NulAt == ASSUME NEW s \in HP!Text, NEW i \in Nat
  PROVE At(s, <<HP!NUL>>, i) <=> i + 1 <= Len(s) /\ s[i + 1] = HP!NUL
  BY Ends DEF At

\* A text b whose headers end at f has headers, or none come behind that end.
Plain(b, f) ==
  HP!Find(b, HP!Endline, 0) = f =>
    HP!Find(HP!RemovePrefix(b, f + 2), HP!HeadersEnd, 0) = HP!Npos

\* The parts of a text that has the end of its headers at f.
LEMMA HeadersAt ==
  ASSUME NEW s \in HP!Text, NEW f \in Nat, f = HP!Find(s, HP!HeadersEnd, 0)
  PROVE  /\ At(s, HP!HeadersEnd, f) /\ \A i \in Nat : At(s, HP!HeadersEnd, i) => f <= i
         /\ HP!Find(s, HP!Endline, 0) \in Nat
         /\ At(s, HP!Endline, HP!Find(s, HP!Endline, 0))
         /\ HP!Find(s, HP!Endline, 0) = f \/ HP!Find(s, HP!Endline, 0) + 2 <= f
<1>1. At(s, HP!HeadersEnd, f) /\ \A i \in Nat : At(s, HP!HeadersEnd, i) => f <= i
  <2>1. f # HP!Npos /\ 0 \in Nat /\ \A i \in Nat : 0 <= i
    BY DEF HP!Npos
  <2>2. HP!HeadersEnd \in HP!Text
    BY Ends
  <2>3. QED BY <2>1, <2>2, FoundIs
<1>2. f + 4 <= Len(s) /\ s[f + 1] = HP!CR /\ s[f + 2] = HP!LF
  BY <1>1, HeadersEndAt
<1>3. Len(s) \in Nat
  BY CharIs
<1>4. At(s, HP!Endline, f)
  <2>1. f + 2 <= Len(s)
    BY <1>2, <1>3
  <2>2. QED BY <1>2, <2>1, EndlineAt
<1>5. PICK e : e = HP!Find(s, HP!Endline, 0)
  OBVIOUS
<1>6. e \in Nat /\ At(s, HP!Endline, e) /\ e <= f
  <2>1. 0 \in Nat /\ 0 <= f /\ HP!Endline \in HP!Text
    BY Ends
  <2>2. QED BY <1>4, <1>5, <2>1, FoundIs
<1>7. e + 1 # f
  <2>1. e + 1 = f => s[e + 2] = s[f + 1]
    <3>1. e + 1 = f => e + 2 = f + 1
      BY <1>6
    <3>2. QED BY <3>1
  <2>2. s[e + 2] = HP!LF
    BY <1>6, EndlineAt
  <2>3. QED BY <1>2, <2>1, <2>2, Ends
<1>8. e = f \/ e + 2 <= f
  BY <1>6, <1>7
<1>9. QED BY <1>1, <1>5, <1>6, <1>8

\* The headers of a text s that ends them at f and its first line at e: the same
\* in whatever has come of the text behind that end.
LEMMA HeadersViewFrom ==
  ASSUME NEW s \in HP!Text, NEW b \in HP!Text, Begins(b, s), NEW f \in Nat, NEW e \in Nat,
         f + 4 <= Len(b), At(s, HP!HeadersEnd, f), \A i \in Nat : At(s, HP!HeadersEnd, i)
             => f <= i,
         e = f \/ e + 2 <= f, Plain(b, f), HP!Find(b, HP!Endline, 0) = e
  PROVE  RC!HeadersView(b) = SubSeq(s, e + 3, IF e = f THEN f + 3 ELSE f + 2)
<1>1. Len(s) \in Nat /\ Len(b) \in Nat /\ Len(b) <= Len(s)
  BY CharIs DEF Begins
<1>2. /\ At(s, HP!HeadersEnd, f) /\ \A i \in Nat : At(s, HP!HeadersEnd, i) => f <= i
      /\ (e = f \/ e + 2 <= f)
  OBVIOUS
<1>3. HP!Find(b, HP!Endline, 0) = e
  OBVIOUS
<1>4. PICK view : view = HP!RemovePrefix(b, e + 2)
  OBVIOUS
<1>5. /\ view \in HP!Text /\ Len(view) = Len(b) - (e + 2)
      /\ \A i \in 1 .. Len(view) : view[i] = s[e + 2 + i]
  <2>1. e + 2 \in Nat /\ e + 2 <= Len(b) /\ Len(b) <= Len(b) /\ e + 2 + 1 \in Nat \ {0}
      /\ Len(b) \in Int
    BY <1>1, <1>2
  <2>2. view \in HP!Text /\ Len(view) = Len(b) - (e + 2)
    BY <1>4, <2>1, RemovePrefixIs
  <2>3. \A i \in 1 .. Len(b) - (e + 2 + 1) + 1 : view[i] = b[e + 2 + 1 + i - 1]
    BY <1>4, <2>1, SubSeqIs DEF HP!RemovePrefix
  <2>4. ASSUME NEW i \in 1 .. Len(view) PROVE view[i] = s[e + 2 + i]
    <3>1. i \in 1 .. Len(b) - (e + 2 + 1) + 1 /\ e + 2 + 1 + i - 1 = e + 2 + i
      BY <1>1, <2>2
    <3>2. e + 2 + i \in 1 .. Len(b)
      BY <1>1, <2>2
    <3>3. QED BY <2>3, <3>1, <3>2 DEF Begins
  <2>5. QED BY <2>2, <2>4
<1>6. Len(view) \in Nat
  BY <1>5, CharIs
<1>7. \A i \in Nat : At(view, HP!HeadersEnd, i) => At(s, HP!HeadersEnd, e + 2 + i)
  <2>1. TAKE i \in Nat
  <2>2. HAVE At(view, HP!HeadersEnd, i)
  <2>3. /\ i + 4 <= Len(view) /\ view[i + 1] = HP!CR /\ view[i + 2] = HP!LF
        /\ view[i + 3] = HP!CR /\ view[i + 4] = HP!LF
    BY <1>5, <2>2, HeadersEndAt
  <2>4. /\ i + 1 \in 1 .. Len(view) /\ i + 2 \in 1 .. Len(view)
        /\ i + 3 \in 1 .. Len(view) /\ i + 4 \in 1 .. Len(view)
    BY <1>6, <2>3
  <2>5. /\ s[e + 2 + (i + 1)] = HP!CR /\ s[e + 2 + (i + 2)] = HP!LF
        /\ s[e + 2 + (i + 3)] = HP!CR /\ s[e + 2 + (i + 4)] = HP!LF
    BY <1>5, <2>3, <2>4
  <2>6. PICK k \in Nat : k = e + 2 + i
    OBVIOUS
  <2>7. e + 2 + (i + 1) = k + 1 /\ e + 2 + (i + 2) = k + 2 /\ e + 2 + (i + 3) = k + 3
      /\ e + 2 + (i + 4) = k + 4
    BY <2>6
  <2>8. k + 4 <= Len(s)
    BY <1>1, <1>5, <2>3, <2>6
  <2>9. At(s, HP!HeadersEnd, k)
    BY <2>5, <2>7, <2>8, HeadersEndAt
  <2>10. QED BY <2>6, <2>9
<1>8. RC!HeadersView(b) = HP!Substr(view, 0, HP!Find(view, HP!HeadersEnd, 0) + 2)
  BY <1>3, <1>4, Ends, SameViews DEF RC!HeadersView
<1>9. PICK n : n = HP!Find(view, HP!HeadersEnd, 0) + 2
  OBVIOUS
<1>10. n = IF e = f THEN 1 ELSE f - e
  <2>1. CASE e = f
    <3>4. HP!Find(view, HP!HeadersEnd, 0) = HP!Npos
      BY <1>3, <1>4, <2>1 DEF Plain
    <3>5. QED BY <1>9, <2>1, <3>4 DEF HP!Npos
  <2>2. CASE e # f
    <3>1. PICK j \in Nat : j = f - (e + 2)
      BY <1>2, <2>2
    <3>2. e + 2 + j = f
      BY <3>1
    <3>3. At(view, HP!HeadersEnd, j)
      <4>1. /\ j + 1 \in 1 .. Len(view) /\ j + 2 \in 1 .. Len(view)
            /\ j + 3 \in 1 .. Len(view) /\ j + 4 \in 1 .. Len(view) /\ j + 4 <= Len(view)
        BY <1>1, <1>5, <1>6, <3>1
      <4>2. /\ s[f + 1] = HP!CR /\ s[f + 2] = HP!LF /\ s[f + 3] = HP!CR /\ s[f + 4] = HP!LF
        BY <1>2, HeadersEndAt
      <4>3. e + 2 + (j + 1) = f + 1 /\ e + 2 + (j + 2) = f + 2 /\ e + 2 + (j + 3) = f + 3
          /\ e + 2 + (j + 4) = f + 4
        BY <3>2
      <4>4. view[j + 1] = HP!CR /\ view[j + 2] = HP!LF /\ view[j + 3] = HP!CR
          /\ view[j + 4] = HP!LF
        BY <1>5, <4>1, <4>2, <4>3
      <4>5. QED BY <1>5, <4>1, <4>4, HeadersEndAt
    <3>4. PICK g : g = HP!Find(view, HP!HeadersEnd, 0)
      OBVIOUS
    <3>5. g \in Nat /\ At(view, HP!HeadersEnd, g) /\ g <= j
      <4>1. 0 \in Nat /\ HP!HeadersEnd \in HP!Text /\ 0 <= j
        BY Ends
      <4>2. QED BY <1>5, <3>3, <3>4, <4>1, FoundIs
    <3>6. f <= e + 2 + g
      <4>1. e + 2 + g \in Nat
        BY <3>5
      <4>2. QED BY <1>2, <1>7, <3>5, <4>1
    <3>7. g = j
      BY <3>2, <3>5, <3>6
    <3>8. QED BY <1>9, <2>2, <3>1, <3>4, <3>7
  <2>3. QED BY <2>1, <2>2
<1>11. n \in Nat /\ n <= Len(view) /\ n # HP!Npos
  BY <1>1, <1>2, <1>5, <1>10 DEF HP!Npos
<1>12. PICK h : h = SubSeq(view, 1, n)
  OBVIOUS
<1>13. RC!HeadersView(b) = h
  <2>1. 0 + 1 = 1 /\ 0 + n = n /\ ~(n > Len(view))
    BY <1>6, <1>11
  <2>2. QED BY <1>8, <1>9, <1>11, <1>12, <2>1 DEF HP!Substr
<1>14. h \in HP!Text /\ Len(h) = n /\ \A i \in 1 .. n : h[i] = s[e + 2 + i]
  <2>1. /\ h \in HP!Text /\ Len(h) = IF 1 <= n THEN n - 1 + 1 ELSE 0
        /\ \A i \in 1 .. n - 1 + 1 : h[i] = view[1 + i - 1]
    BY <1>5, <1>11, <1>12, SubSeqIs
  <2>2. n - 1 + 1 = n /\ (IF 1 <= n THEN n - 1 + 1 ELSE 0) = n
    BY <1>11
  <2>3. \A i \in 1 .. n : 1 + i - 1 = i /\ i \in 1 .. Len(view)
    BY <1>6, <1>11
  <2>4. QED BY <1>5, <2>1, <2>2, <2>3
<1>15. PICK l : l = IF e = f THEN f + 3 ELSE f + 2
  OBVIOUS
<1>16. l \in Int /\ l <= Len(s) /\ l - (e + 3) + 1 = n /\ e + 3 \in Nat \ {0}
  BY <1>1, <1>2, <1>10, <1>15
<1>17. PICK g : g = SubSeq(s, e + 3, l)
  OBVIOUS
<1>18. g \in HP!Text /\ Len(g) = n /\ \A i \in 1 .. n : g[i] = s[e + 2 + i]
  <2>1. /\ g \in HP!Text /\ Len(g) = IF e + 3 <= l THEN l - (e + 3) + 1 ELSE 0
        /\ \A i \in 1 .. l - (e + 3) + 1 : g[i] = s[e + 3 + i - 1]
    <3>1. PICK m \in Nat \ {0} : m = e + 3
      BY <1>16
    <3>0. l \in Int /\ l <= Len(s)
      BY <1>16
    <3>2. /\ SubSeq(s, m, l) \in HP!Text
             /\ Len(SubSeq(s, m, l)) = IF m <= l THEN l - m + 1 ELSE 0
          /\ \A i \in 1 .. l - m + 1 : SubSeq(s, m, l)[i] = s[m + i - 1]
      BY <3>0, SubSeqIs
    <3>3. g = SubSeq(s, m, l)
      BY <1>17, <3>1
    <3>4. QED BY <3>1, <3>2, <3>3
  <2>2. (IF e + 3 <= l THEN l - (e + 3) + 1 ELSE 0) = n
    BY <1>11, <1>16
  <2>3. \A i \in 1 .. n : e + 3 + i - 1 = e + 2 + i
    BY <1>11
  <2>4. QED BY <1>16, <2>1, <2>2, <2>3
<1>19. h = g
  BY <1>14, <1>18, SameTexts
<1>20. QED BY <1>13, <1>15, <1>17, <1>19

\* split_until_body finds the same headers in whatever has come of a text behind
\* their end.
LEMMA HeadersViewIs ==
  ASSUME NEW s \in HP!Text, NEW b \in HP!Text, Begins(b, s), NEW f \in Nat,
         f = HP!Find(s, HP!HeadersEnd, 0),
         f + 4 <= Len(b), Plain(b, f)
  PROVE  \E e \in Nat : /\ e = HP!Find(s, HP!Endline, 0)
                        /\ RC!HeadersView(b) = SubSeq(s, e + 3, IF e = f THEN f + 3
                           ELSE f + 2)
<1>1. PICK e \in Nat : e = HP!Find(s, HP!Endline, 0)
  BY HeadersAt
<1>2. /\ At(s, HP!HeadersEnd, f) /\ \A i \in Nat : At(s, HP!HeadersEnd, i) => f <= i
      /\ At(s, HP!Endline, e) /\ (e = f \/ e + 2 <= f)
  BY <1>1, HeadersAt
<1>3. HP!Find(b, HP!Endline, 0) = e
  <2>1. Len(b) \in Nat
    BY CharIs
  <2>2. 0 \in Nat /\ 0 <= e /\ HP!Endline \in HP!Text /\ e + 2 <= Len(b)
      /\ Len(HP!Endline) = 2
    BY <1>2, <2>1, Ends
  <2>3. QED BY <1>1, <2>2, FoundInBeginning
<1>4. RC!HeadersView(b) = SubSeq(s, e + 3, IF e = f THEN f + 3 ELSE f + 2)
  BY <1>2, <1>3, HeadersViewFrom
<1>5. QED BY <1>1, <1>4

\* A text without headers of its own, and with others behind, has an empty line.
LEMMA EmptyLineIs ==
  ASSUME NEW b \in HP!Text, NEW f \in Nat, At(b, HP!HeadersEnd, f), ~Plain(b, f)
  PROVE  RC!HasEmptyLine(b)
<1>1. HP!Find(b, HP!Endline, 0) = f /\ Len(b) \in Nat
  BY CharIs DEF Plain
<1>2. /\ f + 4 <= Len(b) /\ b[f + 3] = HP!CR /\ b[f + 4] = HP!LF
  BY HeadersEndAt
<1>3. PICK view : view = HP!RemovePrefix(b, f + 2)
  OBVIOUS
<1>4. /\ view \in HP!Text /\ Len(view) = Len(b) - (f + 2) /\ Len(view) \in Nat
      /\ view[1] = HP!CR /\ view[2] = HP!LF
  <2>1. f + 2 \in Nat /\ f + 2 <= Len(b) /\ f + 3 \in Nat \ {0} /\ Len(b) \in Int
    BY <1>1, <1>2
  <2>2. view \in HP!Text /\ Len(view) = Len(b) - (f + 2)
    BY <1>3, <2>1, RemovePrefixIs
  <2>3. \A i \in 1 .. Len(b) - (f + 3) + 1 : view[i] = b[f + 3 + i - 1]
    <3>1. view = SubSeq(b, f + 3, Len(b)) /\ Len(b) <= Len(b)
      BY <1>1, <1>3 DEF HP!RemovePrefix
    <3>2. QED BY <2>1, <3>1, SubSeqIs
  <2>4. 1 \in 1 .. Len(b) - (f + 3) + 1 /\ 2 \in 1 .. Len(b) - (f + 3) + 1
    BY <1>1, <1>2
  <2>5. view[1] = b[f + 3 + 1 - 1] /\ view[2] = b[f + 3 + 2 - 1]
    BY <2>3, <2>4
  <2>6. f + 3 + 1 - 1 = f + 3 /\ f + 3 + 2 - 1 = f + 4
    OBVIOUS
  <2>7. QED BY <1>2, <2>2, <2>5, <2>6, CharIs
<1>5. PICK g : g = HP!Find(view, HP!HeadersEnd, 0)
  OBVIOUS
<1>6. g \in Nat /\ g + 4 <= Len(view)
  <2>1. g # HP!Npos
    BY <1>1, <1>3, <1>5 DEF Plain
  <2>2. HP!HeadersEnd \in HP!Text /\ Len(HP!HeadersEnd) = 4 /\ 0 \in Nat
    BY Ends
  <2>3. QED BY <1>4, <1>5, <2>1, <2>2, FindIs
<1>7. PICK h : h = HP!Substr(view, 0, g + 2)
  OBVIOUS
<1>8. h \in HP!Text /\ Len(h) = g + 2 /\ h[1] = HP!CR /\ h[2] = HP!LF
  <2>1. PICK m \in Nat : m = g + 2
    BY <1>6
  <2>2. h = SubSeq(view, 1, m)
    <3>1. ~(m = HP!Npos \/ 0 + m > Len(view)) /\ 0 + m = m /\ 0 + 1 = 1
      BY <1>4, <1>6, <2>1 DEF HP!Npos
    <3>2. QED BY <1>7, <2>1, <3>1 DEF HP!Substr
  <2>3. m \in Int /\ m <= Len(view) /\ 1 \in Nat \ {0} /\ 2 <= m
    BY <1>4, <1>6, <2>1
  <2>4. /\ h \in HP!Text /\ Len(h) = IF 1 <= m THEN m - 1 + 1 ELSE 0
        /\ \A i \in 1 .. m - 1 + 1 : h[i] = view[1 + i - 1]
    BY <1>4, <2>2, <2>3, SubSeqIs
  <2>5. 1 \in 1 .. m - 1 + 1 /\ 2 \in 1 .. m - 1 + 1 /\ m - 1 + 1 = m
    BY <2>3
  <2>6. h[1] = view[1] /\ h[2] = view[2]
    <3>1. h[1] = view[1 + 1 - 1] /\ h[2] = view[1 + 2 - 1]
      BY <2>4, <2>5
    <3>2. QED BY <3>1
  <2>7. QED BY <1>4, <2>1, <2>3, <2>4, <2>5, <2>6
<1>9. RC!HeadersView(b) = h
  BY <1>1, <1>3, <1>5, <1>7, Ends, SameViews DEF RC!HeadersView
<1>10. HP!Find(h, HP!Endline, 0) = 0
  <2>1. At(h, HP!Endline, 0)
    <3>1. 0 + 2 <= Len(h) /\ h[0 + 1] = HP!CR /\ h[0 + 2] = HP!LF
      BY <1>6, <1>8
    <3>2. 0 \in Nat
      OBVIOUS
    <3>3. QED BY <1>8, <3>1, <3>2, EndlineAt
  <2>2. HP!Endline \in HP!Text /\ 0 \in Nat
    BY Ends
  <2>3. HP!Find(h, HP!Endline, 0) \in Nat /\ HP!Find(h, HP!Endline, 0) <= 0
    BY <1>8, <2>1, <2>2, FoundIs
  <2>4. QED BY <2>3
<1>11. QED BY <1>9, <1>10, SameViews DEF RC!HasEmptyLine

-----------------------------------------------------------------------------
\* What is read, in terms of the stream alone

SoFar(r) == IF r = <<>> THEN 0 ELSE r[Len(r)]

\* r has how much was read after each read.
Marks(r) ==
  /\ r \in Seq(Nat)
  /\ \A k \in 1 .. Len(r) : r[k] - (IF k = 1 THEN 0 ELSE r[k - 1]) \in 1 .. MaxRead

\* Behind the first n characters of s come a and b.
Divided(s, n, a, b) ==
  /\ n \in Nat /\ Len(s) = n + Len(a) + Len(b)
  /\ \A i \in 1 .. Len(a) : a[i] = s[n + i]
  /\ \A i \in 1 .. Len(b) : b[i] = s[n + Len(a) + i]

NulFree(s, n) == \A i \in 1 .. n : s[i] # HP!NUL

\* The buffer b has what was read of s up to the first NUL, and is not longer.
Kept(s, n, b) ==
  /\ Len(b) <= n
  /\ \A m \in 0 .. n : NulFree(s, m) => m <= Len(b) /\ \A i \in 1 .. m : b[i] = s[i]

\* What the constants of Receiver are.
LEMMA MaxReadIs == MaxRead \in Nat /\ MaxRead >= 1 /\ Streams \subseteq HP!Text
  BY StreamsAssumption DEF RC!ReceiverAssumption, HP!Text

\* A read adds one mark, behind the others.
LEMMA MarksMore == ASSUME NEW r, Marks(r), NEW m \in 1 .. MaxRead
  PROVE  /\ SoFar(r) \in Nat
         /\ Marks(Append(r, SoFar(r) + m)) /\ SoFar(Append(r, SoFar(r) + m)) = SoFar(r) + m
<1>1. r \in Seq(Nat) /\ Len(r) \in Nat /\ DOMAIN r = 1 .. Len(r) /\ MaxRead \in Nat
    /\ m \in Nat
  BY MaxReadIs DEF Marks
<1>2. SoFar(r) \in Nat
  BY <1>1 DEF SoFar
<1>0. PICK u \in Nat : u = SoFar(r)
  BY <1>2
<1>3. PICK v \in Nat : v = u + m
  BY <1>1
<1>4. PICK q : q = Append(r, v)
  OBVIOUS
<1>5. /\ q \in Seq(Nat) /\ Len(q) = Len(r) + 1 /\ q[Len(r) + 1] = v /\ q # <<>>
      /\ \A k \in 1 .. Len(r) : q[k] = r[k]
  BY <1>1, <1>4
<1>6. ASSUME NEW k \in 1 .. Len(q)
       PROVE q[k] - (IF k = 1 THEN 0 ELSE q[k - 1]) \in 1 .. MaxRead
  <2>1. CASE k \in 1 .. Len(r)
    <3>1. k # 1 => k - 1 \in 1 .. Len(r)
      BY <1>1, <2>1
    <3>2. q[k] = r[k] /\ (k # 1 => q[k - 1] = r[k - 1])
      BY <1>5, <2>1, <3>1
    <3>3. r[k] - (IF k = 1 THEN 0 ELSE r[k - 1]) \in 1 .. MaxRead
      BY <2>1 DEF Marks
    <3>4. QED BY <3>2, <3>3
  <2>2. CASE k \notin 1 .. Len(r)
    <3>1. k = Len(r) + 1
      BY <1>1, <1>5, <2>2
    <3>2. CASE r = <<>>
      <4>1. k = 1 /\ q[k] = v /\ u = 0 /\ v = m
        BY <1>0, <1>1, <1>3, <1>5, <3>1, <3>2 DEF SoFar
      <4>2. QED BY <1>1, <4>1
    <3>3. CASE r # <<>>
      <4>1. Len(r) >= 1
        BY <1>1, <3>3
      <4>2. k # 1 /\ k - 1 = Len(r) /\ Len(r) \in 1 .. Len(r)
        BY <1>1, <3>1, <4>1
      <4>3. q[k - 1] = u /\ q[k] = v
        BY <1>0, <1>5, <3>1, <3>3, <4>2 DEF SoFar
      <4>4. v - u = m
        BY <1>1, <1>3
      <4>5. QED BY <4>2, <4>3, <4>4
    <3>4. QED BY <3>2, <3>3
  <2>3. QED BY <2>1, <2>2
<1>7. SoFar(q) = v
  BY <1>5 DEF SoFar
<1>8. QED BY <1>0, <1>2, <1>3, <1>4, <1>5, <1>6, <1>7 DEF Marks

\* The beginning of a text.
LEMMA BeginningIs == ASSUME NEW s \in HP!Text, NEW n \in Nat \cup {HP!Npos}
  PROVE  /\ HP!Substr(s, 0, n) \in HP!Text /\ Begins(HP!Substr(s, 0, n), s)
         /\ Len(HP!Substr(s, 0, n)) = IF n = HP!Npos \/ n > Len(s) THEN Len(s) ELSE n
<1>1. Len(s) \in Nat
  BY CharIs
<1>2. PICK k \in Nat : k = IF n = HP!Npos \/ n > Len(s) THEN Len(s) ELSE n
  BY <1>1
<1>3. k <= Len(s)
  BY <1>1, <1>2
<1>4. HP!Substr(s, 0, n) = SubSeq(s, 1, k)
  <2>1. n # HP!Npos => 0 + n = n
    OBVIOUS
  <2>2. QED BY <1>2, <2>1 DEF HP!Substr
<1>5. PICK t : t = SubSeq(s, 1, k)
  OBVIOUS
<1>6. /\ t \in HP!Text /\ Len(t) = IF 1 <= k THEN k - 1 + 1 ELSE 0
      /\ \A i \in 1 .. k - 1 + 1 : t[i] = s[1 + i - 1]
  BY <1>3, <1>5, SubSeqIs
<1>7. Len(t) = k /\ \A i \in 1 .. k : t[i] = s[i]
  <2>1. k - 1 + 1 = k /\ (IF 1 <= k THEN k ELSE 0) = k /\ \A i \in 1 .. k : 1 + i - 1 = i
    OBVIOUS
  <2>2. QED BY <1>6, <2>1
<1>8. QED BY <1>2, <1>3, <1>4, <1>5, <1>6, <1>7 DEF Begins

\* What remove_prefix leaves, character by character.
LEMMA BehindIs == ASSUME NEW s \in HP!Text, NEW n \in Nat, n <= Len(s)
  PROVE  /\ HP!RemovePrefix(s, n) \in HP!Text /\ Len(HP!RemovePrefix(s, n)) = Len(s) - n
         /\ \A i \in 1 .. Len(s) - n : HP!RemovePrefix(s, n)[i] = s[n + i]
<1>1. Len(s) \in Nat
  BY CharIs
<1>2. PICK m \in Nat \ {0} : m = n + 1
  OBVIOUS
<1>3. PICK t : t = SubSeq(s, m, Len(s))
  OBVIOUS
<1>4. /\ t \in HP!Text /\ Len(t) = IF m <= Len(s) THEN Len(s) - m + 1 ELSE 0
      /\ \A i \in 1 .. Len(s) - m + 1 : t[i] = s[m + i - 1]
  <2>1. Len(s) \in Int /\ Len(s) <= Len(s)
    BY <1>1
  <2>2. QED BY <1>3, <2>1, SubSeqIs
<1>5. Len(s) - m + 1 = Len(s) - n /\ (IF m <= Len(s) THEN Len(s) - m + 1 ELSE 0) = Len(s) - n
  BY <1>1, <1>2
<1>6. \A i \in 1 .. Len(s) - n : m + i - 1 = n + i
  BY <1>1, <1>2
<1>7. HP!RemovePrefix(s, n) = t
  BY <1>2, <1>3 DEF HP!RemovePrefix
<1>8. QED BY <1>4, <1>5, <1>6, <1>7

\* A read takes the next part of the stream.
LEMMA TakenIs ==
  ASSUME NEW s \in HP!Text, NEW a \in HP!Text, NEW b \in HP!Text, NEW n, Divided(s, n, a, b),
         NEW k, k = HP!Substr(a, 0, MaxRead)
  PROVE  /\ n \in Nat /\ k \in HP!Text /\ Len(k) \in Nat /\ Len(k) <= MaxRead
            /\ n + Len(k) <= Len(s)
         /\ \A i \in 1 .. Len(k) : k[i] = s[n + i]
         /\ HP!RemovePrefix(a, Len(k)) \in HP!Text
         /\ Divided(s, n + Len(k), HP!RemovePrefix(a, Len(k)), b)
<1>1. /\ n \in Nat /\ Len(s) \in Nat /\ Len(a) \in Nat /\ Len(b) \in Nat
      /\ Len(s) = n + Len(a) + Len(b) /\ MaxRead \in Nat
  BY CharIs, MaxReadIs DEF Divided
<1>2. k \in HP!Text /\ Begins(k, a) /\ Len(k) = IF MaxRead = HP!Npos
    \/ MaxRead > Len(a) THEN Len(a) ELSE MaxRead
  BY <1>1, BeginningIs
<1>3. Len(k) \in Nat /\ Len(k) <= MaxRead /\ Len(k) <= Len(a) /\ n + Len(k) <= Len(s)
  BY <1>1, <1>2 DEF HP!Npos
<1>4. \A i \in 1 .. Len(k) : k[i] = s[n + i]
  <2>1. \A i \in 1 .. Len(k) : k[i] = a[i] /\ i \in 1 .. Len(a)
    BY <1>1, <1>2, <1>3 DEF Begins
  <2>2. QED BY <2>1 DEF Divided
<1>5. PICK c : c = HP!RemovePrefix(a, Len(k))
  OBVIOUS
<1>6. c \in HP!Text /\ Len(c) = Len(a) - Len(k)
    /\ \A i \in 1 .. Len(a) - Len(k) : c[i] = a[Len(k) + i]
  BY <1>3, <1>5, BehindIs
<1>7. PICK m \in Nat : m = n + Len(k)
  BY <1>1, <1>3
<1>8. Len(s) = m + Len(c) + Len(b) /\ m + Len(c) = n + Len(a)
  BY <1>1, <1>3, <1>6, <1>7
<1>9. ASSUME NEW i \in 1 .. Len(c) PROVE c[i] = s[m + i]
  <2>1. Len(k) + i \in 1 .. Len(a) /\ n + (Len(k) + i) = m + i /\ i \in 1 .. Len(a) - Len(k)
    BY <1>1, <1>3, <1>6, <1>7
  <2>2. c[i] = a[Len(k) + i] /\ a[Len(k) + i] = s[n + (Len(k) + i)]
    BY <1>6, <2>1 DEF Divided
  <2>3. QED BY <2>1, <2>2
<1>10. \A i \in 1 .. Len(b) : b[i] = s[m + Len(c) + i]
  BY <1>8 DEF Divided
<1>11. Divided(s, m, c, b)
  BY <1>8, <1>9, <1>10 DEF Divided
<1>12. QED BY <1>1, <1>2, <1>3, <1>4, <1>5, <1>6, <1>7, <1>11

\* NUL ends what append takes.
LEMMA NulIs == ASSUME NEW k \in HP!Text
  PROVE  \/ HP!Find(k, <<HP!NUL>>, 0) = HP!Npos /\ NulFree(k, Len(k))
         \/ /\ HP!Find(k, <<HP!NUL>>, 0) \in Nat /\ HP!Find(k, <<HP!NUL>>, 0) < Len(k)
            /\ k[HP!Find(k, <<HP!NUL>>, 0) + 1] = HP!NUL
<1>1. PICK t : t = <<HP!NUL>> /\ t \in HP!Text
  BY Ends
<1>2. PICK f : f = HP!Find(k, t, 0)
  OBVIOUS
<1>3. \/ f = HP!Npos /\ \A i \in Nat : 0 <= i => ~At(k, t, i)
      \/ f \in Nat /\ At(k, t, f)
  <2>1. 0 \in Nat
    OBVIOUS
  <2>2. QED BY <1>1, <1>2, <2>1, FoundIs
<1>4. CASE f = HP!Npos /\ \A i \in Nat : 0 <= i => ~At(k, t, i)
  <2>1. Len(k) \in Nat
    BY CharIs
  <2>2. ASSUME NEW i \in 1 .. Len(k) PROVE k[i] # HP!NUL
    <3>1. i - 1 \in Nat /\ i - 1 + 1 = i /\ 0 <= i - 1 /\ i <= Len(k)
      BY <2>1
    <3>2. ~At(k, t, i - 1)
      BY <1>4, <3>1
    <3>3. PICK j \in Nat : j = i - 1
      BY <3>1
    <3>4. j + 1 = i /\ ~At(k, <<HP!NUL>>, j)
      BY <1>1, <3>1, <3>2, <3>3
    <3>5. QED BY <3>1, <3>4, NulAt
  <2>3. QED BY <1>1, <1>2, <1>4, <2>2 DEF NulFree
<1>5. CASE f \in Nat /\ At(k, t, f)
  <2>1. f + 1 <= Len(k) /\ k[f + 1] = HP!NUL
    BY <1>1, <1>5, NulAt
  <2>2. Len(k) \in Nat
    BY CharIs
  <2>3. f < Len(k)
    BY <1>5, <2>1, <2>2
  <2>4. QED BY <1>1, <1>2, <1>5, <2>1, <2>3
<1>6. QED BY <1>3, <1>4, <1>5

\* What is appended keeps to the stream, and is its beginning while there was no NUL.
LEMMA AppendedIs ==
  ASSUME NEW s \in HP!Text, NEW b \in HP!Text, NEW k \in HP!Text, NEW n \in Nat,
         Kept(s, n, b),
         n + Len(k) <= Len(s), \A i \in 1 .. Len(k) : k[i] = s[n + i],
         NEW a, a = b \o HP!Substr(k, 0, HP!Find(k, <<HP!NUL>>, 0))
  PROVE  /\ a \in HP!Text /\ Kept(s, n + Len(k), a) /\ Len(b) <= Len(a)
         /\ NulFree(s, n) => Begins(a, s)
<1>1. Len(s) \in Nat /\ Len(b) \in Nat /\ Len(k) \in Nat /\ Len(b) <= n
  BY CharIs DEF Kept
<1>2. PICK z : z = HP!Find(k, <<HP!NUL>>, 0)
  OBVIOUS
<1>3. (z = HP!Npos /\ NulFree(k, Len(k))) \/ (z \in Nat /\ z < Len(k) /\ k[z + 1] = HP!NUL)
  BY <1>2, NulIs
<1>4. PICK c : c = HP!Substr(k, 0, z)
  OBVIOUS
<1>5. c \in HP!Text /\ Begins(c, k) /\ Len(c) = IF z = HP!Npos
    \/ z > Len(k) THEN Len(k) ELSE z
  BY <1>3, <1>4, BeginningIs
<1>6. Len(c) \in Nat /\ Len(c) <= Len(k) /\ \A i \in 1 .. Len(c) : c[i] = k[i]
    /\ i \in 1 .. Len(k)
  <2>1. Len(c) \in Nat /\ Len(c) <= Len(k)
    BY <1>1, <1>3, <1>5 DEF HP!Npos
  <2>2. QED BY <1>1, <1>5, <2>1 DEF Begins
<1>7. /\ a \in HP!Text /\ Len(a) = Len(b) + Len(c) /\ \A i \in 1 .. Len(b) : a[i] = b[i]
      /\ \A i \in 1 .. Len(c) : a[Len(b) + i] = c[i]
  <2>1. a = b \o c
    BY <1>2, <1>4
  <2>2. /\ b \o c \in HP!Text /\ Len(b \o c) = Len(b) + Len(c)
        /\ \A i \in 1 .. Len(b) : (b \o c)[i] = b[i]
        /\ \A i \in 1 .. Len(c) : (b \o c)[Len(b) + i] = c[i]
    BY <1>5, TextsJoined
  <2>3. QED BY <2>1, <2>2
<1>8. ASSUME NulFree(s, n) PROVE Len(b) = n /\ \A i \in 1 .. n : b[i] = s[i]
  <2>1. n \in 0 .. n
    OBVIOUS
  <2>2. n <= Len(b) /\ \A i \in 1 .. n : b[i] = s[i]
    BY <1>8, <2>1 DEF Kept
  <2>3. QED BY <1>1, <2>2
<1>9. ASSUME NulFree(s, n) PROVE Begins(a, s)
  <2>0. Len(b) = n /\ Len(a) = n + Len(c) /\ Len(c) \in Nat
    BY <1>6, <1>7, <1>8, <1>9
  <2>1. Len(a) <= Len(s)
    <3>1. n + Len(k) <= Len(s) /\ Len(c) <= Len(k) /\ Len(k) \in Nat /\ Len(s) \in Nat
      BY <1>1, <1>6
    <3>2. QED BY <2>0, <3>1
  <2>2. ASSUME NEW i \in 1 .. Len(a) PROVE a[i] = s[i]
    <3>1. CASE i \in 1 .. n
      BY <1>7, <1>8, <1>9, <3>1
    <3>2. CASE i \notin 1 .. n
      <4>1. PICK j \in 1 .. Len(c) : i = n + j
        <5>1. i - n \in 1 .. Len(c) /\ i = n + (i - n)
          BY <2>0, <2>2, <3>2
        <5>2. QED BY <5>1
      <4>2. a[n + j] = c[j] /\ c[j] = k[j] /\ k[j] = s[n + j]
        <5>1. a[Len(b) + j] = c[j]
          BY <1>7
        <5>2. c[j] = k[j] /\ j \in 1 .. Len(k)
          BY <1>6
        <5>3. QED BY <2>0, <5>1, <5>2
      <4>3. QED BY <4>1, <4>2
    <3>3. QED BY <3>1, <3>2
  <2>3. QED BY <2>1, <2>2 DEF Begins
<1>10. ASSUME NEW m \in 0 .. n + Len(k), NulFree(s, m)
       PROVE  m <= Len(a) /\ \A i \in 1 .. m : a[i] = s[i]
  <2>1. CASE m <= n
    <3>1. m \in 0 .. n
      BY <1>1, <2>1
    <3>2. m <= Len(b) /\ \A i \in 1 .. m : b[i] = s[i]
      BY <1>10, <3>1 DEF Kept
    <3>3. \A i \in 1 .. m : i \in 1 .. Len(b)
      BY <1>1, <3>1, <3>2
    <3>4. m <= Len(a)
      <4>1. Len(b) \in Nat /\ Len(c) \in Nat
        BY <1>1, <1>6
      <4>2. Len(a) = Len(b) + Len(c)
        BY <1>7
      <4>3. m \in Int /\ m <= Len(b)
        BY <3>1, <3>2
      <4>4. QED BY <4>1, <4>2, <4>3
    <3>5. QED BY <1>7, <3>2, <3>3, <3>4
  <2>2. CASE ~(m <= n)
    <3>1. \A i \in 1 .. n : i \in 1 .. m
      BY <1>1, <2>2
    <3>2. NulFree(s, n)
      BY <1>10, <3>1 DEF NulFree
    <3>3. m - n <= Len(c)
      <4>1. CASE z = HP!Npos
        BY <1>1, <1>5, <1>10, <4>1
      <4>2. CASE z \in Nat /\ z < Len(k) /\ k[z + 1] = HP!NUL
        <5>1. z + 1 \in 1 .. Len(k) /\ Len(c) = z /\ z # HP!Npos
          BY <1>1, <1>5, <4>2 DEF HP!Npos
        <5>2. s[n + (z + 1)] = HP!NUL
          BY <4>2, <5>1
        <5>3. n + (z + 1) \notin 1 .. m
          BY <1>10, <5>2 DEF NulFree
        <5>4. QED BY <1>1, <4>2, <5>1, <5>3
      <4>3. QED BY <1>3, <4>1, <4>2
    <3>4. m <= Len(a)
      <4>1. Len(b) = n /\ Len(a) = Len(b) + Len(c) /\ Len(c) \in Nat
        BY <1>6, <1>7, <1>8, <3>2
      <4>2. QED BY <1>1, <3>3, <4>1
    <3>5. \A i \in 1 .. m : i \in 1 .. Len(a)
      <4>1. Len(a) \in Nat /\ m \in Int
        BY <1>7, CharIs
      <4>2. QED BY <3>4, <4>1
    <3>6. QED BY <1>9, <3>2, <3>4, <3>5 DEF Begins
  <2>3. QED BY <2>1, <2>2
<1>11. Len(a) <= n + Len(k) /\ Len(b) <= Len(a)
  BY <1>1, <1>6, <1>7
<1>12. QED BY <1>7, <1>9, <1>10, <1>11 DEF Kept

-----------------------------------------------------------------------------
\* What the client meant, for a stream s

EndOf(s) == HP!Find(s, HP!HeadersEnd, 0)
MeantOf(s) == RC!Declared(HP!Substr(s, 0, EndOf(s) + 4))
RequestOf(s) == EndOf(s) + 4 + (IF MeantOf(s) \in {HP!Npos, NoNumber} THEN 0 ELSE MeantOf(s))
Whole(s) ==
  HP!Find(HP!Substr(s, 0, IF EndOf(s) = HP!Npos THEN HP!Npos ELSE RequestOf(s)),
      <<HP!NUL>>, 0) = HP!Npos
CutIn(s, r) == EndOf(s) # HP!Npos /\ \E k \in 1 .. Len(r) : r[k] - EndOf(s) \in 1 .. 3

\* What the properties suppose of a stream and the reads that cut it.
Fine(s, r) == ~CutIn(s, r) /\ Whole(s)

\* find_first_of finds nothing, or one of the characters.
LEMMA FoundInIs == ASSUME NEW s \in HP!Text, NEW C
  PROVE HP!FindIn(s, C, 0) = HP!Npos
         \/ (HP!FindIn(s, C, 0) \in Nat /\ s[HP!FindIn(s, C, 0) + 1] \in C)
<1> DEFINE P == {i \in 0 .. Len(s) - 1 : s[i + 1] \in C}
<1>1. Len(s) \in Nat
  BY CharIs
<1>2. P \in SUBSET Nat /\ HP!FindIn(s, C, 0) = HP!FirstOf(P) /\ HP!Npos \notin Nat
  BY <1>1 DEF HP!FindIn, HP!Npos
<1>3. \A i : i \in P => s[i + 1] \in C
  OBVIOUS
<1> HIDE DEF P
<1>4. CASE P = {} /\ HP!FirstOf(P) = HP!Npos
  BY <1>2, <1>4
<1>5. CASE HP!FirstOf(P) \in P
  BY <1>2, <1>3, <1>5
<1>6. QED BY <1>2, <1>4, <1>5, FirstIs

\* The end of the headers is none, or a position with room for it.
LEMMA EndIs == ASSUME NEW s \in HP!Text
  PROVE EndOf(s) = HP!Npos
         \/ (EndOf(s) \in Nat /\ EndOf(s) # HP!Npos /\ EndOf(s) + 4 <= Len(s))
<1>1. 0 \in Nat /\ HP!HeadersEnd \in HP!Text /\ Len(HP!HeadersEnd) = 4 /\ HP!Npos \notin Nat
  BY Ends DEF HP!Npos
<1>2. QED BY <1>1, FindIs DEF EndOf

\* The view of the headers is a text.
LEMMA HeadersViewText == ASSUME NEW b \in HP!Text PROVE RC!HeadersView(b) \in HP!Text
<1>1. \A t \in {HP!Endline, HP!HeadersEnd} : \A u \in HP!Text : HP!Find(u, t, 0) + 2 \in Nat
  <2>1. TAKE t \in {HP!Endline, HP!HeadersEnd}
  <2>2. TAKE u \in HP!Text
  <2>3. 0 \in Nat /\ t \in HP!Text
    BY Ends
  <2>4. HP!Find(u, t, 0) = HP!Npos \/ HP!Find(u, t, 0) \in Nat
    BY <2>3, FindIs
  <2>5. QED BY <2>4 DEF HP!Npos
<1>2. PICK v : v = HP!RemovePrefix(b, HP!Find(b, HP!Endline, 0) + 2)
  OBVIOUS
<1>3. v \in HP!Text
  BY <1>1, <1>2, RemovePrefixIs
<1>4. HP!Find(v, HP!HeadersEnd, 0) + 2 \in Nat /\ 0 \in Nat
  BY <1>1, <1>3
<1>5. HP!Substr(v, 0, HP!Find(v, HP!HeadersEnd, 0) + 2) \in HP!Text
  BY <1>3, <1>4, SubstrIs
<1>6. QED BY <1>2, <1>5, Ends, SameViews DEF RC!HeadersView

\* A Content-Length has one digit.
LEMMA DeclaredIs == ASSUME NEW b \in HP!Text
    PROVE RC!Declared(b) \in {HP!Npos, NoNumber} \cup (0 .. 9)
<1>1. PICK h \in HP!Text : h = RC!HeadersView(b)
  BY HeadersViewText
<1>2. PICK C : C = (48 .. 57) \cup {NoNumber}
  OBVIOUS
<1>3. PICK at : at = HP!FindIn(h, C, 0)
  OBVIOUS
<1>4. at = HP!Npos \/ h[at + 1] \in C
  BY <1>3, FoundInIs
<1>5. RC!Declared(b) = IF at = HP!Npos THEN HP!Npos ELSE IF h[at + 1] = NoNumber
    THEN NoNumber ELSE h[at + 1] - 48
  BY <1>1, <1>2, <1>3, SameViews DEF RC!Declared
<1>6. h[at + 1] \in 48 .. 57 => h[at + 1] - 48 \in 0 .. 9
  OBVIOUS
<1>7. QED BY <1>2, <1>4, <1>5, <1>6

\* A text is not found in a shorter one.
LEMMA TooLongToFind == ASSUME NEW s \in HP!Text, NEW t \in HP!Text, Len(s) < Len(t)
  PROVE  HP!Find(s, t, 0) = HP!Npos
<1>1. Len(s) \in Nat /\ Len(t) \in Nat /\ 0 \in Nat
  BY DEF HP!Text
<1>2. PICK f : f = HP!Find(s, t, 0)
  OBVIOUS
<1>3. f = HP!Npos \/ (f \in Nat /\ f + Len(t) <= Len(s))
  BY <1>1, <1>2, FindIs
<1>4. ~(f \in Nat /\ f + Len(t) <= Len(s))
  BY <1>1
<1>5. QED BY <1>2, <1>3, <1>4

\* A text whose headers have come, and have no empty line, declares what s means.
LEMMA DeclaredSame ==
  ASSUME NEW s \in HP!Text, NEW b \in HP!Text, Begins(b, s), EndOf(s) \in Nat,
         EndOf(s) + 4 <= Len(b), ~RC!HasEmptyLine(b)
  PROVE  RC!Declared(b) = MeantOf(s)
<1>1. PICK f \in Nat : f = EndOf(s)
  OBVIOUS
<1>2. f = HP!Find(s, HP!HeadersEnd, 0) /\ f + 4 <= Len(b)
  BY <1>1 DEF EndOf
<1>0. Plain(b, f)
  <2>1. At(b, HP!HeadersEnd, f)
    <3>1. 0 \in Nat /\ HP!HeadersEnd \in HP!Text /\ Len(HP!HeadersEnd) = 4 /\ 0 <= f
      BY Ends
    <3>2. HP!Find(b, HP!HeadersEnd, 0) = f
      BY <1>2, <3>1, FoundInBeginning
    <3>3. f # HP!Npos
      BY DEF HP!Npos
    <3>4. QED BY <3>1, <3>2, <3>3, FoundIs
  <2>2. QED BY <2>1, EmptyLineIs
<1>3. Len(b) \in Nat /\ Len(s) \in Nat /\ Len(b) <= Len(s)
  BY CharIs DEF Begins
<1>4. PICK g : g = HP!Substr(s, 0, f + 4)
  OBVIOUS
<1>5. g \in HP!Text /\ Begins(g, s) /\ Len(g) = f + 4
  <2>1. PICK m \in Nat : m = f + 4
    OBVIOUS
  <2>2. m <= Len(s) /\ m # HP!Npos
    BY <1>2, <1>3, <2>1 DEF HP!Npos
  <2>3. /\ HP!Substr(s, 0, m) \in HP!Text /\ Begins(HP!Substr(s, 0, m), s)
        /\ Len(HP!Substr(s, 0, m)) = IF m = HP!Npos \/ m > Len(s) THEN Len(s) ELSE m
    BY BeginningIs
  <2>4. ~(m > Len(s))
    BY <1>3, <2>2
  <2>5. QED BY <1>4, <2>1, <2>2, <2>3, <2>4
<1>6. f + 4 <= Len(g) /\ Plain(g, f)
  <2>1. PICK m \in Nat : m = f + 2
    OBVIOUS
  <2>2. m <= Len(g) /\ Len(g) - m = 2
    <3>1. Len(g) = f + 4
      BY <1>5
    <3>2. QED BY <2>1, <3>1
  <2>3. PICK view : view = HP!RemovePrefix(g, m)
    OBVIOUS
  <2>4. view \in HP!Text /\ Len(view) = 2
    <3>1. /\ HP!RemovePrefix(g, m) \in HP!Text
          /\ Len(HP!RemovePrefix(g, m)) = IF m <= Len(g) THEN Len(g) - m ELSE 0
      BY <1>5, RemovePrefixIs
    <3>2. QED BY <2>2, <2>3, <3>1
  <2>5. HP!Find(view, HP!HeadersEnd, 0) = HP!Npos
    <3>1. 0 \in Nat /\ HP!HeadersEnd \in HP!Text /\ Len(HP!HeadersEnd) = 4
      BY Ends
    <3>2. Len(view) < Len(HP!HeadersEnd)
      BY <2>4, <3>1
    <3>3. QED BY <2>4, <3>1, <3>2, TooLongToFind
  <2>6. f + 2 = m
    BY <2>1
  <2>7. QED BY <1>5, <2>2, <2>3, <2>5, <2>6 DEF Plain
<1>7. RC!HeadersView(b) = RC!HeadersView(g)
  <2>1. PICK e \in Nat : /\ e = HP!Find(s, HP!Endline, 0)
                         /\ RC!HeadersView(b) = SubSeq(s, e + 3, IF e = f THEN f + 3 ELSE f + 2)
    BY <1>0, <1>2, HeadersViewIs
  <2>2. PICK d \in Nat : /\ d = HP!Find(s, HP!Endline, 0)
                         /\ RC!HeadersView(g) = SubSeq(s, d + 3, IF d = f THEN f + 3 ELSE f + 2)
    <3>1. g \in HP!Text /\ Begins(g, s) /\ f + 4 <= Len(g) /\ Plain(g, f)
      BY <1>5, <1>6, Zenon
    <3>2. f = HP!Find(s, HP!HeadersEnd, 0)
      BY <1>2, Zenon
    <3>3. QED BY <3>1, <3>2, HeadersViewIs, Zenon
  <2>3. e = d
    BY <2>1, <2>2
  <2>4. RC!HeadersView(g) = SubSeq(s, e + 3, IF e = f THEN f + 3 ELSE f + 2)
    BY <2>2, <2>3, Zenon
  <2>5. QED BY <2>1, <2>4, Zenon
<1>8. RC!Declared(b) = RC!Declared(g)
  BY <1>7, SameViews DEF RC!Declared
<1>9. QED BY <1>1, <1>4, <1>8 DEF MeantOf

\* How far a request goes.
LEMMA RequestIs == ASSUME NEW s \in HP!Text, EndOf(s) \in Nat
  PROVE /\ MeantOf(s) \in {HP!Npos, NoNumber} \cup (0 .. 9)
        /\ RequestOf(s) \in Nat /\ EndOf(s) + 4 <= RequestOf(s)
        /\ MeantOf(s) \notin {HP!Npos, NoNumber} => RequestOf(s) = EndOf(s) + 4 + MeantOf(s)
        /\ MeantOf(s) \in {HP!Npos, NoNumber} => RequestOf(s) = EndOf(s) + 4
<1>1. PICK f \in Nat : f = EndOf(s)
  OBVIOUS
<1>2. f + 4 \in Nat \cup {HP!Npos}
  OBVIOUS
<1>3. HP!Substr(s, 0, f + 4) \in HP!Text
  BY <1>2, BeginningIs
<1>4. MeantOf(s) \in {HP!Npos, NoNumber} \cup (0 .. 9)
  BY <1>1, <1>3, DeclaredIs DEF MeantOf
<1>5. PICK l \in 0 .. 9 : l = IF MeantOf(s) \in {HP!Npos, NoNumber} THEN 0 ELSE MeantOf(s)
  BY <1>4
<1>6. RequestOf(s) = f + 4 + l
  BY <1>1, <1>5 DEF RequestOf
<1>7. f + 4 + l \in Nat /\ f + 4 <= f + 4 + l
  OBVIOUS
<1>8. QED BY <1>1, <1>4, <1>5, <1>6, <1>7

\* A beginning of a text is searched for NUL as the text is.
LEMMA NulFreeIn == ASSUME NEW s \in HP!Text, NEW t \in HP!Text, Begins(t, s)
  PROVE  HP!Find(t, <<HP!NUL>>, 0) = HP!Npos <=> NulFree(s, Len(t))
<1>1. \A i \in 1 .. Len(t) : t[i] = s[i]
  BY DEF Begins
<1>2. NulFree(t, Len(t)) <=> NulFree(s, Len(t))
  BY <1>1 DEF NulFree
<1>3. CASE HP!Find(t, <<HP!NUL>>, 0) = HP!Npos /\ NulFree(t, Len(t))
  BY <1>2, <1>3
<1>4. CASE /\ HP!Find(t, <<HP!NUL>>, 0) \in Nat /\ HP!Find(t, <<HP!NUL>>, 0) < Len(t)
           /\ t[HP!Find(t, <<HP!NUL>>, 0) + 1] = HP!NUL
  <2>1. PICK f \in Nat : f = HP!Find(t, <<HP!NUL>>, 0)
    BY <1>4
  <2>2. f # HP!Npos /\ f < Len(t) /\ t[f + 1] = HP!NUL /\ Len(t) \in Nat
    BY <1>4, <2>1, CharIs DEF HP!Npos
  <2>3. f + 1 \in 1 .. Len(t)
    BY <2>2
  <2>4. ~NulFree(t, Len(t))
    BY <2>2, <2>3 DEF NulFree
  <2>5. QED BY <1>2, <2>1, <2>2, <2>4
<1>5. QED BY <1>3, <1>4, NulIs

\* Whole: no NUL up to the end of the request.
LEMMA WholeIs == ASSUME NEW s \in HP!Text, Whole(s), NEW n \in Nat, n <= Len(s),
                        EndOf(s) \in Nat => n <= RequestOf(s)
  PROVE  NulFree(s, n)
<1>1. Len(s) \in Nat
  BY CharIs
<1>2. PICK m \in Nat \cup {HP!Npos} : m = IF EndOf(s) = HP!Npos THEN HP!Npos ELSE RequestOf(s)
  BY EndIs, RequestIs
<1>3. PICK t : t = HP!Substr(s, 0, m)
  OBVIOUS
<1>4. t \in HP!Text /\ Begins(t, s) /\ Len(t) = IF m = HP!Npos
    \/ m > Len(s) THEN Len(s) ELSE m
  BY <1>3, BeginningIs
<1>5. NulFree(s, Len(t))
  BY <1>2, <1>3, <1>4, NulFreeIn DEF Whole
<1>6. n <= Len(t) /\ Len(t) \in Nat
  <2>1. CASE EndOf(s) = HP!Npos
    BY <1>1, <1>2, <1>4, <2>1
  <2>2. CASE EndOf(s) \in Nat
    <3>1. m = RequestOf(s) /\ m \in Nat /\ n <= m
      BY <1>2, <2>2, RequestIs DEF HP!Npos
    <3>2. QED BY <1>1, <1>4, <3>1
  <2>3. QED BY <2>1, <2>2, EndIs
<1>7. \A i \in 1 .. n : i \in 1 .. Len(t)
  BY <1>6
<1>8. QED BY <1>5, <1>7 DEF NulFree

\* A stream without NUL up to the end of its request has a whole request.
LEMMA WholeWhen == ASSUME NEW s \in HP!Text, EndOf(s) \in Nat, NEW n \in Nat, n <= Len(s),
                          RequestOf(s) <= n, NulFree(s, n)
  PROVE  Whole(s)
<1>1. Len(s) \in Nat
  BY CharIs
<1>2. PICK m \in Nat : m = RequestOf(s)
  BY RequestIs
<1>3. PICK t : t = HP!Substr(s, 0, m)
  OBVIOUS
<1>4. t \in HP!Text /\ Begins(t, s) /\ Len(t) = IF m = HP!Npos
    \/ m > Len(s) THEN Len(s) ELSE m
  BY <1>3, BeginningIs
<1>5. Len(t) = m /\ m <= n
  BY <1>1, <1>2, <1>4 DEF HP!Npos
<1>6. \A i \in 1 .. m : i \in 1 .. n
  BY <1>5
<1>7. NulFree(s, m)
  BY <1>6 DEF NulFree
<1>8. HP!Find(t, <<HP!NUL>>, 0) = HP!Npos
  BY <1>4, <1>5, <1>7, NulFreeIn
<1>9. EndOf(s) # HP!Npos
  BY DEF HP!Npos
<1>10. QED BY <1>2, <1>3, <1>8, <1>9 DEF Whole

\* A read that ends inside the end of the headers has cut it for good.
LEMMA CutStays == ASSUME NEW s, NEW r, Marks(r), NEW v \in Nat, CutIn(s, r)
  PROVE  CutIn(s, Append(r, v))
<1>1. r \in Seq(Nat) /\ Len(r) \in Nat
  BY DEF Marks
<1>2. Len(Append(r, v)) = Len(r) + 1 /\ \A k \in 1 .. Len(r) : Append(r, v)[k] = r[k]
  BY <1>1
<1>3. PICK k \in 1 .. Len(r) : r[k] - EndOf(s) \in 1 .. 3
  BY DEF CutIn
<1>4. k \in 1 .. Len(r) + 1
  BY <1>1, <1>3
<1>5. QED BY <1>2, <1>3, <1>4 DEF CutIn

\* Unless a read has cut it, the end of the headers was read or it was not begun.
LEMMA NotCut == ASSUME NEW s \in HP!Text, NEW r, Marks(r), EndOf(s) \in Nat, ~CutIn(s, r)
  PROVE  SoFar(r) \in Nat /\ (SoFar(r) <= EndOf(s) \/ EndOf(s) + 4 <= SoFar(r))
<1>1. r \in Seq(Nat) /\ Len(r) \in Nat
  BY DEF Marks
<1>2. PICK f \in Nat : f = EndOf(s)
  OBVIOUS
<1>3. CASE r = <<>>
  BY <1>2, <1>3 DEF SoFar
<1>4. CASE r # <<>>
  <2>1. Len(r) \in 1 .. Len(r) /\ r[Len(r)] \in Nat
    BY <1>1, <1>4
  <2>2. PICK v \in Nat : v = r[Len(r)]
    BY <2>1
  <2>3. f # HP!Npos
    BY DEF HP!Npos
  <2>4. ~(v - f \in 1 .. 3)
    BY <1>2, <2>1, <2>2, <2>3 DEF CutIn
  <2>5. v <= f \/ f + 4 <= v
    BY <2>4
  <2>6. QED BY <1>2, <1>4, <2>2, <2>5 DEF SoFar
<1>5. QED BY <1>3, <1>4

\* A request that is fine after a read was so before.
LEMMA FineBefore == ASSUME NEW s, NEW r, Marks(r), NEW v \in Nat, Fine(s, Append(r, v))
  PROVE  Fine(s, r)
  BY CutStays DEF Fine

\* Less of a text without NUL has none.
LEMMA NulFreeLess == ASSUME NEW s, NEW n \in Nat, NEW m \in Nat, NulFree(s, n + m)
    PROVE NulFree(s, n)
<1>1. \A i \in 1 .. n : i \in 1 .. n + m
  OBVIOUS
<1>2. QED BY <1>1 DEF NulFree

\* What receive finds in the text that has come, where the reads before this one
\* got as far as n and this one as far as m.
LEMMA SearchIs ==
  ASSUME NEW s \in HP!Text, NEW a \in HP!Text, NEW r, Marks(r), NEW n \in Nat,
         NEW m \in Nat, n <= m,
         m = SoFar(r), m <= Len(s), Kept(s, m, a), NulFree(s, n) => Begins(a, s), Fine(s, r),
         EndOf(s) \in Nat => n <= EndOf(s)
  PROVE  \/ /\ HP!Find(a, HP!HeadersEnd, n) = HP!Npos
            /\ EndOf(s) \in Nat => m <= EndOf(s)
         \/ /\ EndOf(s) \in Nat /\ HP!Find(a, HP!HeadersEnd, n) = EndOf(s)
            /\ EndOf(s) + 4 <= Len(a) /\ Begins(a, s)
<1>1. Len(s) \in Nat /\ Len(a) \in Nat /\ Len(a) <= m /\ HP!HeadersEnd \in HP!Text
    /\ Len(HP!HeadersEnd) = 4
  BY CharIs, Ends DEF Kept
<1>2. n <= Len(s)
  BY <1>1
<1>3. EndOf(s) \in Nat => n <= RequestOf(s)
  <2> SUFFICES ASSUME EndOf(s) \in Nat PROVE n <= RequestOf(s)
    OBVIOUS
  <2>1. n <= EndOf(s) /\ RequestOf(s) \in Nat /\ EndOf(s) + 4 <= RequestOf(s)
    BY RequestIs
  <2>2. QED BY <2>1
<1>4. NulFree(s, n)
  BY <1>2, <1>3, WholeIs DEF Fine
<1>5. Begins(a, s)
  BY <1>4
<1>6. CASE EndOf(s) = HP!Npos
  <2>1. HP!Find(a, HP!HeadersEnd, n) = HP!Npos
    BY <1>1, <1>5, <1>6, NotInBeginning DEF EndOf
  <2>2. EndOf(s) \notin Nat
    BY <1>6 DEF HP!Npos
  <2>3. QED BY <2>1, <2>2
<1>7. CASE EndOf(s) \in Nat
  <2>1. PICK f \in Nat : f = EndOf(s)
    BY <1>7
  <2>2. f + 4 <= Len(s) /\ n <= f
    BY <1>7, <2>1, EndIs DEF HP!Npos
  <2>3. m <= f \/ f + 4 <= m
    BY <1>7, <2>1, NotCut DEF Fine
  <2>4. CASE m <= f
    <3>1. PICK g : g = HP!Find(a, HP!HeadersEnd, n)
      OBVIOUS
    <3>2. \A i \in Nat : ~At(a, HP!HeadersEnd, i)
      <4> SUFFICES ASSUME NEW i \in Nat, At(a, HP!HeadersEnd, i) PROVE FALSE
        OBVIOUS
      <4>2. At(a, HP!HeadersEnd, i)
        OBVIOUS
      <4>3. i + 4 <= Len(a)
        BY <1>1, <4>2 DEF At
      <4>4. At(s, HP!HeadersEnd, i)
        <5>1. \A j \in 1 .. 4 : i + j \in 1 .. Len(a)
          BY <1>1, <4>3
        <5>2. i + 4 <= Len(s)
          BY <1>1, <4>3
        <5>3. QED BY <1>1, <1>5, <4>2, <5>1, <5>2 DEF At, Begins
      <4>5. f <= i
        <5>1. f = HP!Find(s, HP!HeadersEnd, 0)
          BY <2>1 DEF EndOf
        <5>2. QED BY <4>4, <5>1, HeadersAt
      <4>6. QED BY <1>1, <2>4, <4>3, <4>5
    <3>3. HP!Find(a, HP!HeadersEnd, n) = HP!Npos
      BY <1>1, <3>2, FoundIs
    <3>4. QED BY <2>1, <2>4, <3>3
  <2>5. CASE f + 4 <= m
    <3>1. NulFree(s, f + 4)
      <4>1. PICK k \in Nat : k = f + 4
        OBVIOUS
      <4>2. k <= Len(s) /\ (EndOf(s) \in Nat => k <= RequestOf(s))
        BY <2>1, <2>2, <4>1, RequestIs
      <4>3. NulFree(s, k)
        BY <4>2, WholeIs DEF Fine
      <4>4. QED BY <4>1, <4>3
    <3>2. f + 4 \in 0 .. m
      BY <2>5
    <3>3. f + 4 <= Len(a)
      BY <3>1, <3>2 DEF Kept
    <3>4. HP!Find(a, HP!HeadersEnd, n) = f
      <4>1. f = HP!Find(s, HP!HeadersEnd, 0)
        BY <2>1 DEF EndOf
      <4>2. f + Len(HP!HeadersEnd) <= Len(a)
        BY <1>1, <3>3
      <4>3. QED BY <1>1, <1>5, <2>2, <4>1, <4>2, FoundInBeginning
    <3>5. QED BY <1>5, <2>1, <3>3, <3>4
  <2>6. QED BY <2>3, <2>4, <2>5
<1>8. QED BY <1>6, <1>7, EndIs

\* A part of what was kept is the same part of the stream.
LEMMA SameParts ==
  ASSUME NEW s \in HP!Text, NEW a \in HP!Text, NEW st \in Nat, NEW l \in Nat,
         st + l <= Len(s), st + l <= Len(a), \A i \in 1 .. st + l : a[i] = s[i]
  PROVE  HP!Substr(a, st, l) = HP!Substr(s, st, l)
<1>1. Len(s) \in Nat /\ Len(a) \in Nat /\ st + 1 \in Nat \ {0} /\ st + l \in Int
    /\ l # HP!Npos
  BY CharIs DEF HP!Npos
<1>2. ~(st + l > Len(s)) /\ ~(st + l > Len(a))
  BY <1>1
<1>3. HP!Substr(a, st, l) = SubSeq(a, st + 1, st + l)
    /\ HP!Substr(s, st, l) = SubSeq(s, st + 1, st + l)
  BY <1>1, <1>2 DEF HP!Substr
<1>4. PICK u, v : u = SubSeq(a, st + 1, st + l) /\ v = SubSeq(s, st + 1, st + l)
  OBVIOUS
<1>5. /\ u \in HP!Text /\ Len(u) = IF st + 1 <= st + l THEN st + l - (st + 1) + 1 ELSE 0
      /\ \A i \in 1 .. st + l - (st + 1) + 1 : u[i] = a[st + 1 + i - 1]
  BY <1>1, <1>4, SubSeqIs
<1>6. /\ v \in HP!Text /\ Len(v) = IF st + 1 <= st + l THEN st + l - (st + 1) + 1 ELSE 0
      /\ \A i \in 1 .. st + l - (st + 1) + 1 : v[i] = s[st + 1 + i - 1]
  BY <1>1, <1>4, SubSeqIs
<1>7. \A i \in 1 .. l : st + 1 + i - 1 \in 1 .. st + l
  OBVIOUS
<1>8. st + l - (st + 1) + 1 = l /\ (IF st + 1 <= st + l THEN l ELSE 0) = l
  OBVIOUS
<1>9. Len(u) = Len(v) /\ Len(u) = l
  BY <1>5, <1>6, <1>8
<1>10. \A i \in 1 .. l : u[i] = v[i]
  BY <1>5, <1>6, <1>7, <1>8
<1>11. QED BY <1>3, <1>4, <1>5, <1>6, <1>9, <1>10, SameTexts

\* A part of no characters is empty.
LEMMA NoPart == ASSUME NEW s \in HP!Text, NEW st \in Nat PROVE HP!Substr(s, st, 0) = <<>>
<1>1. Len(s) \in Nat /\ 0 # HP!Npos /\ st + 0 = st
  BY CharIs DEF HP!Npos
<1>2. PICK k : k = IF st > Len(s) THEN Len(s) ELSE st
  OBVIOUS
<1>3. HP!Substr(s, st, 0) = SubSeq(s, st + 1, k) /\ k \in Nat /\ k < st + 1
  BY <1>1, <1>2 DEF HP!Substr
<1>4. QED BY <1>3, SubSeqIs, CharIs DEF HP!Text

\* What the client sends is the next part of the stream.
LEMMA SentOn ==
  ASSUME NEW s \in HP!Text, NEW n, NEW a \in HP!Text, NEW b \in HP!Text, Divided(s, n, a, b),
         NEW k \in 1 .. Len(b)
  PROVE  /\ a \o HP!Substr(b, 0, k) \in HP!Text /\ HP!RemovePrefix(b, k) \in HP!Text
         /\ Divided(s, n, a \o HP!Substr(b, 0, k), HP!RemovePrefix(b, k))
<1>1. /\ Len(s) \in Nat /\ Len(a) \in Nat /\ Len(b) \in Nat /\ k \in Nat /\ k <= Len(b)
         /\ n \in Nat
      /\ Len(s) = n + Len(a) + Len(b)
  BY CharIs DEF Divided
<1>2. PICK t : t = HP!Substr(b, 0, k)
  OBVIOUS
<1>3. t \in HP!Text /\ Begins(t, b) /\ Len(t) = k
  BY <1>1, <1>2, BeginningIs DEF HP!Npos
<1>4. PICK u : u = HP!RemovePrefix(b, k)
  OBVIOUS
<1>5. u \in HP!Text /\ Len(u) = Len(b) - k /\ \A i \in 1 .. Len(b) - k : u[i] = b[k + i]
  BY <1>1, <1>4, BehindIs
<1>6. PICK c : c = a \o t
  OBVIOUS
<1>7. /\ c \in HP!Text /\ Len(c) = Len(a) + Len(t) /\ \A i \in 1 .. Len(a) : c[i] = a[i]
      /\ \A i \in 1 .. Len(t) : c[Len(a) + i] = t[i]
  <2>1. /\ a \o t \in HP!Text /\ Len(a \o t) = Len(a) + Len(t)
           /\ \A i \in 1 .. Len(a) : (a \o t)[i] = a[i]
        /\ \A i \in 1 .. Len(t) : (a \o t)[Len(a) + i] = t[i]
    BY <1>3, TextsJoined
  <2>2. QED BY <1>6, <2>1
<1>8. Len(c) = Len(a) + k
  BY <1>3, <1>7
<1>9. Len(s) = n + Len(c) + Len(u)
  BY <1>1, <1>5, <1>8
<1>10. ASSUME NEW i \in 1 .. Len(c) PROVE c[i] = s[n + i]
  <2>1. CASE i \in 1 .. Len(a)
    BY <1>7, <2>1 DEF Divided
  <2>2. CASE i \notin 1 .. Len(a)
    <3>0. i \in Nat /\ 1 <= i /\ i <= Len(a) + k /\ ~(i <= Len(a))
      BY <1>1, <1>8, <2>2
    <3>1. PICK j \in Nat : j = i - Len(a)
      BY <1>1, <3>0
    <3>2. i = Len(a) + j /\ j \in 1 .. k /\ j \in 1 .. Len(b) /\ n + Len(a) + j = n + i
      BY <1>1, <3>0, <3>1
    <3>3. c[Len(a) + j] = t[j] /\ t[j] = b[j]
      BY <1>3, <1>7, <3>2 DEF Begins
    <3>4. b[j] = s[n + Len(a) + j]
      BY <3>2 DEF Divided
    <3>5. QED BY <3>2, <3>3, <3>4
  <2>3. QED BY <2>1, <2>2
<1>11. ASSUME NEW i \in 1 .. Len(u) PROVE u[i] = s[n + Len(c) + i]
  <2>1. i \in 1 .. Len(b) - k /\ k + i \in 1 .. Len(b)
      /\ n + Len(a) + (k + i) = n + Len(c) + i
    BY <1>1, <1>5, <1>8
  <2>2. b[k + i] = s[n + Len(a) + (k + i)]
    BY <2>1 DEF Divided
  <2>3. QED BY <1>5, <2>1, <2>2
<1>12. Divided(s, n, c, u)
  BY <1>1, <1>9, <1>10, <1>11 DEF Divided
<1>13. QED BY <1>2, <1>4, <1>5, <1>6, <1>7, <1>12

Joined(s, g, a, b) == s = g \o a \o b

\* The stream is what was read, what came and what is still to be sent.
LEMMA StreamIs ==
  ASSUME NEW s \in HP!Text, NEW n, NEW a \in HP!Text, NEW b \in HP!Text, Divided(s, n, a, b)
  PROVE  /\ HP!Substr(s, 0, n) \in HP!Text /\ Begins(HP!Substr(s, 0, n), s)
            /\ Len(HP!Substr(s, 0, n)) = n
         /\ n \in Nat /\ n <= Len(s) /\ Joined(s, HP!Substr(s, 0, n), a, b)
<1>1. /\ Len(s) \in Nat /\ Len(a) \in Nat /\ Len(b) \in Nat /\ n \in Nat
      /\ Len(s) = n + Len(a) + Len(b)
  BY CharIs DEF Divided
<1>2. n <= Len(s) /\ n # HP!Npos
  BY <1>1 DEF HP!Npos
<1>3. PICK g : g = HP!Substr(s, 0, n)
  OBVIOUS
<1>4. g \in HP!Text /\ Begins(g, s) /\ Len(g) = n
  BY <1>1, <1>2, <1>3, BeginningIs
<1>5. PICK c : c = g \o a
  OBVIOUS
<1>6. /\ c \in HP!Text /\ Len(c) = n + Len(a) /\ \A i \in 1 .. n : c[i] = g[i]
      /\ \A i \in 1 .. Len(a) : c[n + i] = a[i]
  <2>1. /\ g \o a \in HP!Text /\ Len(g \o a) = Len(g) + Len(a)
           /\ \A i \in 1 .. Len(g) : (g \o a)[i] = g[i]
        /\ \A i \in 1 .. Len(a) : (g \o a)[Len(g) + i] = a[i]
    BY <1>4, TextsJoined
  <2>2. QED BY <1>4, <1>5, <2>1
<1>7. PICK d : d = c \o b
  OBVIOUS
<1>8. /\ d \in HP!Text /\ Len(d) = Len(c) + Len(b) /\ \A i \in 1 .. Len(c) : d[i] = c[i]
      /\ \A i \in 1 .. Len(b) : d[Len(c) + i] = b[i]
  <2>1. /\ c \o b \in HP!Text /\ Len(c \o b) = Len(c) + Len(b)
           /\ \A i \in 1 .. Len(c) : (c \o b)[i] = c[i]
        /\ \A i \in 1 .. Len(b) : (c \o b)[Len(c) + i] = b[i]
    BY <1>6, TextsJoined
  <2>2. QED BY <1>7, <2>1
<1>9. Len(d) = Len(s)
  BY <1>1, <1>6, <1>8
<1>10. ASSUME NEW i \in 1 .. Len(d) PROVE d[i] = s[i]
  <2>1. CASE i \in 1 .. n
    <3>1. i \in 1 .. Len(c)
      BY <1>1, <1>6, <2>1
    <3>2. QED BY <1>4, <1>6, <1>8, <2>1, <3>1 DEF Begins
  <2>2. CASE i \in n + 1 .. n + Len(a)
    <3>1. PICK j \in Nat : j = i - n
      BY <1>1, <2>2
    <3>2. i = n + j /\ j \in 1 .. Len(a) /\ i \in 1 .. Len(c)
      BY <1>1, <1>6, <2>2, <3>1
    <3>3. c[n + j] = a[j] /\ a[j] = s[n + j]
      BY <1>6, <3>2 DEF Divided
    <3>4. QED BY <1>8, <3>2, <3>3
  <2>3. CASE i \in n + Len(a) + 1 .. Len(d)
    <3>0. Len(c) = n + Len(a) /\ Len(d) = n + Len(a) + Len(b)
      BY <1>1, <1>6, <1>8
    <3>a. i \in Nat /\ n + Len(a) + 1 <= i /\ i <= n + Len(a) + Len(b)
      BY <1>1, <2>3, <3>0
    <3>b. PICK w \in Nat : w = n + Len(a)
      BY <1>1
    <3>1. PICK j \in Nat : j = i - w
      BY <3>a, <3>b
    <3>2. i = Len(c) + j /\ j \in 1 .. Len(b) /\ i = n + Len(a) + j
      BY <1>1, <3>0, <3>1, <3>a, <3>b
    <3>3. d[Len(c) + j] = b[j] /\ b[j] = s[n + Len(a) + j]
      BY <1>8, <3>2 DEF Divided
    <3>4. QED BY <3>2, <3>3
  <2>4. i \in 1 .. n \/ i \in n + 1 .. n + Len(a) \/ i \in n + Len(a) + 1 .. Len(d)
    BY <1>1
  <2>5. QED BY <2>1, <2>2, <2>3, <2>4
<1>11. d = s
  BY <1>8, <1>9, <1>10, SameTexts
<1>12. Joined(s, g, a, b)
  BY <1>5, <1>7, <1>11 DEF Joined
<1>13. QED BY <1>1, <1>2, <1>3, <1>4, <1>12
-----------------------------------------------------------------------------
\* The invariant of a request

\* In the search for the headers, r read and p the position to search from.
InHeaders(s, r, p) ==
  p = SoFar(r) /\ (Fine(s, r) /\ EndOf(s) \in Nat => SoFar(r) <= EndOf(s))

\* In the body, which is at st and has l bytes, w of them counted.
InBody(s, r, st, w, l) ==
  /\ w + st <= SoFar(r) /\ (NulFree(s, SoFar(r)) => w + st = SoFar(r))
  /\ Fine(s, r) => /\ EndOf(s) \in Nat /\ st = EndOf(s) + 4
                   /\ l = MeantOf(s) /\ MeantOf(s) \notin {HP!Npos, NoNumber}

\* With the body t.
IsMeant(s, r, t) ==
  Fine(s, r) =>
    EndOf(s) \in Nat /\ t = HP!Substr(s, EndOf(s) + 4, RequestOf(s) - (EndOf(s) + 4))

RecvTypes ==
  /\ fin \in {"no", "closed", "reset"}
  /\ receiving \in {"headers", "first", "body", "done", "thrown"}
  /\ stream \in HP!Text /\ unsent \in HP!Text /\ socket \in HP!Text /\ buffer \in HP!Text
  /\ Marks(reads) /\ Divided(stream, SoFar(reads), socket, unsent)
  /\ Kept(stream, SoFar(reads), buffer)
  /\ pos \in Nat /\ start \in Nat /\ was_read \in Nat /\ length \in 0 .. 9
  /\ start <= Len(buffer)
HeadersInv == receiving = "headers" => InHeaders(stream, reads, pos)
BodyInv == receiving \in {"first", "body"} => InBody(stream, reads, start, was_read, length)
WaitInv == receiving = "body" => was_read < length
DoneInv == receiving = "done" => IsMeant(stream, reads, received)
NoBodyInv == receiving # "done" => received = <<>>
RecvInv == RecvTypes /\ HeadersInv /\ BodyInv /\ WaitInv /\ DoneInv /\ NoBodyInv

\* The invariant holds at the start.
LEMMA RecvInit == RC!Init => RecvInv
<1> SUFFICES ASSUME RC!Init PROVE RecvInv
  OBVIOUS
<1>1. /\ stream \in HP!Text /\ unsent = stream /\ socket = <<>> /\ buffer = <<>>
         /\ reads = <<>>
      /\ fin = "no" /\ receiving = "headers" /\ pos = 0 /\ start = 0 /\ length = 0
         /\ was_read = 0
      /\ received = <<>>
  BY MaxReadIs DEF RC!Init
<1>2. SoFar(reads) = 0 /\ Marks(reads)
  BY <1>1 DEF SoFar, Marks
<1>3. <<>> \in HP!Text /\ Len(stream) \in Nat
  BY <1>1, Ends, CharIs
<1>4. Divided(stream, 0, <<>>, stream)
  BY <1>3 DEF Divided
<1>5. Kept(stream, 0, <<>>)
  BY DEF Kept
<1>6. RecvTypes
  BY <1>1, <1>2, <1>3, <1>4, <1>5 DEF RecvTypes
<1>7. InHeaders(stream, reads, pos)
  BY <1>1, <1>2 DEF InHeaders
<1>8. QED BY <1>1, <1>6, <1>7 DEF RecvInv, HeadersInv, BodyInv, WaitInv, DoneInv, NoBodyInv

\* A read: n bytes had been read before it, it takes m, and a is in the buffer.
LEMMA ReadIs == ASSUME RecvTypes, RC!Read, stream' = stream, unsent' = unsent
  PROVE  \E s \in HP!Text, n \in Nat, m \in Nat, a \in HP!Text, r \in Seq(Nat),
         r2 \in Seq(Nat) :
           /\ s = stream /\ r = reads /\ r2 = reads' /\ n = SoFar(r) /\ m = RC!Bytes
           /\ a = RC!Appended /\ a = buffer'
           /\ Marks(r2) /\ SoFar(r2) = n + m /\ n + m <= Len(s) /\ Kept(s, n + m, a)
           /\ Len(buffer) <= Len(a) /\ (NulFree(s, n) => Begins(a, s))
           /\ (Fine(s, r2) => Fine(s, r))
           /\ socket' \in HP!Text /\ Divided(s, n + m, socket', unsent')
<1>1. PICK s \in HP!Text, b \in HP!Text, c \in HP!Text, u \in HP!Text, r \in Seq(Nat) :
        /\ s = stream /\ b = buffer /\ c = socket /\ u = unsent /\ r = reads
        /\ Marks(r) /\ Divided(s, SoFar(r), c, u) /\ Kept(s, SoFar(r), b)
  BY DEF RecvTypes, Marks
<1>2. PICK n : n = SoFar(r)
  OBVIOUS
<1>3. PICK k : k = HP!Substr(c, 0, MaxRead)
  OBVIOUS
<1>4. /\ n \in Nat /\ k \in HP!Text /\ Len(k) \in Nat /\ Len(k) <= MaxRead
         /\ n + Len(k) <= Len(s)
      /\ \A i \in 1 .. Len(k) : k[i] = s[n + i]
      /\ HP!RemovePrefix(c, Len(k)) \in HP!Text
      /\ Divided(s, n + Len(k), HP!RemovePrefix(c, Len(k)), u)
  BY <1>1, <1>2, <1>3, TakenIs
<1>5. PICK a : a = b \o HP!Substr(k, 0, HP!Find(k, <<HP!NUL>>, 0))
  OBVIOUS
<1>6. /\ a \in HP!Text /\ Kept(s, n + Len(k), a) /\ Len(b) <= Len(a)
      /\ NulFree(s, n) => Begins(a, s)
  BY <1>1, <1>2, <1>4, <1>5, AppendedIs
<1>7. PICK m \in Nat : m = Len(k)
  BY <1>4
<1>8. RC!Taken = k /\ RC!Bytes = m /\ RC!Appended = a
  BY <1>1, <1>3, <1>5, <1>7, SameViews DEF RC!Taken, RC!Bytes, RC!Appended
<1>9. PICK r2 : r2 = reads'
  OBVIOUS
<1>10. r2 = IF m = 0 THEN r ELSE Append(r, n + m)
  BY <1>1, <1>2, <1>8, <1>9, SameViews DEF RC!Read, RC!ReadSoFar, SoFar
<1>11. Marks(r2) /\ SoFar(r2) = n + m /\ (Fine(s, r2) => Fine(s, r))
  <2>1. CASE m = 0
    BY <1>1, <1>2, <1>4, <1>10, <2>1
  <2>2. CASE m # 0
    <3>1. m \in 1 .. MaxRead /\ n + m \in Nat
      BY <1>4, <1>7, <2>2, MaxReadIs
    <3>2. Marks(Append(r, SoFar(r) + m)) /\ SoFar(Append(r, SoFar(r) + m)) = SoFar(r) + m
      BY <1>1, <3>1, MarksMore
    <3>3. r2 = Append(r, n + m)
      BY <1>10, <2>2
    <3>4. Fine(s, Append(r, n + m)) => Fine(s, r)
      BY <1>1, <3>1, FineBefore
    <3>5. QED BY <1>2, <3>2, <3>3, <3>4
  <2>3. QED BY <2>1, <2>2
<1>12. socket' = HP!RemovePrefix(c, m) /\ buffer' = a
  BY <1>1, <1>7, <1>8, SameViews DEF RC!Read
<1>13. /\ n + m <= Len(s) /\ Kept(s, n + m, a) /\ socket' \in HP!Text
       /\ Divided(s, n + m, socket', unsent')
  BY <1>1, <1>4, <1>6, <1>7, <1>12
<1>14. r2 \in Seq(Nat)
  BY <1>11 DEF Marks
<1>15. QED BY <1>1, <1>2, <1>4, <1>6, <1>8, <1>9, <1>11, <1>12, <1>13, <1>14

\* The outcomes of a round of receive: it yields, ends without a body (also by throwing),
\* or has the headers of a body.
LEMMA ReceiveCases ==
  ASSUME RecvInv, RC!Receive, NEW a, a = RC!Appended, NEW f,
         f = HP!Find(a, HP!HeadersEnd, pos),
         NEW d, d = RC!Declared(a)
  PROVE  /\ receiving = "headers" /\ RC!Read
         /\ stream' = stream /\ unsent' = unsent /\ fin' = fin /\ received' = received
         /\ \/ /\ f = HP!Npos /\ pos' = pos + RC!Bytes /\ receiving' = "headers"
               /\ UNCHANGED <<start, length, was_read>>
            \/ /\ f # HP!Npos /\ pos' = pos
               /\ \/ receiving' = "thrown"
                  \/ receiving' = "done" /\ d = HP!Npos /\ ~RC!HasEmptyLine(a)
               /\ UNCHANGED <<start, length, was_read>>
            \/ /\ f # HP!Npos /\ pos' = pos /\ d \notin {HP!Npos, NoNumber}
                  /\ receiving' = "first" /\ ~RC!HasEmptyLine(a)
               /\ start' = f + 4 /\ length' = d /\ was_read' = Len(a) - (f + 4)
<1>1. /\ receiving = "headers" /\ RC!Read
      /\ stream' = stream /\ unsent' = unsent /\ fin' = fin /\ received' = received
      /\ IF f # HP!Npos THEN RC!Headers(f) /\ UNCHANGED pos
         ELSE pos' = pos + RC!Bytes /\ UNCHANGED <<receiving, start, length, was_read>>
  BY SameViews DEF RC!Receive, RC!client
<1>2. RC!Headers(f) =>
        \/ /\ \/ receiving' = "thrown"
              \/ receiving' = "done" /\ d = HP!Npos /\ ~RC!HasEmptyLine(a)
           /\ UNCHANGED <<start, length, was_read>>
        \/ /\ d \notin {HP!Npos, NoNumber} /\ receiving' = "first" /\ ~RC!HasEmptyLine(a)
           /\ start' = f + 4 /\ length' = d /\ was_read' = Len(a) - (f + 4)
  <2>1. CASE RC!HasEmptyLine(a) \/ d \in {HP!Npos, NoNumber}
    BY <2>1, SameViews DEF RC!Headers
  <2>2. CASE ~RC!HasEmptyLine(a) /\ d \notin {HP!Npos, NoNumber}
    BY <2>2, Ends, SameViews DEF RC!Headers
  <2>3. QED BY <2>1, <2>2
<1>3. QED BY <1>1, <1>2

\* A round of receive keeps the invariant.
LEMMA ReceiveKept == ASSUME RecvInv, RC!Receive PROVE RecvInv'
<1>1. PICK d, f, a : a = RC!Appended /\ f = HP!Find(a, HP!HeadersEnd, pos)
    /\ d = RC!Declared(a)
  OBVIOUS
<1>2. /\ receiving = "headers" /\ RC!Read
      /\ stream' = stream /\ unsent' = unsent /\ fin' = fin /\ received' = received
      /\ \/ /\ f = HP!Npos /\ pos' = pos + RC!Bytes /\ receiving' = "headers"
            /\ UNCHANGED <<start, length, was_read>>
         \/ /\ f # HP!Npos /\ pos' = pos
            /\ \/ receiving' = "thrown"
               \/ receiving' = "done" /\ d = HP!Npos /\ ~RC!HasEmptyLine(a)
            /\ UNCHANGED <<start, length, was_read>>
         \/ /\ f # HP!Npos /\ pos' = pos /\ d \notin {HP!Npos, NoNumber}
               /\ receiving' = "first" /\ ~RC!HasEmptyLine(a)
            /\ start' = f + 4 /\ length' = d /\ was_read' = Len(a) - (f + 4)
  BY <1>1, ReceiveCases
<1>3. RecvTypes /\ HeadersInv /\ NoBodyInv
  BY DEF RecvInv
<1>4. PICK s \in HP!Text, n \in Nat, m \in Nat, a2 \in HP!Text, r \in Seq(Nat),
    r2 \in Seq(Nat) :
           /\ s = stream /\ r = reads /\ r2 = reads' /\ n = SoFar(r) /\ m = RC!Bytes
           /\ a2 = RC!Appended /\ a2 = buffer'
           /\ Marks(r2) /\ SoFar(r2) = n + m /\ n + m <= Len(s) /\ Kept(s, n + m, a2)
           /\ Len(buffer) <= Len(a2) /\ (NulFree(s, n) => Begins(a2, s))
           /\ (Fine(s, r2) => Fine(s, r))
           /\ socket' \in HP!Text /\ Divided(s, n + m, socket', unsent')
  BY <1>2, <1>3, ReadIs
<1>5. a2 = a /\ a \in HP!Text /\ Len(a) \in Nat /\ received = <<>>
  BY <1>1, <1>2, <1>3, <1>4, CharIs DEF NoBodyInv
<1>6. InHeaders(s, r, pos) /\ pos = n
  BY <1>2, <1>3, <1>4 DEF HeadersInv, InHeaders
<1>7. f # HP!Npos => f \in Nat /\ f + 4 <= Len(a)
  <2>1. HP!HeadersEnd \in HP!Text /\ Len(HP!HeadersEnd) = 4
      /\ f = HP!Find(a, HP!HeadersEnd, n)
    BY <1>1, <1>6, Ends
  <2>2. QED BY <1>5, <2>1, FindIs
<1>8. d \in {HP!Npos, NoNumber} \cup (0 .. 9)
  BY <1>1, <1>5, DeclaredIs
<1>9. PICK n2 \in Nat : n2 = n + m
  OBVIOUS
<1>10. n <= n2 /\ n2 = SoFar(r2) /\ n2 <= Len(s) /\ Kept(s, n2, a)
    /\ (NulFree(s, n) => Begins(a, s))
  BY <1>4, <1>5, <1>9
<1>11. ASSUME Fine(s, r2)
       PROVE  \/ f = HP!Npos /\ (EndOf(s) \in Nat => n2 <= EndOf(s))
              \/ /\ EndOf(s) \in Nat /\ f = EndOf(s) /\ EndOf(s) + 4 <= Len(a)
                 /\ Begins(a, s) /\ (~RC!HasEmptyLine(a) => d = MeantOf(s))
  <2>1. EndOf(s) \in Nat => n <= EndOf(s)
    BY <1>4, <1>6, <1>11 DEF InHeaders
  <2>2. \/ /\ HP!Find(a, HP!HeadersEnd, n) = HP!Npos
           /\ EndOf(s) \in Nat => n2 <= EndOf(s)
        \/ /\ EndOf(s) \in Nat /\ HP!Find(a, HP!HeadersEnd, n) = EndOf(s)
           /\ EndOf(s) + 4 <= Len(a) /\ Begins(a, s)
    BY <1>4, <1>5, <1>10, <1>11, <2>1, SearchIs
  <2>3. f = HP!Find(a, HP!HeadersEnd, n)
    BY <1>1, <1>6
  <2>4. CASE /\ EndOf(s) \in Nat /\ f = EndOf(s) /\ EndOf(s) + 4 <= Len(a) /\ Begins(a, s)
    <3>1. ~RC!HasEmptyLine(a) => RC!Declared(a) = MeantOf(s)
      BY <1>5, <2>4, DeclaredSame
    <3>2. QED BY <1>1, <2>4, <3>1
  <2>5. QED BY <2>2, <2>3, <2>4
<1>12. /\ stream' = s /\ reads' = r2 /\ buffer' = a /\ SoFar(r2) = n2
       /\ Divided(s, n2, socket', unsent')
  BY <1>2, <1>4, <1>5, <1>9
<1>13. /\ fin' \in {"no", "closed", "reset"} /\ unsent' \in HP!Text
       /\ start \in Nat /\ was_read \in Nat /\ length \in 0 .. 9 /\ start <= Len(buffer)
       /\ pos \in Nat /\ Len(buffer) \in Nat
  BY <1>2, <1>3, CharIs DEF RecvTypes
<1>14. start <= Len(a) /\ pos + RC!Bytes \in Nat
  BY <1>4, <1>5, <1>13
<1>15. CASE /\ f = HP!Npos /\ pos' = pos + RC!Bytes /\ receiving' = "headers"
            /\ UNCHANGED <<start, length, was_read>>
  <2>1. RecvTypes'
    BY <1>4, <1>5, <1>10, <1>12, <1>13, <1>14, <1>15 DEF RecvTypes
  <2>2. pos' = n2
    BY <1>4, <1>6, <1>9, <1>15
  <2>3. Fine(s, r2) /\ EndOf(s) \in Nat => n2 <= EndOf(s)
    BY <1>7, <1>11, <1>15 DEF HP!Npos
  <2>4. InHeaders(s, r2, n2)
    BY <1>12, <2>3 DEF InHeaders
  <2>5. HeadersInv'
    BY <1>12, <2>2, <2>4 DEF HeadersInv
  <2>6. QED BY <1>2, <1>5, <1>15, <2>1, <2>5 DEF RecvInv, BodyInv, WaitInv, DoneInv,
  NoBodyInv
<1>16. CASE /\ f # HP!Npos /\ pos' = pos
            /\ \/ receiving' = "thrown"
               \/ receiving' = "done" /\ d = HP!Npos /\ ~RC!HasEmptyLine(a)
            /\ UNCHANGED <<start, length, was_read>>
  <2>1. RecvTypes'
    BY <1>4, <1>5, <1>10, <1>12, <1>13, <1>14, <1>16 DEF RecvTypes
  <2>2. receiving' = "done" => IsMeant(s, r2, <<>>)
    <3> SUFFICES ASSUME Fine(s, r2), receiving' = "done"
                 PROVE  EndOf(s) \in Nat
                        /\ <<>> = HP!Substr(s, EndOf(s) + 4, RequestOf(s) - (EndOf(s) + 4))
      BY DEF IsMeant
    <3>1. EndOf(s) \in Nat /\ d = MeantOf(s) /\ d = HP!Npos
      BY <1>11, <1>16
    <3>2. RequestOf(s) = EndOf(s) + 4
      BY <3>1, RequestIs
    <3>3. PICK st \in Nat : st = EndOf(s) + 4
      BY <3>1
    <3>4. RequestOf(s) - st = 0
      BY <3>2, <3>3
    <3>5. HP!Substr(s, st, 0) = <<>>
      BY NoPart
    <3>6. QED BY <3>1, <3>3, <3>4, <3>5
  <2>3. DoneInv'
    BY <1>2, <1>5, <1>12, <2>2 DEF DoneInv
  <2>4. QED BY <1>2, <1>5, <1>16, <2>1, <2>3 DEF RecvInv, HeadersInv, BodyInv, WaitInv,
  NoBodyInv
<1>17. CASE /\ f # HP!Npos /\ pos' = pos /\ d \notin {HP!Npos, NoNumber}
               /\ receiving' = "first" /\ ~RC!HasEmptyLine(a)
            /\ start' = f + 4 /\ length' = d /\ was_read' = Len(a) - (f + 4)
  <2>0. f \in Nat /\ f + 4 <= Len(a)
    BY <1>7, <1>17
  <2>1. PICK st \in Nat : st = f + 4
    BY <2>0
  <2>2. st <= Len(a) /\ start' = st /\ was_read' = Len(a) - st /\ length' = d /\ d \in 0 .. 9
    BY <1>8, <1>17, <2>0, <2>1
  <2>3. PICK w \in Nat : w = Len(a) - st
    <3>1. PICK x \in Nat : x = Len(a)
      BY <1>5
    <3>2. st <= x
      BY <2>2, <3>1
    <3>3. x - st \in Nat
      BY <3>2
    <3>4. QED BY <3>1, <3>3
  <2>4. RecvTypes'
    BY <1>4, <1>5, <1>10, <1>12, <1>13, <1>17, <2>2, <2>3 DEF RecvTypes
  <2>5. w + st = Len(a)
    BY <1>5, <2>3
  <2>6. Len(a) <= n2 /\ (NulFree(s, n2) => Len(a) = n2)
    <3>1. n2 \in 0 .. n2
      OBVIOUS
    <3>2. Len(a) <= n2 /\ (NulFree(s, n2) => n2 <= Len(a))
      BY <1>10, <3>1 DEF Kept
    <3>3. QED BY <1>5, <3>2
  <2>7. Fine(s, r2) => /\ EndOf(s) \in Nat /\ st = EndOf(s) + 4
                       /\ d = MeantOf(s) /\ MeantOf(s) \notin {HP!Npos, NoNumber}
    BY <1>11, <1>17, <2>1
  <2>8. InBody(s, r2, st, w, d)
    BY <1>12, <2>5, <2>6, <2>7 DEF InBody
  <2>9. BodyInv'
    BY <1>12, <2>2, <2>3, <2>8 DEF BodyInv
  <2>10. QED BY <1>2, <1>5, <1>17, <2>4, <2>9 DEF RecvInv, HeadersInv, WaitInv, DoneInv,
  NoBodyInv
<1>18. QED BY <1>2, <1>15, <1>16, <1>17

\* A round of read_body keeps the invariant.
LEMMA ReadBodyKept == ASSUME RecvInv, RC!ReadBody PROVE RecvInv'
<1>1. /\ receiving \in {"first", "body"} /\ RC!Read /\ was_read' = was_read + RC!Bytes
      /\ stream' = stream /\ unsent' = unsent /\ fin' = fin
      /\ UNCHANGED <<pos, start, length>>
  BY SameViews DEF RC!ReadBody, RC!client
<1>2. RecvTypes /\ BodyInv /\ NoBodyInv
  BY DEF RecvInv
<1>3. PICK s \in HP!Text, n \in Nat, m \in Nat, a \in HP!Text, r \in Seq(Nat),
    r2 \in Seq(Nat) :
           /\ s = stream /\ r = reads /\ r2 = reads' /\ n = SoFar(r) /\ m = RC!Bytes
           /\ a = RC!Appended /\ a = buffer'
           /\ Marks(r2) /\ SoFar(r2) = n + m /\ n + m <= Len(s) /\ Kept(s, n + m, a)
           /\ Len(buffer) <= Len(a) /\ (NulFree(s, n) => Begins(a, s))
           /\ (Fine(s, r2) => Fine(s, r))
           /\ socket' \in HP!Text /\ Divided(s, n + m, socket', unsent')
  BY <1>1, <1>2, ReadIs
<1>4. PICK st \in Nat, w \in Nat, l \in 0 .. 9 :
        st = start /\ w = was_read /\ l = length /\ st <= Len(buffer) /\ Len(buffer) \in Nat
  BY <1>2, CharIs DEF RecvTypes
<1>5. InBody(s, r, st, w, l)
  BY <1>1, <1>2, <1>3, <1>4 DEF BodyInv
<1>6. PICK n2 \in Nat : n2 = n + m
  OBVIOUS
<1>7. PICK w2 \in Nat : w2 = w + m
  OBVIOUS
<1>8. /\ stream' = s /\ reads' = r2 /\ buffer' = a /\ SoFar(r2) = n2 /\ was_read' = w2
      /\ start' = st /\ length' = l /\ Divided(s, n2, socket', unsent')
  BY <1>1, <1>3, <1>4, <1>6, <1>7
<1>9. Len(s) \in Nat /\ Len(a) \in Nat /\ n2 <= Len(s) /\ Kept(s, n2, a) /\ Marks(r2)
  BY <1>3, <1>6, CharIs
<1>10. st <= Len(a)
  <2>1. st <= Len(buffer) /\ Len(buffer) \in Nat /\ Len(buffer) <= Len(a)
    BY <1>3, <1>4
  <2>2. QED BY <1>9, <2>1
<1>11. InBody(s, r2, st, w2, l)
  <2>1. w + st <= n /\ (NulFree(s, n) => w + st = n)
    BY <1>3, <1>5 DEF InBody
  <2>2. w2 + st <= n2
    BY <1>6, <1>7, <2>1
  <2>3. NulFree(s, n2) => w2 + st = n2
    <3> SUFFICES ASSUME NulFree(s, n2) PROVE w2 + st = n2
      OBVIOUS
    <3>1. NulFree(s, n)
      BY <1>6, NulFreeLess
    <3>2. w + st = n
      BY <2>1, <3>1
    <3>3. QED BY <1>6, <1>7, <3>2
  <2>4. Fine(s, r2) => /\ EndOf(s) \in Nat /\ st = EndOf(s) + 4
                       /\ l = MeantOf(s) /\ MeantOf(s) \notin {HP!Npos, NoNumber}
    BY <1>3, <1>5 DEF InBody
  <2>5. QED BY <1>8, <2>2, <2>3, <2>4 DEF InBody
<1>12. /\ fin' \in {"no", "closed", "reset"} /\ unsent' \in HP!Text /\ pos' \in Nat
  BY <1>1, <1>2 DEF RecvTypes
<1>13. IF w2 < l THEN receiving' = "body" /\ received' = received ELSE receiving' = "done"
    /\ received' = HP!Substr(a, st, l)
  BY <1>3, <1>4, <1>8, SameViews DEF RC!ReadBody
<1>14. RecvTypes'
  <2>1. receiving' \in {"headers", "first", "body", "done", "thrown"}
    BY <1>13
  <2>2. QED BY <1>3, <1>8, <1>9, <1>10, <1>12, <2>1 DEF RecvTypes
<1>15. received = <<>>
  BY <1>1, <1>2 DEF NoBodyInv
<1>16. CASE w2 < l
  <2>1. receiving' = "body" /\ received' = received
    BY <1>13, <1>16
  <2>2. BodyInv' /\ WaitInv'
    BY <1>8, <1>11, <1>16 DEF BodyInv, WaitInv
  <2>3. QED BY <1>14, <1>15, <2>1, <2>2 DEF RecvInv, HeadersInv, DoneInv, NoBodyInv
<1>17. CASE ~(w2 < l)
  <2>1. receiving' = "done" /\ received' = HP!Substr(a, st, l)
    BY <1>13, <1>17
  <2>2. IsMeant(s, r2, HP!Substr(a, st, l))
    <3> SUFFICES ASSUME Fine(s, r2)
                 PROVE  /\ EndOf(s) \in Nat
                        /\ HP!Substr(a, st, l) = HP!Substr(s, EndOf(s) + 4,
                           RequestOf(s) - (EndOf(s) + 4))
      BY DEF IsMeant
    <3>1. /\ EndOf(s) \in Nat /\ st = EndOf(s) + 4 /\ l = MeantOf(s)
          /\ MeantOf(s) \notin {HP!Npos, NoNumber} /\ w2 + st <= n2
      BY <1>8, <1>11 DEF InBody
    <3>2. PICK q \in Nat : q = RequestOf(s)
      BY <3>1, RequestIs
    <3>3. q = st + l
      BY <3>1, <3>2, RequestIs
    <3>4. q <= n2
      BY <1>17, <3>1, <3>3
    <3>5. q <= Len(s) /\ q \in 0 .. n2
      BY <1>9, <3>4
    <3>6. NulFree(s, q)
      BY <3>2, <3>5, WholeIs DEF Fine
    <3>7. q <= Len(a) /\ \A i \in 1 .. q : a[i] = s[i]
      BY <1>9, <3>5, <3>6 DEF Kept
    <3>8. HP!Substr(a, st, l) = HP!Substr(s, st, l)
      BY <3>3, <3>5, <3>7, SameParts
    <3>9. RequestOf(s) - (EndOf(s) + 4) = l
      BY <3>1, <3>2, <3>3
    <3>10. QED BY <3>1, <3>8, <3>9
  <2>3. DoneInv'
    BY <1>8, <2>1, <2>2 DEF DoneInv
  <2>4. QED BY <1>14, <2>1, <2>3 DEF RecvInv, HeadersInv, BodyInv, WaitInv, NoBodyInv
<1>18. QED BY <1>16, <1>17

\* Every step keeps the invariant.
LEMMA RecvStepKept == RecvInv /\ [RC!Next]_(RC!vars) => RecvInv'
<1> SUFFICES ASSUME RecvInv, [RC!Next]_(RC!vars) PROVE RecvInv'
  OBVIOUS
<1> USE DEF RecvInv, HeadersInv, BodyInv, WaitInv, DoneInv, NoBodyInv
<1>1. CASE RC!ClientSends
  <2>1. PICK n \in 1 .. Len(unsent) :
          socket' = socket \o HP!Substr(unsent, 0, n) /\ unsent' = HP!RemovePrefix(unsent, n)
    BY <1>1, SameViews DEF RC!ClientSends
  <2>2. /\ stream \in HP!Text /\ socket \in HP!Text /\ unsent \in HP!Text
        /\ Divided(stream, SoFar(reads), socket, unsent)
    BY DEF RecvTypes
  <2>3. /\ socket \o HP!Substr(unsent, 0, n) \in HP!Text
           /\ HP!RemovePrefix(unsent, n) \in HP!Text
        /\ Divided(stream, SoFar(reads), socket \o HP!Substr(unsent, 0, n),
           HP!RemovePrefix(unsent, n))
    BY <2>2, SentOn
  <2>4. /\ socket' \in HP!Text /\ unsent' \in HP!Text
        /\ Divided(stream, SoFar(reads), socket', unsent')
    BY <2>1, <2>3
  <2>5. UNCHANGED <<fin, buffer, receiving, pos, reads, start, length, was_read, received,
      stream>>
    BY <1>1, SameViews DEF RC!ClientSends
  <2>6. RecvTypes'
    BY <2>4, <2>5 DEF RecvTypes
  <2>7. QED BY <2>5, <2>6
<1>2. CASE RC!ClientEnds
  <2>1. /\ fin' \in {"no", "closed", "reset"}
        /\ UNCHANGED <<unsent, socket, buffer, receiving, pos, reads, start, length,
           was_read, received, stream>>
    BY <1>2 DEF RC!ClientEnds
  <2>2. RecvTypes'
    BY <2>1 DEF RecvTypes
  <2>3. QED BY <2>1, <2>2
<1>3. CASE RC!ReadFails \/ RC!Kill
  <2>1. /\ receiving \in {"headers", "first", "body"} /\ receiving' = "thrown"
        /\ UNCHANGED <<unsent, fin, stream, socket, buffer, pos, reads, start, length,
           was_read, received>>
    BY <1>3 DEF RC!ReadFails, RC!Kill, RC!client
  <2>2. RecvTypes'
    BY <2>1 DEF RecvTypes
  <2>3. QED BY <2>1, <2>2
<1>4. CASE UNCHANGED RC!vars
  <2>1. UNCHANGED <<unsent, socket, fin, buffer, receiving, pos, reads, start, length,
      was_read, received, stream>>
    BY <1>4 DEF RC!vars
  <2>2. RecvTypes'
    BY <2>1 DEF RecvTypes
  <2>3. QED BY <2>1, <2>2
<1>5. QED BY <1>1, <1>2, <1>3, <1>4, ReceiveKept, ReadBodyKept DEF RC!Next

\* The names the properties use are the ones of the proof, for the stream.
LEMMA NamesAre == ASSUME RecvInv
  PROVE  /\ RC!End = EndOf(stream) /\ RC!BodyStart = EndOf(stream) + 4
            /\ RC!Meant = MeantOf(stream)
         /\ RC!Request = RequestOf(stream) /\ RC!NoNul = Whole(stream)
         /\ RC!Cut <=> CutIn(stream, reads)
         /\ RC!Got = HP!Substr(stream, 0, SoFar(reads))
<1>1. Len(HP!HeadersEnd) = 4 /\ Len(HP!Endline) = 2
  BY Ends
<1>2. RC!End = EndOf(stream) /\ RC!BodyStart = EndOf(stream) + 4
  BY <1>1, SameViews DEF RC!End, RC!BodyStart, EndOf
<1>3. RC!Meant = MeantOf(stream)
  BY <1>2, SameViews DEF RC!Meant, MeantOf
<1>4. RC!Request = RequestOf(stream)
  BY <1>2, <1>3, SameViews DEF RC!Request, RequestOf
<1>5. RC!NoNul = Whole(stream)
  BY <1>2, <1>4, SameViews DEF RC!NoNul, Whole
<1>6. DOMAIN reads = 1 .. Len(reads)
  <2>1. reads \in Seq(Nat)
    BY DEF RecvInv, RecvTypes, Marks
  <2>2. QED BY <2>1
<1>7. RC!Cut <=> CutIn(stream, reads)
  BY <1>2, <1>6, SameViews DEF RC!Cut, CutIn
<1>8. RC!Got = HP!Substr(stream, 0, SoFar(reads))
  BY SameViews DEF RC!Got, RC!ReadSoFar, SoFar
<1>9. QED BY <1>2, <1>3, <1>4, <1>5, <1>7, <1>8

\* The invariant has the types of Receiver.
LEMMA RecvTypesAre == RecvInv => RC!TypeOK
<1> SUFFICES ASSUME RecvInv PROVE RC!TypeOK
  OBVIOUS
<1>1. RecvTypes
  BY DEF RecvInv
<1>2. PICK s \in HP!Text, a \in HP!Text, u \in HP!Text, b \in HP!Text, r \in Seq(Nat),
    n \in Nat :
        /\ s = stream /\ a = socket /\ u = unsent /\ b = buffer /\ r = reads /\ n = SoFar(r)
        /\ Marks(r) /\ Divided(s, n, a, u) /\ Kept(s, n, b)
  BY <1>1 DEF RecvTypes, Marks, Divided
<1>3. PICK g : g = HP!Substr(s, 0, n)
  OBVIOUS
<1>4. /\ g \in HP!Text /\ Begins(g, s) /\ Len(g) = n /\ n \in Nat /\ n <= Len(s)
      /\ Joined(s, g, a, u)
  <2>1. /\ HP!Substr(s, 0, n) \in HP!Text /\ Begins(HP!Substr(s, 0, n), s)
           /\ Len(HP!Substr(s, 0, n)) = n
        /\ n \in Nat /\ n <= Len(s) /\ Joined(s, HP!Substr(s, 0, n), a, u)
    <3>1. Divided(s, n, a, u)
      BY <1>2
    <3>2. QED BY <3>1, StreamIs
  <2>2. QED BY <1>3, <2>1
<1>5. RC!Got = g
  BY <1>2, <1>3, NamesAre
<1>6. stream = RC!Got \o socket \o unsent
  BY <1>2, <1>4, <1>5 DEF Joined
<1>7. Len(buffer) <= Len(RC!Got) /\ Len(buffer) \in Nat
  BY <1>2, <1>4, <1>5, CharIs DEF Kept
<1>8. HP!Find(RC!Got, <<HP!NUL>>, 0) = HP!Npos => buffer = RC!Got
  <2> SUFFICES ASSUME HP!Find(g, <<HP!NUL>>, 0) = HP!Npos PROVE b = g
    BY <1>2, <1>5
  <2>1. NulFree(s, n)
    BY <1>4, NulFreeIn
  <2>2. n \in 0 .. n /\ Len(b) \in Nat
    BY <1>4, CharIs
  <2>3. Len(b) <= n /\ n <= Len(b) /\ \A i \in 1 .. n : b[i] = s[i]
    BY <1>2, <2>1, <2>2 DEF Kept
  <2>4. Len(b) = n
    BY <1>4, <2>2, <2>3
  <2>5. \A i \in 1 .. n : g[i] = s[i]
    BY <1>4 DEF Begins
  <2>6. QED BY <1>4, <2>3, <2>4, <2>5, SameTexts
<1>9. /\ reads \in Seq(Nat) /\ DOMAIN reads = 1 .. Len(reads)
      /\ \A k \in DOMAIN reads : reads[k] - (IF k = 1 THEN 0
         ELSE reads[k - 1]) \in 1 .. MaxRead
  <2>1. reads \in Seq(Nat)
    BY <1>2 DEF Marks
  <2>2. DOMAIN reads = 1 .. Len(reads)
    BY <2>1
  <2>3. QED BY <1>2, <2>1, <2>2 DEF Marks
<1>10. start \in 0 .. Len(buffer)
  BY <1>1, <1>7 DEF RecvTypes
<1>11. QED BY <1>1, <1>6, <1>7, <1>8, <1>9, <1>10, SameViews DEF RC!TypeOK, RecvTypes

\* The invariant says which body is returned.
LEMMA BodyIsMeant == RecvInv => RC!BodyIsTheDeclaredPart
<1> SUFFICES ASSUME RecvInv, receiving = "done", ~RC!Cut, RC!NoNul
             PROVE  RC!End # HP!Npos
                    /\ received = HP!Substr(stream, RC!BodyStart, RC!Request - RC!BodyStart)
  BY SameViews DEF RC!BodyIsTheDeclaredPart
<1>1. Fine(stream, reads)
  BY NamesAre DEF Fine
<1>2. /\ EndOf(stream) \in Nat
      /\ received = HP!Substr(stream, EndOf(stream) + 4,
         RequestOf(stream) - (EndOf(stream) + 4))
  BY <1>1 DEF RecvInv, DoneInv, IsMeant
<1>3. EndOf(stream) # HP!Npos
  BY <1>2 DEF HP!Npos
<1>4. QED BY <1>2, <1>3, NamesAre

\* The invariant says when receive waits.
LEMMA WaitsForMore == RecvInv => RC!YieldsForAReason
<1> SUFFICES ASSUME RecvInv, receiving \in {"headers", "body"}, RC!End # HP!Npos,
    Len(RC!Got) >= RC!Request,
                    ~RC!Cut, HP!Find(RC!Got, <<HP!NUL>>, 0) = HP!Npos
             PROVE  FALSE
  BY SameViews DEF RC!YieldsForAReason
<1>1. PICK s \in HP!Text, a \in HP!Text, u \in HP!Text, r \in Seq(Nat), n \in Nat :
        /\ s = stream /\ a = socket /\ u = unsent /\ r = reads /\ n = SoFar(r)
        /\ Marks(r) /\ Divided(s, n, a, u)
  <2>1. /\ stream \in HP!Text /\ socket \in HP!Text /\ unsent \in HP!Text
        /\ Marks(reads) /\ Divided(stream, SoFar(reads), socket, unsent)
    BY DEF RecvInv, RecvTypes
  <2>2. reads \in Seq(Nat) /\ SoFar(reads) \in Nat
    BY <2>1 DEF Marks, Divided
  <2>3. QED BY <2>1, <2>2
<1>2. PICK g : g = HP!Substr(s, 0, n)
  OBVIOUS
<1>3. g \in HP!Text /\ Begins(g, s) /\ Len(g) = n /\ n \in Nat /\ n <= Len(s)
  BY <1>1, <1>2, StreamIs
<1>4. RC!Got = g /\ RC!Request = RequestOf(s) /\ RC!End = EndOf(s)
  BY <1>1, <1>2, NamesAre
<1>5. EndOf(s) \in Nat
  BY <1>4, EndIs
<1>6. PICK f \in Nat, q \in Nat : f = EndOf(s) /\ q = RequestOf(s) /\ f + 4 <= q /\ q <= n
  BY <1>3, <1>4, <1>5, RequestIs
<1>7. NulFree(s, n)
  BY <1>3, <1>4, NulFreeIn
<1>8. Whole(s)
  BY <1>3, <1>5, <1>6, <1>7, WholeWhen
<1>9. Fine(s, r)
  BY <1>1, <1>8, NamesAre DEF Fine
<1>10. CASE receiving = "headers"
  <2>1. n <= f
    BY <1>1, <1>5, <1>6, <1>9, <1>10 DEF RecvInv, HeadersInv, InHeaders
  <2>2. QED BY <1>3, <1>6, <2>1
<1>11. CASE receiving = "body"
  <2>1. InBody(s, r, start, was_read, length) /\ was_read < length
    BY <1>1, <1>11 DEF RecvInv, BodyInv, WaitInv
  <2>2. PICK st \in Nat, w \in Nat, l \in 0 .. 9 : st = start /\ w = was_read /\ l = length
    BY DEF RecvInv, RecvTypes
  <2>3. w + st = n /\ st = f + 4 /\ l = MeantOf(s) /\ MeantOf(s) \notin {HP!Npos, NoNumber}
      /\ w < l
    BY <1>1, <1>6, <1>7, <1>9, <2>1, <2>2 DEF InBody
  <2>4. q = f + 4 + l
    BY <1>5, <1>6, <2>3, RequestIs
  <2>5. QED BY <1>3, <1>6, <2>3, <2>4
<1>12. QED BY <1>10, <1>11

\* receive of HttpRequest.cpp and Server.cpp: for any bytes of a client, cut anywhere,
\* the body is the declared number of bytes behind the headers, and it waits for more
\* only when the request is not complete - but for the cases the properties name.
THEOREM ReceiverHolds == RC!Spec
    => [](RC!TypeOK /\ RC!BodyIsTheDeclaredPart /\ RC!YieldsForAReason)
<1>1. RecvInv => RC!TypeOK /\ RC!BodyIsTheDeclaredPart /\ RC!YieldsForAReason
  BY RecvTypesAre, BodyIsMeant, WaitsForMore
<1>2. QED BY <1>1, RecvInit, RecvStepKept, PTL DEF RC!Spec

-----------------------------------------------------------------------------
(***************************************************************************)
(* HttpResponse: any headers, bodies and order of the calls of a handler   *)
(***************************************************************************)

HeaderNames == Names \cup {HR!ContentLength, HR!ContentType}
CallNames == HeaderNames \cup {"setStatus", "setBody"}
Piece == ((HeaderNames \cup {"HTTP"}) \X Nat) \cup {<<"">>} \cup HR!Chars

\* name is not among the calls c, or once.
Never(c, name) == \A i \in 1 .. Len(c) : c[i] # name
Once(c, name) == \E i \in 1 .. Len(c) : \A j \in 1 .. Len(c) : c[j] = name <=> j = i

AnswerTypes ==
  /\ answering \in {"request", "handler", "return", "send", "yield", "sent", "thrown"}
  /\ status \in Codes \cup {200} /\ body \in Bodies \cup {<<>>}
  /\ DOMAIN headers \subseteq HeaderNames /\ IsFiniteSet(DOMAIN headers)
  /\ \A n \in DOMAIN headers : headers[n] \in Nat
  /\ calls \in Seq(CallNames) /\ Len(calls) <= MaxCalls
  /\ answering = "request" => calls = <<>> /\ headers = HR!NoHeaders

\* The Content-Length is the one of the body, unless the handler says otherwise.
LengthInv ==
  Never(calls, HR!ContentLength) =>
    /\ Never(calls, "setBody") => HR!ContentLength \notin DOMAIN headers
    /\ Once(calls, "setBody") =>
         HR!ContentLength \in DOMAIN headers /\ headers[HR!ContentLength] = Len(body)

\* The message m has a line for each header of h, an empty one, and the body b.
IsAnswer(m, h, b) ==
  \E k \in Nat :
    /\ Len(m) = k + Len(b) + 4
    /\ \E s \in Nat : m[1] = <<"HTTP", s>>
    /\ \A i \in 2 .. k + 1 : \E n \in DOMAIN h : m[i] = <<n, h[n]>>
    /\ \A n \in DOMAIN h : \E i \in 2 .. k + 1 : m[i] = <<n, h[n]>>
    /\ m[k + 2] = <<"">>
    /\ \A i \in 1 .. Len(b) : m[k + 2 + i] = b[i]

SentInv ==
  /\ msg \in Seq(Piece) /\ got \in Seq(Piece)
  /\ sended = Len(got) /\ sended <= Len(msg)
  /\ \A i \in 1 .. Len(got) : got[i] = msg[i]
  /\ answering \in {"request", "handler", "return"} => msg = <<>>
  /\ answering \in {"send", "yield", "sent"} => IsAnswer(msg, headers, body)
  /\ answering = "sent" => sended = Len(msg)

\* What the constants of HttpResponse are.
LEMMA Constants ==
  /\ MaxCalls \in Nat /\ MaxCalls >= 2 /\ Codes \subseteq Nat
     /\ Bodies \subseteq Seq(HR!Chars)
  /\ Hello \in Bodies /\ "setStatus" \notin Names /\ "setBody" \notin Names
  BY AnswersAssumption DEF HR!ResponseAssumption

\* The names of headers and of other calls are different.
LEMMA HandlerNames ==
  /\ HR!ContentLength \in HeaderNames /\ HR!ContentType \in HeaderNames
     /\ Names \subseteq HeaderNames
  /\ HeaderNames \subseteq CallNames /\ "setStatus" \in CallNames /\ "setBody" \in CallNames
  /\ "setBody" \notin HeaderNames /\ "setBody" # HR!ContentLength
     /\ HR!ContentType # HR!ContentLength
  /\ "setStatus" # "setBody" /\ "setStatus" # HR!ContentLength /\ HR!ContentType # "setBody"
  BY Constants DEF HeaderNames, CallNames, HR!ContentLength, HR!ContentType

\* One call more.
LEMMA CallMore == ASSUME NEW c \in Seq(CallNames), NEW x \in CallNames, NEW name
  PROVE  /\ Append(c, x) \in Seq(CallNames) /\ Len(Append(c, x)) = Len(c) + 1
         /\ Never(Append(c, x), name) => Never(c, name) /\ x # name
         /\ Once(Append(c, x), name) => IF x = name THEN Never(c, name) ELSE Once(c, name)
<1>1. /\ Append(c, x) \in Seq(CallNames) /\ Len(Append(c, x)) = Len(c) + 1 /\ Len(c) \in Nat
      /\ \A i \in 1 .. Len(c) : Append(c, x)[i] = c[i]
      /\ Append(c, x)[Len(c) + 1] = x
  OBVIOUS
<1> DEFINE d == Append(c, x)
<1> HIDE DEF d
<1>2. /\ Len(d) = Len(c) + 1 /\ Len(c) \in Nat
      /\ \A i \in 1 .. Len(c) : d[i] = c[i] /\ i \in 1 .. Len(d)
      /\ d[Len(c) + 1] = x /\ Len(c) + 1 \in 1 .. Len(d)
  BY <1>1 DEF d
<1>3. Never(d, name) => Never(c, name) /\ x # name
  BY <1>2 DEF Never
<1>4. ASSUME Once(d, name) PROVE IF x = name THEN Never(c, name) ELSE Once(c, name)
  <2>1. PICK i \in 1 .. Len(d) : \A j \in 1 .. Len(d) : d[j] = name <=> j = i
    BY <1>4 DEF Once
  <2>2. CASE x = name
    <3>1. i = Len(c) + 1
      BY <1>2, <2>1, <2>2
    <3>2. ASSUME NEW j \in 1 .. Len(c) PROVE c[j] # name
      BY <1>2, <2>1, <3>1
    <3>3. QED BY <2>2, <3>2 DEF Never
  <2>3. CASE x # name
    <3>1. i \in 1 .. Len(c)
      BY <1>2, <2>1, <2>3
    <3>2. \A j \in 1 .. Len(c) : c[j] = name <=> j = i
      BY <1>2, <2>1
    <3>3. QED BY <2>3, <3>1, <3>2 DEF Once
  <2>4. QED BY <2>2, <2>3
<1>5. QED BY <1>1, <1>3, <1>4 DEF d

\* emplace adds one header, or none.
LEMMA EmplaceIs == ASSUME NEW map, NEW n, NEW v
  PROVE  /\ DOMAIN HR!Emplace(map, n, v) = DOMAIN map \cup {n}
         /\ \A m \in DOMAIN map : HR!Emplace(map, n, v)[m] = map[m]
         /\ n \notin DOMAIN map => HR!Emplace(map, n, v)[n] = v
         /\ IsFiniteSet(DOMAIN map) => IsFiniteSet(DOMAIN HR!Emplace(map, n, v))
<1>1. DOMAIN HR!Emplace(map, n, v) = DOMAIN map \cup {n}
  BY DEF HR!Emplace
<1>2. IsFiniteSet(DOMAIN map) => IsFiniteSet(DOMAIN HR!Emplace(map, n, v))
  BY <1>1, FS_AddElement
<1>3. /\ \A m \in DOMAIN map : HR!Emplace(map, n, v)[m] = map[m]
      /\ n \notin DOMAIN map => HR!Emplace(map, n, v)[n] = v
  BY DEF HR!Emplace
<1>4. QED BY <1>1, <1>2, <1>3

\* A response begins without headers.
LEMMA NoHeadersAre == DOMAIN HR!NoHeaders = {} /\ IsFiniteSet(DOMAIN HR!NoHeaders)
  BY FS_EmptySet DEF HR!NoHeaders

-----------------------------------------------------------------------------
\* The invariant holds at the start.
LEMMA AnswerInit == HR!Init => AnswerTypes /\ LengthInv /\ SentInv
<1> SUFFICES ASSUME HR!Init PROVE AnswerTypes /\ LengthInv /\ SentInv
  OBVIOUS
<1>1. AnswerTypes
  BY NoHeadersAre, Constants DEF HR!Init, AnswerTypes
<1>2. LengthInv
  BY NoHeadersAre DEF HR!Init, LengthInv, Once
<1>3. SentInv
  BY DEF HR!Init, SentInv
<1>4. QED BY <1>1, <1>2, <1>3

\* The calls of a handler keep the length with the body.
LEMMA HandlerStep == ASSUME AnswerTypes, LengthInv, HR!Handler PROVE AnswerTypes'
    /\ LengthInv'
<1> USE HandlerNames
<1>1. CASE HR!Construct \/ HR!Return
  BY <1>1 DEF HR!Construct, HR!Return, AnswerTypes, LengthInv
<1>2. CASE HR!SetStatus
  <2>1. calls' = Append(calls, "setStatus") /\ Len(calls) < MaxCalls
      /\ calls \in Seq(CallNames)
    BY <1>2 DEF HR!SetStatus, HR!Called, AnswerTypes
  <2>2. calls' \in Seq(CallNames) /\ Len(calls') = Len(calls) + 1
    BY <2>1, CallMore
  <2>3. AnswerTypes'
    BY <1>2, <2>1, <2>2, Constants DEF HR!SetStatus, AnswerTypes
  <2>4. /\ Never(calls', HR!ContentLength) => Never(calls, HR!ContentLength)
        /\ Never(calls', "setBody") => Never(calls, "setBody")
        /\ Once(calls', "setBody") => Once(calls, "setBody")
    BY <2>1, CallMore
  <2>5. QED BY <1>2, <2>3, <2>4 DEF HR!SetStatus, LengthInv
<1>3. CASE HR!SetHeader
  <2>1. PICK n \in Names : \E v \in {0, 1} : HR!Called(n)
      /\ headers' = HR!Emplace(headers, n, v)
    BY <1>3 DEF HR!SetHeader
  <2>2. PICK v \in {0, 1} : HR!Called(n) /\ headers' = HR!Emplace(headers, n, v)
    BY <2>1
  <2>3. calls' = Append(calls, n) /\ Len(calls) < MaxCalls /\ calls \in Seq(CallNames)
      /\ n \in CallNames
    BY <2>2 DEF HR!Called, AnswerTypes
  <2>4. calls' \in Seq(CallNames) /\ Len(calls') = Len(calls) + 1
    BY <2>3, CallMore
  <2>5. /\ DOMAIN headers' = DOMAIN headers \cup {n} /\ IsFiniteSet(DOMAIN headers')
        /\ \A m \in DOMAIN headers : headers'[m] = headers[m]
        /\ n \notin DOMAIN headers => headers'[n] = v
    <3>1. /\ DOMAIN HR!Emplace(headers, n, v) = DOMAIN headers \cup {n}
          /\ \A m \in DOMAIN headers : HR!Emplace(headers, n, v)[m] = headers[m]
          /\ n \notin DOMAIN headers => HR!Emplace(headers, n, v)[n] = v
          /\ IsFiniteSet(DOMAIN headers) => IsFiniteSet(DOMAIN HR!Emplace(headers, n, v))
      BY EmplaceIs
    <3>2. QED BY <2>2, <3>1 DEF AnswerTypes
  <2>6. AnswerTypes'
    BY <1>3, <2>3, <2>4, <2>5, Constants DEF HR!SetHeader, AnswerTypes
  <2>7. /\ Never(calls', HR!ContentLength) => Never(calls, HR!ContentLength)
           /\ n # HR!ContentLength
        /\ Never(calls', "setBody") => Never(calls, "setBody")
        /\ n # "setBody" /\ (Once(calls', "setBody") => Once(calls, "setBody"))
    BY <2>3, CallMore
  <2>8. QED BY <1>3, <2>5, <2>6, <2>7 DEF HR!SetHeader, LengthInv
<1>4. CASE HR!SetBody
  <2>1. PICK b \in Bodies : body' = b
      /\ headers' = HR!Emplace(headers, HR!ContentLength, Len(b))
    BY <1>4 DEF HR!SetBody
  <2>2. calls' = Append(calls, "setBody") /\ Len(calls) < MaxCalls /\ calls \in Seq(CallNames)
    BY <1>4 DEF HR!SetBody, HR!Called, AnswerTypes
  <2>3. calls' \in Seq(CallNames) /\ Len(calls') = Len(calls) + 1
    BY <2>2, CallMore
  <2>4. Len(b) \in Nat
    BY Constants
  <2>5. /\ DOMAIN headers' = DOMAIN headers \cup {HR!ContentLength}
           /\ IsFiniteSet(DOMAIN headers')
        /\ \A m \in DOMAIN headers : headers'[m] = headers[m]
        /\ HR!ContentLength \notin DOMAIN headers => headers'[HR!ContentLength] = Len(b)
    <3>1. /\ DOMAIN HR!Emplace(headers, HR!ContentLength, Len(b)) = DOMAIN headers
             \cup {HR!ContentLength}
          /\ \A m \in DOMAIN headers : HR!Emplace(headers, HR!ContentLength,
             Len(b))[m] = headers[m]
          /\ HR!ContentLength \notin DOMAIN headers
             => HR!Emplace(headers, HR!ContentLength, Len(b))[HR!ContentLength] = Len(b)
          /\ IsFiniteSet(DOMAIN headers)
             => IsFiniteSet(DOMAIN HR!Emplace(headers, HR!ContentLength, Len(b)))
      BY EmplaceIs
    <3>2. QED BY <2>1, <3>1 DEF AnswerTypes
  <2>6. AnswerTypes'
    BY <1>4, <2>1, <2>2, <2>3, <2>4, <2>5, Constants DEF HR!SetBody, AnswerTypes
  <2>7. /\ Never(calls', HR!ContentLength) => Never(calls, HR!ContentLength)
        /\ ~Never(calls', "setBody")
        /\ Once(calls', "setBody") => Never(calls, "setBody")
    BY <2>2, CallMore
  <2>8. QED BY <2>1, <2>5, <2>6, <2>7 DEF LengthInv
<1>5. CASE HR!OnRequest
  <2>1. CASE UNCHANGED <<headers, body, calls>>
    BY <1>5, <2>1 DEF HR!OnRequest, AnswerTypes, LengthInv
  <2>2. CASE /\ headers' = HR!Emplace(HR!Emplace(HR!NoHeaders, HR!ContentType, 0),
                HR!ContentLength, Len(Hello))
             /\ body' = Hello /\ calls' = <<HR!ContentType, "setBody">>
    <3>1. Len(Hello) \in Nat
      BY Constants
    <3> DEFINE h == HR!Emplace(HR!NoHeaders, HR!ContentType, 0)
    <3> HIDE DEF h
    <3>2. /\ DOMAIN h = DOMAIN HR!NoHeaders \cup {HR!ContentType}
          /\ HR!ContentType \notin DOMAIN HR!NoHeaders => h[HR!ContentType] = 0
          /\ IsFiniteSet(DOMAIN HR!NoHeaders) => IsFiniteSet(DOMAIN h)
      BY EmplaceIs DEF h
    <3>8. /\ DOMAIN headers' = DOMAIN h \cup {HR!ContentLength}
          /\ \A m \in DOMAIN h : headers'[m] = h[m]
          /\ HR!ContentLength \notin DOMAIN h => headers'[HR!ContentLength] = Len(Hello)
          /\ IsFiniteSet(DOMAIN h) => IsFiniteSet(DOMAIN headers')
      <4>1. /\ DOMAIN HR!Emplace(h, HR!ContentLength, Len(Hello)) = DOMAIN h
               \cup {HR!ContentLength}
            /\ \A m \in DOMAIN h : HR!Emplace(h, HR!ContentLength, Len(Hello))[m] = h[m]
            /\ HR!ContentLength \notin DOMAIN h
               => HR!Emplace(h, HR!ContentLength, Len(Hello))[HR!ContentLength] = Len(Hello)
            /\ IsFiniteSet(DOMAIN h)
               => IsFiniteSet(DOMAIN HR!Emplace(h, HR!ContentLength, Len(Hello)))
        BY EmplaceIs
      <4>2. QED BY <2>2, <4>1 DEF h
    <3>3. /\ DOMAIN headers' = {HR!ContentType, HR!ContentLength}
             /\ IsFiniteSet(DOMAIN headers')
          /\ headers'[HR!ContentType] = 0 /\ headers'[HR!ContentLength] = Len(Hello)
      BY <3>2, <3>8, NoHeadersAre
    <3>4. calls' \in Seq(CallNames) /\ Len(calls') = 2 /\ calls'[2] = "setBody"
      BY <2>2
    <3>5. ~Never(calls', "setBody")
      BY <3>4 DEF Never
    <3>6. AnswerTypes'
      BY <1>5, <2>2, <3>1, <3>3, <3>4, Constants DEF HR!OnRequest, AnswerTypes
    <3>7. QED BY <2>2, <3>3, <3>5, <3>6 DEF LengthInv
  <2>3. QED BY <1>5, <2>1, <2>2 DEF HR!OnRequest
<1>6. QED BY <1>1, <1>2, <1>3, <1>4, <1>5 DEF HR!Handler

-----------------------------------------------------------------------------
\* Two texts of pieces, one behind the other.
LEMMA PiecesJoined == ASSUME NEW a \in Seq(Piece), NEW b \in Seq(Piece)
  PROVE  /\ a \o b \in Seq(Piece) /\ Len(a \o b) = Len(a) + Len(b)
         /\ \A i \in 1 .. Len(a) : (a \o b)[i] = a[i]
         /\ \A i \in 1 .. Len(b) : (a \o b)[Len(a) + i] = b[i]
  OBVIOUS

\* A body is a sequence of its characters.
LEMMA BodyIsText == AnswerTypes => body \in Seq(HR!Chars)
<1>1. <<>> \in Seq(HR!Chars)
  OBVIOUS
<1>2. \A b \in Bodies : b \in Seq(HR!Chars)
  BY Constants
<1>3. AnswerTypes => body \in Bodies \/ body = <<>>
  BY DEF AnswerTypes
<1>4. QED BY <1>1, <1>2, <1>3

\* The characters of a body are pieces of a message.
LEMMA BodyPieces == ASSUME NEW b \in Seq(HR!Chars) PROVE b \in Seq(Piece) /\ Len(b) \in Nat
<1>1. HR!Chars \subseteq Piece
  BY DEF Piece
<1>2. Len(b) \in Nat /\ \A i \in 1 .. Len(b) : b[i] \in HR!Chars
  OBVIOUS
<1>3. \A i \in 1 .. Len(b) : b[i] \in Piece
  BY <1>1, <1>2
<1>4. QED BY <1>2, <1>3

\* What send composes has the form of an answer.
LEMMA ComposedIs ==
  ASSUME NEW h, NEW b \in Seq(HR!Chars), NEW s \in Nat, NEW k \in Nat, NEW order, NEW m,
         DOMAIN h \subseteq HeaderNames, \A n \in DOMAIN h : h[n] \in Nat,
         order \in Bijection(1 .. k, DOMAIN h),
         m = <<<<"HTTP", s>>>> \o [i \in DOMAIN order |-> <<order[i], h[order[i]]>>]
               \o <<HR!Endline>> \o b \o <<HR!Endline, HR!Endline>>
  PROVE  m \in Seq(Piece) /\ IsAnswer(m, h, b)
<1>1. /\ DOMAIN order = 1 .. k /\ \A i \in 1 .. k : order[i] \in DOMAIN h
      /\ \A n \in DOMAIN h : \E i \in 1 .. k : order[i] = n
  BY DEF Bijection, Injection, Surjection
<1>2. PICK first : first = <<<<"HTTP", s>>>>
  OBVIOUS
<1>3. first \in Seq(Piece) /\ Len(first) = 1 /\ first[1] = <<"HTTP", s>>
  <2>1. <<"HTTP", s>> \in Piece
    BY DEF Piece
  <2>2. QED BY <1>2, <2>1
<1>4. PICK lines : lines = [i \in DOMAIN order |-> <<order[i], h[order[i]]>>]
  OBVIOUS
<1>5. /\ lines \in Seq(Piece) /\ Len(lines) = k
      /\ \A i \in 1 .. k : lines[i] = <<order[i], h[order[i]]>>
  <2>1. \A i \in 1 .. k : <<order[i], h[order[i]]>> \in Piece
    BY <1>1 DEF Piece
  <2>2. lines = [i \in 1 .. k |-> <<order[i], h[order[i]]>>]
    BY <1>1, <1>4
  <2>3. lines \in [1 .. k -> Piece]
    BY <2>1, <2>2
  <2>4. lines \in Seq(Piece) /\ Len(lines) = k
    BY <2>3
  <2>5. QED BY <2>2, <2>4
<1>6. PICK empty : empty = <<HR!Endline>>
  OBVIOUS
<1>7. empty \in Seq(Piece) /\ Len(empty) = 1 /\ empty[1] = <<"">>
  <2>1. HR!Endline \in Piece
    BY DEF Piece, HR!Endline
  <2>2. empty \in Seq(Piece) /\ Len(empty) = 1 /\ empty[1] = HR!Endline
    BY <1>6, <2>1
  <2>3. QED BY <2>2 DEF HR!Endline
<1>8. PICK end : end = <<HR!Endline, HR!Endline>>
  OBVIOUS
<1>9. end \in Seq(Piece) /\ Len(end) = 2
  <2>1. HR!Endline \in Piece
    BY DEF Piece, HR!Endline
  <2>2. QED BY <1>8, <2>1
<1>10. b \in Seq(Piece) /\ Len(b) \in Nat
  BY BodyPieces
<1>11. PICK m1 : m1 = first \o lines
  OBVIOUS
<1>12. /\ m1 \in Seq(Piece) /\ Len(m1) = k + 1 /\ m1[1] = <<"HTTP", s>>
       /\ \A i \in 1 .. k : m1[1 + i] = lines[i]
  <2>1. /\ first \o lines \in Seq(Piece) /\ Len(first \o lines) = Len(first) + Len(lines)
        /\ \A i \in 1 .. Len(first) : (first \o lines)[i] = first[i]
        /\ \A i \in 1 .. Len(lines) : (first \o lines)[Len(first) + i] = lines[i]
    BY <1>3, <1>5, PiecesJoined
  <2>2. QED BY <1>3, <1>5, <1>11, <2>1
<1>13. PICK m2 : m2 = m1 \o empty
  OBVIOUS
<1>14. /\ m2 \in Seq(Piece) /\ Len(m2) = k + 2 /\ m2[k + 2] = <<"">>
       /\ \A i \in 1 .. k + 1 : m2[i] = m1[i]
  <2>1. /\ m1 \o empty \in Seq(Piece) /\ Len(m1 \o empty) = Len(m1) + Len(empty)
        /\ \A i \in 1 .. Len(m1) : (m1 \o empty)[i] = m1[i]
        /\ \A i \in 1 .. Len(empty) : (m1 \o empty)[Len(m1) + i] = empty[i]
    BY <1>7, <1>12, PiecesJoined
  <2>2. Len(m1) + 1 = k + 2 /\ Len(m1) + Len(empty) = k + 2 /\ 1 \in 1 .. Len(empty)
    <3>1. Len(m1) = k + 1 /\ Len(empty) = 1
      BY <1>7, <1>12
    <3>2. QED BY <3>1
  <2>3. m2[k + 2] = <<"">>
    BY <1>7, <1>13, <2>1, <2>2
  <2>4. QED BY <1>12, <1>13, <2>1, <2>2, <2>3
<1>15. PICK m3 : m3 = m2 \o b
  OBVIOUS
<1>16. /\ m3 \in Seq(Piece) /\ Len(m3) = k + 2 + Len(b)
       /\ \A i \in 1 .. k + 2 : m3[i] = m2[i]
       /\ \A i \in 1 .. Len(b) : m3[k + 2 + i] = b[i]
  <2>1. /\ m2 \o b \in Seq(Piece) /\ Len(m2 \o b) = Len(m2) + Len(b)
        /\ \A i \in 1 .. Len(m2) : (m2 \o b)[i] = m2[i]
        /\ \A i \in 1 .. Len(b) : (m2 \o b)[Len(m2) + i] = b[i]
    BY <1>10, <1>14, PiecesJoined
  <2>2. QED BY <1>14, <1>15, <2>1
<1>17. m = m3 \o end
  BY <1>2, <1>4, <1>6, <1>8, <1>11, <1>13, <1>15
<1>18. /\ m \in Seq(Piece) /\ Len(m) = k + 2 + Len(b) + 2
       /\ \A i \in 1 .. k + 2 + Len(b) : m[i] = m3[i]
  <2>1. /\ m3 \o end \in Seq(Piece) /\ Len(m3 \o end) = Len(m3) + Len(end)
        /\ \A i \in 1 .. Len(m3) : (m3 \o end)[i] = m3[i]
    BY <1>9, <1>16, PiecesJoined
  <2>2. QED BY <1>9, <1>16, <1>17, <2>1
<1>19. m[1] = <<"HTTP", s>> /\ m[k + 2] = <<"">>
  <2>1. 1 \in 1 .. k + 1 /\ 1 \in 1 .. k + 2 /\ k + 2 \in 1 .. k + 2
    OBVIOUS
  <2>2. 1 \in 1 .. k + 2 + Len(b) /\ k + 2 \in 1 .. k + 2 + Len(b)
    BY <1>10
  <2>3. m[1] = m1[1]
    BY <1>14, <1>16, <1>18, <2>1, <2>2
  <2>4. m[k + 2] = m2[k + 2]
    BY <1>16, <1>18, <2>1, <2>2
  <2>5. QED BY <1>12, <1>14, <2>3, <2>4
<1>20. \A i \in 1 .. k : m[1 + i] = <<order[i], h[order[i]]>>
  <2>1. TAKE i \in 1 .. k
  <2>2. 1 + i \in 1 .. k + 1 /\ 1 + i \in 1 .. k + 2 /\ 1 + i \in 1 .. k + 2 + Len(b)
    BY <1>10
  <2>3. m[1 + i] = m1[1 + i]
    BY <1>14, <1>16, <1>18, <2>2
  <2>4. m1[1 + i] = lines[i]
    BY <1>12
  <2>5. QED BY <1>5, <2>3, <2>4
<1>21. \A i \in 2 .. k + 1 : \E n \in DOMAIN h : m[i] = <<n, h[n]>>
  <2>1. TAKE i \in 2 .. k + 1
  <2>2. PICK j \in 1 .. k : 1 + j = i
    <3>1. i - 1 \in 1 .. k /\ 1 + (i - 1) = i
      OBVIOUS
    <3>2. QED BY <3>1
  <2>3. order[j] \in DOMAIN h /\ m[i] = <<order[j], h[order[j]]>>
    BY <1>1, <1>20, <2>2
  <2>4. QED BY <2>3
<1>22. \A n \in DOMAIN h : \E i \in 2 .. k + 1 : m[i] = <<n, h[n]>>
  <2>1. TAKE n \in DOMAIN h
  <2>2. PICK i \in 1 .. k : order[i] = n
    BY <1>1
  <2>3. 1 + i \in 2 .. k + 1 /\ m[1 + i] = <<n, h[n]>>
    <3>1. 1 + i \in 2 .. k + 1
      OBVIOUS
    <3>2. QED BY <1>20, <2>2, <3>1
  <2>4. QED BY <2>3
<1>23. \A i \in 1 .. Len(b) : m[k + 2 + i] = b[i]
  BY <1>10, <1>16, <1>18
<1>24. Len(m) = k + Len(b) + 4
  BY <1>10, <1>18
<1>25. QED BY <1>18, <1>19, <1>21, <1>22, <1>23, <1>24 DEF IsAnswer

\* The next n pieces of m behind those that g has.
LEMMA TakeMore ==
  ASSUME NEW m \in Seq(Piece), NEW g \in Seq(Piece), NEW n \in Nat, Len(g) + n <= Len(m),
         \A i \in 1 .. Len(g) : g[i] = m[i]
  PROVE  /\ g \o SubSeq(m, Len(g) + 1, Len(g) + n) \in Seq(Piece)
         /\ Len(g \o SubSeq(m, Len(g) + 1, Len(g) + n)) = Len(g) + n
         /\ \A i \in 1 .. Len(g) + n : (g \o SubSeq(m, Len(g) + 1, Len(g) + n))[i] = m[i]
<1>1. Len(g) \in Nat /\ Len(m) \in Nat
  OBVIOUS
<1>2. PICK t : t = SubSeq(m, Len(g) + 1, Len(g) + n)
  OBVIOUS
<1>3. t \in Seq(Piece) /\ Len(t) = n /\ \A i \in 1 .. n : t[i] = m[Len(g) + i]
  BY <1>1, <1>2
<1>4. PICK r : r = g \o t
  OBVIOUS
<1>5. /\ r \in Seq(Piece) /\ Len(r) = Len(g) + n /\ \A i \in 1 .. Len(g) : r[i] = g[i]
      /\ \A i \in 1 .. n : r[Len(g) + i] = t[i]
  BY <1>3, <1>4, PiecesJoined
<1>6. ASSUME NEW i \in 1 .. Len(g) + n PROVE r[i] = m[i]
  <2>1. CASE i \in 1 .. Len(g)
    BY <1>5, <2>1
  <2>2. CASE i \notin 1 .. Len(g)
    <3>1. i - Len(g) \in 1 .. n /\ Len(g) + (i - Len(g)) = i
      BY <1>1, <2>2
    <3>2. QED BY <1>3, <1>5, <3>1
  <2>3. QED BY <2>1, <2>2
<1>7. QED BY <1>2, <1>4, <1>5, <1>6

\* A handler sends nothing.
LEMMA HandlerSendsNothing == ASSUME SentInv, HR!Handler PROVE SentInv'
  BY DEF SentInv, HR!Handler, HR!Construct, HR!SetStatus, HR!SetHeader, HR!SetBody,
      HR!OnRequest, HR!Return

\* The steps of send: what the client has got is the beginning of one answer.
LEMMA SendStep == ASSUME AnswerTypes, LengthInv, SentInv, HR!Send
  PROVE AnswerTypes' /\ LengthInv' /\ SentInv'
<1>1. UNCHANGED <<status, headers, body, calls>> /\ answering # "request"
    /\ answering' # "request"
  BY SizeOfHeaders
  DEF HR!Send, HR!Compose, HR!UnknownStatus, HR!Write, HR!WriteFails, HR!Resume, HR!Kill
<1>2. answering' \in {"request", "handler", "return", "send", "yield", "sent", "thrown"}
  BY SizeOfHeaders
  DEF HR!Send, HR!Compose, HR!UnknownStatus, HR!Write, HR!WriteFails, HR!Resume, HR!Kill
<1>3. AnswerTypes' /\ LengthInv'
  BY <1>1, <1>2 DEF AnswerTypes, LengthInv
<1>4. CASE HR!Compose
  <2>1. PICK k : k = Cardinality(DOMAIN headers)
    OBVIOUS
  <2>2. k \in Nat
    BY <2>1, FS_CardinalityType DEF AnswerTypes
  <2>3. PICK order \in Bijection(1 .. k, DOMAIN headers) :
          msg' = <<<<"HTTP", status>>>>
              \o [i \in DOMAIN order |-> <<order[i], headers[order[i]]>>]
                   \o <<HR!Endline>> \o body \o <<HR!Endline, HR!Endline>>
    BY <1>4, <2>1, SizeOfHeaders DEF HR!Compose, HR!Line
  <2>4. PICK h, b, s : h = headers /\ b = body /\ s = status
    OBVIOUS
  <2>5. b \in Seq(HR!Chars) /\ s \in Nat
    <3>1. b \in Seq(HR!Chars)
      BY <2>4, BodyIsText
    <3>2. status \in Codes \cup {200}
      BY DEF AnswerTypes
    <3>3. s \in Nat
      BY <2>4, <3>2, Constants
    <3>4. QED BY <3>1, <3>3
  <2>6. DOMAIN h \subseteq HeaderNames /\ \A n \in DOMAIN h : h[n] \in Nat
    BY <2>4 DEF AnswerTypes
  <2>7. PICK m : m = msg'
    OBVIOUS
  <2>8. m = <<<<"HTTP", s>>>> \o [i \in DOMAIN order |-> <<order[i], h[order[i]]>>]
                   \o <<HR!Endline>> \o b \o <<HR!Endline, HR!Endline>>
    BY <2>3, <2>4, <2>7
  <2>9. order \in Bijection(1 .. k, DOMAIN h)
    BY <2>3, <2>4
  <2>10. m \in Seq(Piece) /\ IsAnswer(m, h, b)
    BY <2>2, <2>5, <2>6, <2>8, <2>9, ComposedIs
  <2>11. IsAnswer(msg', headers', body') /\ msg' \in Seq(Piece)
    BY <2>4, <2>7, <2>10, <1>1
  <2>12. msg = <<>> /\ Len(got) = 0 /\ sended = 0 /\ got \in Seq(Piece)
    BY <1>4, SizeOfHeaders DEF HR!Compose, SentInv
  <2>13. sended' = sended /\ got' = got /\ answering' = "send"
    BY <1>4, SizeOfHeaders DEF HR!Compose
  <2>14. QED BY <1>3, <2>11, <2>12, <2>13 DEF SentInv
<1>5. CASE HR!Write
  <2>1. PICK n \in 1 .. Len(msg) - sended :
          /\ got' = got \o SubSeq(msg, sended + 1, sended + n) /\ sended' = sended + n
          /\ answering' = IF sended' < Len(msg) THEN "yield" ELSE "sent"
    BY <1>5 DEF HR!Write
  <2>2. PICK m, g : m = msg /\ g = got
    OBVIOUS
  <2>3. /\ m \in Seq(Piece) /\ g \in Seq(Piece) /\ sended = Len(g) /\ n \in Nat
        /\ Len(g) \in Nat /\ Len(m) \in Nat /\ Len(g) + n <= Len(m)
        /\ \A i \in 1 .. Len(g) : g[i] = m[i]
    BY <2>1, <2>2 DEF SentInv
  <2>4. /\ g \o SubSeq(m, Len(g) + 1, Len(g) + n) \in Seq(Piece)
        /\ Len(g \o SubSeq(m, Len(g) + 1, Len(g) + n)) = Len(g) + n
        /\ \A i \in 1 .. Len(g) + n : (g \o SubSeq(m, Len(g) + 1, Len(g) + n))[i] = m[i]
    BY <2>3, TakeMore
  <2>5. /\ got' \in Seq(Piece) /\ sended' = Len(got') /\ sended' <= Len(msg)
        /\ \A i \in 1 .. Len(got') : got'[i] = msg[i]
    BY <2>1, <2>2, <2>3, <2>4
  <2>6. msg' = msg /\ answering = "send" /\ msg \in Seq(Piece)
      /\ IsAnswer(msg', headers', body')
    BY <1>5 DEF HR!Write, SentInv
  <2>7. answering' = "sent" => sended' = Len(msg')
    BY <2>1, <2>5, <2>6
  <2>8. answering' \in {"yield", "sent"}
    BY <2>1
  <2>9. QED BY <1>3, <2>5, <2>6, <2>7, <2>8 DEF SentInv
<1>6. CASE HR!UnknownStatus \/ HR!WriteFails \/ HR!Resume \/ HR!Kill
  BY <1>3, <1>6 DEF SentInv, HR!UnknownStatus, HR!WriteFails, HR!Resume, HR!Kill
<1>7. QED BY <1>3, <1>4, <1>5, <1>6 DEF HR!Send

-----------------------------------------------------------------------------
\* Two sequences with the same elements are one.
LEMMA SamePieces ==
  ASSUME NEW a \in Seq(Piece), NEW b \in Seq(Piece), Len(a) = Len(b),
         \A i \in 1 .. Len(a) : a[i] = b[i]
  PROVE  a = b
  BY SeqEqual

\* A client has the beginning of the message, and at the end all of it.
LEMMA OneAnswer == SentInv => HR!ResponseIsOne
<1> SUFFICES ASSUME SentInv PROVE HR!ResponseIsOne
  OBVIOUS
<1>1. PICK m, g : m = msg /\ g = got
  OBVIOUS
<1>2. /\ m \in Seq(Piece) /\ g \in Seq(Piece) /\ Len(g) <= Len(m)
      /\ \A i \in 1 .. Len(g) : g[i] = m[i]
  BY <1>1 DEF SentInv
<1>3. PICK t : t = SubSeq(m, 1, Len(g))
  OBVIOUS
<1>4. t \in Seq(Piece) /\ Len(t) = Len(g) /\ \A i \in 1 .. Len(g) : t[i] = m[i]
  BY <1>2, <1>3
<1>5. g = t
  BY <1>2, <1>4, SamePieces
<1>6. answering = "sent" => Len(m) = Len(g)
  BY <1>1 DEF SentInv
<1>7. answering = "sent" => g = m
  BY <1>2, <1>6, SamePieces
<1>8. QED BY <1>1, <1>3, <1>5, <1>7 DEF HR!ResponseIsOne

\* What it means that a name occurs never, or once, among the calls.
LEMMA TimesAre == ASSUME AnswerTypes, NEW name
  PROVE  /\ HR!Times(name) = 0 => Never(calls, name)
         /\ HR!Times(name) = 1 => Once(calls, name)
<1>1. PICK c : c = calls /\ c \in Seq(CallNames)
  BY DEF AnswerTypes
<1>2. PICK at : at = {i \in DOMAIN c : c[i] = name}
  OBVIOUS
<1>3. DOMAIN c = 1 .. Len(c) /\ Len(c) \in Nat
  BY <1>1
<1>4. IsFiniteSet(at)
  <2>1. IsFiniteSet(1 .. Len(c))
    BY <1>3, FS_Interval
  <2>2. at \subseteq 1 .. Len(c)
    BY <1>2, <1>3
  <2>3. QED BY <2>1, <2>2, FS_Subset
<1>5. HR!Times(name) = Cardinality(at)
  BY <1>1, <1>2, SizeOfHeaders DEF HR!Times
<1>6. ASSUME HR!Times(name) = 0 PROVE Never(calls, name)
  <2>1. at = {}
    BY <1>4, <1>5, <1>6, FS_EmptySet
  <2>2. QED BY <1>1, <1>2, <1>3, <2>1 DEF Never
<1>7. ASSUME HR!Times(name) = 1 PROVE Once(calls, name)
  <2>1. PICK e : at = {e}
    BY <1>4, <1>5, <1>7, FS_Singleton
  <2>2. e \in 1 .. Len(c) /\ \A j \in 1 .. Len(c) : c[j] = name <=> j = e
    BY <1>2, <1>3, <2>1
  <2>3. QED BY <1>1, <2>2 DEF Once
<1>8. QED BY <1>6, <1>7

\* The client finds the length and the empty line where send has put them.
LEMMA BodyIsRead == ASSUME AnswerTypes, LengthInv, SentInv PROVE HR!ClientReadsTheBody
<1> SUFFICES ASSUME answering = "sent", HR!Times("setBody") = 1,
    HR!Times(HR!ContentLength) = 0
             PROVE HR!BodyRead = body
  BY DEF HR!ClientReadsTheBody
<1>1. Once(calls, "setBody") /\ Never(calls, HR!ContentLength)
  BY TimesAre
<1>2. HR!ContentLength \in DOMAIN headers /\ headers[HR!ContentLength] = Len(body)
  BY <1>1 DEF LengthInv
<1>3. PICK h, b, m : h = headers /\ b = body /\ m = got
  OBVIOUS
<1>4. got = msg
  BY OneAnswer DEF HR!ResponseIsOne
<1>5. IsAnswer(m, h, b) /\ m \in Seq(Piece)
  BY <1>3, <1>4 DEF SentInv
<1>6. b \in Seq(HR!Chars) /\ Len(b) \in Nat
  <2>1. b \in Seq(HR!Chars)
    BY <1>3, BodyIsText
  <2>2. QED BY <2>1, BodyPieces
<1>7. PICK k \in Nat :
        /\ Len(m) = k + Len(b) + 4
        /\ \E s \in Nat : m[1] = <<"HTTP", s>>
        /\ \A i \in 2 .. k + 1 : \E n \in DOMAIN h : m[i] = <<n, h[n]>>
        /\ \A n \in DOMAIN h : \E i \in 2 .. k + 1 : m[i] = <<n, h[n]>>
        /\ m[k + 2] = <<"">>
        /\ \A i \in 1 .. Len(b) : m[k + 2 + i] = b[i]
  BY <1>5 DEF IsAnswer
<1>8. DOMAIN m = 1 .. Len(m)
  BY <1>5
<1>9. HR!LengthRead = Len(b)
  <2>1. PICK i \in 2 .. k + 1 : m[i] = <<HR!ContentLength, h[HR!ContentLength]>>
    BY <1>2, <1>3, <1>7
  <2>2. i \in DOMAIN m
    <3>1. Len(m) = k + Len(b) + 4 /\ i \in 2 .. k + 1
      BY <1>7
    <3>2. i \in 1 .. Len(m)
      BY <1>6, <3>1
    <3>3. QED BY <1>8, <3>2
  <2>3. i \in HR!HeadersGot /\ got[i][1] = HR!ContentLength
    BY <1>2, <1>3, <2>1, <2>2 DEF HR!HeadersGot
  <2>4. PICK j : j = CHOOSE x \in HR!HeadersGot : got[x][1] = HR!ContentLength
    OBVIOUS
  <2>5. j \in HR!HeadersGot /\ got[j][1] = HR!ContentLength
    BY <2>3, <2>4
  <2>6. PICK n \in DOMAIN headers : got[j] = <<n, headers[n]>>
    BY <2>5 DEF HR!HeadersGot
  <2>7. n = HR!ContentLength /\ got[j][2] = headers[HR!ContentLength]
    BY <2>5, <2>6
  <2>8. QED BY <1>2, <1>3, <2>4, <2>7 DEF HR!LengthRead
<1>10. HR!Blank = k + 2
  <2>1. k + 2 \in DOMAIN m
    <3>1. Len(m) = k + Len(b) + 4
      BY <1>7
    <3>2. k + 2 \in 1 .. Len(m)
      BY <1>6, <3>1
    <3>3. QED BY <1>8, <3>2
  <2>2. ASSUME NEW j \in 1 .. k + 1 PROVE m[j] # <<"">>
    <3>1. PICK n, v : m[j] = <<n, v>>
      <4>1. CASE j = 1
        <5>1. PICK s \in Nat : m[1] = <<"HTTP", s>>
          BY <1>7
        <5>2. QED BY <4>1, <5>1
      <4>2. CASE j # 1
        <5>1. j \in 2 .. k + 1
          <6>1. j \in Nat /\ j >= 1 /\ j <= k + 1
            OBVIOUS
          <6>2. QED BY <4>2, <6>1
        <5>2. PICK n \in DOMAIN h : m[j] = <<n, h[n]>>
          BY <1>7, <5>1
        <5>3. QED BY <5>2
      <4>3. QED BY <4>1, <4>2
    <3>2. QED BY <3>1
  <2>3. m[k + 2] = HR!Endline /\ \A j \in 1 .. k + 2 - 1 : m[j] # HR!Endline
    <3>1. k + 2 - 1 = k + 1
      OBVIOUS
    <3>2. m[k + 2] = HR!Endline /\ \A j \in 1 .. k + 1 : m[j] # HR!Endline
      BY <1>7, <2>2 DEF HR!Endline
    <3>3. QED BY <3>1, <3>2
  <2>4. PICK i : i = CHOOSE x \in DOMAIN m : m[x] = HR!Endline
      /\ \A j \in 1 .. x - 1 : m[j] # HR!Endline
    OBVIOUS
  <2>5. i \in DOMAIN m /\ m[i] = HR!Endline /\ \A j \in 1 .. i - 1 : m[j] # HR!Endline
    BY <2>1, <2>3, <2>4
  <2>6. i \in 1 .. Len(m) /\ Len(m) \in Nat
    BY <1>5, <1>8, <2>5
  <2>7. ~(i < k + 2)
    <3>1. i < k + 2 => i \in 1 .. k + 2 - 1
      BY <2>6
    <3>2. QED BY <2>3, <2>5, <3>1
  <2>8. ~(i > k + 2)
    <3>1. i > k + 2 => k + 2 \in 1 .. i - 1
      BY <2>6
    <3>2. QED BY <2>3, <2>5, <3>1
  <2>9. i = k + 2
    BY <2>6, <2>7, <2>8
  <2>10. QED BY <1>3, <2>4, <2>9 DEF HR!Blank
<1>11. PICK t : t = SubSeq(m, k + 2 + 1, k + 2 + Len(b))
  OBVIOUS
<1>12. t \in Seq(Piece) /\ Len(t) = Len(b) /\ \A i \in 1 .. Len(b) : t[i] = m[k + 2 + i]
  <2>1. Len(m) = k + Len(b) + 4
    BY <1>7
  <2>2. k + 2 + Len(b) <= Len(m) /\ k + 2 + 1 >= 1
    BY <1>6, <2>1
  <2>3. m \in Seq(Piece) /\ k + 2 + 1 \in Nat /\ k + 2 + Len(b) \in Nat
    BY <1>5, <1>6
  <2>4. QED BY <1>6, <1>11, <2>2, <2>3
<1>13. b \in Seq(Piece)
  BY <1>6, BodyPieces
<1>14. t = b
  BY <1>7, <1>12, <1>13, SamePieces
<1>15. QED BY <1>3, <1>9, <1>10, <1>11, <1>14 DEF HR!BodyRead

-----------------------------------------------------------------------------
AnswerInv == AnswerTypes /\ LengthInv /\ SentInv

\* Every step of an answer keeps the invariant.
LEMMA AnswerStepKept == AnswerInv /\ [HR!Next]_(HR!vars) => AnswerInv'
<1> SUFFICES ASSUME AnswerInv, [HR!Next]_(HR!vars) PROVE AnswerInv'
  OBVIOUS
<1>1. CASE HR!Handler
  BY <1>1, HandlerStep, HandlerSendsNothing DEF AnswerInv
<1>2. CASE HR!Send
  BY <1>2, SendStep DEF AnswerInv
<1>3. CASE UNCHANGED HR!vars
  BY <1>3 DEF HR!vars, AnswerInv, AnswerTypes, LengthInv, SentInv
<1>4. QED BY <1>1, <1>2, <1>3 DEF HR!Next

\* The invariant has the types of HttpResponse.
LEMMA AnswerTypesAre == AnswerInv => HR!TypeOK
  BY DEF AnswerInv, AnswerTypes, SentInv, HR!TypeOK, HeaderNames

\* HttpResponse.cpp: for any headers and calls of a handler, a client that is not cut
\* off gets the whole message once and in order, and one that trusts its Content-Length
\* reads the body, if that was set once and the length never by hand.
THEOREM AnswerHolds == HR!Spec => [](HR!TypeOK /\ HR!ResponseIsOne /\ HR!ClientReadsTheBody)
<1>1. HR!Init => AnswerInv
  BY AnswerInit DEF AnswerInv
<1>2. AnswerInv => HR!TypeOK /\ HR!ResponseIsOne /\ HR!ClientReadsTheBody
  BY AnswerTypesAre, OneAnswer, BodyIsRead DEF AnswerInv
<1>3. QED BY <1>1, <1>2, AnswerStepKept, PTL DEF HR!Spec

-----------------------------------------------------------------------------
(***************************************************************************)
(* HttpServer                                                              *)
(***************************************************************************)

\* What the sockets and the calls have to do with each other.
SocketsInv ==
  /\ others \subseteq Ports /\ master \in HS!Fds \cup {HS!NoFd}
     /\ fd \in HS!Fds \cup {HS!NoFd}
  /\ sockets \in [HS!Fds -> [port : Ports \cup {0}, listens : BOOLEAN]]
  /\ port \in Ports \cup {0} /\ object \in {"none", "made", "ready", "gone"}
  /\ thrown \in BOOLEAN /\ alive \in BOOLEAN
  /\ \A f \in HS!Fds : sockets[f] # HS!Closed => f \in {fd, master}
  /\ master # HS!NoFd => sockets[master] # HS!Closed /\ sockets[master].port # 0
     /\ fd # master
  /\ fd # HS!NoFd => wanted = 0 /\ ~thrown /\ alive /\ port # 0
  /\ (fd # HS!NoFd /\ sockets[fd].port = 0) => sockets[fd] = HS!Closed
  /\ wanted > 0 => fd = HS!NoFd
\* The managers are numbered as they were made, and one at most waits for its thread.
ManagersInv ==
  /\ wanted \in Nat
  /\ \E n \in 0 .. wanted : epolls = 1 .. n /\ threads \in {1 .. n, 1 .. n - 1}
\* Descriptors are not more than there are.
RoomInv ==
  /\ Cardinality(HS!Open) + Cardinality(epolls) <= FdLimit

\* What the constants of HttpServer are.
LEMMA Numbers ==
  /\ 0 \notin Ports /\ FdLimit \in Nat /\ MaxThreads \in Nat /\ Hardware \in Nat
  /\ HS!NoFd = 0 /\ HS!NoFd \notin HS!Fds
  BY ServersAssumption DEF HS!HttpServerAssumption, HS!NoFd, HS!Fds

\* There are FdLimit descriptors.
LEMMA FdsAre == IsFiniteSet(HS!Fds) /\ Cardinality(HS!Fds) = FdLimit
<1>1. FdLimit \in Nat
  BY Numbers
<1>2. IsFiniteSet(1 .. FdLimit) /\ Cardinality(1 .. FdLimit) = FdLimit
  BY <1>1, FS_Interval
<1>3. QED BY <1>2 DEF HS!Fds

\* There are n numbers from 1 to n.
LEMMA FirstN == ASSUME NEW n \in Nat
  PROVE IsFiniteSet(1 .. n) /\ Cardinality(1 .. n) = n
  BY FS_Interval

\* What is known of a socket that is closed.
LEMMA ClosedIs == HS!Closed = [port |-> 0, listens |-> FALSE]
    /\ HS!Closed \in [port : Ports \cup {0}, listens : BOOLEAN]
  BY DEF HS!Closed

\* The sockets at the start.
LEMMA SocketsInit == HS!Init => SocketsInv
<1> SUFFICES ASSUME HS!Init PROVE SocketsInv
  OBVIOUS
<1>1. sockets \in [HS!Fds -> [port : Ports \cup {0}, listens : BOOLEAN]]
    /\ \A f \in HS!Fds : sockets[f] = HS!Closed
  BY ClosedIs DEF HS!Init
<1>2. QED BY <1>1, Numbers DEF HS!Init, SocketsInv

\* A number is free when fewer are open than there are.
LEMMA FreeNumber == ASSUME ManagersInv, HS!Room
    PROVE (CHOOSE f \in HS!Fds : f \notin HS!Open) \in HS!Fds \ HS!Open
<1>1. Cardinality(epolls) \in Nat
  BY FirstN DEF ManagersInv
<1>2. HS!Open # HS!Fds
  <2> SUFFICES ASSUME HS!Open = HS!Fds PROVE FALSE
    OBVIOUS
  <2>1. Cardinality(HS!Open) = FdLimit
    BY FdsAre
  <2>2. QED BY <1>1, <2>1, Numbers, SizeOfSockets DEF HS!Room
<1>3. HS!Open \subseteq HS!Fds
  BY DEF HS!Open
<1>4. \E f \in HS!Fds : f \notin HS!Open
  BY <1>2, <1>3
<1>5. QED BY <1>4

\* Every step keeps what the sockets and the calls have to do with each other.
LEMMA SocketsStep == ASSUME SocketsInv, ManagersInv, [HS!Next]_(HS!vars) PROVE SocketsInv'
<1> USE Numbers DEF SocketsInv
<1>0. HS!Closed = [port |-> 0, listens |-> FALSE]
    /\ HS!Closed \in [port : Ports \cup {0}, listens : BOOLEAN]
  BY ClosedIs
<1>1. ASSUME NEW p \in Ports, HS!OtherTakes(p) \/ HS!OtherLeaves(p) PROVE SocketsInv'
  BY <1>1 DEF HS!OtherTakes, HS!OtherLeaves, HS!running
<1>2. ASSUME NEW p \in Ports, HS!Socket(p) PROVE SocketsInv'
  <2>1. fd' \in HS!Fds /\ fd' \notin HS!Open /\ fd = HS!NoFd
    BY <1>2, FreeNumber DEF HS!Socket
  <2>2. fd' # master /\ sockets[fd'] = HS!Closed
    BY <2>1 DEF HS!Open
  <2>3. object' \in {"none", "made", "ready", "gone"}
    BY <1>2 DEF HS!Socket, HS!Construct, HS!Again
  <2>4. /\ port' = p /\ ~thrown' /\ wanted = 0 /\ alive
        /\ UNCHANGED <<others, sockets, master, wanted, alive>> /\ thrown' \in BOOLEAN
    BY <1>2 DEF HS!Socket, HS!running
  <2>5. QED BY <1>0, <2>1, <2>2, <2>3, <2>4
<1>3. CASE HS!NoSocket
  BY <1>3 DEF HS!NoSocket, HS!Throws, HS!running
<1>4. CASE HS!OpenFails
  BY <1>0, <1>4 DEF HS!OpenFails, HS!Throws, HS!running
<1>5. CASE HS!Bind
  BY <1>0, <1>5 DEF HS!Bind, HS!running
<1>6. CASE HS!Listen
  BY <1>0, <1>6 DEF HS!Listen, HS!running
<1>7. CASE HS!SetMaxConnect
  BY <1>7 DEF HS!SetMaxConnect, HS!Idle, HS!running
<1>8. CASE HS!Close \/ HS!Destroy
  <2>1. /\ sockets' = [f \in HS!Fds |-> IF f = master THEN HS!Closed ELSE sockets[f]]
        /\ master' = HS!NoFd /\ ~thrown' /\ thrown' \in BOOLEAN
        /\ UNCHANGED <<others, fd, port, wanted, alive>>
        /\ fd = HS!NoFd /\ object' \in {"ready", "gone"}
    BY <1>8 DEF HS!Close, HS!Destroy, HS!CloseMaster, HS!Idle, HS!running
  <2>2. /\ sockets' \in [HS!Fds -> [port : Ports \cup {0}, listens : BOOLEAN]]
        /\ \A f \in HS!Fds : sockets'[f] = HS!Closed
    BY <1>0, <2>1
  <2>3. QED BY <2>1, <2>2
<1>9. ASSUME NEW n \in 0 .. MaxThreads + 1, HS!Run(n) PROVE SocketsInv'
  BY <1>9 DEF HS!Run, HS!Idle
<1>10. CASE HS!MakeManager \/ HS!StartThread
  BY <1>10, SizeOfSockets DEF HS!MakeManager, HS!StartThread
<1>11. CASE HS!Terminate /\ wanted > 0
  BY <1>0, <1>11 DEF HS!Terminate
<1>12. CASE HS!RunFails /\ wanted > 0
  BY <1>11, <1>12 DEF HS!RunFails
<1>13. CASE UNCHANGED HS!vars
  BY <1>13 DEF HS!vars, HS!running
<1>14. CASE HS!Running
  <2>0. threads # {} => wanted > 0
    BY DEF ManagersInv
  <2>1. ASSUME NEW m \in threads, HS!ThreadThrows(m) PROVE SocketsInv'
    BY <1>11, <2>0, <2>1 DEF HS!ThreadThrows
  <2>2. QED
    BY <1>9, <1>10, <1>12, <1>14, <2>1, SizeOfSockets
    DEF HS!Running, HS!NoManager, HS!NoThread, HS!MainThrows, HS!Served
<1>15. QED
  BY <1>1, <1>2, <1>3, <1>4, <1>5, <1>6, <1>7, <1>8, <1>13, <1>14 DEF HS!Next, HS!Opening

-----------------------------------------------------------------------------
\* The managers at the start.
LEMMA ManagersInit == HS!Init => ManagersInv
<1> SUFFICES ASSUME HS!Init PROVE ManagersInv
  OBVIOUS
<1>1. epolls = 1 .. 0 /\ threads = 1 .. 0 /\ wanted = 0
  BY DEF HS!Init
<1>2. QED BY <1>1 DEF ManagersInv

\* How many managers there are decides which comes next.
LEMMA CountsAre == ASSUME ManagersInv
  PROVE  \E n \in 0 .. wanted :
           /\ epolls = 1 .. n /\ Cardinality(epolls) = n /\ HS!Next1 = n + 1
           /\ \/ threads = 1 .. n /\ Cardinality(threads) = n
              \/ threads = 1 .. n - 1 /\ n > 0 /\ Cardinality(threads) = n - 1
<1>1. PICK n \in 0 .. wanted : epolls = 1 .. n /\ threads \in {1 .. n, 1 .. n - 1}
  BY DEF ManagersInv
<1>2. n \in Nat /\ (n > 0 => n - 1 \in Nat)
  BY DEF ManagersInv
<1>3. Cardinality(1 .. n) = n /\ (n > 0 => Cardinality(1 .. n - 1) = n - 1)
  BY <1>2, FirstN
<1>4. n = 0 => 1 .. n - 1 = 1 .. n
  BY <1>2
<1>5. QED BY <1>1, <1>2, <1>3, <1>4, SizeOfSockets DEF HS!Next1

\* Every step keeps the managers in their order.
LEMMA ManagersStep == ASSUME ManagersInv, [HS!Next]_(HS!vars) PROVE ManagersInv'
<1>1. PICK n \in 0 .. wanted :
        /\ epolls = 1 .. n /\ Cardinality(epolls) = n /\ HS!Next1 = n + 1
        /\ \/ threads = 1 .. n /\ Cardinality(threads) = n
           \/ threads = 1 .. n - 1 /\ n > 0 /\ Cardinality(threads) = n - 1
  BY CountsAre
<1>2. wanted \in Nat /\ n \in Nat
  BY DEF ManagersInv
<1>3. CASE UNCHANGED HS!running
  BY <1>3 DEF ManagersInv, HS!running
<1>4. ASSUME NEW k \in 0 .. MaxThreads + 1, HS!Run(k) PROVE ManagersInv'
  <2>1. wanted' \in Nat
    BY <1>4, Numbers DEF HS!Run, HS!Managers
  <2>2. wanted = 0 /\ epolls = 1 .. 0 /\ threads = 1 .. 0 /\ UNCHANGED <<epolls, threads>>
    BY <1>1, <1>2, <1>4 DEF HS!Run, HS!Idle
  <2>3. epolls' = 1 .. 0 /\ threads' = 1 .. 0 /\ 0 \in 0 .. wanted'
    BY <2>1, <2>2
  <2>4. QED BY <2>1, <2>3 DEF ManagersInv
<1>5. CASE HS!MakeManager
  <2>1. n + 1 <= wanted /\ Cardinality(threads) = n
    BY <1>1, <1>2, <1>5, SizeOfSockets DEF HS!MakeManager
  <2>2. threads = 1 .. n
    BY <1>1, <1>2, <2>1
  <2>3. epolls' = 1 .. n + 1 /\ threads' = 1 .. (n + 1) - 1 /\ wanted' = wanted
    BY <1>1, <1>2, <1>5, <2>2, SizeOfSockets DEF HS!MakeManager
  <2>4. QED BY <1>2, <2>1, <2>3 DEF ManagersInv
<1>6. CASE HS!StartThread
  <2>1. n \in epolls \ threads /\ threads' = threads \cup {n} /\ UNCHANGED <<epolls, wanted>>
    BY <1>1, <1>2, <1>6 DEF HS!StartThread
  <2>2. threads' = 1 .. n
    BY <1>1, <1>2, <2>1
  <2>3. QED BY <1>1, <1>2, <2>1, <2>2 DEF ManagersInv
<1>7. CASE HS!Terminate
  <2>1. epolls' = 1 .. 0 /\ threads' = 1 .. 0 /\ wanted' = wanted
    BY <1>7 DEF HS!Terminate
  <2>2. QED BY <1>2, <2>1 DEF ManagersInv
<1>8. CASE HS!RunFails
  <2>1. CASE threads # {}
    BY <1>7, <1>8, <2>1 DEF HS!RunFails
  <2>2. CASE threads = {}
    <3>1. epolls' = 1 .. 0 /\ threads' = 1 .. 0 /\ wanted' = 0
      BY <1>8, <2>2 DEF HS!RunFails
    <3>2. QED BY <3>1 DEF ManagersInv
  <2>3. QED BY <2>1, <2>2
<1>9. CASE HS!Running
  BY <1>4, <1>5, <1>6, <1>7, <1>8, <1>9
  DEF HS!Running, HS!NoManager, HS!NoThread, HS!MainThrows, HS!ThreadThrows
<1>10. CASE UNCHANGED HS!vars
  BY <1>3, <1>10 DEF HS!vars, HS!running
<1>11. QED
  BY <1>3, <1>9, <1>10
  DEF HS!Next, HS!Opening, HS!OtherTakes, HS!OtherLeaves, HS!Socket, HS!NoSocket,
      HS!OpenFails,
    HS!Bind, HS!Listen, HS!SetMaxConnect, HS!Close, HS!Destroy

-----------------------------------------------------------------------------
\* Finitely many sockets are open.
LEMMA OpenIsFinite == IsFiniteSet(HS!Open) /\ Cardinality(HS!Open) \in Nat
<1>1. HS!Open \subseteq HS!Fds
  BY DEF HS!Open
<1>2. QED BY <1>1, FdsAre, FS_Subset, FS_CardinalityType

\* There is room for what is open at the start.
LEMMA RoomInit == HS!Init => RoomInv
<1> SUFFICES ASSUME HS!Init PROVE RoomInv
  OBVIOUS
<1>1. HS!Open = {}
  BY Numbers, ClosedIs DEF HS!Init, HS!Open
<1>2. epolls = {}
  BY DEF HS!Init
<1>3. QED BY <1>1, <1>2, Numbers, FS_EmptySet DEF RoomInv

\* No step but socket and epoll_create1 opens anything.
LEMMA FewerOpen ==
  ASSUME RoomInv, ManagersInv, ManagersInv', HS!Open' \subseteq HS!Open,
         epolls' \subseteq epolls
  PROVE  RoomInv'
<1>1. IsFiniteSet(epolls)
  BY FirstN DEF ManagersInv
<1>2. Cardinality(epolls') <= Cardinality(epolls) /\ Cardinality(epolls) \in Nat
    /\ Cardinality(epolls') \in Nat
  BY <1>1, FS_Subset, FS_CardinalityType
<1>3. Cardinality(HS!Open') <= Cardinality(HS!Open) /\ Cardinality(HS!Open) \in Nat
    /\ Cardinality(HS!Open') \in Nat
  BY OpenIsFinite, FS_Subset, FS_CardinalityType
<1>4. QED BY <1>2, <1>3, Numbers DEF RoomInv

\* A step opens a socket or makes a manager only when there is room for it.
LEMMA RoomStep == ASSUME SocketsInv, ManagersInv, ManagersInv', RoomInv,
    [HS!Next]_(HS!vars) PROVE RoomInv'
<1>0. HS!Closed.port = 0
  BY ClosedIs
<1>1. ASSUME NEW p \in Ports, HS!Socket(p) PROVE RoomInv'
  <2>1. fd' \in HS!Fds \ HS!Open /\ UNCHANGED <<sockets, master, epolls>>
    BY <1>1, FreeNumber DEF HS!Socket, HS!running
  <2>2. HS!Open' \subseteq HS!Open \cup {fd'}
    BY <2>1 DEF HS!Open
  <2>3. /\ IsFiniteSet(HS!Open \cup {fd'})
           /\ Cardinality(HS!Open \cup {fd'}) = Cardinality(HS!Open) + 1
        /\ Cardinality(HS!Open) \in Nat
    BY <2>1, OpenIsFinite, FS_AddElement
  <2>4. Cardinality(HS!Open') <= Cardinality(HS!Open) + 1 /\ Cardinality(HS!Open') \in Nat
    BY <2>2, <2>3, FS_Subset, FS_CardinalityType
  <2>5. Cardinality(epolls) \in Nat /\ Cardinality(epolls') = Cardinality(epolls)
    BY <2>1, FirstN DEF ManagersInv
  <2>6. Cardinality(HS!Open) + Cardinality(epolls) < FdLimit
    BY <1>1, SizeOfSockets DEF HS!Socket, HS!Room
  <2>7. QED BY <2>3, <2>4, <2>5, <2>6, Numbers DEF RoomInv
<1>2. CASE HS!MakeManager
  <2>1. PICK n \in Nat : epolls = 1 .. n /\ Cardinality(epolls) = n /\ HS!Next1 = n + 1
    BY CountsAre DEF ManagersInv
  <2>2. epolls' = 1 .. n + 1
    BY <1>2, <2>1, SizeOfSockets DEF HS!MakeManager
  <2>3. Cardinality(epolls') = n + 1
    BY <2>1, <2>2, FirstN
  <2>4. HS!Open' = HS!Open
    BY <1>2, SizeOfSockets DEF HS!MakeManager, HS!Open
  <2>5. Cardinality(HS!Open) + n < FdLimit
    BY <1>2, <2>1, SizeOfSockets DEF HS!MakeManager, HS!Room
  <2>6. QED BY <2>1, <2>3, <2>4, <2>5, OpenIsFinite, Numbers DEF RoomInv
<1>3. CASE UNCHANGED <<sockets, master, fd, epolls>>
  BY <1>3, FewerOpen DEF HS!Open
<1>4. CASE HS!OpenFails
  <2>1. ASSUME NEW f \in HS!Fds, f \in HS!Open' PROVE f \in HS!Open
    BY <1>0, <1>4, <2>1, Numbers DEF HS!OpenFails, HS!Open, SocketsInv
  <2>2. HS!Open' \subseteq HS!Open
    BY <2>1 DEF HS!Open
  <2>3. QED BY <1>4, <2>2, FewerOpen DEF HS!OpenFails, HS!running
<1>5. CASE HS!Bind
  <2>1. HS!Open' \subseteq HS!Open /\ epolls' = epolls
    BY <1>5 DEF HS!Bind, HS!Open, HS!running, SocketsInv
  <2>2. QED BY <2>1, FewerOpen
<1>6. CASE HS!Listen
  <2>1. ASSUME NEW f \in HS!Fds, f \in HS!Open' PROVE f \in HS!Open
    BY <1>0, <1>6, <2>1, Numbers DEF HS!Listen, HS!Open, SocketsInv
  <2>2. HS!Open' \subseteq HS!Open
    BY <2>1 DEF HS!Open
  <2>3. QED BY <1>6, <2>2, FewerOpen DEF HS!Listen, HS!running
<1>7. CASE HS!Close \/ HS!Destroy
  <2>1. /\ sockets' = [f \in HS!Fds |-> IF f = master THEN HS!Closed ELSE sockets[f]]
        /\ master' = HS!NoFd /\ UNCHANGED <<fd, epolls>>
    BY <1>7 DEF HS!Close, HS!Destroy, HS!CloseMaster, HS!running
  <2>2. HS!Open' \subseteq HS!Open
    BY <1>0, <2>1, Numbers DEF HS!Open
  <2>3. QED BY <2>1, <2>2, FewerOpen
<1>8. CASE HS!Terminate
  <2>1. HS!Open' \subseteq HS!Open /\ epolls' = {}
    BY <1>0, <1>8, Numbers DEF HS!Terminate, HS!Open
  <2>2. QED BY <2>1, FewerOpen
<1>9. CASE HS!RunFails
  <2>1. CASE threads # {}
    BY <1>8, <1>9, <2>1 DEF HS!RunFails
  <2>2. CASE threads = {}
    <3>1. HS!Open' \subseteq HS!Open /\ epolls' = {}
      BY <1>9, <2>2 DEF HS!RunFails, HS!Open
    <3>2. QED BY <3>1, FewerOpen
  <2>3. QED BY <2>1, <2>2
<1>10. CASE HS!Running
  BY <1>2, <1>3, <1>8, <1>9, <1>10
  DEF HS!Running, HS!Run, HS!StartThread, HS!NoManager, HS!NoThread, HS!MainThrows,
      HS!ThreadThrows
<1>11. CASE UNCHANGED HS!vars
  BY <1>3, <1>11 DEF HS!vars, HS!running
<1>12. QED
  BY <1>1, <1>3, <1>4, <1>5, <1>6, <1>7, <1>10, <1>11
  DEF HS!Next, HS!Opening, HS!OtherTakes, HS!OtherLeaves, HS!NoSocket, HS!SetMaxConnect,
      HS!running

-----------------------------------------------------------------------------
ServerInv == SocketsInv /\ ManagersInv /\ RoomInv

\* The invariant holds at the start.
LEMMA ServerInit == HS!Init => ServerInv
  BY SocketsInit, ManagersInit, RoomInit DEF ServerInv

\* Every step keeps the invariant.
LEMMA ServerStepKept == ASSUME ServerInv, [HS!Next]_(HS!vars) PROVE ServerInv'
<1>1. SocketsInv' /\ ManagersInv'
  BY SocketsStep, ManagersStep DEF ServerInv
<1>2. QED BY <1>1, RoomStep DEF ServerInv

\* The invariant has the types of HttpServer.
LEMMA ServerTypesAre == ServerInv => HS!TypeOK
<1> SUFFICES ASSUME ServerInv PROVE HS!TypeOK
  OBVIOUS
<1>1. threads \subseteq epolls /\ epolls \subseteq 1 .. wanted /\ wanted \in Nat
  BY DEF ServerInv, ManagersInv
<1>2. QED BY <1>1, SizeOfSockets DEF HS!TypeOK, ServerInv, SocketsInv, RoomInv

\* Between calls no socket but that of the server is open.
LEMMA OneAddress == ServerInv => HS!ListensAtOneAddress
<1> SUFFICES ASSUME ServerInv, fd = HS!NoFd
    PROVE {f \in HS!Fds : sockets[f] # HS!Closed} = {master} \ {HS!NoFd}
  BY DEF HS!ListensAtOneAddress
<1>1. QED BY Numbers DEF ServerInv, SocketsInv

\* A call of open that throws changes nothing of an open server.
LEMMA FailedOpenStep == ASSUME ServerInv, [HS!Next]_(HS!vars)
    PROVE HS!FailedOpenChangesNothing
<1> SUFFICES ASSUME fd # HS!NoFd, fd' = HS!NoFd, thrown', object = "ready"
    PROVE  master' = master /\ (master # HS!NoFd => sockets'[master] = sockets[master])
  BY DEF HS!FailedOpenChangesNothing
<1>1. wanted = 0 /\ ~thrown /\ fd # master
  BY Numbers DEF ServerInv, SocketsInv
<1>2. threads = {}
  BY <1>1 DEF ServerInv, ManagersInv
<1>3. CASE HS!OpenFails
  BY <1>1, <1>3 DEF HS!OpenFails, ServerInv, SocketsInv
<1>4. ~HS!Listen
  BY <1>1 DEF HS!Listen
<1>5. ~UNCHANGED fd
  OBVIOUS
<1>6. ~HS!Running
  BY <1>1, <1>2, <1>5, SizeOfSockets
  DEF HS!Running, HS!Run, HS!MakeManager, HS!StartThread, HS!NoManager, HS!NoThread,
      HS!MainThrows, HS!Served
<1>7. QED
  BY <1>3, <1>4, <1>5, <1>6
  DEF HS!Next, HS!Opening, HS!vars, HS!OtherTakes, HS!OtherLeaves, HS!Socket, HS!NoSocket,
      HS!Bind, HS!SetMaxConnect, HS!Close, HS!Destroy

\* A server with all its managers keeps them, or its run or the process ends.
LEMMA ManagersStay == ASSUME ServerInv, [HS!Next]_(HS!vars) PROVE HS!AllManagersOrNone
<1> SUFFICES ASSUME HS!Served PROVE HS!Served' \/ ~alive' \/ (wanted' = 0 /\ epolls' = {})
  BY DEF HS!AllManagersOrNone
<1>1. alive /\ wanted > 0 /\ wanted \in Nat /\ Cardinality(epolls) = wanted
    /\ Cardinality(threads) = wanted - 1
  BY SizeOfSockets DEF HS!Served, ServerInv, ManagersInv
<1>2. fd = HS!NoFd
  BY <1>1 DEF ServerInv, SocketsInv
<1>3. CASE UNCHANGED <<alive, HS!running>>
  BY <1>3, SizeOfSockets DEF HS!Served, HS!running
<1>4. CASE HS!Terminate
  BY <1>4 DEF HS!Terminate
<1>5. CASE HS!RunFails
  BY <1>4, <1>5 DEF HS!RunFails
<1>6. ASSUME NEW n \in 0 .. MaxThreads + 1, HS!Run(n) PROVE FALSE
  BY <1>1, <1>6 DEF HS!Run, HS!Idle
<1>7. ~(HS!Next1 <= wanted) /\ ~(HS!Next1 - 1 < wanted)
  BY <1>1, SizeOfSockets DEF HS!Next1
<1>8. CASE HS!Running
  BY <1>4, <1>5, <1>6, <1>7, <1>8
  DEF HS!Running, HS!MakeManager, HS!StartThread, HS!NoManager, HS!NoThread, HS!MainThrows,
      HS!ThreadThrows
<1>9. wanted # 0
  BY <1>1
<1>10. QED
  BY <1>2, <1>3, <1>8, <1>9
  DEF HS!Idle, HS!running, HS!Next, HS!Opening, HS!vars, HS!OtherTakes, HS!OtherLeaves,
      HS!Socket, HS!NoSocket, HS!OpenFails, HS!Bind, HS!Listen, HS!SetMaxConnect, HS!Close,
      HS!Destroy

\* A call of run that ends leaves no manager and no thread, and the sockets as they were.
LEMMA RunThrowsStep == ASSUME [HS!Next]_(HS!vars) PROVE HS!RunThrowsClean
<1> SUFFICES ASSUME wanted > 0, wanted' = 0
    PROVE threads' = {} /\ epolls' = {} /\ master' = master /\ sockets' = sockets
  BY DEF HS!RunThrowsClean
<1>1. wanted # 0 /\ wanted' # wanted
  OBVIOUS
<1>2. CASE HS!RunFails
  BY <1>1, <1>2 DEF HS!RunFails, HS!Terminate
<1>3. QED
  BY <1>1, <1>2
  DEF HS!Next, HS!Opening, HS!Running, HS!vars, HS!running, HS!OtherTakes, HS!OtherLeaves,
      HS!Socket, HS!NoSocket, HS!OpenFails, HS!Bind, HS!Listen,
      HS!SetMaxConnect, HS!Close, HS!Destroy, HS!Run, HS!Idle, HS!MakeManager,
      HS!StartThread, HS!NoManager, HS!NoThread, HS!MainThrows,
      HS!ThreadThrows, HS!Terminate

\* Server.cpp: for any calls of open, close and run and whichever call of the system
\* fails, the types hold, and between calls the process listens at no address but that
\* of the server.
THEOREM ServerHolds == HS!Spec => [](HS!TypeOK /\ HS!ListensAtOneAddress)
<1>1. HS!Init => ServerInv BY ServerInit
<1>2. ServerInv /\ [HS!Next]_(HS!vars) => ServerInv' BY ServerStepKept
<1>3. QED BY <1>1, <1>2, ServerTypesAre, OneAddress, PTL DEF HS!Spec

-----------------------------------------------------------------------------
(***************************************************************************)
(* The four parts together                                                 *)
(***************************************************************************)

\* A step of the composition is a step of each part, or leaves it alone.
LEMMA StepOfEach ==
  ASSUME [Step]_all
  PROVE  /\ [RC!Next]_(RC!vars) /\ [HP!Next]_(HP!vars)
         /\ [HR!Next]_(HR!vars) /\ [HS!Next]_(HS!vars)
<1>1. /\ UNCHANGED receiver => UNCHANGED RC!vars
      /\ UNCHANGED parser => UNCHANGED HP!vars
      /\ UNCHANGED answer => UNCHANGED HR!vars
      /\ UNCHANGED server => UNCHANGED HS!vars
  BY DEF receiver, parser, answer, server, RC!vars, HP!vars, HR!vars, HS!vars
<1>2. CASE ReceiverStep
  BY <1>1, <1>2 DEF ReceiverStep
<1>3. CASE ParserStep
  BY <1>1, <1>3 DEF ParserStep
<1>4. CASE AnswerStep
  BY <1>1, <1>4 DEF AnswerStep
<1>5. CASE ServerStep
  BY <1>1, <1>5 DEF ServerStep
<1>6. CASE UNCHANGED all
  BY <1>1, <1>6 DEF all
<1>7. QED
  BY <1>2, <1>3, <1>4, <1>5, <1>6 DEF Step

\* A behaviour of the composition is one of each of its parts.
LEMMA BehaviourOfEach == Parts => RC!Spec /\ HP!Spec /\ HR!Spec /\ HS!Spec
<1>1. Start => RC!Init /\ HP!Init /\ HR!Init /\ HS!Init
  BY DEF Start
<1>2. [Step]_all => /\ [RC!Next]_(RC!vars) /\ [HP!Next]_(HP!vars)
                    /\ [HR!Next]_(HR!vars) /\ [HS!Next]_(HS!vars)
  BY StepOfEach
<1>3. QED
  BY <1>1, <1>2, PTL DEF Parts, RC!Spec, HP!Spec, HR!Spec, HS!Spec

\* The types of the four parts, for any streams, texts, handlers and servers: no
\* size is negative, and nothing of a stream is lost but NUL and what follows.
THEOREM TypesAreOK == Parts => []TypesOK
<1>1. RC!TypeOK /\ HP!TypeOK /\ HR!TypeOK /\ HS!TypeOK => TypesOK
  BY DEF TypesOK
<1>2. QED
  BY <1>1, BehaviourOfEach, ReceiverHolds, ParserHolds, AnswerHolds, ServerHolds, PTL

\* HttpResponse.cpp: a client gets the answer once and in order, and reads its
\* body by the Content-Length the answer has.
THEOREM AnswersAreReadableHolds == Parts => []AnswersAreReadable
<1>1. HR!ResponseIsOne /\ HR!ClientReadsTheBody => AnswersAreReadable
  BY DEF AnswersAreReadable
<1>2. QED
  BY <1>1, BehaviourOfEach, AnswerHolds, PTL

\* Server.cpp, utils.cpp and HeadersMap.cpp: what a call of open or run that throws
\* leaves behind, one address, and no loop of the parser that goes on for ever.
THEOREM FailuresAndLoopsEndHolds == Parts => FailuresAndLoopsEnd
<1>1. ServerInv /\ [HS!Next]_(HS!vars) =>
        HS!FailedOpenChangesNothing /\ HS!AllManagersOrNone /\ HS!RunThrowsClean
  BY FailedOpenStep, ManagersStay, RunThrowsStep
<1>2. ParserTypes /\ [HP!Next]_(HP!vars) => [HP!RoundsTakeText]_parser
  BY ParserStepKept DEF parser, HP!vars
<1>3. [Step]_all => [HP!Next]_(HP!vars) /\ [HS!Next]_(HS!vars)
  BY StepOfEach
<1>4. HS!Spec => []ServerInv
  BY ServerInit, ServerStepKept, PTL DEF HS!Spec
<1>5. HP!Spec => []ParserTypes
  BY ParserTypesInit, ParserStepKept, PTL DEF HP!Spec
<1>6. /\ HS!ListensAtOneAddress' /\ HS!FailedOpenChangesNothing
      /\ HS!AllManagersOrNone /\ HS!RunThrowsClean /\ [HP!RoundsTakeText]_parser
      => [/\ HS!ListensAtOneAddress' /\ HS!FailedOpenChangesNothing
          /\ HS!AllManagersOrNone /\ HS!RunThrowsClean
          /\ [HP!RoundsTakeText]_parser]_all
  OBVIOUS
<1>7. Parts => [][Step]_all
  BY PTL DEF Parts
<1>8. QED
  BY <1>1, <1>2, <1>3, <1>4, <1>5, <1>6, <1>7, BehaviourOfEach, ServerHolds, PTL
  DEF FailuresAndLoopsEnd
=============================================================================
