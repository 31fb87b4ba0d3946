---------------------------- MODULE Parsing_proofs ----------------------------
(***************************************************************************)
(* Proofs about HttpParsing: for any requests of clients that keep to the  *)
(* grammar of HTTP, with any number of parameters and header lines, the    *)
(* parser gets what the client meant, and throws for the reasons that      *)
(* ThrowsForAMissingValue names only.                                      *)
(***************************************************************************)
EXTENDS Http_proofs

-----------------------------------------------------------------------------
\* What a client that keeps to HTTP writes.
LEMMA ClientsAre ==
  /\ \A f \in Lines :
       /\ f.verb \in HP!Text /\ f.verb # <<>> /\ HP!Without(f.verb, HP!Blanks)
       /\ f.protocol \in HP!Text /\ f.protocol # <<>> /\ HP!Without(f.protocol, HP!Blanks)
       /\ f.method = HP!MethodOf(f.verb) /\ f.version = HP!VersionOf(f.protocol)
  /\ \A p \in Pairs : p.key \in HP!Text /\ p.value \in HP!Text
  /\ \A f \in Fields :
       /\ f.name \in HP!Text /\ HP!Without(f.name, HP!Whitespaces \cup {HP!Colon, HP!CR})
       /\ f.value \in HP!Text /\ HP!Without(f.value, {HP!CR})
       /\ HP!Blank(f.value) \/ f.value[1] \notin HP!Whitespaces
  /\ MaxItems \in Nat /\ After \subseteq HP!Text
  BY TextsAssumption DEF HP!ParserAssumption

-----------------------------------------------------------------------------
\* Texts one behind the other

\* The order in which three texts are joined makes no difference.
LEMMA Associative == ASSUME NEW a \in HP!Text, NEW b \in HP!Text, NEW c \in HP!Text
  PROVE (a \o b) \o c = a \o (b \o c)
<1> DEFINE C == 0 .. 255
<1> HIDE DEF C
<1>1. a \in Seq(C) /\ b \in Seq(C) /\ c \in Seq(C)
  BY DEF HP!Text, C
<1>2. QED BY <1>1, ConcatAssociative

\* Nothing before or behind a text leaves it as it is.
LEMMA NothingJoined == ASSUME NEW a \in HP!Text PROVE a \o <<>> = a /\ <<>> \o a = a
<1>1. a \in Seq(0 .. 255)
  BY DEF HP!Text
<1> DEFINE C == 0 .. 255
<1> HIDE DEF C
<1>2. a \in Seq(C)
  BY <1>1 DEF C
<1>3. QED BY <1>2, ConcatEmptySeq

\* The first of two texts, and what is behind it.
LEMMA JoinedParts == ASSUME NEW a \in HP!Text, NEW b \in HP!Text
  PROVE  /\ HP!Substr(a \o b, 0, Len(a)) = a
         /\ HP!RemovePrefix(a \o b, Len(a)) = b
         /\ HP!Substr(a \o b, Len(a), HP!Npos) = b
<1>1. PICK s : s = a \o b
  OBVIOUS
<1>2. Len(a) \in Nat /\ Len(b) \in Nat
  BY CharIs
<1>3. /\ s \in HP!Text /\ Len(s) = Len(a) + Len(b)
      /\ \A i \in 1 .. Len(a) : s[i] = a[i]
      /\ \A i \in 1 .. Len(b) : s[Len(a) + i] = b[i]
  BY <1>1, TextsJoined
<1>4. HP!Substr(s, 0, Len(a)) = a
  <2>1. PICK t : t = HP!Substr(s, 0, Len(a))
    OBVIOUS
  <2>2. /\ t \in HP!Text /\ Begins(t, s)
        /\ Len(t) = IF Len(a) = HP!Npos \/ Len(a) > Len(s) THEN Len(s) ELSE Len(a)
    <3>1. Len(a) \in Nat \cup {HP!Npos}
      BY <1>2
    <3>2. QED BY <1>3, <2>1, <3>1, BeginningIs
  <2>3. Len(t) = Len(a)
    BY <1>2, <1>3, <2>2 DEF HP!Npos
  <2>4. \A i \in 1 .. Len(t) : t[i] = a[i]
    BY <1>3, <2>2, <2>3 DEF Begins
  <2>5. t = a
    BY <2>2, <2>3, <2>4, SameTexts
  <2>6. QED BY <2>1, <2>5
<1>5. HP!RemovePrefix(s, Len(a)) = b
  <2>1. PICK t : t = HP!RemovePrefix(s, Len(a))
    OBVIOUS
  <2>2. PICK n \in Nat : n = Len(a)
    BY <1>2
  <2>3. n <= Len(s) /\ Len(s) - n = Len(b)
    BY <1>2, <1>3, <2>2
  <2>4. /\ t \in HP!Text /\ Len(t) = Len(s) - n
        /\ \A i \in 1 .. Len(s) - n : t[i] = s[n + i]
    BY <1>3, <2>1, <2>2, <2>3, BehindIs
  <2>5. Len(t) = Len(b) /\ \A i \in 1 .. Len(t) : t[i] = b[i]
    BY <1>3, <2>2, <2>3, <2>4
  <2>6. t = b
    BY <2>4, <2>5, SameTexts
  <2>7. QED BY <2>1, <2>6
<1>6. HP!Substr(s, Len(a), HP!Npos) = HP!RemovePrefix(s, Len(a))
  BY DEF HP!Substr, HP!RemovePrefix
<1>7. QED BY <1>1, <1>4, <1>5, <1>6

\* What two texts are, one behind the other, with their lengths and their parts.
JoinOf(s, a, b) ==
  /\ s \in HP!Text /\ Len(a) \in Nat /\ Len(b) \in Nat /\ Len(s) = Len(a) + Len(b)
  /\ \A i \in 1 .. Len(a) : s[i] = a[i]
  /\ \A i \in 1 .. Len(b) : s[Len(a) + i] = b[i]
  /\ HP!Substr(s, 0, Len(a)) = a
  /\ HP!RemovePrefix(s, Len(a)) = b /\ HP!Substr(s, Len(a), HP!Npos) = b
Regrouped(a, b, c) == (a \o b) \o c = a \o (b \o c)

\* The same of any two texts.
LEMMA JoinedIs == ASSUME NEW a \in HP!Text, NEW b \in HP!Text, NEW s, s = a \o b
  PROVE JoinOf(s, a, b)
<1>1. Len(a) \in Nat /\ Len(b) \in Nat
  BY CharIs
<1>2. /\ s \in HP!Text /\ Len(s) = Len(a) + Len(b)
      /\ \A i \in 1 .. Len(a) : s[i] = a[i]
      /\ \A i \in 1 .. Len(b) : s[Len(a) + i] = b[i]
  BY TextsJoined
<1>3. /\ HP!Substr(s, 0, Len(a)) = a
      /\ HP!RemovePrefix(s, Len(a)) = b /\ HP!Substr(s, Len(a), HP!Npos) = b
  BY JoinedParts
<1>4. QED BY <1>1, <1>2, <1>3 DEF JoinOf

\* The order in which three texts are joined makes no difference.
LEMMA Regroup == ASSUME NEW a \in HP!Text, NEW b \in HP!Text, NEW c \in HP!Text
  PROVE Regrouped(a, b, c)
BY Associative DEF Regrouped

\* An end of a line and a text behind it.
EndlineBefore(e, u) ==
  /\ e \in HP!Text /\ Len(u) \in Nat /\ Len(e) = 2 + Len(u) /\ e[1] = HP!CR /\ e[2] = HP!LF
  /\ \A i \in 1 .. Len(u) : e[2 + i] = u[i]

\* The same of any text.
LEMMA EndlineJoined == ASSUME NEW u \in HP!Text, NEW e, e = HP!Endline \o u
  PROVE EndlineBefore(e, u)
<1>1. PICK c : c = HP!Endline
  OBVIOUS
<1>2. c \in HP!Text /\ Len(c) = 2 /\ c[1] = HP!CR /\ c[2] = HP!LF
  BY <1>1, Ends
<1>3. JoinOf(e, c, u)
  BY <1>1, <1>2, JoinedIs
<1>4. /\ e \in HP!Text /\ Len(u) \in Nat /\ Len(e) = 2 + Len(u)
      /\ \A i \in 1 .. 2 : e[i] = c[i]
      /\ \A i \in 1 .. Len(u) : e[2 + i] = u[i]
  BY <1>2, <1>3 DEF JoinOf
<1>5. e[1] = HP!CR /\ e[2] = HP!LF
  BY <1>2, <1>4
<1>6. QED BY <1>4, <1>5 DEF EndlineBefore

\* The first n characters of a text.
LEMMA CutIs == ASSUME NEW s \in HP!Text, NEW n \in Nat, n <= Len(s), NEW w, w = HP!Substr(s, 0, n)
  PROVE w \in HP!Text /\ Len(w) = n /\ Begins(w, s)
<1>1. n \in Nat \cup {HP!Npos} /\ ~(n = HP!Npos \/ n > Len(s))
  BY CharIs DEF HP!Npos
<1>2. PICK t : t = HP!Substr(s, 0, n)
  OBVIOUS
<1>3. /\ t \in HP!Text /\ Begins(t, s)
      /\ Len(t) = IF n = HP!Npos \/ n > Len(s) THEN Len(s) ELSE n
  BY <1>1, <1>2, BeginningIs
<1>4. QED BY <1>1, <1>2, <1>3

\* A text that is found stands where it is found.
LEMMA FoundAt == ASSUME NEW s \in HP!Text, NEW t \in HP!Text, NEW f, f = HP!Find(s, t, 0)
  PROVE f = HP!Npos \/ (f \in Nat /\ At(s, t, f))
<1>1. 0 \in Nat
  OBVIOUS
<1>2. QED BY <1>1, FoundIs

\* Where a text is found first.
LEMMA FirstAt ==
  ASSUME NEW s \in HP!Text, NEW t \in HP!Text, NEW p \in Nat, At(s, t, p),
         \A i \in Nat : i < p => ~At(s, t, i)
  PROVE  HP!Find(s, t, 0) = p
<1>1. PICK f : f = HP!Find(s, t, 0)
  OBVIOUS
<1>2. 0 \in Nat /\ \A i \in Nat : 0 <= i
  OBVIOUS
<1>3. f \in Nat /\ At(s, t, f) /\ \A i \in Nat : At(s, t, i) => f <= i
  BY <1>1, <1>2, FoundIs
<1>4. f <= p /\ ~(f < p)
  BY <1>3
<1>5. QED BY <1>1, <1>3, <1>4

\* Where nothing is found.
LEMMA NowhereAt ==
  ASSUME NEW s \in HP!Text, NEW t \in HP!Text, \A i \in Nat : ~At(s, t, i)
  PROVE  HP!Find(s, t, 0) = HP!Npos
<1>1. 0 \in Nat
  OBVIOUS
<1>2. QED BY <1>1, FoundIs

\* A character is found behind a text that does not have it, and not in that text.
LEMMA FoundChar ==
  ASSUME NEW a \in HP!Text, NEW b \in HP!Text, NEW c \in 0 .. 255, HP!Without(a, {c})
  PROVE  /\ HP!Find(a \o (<<c>> \o b), <<c>>, 0) = Len(a)
         /\ HP!Find(a, <<c>>, 0) = HP!Npos
<1>1. PICK t : t = <<c>>
  BY ZenonT(30)
<1>2. t \in HP!Text /\ Len(t) = 1 /\ t[1] = c
  BY <1>1, ShortText, ZenonT(30)
<1>3. PICK u : u = t \o b
  OBVIOUS
<1>4. u \in HP!Text /\ Len(u) = 1 + Len(b) /\ u[1] = c
  <2>1. /\ u \in HP!Text /\ Len(u) = Len(t) + Len(b)
        /\ \A i \in 1 .. Len(t) : u[i] = t[i]
    BY <1>2, <1>3, TextsJoined
  <2>2. QED BY <1>2, <2>1
<1>5. PICK s : s = a \o u
  OBVIOUS
<1>6. /\ s \in HP!Text /\ Len(s) = Len(a) + Len(u)
      /\ \A i \in 1 .. Len(a) : s[i] = a[i]
      /\ \A i \in 1 .. Len(u) : s[Len(a) + i] = u[i]
  BY <1>4, <1>5, TextsJoined, ZenonT(30)
<1>7. DOMAIN a = 1 .. Len(a) /\ Len(a) \in Nat /\ Len(b) \in Nat
  BY CharIs
<1>8. \A i \in 1 .. Len(a) : a[i] # c
  BY <1>7 DEF HP!Without
<1>9. \A x : \A i \in Nat : At(x, t, i) <=> i + 1 <= Len(x) /\ x[i + 1] = c
  <2>1. 1 .. 1 = {1}
    OBVIOUS
  <2>2. QED BY <1>2, <2>1 DEF At
<1>10. HP!Find(s, t, 0) = Len(a)
  <2>1. At(s, t, Len(a))
    <3>1. 1 \in 1 .. Len(u) /\ Len(a) + 1 <= Len(s)
      BY <1>4, <1>6, <1>7
    <3>2. s[Len(a) + 1] = c
      BY <1>4, <1>6, <3>1
    <3>3. QED BY <1>7, <1>9, <3>1, <3>2
  <2>2. ASSUME NEW i \in Nat, i < Len(a) PROVE ~At(s, t, i)
    <3>1. i + 1 \in 1 .. Len(a)
      BY <1>7, <2>2
    <3>2. s[i + 1] # c
      BY <1>6, <1>8, <3>1
    <3>3. QED BY <1>9, <3>2
  <2>3. QED BY <1>2, <1>6, <1>7, <2>1, <2>2, FirstAt
<1>11. HP!Find(a, t, 0) = HP!Npos
  <2>1. ASSUME NEW i \in Nat PROVE ~At(a, t, i)
    <3>1. i + 1 <= Len(a) => i + 1 \in 1 .. Len(a)
      BY <1>7
    <3>2. QED BY <1>8, <1>9, <3>1
  <2>2. QED BY <1>2, <2>1, NowhereAt
<1>12. QED BY <1>1, <1>3, <1>5, <1>10, <1>11

\* The first line of a text, and what is behind its end.
LEMMA FirstLineIs ==
  ASSUME NEW l \in HP!Text, NEW t \in HP!Text, HP!Without(l, {HP!CR})
  PROVE  /\ HP!Find(l \o (HP!Endline \o t), HP!Endline, 0) = Len(l)
         /\ HP!Substr(l \o (HP!Endline \o t), 0, Len(l)) = l
         /\ HP!RemovePrefix(l \o (HP!Endline \o t), Len(l) + 2) = t
<1>1. PICK e : e = HP!Endline
  OBVIOUS
<1>2. e \in HP!Text /\ Len(e) = 2 /\ e[1] = HP!CR /\ e[2] = HP!LF
  BY <1>1, Ends
<1>3. PICK u : u = e \o t
  OBVIOUS
<1>4. u \in HP!Text /\ Len(u) = 2 + Len(t) /\ u[1] = HP!CR /\ u[2] = HP!LF
  <2>1. /\ u \in HP!Text /\ Len(u) = Len(e) + Len(t)
        /\ \A i \in 1 .. Len(e) : u[i] = e[i]
    BY <1>2, <1>3, TextsJoined
  <2>2. QED BY <1>2, <2>1
<1>5. PICK s : s = l \o u
  OBVIOUS
<1>6. /\ s \in HP!Text /\ Len(s) = Len(l) + Len(u)
      /\ \A i \in 1 .. Len(l) : s[i] = l[i]
      /\ \A i \in 1 .. Len(u) : s[Len(l) + i] = u[i]
  BY <1>4, <1>5, TextsJoined, ZenonT(30)
<1>7. DOMAIN l = 1 .. Len(l) /\ Len(l) \in Nat /\ Len(t) \in Nat
  BY CharIs
<1>8. \A i \in 1 .. Len(l) : l[i] # HP!CR
  BY <1>7 DEF HP!Without
<1>9. HP!Find(s, e, 0) = Len(l)
  <2>1. At(s, e, Len(l))
    <3>1. 1 \in 1 .. Len(u) /\ 2 \in 1 .. Len(u) /\ Len(l) + 2 <= Len(s)
      BY <1>4, <1>6, <1>7
    <3>2. s[Len(l) + 1] = HP!CR /\ s[Len(l) + 2] = HP!LF
      BY <1>4, <1>6, <3>1
    <3>3. QED BY <1>1, <1>6, <1>7, <3>1, <3>2, EndlineAt
  <2>2. ASSUME NEW i \in Nat, i < Len(l) PROVE ~At(s, e, i)
    <3>1. i + 1 \in 1 .. Len(l)
      BY <1>7, <2>2
    <3>2. s[i + 1] # HP!CR
      BY <1>6, <1>8, <3>1
    <3>3. QED BY <1>1, <1>6, <3>2, EndlineAt
  <2>3. QED BY <1>2, <1>6, <1>7, <2>1, <2>2, FirstAt
<1>10. HP!Substr(s, 0, Len(l)) = l
  BY <1>4, <1>5, JoinedParts
<1>11. HP!RemovePrefix(s, Len(l) + 2) = t
  <2>1. PICK h : h = l \o e
    OBVIOUS
  <2>2. h \in HP!Text /\ Len(h) = Len(l) + 2
    <3>1. h \in HP!Text /\ Len(h) = Len(l) + Len(e)
      BY <1>2, <2>1, TextsJoined
    <3>2. QED BY <1>2, <3>1
  <2>3. s = h \o t
    BY <1>2, <1>3, <1>5, <2>1, Associative
  <2>4. HP!RemovePrefix(h \o t, Len(h)) = t
    BY <2>2, JoinedParts
  <2>5. QED BY <2>2, <2>3, <2>4
<1>12. QED BY <1>1, <1>3, <1>5, <1>9, <1>10, <1>11

-----------------------------------------------------------------------------
\* What is left of texts one behind the other

\* r[i] is what is left of the n texts of q, joined, behind the first i of them.
Tailed(r, q, n) ==
  /\ r \in [0 .. n -> HP!Text]
  /\ r[0] = HP!FlattenSeq(q) /\ r[n] = <<>>
  /\ \A i \in 1 .. n : r[i - 1] = q[i] \o r[i]
  /\ \A i \in 0 .. n : \E b \in HP!Text : r[0] = b \o r[i]

\* Any texts have what is left of them.
LEMMA TailsAre ==
  ASSUME NEW n \in Nat, NEW q, DOMAIN q = 1 .. n, Len(q) = n, q \in Seq(HP!Text)
  PROVE  \E r : Tailed(r, q, n)
<1>1. PICK g \in [0 .. n -> HP!Text] :
           /\ g[0] = <<>> /\ g[n] = HP!FlattenSeq(q)
           /\ \A i \in 1 .. n : g[i] = g[i - 1] \o q[i]
  BY FlattenFronts
<1>2. \A i \in 1 .. n : q[i] \in HP!Text
  OBVIOUS
<1> DEFINE From(r, k) ==
             /\ r \in [n - k .. n -> HP!Text] /\ r[n] = <<>>
             /\ \A i \in n - k + 1 .. n : r[i - 1] = q[i] \o r[i]
             /\ \A i \in n - k .. n : g[i] \o r[i] = g[n]
           B == {k \in 0 .. n : \E r : From(r, k)}
<1>3. \A k : k \in B <=> k \in 0 .. n /\ \E r : From(r, k)
  OBVIOUS
<1> HIDE DEF B
<1>4. B \in SUBSET (0 .. n)
  BY <1>3
<1>5. 0 \in B
  <2>1. PICK r : r = [i \in n - 0 .. n |-> <<>>]
    OBVIOUS
  <2>2. n - 0 .. n = {n} /\ n - 0 + 1 .. n = {}
    OBVIOUS
  <2>3. r \in [n - 0 .. n -> HP!Text] /\ r[n] = <<>>
    BY <2>1, <2>2, ShortTexts
  <2>4. g[n] \o r[n] = g[n]
    <3>1. g[n] \in HP!Text
      OBVIOUS
    <3>2. QED BY <2>3, <3>1, NothingJoined
  <2>5. From(r, 0)
    BY <2>2, <2>3, <2>4
  <2> HIDE DEF From
  <2>6. QED BY <1>3, <2>5
<1>6. ASSUME NEW k \in B, k < n PROVE k + 1 \in B
  <2>1. k \in 0 .. n /\ k \in Nat /\ k + 1 \in 0 .. n
    BY <1>4, <1>6
  <2>2. PICK r : From(r, k)
    BY <1>3
  <2>3. PICK j : j = n - (k + 1)
    OBVIOUS
  <2>4. j \in 0 .. n /\ j + 1 \in 1 .. n /\ j + 1 = n - k /\ j < n - k
      /\ j + 1 \in n - k .. n /\ j + 1 - 1 = j
    BY <1>6, <2>1, <2>3
  <2>5. PICK x : x = j + 1
    OBVIOUS
  <2>6. x = n - k /\ x \in n - k .. n /\ x \in 1 .. n /\ x - 1 = j /\ j \in Int
    BY <2>4, <2>5
  <2>7. r[x] \in HP!Text /\ q[x] \in HP!Text /\ g[j] \in HP!Text /\ g[x] = g[j] \o q[x]
    BY <1>1, <1>2, <2>2, <2>4, <2>6
  <2>8. q[x] \o r[x] \in HP!Text
    BY <2>7, TextsJoined
  <2>9. PICK h : h = [i \in j .. n |-> IF i = j THEN q[x] \o r[x] ELSE r[i]]
    OBVIOUS
  <2>10. \A i \in j .. n : i = j \/ i \in n - k .. n
    BY <2>4
  <2>11. n - k .. n \subseteq j .. n /\ j \in j .. n /\ j \notin n - k .. n /\ n \in n - k .. n
    BY <2>1, <2>4
  <2>12. h[j] = q[x] \o r[x] /\ \A i \in n - k .. n : h[i] = r[i]
    BY <2>9, <2>11
  <2>13. h \in [j .. n -> HP!Text] /\ h[n] = <<>>
    BY <2>2, <2>8, <2>9, <2>10, <2>11, <2>12
  <2>14. ASSUME NEW i \in j + 1 .. n PROVE h[i - 1] = q[i] \o h[i]
    <3>1. i = x \/ i \in n - k + 1 .. n
      BY <2>4, <2>5
    <3>2. CASE i = x
      BY <2>6, <2>12, <3>2
    <3>3. CASE i \in n - k + 1 .. n
      <4>1. i - 1 \in n - k .. n /\ i \in n - k .. n
        BY <2>1, <3>3
      <4>2. QED BY <2>2, <2>12, <3>3, <4>1
    <3>4. QED BY <3>1, <3>2, <3>3
  <2>15. ASSUME NEW i \in j .. n PROVE g[i] \o h[i] = g[n]
    <3>1. CASE i = j
      <4>1. g[j] \o (q[x] \o r[x]) = (g[j] \o q[x]) \o r[x]
        BY <2>7, Associative
      <4>2. g[x] \o r[x] = g[n]
        BY <2>2, <2>6
      <4>3. QED BY <2>7, <2>12, <3>1, <4>1, <4>2
    <3>2. CASE i \in n - k .. n
      BY <2>2, <2>12, <3>2
    <3>3. QED BY <2>10, <3>1, <3>2
  <2>16. From(h, k + 1)
    BY <2>3, <2>13, <2>14, <2>15
  <2> HIDE DEF From
  <2>17. QED BY <1>3, <2>1, <2>16
<1>7. n \in B
  BY <1>4, <1>5, <1>6, SetInduction
<1>8. PICK r : From(r, n)
  BY <1>3, <1>7
<1>9. n - n = 0 /\ 0 + 1 = 1 /\ 0 \in 0 .. n
  OBVIOUS
<1>10. /\ r \in [0 .. n -> HP!Text] /\ r[n] = <<>>
       /\ \A i \in 1 .. n : r[i - 1] = q[i] \o r[i]
       /\ \A i \in 0 .. n : g[i] \o r[i] = g[n]
  BY <1>8, <1>9
<1>11. r[0] = g[n]
  <2>1. r[0] \in HP!Text /\ <<>> \o r[0] = g[n]
    BY <1>1, <1>9, <1>10, ZenonT(30)
  <2>2. QED BY <2>1, NothingJoined
<1>12. \A i \in 0 .. n : \E b \in HP!Text : r[0] = b \o r[i]
  BY <1>1, <1>10, <1>11
<1>13. Tailed(r, q, n)
  BY <1>1, <1>10, <1>11, <1>12 DEF Tailed
<1>14. QED BY <1>13

\* What holds of what is left behind the last text, and with a text more when it
\* holds without it, holds of them all: induction over the texts.
LEMMA CountDown ==
  ASSUME NEW n \in Nat, NEW B \in SUBSET (0 .. n), n \in B,
         \A i \in 1 .. n : i \in B => i - 1 \in B
  PROVE  B = 0 .. n
<1> SUFFICES ASSUME NEW k \in 0 .. n PROVE k \in B
  OBVIOUS
<1>1. PICK m \in Nat : m = n - k
  OBVIOUS
<1>2. PICK D : D = {i \in 0 .. m : n - i \in B}
  OBVIOUS
<1>3. D \in SUBSET (0 .. m) /\ 0 \in D
  BY <1>1, <1>2
<1>4. \A i \in D : i < m => i + 1 \in D
  <2>1. TAKE i \in D
  <2>2. HAVE i < m
  <2>3. i \in Nat /\ n - i \in B /\ n - i \in 1 .. n
    BY <1>1, <1>2, <2>2
  <2>4. n - i - 1 \in B /\ n - i - 1 = n - (i + 1)
    BY <1>1, <2>3
  <2>5. QED BY <1>2, <2>2, <2>3, <2>4
<1>5. m \in D
  BY <1>3, <1>4, SetInduction
<1>6. n - m = k
  BY <1>1
<1>7. QED BY <1>2, <1>5, <1>6

-----------------------------------------------------------------------------
\* What is escaped is decoded

\* A character as Encode writes it.
Code(c) ==
  IF c \in HP!Reserved THEN <<HP!Percent, HP!Digit(c \div 16), HP!Digit(c % 16)>> ELSE <<c>>

\* The characters that have a meaning in a query string or in a first line.
Special == {HP!Amp, HP!Equals, HP!Question} \cup HP!Blanks

\* Joined texts have no character that neither has.
LEMMA WithoutJoined ==
  ASSUME NEW a \in HP!Text, NEW b \in HP!Text, NEW C, HP!Without(a, C), HP!Without(b, C)
  PROVE  HP!Without(a \o b, C)
<1>1. PICK s : s = a \o b
  OBVIOUS
<1>2. /\ s \in HP!Text /\ Len(s) = Len(a) + Len(b)
      /\ \A i \in 1 .. Len(a) : s[i] = a[i]
      /\ \A i \in 1 .. Len(b) : s[Len(a) + i] = b[i]
  BY <1>1, TextsJoined
<1>3. /\ DOMAIN a = 1 .. Len(a) /\ Len(a) \in Nat /\ DOMAIN b = 1 .. Len(b) /\ Len(b) \in Nat
      /\ DOMAIN s = 1 .. Len(s)
  BY <1>2, CharIs
<1>4. ASSUME NEW i \in 1 .. Len(s) PROVE s[i] \notin C
  <2>1. CASE i <= Len(a)
    <3>1. i \in 1 .. Len(a)
      BY <1>3, <2>1
    <3>2. QED BY <1>2, <1>3, <3>1 DEF HP!Without
  <2>2. CASE ~(i <= Len(a))
    <3>1. PICK k : k = i - Len(a)
      OBVIOUS
    <3>2. k \in 1 .. Len(b) /\ Len(a) + k = i
      BY <1>2, <1>3, <2>2, <3>1
    <3>3. QED BY <1>2, <1>3, <3>2 DEF HP!Without
  <2>3. QED BY <2>1, <2>2
<1>5. QED BY <1>1, <1>3, <1>4 DEF HP!Without

\* A text has no character of a part of a set it has none of.
LEMMA WithoutPart == ASSUME NEW s, NEW C, NEW D \in SUBSET C, HP!Without(s, C)
  PROVE HP!Without(s, D)
  BY DEF HP!Without

\* The two digits of a character that is escaped are its code.
LEMMA DigitsAre == ASSUME NEW c \in HP!Reserved
  PROVE  /\ HP!Digit(c \div 16) \in 48 .. 57 \cup 65 .. 70
         /\ HP!Digit(c % 16) \in 48 .. 57 \cup 65 .. 70
         /\ HP!Strtoul(HP!Digit(c \div 16), HP!Digit(c % 16)) = c
<1>1. c \in {9, 10, 11, 12, 13, 32, 37, 38, 61, 63} \cup 128 .. 255
  BY DEF HP!Reserved, HP!Blanks, HP!TAB, HP!CR, HP!Space, HP!Percent, HP!Amp, HP!Equals,
    HP!Question
<1>2. PICK x, y : x = c \div 16 /\ y = c % 16
  OBVIOUS
<1>3. x \in 0 .. 15 /\ y \in 0 .. 15 /\ 16 * x + y = c
  BY <1>1, <1>2
<1>4. \A n \in 0 .. 15 : HP!Digit(n) \in 48 .. 57 \cup 65 .. 70 /\ HP!Hex(HP!Digit(n)) = n
  BY DEF HP!Digit, HP!Hex
<1>5. HP!IsHex(HP!Digit(x)) /\ HP!IsHex(HP!Digit(y))
  BY <1>3, <1>4 DEF HP!IsHex, HP!Npos
<1>6. HP!Strtoul(HP!Digit(x), HP!Digit(y)) = 16 * x + y
  <2>1. PICK a, b : a = HP!Digit(x) /\ b = HP!Digit(y)
    OBVIOUS
  <2>2. HP!IsHex(a) /\ HP!IsHex(b) /\ x = HP!Hex(a) /\ y = HP!Hex(b)
    BY <1>3, <1>4, <1>5, <2>1
  <2>3. a \notin HP!TAB .. HP!CR \cup {HP!Space, 43} /\ a # 45
    BY <1>3, <1>4, <2>1 DEF HP!TAB, HP!CR, HP!Space
  <2>4. HP!Strtoul(a, b) = 16 * x + y
    BY <1>3, <2>2, <2>3 DEF HP!Strtoul
  <2>5. QED BY <2>1, <2>4
<1>7. QED BY <1>2, <1>3, <1>4, <1>6

\* What a written character is: itself, or three from which Strtoul makes it.
LEMMA CodeIs == ASSUME NEW c \in 0 .. 255
  PROVE  /\ Code(c) \in HP!Text /\ HP!Without(Code(c), Special) /\ Len(Code(c)) >= 1
         /\ \/ Len(Code(c)) = 1 /\ Code(c)[1] = c /\ c # HP!Percent
            \/ /\ Len(Code(c)) = 3 /\ Code(c)[1] = HP!Percent
               /\ HP!Strtoul(Code(c)[2], Code(c)[3]) = c
<1>1. CASE c \in HP!Reserved
  <2>1. PICK a, b : a = HP!Digit(c \div 16) /\ b = HP!Digit(c % 16)
    OBVIOUS
  <2>2. a \in 48 .. 57 \cup 65 .. 70 /\ b \in 48 .. 57 \cup 65 .. 70 /\ HP!Strtoul(a, b) = c
    BY <1>1, <2>1, DigitsAre
  <2>3. PICK t : t = <<HP!Percent, a, b>>
    OBVIOUS
  <2>4. Code(c) = t
    BY <1>1, <2>1, <2>3 DEF Code
  <2>5. Len(t) = 3 /\ DOMAIN t = 1 .. 3 /\ t[1] = HP!Percent /\ t[2] = a /\ t[3] = b
    BY <2>3
  <2>6. HP!Percent \in 0 .. 255 /\ a \in 0 .. 255 /\ b \in 0 .. 255
    BY <2>2, SMTT(30) DEF HP!Percent
  <2>7. t \in HP!Text
    BY <2>3, <2>6, ShortText, ZenonT(30)
  <2>8. HP!Percent \notin Special /\ a \notin Special /\ b \notin Special
    BY <2>2 DEF Special, HP!Blanks, HP!TAB, HP!CR, HP!Space, HP!Percent, HP!Amp, HP!Equals,
      HP!Question
  <2>9. \A i \in 1 .. 3 : i = 1 \/ i = 2 \/ i = 3
    OBVIOUS
  <2>10. HP!Without(t, Special)
    BY <2>5, <2>8, <2>9 DEF HP!Without
  <2>11. QED BY <2>2, <2>4, <2>5, <2>7, <2>10
<1>2. CASE c \notin HP!Reserved
  <2>1. PICK t : t = <<c>>
    OBVIOUS
  <2>2. Code(c) = t
    BY <1>2, <2>1 DEF Code
  <2>3. Len(t) = 1 /\ DOMAIN t = 1 .. 1 /\ t[1] = c
    BY <2>1
  <2>4. t \in HP!Text
    BY <2>1, ShortText, ZenonT(30)
  <2>5. c # HP!Percent /\ c \notin Special
    BY <1>2 DEF HP!Reserved, Special
  <2>6. \A i \in 1 .. 1 : i = 1
    OBVIOUS
  <2>7. HP!Without(t, Special)
    BY <2>3, <2>5, <2>6 DEF HP!Without
  <2>8. QED BY <2>2, <2>3, <2>4, <2>5, <2>7
<1>3. QED BY <1>1, <1>2

\* An encoded text is the codes of its characters, one behind the other.
LEMMA EncodeTails == ASSUME NEW s \in HP!Text
  PROVE  \E q, r : /\ Tailed(r, q, Len(s)) /\ r[0] = HP!Encode(s)
                   /\ \A i \in 1 .. Len(s) : q[i] = Code(s[i])
<1>1. DOMAIN s = 1 .. Len(s) /\ Len(s) \in Nat /\ \A i \in 1 .. Len(s) : s[i] \in 0 .. 255
  BY CharIs
<1>2. PICK q : q = [i \in 1 .. Len(s) |-> Code(s[i])]
  BY ZenonT(30)
<1>3. HP!Encode(s) = HP!FlattenSeq(q)
  BY <1>1, <1>2 DEF HP!Encode, Code
<1>4. \A i \in 1 .. Len(s) : q[i] = Code(s[i]) /\ Code(s[i]) \in HP!Text
  BY <1>1, <1>2, CodeIs, ZenonT(30)
<1>5. q \in Seq(HP!Text) /\ DOMAIN q = 1 .. Len(s) /\ Len(q) = Len(s)
  BY <1>1, <1>2, <1>4
<1>6. PICK r : Tailed(r, q, Len(s))
  BY <1>1, <1>5, TailsAre
<1>7. r[0] = HP!Encode(s)
  BY <1>3, <1>6 DEF Tailed
<1>8. QED BY <1>4, <1>6, <1>7

\* An encoded text has no character that means something in a query string or in a
\* first line.
LEMMA EncodePlain == ASSUME NEW s \in HP!Text PROVE HP!Without(HP!Encode(s), Special)
<1>1. Len(s) \in Nat /\ \A i \in 1 .. Len(s) : s[i] \in 0 .. 255
  BY CharIs
<1>2. PICK q, r : /\ Tailed(r, q, Len(s)) /\ r[0] = HP!Encode(s)
                  /\ \A i \in 1 .. Len(s) : q[i] = Code(s[i])
  BY EncodeTails
<1>3. PICK n \in Nat : n = Len(s)
  BY <1>1
<1>4. PICK B : B = {i \in 0 .. n : HP!Without(r[i], Special)}
  OBVIOUS
<1>5. B \in SUBSET (0 .. n) /\ n \in B
  <2>1. HP!Without(<<>>, Special)
    BY DEF HP!Without
  <2>2. QED BY <1>2, <1>3, <1>4, <2>1 DEF Tailed
<1>6. ASSUME NEW i \in 1 .. n, i \in B PROVE i - 1 \in B
  <2>1. q[i] \in HP!Text /\ HP!Without(q[i], Special)
    BY <1>1, <1>2, <1>3, CodeIs, ZenonT(30)
  <2>2. r[i] \in HP!Text /\ HP!Without(r[i], Special) /\ r[i - 1] = q[i] \o r[i]
    BY <1>2, <1>3, <1>4, <1>6 DEF Tailed
  <2>3. HP!Without(q[i] \o r[i], Special)
    BY <2>1, <2>2, WithoutJoined
  <2>4. i - 1 \in 0 .. n
    OBVIOUS
  <2>5. QED BY <1>4, <2>2, <2>3, <2>4, ZenonT(30)
<1>7. 0 \in B
  <2>1. B = 0 .. n
    BY <1>5, <1>6, CountDown
  <2>2. QED BY <2>1
<1>8. QED BY <1>2, <1>4, <1>7

\* A character and what is behind it.
LEMMA OneBefore == ASSUME NEW s \in HP!Text, NEW i \in 1 .. Len(s)
  PROVE  <<s[i]>> \o HP!RemovePrefix(s, i) = HP!RemovePrefix(s, i - 1)
<1>1. Len(s) \in Nat /\ s[i] \in 0 .. 255 /\ i \in Nat /\ i <= Len(s)
  BY CharIs
<1>2. PICK a : a = <<s[i]>>
  BY ZenonT(30)
<1>3. a \in HP!Text /\ Len(a) = 1 /\ a[1] = s[i]
  BY <1>1, <1>2, ShortText, ZenonT(30)
<1>4. PICK b : b = HP!RemovePrefix(s, i)
  OBVIOUS
<1>5. b \in HP!Text /\ Len(b) = Len(s) - i /\ \A k \in 1 .. Len(s) - i : b[k] = s[i + k]
  BY <1>1, <1>4, BehindIs
<1>6. PICK m \in Nat : m = i - 1
  BY <1>1
<1>7. PICK c : c = HP!RemovePrefix(s, m)
  OBVIOUS
<1>8. c \in HP!Text /\ Len(c) = Len(s) - m /\ \A k \in 1 .. Len(s) - m : c[k] = s[m + k]
  <2>1. m <= Len(s)
    BY <1>1, <1>6
  <2>2. QED BY <1>7, <2>1, BehindIs
<1>9. PICK d : d = a \o b
  OBVIOUS
<1>10. /\ d \in HP!Text /\ Len(d) = Len(a) + Len(b)
       /\ \A k \in 1 .. Len(a) : d[k] = a[k]
       /\ \A k \in 1 .. Len(b) : d[Len(a) + k] = b[k]
  BY <1>3, <1>5, <1>9, TextsJoined
<1>11. Len(d) = Len(c)
  BY <1>1, <1>3, <1>5, <1>6, <1>8, <1>10
<1>12. ASSUME NEW k \in 1 .. Len(c) PROVE c[k] = d[k]
  <2>1. CASE k = 1
    <3>1. m + 1 = i
      BY <1>6
    <3>2. 1 \in 1 .. Len(s) - m
      BY <1>1, <1>6
    <3>3. c[1] = s[m + 1]
      BY <1>8, <3>2
    <3>4. d[1] = a[1]
      BY <1>3, <1>10
    <3>5. QED BY <1>3, <2>1, <3>1, <3>3, <3>4
  <2>2. CASE k # 1
    <3>1. PICK h : h = k - 1
      OBVIOUS
    <3>2. h \in 1 .. Len(s) - i /\ 1 + h = k /\ m + k = i + h /\ k \in 1 .. Len(s) - m
      BY <1>1, <1>6, <1>8, <2>2, <3>1
    <3>3. d[k] = b[h]
      <4>1. d[1 + h] = b[h]
        BY <1>3, <1>5, <1>10, <3>2
      <4>2. QED BY <3>2, <4>1
    <3>4. QED BY <1>5, <1>8, <3>2, <3>3
  <2>3. QED BY <2>1, <2>2
<1>13. d = c
  BY <1>8, <1>10, <1>11, <1>12, SameTexts
<1>14. QED BY <1>2, <1>4, <1>6, <1>7, <1>9, <1>13

\* utils.cpp: decode_url gets the text that was encoded, whatever its characters
\* are, those that have a meaning in a query string included.
THEOREM DecodeOfEncode == ASSUME NEW s \in HP!Text PROVE HP!decode_url(HP!Encode(s)) = s
<1>1. DOMAIN s = 1 .. Len(s) /\ Len(s) \in Nat /\ \A i \in 1 .. Len(s) : s[i] \in 0 .. 255
  BY CharIs
<1>2. PICK n \in Nat : n = Len(s)
  BY <1>1, ZenonT(30)
<1>3. PICK q, r : /\ Tailed(r, q, n) /\ r[0] = HP!Encode(s)
                  /\ \A i \in 1 .. n : q[i] = Code(s[i])
  BY <1>2, EncodeTails
<1>4. PICK e \in HP!Text : e = HP!Encode(s)
  BY EncodeIs
<1>5. PICK f : /\ HP!decode_url(e) = HP!OrEmpty(f[1])
               /\ \A i \in 1 .. Len(e) + 1 : f[i] = Decoded(e, f, i)
  BY DecodeRounds
<1>6. Len(e) \in Nat
  BY CharIs
<1>7. ASSUME NEW i \in 0 .. n
      PROVE  /\ r[i] \in HP!Text /\ Len(r[i]) \in 0 .. Len(e)
             /\ \A k \in 1 .. Len(r[i]) : e[Len(e) - Len(r[i]) + k] = r[i][k]
  <2>1. PICK b \in HP!Text : r[0] = b \o r[i]
    BY <1>3 DEF Tailed
  <2>2. PICK t \in HP!Text : t = r[i]
    BY <1>3 DEF Tailed
  <2>3. e = b \o t
    BY <1>3, <1>4, <2>1, <2>2
  <2>4. Len(b) \in Nat /\ Len(t) \in Nat
    BY CharIs
  <2>5. Len(e) = Len(b) + Len(t) /\ \A k \in 1 .. Len(t) : e[Len(b) + k] = t[k]
    BY <2>3, TextsJoined
  <2>6. Len(e) - Len(t) = Len(b) /\ Len(t) \in 0 .. Len(e)
    BY <1>6, <2>4, <2>5
  <2>7. \A k \in 1 .. Len(t) : e[Len(e) - Len(t) + k] = t[k]
    BY <2>5, <2>6
  <2>8. QED BY <2>2, <2>6, <2>7
<1>8. PICK B : B = {i \in 0 .. n : f[Len(e) - Len(r[i]) + 1] = HP!RemovePrefix(s, i)}
  OBVIOUS
<1>9. B \in SUBSET (0 .. n) /\ n \in B
  <2>1. r[n] = <<>> /\ Len(<<>>) = 0
    BY <1>3 DEF Tailed
  <2>2. Len(e) - Len(r[n]) + 1 = Len(e) + 1 /\ Len(e) + 1 \in 1 .. Len(e) + 1
    BY <1>6, <2>1
  <2>3. f[Len(e) + 1] = <<>>
    <3>1. f[Len(e) + 1] = Decoded(e, f, Len(e) + 1)
      BY <1>5, <2>2
    <3>2. Len(e) + 1 > Len(e)
      BY <1>6
    <3>3. QED BY <3>1, <3>2 DEF Decoded
  <2>4. HP!RemovePrefix(s, n) = <<>>
    <3>1. PICK t : t = HP!RemovePrefix(s, n)
      OBVIOUS
    <3>2. t \in HP!Text /\ Len(t) = 0
      <4>1. n <= Len(s) /\ Len(s) - n = 0
        BY <1>2
      <4>2. QED BY <3>1, <4>1, BehindIs
    <3>3. t = <<>>
      BY <3>2 DEF HP!Text
    <3>4. QED BY <3>1, <3>3
  <2>5. n \in 0 .. n
    OBVIOUS
  <2>6. QED BY <1>8, <2>2, <2>3, <2>4, <2>5
<1>10. ASSUME NEW i \in 1 .. n, i \in B PROVE i - 1 \in B
  <2>1. i \in 0 .. n /\ i - 1 \in 0 .. n /\ i \in 1 .. Len(s)
    BY <1>2
  <2>2. PICK t \in HP!Text : t = r[i]
    BY <1>7, <2>1
  <2>3. PICK u \in HP!Text : u = r[i - 1]
    BY <1>7, <2>1, ZenonT(30)
  <2>4. PICK c \in HP!Text : c = q[i]
    BY <1>1, <1>3, <2>1, CodeIs, ZenonT(30)
  <2>5. s[i] \in 0 .. 255 /\ c = Code(s[i])
    BY <1>1, <1>3, <2>1, <2>4
  <2>6. u = c \o t
    BY <1>3, <2>2, <2>3, <2>4 DEF Tailed
  <2>7. /\ Len(u) = Len(c) + Len(t) /\ Len(c) \in Nat /\ Len(t) \in Nat
        /\ \A k \in 1 .. Len(c) : u[k] = c[k]
    <3>1. Len(u) = Len(c) + Len(t) /\ \A k \in 1 .. Len(c) : u[k] = c[k]
      BY <2>6, TextsJoined
    <3>2. QED BY <3>1, CharIs
  <2>8. Len(u) \in 0 .. Len(e) /\ \A k \in 1 .. Len(u) : e[Len(e) - Len(u) + k] = u[k]
    BY <1>7, <2>1, <2>3
  <2>9. PICK b \in Nat : b = Len(e) - Len(u)
    BY <1>6, <2>8
  <2>10. Len(e) = b + Len(c) + Len(t)
    BY <1>6, <2>7, <2>9
  <2>11. \A k \in 1 .. Len(c) : e[b + k] = c[k]
    <3>1. \A k \in 1 .. Len(c) : k \in 1 .. Len(u)
      BY <2>7
    <3>2. QED BY <2>7, <2>8, <2>9, <3>1
  <2>12. PICK w \in HP!Text : w = HP!RemovePrefix(s, i)
    <3>1. i \in Nat /\ i <= Len(s)
      BY <1>2
    <3>2. QED BY <3>1, BehindIs
  <2>13. f[b + Len(c) + 1] = w
    <3>1. Len(e) - Len(r[i]) + 1 = b + Len(c) + 1
      BY <2>2, <2>7, <2>10
    <3>2. QED BY <1>8, <1>10, <2>12, <3>1
  <2>14. HP!Put(s[i], w) = HP!RemovePrefix(s, i - 1)
    <3>1. w # HP!Bad
      <4>1. w = HP!Bad => Len(w) = 1 /\ w[1] = HP!Npos
        BY DEF HP!Bad
      <4>2. \A k \in 1 .. Len(w) : w[k] \in 0 .. 255
        BY CharIs
      <4>3. Len(w) = 1 => w[1] \in 0 .. 255
        BY <4>2
      <4>4. QED BY <4>1, <4>3 DEF HP!Npos
    <3>2. <<s[i]>> \o w = HP!RemovePrefix(s, i - 1)
      BY <2>1, <2>12, OneBefore, SMTT(30)
    <3>3. QED BY <3>1, <3>2 DEF HP!Put
  <2>15. Len(c) >= 1
    BY <2>5, CodeIs, ZenonT(30)
  <2>16. b + 1 \in 1 .. Len(e) + 1 /\ b + 1 <= Len(e) /\ ~(b + 1 > Len(e))
    BY <1>6, <2>7, <2>10, <2>15
  <2>17. f[b + 1] = Decoded(e, f, b + 1)
    BY <1>5, <2>16
  <2>18. CASE Len(c) = 1 /\ c[1] = s[i] /\ s[i] # HP!Percent
    <3>1. e[b + 1] = s[i] /\ e[b + 1] # HP!Percent
      BY <2>11, <2>18
    <3>2. Decoded(e, f, b + 1) = HP!Put(e[b + 1], f[b + 1 + 1])
      BY <2>16, <3>1 DEF Decoded
    <3>3. b + 1 + 1 = b + Len(c) + 1
      BY <2>18
    <3>4. f[b + 1] = HP!Put(s[i], w)
      BY <2>13, <2>17, <3>1, <3>2, <3>3
    <3>5. QED BY <1>8, <2>1, <2>3, <2>9, <2>14, <3>4
  <2>19. CASE Len(c) = 3 /\ c[1] = HP!Percent /\ HP!Strtoul(c[2], c[3]) = s[i]
    <3>1. e[b + 1] = HP!Percent /\ e[b + 2] = c[2] /\ e[b + 3] = c[3]
      BY <2>11, <2>19
    <3>2. b + 1 + 1 = b + 2 /\ b + 1 + 2 = b + 3 /\ b + 1 + 3 = b + Len(c) + 1
        /\ ~(b + 1 > Len(e) - 2)
      BY <1>6, <2>7, <2>10, <2>19
    <3>3. Decoded(e, f, b + 1) = HP!Put(HP!Strtoul(e[b + 2], e[b + 3]), f[b + 1 + 3])
      BY <2>16, <3>1, <3>2 DEF Decoded
    <3>4. f[b + 1] = HP!Put(s[i], w)
      BY <2>13, <2>17, <2>19, <3>1, <3>2, <3>3
    <3>5. QED BY <1>8, <2>1, <2>3, <2>9, <2>14, <3>4
  <2>20. QED BY <2>5, <2>18, <2>19, CodeIs, ZenonT(30)
<1>11. 0 \in B
  <2>1. B = 0 .. n
    BY <1>9, <1>10, CountDown
  <2>2. QED BY <2>1
<1>12. f[1] = s
  <2>1. Len(e) - Len(r[0]) + 1 = 1
    BY <1>3, <1>4, <1>6
  <2>2. HP!RemovePrefix(s, 0) = s
    <3>1. <<>> \in HP!Text /\ Len(<<>>) = 0
      BY ShortTexts
    <3>2. HP!RemovePrefix(<<>> \o s, Len(<<>>)) = s
      BY <3>1, JoinedParts
    <3>3. QED BY <3>1, <3>2, NothingJoined
  <2>3. QED BY <1>8, <1>11, <2>1, <2>2
<1>13. s # HP!Bad
  <2>1. s = HP!Bad => Len(s) = 1 /\ s[1] = HP!Npos
    BY DEF HP!Bad
  <2>2. Len(s) = 1 => s[1] \in 0 .. 255
    BY <1>1
  <2>3. QED BY <2>1, <2>2 DEF HP!Npos
<1>14. QED BY <1>4, <1>5, <1>12, <1>13 DEF HP!OrEmpty

-----------------------------------------------------------------------------
\* The words of a first line

\* Where a word of s begins.
Begin(s) == {i \in 1 .. Len(s) : s[i] \notin Blanks /\ (i = 1 \/ s[i - 1] \in Blanks)}

\* How many words begin in s up to i.
Begun(s, i) == Cardinality({j \in Begin(s) : j <= i})

\* The characters of s from i to e are a word, up to its end.
WordTo(s, i, e) ==
  /\ i \in Begin(s) /\ e \in i .. Len(s)
  /\ \A n \in i .. e : s[n] \notin Blanks
  /\ e = Len(s) \/ s[e + 1] \in Blanks

\* The word from i to e is the k-th when k words begin up to i.
LEMMA WordFrom ==
  ASSUME NEW s \in HP!Text, NEW k \in Nat, NEW i \in Nat, NEW e \in Nat,
         WordTo(s, i, e), Begun(s, i) = k
  PROVE  HP!Word(s, k) = SubSeq(s, i, e)
<1>1. DOMAIN s = 1 .. Len(s) /\ Len(s) \in Nat
  BY CharIs
<1>2. PICK S : S = Begin(s)
  OBVIOUS
<1>0. i \in S /\ i <= e /\ e <= Len(s)
  <2>1. i \in Begin(s) /\ e \in i .. Len(s)
    BY DEF WordTo
  <2>2. QED BY <1>1, <1>2, <2>1
<1>3. S \in SUBSET (1 .. Len(s)) /\ IsFiniteSet(S)
  <2>1. S \in SUBSET (1 .. Len(s))
    BY <1>2 DEF Begin
  <2>2. 1 \in Int /\ Len(s) \in Int
    BY <1>1
  <2>3. IsFiniteSet(1 .. Len(s))
    BY <2>2, FS_Interval
  <2>4. QED BY <2>1, <2>3, FS_Subset
<1>4. ASSUME NEW x \in S, NEW y \in S, x < y
      PROVE  Cardinality({j \in S : j <= x}) # Cardinality({j \in S : j <= y})
  <2>1. PICK X, Y : X = {j \in S : j <= x} /\ Y = {j \in S : j <= y}
    OBVIOUS
  <2>2. x \in Nat /\ y \in Nat /\ \A j \in S : j \in Nat
    <3>1. \A j \in 1 .. Len(s) : j \in Nat
      BY <1>1
    <3>2. QED BY <1>3, <3>1
  <2>3. X \in SUBSET Y /\ y \in Y /\ y \notin X
    <3>1. \A j \in S : j <= x => j <= y
      BY <1>4, <2>2
    <3>2. y <= y /\ ~(y <= x)
      BY <1>4, <2>2
    <3>3. QED BY <2>1, <3>1, <3>2
  <2>4. IsFiniteSet(Y)
    BY <1>3, <2>1, FS_Subset
  <2>5. X # Y
    BY <2>3
  <2>6. QED BY <2>1, <2>3, <2>4, <2>5, FS_Subset
<1>5. \A x \in S : Cardinality({j \in S : j <= x}) = k => x = i
  <2>1. TAKE x \in S
  <2>2. HAVE Cardinality({j \in S : j <= x}) = k
  <2>3. i \in S /\ Cardinality({j \in S : j <= i}) = k /\ x \in Nat /\ i \in Nat
    <3>1. \A j \in 1 .. Len(s) : j \in Nat
      BY <1>1
    <3>2. QED BY <1>0, <1>2, <1>3, <3>1 DEF Begun
  <2>4. ~(x < i) /\ ~(i < x)
    BY <1>4, <2>2, <2>3
  <2>5. QED BY <2>3, <2>4
<1> DEFINE blank(n) == s[n] \in HP!TAB .. HP!CR \cup {HP!Space}
           starts == {n \in DOMAIN s : ~blank(n) /\ (n = 1 \/ blank(n - 1))}
           word(n) == SubSeq(s, n, CHOOSE j \in n .. Len(s) :
                   /\ \A h \in n .. j : ~blank(h)
                   /\ j = Len(s) \/ blank(j + 1))
<1>6. starts = S
  BY <1>1, <1>2 DEF Begin, Blanks
<1>7. i \in starts /\ Cardinality({j \in starts : j <= i}) = k
  BY <1>0, <1>2, <1>6 DEF Begun
<1>8. (CHOOSE x \in starts : Cardinality({j \in starts : j <= x}) = k) = i
  <2> HIDE DEF starts
  <2>1. QED BY <1>5, <1>6, <1>7
<1>9. HP!Word(s, k) = word(i)
  <2>1. \E x \in starts : Cardinality({j \in starts : j <= x}) = k
    BY <1>7
  <2>2. PICK x : x = CHOOSE n \in starts : Cardinality({j \in starts : j <= n}) = k
    OBVIOUS
  <2>3. HP!Word(s, k) = word(x)
    BY <2>1, <2>2, SizeOfStarts DEF HP!Word
  <2> HIDE DEF starts, word
  <2>4. QED BY <1>8, <2>2, <2>3
<1>10. PICK d : d = CHOOSE j \in i .. Len(s) :
                   /\ \A h \in i .. j : ~blank(h)
                   /\ j = Len(s) \/ blank(j + 1)
  OBVIOUS
<1>11. word(i) = SubSeq(s, i, d)
  BY <1>10
<1>12. d \in i .. Len(s) /\ (\A h \in i .. d : s[h] \notin Blanks)
    /\ (d = Len(s) \/ s[d + 1] \in Blanks)
  <2>1. /\ e \in i .. Len(s) /\ \A h \in i .. e : ~blank(h)
        /\ e = Len(s) \/ blank(e + 1)
    BY DEF Blanks, WordTo
  <2>2. QED BY <1>10, <2>1 DEF Blanks
<1>13. i \in Nat /\ e \in Nat /\ e <= Len(s) /\ i <= e /\ i <= d /\ d \in Nat /\ d <= Len(s)
  <2>1. d \in i .. Len(s)
    BY <1>12
  <2>2. QED BY <1>0, <1>1, <2>1
<1>14. (\A n \in i .. e : s[n] \notin Blanks) /\ (e = Len(s) \/ s[e + 1] \in Blanks)
  BY DEF WordTo
<1>15. d = e
  <2>0. PICK l \in Nat : l = Len(s)
    BY <1>1, ZenonT(30)
  <2>1. CASE d < e
    <3>1. d + 1 \in i .. e /\ d # l
      BY <1>13, <2>0, <2>1
    <3>2. QED BY <1>12, <1>14, <2>0, <3>1
  <2>2. CASE e < d
    <3>1. e + 1 \in i .. d /\ e # l
      BY <1>13, <2>0, <2>2
    <3>2. QED BY <1>12, <1>14, <2>0, <3>1
  <2>3. QED BY <1>13, <2>1, <2>2, SMTT(30)
<1>16. QED BY <1>9, <1>11, <1>15

\* Three words of a first line.
Words(a, b, c) == a \o (<<HP!Space>> \o (b \o (<<HP!Space>> \o c)))

\* Where the three words are in s.
HaveWords(s, a, b, c) ==
  /\ s \in HP!Text /\ Len(s) = Len(a) + Len(b) + Len(c) + 2
  /\ \A i \in 1 .. Len(a) : s[i] = a[i]
  /\ s[Len(a) + 1] = HP!Space
  /\ \A i \in 1 .. Len(b) : s[Len(a) + 1 + i] = b[i]
  /\ s[Len(a) + Len(b) + 2] = HP!Space
  /\ \A i \in 1 .. Len(c) : s[Len(a) + Len(b) + 2 + i] = c[i]

\* Three words, one behind the other, are where HaveWords says.
LEMMA ThreeJoined ==
  ASSUME NEW a \in HP!Text, NEW b \in HP!Text, NEW c \in HP!Text,
         NEW s, s = Words(a, b, c)
  PROVE  HaveWords(s, a, b, c)
<1>1. PICK w : w = <<HP!Space>>
  OBVIOUS
<1>2. w \in HP!Text /\ Len(w) = 1 /\ w[1] = HP!Space
  BY <1>1, ShortTexts
<1>3. Len(a) \in Nat /\ Len(b) \in Nat /\ Len(c) \in Nat
  BY CharIs
<1>4. PICK t : t = w \o c
  OBVIOUS
<1>5. t \in HP!Text /\ Len(t) = 1 + Len(c) /\ t[1] = HP!Space
    /\ \A i \in 1 .. Len(c) : t[1 + i] = c[i]
  <2>1. /\ t \in HP!Text /\ Len(t) = Len(w) + Len(c)
        /\ \A i \in 1 .. Len(w) : t[i] = w[i]
        /\ \A i \in 1 .. Len(c) : t[Len(w) + i] = c[i]
    BY <1>2, <1>4, TextsJoined
  <2>2. QED BY <1>2, <2>1
<1>6. PICK u : u = b \o t
  OBVIOUS
<1>7. u \in HP!Text /\ Len(u) = Len(b) + Len(t)
    /\ (\A i \in 1 .. Len(b) : u[i] = b[i]) /\ \A i \in 1 .. Len(t) : u[Len(b) + i] = t[i]
  BY <1>5, <1>6, TextsJoined
<1>8. PICK v : v = w \o u
  OBVIOUS
<1>9. v \in HP!Text /\ Len(v) = 1 + Len(u) /\ v[1] = HP!Space
    /\ \A i \in 1 .. Len(u) : v[1 + i] = u[i]
  <2>1. /\ v \in HP!Text /\ Len(v) = Len(w) + Len(u)
        /\ \A i \in 1 .. Len(w) : v[i] = w[i]
        /\ \A i \in 1 .. Len(u) : v[Len(w) + i] = u[i]
    BY <1>2, <1>7, <1>8, TextsJoined
  <2>2. QED BY <1>2, <2>1
<1>10. s \in HP!Text /\ Len(s) = Len(a) + Len(v)
    /\ (\A i \in 1 .. Len(a) : s[i] = a[i]) /\ \A i \in 1 .. Len(v) : s[Len(a) + i] = v[i]
  <2>1. s = a \o v
    <3>1. s = a \o (w \o (b \o (w \o c)))
      BY <1>1 DEF Words
    <3>2. QED BY <1>4, <1>6, <1>8, <3>1, Zenon
  <2>2. v \in HP!Text
    BY <1>9
  <2>3. /\ a \o v \in HP!Text /\ Len(a \o v) = Len(a) + Len(v)
        /\ \A i \in 1 .. Len(a) : (a \o v)[i] = a[i]
        /\ \A i \in 1 .. Len(v) : (a \o v)[Len(a) + i] = v[i]
    BY <2>2, TextsJoined
  <2>4. QED BY <2>1, <2>3
<1>11. Len(s) = Len(a) + Len(b) + Len(c) + 2 /\ Len(t) \in Nat /\ Len(u) \in Nat
    /\ Len(v) \in Nat
  BY <1>3, <1>5, <1>7, <1>9, <1>10
<1>12. s[Len(a) + 1] = HP!Space
  <2>1. 1 \in 1 .. Len(v)
    BY <1>3, <1>9, <1>11
  <2>2. QED BY <1>9, <1>10, <2>1
<1>13. \A i \in 1 .. Len(u) : s[Len(a) + 1 + i] = u[i]
  <2>1. TAKE i \in 1 .. Len(u)
  <2>2. PICK j : j = 1 + i
    OBVIOUS
  <2>3. j \in 1 .. Len(v) /\ Len(a) + j = Len(a) + 1 + i
    BY <1>3, <1>9, <1>11, <2>2
  <2>4. s[Len(a) + j] = v[j] /\ v[j] = u[i]
    BY <1>9, <1>10, <2>2, <2>3
  <2>5. QED BY <2>3, <2>4
<1>14. \A i \in 1 .. Len(b) : s[Len(a) + 1 + i] = b[i]
  <2>1. \A i \in 1 .. Len(b) : i \in 1 .. Len(u)
    BY <1>3, <1>7, <1>11
  <2>2. QED BY <1>7, <1>13, <2>1
<1>15. \A i \in 1 .. Len(t) : s[Len(a) + Len(b) + 1 + i] = t[i]
  <2>1. TAKE i \in 1 .. Len(t)
  <2>2. PICK j : j = Len(b) + i
    OBVIOUS
  <2>3. j \in 1 .. Len(u) /\ Len(a) + 1 + j = Len(a) + Len(b) + 1 + i
    BY <1>3, <1>7, <1>11, <2>2
  <2>4. s[Len(a) + 1 + j] = u[j] /\ u[j] = t[i]
    BY <1>7, <1>13, <2>2, <2>3
  <2>5. QED BY <2>3, <2>4
<1>16. s[Len(a) + Len(b) + 2] = HP!Space
  <2>1. 1 \in 1 .. Len(t) /\ Len(a) + Len(b) + 1 + 1 = Len(a) + Len(b) + 2
    BY <1>3, <1>5, <1>11
  <2>2. s[Len(a) + Len(b) + 1 + 1] = t[1]
    BY <1>15, <2>1
  <2>3. QED BY <1>5, <2>1, <2>2
<1>17. \A i \in 1 .. Len(c) : s[Len(a) + Len(b) + 2 + i] = c[i]
  <2>1. TAKE i \in 1 .. Len(c)
  <2>2. PICK j : j = 1 + i
    OBVIOUS
  <2>3. j \in 1 .. Len(t) /\ Len(a) + Len(b) + 1 + j = Len(a) + Len(b) + 2 + i
    BY <1>3, <1>5, <1>11, <2>2
  <2>4. s[Len(a) + Len(b) + 1 + j] = t[j] /\ t[j] = c[i]
    BY <1>5, <1>15, <2>2, <2>3
  <2>5. QED BY <2>3, <2>4
<1>18. QED BY <1>10, <1>11, <1>12, <1>14, <1>16, <1>17 DEF HaveWords

\* The blanks between three words.
LEMMA BlanksAre ==
  ASSUME NEW a \in HP!Text, NEW b \in HP!Text, NEW c \in HP!Text,
         HP!Without(a, HP!Blanks), HP!Without(b, HP!Blanks), HP!Without(c, HP!Blanks),
         NEW s, s = Words(a, b, c)
  PROVE  \A i \in 1 .. Len(s) :
           s[i] \in Blanks <=> i = Len(a) + 1 \/ i = Len(a) + Len(b) + 2
<1>1. /\ s \in HP!Text /\ Len(s) = Len(a) + Len(b) + Len(c) + 2
      /\ \A i \in 1 .. Len(a) : s[i] = a[i]
      /\ s[Len(a) + 1] = HP!Space
      /\ \A i \in 1 .. Len(b) : s[Len(a) + 1 + i] = b[i]
      /\ s[Len(a) + Len(b) + 2] = HP!Space
      /\ \A i \in 1 .. Len(c) : s[Len(a) + Len(b) + 2 + i] = c[i]
  <2>1. HaveWords(s, a, b, c)
    BY ThreeJoined
  <2>2. QED BY <2>1 DEF HaveWords
<1>2. /\ DOMAIN a = 1 .. Len(a) /\ DOMAIN b = 1 .. Len(b) /\ DOMAIN c = 1 .. Len(c)
      /\ Len(a) \in Nat /\ Len(b) \in Nat /\ Len(c) \in Nat
  BY CharIs
<1>3. /\ \A i \in 1 .. Len(a) : a[i] \notin Blanks
      /\ \A i \in 1 .. Len(b) : b[i] \notin Blanks
      /\ \A i \in 1 .. Len(c) : c[i] \notin Blanks
      /\ HP!Space \in Blanks
  BY <1>2, SMTT(30) DEF HP!Without, HP!Blanks, Blanks
<1>4. PICK la \in Nat, lb \in Nat, lc \in Nat : la = Len(a) /\ lb = Len(b) /\ lc = Len(c)
  BY <1>2, ZenonT(30)
<1>5. TAKE i \in 1 .. Len(s)
<1>6. i \in Nat /\ i >= 1 /\ i <= la + lb + lc + 2
  BY <1>1, <1>4
<1>7. CASE i = la + 1 \/ i = la + lb + 2
  BY <1>1, <1>3, <1>4, <1>7
<1>8. CASE i <= la
  <2>1. i \in 1 .. la /\ i # la + 1 /\ i # la + lb + 2
    BY <1>6, <1>8
  <2>2. s[i] = a[i] /\ a[i] \notin Blanks
    BY <1>1, <1>3, <1>4, <2>1
  <2>3. QED BY <1>4, <2>1, <2>2
<1>9. CASE i > la + 1 /\ i < la + lb + 2
  <2>1. PICK k : k = i - la - 1
    OBVIOUS
  <2>2. k \in 1 .. lb /\ la + 1 + k = i /\ i # la + 1 /\ i # la + lb + 2
    BY <1>6, <1>9, <2>1
  <2>3. s[la + 1 + k] = b[k] /\ b[k] \notin Blanks
    BY <1>1, <1>3, <1>4, <2>2
  <2>4. QED BY <1>4, <2>2, <2>3
<1>10. CASE i > la + lb + 2
  <2>1. PICK k : k = i - la - lb - 2
    OBVIOUS
  <2>2. k \in 1 .. lc /\ la + lb + 2 + k = i /\ i # la + 1 /\ i # la + lb + 2
    BY <1>6, <1>10, <2>1
  <2>3. s[la + lb + 2 + k] = c[k] /\ c[k] \notin Blanks
    BY <1>1, <1>3, <1>4, <2>2
  <2>4. QED BY <1>4, <2>2, <2>3
<1>11. QED BY <1>6, <1>7, <1>8, <1>9, <1>10

\* What operator>> reads of three words: the first, the second and the third.
LEMMA ThreeWords ==
  ASSUME NEW a \in HP!Text, NEW b \in HP!Text, NEW c \in HP!Text,
         a # <<>>, b # <<>>, c # <<>>,
         HP!Without(a, HP!Blanks), HP!Without(b, HP!Blanks), HP!Without(c, HP!Blanks),
         NEW s, s = Words(a, b, c)
  PROVE  HP!Word(s, 1) = a /\ HP!Word(s, 2) = b /\ HP!Word(s, 3) = c
<1>1. /\ s \in HP!Text /\ Len(s) = Len(a) + Len(b) + Len(c) + 2
      /\ \A i \in 1 .. Len(a) : s[i] = a[i]
      /\ \A i \in 1 .. Len(b) : s[Len(a) + 1 + i] = b[i]
      /\ \A i \in 1 .. Len(c) : s[Len(a) + Len(b) + 2 + i] = c[i]
  <2>1. HaveWords(s, a, b, c)
    BY ThreeJoined
  <2>2. QED BY <2>1 DEF HaveWords
<1>2. \A i \in 1 .. Len(s) : s[i] \in Blanks <=> i = Len(a) + 1 \/ i = Len(a) + Len(b) + 2
  BY BlanksAre
<1>3. /\ Len(a) \in Nat /\ Len(b) \in Nat /\ Len(c) \in Nat
      /\ Len(a) # 0 /\ Len(b) # 0 /\ Len(c) # 0
  <2>1. \A t \in HP!Text : t # <<>> => Len(t) # 0
    BY DEF HP!Text
  <2>2. QED BY <2>1, CharIs
<1>4. PICK la \in Nat, lb \in Nat, lc \in Nat : la = Len(a) /\ lb = Len(b) /\ lc = Len(c)
  BY <1>3
<1>5. PICK n \in Nat : n = la + lb + lc + 2
  OBVIOUS
<1>6. n = Len(s) /\ la > 0 /\ lb > 0 /\ lc > 0
  BY <1>1, <1>3, <1>4, <1>5
<1>7. \A i \in 1 .. n : s[i] \in Blanks <=> i = la + 1 \/ i = la + lb + 2
  BY <1>2, <1>4, <1>6
<1>8. PICK p \in Nat, q \in Nat : p = la + 2 /\ q = la + lb + 3
  OBVIOUS
<1>9. 1 < p /\ p < q /\ q <= n /\ 1 \in 1 .. n /\ p \in 1 .. n /\ q \in 1 .. n
  BY <1>5, <1>6, <1>8
<1>10. \A i : i \in Begin(s) <=> i = 1 \/ i = p \/ i = q
  <2>1. \A i : i \in Begin(s) <=>
          i \in 1 .. n /\ s[i] \notin Blanks /\ (i = 1 \/ s[i - 1] \in Blanks)
    BY <1>6 DEF Begin
  <2>2. ASSUME NEW i \in 1 .. n, s[i] \notin Blanks, i # 1, s[i - 1] \in Blanks
        PROVE  i = p \/ i = q
    <3>1. i - 1 \in 1 .. n
      BY <2>2
    <3>2. i - 1 = la + 1 \/ i - 1 = la + lb + 2
      BY <1>7, <2>2, <3>1
    <3>3. QED BY <1>8, <3>2
  <2>3. s[1] \notin Blanks
    BY <1>6, <1>7, <1>9
  <2>4. s[p] \notin Blanks /\ s[q] \notin Blanks
    <3>1. p # la + 1 /\ p # la + lb + 2 /\ q # la + 1 /\ q # la + lb + 2
      BY <1>6, <1>8
    <3>2. QED BY <1>7, <1>9, <3>1
  <2>5. s[p - 1] \in Blanks /\ s[q - 1] \in Blanks
    <3>1. p - 1 = la + 1 /\ q - 1 = la + lb + 2 /\ la + 1 \in 1 .. n /\ la + lb + 2 \in 1 .. n
      BY <1>5, <1>8
    <3>2. QED BY <1>7, <3>1
  <2>6. QED BY <1>9, <2>1, <2>2, <2>3, <2>4, <2>5
<1>11. Begun(s, 1) = 1 /\ Begun(s, p) = 2 /\ Begun(s, q) = 3
  <2>1. {j \in Begin(s) : j <= 1} = {1}
    BY <1>9, <1>10
  <2>2. {j \in Begin(s) : j <= p} = {1} \cup {p}
    BY <1>9, <1>10
  <2>3. {j \in Begin(s) : j <= q} = {1} \cup {p} \cup {q}
    BY <1>9, <1>10
  <2>4. IsFiniteSet({1}) /\ Cardinality({1}) = 1
    BY FS_Singleton
  <2>5. IsFiniteSet({1} \cup {p}) /\ Cardinality({1} \cup {p}) = 2
    <3>1. p \notin {1}
      BY <1>9
    <3>2. PICK S : S = {1}
      OBVIOUS
    <3>3. IsFiniteSet(S) /\ Cardinality(S) = 1 /\ p \notin S
      BY <2>4, <3>1, <3>2, Zenon
    <3>4. IsFiniteSet(S \cup {p}) /\ Cardinality(S \cup {p}) = 1 + 1
      BY <3>3, FS_AddElement
    <3>5. 1 + 1 = 2
      OBVIOUS
    <3>6. QED BY <3>2, <3>4, <3>5, Zenon
  <2>6. Cardinality({1} \cup {p} \cup {q}) = 3
    <3>1. q \notin {1} \cup {p}
      BY <1>9
    <3>2. PICK S : S = {1} \cup {p}
      OBVIOUS
    <3>3. IsFiniteSet(S) /\ Cardinality(S) = 2 /\ q \notin S
      BY <2>5, <3>1, <3>2, Zenon
    <3>4. Cardinality(S \cup {q}) = 2 + 1
      BY <3>3, FS_AddElement
    <3>5. 2 + 1 = 3
      OBVIOUS
    <3>6. QED BY <3>2, <3>4, <3>5, Zenon
  <2>7. QED BY <2>1, <2>2, <2>3, <2>4, <2>5, <2>6 DEF Begun
<1>12. HP!Word(s, 1) = SubSeq(s, 1, la)
  <2>1. la \in 1 .. n /\ la + 1 \in 1 .. n
    BY <1>5, <1>6
  <2>2. \A i \in 1 .. la : i \in 1 .. n /\ i # la + 1 /\ i # la + lb + 2
    BY <1>5
  <2>3. WordTo(s, 1, la)
    BY <1>6, <1>7, <1>10, <2>1, <2>2 DEF WordTo
  <2>4. QED BY <1>1, <1>11, <2>3, WordFrom
<1>13. HP!Word(s, 2) = SubSeq(s, p, la + lb + 1)
  <2>1. la + lb + 1 \in p .. n /\ la + lb + 1 + 1 \in 1 .. n /\ la + lb + 1 + 1 = la + lb + 2
    BY <1>5, <1>6, <1>8
  <2>2. \A i \in p .. la + lb + 1 : i \in 1 .. n /\ i # la + 1 /\ i # la + lb + 2
    BY <1>5, <1>8
  <2>3. WordTo(s, p, la + lb + 1)
    BY <1>6, <1>7, <1>10, <2>1, <2>2 DEF WordTo
  <2>4. QED BY <1>1, <1>11, <2>3, WordFrom
<1>14. HP!Word(s, 3) = SubSeq(s, q, n)
  <2>1. n \in q .. n
    BY <1>9
  <2>2. \A i \in q .. n : i \in 1 .. n /\ i # la + 1 /\ i # la + lb + 2
    BY <1>5, <1>8
  <2>3. WordTo(s, q, n)
    BY <1>6, <1>7, <1>10, <2>1, <2>2 DEF WordTo
  <2>4. QED BY <1>1, <1>11, <2>3, WordFrom
<1>15. SubSeq(s, 1, la) = a
  <2>1. PICK t : t = SubSeq(s, 1, la)
    OBVIOUS
  <2>2. /\ t \in HP!Text /\ Len(t) = IF 1 <= la THEN la - 1 + 1 ELSE 0
        /\ \A i \in 1 .. la - 1 + 1 : t[i] = s[1 + i - 1]
    <3>1. 1 \in Nat \ {0} /\ la \in Int /\ la <= Len(s)
      BY <1>5, <1>6
    <3>2. QED BY <1>1, <2>1, <3>1, SubSeqIs
  <2>3. Len(t) = la /\ \A i \in 1 .. la : t[i] = s[i]
    <3>1. la - 1 + 1 = la /\ 1 <= la /\ \A i \in 1 .. la : 1 + i - 1 = i
      BY <1>6
    <3>2. QED BY <2>2, <3>1
  <2>4. t = a
    BY <1>1, <1>4, <2>2, <2>3, SameTexts
  <2>5. QED BY <2>1, <2>4
<1>16. SubSeq(s, p, la + lb + 1) = b
  <2>1. PICK t, h : t = SubSeq(s, p, h) /\ h = la + lb + 1
    OBVIOUS
  <2>2. p \in Nat \ {0} /\ h \in Int /\ h <= Len(s) /\ h - p + 1 = lb /\ p <= h
    BY <1>5, <1>6, <1>8, <2>1
  <2>3. /\ t \in HP!Text /\ Len(t) = IF p <= h THEN h - p + 1 ELSE 0
        /\ \A i \in 1 .. h - p + 1 : t[i] = s[p + i - 1]
    BY <1>1, <2>1, <2>2, SubSeqIs
  <2>4. Len(t) = lb /\ \A i \in 1 .. lb : t[i] = s[la + 1 + i]
    <3>1. \A i \in 1 .. lb : p + i - 1 = la + 1 + i
      BY <1>8
    <3>2. QED BY <2>2, <2>3, <3>1
  <2>5. t = b
    BY <1>1, <1>4, <2>3, <2>4, SameTexts
  <2>6. QED BY <2>1, <2>5
<1>17. SubSeq(s, q, n) = c
  <2>1. PICK t : t = SubSeq(s, q, n)
    OBVIOUS
  <2>2. q \in Nat \ {0} /\ n \in Int /\ n <= Len(s) /\ n - q + 1 = lc /\ q <= n
    BY <1>5, <1>6, <1>8
  <2>3. /\ t \in HP!Text /\ Len(t) = IF q <= n THEN n - q + 1 ELSE 0
        /\ \A i \in 1 .. n - q + 1 : t[i] = s[q + i - 1]
    BY <1>1, <2>1, <2>2, SubSeqIs
  <2>4. Len(t) = lc /\ \A i \in 1 .. lc : t[i] = s[la + lb + 2 + i]
    <3>1. \A i \in 1 .. lc : q + i - 1 = la + lb + 2 + i
      BY <1>8
    <3>2. QED BY <2>2, <2>3, <3>1
  <2>5. t = c
    BY <1>1, <1>4, <2>3, <2>4, SameTexts
  <2>6. QED BY <2>1, <2>5
<1>18. QED BY <1>12, <1>13, <1>14, <1>15, <1>16, <1>17

-----------------------------------------------------------------------------
\* The first value of every key

\* map has the keys of the first n items, each with the first of its values.
Collected(map, keys, values, n) ==
  /\ map = [k \in DOMAIN map |-> map[k]]
  /\ DOMAIN map = {keys[j] : j \in 1 .. n}
  /\ \A j \in 1 .. n : (\A h \in 1 .. j - 1 : keys[h] # keys[j]) => map[keys[j]] = values[j]

\* At the start there is nothing.
LEMMA NothingCollected == ASSUME NEW keys, NEW values PROVE Collected(HP!Empty, keys, values, 0)
<1>1. HP!Empty = [k \in {} |-> <<>>] /\ DOMAIN HP!Empty = {}
  BY DEF HP!Empty
<1>2. \A j \in 1 .. 0 : FALSE
  OBVIOUS
<1>3. {keys[j] : j \in 1 .. 0} = {}
  BY <1>2
<1>4. QED BY <1>1, <1>2, <1>3 DEF Collected

\* emplace of the next item collects it.
LEMMA EmplaceCollects ==
  ASSUME NEW map, NEW keys, NEW values, NEW n \in Nat, Collected(map, keys, values, n),
         NEW m, m = n + 1
  PROVE  Collected(HP!Emplace(map, keys[m], values[m]), keys, values, m)
<1>1. PICK new : new = HP!Emplace(map, keys[m], values[m])
  OBVIOUS
<1>2. 1 .. m = 1 .. n \cup {m} /\ m \notin 1 .. n /\ m - 1 = n /\ m \in 1 .. m
  OBVIOUS
<1>3. /\ map = [k \in DOMAIN map |-> map[k]]
      /\ DOMAIN map = {keys[j] : j \in 1 .. n}
      /\ \A j \in 1 .. n : (\A h \in 1 .. j - 1 : keys[h] # keys[j]) => map[keys[j]] = values[j]
  BY DEF Collected
<1>4. {keys[j] : j \in 1 .. m} = {keys[j] : j \in 1 .. n} \cup {keys[m]}
  BY <1>2
<1>5. CASE keys[m] \in DOMAIN map
  <2>1. new = map
    BY <1>1, <1>5 DEF HP!Emplace
  <2>2. DOMAIN new = {keys[j] : j \in 1 .. m}
    BY <1>3, <1>4, <1>5, <2>1
  <2>3. ~ \A h \in 1 .. m - 1 : keys[h] # keys[m]
    BY <1>2, <1>3, <1>5
  <2>4. \A j \in 1 .. m : (\A h \in 1 .. j - 1 : keys[h] # keys[j]) => new[keys[j]] = values[j]
    BY <1>2, <1>3, <2>1, <2>3
  <2>5. QED BY <1>1, <1>3, <2>1, <2>2, <2>4 DEF Collected
<1>6. CASE keys[m] \notin DOMAIN map
  <2>1. new = [k \in DOMAIN map \cup {keys[m]} |-> IF k = keys[m] THEN values[m] ELSE map[k]]
    BY <1>1, <1>6 DEF HP!Emplace
  <2>2. new = [k \in DOMAIN new |-> new[k]] /\ DOMAIN new = {keys[j] : j \in 1 .. m}
    BY <1>3, <1>4, <2>1
  <2>3. \A j \in 1 .. n : keys[j] \in DOMAIN map /\ keys[j] # keys[m]
    BY <1>3, <1>6
  <2>4. new[keys[m]] = values[m] /\ \A j \in 1 .. n : new[keys[j]] = map[keys[j]]
    BY <2>1, <2>3
  <2>5. \A j \in 1 .. m : (\A h \in 1 .. j - 1 : keys[h] # keys[j]) => new[keys[j]] = values[j]
    BY <1>2, <1>3, <2>4
  <2>6. QED BY <1>1, <2>2, <2>5 DEF Collected
<1>7. QED BY <1>5, <1>6

\* The item i is the first of n with the key k.
FirstWith(keys, n, k, i) == i \in 1 .. n /\ keys[i] = k /\ \A j \in 1 .. i - 1 : keys[j] # k

\* There is a first item with the key k, and v is its value.
ValueOfFirst(v, keys, values, n, k) ==
  /\ \E i : FirstWith(keys, n, k, i)
  /\ \A i : FirstWith(keys, n, k, i) => v = values[i]

\* The value that is collected for a key is that of the first item with the key.
LEMMA FirstValue ==
  ASSUME NEW map, NEW keys, NEW values, NEW n \in Nat, Collected(map, keys, values, n),
         NEW k \in DOMAIN map
  PROVE  ValueOfFirst(map[k], keys, values, n, k)
<1>1. PICK S : S = {i \in 1 .. n : keys[i] = k}
  OBVIOUS
<1>2. PICK x \in 1 .. n : keys[x] = k
  BY DEF Collected
<1>3. S \in SUBSET Nat /\ x \in S
  BY <1>1, <1>2
<1>4. PICK i \in S : \A j \in S : i <= j
  BY <1>3, LeastNatural
<1>5. i \in 1 .. n /\ keys[i] = k /\ i \in Nat
  BY <1>1, <1>4
<1>6. \A j \in 1 .. i - 1 : keys[j] # k
  <2>1. \A j \in 1 .. i - 1 : j \in 1 .. n /\ ~(i <= j)
    BY <1>5
  <2>2. QED BY <1>1, <1>4, <2>1
<1>7. \E h : FirstWith(keys, n, k, h)
  BY <1>5, <1>6 DEF FirstWith
<1>8. \A h : FirstWith(keys, n, k, h) => map[k] = values[h]
  BY DEF Collected, FirstWith
<1>9. QED BY <1>7, <1>8 DEF ValueOfFirst

\* The map that is collected from all parameters has the first value of each key.
LEMMA CollectedParameters ==
  ASSUME NEW n \in Nat, NEW ps \in [1 .. n -> Pairs], NEW map, NEW keys, NEW values,
         keys = [i \in 1 .. n |-> ps[i].key], values = [i \in 1 .. n |-> ps[i].value],
         Collected(map, keys, values, n)
  PROVE  map = HP!Values(ps, HP!Key, HP!Value)
<1>1. DOMAIN ps = 1 .. n /\ \A i \in 1 .. n : keys[i] = ps[i].key /\ values[i] = ps[i].value
  OBVIOUS
<1>2. DOMAIN map = {ps[i].key : i \in DOMAIN ps}
  BY <1>1 DEF Collected
<1>3. ASSUME NEW k \in DOMAIN map
      PROVE  map[k] = ps[CHOOSE i \in DOMAIN ps :
                   ps[i].key = k /\ \A j \in 1 .. i - 1 : ps[j].key # k].value
  <2>1. PICK x : x = CHOOSE i \in DOMAIN ps :
                   ps[i].key = k /\ \A j \in 1 .. i - 1 : ps[j].key # k
    OBVIOUS
  <2>2. \A i \in 1 .. n : \A j \in 1 .. i - 1 : j \in 1 .. n
    OBVIOUS
  <2>3. /\ \E i : FirstWith(keys, n, k, i)
        /\ \A i : FirstWith(keys, n, k, i) => map[k] = values[i]
    <3>1. ValueOfFirst(map[k], keys, values, n, k)
      BY <1>3, FirstValue
    <3>2. QED BY <3>1 DEF ValueOfFirst
  <2>4. \A i : FirstWith(keys, n, k, i) <=>
                 i \in DOMAIN ps /\ ps[i].key = k /\ \A j \in 1 .. i - 1 : ps[j].key # k
    BY <1>1, <2>2 DEF FirstWith
  <2>5. FirstWith(keys, n, k, x)
    BY <2>1, <2>3, <2>4
  <2>6. map[k] = values[x] /\ x \in 1 .. n
    BY <2>3, <2>5 DEF FirstWith
  <2>7. QED BY <1>1, <2>1, <2>6
<1>4. map = [k \in {ps[i].key : i \in DOMAIN ps} |->
               ps[CHOOSE i \in DOMAIN ps :
                   ps[i].key = k /\ \A j \in 1 .. i - 1 : ps[j].key # k].value]
  BY <1>2, <1>3 DEF Collected
<1>5. QED BY <1>4 DEF HP!Values, HP!Key, HP!Value

\* The same of header lines, whose keys are their names in lower case.
LEMMA CollectedHeaders ==
  ASSUME NEW n \in Nat, NEW fs \in [1 .. n -> Fields], NEW map, NEW keys, NEW values,
         keys = [i \in 1 .. n |-> HP!LowerCase(fs[i].name)],
         values = [i \in 1 .. n |-> fs[i].value],
         Collected(map, keys, values, n)
  PROVE  map = HP!Values(fs, HP!HeaderName, HP!HeaderValue)
<1>1. /\ DOMAIN fs = 1 .. n
      /\ \A i \in 1 .. n : keys[i] = HP!LowerCase(fs[i].name) /\ values[i] = fs[i].value
  OBVIOUS
<1>2. DOMAIN map = {HP!LowerCase(fs[i].name) : i \in DOMAIN fs}
  BY <1>1 DEF Collected
<1>3. ASSUME NEW k \in DOMAIN map
      PROVE  map[k] = fs[CHOOSE i \in DOMAIN fs :
                   /\ HP!LowerCase(fs[i].name) = k
                   /\ \A j \in 1 .. i - 1 : HP!LowerCase(fs[j].name) # k].value
  <2>1. PICK x : x = CHOOSE i \in DOMAIN fs :
                   /\ HP!LowerCase(fs[i].name) = k
                   /\ \A j \in 1 .. i - 1 : HP!LowerCase(fs[j].name) # k
    OBVIOUS
  <2>2. \A i \in 1 .. n : \A j \in 1 .. i - 1 : j \in 1 .. n
    OBVIOUS
  <2>3. /\ \E i : FirstWith(keys, n, k, i)
        /\ \A i : FirstWith(keys, n, k, i) => map[k] = values[i]
    <3>1. ValueOfFirst(map[k], keys, values, n, k)
      BY <1>3, FirstValue
    <3>2. QED BY <3>1 DEF ValueOfFirst
  <2>4. \A i : FirstWith(keys, n, k, i) <=>
                 /\ i \in DOMAIN fs /\ HP!LowerCase(fs[i].name) = k
                 /\ \A j \in 1 .. i - 1 : HP!LowerCase(fs[j].name) # k
    BY <1>1, <2>2 DEF FirstWith
  <2>5. FirstWith(keys, n, k, x)
    BY <2>1, <2>3, <2>4
  <2>6. map[k] = values[x] /\ x \in 1 .. n
    BY <2>3, <2>5 DEF FirstWith
  <2>7. QED BY <1>1, <2>1, <2>6
<1>4. map = [k \in {HP!LowerCase(fs[i].name) : i \in DOMAIN fs} |->
               fs[CHOOSE i \in DOMAIN fs :
                   /\ HP!LowerCase(fs[i].name) = k
                   /\ \A j \in 1 .. i - 1 : HP!LowerCase(fs[j].name) # k].value]
  BY <1>2, <1>3 DEF Collected
<1>5. QED BY <1>4 DEF HP!Values, HP!HeaderName, HP!HeaderValue

-----------------------------------------------------------------------------
\* The parameters of a query string

\* A parameter as it is written, key and value encoded, and what may follow one.
Written(k, v) == k \o (<<HP!Equals>> \o v)
Follows(t) == t = <<>> \/ \E u \in HP!Text : t = <<HP!Amp>> \o u

\* What a parameter w is that has the key k and the value v, both encoded.

\* A parameter w with the key k and the value v, both encoded.
WrittenOf(w, k, v) ==
  /\ w \in HP!Text /\ Len(w) \in Nat /\ Len(w) > 0 /\ HP!Without(w, {HP!Amp})
  /\ HP!Find(w, <<HP!Equals>>, 0) = Len(k)
  /\ HP!Substr(w, 0, Len(k)) = k /\ HP!Substr(w, Len(k) + 1, HP!Npos) = v

\* What is written of two texts.
LEMMA WrittenIs ==
  ASSUME NEW k \in HP!Text, NEW v \in HP!Text, HP!Without(k, Special), HP!Without(v, Special),
         NEW w, w = Written(k, v)
  PROVE  WrittenOf(w, k, v)
<1>1. PICK e : e = <<HP!Equals>>
  OBVIOUS
<1>2. e \in HP!Text /\ Len(e) = 1 /\ e[1] = HP!Equals /\ HP!Without(e, {HP!Amp})
  BY <1>1, ShortTexts DEF HP!Without, HP!Amp, HP!Equals
<1>3. PICK a : a = e \o v
  OBVIOUS
<1>4. a \in HP!Text /\ Len(a) = 1 + Len(v) /\ Len(v) \in Nat /\ Len(k) \in Nat
  <2>1. JoinOf(a, e, v)
    BY <1>2, <1>3, JoinedIs
  <2>2. Len(k) \in Nat
    BY CharIs
  <2>3. QED BY <1>2, <2>1, <2>2 DEF JoinOf
<1>5. w = k \o a
  BY <1>1, <1>3 DEF Written
<1>6. w \in HP!Text /\ Len(w) = Len(k) + Len(a)
  BY <1>4, <1>5, TextsJoined
<1>7. {HP!Amp} \in SUBSET Special /\ {HP!Equals} \in SUBSET Special
  BY DEF Special
<1>8. /\ HP!Without(k, {HP!Amp}) /\ HP!Without(v, {HP!Amp})
      /\ HP!Without(k, {HP!Equals})
  BY <1>7, WithoutPart
<1>9. HP!Without(a, {HP!Amp})
  BY <1>2, <1>3, <1>8, WithoutJoined
<1>10. HP!Without(w, {HP!Amp})
  BY <1>4, <1>5, <1>8, <1>9, WithoutJoined
<1>11. HP!Equals \in 0 .. 255
  BY DEF HP!Equals
<1>12. HP!Find(k \o (<<HP!Equals>> \o v), <<HP!Equals>>, 0) = Len(k)
  BY <1>8, <1>11, FoundChar
<1>13. HP!Find(w, <<HP!Equals>>, 0) = Len(k)
  BY <1>12 DEF Written
<1>14. HP!Substr(w, 0, Len(k)) = k
  BY <1>4, <1>5, JoinedParts
<1>15. PICK b : b = k \o e
  OBVIOUS
<1>16. b \in HP!Text /\ Len(b) = Len(k) + 1
  <2>1. JoinOf(b, k, e)
    BY <1>2, <1>15, JoinedIs
  <2>2. QED BY <1>2, <2>1 DEF JoinOf
<1>17. w = b \o v
  BY <1>2, <1>3, <1>5, <1>15, Associative
<1>18. HP!Substr(b \o v, Len(b), HP!Npos) = v
  BY <1>16, JoinedParts
<1>19. w \in HP!Text /\ Len(w) \in Nat /\ Len(w) > 0
  BY <1>4, <1>6
<1>20. HP!Substr(w, Len(k) + 1, HP!Npos) = v
  BY <1>16, <1>17, <1>18
<1>21. QED BY <1>10, <1>13, <1>14, <1>19, <1>20 DEF WrittenOf

\* One round of parse_query_string finds the first parameter of what is left.
LEMMA FirstWritten ==
  ASSUME NEW w \in HP!Text, Len(w) > 0, HP!Without(w, {HP!Amp}), NEW t \in HP!Text, Follows(t),
         NEW s, s = w \o t
  PROVE  /\ s \in HP!Text /\ s[1] # HP!Amp
         /\ HP!Substr(s, 0, HP!Find(s, <<HP!Amp>>, 0)) = w /\ HP!RemovePrefix(s, Len(w)) = t
<1>1. Len(w) \in Nat /\ s \in HP!Text /\ s[1] = w[1] /\ DOMAIN w = 1 .. Len(w)
  BY TextsJoined, CharIs
<1>2. s[1] # HP!Amp
  BY <1>1 DEF HP!Without
<1>3. HP!Amp \in 0 .. 255
  BY DEF HP!Amp
<1>4. HP!RemovePrefix(s, Len(w)) = t
  BY JoinedParts
<1>5. CASE t = <<>>
  <2>1. s = w
    BY <1>5, NothingJoined, SMTT(30)
  <2>2. HP!Find(w, <<HP!Amp>>, 0) = HP!Npos
    BY <1>3, FoundChar, ShortTexts, ZenonT(30)
  <2>3. HP!Substr(w, 0, HP!Npos) = SubSeq(w, 1, Len(w))
    BY DEF HP!Substr
  <2>4. SubSeq(w, 1, Len(w)) = w
    BY DEF HP!Text
  <2>5. QED BY <1>1, <1>2, <1>4, <2>1, <2>2, <2>3, <2>4
<1>6. CASE t # <<>>
  <2>1. PICK u \in HP!Text : t = <<HP!Amp>> \o u
    BY <1>6 DEF Follows
  <2>2. HP!Find(w \o (<<HP!Amp>> \o u), <<HP!Amp>>, 0) = Len(w)
    BY <1>3, FoundChar
  <2>3. HP!Find(s, <<HP!Amp>>, 0) = Len(w)
    BY <2>1, <2>2
  <2>4. HP!Substr(s, 0, Len(w)) = w
    BY JoinedParts
  <2>5. QED BY <1>1, <1>2, <1>4, <2>3, <2>4
<1>7. QED BY <1>5, <1>6

\* The parameters as QueryOf writes them, and their keys and values.
PairTexts(ps) == [i \in DOMAIN ps |->
  (IF i > 1 THEN <<HP!Amp>> ELSE <<>>) \o HP!Encode(ps[i].key) \o <<HP!Equals>>
    \o HP!Encode(ps[i].value)]
KeysOf(ps, n) == [i \in 1 .. n |-> ps[i].key]
ValuesOf(ps, n) == [i \in 1 .. n |-> ps[i].value]

\* Every parameter is written with an `&' before it, but the first.
LEMMA PairTextIs ==
  ASSUME NEW n \in Nat, NEW ps \in [1 .. n -> Pairs], NEW i \in 1 .. n, NEW w,
         w = Written(HP!Encode(ps[i].key), HP!Encode(ps[i].value))
  PROVE  /\ PairTexts(ps)[i] = (IF i > 1 THEN <<HP!Amp>> ELSE <<>>) \o w
         /\ PairTexts(ps)[i] \in HP!Text /\ w \in HP!Text
<1>1. PICK k, v : k = HP!Encode(ps[i].key) /\ v = HP!Encode(ps[i].value)
  OBVIOUS
<1>2. k \in HP!Text /\ v \in HP!Text
  BY <1>1, ClientsAre, EncodeIs
<1>3. PICK a, e : a = (IF i > 1 THEN <<HP!Amp>> ELSE <<>>) /\ e = <<HP!Equals>>
  OBVIOUS
<1>4. a \in HP!Text /\ e \in HP!Text
  BY <1>3, ShortTexts
<1>5. i \in DOMAIN ps
  OBVIOUS
<1>6. PairTexts(ps)[i] = a \o k \o e \o v
  BY <1>1, <1>3, <1>5 DEF PairTexts
<1>7. e \o v \in HP!Text /\ a \o k \in HP!Text
  BY <1>2, <1>4, TextsJoined
<1>8. ((a \o k) \o e) \o v = (a \o k) \o (e \o v)
  <2>1. PICK b : b = a \o k
    OBVIOUS
  <2>2. b \in HP!Text
    BY <1>7, <2>1, Zenon
  <2>3. (b \o e) \o v = b \o (e \o v)
    BY <1>2, <1>4, <2>2, Associative, ZenonT(30)
  <2>4. QED BY <2>1, <2>3, Zenon
<1>9. (a \o k) \o (e \o v) = a \o (k \o (e \o v))
  <2>1. PICK b : b = e \o v
    OBVIOUS
  <2>2. b \in HP!Text
    BY <1>7, <2>1, Zenon
  <2>3. (a \o k) \o b = a \o (k \o b)
    BY <1>2, <1>4, <2>2, Associative, ZenonT(30)
  <2>4. QED BY <2>1, <2>3, Zenon
<1>10. w = k \o (e \o v)
  BY <1>1, <1>3 DEF Written
<1>11. w \in HP!Text
  BY <1>2, <1>7, <1>10, TextsJoined
<1>12. a \o w \in HP!Text
  BY <1>4, <1>11, TextsJoined
<1>13. QED BY <1>3, <1>6, <1>8, <1>9, <1>10, <1>11, <1>12

\* t is what is left of the n texts of q, joined, behind the first i of them.
Left(q, n, i, t) == \E r : Tailed(r, q, n) /\ t = r[i]

\* All of the texts are left at the start.
LEMMA LeftAtFirst ==
  ASSUME NEW n \in Nat, NEW q, DOMAIN q = 1 .. n, Len(q) = n, q \in Seq(HP!Text)
  PROVE  Left(q, n, 0, HP!FlattenSeq(q))
<1>1. PICK r : Tailed(r, q, n)
  BY TailsAre
<1>2. r[0] = HP!FlattenSeq(q)
  BY <1>1 DEF Tailed
<1>3. QED BY <1>1, <1>2 DEF Left

\* What is left behind the j-th text is what t has behind that text.
LeftBehind(q, n, j, t) == \E u \in HP!Text : t = q[j] \o u /\ Left(q, n, j, u)

\* What is left is a text, and nothing at the end.
LEMMA LeftIsText == ASSUME NEW n \in Nat, NEW q, NEW i \in 0 .. n, NEW t, Left(q, n, i, t)
  PROVE t \in HP!Text /\ (i = n => t = <<>>)
<1>1. PICK r : Tailed(r, q, n) /\ t = r[i]
  BY DEF Left
<1>2. r \in [0 .. n -> HP!Text] /\ r[n] = <<>>
  BY <1>1 DEF Tailed
<1>3. QED BY <1>1, <1>2

\* What is left begins with the next text.
LEMMA LeftNext ==
  ASSUME NEW n \in Nat, NEW q, NEW i \in 0 .. n, NEW t, Left(q, n, i, t),
         NEW j \in 1 .. n, j = i + 1
  PROVE  LeftBehind(q, n, j, t)
<1>1. PICK r : Tailed(r, q, n) /\ t = r[i]
  BY DEF Left
<1>2. j - 1 = i /\ j \in 0 .. n
  OBVIOUS
<1>3. r[j - 1] = q[j] \o r[j]
  BY <1>1 DEF Tailed
<1>4. r[j] \in HP!Text
  BY <1>1, <1>2 DEF Tailed
<1>5. Left(q, n, j, r[j])
  BY <1>1 DEF Left
<1>6. r[j - 1] = t
  BY <1>1, <1>2
<1>7. QED BY <1>3, <1>4, <1>5, <1>6 DEF LeftBehind

\* The query string is what is left of the parameters at the start.
LEMMA QueryLeft == ASSUME NEW n \in Nat, NEW ps \in [1 .. n -> Pairs]
  PROVE Left(PairTexts(ps), n, 0, HP!QueryOf(ps))
<1>1. PICK q : q = PairTexts(ps)
  OBVIOUS
<1>2. DOMAIN ps = 1 .. n
  OBVIOUS
<1>3. DOMAIN q = 1 .. n /\ q = [i \in 1 .. n |-> q[i]]
  BY <1>1, <1>2 DEF PairTexts
<1>4. \A i \in 1 .. n : q[i] \in HP!Text
  BY <1>1, PairTextIs
<1>5. q \in Seq(HP!Text) /\ Len(q) = n
  BY <1>3, <1>4
<1>6. HP!QueryOf(ps) = HP!FlattenSeq(q)
  BY <1>1 DEF PairTexts, HP!QueryOf
<1>7. QED BY <1>1, <1>3, <1>5, <1>6, LeftAtFirst

\* What is left behind a parameter is nothing, or an `&' and more.
LEMMA LeftFollows ==
  ASSUME NEW n \in Nat, NEW ps \in [1 .. n -> Pairs], NEW i \in 1 .. n, NEW t,
         Left(PairTexts(ps), n, i, t)
  PROVE  Follows(t)
<1>1. t \in HP!Text /\ (i = n => t = <<>>)
  <2>1. i \in 0 .. n
    OBVIOUS
  <2>2. QED BY <2>1, LeftIsText
<1>2. CASE i = n
  BY <1>1, <1>2 DEF Follows
<1>3. CASE i < n
  <2>1. PICK j \in 1 .. n : j = i + 1 /\ j > 1
    BY <1>3
  <2>2. PICK u \in HP!Text : t = PairTexts(ps)[j] \o u
    <3>1. i \in 0 .. n
      OBVIOUS
    <3>2. LeftBehind(PairTexts(ps), n, j, t)
      BY <2>1, <3>1, LeftNext
    <3>3. QED BY <3>2 DEF LeftBehind
  <2>3. PICK w : w = Written(HP!Encode(ps[j].key), HP!Encode(ps[j].value))
    OBVIOUS
  <2>4. PairTexts(ps)[j] = <<HP!Amp>> \o w /\ w \in HP!Text
    BY <2>1, <2>3, PairTextIs
  <2>5. PICK e : e = <<HP!Amp>> /\ e \in HP!Text
    BY ShortTexts
  <2>6. Regrouped(e, w, u)
    BY <2>4, <2>5, Regroup
  <2>7. PICK x : x = w \o u
    OBVIOUS
  <2>8. x \in HP!Text
    BY <2>4, <2>7, TextsJoined
  <2>9. t = e \o x
    BY <2>2, <2>4, <2>5, <2>6, <2>7 DEF Regrouped
  <2>10. QED BY <2>5, <2>8, <2>9 DEF Follows
<1>4. QED BY <1>2, <1>3

\* What parse_query_string reads behind the `&' of what is left, if there is one.
TrimmedOf(t) == IF t[1] = HP!Amp THEN HP!RemovePrefix(t, 1) ELSE t

\* The next parameter w of t, and what is left behind it.
WrittenNext(ps, n, j, t, w) ==
  \E u \in HP!Text : /\ Left(PairTexts(ps), n, j, u) /\ Follows(u)
                     /\ t # <<>> /\ TrimmedOf(t) = w \o u

\* What is left, without an `&' at its beginning, begins with the next parameter.
LEMMA NextWritten ==
  ASSUME NEW n \in Nat, NEW ps \in [1 .. n -> Pairs], NEW i \in 0 .. n, i < n, NEW t,
         Left(PairTexts(ps), n, i, t), NEW j \in 1 .. n, j = i + 1,
         NEW w, w = Written(HP!Encode(ps[j].key), HP!Encode(ps[j].value))
  PROVE  WrittenNext(ps, n, j, t, w)
<1>1. PICK u \in HP!Text : t = PairTexts(ps)[j] \o u /\ Left(PairTexts(ps), n, j, u)
  <2>1. LeftBehind(PairTexts(ps), n, j, t)
    BY LeftNext
  <2>2. QED BY <2>1 DEF LeftBehind
<1>2. Follows(u)
  BY <1>1, LeftFollows
<1>3. PICK k, v : k = HP!Encode(ps[j].key) /\ v = HP!Encode(ps[j].value)
  OBVIOUS
<1>4. k \in HP!Text /\ v \in HP!Text /\ HP!Without(k, Special) /\ HP!Without(v, Special)
  BY <1>3, ClientsAre, EncodeIs, EncodePlain
<1>5. w \in HP!Text /\ Len(w) \in Nat /\ Len(w) > 0 /\ HP!Without(w, {HP!Amp})
  <2>1. WrittenOf(w, k, v)
    BY <1>3, <1>4, WrittenIs
  <2>2. QED BY <2>1 DEF WrittenOf
<1>6. w \o u \in HP!Text /\ (w \o u)[1] # HP!Amp
  BY <1>2, <1>5, FirstWritten
<1>7. Len(w \o u) > 0
  BY <1>5, TextsJoined, CharIs
<1>8. PairTexts(ps)[j] = (IF j > 1 THEN <<HP!Amp>> ELSE <<>>) \o w
  BY PairTextIs
<1>9. CASE j = 1
  <2>1. PairTexts(ps)[j] = w
    <3>1. ~(j > 1)
      BY <1>9
    <3>2. PairTexts(ps)[j] = <<>> \o w
      BY <1>8, <3>1, Zenon
    <3>3. <<>> \o w = w
      BY <1>5, NothingJoined
    <3>4. QED BY <3>2, <3>3
  <2>2. t = w \o u
    BY <1>1, <2>1
  <2>3. t # <<>> /\ TrimmedOf(t) = t
    BY <1>6, <1>7, <2>2 DEF TrimmedOf
  <2>4. QED BY <1>1, <1>2, <2>2, <2>3 DEF WrittenNext
<1>10. CASE j > 1
  <2>1. PICK e : e = <<HP!Amp>>
    OBVIOUS
  <2>2. e \in HP!Text /\ Len(e) = 1 /\ e[1] = HP!Amp
    BY <2>1, ShortTexts
  <2>3. PICK x : x = w \o u
    OBVIOUS
  <2>4. PairTexts(ps)[j] = e \o w
    BY <1>8, <1>10, <2>1
  <2>5. Regrouped(e, w, u)
    BY <1>5, <2>2, Regroup
  <2>6. t = e \o x
    BY <1>1, <2>3, <2>4, <2>5 DEF Regrouped
  <2>7. JoinOf(t, e, x)
    BY <1>6, <2>2, <2>3, <2>6, JoinedIs
  <2>8. t[1] = HP!Amp /\ Len(t) > 0 /\ HP!RemovePrefix(t, 1) = x
    BY <2>2, <2>7 DEF JoinOf
  <2>9. t # <<>> /\ TrimmedOf(t) = x
    BY <2>8 DEF TrimmedOf
  <2>10. QED BY <1>1, <1>2, <2>3, <2>9 DEF WrittenNext
<1>11. QED BY <1>9, <1>10

\* parse_query_string reads the parameter behind the i-th, which is w with its `=' at z,
\* and leaves u.
PairTaken(ps, n, i, w, z, u) ==
  /\ i + 1 \in 1 .. n
  /\ HP!decode_url(HP!Substr(w, 0, z)) = ps[i + 1].key
  /\ HP!decode_url(HP!Substr(w, z + 1, HP!Npos)) = ps[i + 1].value
  /\ Left(PairTexts(ps), n, i + 1, u)

\* One round of parse_query_string gets the key and the value of the next parameter
\* and leaves what is behind it; nothing is left when there is none.
LEMMA PairRound ==
  ASSUME NEW n \in Nat, NEW ps \in [1 .. n -> Pairs], NEW i \in 0 .. n, NEW t,
         Left(PairTexts(ps), n, i, t),
         NEW s, s = TrimmedOf(t), NEW w, w = HP!Substr(s, 0, HP!Find(s, <<HP!Amp>>, 0)),
         NEW z, z = HP!Find(w, <<HP!Equals>>, 0), NEW rem, rem = HP!RemovePrefix(s, Len(w))
  PROVE  (t = <<>> => i = n) /\ (t # <<>> => PairTaken(ps, n, i, w, z, rem))
<1>1. CASE i = n
  <2>1. t = <<>>
    BY <1>1, LeftIsText
  <2>2. QED BY <1>1, <2>1
<1>2. CASE i < n
  <2>1. PICK j \in 1 .. n : j = i + 1
    BY <1>2
  <2>2. PICK k, v, x : /\ k = HP!Encode(ps[j].key) /\ v = HP!Encode(ps[j].value)
                       /\ x = Written(k, v)
    OBVIOUS
  <2>3. PICK u \in HP!Text : /\ Left(PairTexts(ps), n, j, u) /\ Follows(u)
                             /\ t # <<>> /\ TrimmedOf(t) = x \o u
    <3>1. WrittenNext(ps, n, j, t, x)
      BY <1>2, <2>1, <2>2, NextWritten
    <3>2. QED BY <3>1 DEF WrittenNext
  <2>4. /\ k \in HP!Text /\ v \in HP!Text /\ HP!Without(k, Special) /\ HP!Without(v, Special)
        /\ ps[j].key \in HP!Text /\ ps[j].value \in HP!Text
    BY <2>2, ClientsAre, EncodeIs, EncodePlain
  <2>5. /\ x \in HP!Text /\ Len(x) \in Nat /\ Len(x) > 0 /\ HP!Without(x, {HP!Amp})
        /\ HP!Find(x, <<HP!Equals>>, 0) = Len(k)
        /\ HP!Substr(x, 0, Len(k)) = k /\ HP!Substr(x, Len(k) + 1, HP!Npos) = v
    <3>1. WrittenOf(x, k, v)
      BY <2>2, <2>4, WrittenIs
    <3>2. QED BY <3>1 DEF WrittenOf
  <2>6. w = x /\ HP!RemovePrefix(s, Len(x)) = u
    BY <2>3, <2>5, FirstWritten
  <2>7. HP!decode_url(k) = ps[j].key /\ HP!decode_url(v) = ps[j].value
    BY <2>2, <2>4, DecodeOfEncode
  <2>8. z = Len(k)
    BY <2>5, <2>6
  <2>9. HP!Substr(w, 0, z) = k /\ HP!Substr(w, z + 1, HP!Npos) = v
    BY <2>5, <2>6, <2>8
  <2>10. PairTaken(ps, n, i, w, z, rem)
    BY <2>1, <2>3, <2>6, <2>7, <2>9 DEF PairTaken
  <2>11. QED BY <2>3, <2>10
<1>3. QED BY <1>1, <1>2

-----------------------------------------------------------------------------
\* The header lines

\* A header line as it is written, without its end, and the lines of a request.
WrittenLine(f) == f.name \o (<<HP!Colon, HP!Space>> \o f.value)
FieldTexts(fs) == [i \in DOMAIN fs |->
  fs[i].name \o <<HP!Colon, HP!Space>> \o fs[i].value \o HP!Endline]

\* A name has no blank that rtrim could take.
LEMMA NothingTrimmed == ASSUME NEW s \in HP!Text, HP!Without(s, HP!Whitespaces)
  PROVE HP!rtrim(s) = s
<1>1. CASE s = <<>>
  BY <1>1 DEF HP!rtrim
<1>2. CASE s # <<>>
  <2>1. PICK n \in Nat : n = Len(s)
    BY CharIs
  <2>2. n > 0 /\ DOMAIN s = 1 .. n
    BY <1>2, <2>1 DEF HP!Text
  <2>3. s[n] \notin HP!Whitespaces
    BY <2>2 DEF HP!Without
  <2>4. PICK last : last = CHOOSE i \in DOMAIN s :
                      /\ i = 1 \/ s[i] \notin HP!Whitespaces
                      /\ \A j \in i + 1 .. Len(s) : s[j] \in HP!Whitespaces
    OBVIOUS
  <2>5. \A j \in n + 1 .. n : FALSE
    BY <2>2
  <2>6. /\ n = 1 \/ s[n] \notin HP!Whitespaces
        /\ \A j \in n + 1 .. Len(s) : s[j] \in HP!Whitespaces
    BY <2>1, <2>3, <2>5
  <2>7. last \in 1 .. n /\ \A j \in last + 1 .. n : s[j] \in HP!Whitespaces
    BY <2>1, <2>2, <2>4, <2>6
  <2>8. last = n
    BY <2>2, <2>3, <2>7
  <2>9. HP!rtrim(s) = SubSeq(s, 1, last)
    BY <1>2, <2>4 DEF HP!rtrim
  <2>10. SubSeq(s, 1, Len(s)) = s
    BY DEF HP!Text
  <2>11. QED BY <2>1, <2>8, <2>9, <2>10
<1>3. QED BY <1>1, <1>2

\* What a line l is that has the name a and the value v.
LineOfBoth(l, a, v) ==
  /\ l \in HP!Text /\ HP!Without(l, {HP!CR}) /\ Len(l) = Len(a) + 2 + Len(v)
  /\ Len(a) \in Nat /\ Len(v) \in Nat
  /\ l[Len(a) + 2] = HP!Space
  /\ \A i \in 1 .. Len(v) : l[Len(a) + 2 + i] = v[i]
  /\ HP!Find(l, <<HP!Colon>>, 0) = Len(a)
  /\ HP!Substr(l, 0, Len(a)) = a
  /\ HP!Substr(l, Len(a) + 2, HP!Npos) = v

\* What is written of a field, character by character.
LEMMA WrittenLineIs == ASSUME NEW f \in Fields, NEW l, l = WrittenLine(f)
  PROVE  LineOfBoth(l, f.name, f.value)
<1>1. PICK a, v : a = f.name /\ v = f.value
  OBVIOUS
<1>2. /\ a \in HP!Text /\ HP!Without(a, HP!Whitespaces \cup {HP!Colon, HP!CR})
      /\ v \in HP!Text /\ HP!Without(v, {HP!CR}) /\ Len(a) \in Nat /\ Len(v) \in Nat
  BY <1>1, ClientsAre, CharIs
<1>3. HP!Without(a, {HP!CR}) /\ HP!Without(a, {HP!Colon})
  BY <1>2 DEF HP!Without
<1>4. PICK e : e = <<HP!Colon, HP!Space>>
  OBVIOUS
<1>5. /\ e \in HP!Text /\ Len(e) = 2 /\ e[1] = HP!Colon /\ e[2] = HP!Space
      /\ HP!Without(e, {HP!CR})
  BY <1>4, ShortTexts DEF HP!Without, HP!Colon, HP!Space, HP!CR
<1>6. PICK b : b = e \o v
  OBVIOUS
<1>7. /\ b \in HP!Text /\ Len(b) = 2 + Len(v) /\ b[2] = HP!Space
      /\ \A i \in 1 .. Len(v) : b[2 + i] = v[i]
  <2>1. JoinOf(b, e, v)
    BY <1>2, <1>5, <1>6, JoinedIs
  <2>2. QED BY <1>5, <2>1 DEF JoinOf
<1>8. l = a \o b
  BY <1>1, <1>4, <1>6 DEF WrittenLine
<1>9. l \in HP!Text /\ Len(l) = Len(a) + 2 + Len(v)
  <2>1. JoinOf(l, a, b)
    BY <1>2, <1>7, <1>8, JoinedIs
  <2>2. l \in HP!Text /\ Len(l) = Len(a) + Len(b)
    BY <2>1 DEF JoinOf
  <2>3. QED BY <1>2, <1>7, <2>2
<1>10. \A i \in 1 .. Len(b) : l[Len(a) + i] = b[i]
  BY <1>2, <1>7, <1>8, TextsJoined
<1>11. l[Len(a) + 2] = HP!Space
  BY <1>2, <1>7, <1>10
<1>12. \A i \in 1 .. Len(v) : l[Len(a) + 2 + i] = v[i]
  <2>1. TAKE i \in 1 .. Len(v)
  <2>2. 2 + i \in 1 .. Len(b) /\ Len(a) + (2 + i) = Len(a) + 2 + i
    BY <1>2, <1>7
  <2>3. QED BY <1>7, <1>10, <2>2
<1>13. HP!Without(l, {HP!CR})
  BY <1>2, <1>3, <1>5, <1>6, <1>7, <1>8, WithoutJoined
<1>14. HP!Substr(l, 0, Len(a)) = a
  BY <1>2, <1>7, <1>8, JoinedParts
<1>15. PICK c : c = a \o e
  OBVIOUS
<1>16. c \in HP!Text /\ Len(c) = Len(a) + 2
  <2>1. JoinOf(c, a, e)
    BY <1>2, <1>5, <1>15, JoinedIs
  <2>2. QED BY <1>5, <2>1 DEF JoinOf
<1>17. l = c \o v
  BY <1>2, <1>5, <1>6, <1>8, <1>15, Associative
<1>18. HP!Substr(l, Len(c), HP!Npos) = v
  BY <1>2, <1>16, <1>17, JoinedParts
<1>19. PICK x, y : x = <<HP!Colon>> /\ y = <<HP!Space>>
  OBVIOUS
<1>20. /\ x \in HP!Text /\ y \in HP!Text /\ Len(x) = 1 /\ Len(y) = 1
       /\ x[1] = HP!Colon /\ y[1] = HP!Space
  BY <1>19, ShortTexts
<1>21. e = x \o y
  <2>1. PICK z : z = x \o y
    OBVIOUS
  <2>2. z \in HP!Text /\ Len(z) = 2 /\ z[1] = x[1] /\ z[2] = y[1]
    <3>1. JoinOf(z, x, y)
      BY <1>20, <2>1, JoinedIs
    <3>2. 1 \in 1 .. 1 /\ 1 + 1 = 2
      OBVIOUS
    <3>3. QED BY <1>20, <3>1, <3>2 DEF JoinOf
  <2>3. e = z
    BY <1>5, <1>20, <2>2, SameTexts
  <2>4. QED BY <2>1, <2>3
<1>22. b = x \o (y \o v) /\ y \o v \in HP!Text
  <2>1. Regrouped(x, y, v)
    BY <1>2, <1>20, Regroup
  <2>2. y \o v \in HP!Text
    BY <1>2, <1>20, TextsJoined
  <2>3. QED BY <1>6, <1>21, <2>1, <2>2 DEF Regrouped
<1>23. HP!Colon \in 0 .. 255
  BY DEF HP!Colon
<1>24. HP!Find(a \o (<<HP!Colon>> \o (y \o v)), <<HP!Colon>>, 0) = Len(a)
  BY <1>2, <1>3, <1>22, <1>23, FoundChar
<1>25. HP!Find(l, <<HP!Colon>>, 0) = Len(a)
  BY <1>8, <1>19, <1>22, <1>24
<1>26. HP!Substr(l, Len(a) + 2, HP!Npos) = v
  BY <1>16, <1>18
<1>27. LineOfBoth(l, a, v)
  BY <1>2, <1>9, <1>11, <1>12, <1>13, <1>14, <1>25, <1>26 DEF LineOfBoth
<1>28. QED BY <1>1, <1>27

\* HeadersMap reads the name of a line in lower case, and the value - or throws when
\* there is none.
LEMMA LineIsRead == ASSUME NEW f \in Fields, NEW l, l = WrittenLine(f)
  PROVE  /\ HP!NameOf(l) = HP!LowerCase(f.name)
         /\ HP!ValuePos(l) = HP!Npos <=> HP!Blank(f.value)
         /\ ~HP!Blank(f.value) => HP!Substr(l, HP!ValuePos(l), HP!Npos) = f.value
<1>1. PICK a, v : a = f.name /\ v = f.value
  OBVIOUS
<1>2. /\ a \in HP!Text /\ HP!Without(a, HP!Whitespaces \cup {HP!Colon, HP!CR})
      /\ v \in HP!Text /\ (HP!Blank(v) \/ v[1] \notin HP!Whitespaces)
      /\ Len(a) \in Nat /\ Len(v) \in Nat /\ DOMAIN v = 1 .. Len(v)
  BY <1>1, ClientsAre, CharIs
<1>3. /\ l \in HP!Text /\ Len(l) = Len(a) + 2 + Len(v) /\ l[Len(a) + 2] = HP!Space
      /\ \A i \in 1 .. Len(v) : l[Len(a) + 2 + i] = v[i]
      /\ HP!Find(l, <<HP!Colon>>, 0) = Len(a)
      /\ HP!Substr(l, 0, Len(a)) = a /\ HP!Substr(l, Len(a) + 2, HP!Npos) = v
  <2>1. LineOfBoth(l, a, v)
    BY <1>1, WrittenLineIs
  <2>2. QED BY <2>1 DEF LineOfBoth
<1>4. HP!Without(a, HP!Whitespaces)
  BY <1>2 DEF HP!Without
<1>5. HP!NameOf(l) = HP!LowerCase(a)
  BY <1>2, <1>3, <1>4, NothingTrimmed DEF HP!NameOf
<1>6. PICK S : S = {i \in Len(a) + 1 .. Len(l) - 1 : l[i + 1] \notin HP!Whitespaces}
  OBVIOUS
<1>7. HP!ValuePos(l) = HP!FirstOf(S)
  BY <1>3, <1>6 DEF HP!ValuePos
<1>8. S \in SUBSET Nat
  BY <1>2, <1>6
<1>9. HP!Space \in HP!Whitespaces
  BY DEF HP!Whitespaces
<1>10. ASSUME NEW i \in S
       PROVE  i - Len(a) - 1 \in 1 .. Len(v) /\ v[i - Len(a) - 1] \notin HP!Whitespaces
  <2>1. i \in Nat /\ i >= Len(a) + 1 /\ i <= Len(l) - 1 /\ l[i + 1] \notin HP!Whitespaces
    BY <1>2, <1>3, <1>6
  <2>2. i # Len(a) + 1
    <3>1. SUFFICES ASSUME i = Len(a) + 1 PROVE FALSE
      OBVIOUS
    <3>2. i + 1 = Len(a) + 2
      BY <1>2, <3>1
    <3>3. QED BY <1>3, <1>9, <2>1, <3>2
  <2>3. PICK j : j = i - Len(a) - 1
    OBVIOUS
  <2>4. j \in 1 .. Len(v) /\ Len(a) + 2 + j = i + 1
    BY <1>2, <1>3, <2>1, <2>2, <2>3
  <2>5. l[i + 1] = v[j]
    BY <1>3, <2>4
  <2>6. QED BY <2>1, <2>3, <2>4, <2>5
<1>11. CASE HP!Blank(v)
  <2>1. S = {}
    BY <1>2, <1>10, <1>11 DEF HP!Blank
  <2>2. HP!ValuePos(l) = HP!Npos
    BY <1>7, <2>1 DEF HP!FirstOf
  <2>3. QED BY <1>1, <1>5, <1>11, <2>2
<1>12. CASE ~HP!Blank(v)
  <2>1. v[1] \notin HP!Whitespaces /\ 1 \in 1 .. Len(v)
    BY <1>2, <1>12 DEF HP!Blank
  <2>2. l[Len(a) + 2 + 1] = v[1]
    BY <1>3, <2>1
  <2>3. PICK p \in Nat : p = Len(a) + 2
    BY <1>2
  <2>4. p \in Len(a) + 1 .. Len(l) - 1
    BY <1>2, <1>3, <2>1, <2>3
  <2>5. p \in S
    BY <1>6, <2>1, <2>2, <2>3, <2>4
  <2>6. \A i \in S : p <= i
    <3>1. TAKE i \in S
    <3>2. i \in Nat /\ i - Len(a) - 1 >= 1
      BY <1>2, <1>8, <1>10
    <3>3. QED BY <1>2, <2>3, <3>2
  <2>7. HP!FirstOf(S) \in S /\ \A j \in S : HP!FirstOf(S) <= j
    BY <1>8, <2>5, FirstIs
  <2>8. HP!FirstOf(S) <= p /\ p <= HP!FirstOf(S) /\ HP!FirstOf(S) \in Nat
    BY <1>8, <2>5, <2>6, <2>7
  <2>9. HP!FirstOf(S) = p
    BY <2>8
  <2>10. HP!ValuePos(l) = p /\ p # HP!Npos
    BY <1>7, <2>9 DEF HP!Npos
  <2>11. HP!Substr(l, HP!ValuePos(l), HP!Npos) = v
    BY <1>3, <2>3, <2>10
  <2>12. QED BY <1>1, <1>5, <1>12, <2>10, <2>11
<1>13. QED BY <1>11, <1>12

\* The i-th header line is l, with its end.
\* The i-th header line is l with its end.
LineEnds(fs, i, l) == FieldTexts(fs)[i] = l \o HP!Endline /\ FieldTexts(fs)[i] \in HP!Text

\* Every header line is written with an end.
LEMMA FieldTextIs ==
  ASSUME NEW n \in Nat, NEW fs \in [1 .. n -> Fields], NEW i \in 1 .. n, NEW l,
         l = WrittenLine(fs[i])
  PROVE  LineEnds(fs, i, l)
<1>1. PICK a, e, v, x : /\ a = fs[i].name /\ e = <<HP!Colon, HP!Space>>
                        /\ v = fs[i].value /\ x = HP!Endline
  OBVIOUS
<1>2. a \in HP!Text /\ e \in HP!Text /\ v \in HP!Text /\ x \in HP!Text
  BY <1>1, ClientsAre, ShortTexts
<1>3. FieldTexts(fs)[i] = a \o e \o v \o x
  BY <1>1 DEF FieldTexts
<1>4. (a \o e) \o v = a \o (e \o v)
  BY <1>2, Associative, ZenonT(30)
<1>5. l = a \o (e \o v)
  BY <1>1 DEF WrittenLine
<1>6. l \in HP!Text
  <2>1. LineOfBoth(l, a, v)
    BY <1>1, WrittenLineIs
  <2>2. QED BY <2>1 DEF LineOfBoth
<1>7. l \o x \in HP!Text
  BY <1>2, <1>6, TextsJoined
<1>8. QED BY <1>1, <1>3, <1>4, <1>5, <1>7 DEF LineEnds

\* The header lines are what is left of them at the start.
LEMMA HeadersLeft == ASSUME NEW n \in Nat, NEW fs \in [1 .. n -> Fields]
  PROVE Left(FieldTexts(fs), n, 0, HP!HeadersOf(fs))
<1>1. PICK q : q = FieldTexts(fs)
  OBVIOUS
<1>2. DOMAIN fs = 1 .. n
  OBVIOUS
<1>3. DOMAIN q = 1 .. n /\ q = [i \in 1 .. n |-> q[i]]
  BY <1>1, <1>2 DEF FieldTexts
<1>4. ASSUME NEW i \in 1 .. n PROVE q[i] \in HP!Text
  <2>1. PICK l : l = WrittenLine(fs[i])
    OBVIOUS
  <2>2. LineEnds(fs, i, l)
    BY <2>1, FieldTextIs
  <2>3. QED BY <1>1, <2>2 DEF LineEnds
<1>5. q \in Seq(HP!Text) /\ Len(q) = n
  BY <1>3, <1>4
<1>6. HP!HeadersOf(fs) = HP!FlattenSeq(q)
  BY <1>1 DEF FieldTexts, HP!HeadersOf
<1>7. QED BY <1>1, <1>3, <1>5, <1>6, LeftAtFirst

\* The line l and its end begin t, and what is left behind them.
LineNext(fs, n, j, t, l) ==
  \E u \in HP!Text : Left(FieldTexts(fs), n, j, u) /\ t = l \o (HP!Endline \o u)

\* What is left begins with the next line, its end, and what is left behind it.
LEMMA NextLine ==
  ASSUME NEW n \in Nat, NEW fs \in [1 .. n -> Fields], NEW i \in 0 .. n, i < n, NEW t,
         Left(FieldTexts(fs), n, i, t), NEW j \in 1 .. n, j = i + 1, NEW l,
         l = WrittenLine(fs[j])
  PROVE  LineNext(fs, n, j, t, l)
<1>1. PICK u \in HP!Text : t = FieldTexts(fs)[j] \o u /\ Left(FieldTexts(fs), n, j, u)
  <2>1. LeftBehind(FieldTexts(fs), n, j, t)
    BY LeftNext
  <2>2. QED BY <2>1 DEF LeftBehind
<1>2. PICK e : e = HP!Endline
  OBVIOUS
<1>3. FieldTexts(fs)[j] = l \o e
  <2>1. LineEnds(fs, j, l)
    BY FieldTextIs
  <2>2. QED BY <1>2, <2>1 DEF LineEnds
<1>4. l \in HP!Text
  <2>1. LineOfBoth(l, fs[j].name, fs[j].value)
    BY WrittenLineIs
  <2>2. QED BY <2>1 DEF LineOfBoth
<1>5. e \in HP!Text
  BY <1>2, ShortTexts
<1>6. Regrouped(l, e, u)
  BY <1>4, <1>5, Regroup
<1>7. t = l \o (e \o u)
  BY <1>1, <1>3, <1>6 DEF Regrouped
<1>8. QED BY <1>1, <1>2, <1>7 DEF LineNext

\* HeadersMap reads the line behind the i-th, which is l, and leaves u.
LineTaken(fs, n, i, l, u) ==
  /\ i + 1 \in 1 .. n
  /\ HP!ValuePos(l) = HP!Npos <=> HP!Blank(fs[i + 1].value)
  /\ HP!NameOf(l) = HP!LowerCase(fs[i + 1].name)
  /\ ~HP!Blank(fs[i + 1].value) => HP!Substr(l, HP!ValuePos(l), HP!Npos) = fs[i + 1].value
  /\ Left(FieldTexts(fs), n, i + 1, u)

\* One round of HeadersMap gets the name and the value of the next line, or throws, and
\* leaves what is behind it; nothing is left when there is none.
LEMMA LineRound ==
  ASSUME NEW n \in Nat, NEW fs \in [1 .. n -> Fields], NEW i \in 0 .. n, NEW t,
         Left(FieldTexts(fs), n, i, t), NEW l, l = HP!LineOf(t), NEW rem,
         rem = HP!RemovePrefix(t, HP!Find(t, HP!Endline, 0) + Len(HP!Endline))
  PROVE  (t = <<>> => i = n) /\ (t # <<>> => LineTaken(fs, n, i, l, rem))
<1>1. CASE i = n
  <2>1. t = <<>>
    BY <1>1, LeftIsText
  <2>2. QED BY <1>1, <2>1
<1>2. CASE i < n
  <2>1. PICK j \in 1 .. n : j = i + 1
    BY <1>2
  <2>2. PICK x : x = WrittenLine(fs[j])
    OBVIOUS
  <2>3. PICK u \in HP!Text : Left(FieldTexts(fs), n, j, u) /\ t = x \o (HP!Endline \o u)
    <3>1. LineNext(fs, n, j, t, x)
      BY <1>2, <2>1, <2>2, NextLine
    <3>2. QED BY <3>1 DEF LineNext
  <2>4. x \in HP!Text /\ HP!Without(x, {HP!CR}) /\ Len(x) > 0
    <3>1. PICK a, v : a = fs[j].name /\ v = fs[j].value
      OBVIOUS
    <3>2. LineOfBoth(x, a, v)
      BY <2>2, <3>1, WrittenLineIs
    <3>3. QED BY <3>2 DEF LineOfBoth
  <2>5. /\ HP!Find(t, HP!Endline, 0) = Len(x) /\ HP!Substr(t, 0, Len(x)) = x
        /\ HP!RemovePrefix(t, Len(x) + 2) = u
    BY <2>3, <2>4, FirstLineIs
  <2>6. l = x
    BY <2>5 DEF HP!LineOf
  <2>7. Len(HP!Endline) = 2
    BY ShortTexts
  <2>8. t # <<>>
    <3>1. HP!Endline \o u \in HP!Text
      BY ShortTexts, TextsJoined
    <3>2. Len(t) = Len(x) + Len(HP!Endline \o u) /\ Len(HP!Endline \o u) \in Nat
      BY <2>3, <2>4, <3>1, TextsJoined, CharIs
    <3>3. QED BY <2>4, <3>2, CharIs
  <2>9. rem = u
    BY <2>5, <2>7
  <2>10. /\ HP!NameOf(x) = HP!LowerCase(fs[j].name)
         /\ HP!ValuePos(x) = HP!Npos <=> HP!Blank(fs[j].value)
         /\ ~HP!Blank(fs[j].value) => HP!Substr(x, HP!ValuePos(x), HP!Npos) = fs[j].value
    BY <2>2, LineIsRead
  <2>11. LineTaken(fs, n, i, l, rem)
    BY <2>1, <2>3, <2>6, <2>9, <2>10 DEF LineTaken
  <2>12. QED BY <2>8, <2>11
<1>3. QED BY <1>1, <1>2

-----------------------------------------------------------------------------
\* The end of the headers

\* What is left of the header lines has an end of a line at its end, and none behind one.
Tidy(s) ==
  /\ s # <<>> => Len(s) >= 2 /\ s[Len(s) - 1] = HP!CR /\ s[Len(s)] = HP!LF /\ s[1] # HP!CR
  /\ \A j \in Nat : j >= 1 /\ j + 2 <= Len(s) /\ s[j] = HP!CR => s[j + 2] # HP!CR

\* One line more.
LEMMA TidyMore ==
  ASSUME NEW l \in HP!Text, HP!Without(l, {HP!CR}), Len(l) > 0, NEW u \in HP!Text, Tidy(u),
         NEW s, s = l \o (HP!Endline \o u)
  PROVE  s \in HP!Text /\ Tidy(s) /\ s # <<>>
<1>1. PICK n, m \in Nat : n = Len(l) /\ m = Len(u)
  BY CharIs
<1>2. PICK e : e = HP!Endline \o u
  OBVIOUS
<1>3. /\ e \in HP!Text /\ Len(e) = 2 + m /\ e[1] = HP!CR /\ e[2] = HP!LF
      /\ \A i \in 1 .. m : e[2 + i] = u[i]
  <2>1. EndlineBefore(e, u)
    BY <1>2, EndlineJoined
  <2>2. QED BY <1>1, <2>1 DEF EndlineBefore
<1>4. s \in HP!Text /\ Len(s) = n + 2 + m /\ \A i \in 1 .. n : s[i] = l[i]
  <2>1. JoinOf(s, l, e)
    BY <1>2, <1>3, JoinedIs
  <2>2. s \in HP!Text /\ Len(s) = Len(l) + Len(e) /\ \A i \in 1 .. n : s[i] = l[i]
    BY <1>1, <2>1 DEF JoinOf
  <2>3. QED BY <1>1, <1>3, <2>2
<1>5. \A i \in 1 .. 2 + m : s[n + i] = e[i]
  BY <1>1, <1>2, <1>3, TextsJoined
<1>6. s[n + 1] = HP!CR /\ s[n + 2] = HP!LF
  <2>1. 1 \in 1 .. 2 + m /\ 2 \in 1 .. 2 + m
    BY <1>1
  <2>2. QED BY <1>3, <1>5, <2>1
<1>7. \A i \in 1 .. m : s[n + 2 + i] = u[i]
  <2>1. TAKE i \in 1 .. m
  <2>2. 2 + i \in 1 .. 2 + m /\ n + (2 + i) = n + 2 + i
    BY <1>1
  <2>3. QED BY <1>3, <1>5, <2>2
<1>8. \A i \in 1 .. n : s[i] # HP!CR
  BY <1>1, <1>4, CharIs, ZenonT(30) DEF HP!Without
<1>9. Len(s) >= 2 /\ s # <<>> /\ s[1] # HP!CR
  BY <1>1, <1>4, <1>8
<1>10. s[Len(s) - 1] = HP!CR /\ s[Len(s)] = HP!LF
  <2>1. CASE u = <<>>
    <3>1. m = 0
      BY <1>1, <2>1
    <3>2. Len(s) = n + 2 /\ Len(s) - 1 = n + 1
      BY <1>1, <1>4, <3>1
    <3>3. QED BY <1>6, <3>2
  <2>2. CASE u # <<>>
    <3>1. m >= 2 /\ u[m - 1] = HP!CR /\ u[m] = HP!LF
      BY <1>1, <2>2 DEF Tidy
    <3>2. m - 1 \in 1 .. m /\ m \in 1 .. m
      BY <1>1, <3>1
    <3>3. Len(s) = n + 2 + m /\ Len(s) - 1 = n + 2 + (m - 1)
      BY <1>1, <1>4
    <3>4. QED BY <1>7, <3>1, <3>2, <3>3
  <2>3. QED BY <2>1, <2>2
<1>11. ASSUME NEW j \in Nat, j >= 1, j + 2 <= Len(s), s[j] = HP!CR PROVE s[j + 2] # HP!CR
  <2>1. j > n /\ j # n + 2
    BY <1>1, <1>6, <1>8, <1>11, Ends
  <2>2. CASE j = n + 1
    <3>1. j + 2 = n + 2 + 1 /\ 1 \in 1 .. m
      BY <1>1, <1>4, <1>11, <2>2
    <3>2. u # <<>>
      BY <1>1, <3>1
    <3>3. u[1] # HP!CR
      BY <3>2 DEF Tidy
    <3>4. QED BY <1>7, <3>1, <3>3
  <2>3. CASE j # n + 1
    <3>1. PICK k : k = j - n - 2
      OBVIOUS
    <3>2. /\ k \in Nat /\ k >= 1 /\ k + 2 <= m /\ k \in 1 .. m /\ k + 2 \in 1 .. m
          /\ j = n + 2 + k /\ j + 2 = n + 2 + (k + 2)
      BY <1>1, <1>4, <1>11, <2>1, <2>3, <3>1
    <3>3. s[j] = u[k] /\ s[j + 2] = u[k + 2]
      BY <1>7, <3>2
    <3>4. QED BY <1>1, <1>11, <3>2, <3>3 DEF Tidy
  <2>4. QED BY <2>2, <2>3
<1>12. QED BY <1>4, <1>9, <1>10, <1>11 DEF Tidy

\* What is left of any header lines is tidy.
LEMMA HeadersTidy == ASSUME NEW n \in Nat, NEW fs \in [1 .. n -> Fields]
  PROVE HP!HeadersOf(fs) \in HP!Text /\ Tidy(HP!HeadersOf(fs)) /\ (n > 0 => HP!HeadersOf(fs) # <<>>)
<1>1. PICK q : q = FieldTexts(fs)
  OBVIOUS
<1>2. Left(q, n, 0, HP!HeadersOf(fs))
  BY <1>1, HeadersLeft
<1>3. PICK r : Tailed(r, q, n) /\ HP!HeadersOf(fs) = r[0]
  BY <1>2 DEF Left
<1>4. PICK B : B = {i \in 0 .. n : Tidy(r[i]) /\ (i < n => r[i] # <<>>)}
  OBVIOUS
<1>5. r \in [0 .. n -> HP!Text] /\ r[n] = <<>> /\ \A i \in 1 .. n : r[i - 1] = q[i] \o r[i]
  BY <1>3 DEF Tailed
<1>6. Tidy(<<>>)
  BY DEF Tidy
<1>7. n \in B
  BY <1>4, <1>5, <1>6
<1>8. ASSUME NEW i \in 1 .. n, i \in B PROVE i - 1 \in B
  <2>1. PICK l : l = WrittenLine(fs[i])
    OBVIOUS
  <2>2. l \in HP!Text /\ HP!Without(l, {HP!CR}) /\ Len(l) > 0
    <3>1. PICK a, v : a = fs[i].name /\ v = fs[i].value
      OBVIOUS
    <3>2. LineOfBoth(l, a, v)
      BY <2>1, <3>1, WrittenLineIs
    <3>3. QED BY <3>2 DEF LineOfBoth
  <2>3. q[i] = l \o HP!Endline
    <3>1. LineEnds(fs, i, l)
      BY <2>1, FieldTextIs
    <3>2. QED BY <1>1, <3>1 DEF LineEnds
  <2>4. PICK u \in HP!Text : u = r[i]
    BY <1>5
  <2>5. r[i - 1] = (l \o HP!Endline) \o u
    BY <1>5, <2>3, <2>4
  <2>6. r[i - 1] = l \o (HP!Endline \o u)
    <3>1. Regrouped(l, HP!Endline, u)
      BY <2>2, <2>4, ShortTexts, Regroup
    <3>2. QED BY <2>5, <3>1 DEF Regrouped
  <2>7. Tidy(u)
    BY <1>4, <1>8, <2>4
  <2>8. Tidy(r[i - 1]) /\ r[i - 1] # <<>>
    BY <2>2, <2>4, <2>6, <2>7, TidyMore
  <2>9. QED BY <1>4, <2>8
<1>9. B \in SUBSET (0 .. n)
  BY <1>4
<1>10. B = 0 .. n
  BY <1>7, <1>8, <1>9, CountDown
<1>11. 0 \in B
  BY <1>10
<1>12. QED BY <1>3, <1>4, <1>5, <1>11

\* split_until_body finds the end of the headers behind the last of them.
LEMMA HeadersEndIs ==
  ASSUME NEW s \in HP!Text, Tidy(s), s # <<>>, NEW t \in HP!Text,
         NEW v, v = s \o (HP!Endline \o t)
  PROVE  HP!Substr(v, 0, HP!Find(v, HP!HeadersEnd, 0) + Len(HP!Endline)) = s
<1>1. PICK n, m \in Nat : n = Len(s) /\ m = Len(t)
  BY CharIs
<1>2. n >= 2 /\ s[n - 1] = HP!CR /\ s[n] = HP!LF
  BY <1>1 DEF Tidy
<1>3. PICK e : e = HP!Endline \o t
  OBVIOUS
<1>4. e \in HP!Text /\ Len(e) = 2 + m /\ e[1] = HP!CR /\ e[2] = HP!LF
  <2>1. EndlineBefore(e, t)
    BY <1>3, EndlineJoined
  <2>2. QED BY <1>1, <2>1 DEF EndlineBefore
<1>5. v \in HP!Text /\ Len(v) = n + 2 + m /\ \A i \in 1 .. n : v[i] = s[i]
  BY <1>1, <1>3, <1>4, TextsJoined
<1>6. \A i \in 1 .. 2 + m : v[n + i] = e[i]
  BY <1>1, <1>3, <1>4, TextsJoined
<1>7. PICK p \in Nat : p = n - 2
  BY <1>2
<1>8. p + 1 = n - 1 /\ p + 2 = n /\ p + 3 = n + 1 /\ p + 4 = n + 2
  BY <1>7
<1>9. At(v, HP!HeadersEnd, p)
  <2>1. n - 1 \in 1 .. n /\ n \in 1 .. n /\ 1 \in 1 .. 2 + m /\ 2 \in 1 .. 2 + m
    BY <1>2
  <2>2. v[n - 1] = HP!CR /\ v[n] = HP!LF /\ v[n + 1] = HP!CR /\ v[n + 2] = HP!LF
    BY <1>2, <1>4, <1>5, <1>6, <2>1
  <2>3. n + 2 <= Len(v)
    BY <1>5
  <2>4. QED BY <1>5, <1>8, <2>2, <2>3, HeadersEndAt
<1>10. ASSUME NEW i \in Nat, i < p, At(v, HP!HeadersEnd, i) PROVE FALSE
  <2>1. v[i + 1] = HP!CR /\ v[i + 3] = HP!CR
    BY <1>5, <1>10, HeadersEndAt
  <2>2. PICK j \in Nat : j = i + 1
    OBVIOUS
  <2>3. j \in 1 .. n /\ j + 2 \in 1 .. n /\ j + 2 = i + 3 /\ j >= 1
    BY <1>7, <1>10, <2>2
  <2>4. s[j] = HP!CR /\ s[j + 2] = HP!CR
    BY <1>5, <2>1, <2>2, <2>3
  <2>5. QED BY <1>1, <2>3, <2>4 DEF Tidy
<1>11. HP!Find(v, HP!HeadersEnd, 0) = p
  BY <1>5, <1>9, <1>10, Ends, FirstAt
<1>12. HP!Find(v, HP!HeadersEnd, 0) + Len(HP!Endline) = n
  BY <1>8, <1>11, Ends
<1>13. HP!Substr(v, 0, Len(s)) = s
  BY <1>3, <1>4, JoinedParts
<1>14. QED BY <1>1, <1>12, <1>13

\* Without headers it takes the one character before the end of nothing, or all that
\* stands before the end of the headers of the next request.
LEMMA NoHeadersIs ==
  ASSUME NEW t \in HP!Text, NEW v, v = HP!Endline \o t,
         NEW w, w = HP!Substr(v, 0, HP!Find(v, HP!HeadersEnd, 0) + Len(HP!Endline))
  PROVE  /\ HP!Find(v, HP!HeadersEnd, 0) = HP!Npos => w = <<HP!CR>>
         /\ HP!Find(v, HP!HeadersEnd, 0) # HP!Npos =>
              w \in HP!Text /\ Len(w) >= 2 /\ w[1] = HP!CR /\ w[2] = HP!LF
<1>1. PICK m \in Nat : m = Len(t)
  BY CharIs
<1>2. v \in HP!Text /\ Len(v) = 2 + m /\ v[1] = HP!CR /\ v[2] = HP!LF
  <2>1. EndlineBefore(v, t)
    BY EndlineJoined
  <2>2. QED BY <1>1, <2>1 DEF EndlineBefore
<1>3. PICK f : f = HP!Find(v, HP!HeadersEnd, 0)
  OBVIOUS
<1>4. Len(HP!Endline) = 2
  BY Ends
<1>5. PICK n : n = f + 2
  OBVIOUS
<1>6. w = HP!Substr(v, 0, n)
  BY <1>3, <1>4, <1>5
<1>7. CASE f = HP!Npos
  <2>1. n = 1 /\ n \in Nat /\ n <= Len(v)
    BY <1>2, <1>5, <1>7 DEF HP!Npos
  <2>2. w \in HP!Text /\ Begins(w, v) /\ Len(w) = 1
    BY <1>2, <1>6, <2>1, CutIs
  <2>3. \A i \in 1 .. 1 : w[i] = v[i]
    BY <2>2 DEF Begins
  <2>4. w[1] = HP!CR
    BY <1>2, <2>3
  <2>5. PICK c : c = <<HP!CR>>
    OBVIOUS
  <2>6. c \in HP!Text /\ Len(c) = 1 /\ c[1] = HP!CR
    BY <2>5 DEF HP!Text, HP!CR
  <2>7. w = c
    BY <2>2, <2>4, <2>6, SameTexts
  <2>8. QED BY <1>3, <1>7, <2>5, <2>7
<1>8. CASE f # HP!Npos
  <2>1. f \in Nat /\ At(v, HP!HeadersEnd, f)
    <3>1. HP!HeadersEnd \in HP!Text
      BY Ends
    <3>2. f = HP!Npos \/ (f \in Nat /\ At(v, HP!HeadersEnd, f))
      BY <1>2, <1>3, <3>1, FoundAt
    <3>3. QED BY <1>8, <3>2
  <2>2. f + 4 <= Len(v)
    BY <2>1, Ends DEF At
  <2>3. n \in Nat /\ n >= 2 /\ n <= Len(v)
    BY <1>2, <1>5, <2>1, <2>2
  <2>4. w \in HP!Text /\ Begins(w, v) /\ Len(w) = n
    BY <1>2, <1>6, <2>3, CutIs
  <2>5. \A i \in 1 .. n : w[i] = v[i]
    BY <2>4 DEF Begins
  <2>6. 1 \in 1 .. n /\ 2 \in 1 .. n
    BY <2>3
  <2>7. w[1] = HP!CR /\ w[2] = HP!LF
    BY <1>2, <2>5, <2>6
  <2>8. QED BY <1>3, <1>8, <2>3, <2>4, <2>7
<1>9. QED BY <1>7, <1>8

\* A line that is empty has no value; the one character is its own name and value.
LEMMA OddLines ==
  /\ \A w \in HP!Text : Len(w) >= 2 /\ w[1] = HP!CR /\ w[2] = HP!LF
       => HP!ValuePos(HP!LineOf(w)) = HP!Npos
  /\ HP!ValuePos(HP!LineOf(<<HP!CR>>)) # HP!Npos
  /\ HP!RemovePrefix(<<HP!CR>>, HP!Find(<<HP!CR>>, HP!Endline, 0) + Len(HP!Endline)) = <<>>
<1>1. ASSUME NEW w \in HP!Text, Len(w) >= 2, w[1] = HP!CR, w[2] = HP!LF
      PROVE  HP!ValuePos(HP!LineOf(w)) = HP!Npos
  <2>1. At(w, HP!Endline, 0)
    BY <1>1, EndlineAt
  <2>2. HP!Find(w, HP!Endline, 0) = 0
    BY <2>1, Ends, FirstAt
  <2>3. HP!LineOf(w) = SubSeq(w, 1, 0)
    BY <2>2, CharIs DEF HP!LineOf, HP!Substr, HP!Npos
  <2>4. PICK l : l = HP!LineOf(w)
    OBVIOUS
  <2>5. l \in HP!Text /\ Len(l) = 0
    BY <2>3, <2>4, CharIs, SubSeqIs
  <2>6. \A i \in Nat : ~At(l, <<HP!Colon>>, i)
    BY <2>5 DEF At
  <2>7. HP!Find(l, <<HP!Colon>>, 0) = HP!Npos
    BY <2>5, <2>6, ShortTexts, NowhereAt
  <2>8. \A i \in HP!Find(l, <<HP!Colon>>, 0) + 1 .. Len(l) - 1 : FALSE
    BY <2>5, <2>7 DEF HP!Npos
  <2>9. {i \in HP!Find(l, <<HP!Colon>>, 0) + 1 .. Len(l) - 1 : l[i + 1] \notin HP!Whitespaces} = {}
    BY <2>8
  <2>10. HP!ValuePos(l) = HP!FirstOf({})
    BY <2>9 DEF HP!ValuePos
  <2>11. QED BY <2>4, <2>10 DEF HP!FirstOf
<1>2. PICK c : c = <<HP!CR>>
  OBVIOUS
<1>3. c \in HP!Text /\ Len(c) = 1 /\ c[1] = HP!CR
  BY <1>2 DEF HP!Text, HP!CR
<1>4. HP!Find(c, HP!Endline, 0) = HP!Npos
  <2>1. \A i \in Nat : ~At(c, HP!Endline, i)
    BY <1>3, EndlineAt
  <2>2. QED BY <1>3, <2>1, Ends, NowhereAt
<1>5. HP!LineOf(c) = c
  <2>1. HP!LineOf(c) = SubSeq(c, 1, Len(c))
    BY <1>4, SMTT(30) DEF HP!LineOf, HP!Substr
  <2>2. QED BY <1>3, <2>1 DEF HP!Text
<1>6. HP!Find(c, <<HP!Colon>>, 0) = HP!Npos
  <2>1. c[1] # HP!Colon
    BY <1>3 DEF HP!CR, HP!Colon
  <2>2. HP!Without(c, {HP!Colon}) /\ HP!Colon \in 0 .. 255
    BY <1>3, <2>1, CharIs DEF HP!Without, HP!Colon
  <2>3. QED BY <1>3, <2>2, ShortTexts, FoundChar, ZenonT(30)
<1>7. HP!ValuePos(c) # HP!Npos
  <2>1. PICK S : S = {i \in HP!Find(c, <<HP!Colon>>, 0) + 1 .. Len(c) - 1 :
                        c[i + 1] \notin HP!Whitespaces}
    OBVIOUS
  <2>2. S = {i \in 0 .. 0 : c[i + 1] \notin HP!Whitespaces}
    BY <1>3, <1>6, <2>1 DEF HP!Npos
  <2>3. c[1] \notin HP!Whitespaces
    BY <1>3 DEF HP!Whitespaces, HP!CR, HP!Space, HP!TAB
  <2>4. 0 \in S /\ S \in SUBSET Nat
    BY <2>2, <2>3
  <2>5. HP!FirstOf(S) \in S
    BY <2>4, FirstIs
  <2>6. HP!FirstOf(S) # HP!Npos
    BY <2>4, <2>5 DEF HP!Npos
  <2>7. QED BY <2>1, <2>6 DEF HP!ValuePos
<1>8. HP!RemovePrefix(c, HP!Find(c, HP!Endline, 0) + Len(HP!Endline)) = <<>>
  <2>1. HP!Find(c, HP!Endline, 0) + Len(HP!Endline) = 1
    BY <1>4, Ends DEF HP!Npos
  <2>2. HP!RemovePrefix(c, 1) \in HP!Text /\ Len(HP!RemovePrefix(c, 1)) = 0
    <3>1. 1 \in Nat /\ 1 <= Len(c) /\ Len(c) - 1 = 0
      BY <1>3
    <3>2. QED BY <1>3, <3>1, BehindIs
  <2>3. HP!RemovePrefix(c, 1) = <<>>
    BY <2>2, CharIs
  <2>4. QED BY <2>1, <2>3
<1>9. QED BY <1>1, <1>2, <1>5, <1>7, <1>8

-----------------------------------------------------------------------------
\* The first line

\* The path of a request, with its query string, and the first line.
PathOf(query) == <<HP!Slash, HP!Question>> \o query
TopOf(f, query) == Words(f.verb, PathOf(query), f.protocol)

\* Without blanks a text has no end of a line.
LEMMA CRIsBlank == HP!CR \in HP!Blanks /\ HP!Space # HP!CR
  BY DEF HP!Blanks, HP!CR, HP!TAB, HP!Space

\* A query string has no blanks: they are escaped.
LEMMA QueryPlain == ASSUME NEW n \in Nat, NEW ps \in [1 .. n -> Pairs]
  PROVE HP!QueryOf(ps) \in HP!Text /\ HP!Without(HP!QueryOf(ps), HP!Blanks)
<1>1. PICK q : q = PairTexts(ps)
  OBVIOUS
<1>2. Left(q, n, 0, HP!QueryOf(ps))
  BY <1>1, QueryLeft
<1>3. PICK r : Tailed(r, q, n) /\ HP!QueryOf(ps) = r[0]
  BY <1>2 DEF Left
<1>4. r \in [0 .. n -> HP!Text] /\ r[n] = <<>> /\ \A i \in 1 .. n : r[i - 1] = q[i] \o r[i]
  BY <1>3 DEF Tailed
<1>5. PICK B : B = {i \in 0 .. n : HP!Without(r[i], HP!Blanks)}
  OBVIOUS
<1>6. n \in B
  BY <1>4, <1>5 DEF HP!Without
<1>7. HP!Blanks \in SUBSET Special
  BY DEF Special
<1>8. PICK a, e : a = <<HP!Amp>> /\ e = <<HP!Equals>>
  OBVIOUS
<1>9. a \in HP!Text /\ e \in HP!Text /\ HP!Without(a, HP!Blanks) /\ HP!Without(e, HP!Blanks)
  BY <1>8, ShortTexts
     DEF HP!Without, HP!Blanks, HP!Amp, HP!Equals, HP!TAB, HP!CR, HP!Space
<1>10. ASSUME NEW i \in 1 .. n, i \in B PROVE i - 1 \in B
  <2>1. PICK k, v, w : /\ k = HP!Encode(ps[i].key) /\ v = HP!Encode(ps[i].value)
                       /\ w = Written(k, v)
    OBVIOUS
  <2>2. /\ k \in HP!Text /\ v \in HP!Text /\ HP!Without(k, Special) /\ HP!Without(v, Special)
    BY <2>1, ClientsAre, EncodeIs, EncodePlain
  <2>3. HP!Without(k, HP!Blanks) /\ HP!Without(v, HP!Blanks)
    BY <1>7, <2>2, WithoutPart
  <2>4. w = k \o (e \o v) /\ e \o v \in HP!Text
    BY <1>8, <1>9, <2>1, <2>2, TextsJoined DEF Written
  <2>5. w \in HP!Text /\ HP!Without(w, HP!Blanks)
    BY <1>9, <2>2, <2>3, <2>4, TextsJoined, WithoutJoined
  <2>6. q[i] = a \o w \/ q[i] = <<>> \o w
    BY <1>1, <1>8, <2>1, PairTextIs
  <2>7. <<>> \o w = w
    BY <2>5, NothingJoined
  <2>8. q[i] \in HP!Text /\ HP!Without(q[i], HP!Blanks)
    BY <1>9, <2>5, <2>6, <2>7, TextsJoined, WithoutJoined, ZenonT(30)
  <2>9. r[i] \in HP!Text /\ HP!Without(r[i], HP!Blanks)
    BY <1>4, <1>5, <1>10
  <2>10. HP!Without(q[i] \o r[i], HP!Blanks)
    BY <2>8, <2>9, WithoutJoined
  <2>11. HP!Without(r[i - 1], HP!Blanks)
    BY <1>4, <2>10
  <2>12. QED BY <1>5, <2>11
<1>11. B \in SUBSET (0 .. n)
  BY <1>5
<1>12. B = 0 .. n
  BY <1>6, <1>10, <1>11, CountDown
<1>13. 0 \in B
  BY <1>12
<1>14. HP!Without(r[0], HP!Blanks)
  BY <1>5, <1>13
<1>15. QED BY <1>3, <1>4, <1>14

\* A path has the query string behind its `?', and no blanks.
LEMMA PathIs == ASSUME NEW s \in HP!Text, HP!Without(s, HP!Blanks), NEW p, p = PathOf(s)
  PROVE  /\ p \in HP!Text /\ p # <<>> /\ HP!Without(p, HP!Blanks)
         /\ HP!Find(p, <<HP!Question>>, 0) = 1 /\ HP!RemovePrefix(p, 2) = s
<1>1. PICK g, x, y : g = <<HP!Slash, HP!Question>> /\ x = <<HP!Slash>> /\ y = <<HP!Question>>
  OBVIOUS
<1>2. /\ g \in HP!Text /\ Len(g) = 2 /\ g[1] = HP!Slash /\ g[2] = HP!Question
      /\ HP!Without(g, HP!Blanks)
  BY <1>1 DEF HP!Text, HP!Slash, HP!Question, HP!Without, HP!Blanks, HP!TAB, HP!CR, HP!Space
<1>3. /\ x \in HP!Text /\ y \in HP!Text /\ Len(x) = 1 /\ Len(y) = 1
      /\ x[1] = HP!Slash /\ y[1] = HP!Question
  BY <1>1, ShortTexts
<1>4. p = g \o s
  BY <1>1 DEF PathOf
<1>5. p \in HP!Text /\ Len(p) = 2 + Len(s) /\ Len(s) \in Nat /\ HP!RemovePrefix(p, 2) = s
  <2>1. JoinOf(p, g, s)
    BY <1>2, <1>4, JoinedIs
  <2>2. QED BY <1>2, <2>1 DEF JoinOf
<1>6. p # <<>>
  BY <1>5
<1>7. HP!Without(p, HP!Blanks)
  BY <1>2, <1>4, WithoutJoined
<1>8. g = x \o y
  <2>1. PICK z : z = x \o y
    OBVIOUS
  <2>2. z \in HP!Text /\ Len(z) = 2 /\ z[1] = x[1] /\ z[2] = y[1]
    <3>1. JoinOf(z, x, y)
      BY <1>3, <2>1, JoinedIs
    <3>2. 1 \in 1 .. 1 /\ 1 + 1 = 2
      OBVIOUS
    <3>3. QED BY <1>3, <3>1, <3>2 DEF JoinOf
  <2>3. g = z
    BY <1>2, <1>3, <2>2, SameTexts
  <2>4. QED BY <2>1, <2>3
<1>9. Regrouped(x, y, s)
  BY <1>3, Regroup
<1>10. p = x \o (y \o s)
  BY <1>4, <1>8, <1>9 DEF Regrouped
<1>11. HP!Question \in 0 .. 255 /\ HP!Without(x, {HP!Question})
  BY <1>1, SMTT(30) DEF HP!Question, HP!Slash, HP!Without
<1>12. HP!Find(x \o (<<HP!Question>> \o s), <<HP!Question>>, 0) = Len(x)
  BY <1>3, <1>11, FoundChar, ZenonT(30)
<1>13. HP!Find(p, <<HP!Question>>, 0) = 1
  BY <1>1, <1>3, <1>10, <1>12
<1>14. QED BY <1>5, <1>6, <1>7, <1>13

\* The first line has no end of a line, and the three words of the request.
LEMMA TopIs ==
  ASSUME NEW f \in Lines, NEW query \in HP!Text, HP!Without(query, HP!Blanks),
         NEW s, s = TopOf(f, query)
  PROVE  /\ s \in HP!Text /\ HP!Without(s, {HP!CR})
         /\ HP!Word(s, 1) = f.verb /\ HP!Word(s, 2) = PathOf(query) /\ HP!Word(s, 3) = f.protocol
<1>1. PICK a, b, c : a = f.verb /\ b = PathOf(query) /\ c = f.protocol
  OBVIOUS
<1>2. /\ a \in HP!Text /\ a # <<>> /\ HP!Without(a, HP!Blanks)
      /\ c \in HP!Text /\ c # <<>> /\ HP!Without(c, HP!Blanks)
  BY <1>1, ClientsAre
<1>3. b \in HP!Text /\ b # <<>> /\ HP!Without(b, HP!Blanks)
  BY <1>1, PathIs
<1>4. s = Words(a, b, c)
  BY <1>1 DEF TopOf
<1>5. HP!Word(s, 1) = a /\ HP!Word(s, 2) = b /\ HP!Word(s, 3) = c
  BY <1>2, <1>3, <1>4, ThreeWords
<1>6. PICK e : e = <<HP!Space>>
  OBVIOUS
<1>7. e \in HP!Text /\ HP!Without(e, {HP!CR})
  BY <1>6, ShortTexts, CRIsBlank DEF HP!Without
<1>8. HP!Without(a, {HP!CR}) /\ HP!Without(b, {HP!CR}) /\ HP!Without(c, {HP!CR})
  BY <1>2, <1>3, CRIsBlank DEF HP!Without
<1>9. s = a \o (e \o (b \o (e \o c)))
  BY <1>4, <1>6 DEF Words
<1>10. e \o c \in HP!Text /\ HP!Without(e \o c, {HP!CR})
  BY <1>2, <1>7, <1>8, TextsJoined, WithoutJoined
<1>11. b \o (e \o c) \in HP!Text /\ HP!Without(b \o (e \o c), {HP!CR})
  BY <1>3, <1>8, <1>10, TextsJoined, WithoutJoined
<1>12. e \o (b \o (e \o c)) \in HP!Text /\ HP!Without(e \o (b \o (e \o c)), {HP!CR})
  BY <1>7, <1>11, TextsJoined, WithoutJoined
<1>13. s \in HP!Text /\ HP!Without(s, {HP!CR})
  BY <1>2, <1>8, <1>9, <1>12, TextsJoined, WithoutJoined
<1>14. QED BY <1>1, <1>5, <1>13

\* The text s of a request: its first line, an end of a line, and what is behind it.
Arranged(s, f, query, lines, t) ==
  s = TopOf(f, query) \o (HP!Endline \o (lines \o (HP!Endline \o t)))

\* A request is written so.
LEMMA TextIs ==
  ASSUME NEW f \in Lines, NEW query \in HP!Text, HP!Without(query, HP!Blanks),
         NEW lines \in HP!Text, NEW t \in HP!Text
  PROVE  Arranged(HP!TextOf(f, query, lines, t), f, query, lines, t)
<1>1. PICK a, c, e, g, h, x : /\ a = f.verb /\ c = f.protocol /\ e = <<HP!Space>>
                              /\ g = <<HP!Slash, HP!Question>> /\ x = HP!Endline
                              /\ h = <<HP!Space, HP!Slash, HP!Question>>
  OBVIOUS
<1>2. a \in HP!Text /\ c \in HP!Text /\ e \in HP!Text /\ x \in HP!Text /\ h \in HP!Text
  BY <1>1, ClientsAre, ShortTexts
<1>3. g \in HP!Text
  BY <1>1 DEF HP!Text, HP!Slash, HP!Question
<1>4. h = e \o g
  <2>1. PICK z : z = e \o g
    OBVIOUS
  <2>2. Len(e) = 1 /\ Len(g) = 2 /\ e[1] = h[1] /\ g[1] = h[2] /\ g[2] = h[3] /\ Len(h) = 3
    BY <1>1
  <2>3. z \in HP!Text /\ Len(z) = 3 /\ z[1] = e[1] /\ z[2] = g[1] /\ z[3] = g[2]
    <3>1. JoinOf(z, e, g)
      BY <1>2, <1>3, <2>1, JoinedIs
    <3>2. /\ z \in HP!Text /\ Len(z) = 3 /\ \A i \in 1 .. 1 : z[i] = e[i]
          /\ \A i \in 1 .. 2 : z[1 + i] = g[i]
      BY <2>2, <3>1 DEF JoinOf
    <3>3. z[1] = e[1] /\ z[1 + 1] = g[1] /\ z[1 + 2] = g[2]
      BY <3>2
    <3>4. QED BY <3>2, <3>3
  <2>4. h = z
    <3>1. \A i \in 1 .. 3 : h[i] = z[i]
      <4>1. TAKE i \in 1 .. 3
      <4>2. i = 1 \/ i = 2 \/ i = 3
        OBVIOUS
      <4>3. QED BY <2>2, <2>3, <4>2
    <3>2. QED BY <1>2, <2>2, <2>3, <3>1, SameTexts, ZenonT(30)
  <2>5. QED BY <2>1, <2>4
<1>5. PICK u : u = a \o h \o query \o e \o c
  OBVIOUS
<1>6. u = TopOf(f, query)
  <2>1. PICK ec, ah, gq : ec = e \o c /\ ah = a \o h /\ gq = g \o query
    OBVIOUS
  <2>2. ec \in HP!Text /\ ah \in HP!Text /\ gq \in HP!Text
    BY <1>2, <1>3, <2>1, TextsJoined
  <2>3. PICK ahq, qec : ahq = ah \o query /\ qec = query \o ec
    OBVIOUS
  <2>4. ahq \in HP!Text /\ qec \in HP!Text
    BY <2>2, <2>3, TextsJoined
  <2>5. u = ahq \o ec
    <3>1. Regrouped(ahq, e, c)
      BY <1>2, <2>4, Regroup
    <3>2. QED BY <1>5, <2>1, <2>3, <3>1 DEF Regrouped
  <2>6. ahq \o ec = ah \o qec
    <3>1. Regrouped(ah, query, ec)
      BY <2>2, Regroup
    <3>2. QED BY <2>3, <3>1 DEF Regrouped
  <2>7. ah \o qec = a \o (h \o qec)
    <3>1. Regrouped(a, h, qec)
      BY <1>2, <2>4, Regroup
    <3>2. QED BY <2>1, <3>1 DEF Regrouped
  <2>8. h \o qec = e \o (g \o qec)
    <3>1. Regrouped(e, g, qec)
      BY <1>2, <1>3, <2>4, Regroup
    <3>2. QED BY <1>4, <3>1 DEF Regrouped
  <2>9. g \o qec = gq \o ec
    <3>1. Regrouped(g, query, ec)
      BY <1>3, <2>2, Regroup
    <3>2. QED BY <2>1, <2>3, <3>1 DEF Regrouped
  <2>10. u = a \o (e \o (gq \o ec))
    BY <2>5, <2>6, <2>7, <2>8, <2>9
  <2>11. TopOf(f, query) = a \o (e \o (gq \o ec))
    BY <1>1, <2>1 DEF TopOf, Words, PathOf
  <2>12. QED BY <2>10, <2>11
<1>7. u \in HP!Text
  BY <1>6, TopIs
<1>8. PICK w, ux : w = x \o t /\ ux = u \o x
  OBVIOUS
<1>9. w \in HP!Text /\ ux \in HP!Text
  BY <1>2, <1>7, <1>8, TextsJoined
<1>10. PICK uxl, lw : uxl = ux \o lines /\ lw = lines \o w
  OBVIOUS
<1>11. uxl \in HP!Text /\ lw \in HP!Text
  BY <1>9, <1>10, TextsJoined
<1>12. HP!TextOf(f, query, lines, t) = (uxl \o x) \o t
  BY <1>1, <1>5, <1>8, <1>10 DEF HP!TextOf
<1>13. Regrouped(uxl, x, t) /\ Regrouped(ux, lines, w) /\ Regrouped(u, x, lw)
  BY <1>2, <1>7, <1>9, <1>11, Regroup
<1>14. HP!TextOf(f, query, lines, t) = u \o (x \o lw)
  BY <1>8, <1>10, <1>12, <1>13 DEF Regrouped
<1>15. QED BY <1>1, <1>6, <1>8, <1>10, <1>14 DEF Arranged

-----------------------------------------------------------------------------
\* What the parser knows of the request m that the client meant

NamesOf(fs, n) == [i \in 1 .. n |-> HP!LowerCase(fs[i].name)]
ContentsOf(fs, n) == [i \in 1 .. n |-> fs[i].value]

\* Another request, or an end of the headers, is in the buffer behind the first line.
NextIsThere(m) == HP!Find(HP!Endline \o m.after, HP!HeadersEnd, 0) # HP!Npos

\* t begins with an end of a line.
NoLine(t) == t \in HP!Text /\ Len(t) >= 2 /\ t[1] = HP!CR /\ t[2] = HP!LF

\* The line is the one of m.
KnowsLine(m, l) ==
  /\ l.method = m.first.method /\ l.version = m.first.version
  /\ l.path = PathOf(HP!QueryOf(m.pairs))

\* The headers in map are those of the first i lines, which have values, and t is what
\* is left of the lines.
KnowsHeaders(m, n, t, map, i) ==
  /\ i \in 0 .. n /\ Left(FieldTexts(m.fields), n, i, t)
  /\ Collected(map, NamesOf(m.fields, n), ContentsOf(m.fields, n), i)
  /\ \A j \in 1 .. i : ~HP!Blank(m.fields[j].value)

\* HeadersMap is between two of its rounds.
HeadersComing(m, t, map) ==
  /\ m.fields # <<>> => \E i : KnowsHeaders(m, Len(m.fields), t, map, i)
  /\ m.fields = <<>> => IF NextIsThere(m) THEN NoLine(t) ELSE t = <<HP!CR>> \/ t = <<>>

\* HeadersMap has all headers, with their values.
HeadersCome(m, map) ==
  /\ m.fields # <<>> => Collected(map, NamesOf(m.fields, Len(m.fields)),
                                  ContentsOf(m.fields, Len(m.fields)), Len(m.fields))
  /\ \A j \in DOMAIN m.fields : ~HP!Blank(m.fields[j].value)
  /\ m.fields = <<>> => ~NextIsThere(m)

\* The parameters in map are the first i, and t is what is left of the query string.
KnowsParameters(m, n, t, map, i) ==
  /\ i \in 0 .. n /\ Left(PairTexts(m.pairs), n, i, t)
  /\ Collected(map, KeysOf(m.pairs, n), ValuesOf(m.pairs, n), i)

\* parse_query_string is between two of its rounds.
ParametersComing(m, t, map) == \E i : KnowsParameters(m, Len(m.pairs), t, map, i)

\* What the parser throws for.
NotTaken(m) ==
  \/ \E i \in DOMAIN m.fields : HP!Blank(m.fields[i].value)
  \/ m.fields = <<>> /\ NextIsThere(m)

\* m has k parameters and n header lines.
HasItems(m, k, n) ==
  /\ m.first \in Lines /\ m.after \in HP!Text
  /\ k \in Nat /\ k = Len(m.pairs) /\ m.pairs \in [1 .. k -> Pairs]
  /\ n \in Nat /\ n = Len(m.fields) /\ m.fields \in [1 .. n -> Fields]
  /\ DOMAIN m.fields = 1 .. n /\ (m.fields = <<>> <=> n = 0)

\* What a request is made of.
LEMMA ItemsAre == ASSUME NEW m \in HP!Requests
  PROVE  \E k, n : HasItems(m, k, n)
<1>1. /\ m.first \in Lines /\ m.after \in After
      /\ m.pairs \in HP!SeqOf(Pairs, MaxItems) /\ m.fields \in HP!SeqOf(Fields, MaxItems)
  BY DEF HP!Requests
<1>2. PICK k \in Nat : m.pairs \in [1 .. k -> Pairs]
  BY <1>1, ClientsAre DEF HP!SeqOf
<1>3. PICK n \in Nat : m.fields \in [1 .. n -> Fields]
  BY <1>1, ClientsAre DEF HP!SeqOf
<1>4. m.pairs \in Seq(Pairs) /\ Len(m.pairs) = k
  BY <1>2
<1>5. m.fields \in Seq(Fields) /\ Len(m.fields) = n
  BY <1>3
<1>6. m.fields = <<>> <=> n = 0
  BY <1>5
<1>7. m.after \in HP!Text
  BY <1>1, ClientsAre
<1>8. DOMAIN m.fields = 1 .. n
  BY <1>3
<1>9. HasItems(m, k, n)
  BY <1>1, <1>2, <1>3, <1>4, <1>5, <1>6, <1>7, <1>8 DEF HasItems
<1>10. QED BY <1>9

\* split_until_body finds the first line and the headers of a request.
LEMMA RequestSplit ==
  ASSUME NEW m \in HP!Requests, NEW x,
         x = HP!TextOf(m.first, HP!QueryOf(m.pairs), HP!HeadersOf(m.fields), m.after),
         NEW z, z = HP!Find(x, HP!Endline, 0),
         NEW v, v = HP!RemovePrefix(x, z + Len(HP!Endline)),
         NEW t, t = HP!Substr(v, 0, HP!Find(v, HP!HeadersEnd, 0) + Len(HP!Endline))
  PROVE  /\ HP!Substr(x, 0, z) = TopOf(m.first, HP!QueryOf(m.pairs))
         /\ HeadersComing(m, t, HP!Empty)
<1>1. PICK k, n : HasItems(m, k, n)
  BY ItemsAre
<1>2. /\ m.first \in Lines /\ m.after \in HP!Text /\ m.pairs \in [1 .. k -> Pairs]
      /\ m.fields \in [1 .. n -> Fields] /\ (m.fields = <<>> <=> n = 0)
      /\ k \in Nat /\ n \in Nat /\ n = Len(m.fields)
  BY <1>1 DEF HasItems
<1>3. PICK query, lines : query = HP!QueryOf(m.pairs) /\ lines = HP!HeadersOf(m.fields)
  OBVIOUS
<1>4. query \in HP!Text /\ HP!Without(query, HP!Blanks)
  BY <1>2, <1>3, QueryPlain
<1>5. lines \in HP!Text /\ Tidy(lines) /\ (n > 0 => lines # <<>>)
  BY <1>2, <1>3, HeadersTidy
<1>6. PICK top : top = TopOf(m.first, query)
  OBVIOUS
<1>7. top \in HP!Text /\ HP!Without(top, {HP!CR})
  BY <1>2, <1>4, <1>6, TopIs
<1>8. PICK u : u = lines \o (HP!Endline \o m.after)
  OBVIOUS
<1>9. HP!Endline \o m.after \in HP!Text /\ u \in HP!Text
  BY <1>2, <1>5, <1>8, ShortTexts, TextsJoined
<1>10. x = top \o (HP!Endline \o u)
  <2>1. Arranged(HP!TextOf(m.first, query, lines, m.after), m.first, query, lines, m.after)
    BY <1>2, <1>4, <1>5, TextIs
  <2>2. QED BY <1>3, <1>6, <1>8, <2>1 DEF Arranged
<1>11. z = Len(top) /\ HP!Substr(x, 0, Len(top)) = top /\ HP!RemovePrefix(x, Len(top) + 2) = u
  BY <1>7, <1>9, <1>10, FirstLineIs
<1>12. v = u
  BY <1>11, ShortTexts
<1>13. CASE n > 0
  <2>1. t = lines
    BY <1>2, <1>5, <1>8, <1>12, <1>13, HeadersEndIs
  <2>2. Left(FieldTexts(m.fields), n, 0, t)
    BY <1>2, <1>3, <2>1, HeadersLeft
  <2>3. Collected(HP!Empty, NamesOf(m.fields, n), ContentsOf(m.fields, n), 0)
    BY NothingCollected
  <2>4. \A j \in 1 .. 0 : FALSE
    OBVIOUS
  <2>5. KnowsHeaders(m, n, t, HP!Empty, 0)
    BY <1>2, <2>2, <2>3, <2>4 DEF KnowsHeaders
  <2>6. m.fields # <<>>
    BY <1>2, <1>13
  <2>7. HeadersComing(m, t, HP!Empty)
    BY <1>2, <2>5, <2>6 DEF HeadersComing
  <2>8. QED BY <1>3, <1>6, <1>11, <2>7
<1>14. CASE n = 0
  <2>1. m.fields = <<>>
    BY <1>2, <1>14
  <2>2. lines = <<>>
    <3>1. Left(FieldTexts(m.fields), 0, 0, lines)
      BY <1>2, <1>3, <1>14, HeadersLeft
    <3>2. 0 \in 0 .. 0
      OBVIOUS
    <3>3. QED BY <3>1, <3>2, LeftIsText
  <2>3. u = HP!Endline \o m.after
    BY <1>8, <1>9, <2>2, NothingJoined
  <2>4. /\ HP!Find(v, HP!HeadersEnd, 0) = HP!Npos => t = <<HP!CR>>
        /\ HP!Find(v, HP!HeadersEnd, 0) # HP!Npos =>
             t \in HP!Text /\ Len(t) >= 2 /\ t[1] = HP!CR /\ t[2] = HP!LF
    BY <1>2, <1>12, <2>3, NoHeadersIs
  <2>5. NextIsThere(m) <=> HP!Find(v, HP!HeadersEnd, 0) # HP!Npos
    BY <1>12, <2>3 DEF NextIsThere
  <2>6. HeadersComing(m, t, HP!Empty)
    BY <2>1, <2>4, <2>5 DEF HeadersComing, NoLine
  <2>7. QED BY <1>3, <1>6, <1>11, <2>6
<1>15. QED BY <1>2, <1>13, <1>14

\* A round of HeadersMap takes one line more, or throws for a reason.
LEMMA HeadersGo ==
  ASSUME NEW m \in HP!Requests, NEW t, NEW map, HeadersComing(m, t, map), t # <<>>,
         NEW l, l = HP!LineOf(t), NEW u,
         u = HP!RemovePrefix(t, HP!Find(t, HP!Endline, 0) + Len(HP!Endline))
  PROVE  /\ HP!ValuePos(l) = HP!Npos => NotTaken(m)
         /\ HP!ValuePos(l) # HP!Npos =>
              HeadersComing(m, u, HP!Emplace(map, HP!NameOf(l),
                                             HP!Substr(l, HP!ValuePos(l), HP!Npos)))
<1>1. PICK k, n : HasItems(m, k, n)
  BY ItemsAre
<1>2. /\ n \in Nat /\ n = Len(m.fields) /\ m.fields \in [1 .. n -> Fields]
      /\ (m.fields = <<>> <=> n = 0) /\ DOMAIN m.fields = 1 .. n
  BY <1>1 DEF HasItems
<1>3. PICK new : new = HP!Emplace(map, HP!NameOf(l), HP!Substr(l, HP!ValuePos(l), HP!Npos))
  OBVIOUS
<1>4. CASE m.fields # <<>>
  <2>1. PICK i : KnowsHeaders(m, n, t, map, i)
    BY <1>2, <1>4 DEF HeadersComing
  <2>2. /\ i \in 0 .. n /\ Left(FieldTexts(m.fields), n, i, t)
        /\ Collected(map, NamesOf(m.fields, n), ContentsOf(m.fields, n), i)
        /\ \A j \in 1 .. i : ~HP!Blank(m.fields[j].value)
    BY <2>1 DEF KnowsHeaders
  <2>3. LineTaken(m.fields, n, i, l, u)
    BY <1>2, <2>2, LineRound
  <2>4. PICK j \in 1 .. n : j = i + 1
    BY <2>3 DEF LineTaken
  <2>5. HP!ValuePos(l) = HP!Npos => NotTaken(m)
    <3>1. HP!ValuePos(l) = HP!Npos <=> HP!Blank(m.fields[j].value)
      BY <2>3, <2>4 DEF LineTaken
    <3>2. QED BY <1>2, <3>1 DEF NotTaken
  <2>6. ASSUME HP!ValuePos(l) # HP!Npos PROVE HeadersComing(m, u, new)
    <3>1. /\ ~HP!Blank(m.fields[j].value) /\ HP!NameOf(l) = HP!LowerCase(m.fields[j].name)
          /\ HP!Substr(l, HP!ValuePos(l), HP!Npos) = m.fields[j].value
          /\ Left(FieldTexts(m.fields), n, j, u)
      BY <2>3, <2>4, <2>6 DEF LineTaken
    <3>2. PICK keys, values : keys = NamesOf(m.fields, n) /\ values = ContentsOf(m.fields, n)
      OBVIOUS
    <3>3. keys[j] = HP!LowerCase(m.fields[j].name) /\ values[j] = m.fields[j].value
      BY <3>2 DEF NamesOf, ContentsOf
    <3>4. new = HP!Emplace(map, keys[j], values[j])
      BY <1>3, <3>1, <3>3
    <3>5. Collected(map, keys, values, i)
      BY <2>2, <3>2
    <3>6. i \in Nat
      BY <2>2
    <3>7. Collected(HP!Emplace(map, keys[j], values[j]), keys, values, j)
      BY <2>4, <3>5, <3>6, EmplaceCollects
    <3>8. \A h \in 1 .. j : h \in 1 .. i \/ h = j
      BY <2>4, <3>6
    <3>9. \A h \in 1 .. j : ~HP!Blank(m.fields[h].value)
      BY <2>2, <3>1, <3>8
    <3>10. j \in 0 .. n
      BY <1>2
    <3>11. KnowsHeaders(m, n, u, new, j)
      BY <3>1, <3>2, <3>4, <3>7, <3>9, <3>10 DEF KnowsHeaders
    <3>12. QED BY <1>2, <1>4, <3>11 DEF HeadersComing
  <2>7. QED BY <1>3, <2>5, <2>6
<1>5. CASE m.fields = <<>>
  <2>1. CASE NextIsThere(m)
    <3>1. NoLine(t)
      BY <1>5, <2>1 DEF HeadersComing
    <3>2. HP!ValuePos(l) = HP!Npos
      BY <3>1, OddLines DEF NoLine
    <3>3. NotTaken(m)
      BY <1>5, <2>1 DEF NotTaken
    <3>4. QED BY <3>2, <3>3
  <2>2. CASE ~NextIsThere(m)
    <3>1. t = <<HP!CR>>
      BY <1>5, <2>2 DEF HeadersComing
    <3>2. HP!ValuePos(l) # HP!Npos /\ u = <<>>
      BY <3>1, OddLines
    <3>3. HeadersComing(m, u, new)
      BY <1>5, <2>2, <3>2 DEF HeadersComing
    <3>4. QED BY <1>3, <3>2, <3>3
  <2>3. QED BY <2>1, <2>2
<1>6. QED BY <1>4, <1>5

\* When nothing is left HeadersMap has all headers.
LEMMA HeadersEnded == ASSUME NEW m \in HP!Requests, NEW map, HeadersComing(m, <<>>, map)
  PROVE HeadersCome(m, map)
<1>1. PICK k, n : HasItems(m, k, n)
  BY ItemsAre
<1>2. /\ n \in Nat /\ n = Len(m.fields) /\ m.fields \in [1 .. n -> Fields]
      /\ DOMAIN m.fields = 1 .. n
  BY <1>1 DEF HasItems
<1>3. CASE m.fields # <<>>
  <2>1. PICK i : KnowsHeaders(m, n, <<>>, map, i)
    BY <1>2, <1>3 DEF HeadersComing
  <2>2. i \in 0 .. n /\ Left(FieldTexts(m.fields), n, i, <<>>)
    BY <2>1 DEF KnowsHeaders
  <2>3. i = n
    BY <1>2, <2>2, LineRound
  <2>4. Collected(map, NamesOf(m.fields, n), ContentsOf(m.fields, n), n)
    BY <2>1, <2>3 DEF KnowsHeaders
  <2>5. \A j \in DOMAIN m.fields : ~HP!Blank(m.fields[j].value)
    BY <1>2, <2>1, <2>3 DEF KnowsHeaders
  <2>6. QED BY <1>2, <1>3, <2>4, <2>5 DEF HeadersCome
<1>4. CASE m.fields = <<>>
  <2>1. \A j \in DOMAIN m.fields : ~HP!Blank(m.fields[j].value)
    BY <1>4
  <2>2. ~NoLine(<<>>)
    BY DEF NoLine
  <2>3. ~NextIsThere(m)
    BY <1>4, <2>2 DEF HeadersComing
  <2>4. QED BY <1>4, <2>1, <2>3 DEF HeadersCome
<1>5. QED BY <1>3, <1>4

\* make_params begins with the query string.
LEMMA ParametersBegin ==
  ASSUME NEW m \in HP!Requests, NEW l, KnowsLine(m, l), NEW at,
         at = HP!Find(l.path, <<HP!Question>>, 0)
  PROVE  /\ at # HP!Npos
         /\ ParametersComing(m, HP!RemovePrefix(l.path, at + 1), HP!Empty)
<1>1. PICK k, n : HasItems(m, k, n)
  BY ItemsAre
<1>2. k \in Nat /\ k = Len(m.pairs) /\ m.pairs \in [1 .. k -> Pairs]
  BY <1>1 DEF HasItems
<1>3. PICK query : query = HP!QueryOf(m.pairs)
  OBVIOUS
<1>4. query \in HP!Text /\ HP!Without(query, HP!Blanks)
  BY <1>2, <1>3, QueryPlain
<1>5. l.path = PathOf(query)
  BY <1>3 DEF KnowsLine
<1>6. at = 1 /\ HP!RemovePrefix(l.path, 2) = query
  BY <1>4, <1>5, PathIs
<1>7. at # HP!Npos /\ at + 1 = 2
  BY <1>6 DEF HP!Npos
<1>8. Left(PairTexts(m.pairs), k, 0, query)
  BY <1>2, <1>3, QueryLeft
<1>9. KnowsParameters(m, k, query, HP!Empty, 0)
  BY <1>2, <1>8, NothingCollected DEF KnowsParameters
<1>10. ParametersComing(m, query, HP!Empty)
  BY <1>2, <1>9 DEF ParametersComing
<1>11. QED BY <1>6, <1>7, <1>10

\* A round of parse_query_string takes one parameter more.
LEMMA ParametersGo ==
  ASSUME NEW m \in HP!Requests, NEW t, NEW map, ParametersComing(m, t, map), t # <<>>,
         NEW s, s = TrimmedOf(t), NEW w, w = HP!Substr(s, 0, HP!Find(s, <<HP!Amp>>, 0)),
         NEW z, z = HP!Find(w, <<HP!Equals>>, 0)
  PROVE  ParametersComing(m, HP!RemovePrefix(s, Len(w)),
           HP!Emplace(map, HP!decode_url(HP!Substr(w, 0, z)),
                           HP!decode_url(HP!Substr(w, z + 1, HP!Npos))))
<1>1. PICK k, n : HasItems(m, k, n)
  BY ItemsAre
<1>2. k \in Nat /\ k = Len(m.pairs) /\ m.pairs \in [1 .. k -> Pairs]
  BY <1>1 DEF HasItems
<1>3. PICK i : KnowsParameters(m, k, t, map, i)
  BY <1>2 DEF ParametersComing
<1>4. /\ i \in 0 .. k /\ Left(PairTexts(m.pairs), k, i, t)
      /\ Collected(map, KeysOf(m.pairs, k), ValuesOf(m.pairs, k), i)
  BY <1>3 DEF KnowsParameters
<1>5. PairTaken(m.pairs, k, i, w, z, HP!RemovePrefix(s, Len(w)))
  BY <1>2, <1>4, PairRound, SMTT(30)
<1>6. PICK j \in 1 .. k : j = i + 1
  BY <1>5 DEF PairTaken
<1>7. PICK keys, values : keys = KeysOf(m.pairs, k) /\ values = ValuesOf(m.pairs, k)
  OBVIOUS
<1>8. keys[j] = m.pairs[j].key /\ values[j] = m.pairs[j].value
  BY <1>7 DEF KeysOf, ValuesOf
<1>9. i \in Nat /\ j \in 0 .. k
  BY <1>4
<1>10. Collected(HP!Emplace(map, keys[j], values[j]), keys, values, j)
  BY <1>4, <1>6, <1>7, <1>9, EmplaceCollects
<1>11. PICK u, new : /\ u = HP!RemovePrefix(s, Len(w))
                     /\ new = HP!Emplace(map, HP!decode_url(HP!Substr(w, 0, z)),
                                         HP!decode_url(HP!Substr(w, z + 1, HP!Npos)))
  OBVIOUS
<1>12. Left(PairTexts(m.pairs), k, j, u) /\ new = HP!Emplace(map, keys[j], values[j])
  BY <1>5, <1>6, <1>8, <1>11 DEF PairTaken
<1>13. KnowsParameters(m, k, u, new, j)
  BY <1>7, <1>9, <1>10, <1>12 DEF KnowsParameters
<1>14. QED BY <1>2, <1>11, <1>13 DEF ParametersComing

\* When nothing is left the parameters are those of the request.
LEMMA ParametersEnded ==
  ASSUME NEW m \in HP!Requests, NEW map, ParametersComing(m, <<>>, map)
  PROVE  map = HP!Values(m.pairs, HP!Key, HP!Value)
<1>1. PICK k, n : HasItems(m, k, n)
  BY ItemsAre
<1>2. k \in Nat /\ k = Len(m.pairs) /\ m.pairs \in [1 .. k -> Pairs]
  BY <1>1 DEF HasItems
<1>3. PICK i : KnowsParameters(m, k, <<>>, map, i)
  BY <1>2 DEF ParametersComing
<1>4. i \in 0 .. k /\ Left(PairTexts(m.pairs), k, i, <<>>)
  BY <1>3 DEF KnowsParameters
<1>5. i = k
  BY <1>2, <1>4, PairRound
<1>6. Collected(map, KeysOf(m.pairs, k), ValuesOf(m.pairs, k), k)
  BY <1>3, <1>5 DEF KnowsParameters
<1>7. QED BY <1>2, <1>6, CollectedParameters DEF KeysOf, ValuesOf

\* The headers are those of the request.
LEMMA HeadersKnown ==
  ASSUME NEW m \in HP!Requests, NEW map, HeadersCome(m, map), m.fields # <<>>
  PROVE  map = HP!Values(m.fields, HP!HeaderName, HP!HeaderValue)
<1>1. PICK k, n : HasItems(m, k, n)
  BY ItemsAre
<1>2. n \in Nat /\ n = Len(m.fields) /\ m.fields \in [1 .. n -> Fields]
  BY <1>1 DEF HasItems
<1>3. Collected(map, NamesOf(m.fields, n), ContentsOf(m.fields, n), n)
  BY <1>2 DEF HeadersCome
<1>4. QED BY <1>2, <1>3, CollectedHeaders DEF NamesOf, ContentsOf

-----------------------------------------------------------------------------
\* The parser

\* What the parser has made of the request m, for every place where it can be.
Meets(m, x, at, t, l, map, values) ==
  /\ m \in HP!Requests
  /\ at = "split" =>
       /\ x = HP!TextOf(m.first, HP!QueryOf(m.pairs), HP!HeadersOf(m.fields), m.after)
       /\ map = HP!Empty
  /\ at = "line" => l.path = TopOf(m.first, HP!QueryOf(m.pairs))
  /\ at \in {"headers", "params", "done"} => KnowsLine(m, l)
  /\ at \in {"line", "headers"} => HeadersComing(m, t, map)
  /\ at \in {"params", "done"} => HeadersCome(m, map)
  /\ at \in {"split", "line", "headers"} => values = HP!Empty
  /\ at \in {"params", "done"} => ParametersComing(m, t, values)
  /\ at = "done" => t = <<>>
  /\ at = "thrown" => NotTaken(m)

ParserKnows ==
  meant # HP!NoRequest => Meets(meant, text, parsing, rest, line, fields, params)

\* The invariant holds at the start.
LEMMA ParserKnowsInit == HP!Init => ParserKnows
<1>1. SUFFICES ASSUME HP!Init, meant # HP!NoRequest
               PROVE  Meets(meant, text, parsing, rest, line, fields, params)
  BY DEF ParserKnows
<1>2. /\ meant \in HP!Requests
      /\ text = HP!TextOf(meant.first, HP!QueryOf(meant.pairs), HP!HeadersOf(meant.fields),
                          meant.after)
  BY <1>1 DEF HP!Init
<1>3. parsing = "split" /\ fields = HP!Empty /\ params = HP!Empty
  BY <1>1 DEF HP!Init
<1>4. QED BY <1>2, <1>3 DEF Meets

\* split_until_body: the first line and the headers are parts of the text.
LEMMA SplitKnows ==
  ASSUME ParserTypes, ParserKnows, meant # HP!NoRequest, HP!Split PROVE ParserKnows'
<1>1. PICK z : z = HP!Find(text, HP!Endline, 0)
  OBVIOUS
<1>2. PICK v : v = HP!RemovePrefix(text, z + Len(HP!Endline))
  OBVIOUS
<1>3. PICK t : t = HP!Substr(v, 0, HP!Find(v, HP!HeadersEnd, 0) + Len(HP!Endline))
  OBVIOUS
<1>4. /\ parsing = "split" /\ parsing' = "line" /\ rest' = t
      /\ line' = [line EXCEPT !.path = HP!Substr(text, 0, z)]
      /\ UNCHANGED <<meant, text, fields, params>>
  BY <1>1, <1>2, <1>3 DEF HP!Split
<1>5. /\ meant \in HP!Requests /\ fields = HP!Empty /\ params = HP!Empty
      /\ text = HP!TextOf(meant.first, HP!QueryOf(meant.pairs), HP!HeadersOf(meant.fields),
                          meant.after)
  BY <1>4 DEF ParserKnows, Meets
<1>6. /\ HP!Substr(text, 0, z) = TopOf(meant.first, HP!QueryOf(meant.pairs))
      /\ HeadersComing(meant, t, HP!Empty)
  BY <1>1, <1>2, <1>3, <1>5, RequestSplit
<1>7. line'.path = HP!Substr(text, 0, z)
  BY <1>4 DEF ParserTypes, QueryLines
<1>8. Meets(meant', text', parsing', rest', line', fields', params')
  BY <1>4, <1>5, <1>6, <1>7 DEF Meets
<1>9. QED BY <1>8 DEF ParserKnows

\* QueryLine: the words of the first line are those of the request.
LEMMA QueryLineKnows ==
  ASSUME ParserKnows, meant # HP!NoRequest, HP!QueryLine PROVE ParserKnows'
<1>1. /\ parsing = "line" /\ parsing' = "headers"
      /\ line' = [method |-> HP!MethodOf(HP!Word(line.path, 1)), path |-> HP!Word(line.path, 2),
                  version |-> HP!VersionOf(HP!Word(line.path, 3))]
      /\ UNCHANGED <<meant, text, rest, fields, params>>
  BY DEF HP!QueryLine
<1>2. PICK m : m = meant
  OBVIOUS
<1>3. /\ m \in HP!Requests /\ line.path = TopOf(m.first, HP!QueryOf(m.pairs))
      /\ HeadersComing(m, rest, fields) /\ params = HP!Empty
  BY <1>1, <1>2 DEF ParserKnows, Meets
<1>4. PICK query : query = HP!QueryOf(m.pairs)
  OBVIOUS
<1>5. query \in HP!Text /\ HP!Without(query, HP!Blanks) /\ m.first \in Lines
  <2>1. PICK k, n : HasItems(m, k, n)
    BY <1>3, ItemsAre
  <2>2. k \in Nat /\ m.pairs \in [1 .. k -> Pairs] /\ m.first \in Lines
    BY <2>1 DEF HasItems
  <2>3. QED BY <1>4, <2>2, QueryPlain
<1>6. /\ HP!Word(line.path, 1) = m.first.verb /\ HP!Word(line.path, 2) = PathOf(query)
      /\ HP!Word(line.path, 3) = m.first.protocol
  BY <1>3, <1>4, <1>5, TopIs
<1>7. m.first.method = HP!MethodOf(m.first.verb) /\ m.first.version = HP!VersionOf(m.first.protocol)
  BY <1>5, ClientsAre
<1>8. KnowsLine(m, line')
  BY <1>1, <1>4, <1>6, <1>7 DEF KnowsLine
<1>9. Meets(meant', text', parsing', rest', line', fields', params')
  BY <1>1, <1>2, <1>3, <1>8 DEF Meets
<1>10. QED BY <1>9 DEF ParserKnows

\* A header line is the next of the request.
LEMMA HeaderLineKnows ==
  ASSUME ParserKnows, meant # HP!NoRequest, HP!HeaderLine PROVE ParserKnows'
<1>1. PICK l, u : /\ l = HP!LineOf(rest)
                  /\ u = HP!RemovePrefix(rest, HP!Find(rest, HP!Endline, 0) + Len(HP!Endline))
  OBVIOUS
<1>2. PICK new : new = HP!Emplace(fields, HP!NameOf(l), HP!Substr(l, HP!ValuePos(l), HP!Npos))
  OBVIOUS
<1>3. /\ parsing = "headers" /\ rest # <<>> /\ HP!ValuePos(l) # HP!Npos
      /\ fields' = new /\ rest' = u
      /\ UNCHANGED <<meant, text, parsing, line, params>>
  BY <1>1, <1>2 DEF HP!HeaderLine
<1>4. /\ meant \in HP!Requests /\ KnowsLine(meant, line)
      /\ HeadersComing(meant, rest, fields) /\ params = HP!Empty
  BY <1>3 DEF ParserKnows, Meets
<1>5. HeadersComing(meant, u, new)
  BY <1>1, <1>2, <1>3, <1>4, HeadersGo
<1>6. Meets(meant', text', parsing', rest', line', fields', params')
  BY <1>3, <1>4, <1>5 DEF Meets
<1>7. QED BY <1>6 DEF ParserKnows

\* It throws for a value that is not there, or for a request without headers.
LEMMA NoValueKnows ==
  ASSUME ParserKnows, meant # HP!NoRequest, HP!NoValue PROVE ParserKnows'
<1>1. PICK l, u : /\ l = HP!LineOf(rest)
                  /\ u = HP!RemovePrefix(rest, HP!Find(rest, HP!Endline, 0) + Len(HP!Endline))
  OBVIOUS
<1>2. /\ parsing = "headers" /\ rest # <<>> /\ HP!ValuePos(l) = HP!Npos
      /\ parsing' = "thrown"
      /\ UNCHANGED <<meant, text, rest, line, fields, params>>
  BY <1>1 DEF HP!NoValue
<1>3. meant \in HP!Requests /\ HeadersComing(meant, rest, fields)
  BY <1>2 DEF ParserKnows, Meets
<1>4. NotTaken(meant)
  BY <1>1, <1>2, <1>3, HeadersGo
<1>5. Meets(meant', text', parsing', rest', line', fields', params')
  BY <1>2, <1>3, <1>4 DEF Meets
<1>6. QED BY <1>5 DEF ParserKnows

\* make_params: the headers are all there, and the query string is what follows.
LEMMA MakeParamsKnows ==
  ASSUME ParserKnows, meant # HP!NoRequest, HP!MakeParams PROVE ParserKnows'
<1>1. PICK at : at = HP!Find(line.path, <<HP!Question>>, 0)
  OBVIOUS
<1>2. /\ parsing = "headers" /\ rest = <<>> /\ parsing' = "params"
      /\ rest' = IF at = HP!Npos THEN <<>> ELSE HP!RemovePrefix(line.path, at + 1)
      /\ UNCHANGED <<meant, text, line, fields, params>>
  BY <1>1 DEF HP!MakeParams
<1>3. /\ meant \in HP!Requests /\ KnowsLine(meant, line)
      /\ HeadersComing(meant, <<>>, fields) /\ params = HP!Empty
  BY <1>2 DEF ParserKnows, Meets
<1>4. HeadersCome(meant, fields)
  BY <1>3, HeadersEnded
<1>5. at # HP!Npos /\ ParametersComing(meant, HP!RemovePrefix(line.path, at + 1), HP!Empty)
  BY <1>1, <1>3, ParametersBegin
<1>6. rest' = HP!RemovePrefix(line.path, at + 1)
  BY <1>2, <1>5
<1>7. Meets(meant', text', parsing', rest', line', fields', params')
  BY <1>2, <1>3, <1>4, <1>5, <1>6 DEF Meets
<1>8. QED BY <1>7 DEF ParserKnows

\* A parameter is the next of the request.
LEMMA QueryParamKnows ==
  ASSUME ParserKnows, meant # HP!NoRequest, HP!QueryParam PROVE ParserKnows'
<1>1. PICK s : s = TrimmedOf(rest)
  OBVIOUS
<1>2. HP!Trimmed = s
  BY <1>1 DEF HP!Trimmed, TrimmedOf
<1>3. PICK w : w = HP!Substr(s, 0, HP!Find(s, <<HP!Amp>>, 0))
  OBVIOUS
<1>4. HP!Pair = w
  BY <1>2, <1>3 DEF HP!Pair
<1>5. PICK z : z = HP!Find(w, <<HP!Equals>>, 0)
  OBVIOUS
<1>6. PICK new : new = HP!Emplace(params, HP!decode_url(HP!Substr(w, 0, z)),
                                  HP!decode_url(HP!Substr(w, z + 1, HP!Npos)))
  OBVIOUS
<1>7. PICK u : u = HP!RemovePrefix(s, Len(w))
  OBVIOUS
<1>8. /\ parsing = "params" /\ rest # <<>> /\ params' = new /\ rest' = u
      /\ UNCHANGED <<meant, text, parsing, line, fields>>
  BY <1>2, <1>4, <1>5, <1>6, <1>7 DEF HP!QueryParam
<1>9. /\ meant \in HP!Requests /\ KnowsLine(meant, line) /\ HeadersCome(meant, fields)
      /\ ParametersComing(meant, rest, params)
  BY <1>8 DEF ParserKnows, Meets
<1>10. ParametersComing(meant, u, new)
  BY <1>1, <1>3, <1>5, <1>6, <1>7, <1>8, <1>9, ParametersGo
<1>11. Meets(meant', text', parsing', rest', line', fields', params')
  BY <1>8, <1>9, <1>10 DEF Meets
<1>12. QED BY <1>11 DEF ParserKnows

\* Nothing is left of the query string at the end.
LEMMA ParsedKnows ==
  ASSUME ParserKnows, meant # HP!NoRequest, HP!Parsed PROVE ParserKnows'
<1>1. /\ parsing = "params" /\ rest = <<>> /\ parsing' = "done"
      /\ UNCHANGED <<meant, text, rest, line, fields, params>>
  BY DEF HP!Parsed
<1>2. /\ meant \in HP!Requests /\ KnowsLine(meant, line) /\ HeadersCome(meant, fields)
      /\ ParametersComing(meant, rest, params)
  BY <1>1 DEF ParserKnows, Meets
<1>3. Meets(meant', text', parsing', rest', line', fields', params')
  BY <1>1, <1>2 DEF Meets
<1>4. QED BY <1>3 DEF ParserKnows

\* Every step keeps what the parser knows.
LEMMA ParserStepKnows ==
  ASSUME ParserTypes, ParserKnows, [HP!Next]_(HP!vars) PROVE ParserKnows'
<1>1. CASE UNCHANGED HP!vars
  BY <1>1 DEF ParserKnows, HP!vars
<1>2. CASE HP!Next /\ meant = HP!NoRequest
  <2>1. meant' = meant
    BY <1>2 DEF HP!Next, HP!Split, HP!QueryLine, HP!HeaderLine, HP!NoValue, HP!MakeParams,
                HP!QueryParam, HP!Parsed, HP!Stop, HP!vars
  <2>2. meant' = HP!NoRequest
    BY <1>2, <2>1
  <2>3. HP!NoRequest' = HP!NoRequest
    BY DEF HP!NoRequest
  <2>4. QED BY <2>2, <2>3 DEF ParserKnows
<1>3. CASE HP!Next /\ meant # HP!NoRequest
  <2>1. CASE HP!Split
    BY <1>3, <2>1, SplitKnows
  <2>2. CASE HP!QueryLine
    BY <1>3, <2>2, QueryLineKnows
  <2>3. CASE HP!HeaderLine
    BY <1>3, <2>3, HeaderLineKnows
  <2>4. CASE HP!NoValue
    BY <1>3, <2>4, NoValueKnows
  <2>5. CASE HP!MakeParams
    BY <1>3, <2>5, MakeParamsKnows
  <2>6. CASE HP!QueryParam
    BY <1>3, <2>6, QueryParamKnows
  <2>7. CASE HP!Parsed
    BY <1>3, <2>7, ParsedKnows
  <2>8. CASE HP!Stop
    BY <2>8 DEF HP!Stop, HP!vars, ParserKnows
  <2>9. QED BY <1>3, <2>1, <2>2, <2>3, <2>4, <2>5, <2>6, <2>7, <2>8 DEF HP!Next
<1>4. QED BY <1>1, <1>2, <1>3

\* At the end it knows all the client meant.
LEMMA KnowsAll == ParserKnows => HP!ClientIsUnderstood
<1>1. SUFFICES ASSUME ParserKnows, parsing = "done", meant # HP!NoRequest, meant.fields # <<>>
               PROVE  /\ line.method = meant.first.method /\ line.version = meant.first.version
                      /\ params = HP!Values(meant.pairs, HP!Key, HP!Value)
                      /\ fields = HP!Values(meant.fields, HP!HeaderName, HP!HeaderValue)
  BY DEF HP!ClientIsUnderstood
<1>2. /\ meant \in HP!Requests /\ KnowsLine(meant, line) /\ HeadersCome(meant, fields)
      /\ ParametersComing(meant, rest, params) /\ rest = <<>>
  BY <1>1 DEF ParserKnows, Meets
<1>3. params = HP!Values(meant.pairs, HP!Key, HP!Value)
  BY <1>2, ParametersEnded
<1>4. fields = HP!Values(meant.fields, HP!HeaderName, HP!HeaderValue)
  BY <1>1, <1>2, HeadersKnown
<1>5. line.method = meant.first.method /\ line.version = meant.first.version
  BY <1>2 DEF KnowsLine
<1>6. QED BY <1>3, <1>4, <1>5

\* It throws when there is a reason, and only then.
LEMMA ThrowsRightly == ParserKnows => HP!ThrowsForAMissingValue
<1>1. SUFFICES ASSUME ParserKnows, meant # HP!NoRequest, parsing \in {"done", "thrown"}
               PROVE  parsing = "thrown" <=> NotTaken(meant)
  BY DEF HP!ThrowsForAMissingValue, NotTaken, NextIsThere
<1>2. CASE parsing = "thrown"
  BY <1>1, <1>2 DEF ParserKnows, Meets
<1>3. CASE parsing = "done"
  <2>1. HeadersCome(meant, fields)
    BY <1>1, <1>3 DEF ParserKnows, Meets
  <2>2. ~NotTaken(meant)
    BY <2>1 DEF HeadersCome, NotTaken
  <2>3. QED BY <1>3, <2>2
<1>4. QED BY <1>1, <1>2, <1>3

\* HeadersMap.cpp, FirstLines.cpp and utils.cpp: whatever request a client means, with any
\* number of parameters and of header lines and any characters in them, onRequest gets
\* its method, its version, each parameter decoded and each header under its name in
\* lower case, the first of the values of a name that occurs twice; and the parser throws
\* for a header without a value or for headers that are not there, and for nothing else.
THEOREM ParsingHolds ==
  HP!Spec => [](HP!ClientIsUnderstood /\ HP!ThrowsForAMissingValue)
<1>1. ParserTypes /\ ParserKnows /\ [HP!Next]_(HP!vars) => ParserKnows'
  BY ParserStepKnows
<1>2. QED
  BY <1>1, ParserKnowsInit, ParserTypesInit, ParserStepKept, KnowsAll, ThrowsRightly, PTL
  DEF HP!Spec

\* Receiver.cpp, HeadersMap.cpp, FirstLines.cpp and utils.cpp: what a client writes is what
\* onRequest gets, however the network cuts it, and the parser throws, and a routine waits
\* for more, only for a reason.
THEOREM RequestsAreUnderstoodHolds == Parts => []RequestsAreUnderstood
<1>1. /\ RC!BodyIsTheDeclaredPart /\ RC!YieldsForAReason
      /\ HP!ClientIsUnderstood /\ HP!ThrowsForAMissingValue
      => RequestsAreUnderstood
  BY DEF RequestsAreUnderstood
<1>2. QED
  BY <1>1, BehaviourOfEach, ReceiverHolds, ParsingHolds, PTL
=============================================================================
