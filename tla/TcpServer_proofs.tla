-------------------------- MODULE TcpServer_proofs --------------------------
(***************************************************************************)
(* Proofs about TcpServer, for every number of clients and descriptors,    *)
(* every stream and every size of packets and reads.                       *)
(***************************************************************************)
EXTENDS TcpServer, TLAPS

\* A report of epoll_wait names each descriptor once.
ReportsInv == \A r, s \in todo : r.fd = s.fd => r = s

\* Nothing was read from or sent to a client that is not accepted yet.
FreshInv ==
  \A c \in Clients : link[c] \in {"idle", "queued"} =>
    got[c] = 0 /\ echoed[c] = <<>> /\ missing[c] = 0

\* e came back to c and b is buffered, n units were received and m not taken.
Kept(e, b, n, m, c) ==
  /\ Without(e \o b, Sends[c], m)
  /\ Len(e) + Len(b) + m = n
  /\ b = SubSeq(Sends[c], n - Len(b) + 1, n)

IInv ==
  /\ TypeOK
  /\ OpenConnectionsAreServed
  /\ EventsAreCurrent
  /\ ReportsInv
  /\ OnlyUntakenIsLost
  /\ FreshInv

\* An open connection has its client, buffer and event.
LEMMA OpenIsConnection ==
  ASSUME TypeOK, NEW f \in OpenFds
  PROVE  /\ slaves[f] \in Connection
         /\ slaves[f].con \in Clients /\ slaves[f].buffer \in Seq(Unit)
         /\ slaves[f].event \in Event /\ f \in Fds
<1>1. f \in DOMAIN slaves /\ slaves[f].opened = TRUE
  BY DEF OpenFds, TypeOK, Connection, Left
<1>2. slaves[f] \in Connection \cup {Left} /\ f \in Fds
  BY <1>1 DEF TypeOK
<1>3. slaves[f] # Left
  BY <1>1 DEF Left
<1>4. slaves[f] \in Connection
  BY <1>2, <1>3
<1>5. QED
  BY <1>2, <1>4 DEF Connection

\* Nothing is received, echoed or queued before the first connection.
LEMMA InitInvariant == Init => IInv
<1> SUFFICES ASSUME Init PROVE IInv
  OBVIOUS
<1> USE DEF Init
<1>1. DOMAIN slaves = {} /\ OpenFds = {}
  BY DEF OpenFds
<1>2. TypeOK
  <2>1. \A c \in Clients : Sends[c] \in Seq(Unit) /\ Len(Sends[c]) \in Nat
    BY StreamAssumption
  <2>2. slaves \in [DOMAIN slaves -> Connection \cup {Left}]
    BY <1>1
  <2>3. echoed \in [Clients -> Seq(Unit)]
    OBVIOUS
  <2>4. \A c \in Clients : got[c] <= sent[c] /\ sent[c] <= Len(Sends[c])
    BY <2>1
  <2>5. /\ link \in [Clients -> {"idle", "queued", "open", "closed"}]
        /\ peer \in [Clients -> {"up", "fin", "reset"}] /\ missing \in [Clients -> Nat]
        /\ sent \in [Clients -> Nat] /\ got \in [Clients -> Nat]
    OBVIOUS
  <2>6. QED
    BY <1>1, <2>2, <2>3, <2>4, <2>5 DEF TypeOK
<1>3. OpenConnectionsAreServed /\ EventsAreCurrent /\ ReportsInv /\ OnlyUntakenIsLost /\ FreshInv
  BY <1>1 DEF OpenConnectionsAreServed, EventsAreCurrent, ReportsInv, OnlyUntakenIsLost, FreshInv
<1>4. QED
  BY <1>2, <1>3 DEF IInv

-----------------------------------------------------------------------------
\* What the handler of one report may do to the shared state: the connection
\* of the report stays under its descriptor or is closed, the others stay.
Handles(r) ==
  LET f == r.fd
      c == slaves[f].con
  IN /\ r \in todo /\ f # Master
     /\ todo' = todo \ {r}
     /\ \/ OpenFds' = OpenFds /\ slaves'[f].con = c /\ link' = link
        \/ OpenFds' = OpenFds \ {f} /\ link' = [link EXCEPT ![c] = "closed"]
     /\ \A g \in OpenFds \ {f} : slaves'[g] = slaves[g]
     /\ full' \subseteq full \cup {c}
     /\ \A d \in Clients \ {c} : got'[d] = got[d]
     /\ peer' = peer /\ sent' = sent

\* The other reports stay current, and the others' connections served.
LEMMA HandlesKeeps ==
  ASSUME IInv, NEW r, Handles(r)
  PROVE  OpenConnectionsAreServed' /\ EventsAreCurrent' /\ ReportsInv'
<1> DEFINE f == r.fd
           c == slaves[f].con
<1> USE DEF Handles, IInv
<1>1. f \in OpenFds /\ c \in Clients
  BY OpenIsConnection DEF EventsAreCurrent
<1>2. \A g \in OpenFds \ {f} : slaves[g].con # c /\ slaves[g].con \in Clients
  BY <1>1, OpenIsConnection DEF OpenConnectionsAreServed
<1>3. OpenConnectionsAreServed'
  <2>1. CASE OpenFds' = OpenFds /\ slaves'[f].con = c /\ link' = link
    <3>1. \A g \in OpenFds : slaves'[g].con = slaves[g].con
      BY <2>1
    <3>2. QED
      BY <2>1, <3>1 DEF OpenConnectionsAreServed
  <2>2. CASE OpenFds' = OpenFds \ {f} /\ link' = [link EXCEPT ![c] = "closed"]
    <3>1. link'[c] = "closed" /\ \A d \in Clients \ {c} : link'[d] = link[d]
      BY <1>1, <2>2 DEF TypeOK
    <3>2. \A g \in OpenFds' : g \in OpenFds /\ g # f /\ slaves'[g] = slaves[g]
      BY <2>2
    <3>3. \A d \in Clients : link'[d] = "open" => \E g \in OpenFds' : slaves'[g].con = d
      <4> SUFFICES ASSUME NEW d \in Clients, link'[d] = "open"
                   PROVE  \E g \in OpenFds' : slaves'[g].con = d
        OBVIOUS
      <4>1. d # c /\ link[d] = "open"
        BY <3>1
      <4>2. PICK g \in OpenFds : slaves[g].con = d
        BY <4>1 DEF OpenConnectionsAreServed
      <4>3. g # f
        BY <4>1, <4>2
      <4>4. QED
        BY <2>2, <3>2, <4>2, <4>3
    <3>4. \A g \in OpenFds' : link'[slaves'[g].con] = "open"
      BY <1>2, <3>1, <3>2 DEF OpenConnectionsAreServed
    <3>5. \A g, h \in OpenFds' : slaves'[g].con = slaves'[h].con => g = h
      BY <3>2 DEF OpenConnectionsAreServed
    <3>6. QED
      BY <3>3, <3>4, <3>5 DEF OpenConnectionsAreServed
  <2>3. QED
    BY <2>1, <2>2
<1>4. EventsAreCurrent'
  <2> SUFFICES ASSUME NEW s \in todo', s.fd # Master
               PROVE  /\ s.fd \in OpenFds'
                      /\ \/ peer'[slaves'[s.fd].con] = "reset"
                         \/ ~s.broken /\ ReadyFor(slaves[s.fd])'
    BY DEF EventsAreCurrent
  <2>1. s \in todo /\ s.fd # f
    BY DEF ReportsInv
  <2>2. s.fd \in OpenFds /\ s.fd \in OpenFds' /\ slaves'[s.fd] = slaves[s.fd]
    BY <2>1 DEF EventsAreCurrent
  <2>3. slaves[s.fd].con # c /\ slaves[s.fd].con \in Clients
    BY <1>2, <2>1, <2>2
  <2>4. ReadyFor(slaves[s.fd]) => ReadyFor(slaves[s.fd])'
    BY <2>2, <2>3 DEF ReadyFor
  <2>5. QED
    BY <2>1, <2>2, <2>4 DEF EventsAreCurrent
<1>5. ReportsInv'
  BY DEF ReportsInv
<1>6. QED
  BY <1>3, <1>4, <1>5

\* What the clients got is theirs when the handler keeps to its connection.
LEMMA HandlesKeepsStreams ==
  ASSUME IInv, NEW r, Handles(r),
         \A d \in Clients \ {slaves[r.fd].con} :
           echoed'[d] = echoed[d] /\ missing'[d] = missing[d],
         r.fd \in OpenFds' =>
           LET c == slaves[r.fd].con
           IN Kept(echoed'[c], slaves'[r.fd].buffer, got'[c], missing'[c], c)
  PROVE  OnlyUntakenIsLost' /\ FreshInv'
<1> DEFINE f == r.fd
           c == slaves[f].con
<1> USE DEF Handles
<1>1. f \in OpenFds
  BY DEF EventsAreCurrent, IInv
<1>2. FreshInv'
  BY <1>1, OpenIsConnection DEF FreshInv, OpenConnectionsAreServed, TypeOK, IInv
<1>3. ASSUME NEW g \in OpenFds'
      PROVE  LET d == slaves'[g].con
             IN Kept(echoed'[d], slaves'[g].buffer, got'[d], missing'[d], d)
  <2>1. CASE g = f
    <3>1. slaves'[g].con = c
      BY <1>1, <2>1
    <3>2. QED
      BY <2>1, <3>1
  <2>2. CASE g # f
    <3>1. g \in OpenFds /\ slaves'[g] = slaves[g]
      BY <2>2
    <3>2. slaves[g].con # c /\ slaves[g].con \in Clients
      BY <1>1, <2>2, <3>1, OpenIsConnection DEF OpenConnectionsAreServed, IInv
    <3>3. LET d == slaves[g].con
          IN Kept(echoed[d], slaves[g].buffer, got[d], missing[d], d)
      BY <3>1 DEF OnlyUntakenIsLost, Kept, IInv
    <3>4. QED
      BY <3>1, <3>2, <3>3
  <2>3. QED
    BY <2>1, <2>2
<1>4. QED
  BY <1>2, <1>3 DEF OnlyUntakenIsLost, Kept

\* A manager that starts over serves nobody.
LEMMA RestartKeeps ==
  ASSUME IInv, NEW S, Restart(S), UNCHANGED <<peer, sent, alive>>,
         full' \subseteq Clients, got' \in [Clients -> Nat], missing' \in [Clients -> Nat],
         \A c \in Clients : got'[c] <= sent[c],
         echoed' \in [Clients -> Seq(Unit)],
         \A c \in Clients : link[c] # "open" =>
           got'[c] = got[c] /\ echoed'[c] = echoed[c] /\ missing'[c] = missing[c]
  PROVE  IInv'
<1> USE DEF Restart
<1>1. DOMAIN slaves' = {} /\ OpenFds' = {}
  BY DEF OpenFds
<1>2. link' \in [Clients -> {"idle", "queued", "open", "closed"}]
       /\ \A c \in Clients : link'[c] # "open"
  BY DEF TypeOK, IInv
<1>3. TypeOK'
  <2>1. slaves' \in [DOMAIN slaves' -> Connection \cup {Left}]
    BY <1>1
  <2>2. QED
    BY <1>1, <1>2, <2>1 DEF TypeOK, IInv
<1>4. FreshInv'
  BY <1>2 DEF FreshInv, IInv, TypeOK
<1>5. QED
  BY <1>1, <1>2, <1>3, <1>4 DEF IInv, OpenConnectionsAreServed, EventsAreCurrent, ReportsInv,
                          OnlyUntakenIsLost

-----------------------------------------------------------------------------
\* The three ways in which handleClient leaves a connection.

\* Delete removes the entry and closes the connection.
LEMMA DeleteEffect ==
  ASSUME TypeOK, NEW f \in OpenFds, Delete(f)
  PROVE  /\ OpenFds' = OpenFds \ {f}
         /\ \A g \in OpenFds \ {f} : slaves'[g] = slaves[g]
         /\ slaves' \in [DOMAIN slaves' -> Connection \cup {Left}] /\ DOMAIN slaves' \subseteq Fds
         /\ link' = [link EXCEPT ![slaves[f].con] = "closed"]
         /\ link' \in [Clients -> {"idle", "queued", "open", "closed"}]
<1>1. /\ DOMAIN slaves' = DOMAIN slaves \ {f}
      /\ \A g \in DOMAIN slaves \ {f} : slaves'[g] = slaves[g]
  BY DEF Delete, Restrict
<1>2. slaves' \in [DOMAIN slaves' -> Connection \cup {Left}]
  <2>1. slaves' = [g \in DOMAIN slaves \ {f} |-> slaves[g]]
    BY DEF Delete, Restrict
  <2>2. QED
    BY <1>1, <2>1 DEF TypeOK
<1>3. QED
  BY <1>1, <1>2 DEF Delete, OpenFds, TypeOK

\* Close keeps the entry, which is no open connection any more.
LEMMA CloseEffect ==
  ASSUME TypeOK, NEW f \in OpenFds, Close(f)
  PROVE  /\ OpenFds' = OpenFds \ {f}
         /\ \A g \in OpenFds \ {f} : slaves'[g] = slaves[g]
         /\ slaves' \in [DOMAIN slaves' -> Connection \cup {Left}] /\ DOMAIN slaves' \subseteq Fds
         /\ link' = [link EXCEPT ![slaves[f].con] = "closed"]
         /\ link' \in [Clients -> {"idle", "queued", "open", "closed"}]
<1>1. /\ DOMAIN slaves' = DOMAIN slaves /\ slaves'[f] = Left
      /\ \A g \in DOMAIN slaves \ {f} : slaves'[g] = slaves[g]
  BY DEF Close, OpenFds, TypeOK
<1>2. slaves' \in [DOMAIN slaves' -> Connection \cup {Left}]
  BY DEF Close, TypeOK
<1>3. QED
  BY <1>1, <1>2 DEF Close, OpenFds, TypeOK, Left

\* Continue keeps the connection, with another buffer and event.
LEMMA ContinueEffect ==
  ASSUME TypeOK, NEW f \in OpenFds, NEW b \in Seq(Unit), NEW e \in Event, Continue(f, b, e)
  PROVE  /\ OpenFds' = OpenFds
         /\ \A g \in OpenFds \ {f} : slaves'[g] = slaves[g]
         /\ slaves' \in [DOMAIN slaves' -> Connection \cup {Left}] /\ DOMAIN slaves' \subseteq Fds
         /\ slaves'[f].con = slaves[f].con /\ slaves'[f].buffer = b
         /\ link' = link
<1> DEFINE kept == [slaves[f] EXCEPT !.buffer = b, !.event = e]
<1>1. slaves[f] \in Connection
  BY OpenIsConnection
<1>2. kept \in Connection /\ kept.con = slaves[f].con /\ kept.buffer = b
  BY <1>1 DEF Connection
<1>3. kept.opened
  BY <1>2 DEF Connection
<1> HIDE DEF kept
<1>4. slaves' = [slaves EXCEPT ![f] = kept]
  BY DEF Continue, kept
<1>5. /\ DOMAIN slaves' = DOMAIN slaves /\ slaves'[f] = kept
      /\ \A g \in DOMAIN slaves \ {f} : slaves'[g] = slaves[g]
  BY <1>4 DEF OpenFds, TypeOK
<1>6. slaves' \in [DOMAIN slaves' -> Connection \cup {Left}]
  BY <1>2, <1>4 DEF TypeOK
<1>7. QED
  BY <1>2, <1>3, <1>5, <1>6 DEF Continue, OpenFds, TypeOK

-----------------------------------------------------------------------------
\* Sequences of one length and with the same elements are equal.
LEMMA SeqEqual ==
  ASSUME NEW s \in Seq(Unit), NEW t \in Seq(Unit), Len(s) = Len(t),
         \A i \in 1 .. Len(s) : s[i] = t[i]
  PROVE  s = t
<1>1. s = [i \in 1 .. Len(s) |-> s[i]] /\ t = [i \in 1 .. Len(t) |-> t[i]]
  OBVIOUS
<1>2. QED
  BY <1>1

\* Sums of the lengths of what came back (x), is buffered (y) and is missing (z): a part
\* is no longer than the whole,
LEMMA LengthsInside ==
  ASSUME NEW x \in Nat, NEW y \in Nat, NEW z \in Nat
  PROVE  y <= x + y + z
  OBVIOUS

\* what u more units leave, when the buffer was not sent,
LEMMA LengthsOfShort ==
  ASSUME NEW x \in Nat, NEW y \in Nat, NEW z \in Nat, NEW u \in Nat
  PROVE  (x + y + z + u) - x - z = y + u
  OBVIOUS

\* and what is left when k units of the buffer without its "stop" were sent.
LEMMA LengthsOfStop ==
  ASSUME NEW x \in Nat, NEW y \in Nat, NEW z \in Nat, NEW k \in Int
  PROVE  (x + y + z) - (x + k) - (z + (y - 2 - k)) = 2
  OBVIOUS

\* What two streams are, one behind the other.
LEMMA ConcatLength ==
  ASSUME NEW s \in Seq(Unit), NEW t \in Seq(Unit)
  PROVE  s \o t \in Seq(Unit) /\ Len(s \o t) = Len(s) + Len(t)
  OBVIOUS

\* The units of two streams, one behind the other.
LEMMA ConcatUnits ==
  ASSUME NEW s \in Seq(Unit), NEW t \in Seq(Unit)
  PROVE  /\ s \o t \in Seq(Unit) /\ Len(s \o t) = Len(s) + Len(t)
         /\ Len(s) \in Nat /\ Len(t) \in Nat
         /\ \A i \in 1 .. Len(s) : (s \o t)[i] = s[i]
         /\ \A i \in Len(s) + 1 .. Len(s) + Len(t) : (s \o t)[i] = t[i - Len(s)]
<1>1. s \o t \in Seq(Unit) /\ Len(s \o t) = Len(s) + Len(t)
  OBVIOUS
<1>2. Len(s) \in Nat /\ Len(t) \in Nat
  OBVIOUS
<1>3. \A i \in 1 .. Len(s) : (s \o t)[i] = s[i]
  OBVIOUS
<1>4. \A i \in Len(s) + 1 .. Len(s) + Len(t) : (s \o t)[i] = t[i - Len(s)]
  BY <1>2
<1>5. QED
  BY <1>1, <1>2, <1>3, <1>4

\* Nothing changes a stream it is put before or behind.
LEMMA EmptyIsNeutral ==
  ASSUME NEW s \in Seq(Unit)
  PROVE  s \o <<>> = s /\ <<>> \o s = s
<1>1. <<>> \in Seq(Unit) /\ Len(<<>>) = 0 /\ Len(s) \in Nat
  OBVIOUS
<1>2. /\ s \o <<>> \in Seq(Unit) /\ Len(s \o <<>>) = Len(s)
      /\ \A i \in 1 .. Len(s) : (s \o <<>>)[i] = s[i]
  BY <1>1
<1>3. /\ <<>> \o s \in Seq(Unit) /\ Len(<<>> \o s) = Len(s)
      /\ \A i \in 1 .. Len(s) : (<<>> \o s)[i] = s[i]
  BY <1>1
<1>4. QED
  BY <1>2, <1>3, SeqEqual

\* A stream of length one is one unit.
LEMMA SingleUnit ==
  ASSUME NEW s \in Seq(Unit), Len(s) = 1
  PROVE  \E u \in Unit : s = <<u>>
<1>1. 1 \in 1 .. Len(s)
  OBVIOUS
<1>2. s[1] \in Unit
  <2>1. \A i \in 1 .. Len(s) : s[i] \in Unit
    OBVIOUS
  <2>2. QED
    BY <1>1, <2>1
<1>3. /\ <<s[1]>> \in Seq(Unit) /\ Len(<<s[1]>>) = 1
      /\ \A i \in 1 .. 1 : s[i] = <<s[1]>>[i]
  BY <1>2
<1>4. QED
  BY <1>2, <1>3, SeqEqual

\* Less than "stop" that is not empty is one unit.
LEMMA ShortIsSingle ==
  ASSUME NEW s \in Seq(Unit), NEW t \in Seq(Unit), Len(t) # 0, Len(s \o t) < 2
  PROVE  s \o t \in Seq(Unit) /\ Len(s \o t) = 1
  OBVIOUS

\* Three streams are joined in any order.
LEMMA ConcatIsAssociative ==
  ASSUME NEW s \in Seq(Unit), NEW t \in Seq(Unit), NEW u \in Seq(Unit)
  PROVE  s \o (t \o u) = (s \o t) \o u
<1> DEFINE l == s \o (t \o u)
           r == (s \o t) \o u
<1>1. /\ Len(s) \in Nat /\ Len(t) \in Nat /\ Len(u) \in Nat
      /\ l \in Seq(Unit) /\ r \in Seq(Unit)
      /\ Len(l) = Len(s) + Len(t) + Len(u) /\ Len(r) = Len(l)
  OBVIOUS
<1>2. ASSUME NEW i \in 1 .. Len(l) PROVE l[i] = r[i]
  <2>1. CASE i <= Len(s)
    BY <1>1, <2>1
  <2>2. CASE Len(s) < i /\ i <= Len(s) + Len(t)
    BY <1>1, <2>2
  <2>3. CASE Len(s) + Len(t) < i
    BY <1>1, <2>3
  <2>4. i \in Int
    BY <1>1
  <2>5. QED
    BY <1>1, <2>1, <2>2, <2>3, <2>4
<1>3. QED
  BY <1>1, <1>2, SeqEqual

\* What a part of a stream is.
LEMMA SliceOf ==
  ASSUME NEW s \in Seq(Unit), NEW m \in Nat, NEW n \in Nat, m < n, n <= Len(s)
  PROVE  /\ SubSeq(s, m + 1, n) \in Seq(Unit)
         /\ Len(SubSeq(s, m + 1, n)) = n - m
         /\ \A i \in 1 .. n - m : SubSeq(s, m + 1, n)[i] = s[m + i]
<1>1. SubSeq(s, m + 1, n) \in Seq(Unit)
  OBVIOUS
<1>2. Len(SubSeq(s, m + 1, n)) = n - m
  OBVIOUS
<1>3. \A i \in 1 .. n - m : SubSeq(s, m + 1, n)[i] = s[m + i]
  OBVIOUS
<1>4. QED
  BY <1>1, <1>2, <1>3

\* What recv returns continues what was received before.
LEMMA ChunkExtends ==
  ASSUME TypeOK, NEW c \in Clients, got[c] < sent[c]
  PROVE  /\ Chunk(c) \in Seq(Unit) /\ Len(Chunk(c)) \in Nat \ {0}
         /\ got[c] + Len(Chunk(c)) <= sent[c]
         /\ Chunk(c) = SubSeq(Sends[c], got[c] + 1, got[c] + Len(Chunk(c)))
<1> DEFINE S == Sends[c]
           last == IF got[c] + MaxRead < sent[c] THEN got[c] + MaxRead ELSE sent[c]
<1>1. S \in Seq(Unit) /\ got[c] \in Nat /\ sent[c] \in Nat /\ sent[c] <= Len(S)
  BY StreamAssumption DEF TypeOK
<1>2. last \in Nat /\ got[c] < last /\ last <= sent[c]
  BY <1>1, SizeAssumption
<1>3. Chunk(c) = SubSeq(S, got[c] + 1, last)
  BY DEF Chunk
<1> HIDE DEF S, last
<1>4. Chunk(c) \in Seq(Unit) /\ Len(Chunk(c)) = last - got[c]
  <2>1. last <= Len(S)
    BY <1>1, <1>2
  <2>2. QED
    BY <1>1, <1>2, <1>3, <2>1, SliceOf
<1>5. got[c] + Len(Chunk(c)) = last /\ Len(Chunk(c)) \in Nat \ {0}
  BY <1>1, <1>2, <1>4
<1>6. Chunk(c) = SubSeq(S, got[c] + 1, got[c] + Len(Chunk(c)))
  BY <1>3, <1>5
<1>7. QED
  BY <1>2, <1>4, <1>5, <1>6 DEF S

\* Without "stop" a buffer is shorter by its two units, and the same up to them.
LEMMA WithoutStopIs ==
  ASSUME NEW s \in Seq(Unit), NEW k \in 0 .. Len(WithoutStop(s))
  PROVE  /\ k \in 0 .. Len(s) /\ SubSeq(WithoutStop(s), 1, k) = SubSeq(s, 1, k)
         /\ Len(WithoutStop(s)) = IF EndsWithStop(s) THEN Len(s) - 2 ELSE Len(s)
<1>1. CASE EndsWithStop(s)
  <2> DEFINE t == WithoutStop(s)
             n == Len(s) - 2
  <2>1. Len(s) \in Nat /\ n \in 0 .. Len(s) /\ t = SubSeq(s, 1, n)
    BY <1>1 DEF EndsWithStop, WithoutStop
  <2> HIDE DEF t, n
  <2>2. t \in Seq(Unit) /\ Len(t) = n /\ \A i \in 1 .. n : t[i] = s[i]
    BY <2>1
  <2>3. k \in 0 .. n /\ k \in 0 .. Len(s)
    BY <2>1, <2>2 DEF t
  <2>4. /\ SubSeq(t, 1, k) \in Seq(Unit) /\ Len(SubSeq(t, 1, k)) = k
        /\ \A i \in 1 .. k : SubSeq(t, 1, k)[i] = t[i]
    BY <2>2, <2>3
  <2>5. /\ SubSeq(s, 1, k) \in Seq(Unit) /\ Len(SubSeq(s, 1, k)) = k
        /\ \A i \in 1 .. k : SubSeq(s, 1, k)[i] = s[i]
    BY <2>3
  <2>6. \A i \in 1 .. k : t[i] = s[i]
    BY <2>1, <2>2, <2>3
  <2>7. SubSeq(t, 1, k) = SubSeq(s, 1, k)
    BY <2>4, <2>5, <2>6, SeqEqual
  <2>8. Len(WithoutStop(s)) = Len(s) - 2
    BY <2>2 DEF t, n
  <2>9. QED
    BY <1>1, <2>3, <2>7, <2>8 DEF t
<1>2. CASE ~EndsWithStop(s)
  BY <1>2 DEF WithoutStop
<1>3. QED
  BY <1>1, <1>2

\* Nothing came back of nothing.
LEMMA KeptEmpty == ASSUME NEW c \in Clients PROVE Kept(<<>>, <<>>, 0, 0, c)
<1>1. Sends[c] \in Seq(Unit) /\ <<>> \o <<>> = <<>> /\ Len(<<>>) = 0
  BY StreamAssumption, EmptyIsNeutral
<1>2. SubSeq(Sends[c], 0 - 0 + 1, 0) = <<>>
  BY <1>1
<1>3. Without(<<>>, Sends[c], 0)
  <2> DEFINE h == [i \in 1 .. Len(<<>>) |-> 0]
             S == Sends[c]
  <2>1. h \in [1 .. Len(<<>>) -> 0 .. 0]
    OBVIOUS
  <2>2. 1 .. Len(<<>>) = {}
    BY <1>1
  <2>3. \A i, j \in 1 .. Len(<<>>) : <<>>[i] = S[i + h[i]] /\ (i <= j => h[i] <= h[j])
    BY <2>2
  <2> HIDE DEF h, S
  <2>4. Without(<<>>, S, 0)
    BY <2>1, <2>3 DEF Without
  <2>5. QED
    BY <2>4 DEF S
<1>4. QED
  BY <1>1, <1>2, <1>3 DEF Kept

\* What is read of a stream continues what is there of it with the same units missing.
LEMMA WithoutRead ==
  ASSUME NEW S \in Seq(Unit), NEW w \in Seq(Unit), NEW t \in Seq(Unit),
         NEW m \in Nat, NEW n \in Nat, NEW l \in Nat, n < l, l <= Len(S),
         t = SubSeq(S, n + 1, l), Len(w) + m = n, Without(w, S, m)
  PROVE  Without(w \o t, S, m)
<1> DEFINE v == w \o t
<1>1. Len(t) = l - n /\ \A i \in 1 .. l - n : t[i] = S[n + i]
  BY SliceOf
<1>2. Len(w) \in Nat /\ Len(S) \in Nat
  OBVIOUS
<1>3. /\ v \in Seq(Unit) /\ Len(v) = Len(w) + (l - n)
      /\ \A i \in 1 .. Len(w) : v[i] = w[i]
      /\ \A i \in Len(w) + 1 .. Len(w) + (l - n) : v[i] = t[i - Len(w)]
  BY <1>1, ConcatUnits
<1> HIDE DEF v
<1>4. Len(v) + m = l /\ Len(v) \in Nat
  <2>1. PICK x \in Nat, y \in Nat : x = Len(w) /\ y = Len(v) /\ y = x + (l - n) /\ x + m = n
    <3>1. Len(v) \in Nat
      BY <1>3
    <3>2. QED
      BY <1>2, <1>3, <3>1
  <2>2. y + m = l
    BY <2>1, SMTT(60)
  <2>3. QED
    BY <2>1, <2>2
<1>5. PICK h \in [1 .. Len(w) -> 0 .. m] :
        \A i, j \in 1 .. Len(w) : w[i] = S[i + h[i]] /\ (i <= j => h[i] <= h[j])
  BY DEF Without
<1> DEFINE k == [i \in 1 .. Len(v) |-> IF i <= Len(w) THEN h[i] ELSE m]
<1>6. \A i \in 1 .. Len(v) : i \in Nat /\ (i <= Len(w) => i \in 1 .. Len(w) /\ h[i] \in 0 .. m)
  BY <1>2, <1>4
<1>7. k \in [1 .. Len(v) -> 0 .. m]
  BY <1>6
<1>8. /\ \A i \in 1 .. Len(w) : i \in 1 .. Len(v) => k[i] = h[i]
      /\ \A i \in 1 .. Len(v) : i > Len(w) => k[i] = m
  BY <1>2, <1>6
<1> HIDE DEF k
<1>9. ASSUME NEW i \in 1 .. Len(v) PROVE v[i] = S[i + k[i]]
  <2>1. CASE i <= Len(w)
    <3>1. i \in 1 .. Len(w)
      BY <1>6, <2>1
    <3>2. QED
      BY <1>3, <1>5, <1>8, <3>1
  <2>2. CASE i > Len(w)
    <3>1. /\ i \in Len(w) + 1 .. Len(w) + (l - n) /\ i - Len(w) \in 1 .. l - n
          /\ n + (i - Len(w)) = i + m
      <4>1. PICK x \in Nat : x = Len(w) /\ Len(v) = x + (l - n) /\ x + m = n
        BY <1>2, <1>3
      <4>2. i \in Nat /\ i > x /\ i <= x + (l - n)
        BY <1>4, <1>6, <2>2, <4>1
      <4>3. /\ i \in x + 1 .. x + (l - n) /\ i - x \in 1 .. l - n
            /\ n + (i - x) = i + m
        BY <4>1, <4>2, SMTT(60)
      <4>4. QED
        BY <4>1, <4>3
    <3>2. v[i] = t[i - Len(w)] /\ t[i - Len(w)] = S[n + (i - Len(w))]
      BY <1>1, <1>3, <3>1
    <3>3. k[i] = m
      BY <1>8, <2>2
    <3>4. QED
      BY <3>1, <3>2, <3>3
  <2>3. QED
    BY <1>2, <1>6, <2>1, <2>2
<1>10. ASSUME NEW i \in 1 .. Len(v), NEW j \in 1 .. Len(v), i <= j PROVE k[i] <= k[j]
  <2>1. CASE j <= Len(w)
    <3>1. i \in 1 .. Len(w) /\ j \in 1 .. Len(w)
      BY <1>2, <1>6, <1>10, <2>1
    <3>2. QED
      BY <1>5, <1>8, <1>10, <3>1
  <2>2. CASE j > Len(w)
    <3>1. k[j] = m /\ k[i] \in 0 .. m
      BY <1>7, <1>8, <2>2
    <3>2. QED
      BY <3>1
  <2>3. QED
    BY <1>2, <1>6, <2>1, <2>2
<1>11. QED
  BY <1>7, <1>9, <1>10 DEF Without, v

\* Two parts of a stream of which the second begins where the first ends are one.
LEMMA SlicesJoin ==
  ASSUME NEW S \in Seq(Unit), NEW o \in Nat, NEW n \in Nat, NEW l \in Nat,
         o <= n, n < l, l <= Len(S)
  PROVE  SubSeq(S, o + 1, n) \o SubSeq(S, n + 1, l) = SubSeq(S, o + 1, l)
<1> DEFINE b == SubSeq(S, o + 1, n)
           t == SubSeq(S, n + 1, l)
           x == SubSeq(S, o + 1, l)
<1>1. Len(S) \in Nat /\ n <= Len(S) /\ o < l
  OBVIOUS
<1>2. t \in Seq(Unit) /\ Len(t) = l - n /\ \A i \in 1 .. l - n : t[i] = S[n + i]
  BY SliceOf
<1>3. x \in Seq(Unit) /\ Len(x) = l - o /\ \A i \in 1 .. l - o : x[i] = S[o + i]
  BY <1>1, SliceOf
<1>4. CASE o = n
  <2>1. b = <<>>
    BY <1>4
  <2>2. QED
    BY <1>2, <1>4, <2>1, EmptyIsNeutral
<1>5. CASE o < n
  <2>1. b \in Seq(Unit) /\ Len(b) = n - o /\ \A i \in 1 .. n - o : b[i] = S[o + i]
    BY <1>1, <1>5, SliceOf
  <2> DEFINE v == b \o t
  <2> HIDE DEF b, t
  <2>2. /\ v \in Seq(Unit) /\ Len(v) = Len(b) + Len(t)
        /\ \A i \in 1 .. Len(b) : v[i] = b[i]
        /\ \A i \in Len(b) + 1 .. Len(b) + Len(t) : v[i] = t[i - Len(b)]
    BY <1>2, <2>1, ConcatUnits
  <2> HIDE DEF v, x
  <2>3. Len(v) = l - o
    BY <1>2, <2>1, <2>2
  <2>4. ASSUME NEW i \in 1 .. l - o PROVE v[i] = S[o + i]
    <3>1. i \in Int
      OBVIOUS
    <3>2. CASE i <= n - o
      <4>1. i \in 1 .. n - o /\ i \in 1 .. Len(b)
        BY <2>1, <3>1, <3>2
      <4>2. QED
        BY <2>1, <2>2, <4>1
    <3>3. CASE i > n - o
      <4>1. /\ i \in Len(b) + 1 .. Len(b) + Len(t) /\ i - Len(b) = i - (n - o)
            /\ i - (n - o) \in 1 .. l - n /\ n + (i - (n - o)) = o + i
        BY <1>2, <2>1, <3>1, <3>3
      <4>2. v[i] = t[i - (n - o)]
        BY <2>2, <4>1
      <4>3. t[i - (n - o)] = S[n + (i - (n - o))]
        BY <1>2, <4>1
      <4>4. QED
        BY <4>1, <4>2, <4>3
    <3>4. QED
      BY <3>1, <3>2, <3>3
  <2>5. v = x
    BY <1>3, <2>2, <2>3, <2>4, SeqEqual
  <2>6. QED
    BY <2>5 DEF v, x, b, t
<1>6. QED
  BY <1>4, <1>5

\* What is received goes behind what is buffered.
LEMMA KeptRead ==
  ASSUME NEW c \in Clients, NEW e \in Seq(Unit), NEW b \in Seq(Unit), NEW n \in Nat,
         NEW m \in Nat, Kept(e, b, n, m, c),
         NEW l \in Nat, n < l, l <= Len(Sends[c])
  PROVE  Kept(e, b \o SubSeq(Sends[c], n + 1, l), l, m, c)
<1>1. PICK S \in Seq(Unit) : S = Sends[c]
  BY StreamAssumption
<1>2. PICK t \in Seq(Unit) : t = SubSeq(S, n + 1, l) /\ Len(t) = l - n
  BY <1>1, SliceOf
<1>3. PICK w \in Seq(Unit) : w = e \o b /\ Len(w) = Len(e) + Len(b)
  BY ConcatUnits
<1>4. /\ Without(w, S, m) /\ Len(e) + Len(b) + m = n /\ b = SubSeq(S, n - Len(b) + 1, n)
      /\ Len(e) \in Nat /\ Len(b) \in Nat
  BY <1>1, <1>3, ConcatUnits DEF Kept
<1>5. Len(w) + m = n /\ Len(b) <= n
  BY <1>3, <1>4
<1>6. Without(w \o t, S, m)
  BY <1>1, <1>2, <1>4, <1>5, WithoutRead
<1>7. w \o t = e \o (b \o t)
  <2>1. e \o (b \o t) = (e \o b) \o t
    BY ConcatIsAssociative, Zenon
  <2>2. QED
    BY <1>3, <2>1
<1>8. b \o t = SubSeq(S, l - Len(b \o t) + 1, l)
  <2>1. PICK o \in Nat : o = n - Len(b)
    <3>1. n - Len(b) \in Nat
      BY <1>4, <1>5
    <3>2. QED
      BY <3>1
  <2>2. o <= n /\ b = SubSeq(S, o + 1, n)
    BY <1>4, <2>1
  <2>3. b \o t = SubSeq(S, o + 1, l)
    BY <1>1, <1>2, <2>2, SlicesJoin
  <2>4. Len(b \o t) = Len(b) + (l - n) /\ o = l - (Len(b) + (l - n))
    BY <1>2, <1>4, <2>1, ConcatUnits
  <2>5. QED
    BY <2>3, <2>4
<1>9. Len(e) + Len(b \o t) + m = l
  <2>1. Len(b \o t) = Len(b) + (l - n)
    BY <1>2, ConcatUnits
  <2>2. PICK x \in Nat, y \in Nat : x = Len(e) /\ y = Len(b) /\ x + y + m = n
    BY <1>4
  <2>3. x + (y + (l - n)) + m = l
    BY <2>2, SMTT(60)
  <2>4. QED
    BY <2>1, <2>2, <2>3
<1>10. QED
  BY <1>1, <1>2, <1>6, <1>7, <1>8, <1>9 DEF Kept

\* What send takes of the buffer stays where it was, and the rest is missing.
LEMMA KeptWrite ==
  ASSUME NEW c \in Clients, NEW e \in Seq(Unit), NEW b \in Seq(Unit), NEW n \in Nat,
         NEW m \in Nat, Kept(e, b, n, m, c), NEW k \in 0 .. Len(b)
  PROVE  Kept(e \o SubSeq(b, 1, k), <<>>, n, m + (Len(b) - k), c)
<1> DEFINE S == Sends[c]
           p == SubSeq(b, 1, k)
           w == e \o b
           v == e \o p
           q == m + (Len(b) - k)
<1>1. /\ S \in Seq(Unit) /\ Len(b) \in Nat /\ Len(e) \in Nat /\ k \in Nat /\ q \in Nat /\ m <= q
  BY StreamAssumption
<1>2. p \in Seq(Unit) /\ Len(p) = k /\ \A i \in 1 .. k : p[i] = b[i]
  OBVIOUS
<1>3. Without(w, S, m) /\ Len(e) + Len(b) + m = n
  BY DEF Kept
<1> HIDE DEF p
<1>4. /\ w \in Seq(Unit) /\ Len(w) = Len(e) + Len(b)
      /\ \A i \in 1 .. Len(e) : w[i] = e[i]
      /\ \A i \in Len(e) + 1 .. Len(e) + Len(b) : w[i] = b[i - Len(e)]
  OBVIOUS
<1>5. /\ v \in Seq(Unit) /\ Len(v) = Len(e) + k
      /\ \A i \in 1 .. Len(e) : v[i] = e[i]
      /\ \A i \in Len(e) + 1 .. Len(e) + k : v[i] = p[i - Len(e)]
  BY <1>2, ConcatUnits
<1> HIDE DEF v, w, S
<1>6. ASSUME NEW i \in 1 .. Len(v) PROVE i \in 1 .. Len(w) /\ v[i] = w[i]
  <2>1. i \in 1 .. Len(w)
    BY <1>1, <1>4, <1>5
  <2>2. CASE i <= Len(e)
    <3>1. i \in 1 .. Len(e)
      BY <1>1, <1>5, <2>2
    <3>2. QED
      BY <1>4, <1>5, <2>1, <3>1
  <2>3. CASE i > Len(e)
    <3>1. /\ i \in Len(e) + 1 .. Len(e) + k /\ i \in Len(e) + 1 .. Len(e) + Len(b)
          /\ i - Len(e) \in 1 .. k
      BY <1>1, <1>5, <2>3
    <3>2. QED
      BY <1>2, <1>4, <1>5, <2>1, <3>1
  <2>4. QED
    BY <1>1, <1>5, <2>2, <2>3
<1>7. Without(v, S, q)
  <2>1. PICK h \in [1 .. Len(w) -> 0 .. m] :
          \A i, j \in 1 .. Len(w) : w[i] = S[i + h[i]] /\ (i <= j => h[i] <= h[j])
    BY <1>3 DEF Without
  <2> DEFINE g == [i \in 1 .. Len(v) |-> h[i]]
  <2>2. g \in [1 .. Len(v) -> 0 .. q]
    <3>1. \A i \in 1 .. Len(v) : h[i] \in 0 .. q
      <4>1. \A i \in 1 .. Len(v) : h[i] \in 0 .. m
        BY <1>6
      <4>2. 0 .. m \subseteq 0 .. q
        BY <1>1
      <4>3. QED
        BY <4>1, <4>2
    <3>2. QED
      BY <3>1
  <2>3. \A i, j \in 1 .. Len(v) : v[i] = S[i + g[i]] /\ (i <= j => g[i] <= g[j])
    BY <1>6, <2>1
  <2>4. QED
    BY <2>2, <2>3 DEF Without
<1>8. v \o <<>> = v
  BY <1>5, EmptyIsNeutral
<1>9. Len(v) + Len(<<>>) + q = n /\ Len(<<>>) = 0
  BY <1>1, <1>3, <1>5
<1>10. SubSeq(S, n - Len(<<>>) + 1, n) = <<>>
  <2>1. n - Len(<<>>) + 1 = n + 1
    BY <1>9
  <2>2. SubSeq(S, n + 1, n) = <<>>
    BY <1>1 DEF S
  <2>3. QED
    BY <2>1, <2>2
<1>11. QED
  BY <1>7, <1>8, <1>9, <1>10 DEF Kept, v, S, p

-----------------------------------------------------------------------------
\* One lemma per group of actions.

\* The report being handled is of an open connection that still needs it.
LEMMA ReportedConnection ==
  ASSUME IInv, NEW r \in Report, Handled(r)
  PROVE  /\ r.fd \in OpenFds /\ slaves[r.fd].con \in Clients
         /\ slaves[r.fd].buffer \in Seq(Unit) /\ slaves[r.fd].event \in Event
         /\ link[slaves[r.fd].con] = "open"
         /\ \/ peer[slaves[r.fd].con] = "reset"
            \/ ~r.broken /\ ReadyFor(slaves[r.fd])
<1>1. r.fd \in OpenFds
  BY DEF IInv, EventsAreCurrent, Handled
<1>2. QED
  BY <1>1, OpenIsConnection DEF IInv, EventsAreCurrent, Handled, OpenConnectionsAreServed

\* An error event, and the reads and writes that throw or find the end of the
\* stream: nothing is read or echoed.
LEMMA EndStep ==
  ASSUME IInv, NEW r \in Report, HandleBroken(r) \/ ReadNothing(r) \/ WriteFails(r)
  PROVE  IInv'
<1> DEFINE f == r.fd
           c == slaves[f].con
<1>1. Handled(r) /\ Others(r) /\ (Delete(f) \/ Close(f))
       /\ UNCHANGED <<peer, sent, full, got, echoed, missing, accepting, alive>>
  BY DEF HandleBroken, ReadNothing, WriteFails, Reading, Writing
<1>2. f \in OpenFds /\ c \in Clients /\ TypeOK
  BY <1>1, ReportedConnection DEF IInv
<1>3. /\ OpenFds' = OpenFds \ {f}
      /\ \A g \in OpenFds \ {f} : slaves'[g] = slaves[g]
      /\ slaves' \in [DOMAIN slaves' -> Connection \cup {Left}] /\ DOMAIN slaves' \subseteq Fds
      /\ link' = [link EXCEPT ![c] = "closed"]
      /\ link' \in [Clients -> {"idle", "queued", "open", "closed"}]
  BY <1>1, <1>2, DeleteEffect, CloseEffect
<1>4. Handles(r)
  BY <1>1, <1>2, <1>3 DEF Handles, Handled, Others
<1>5. OpenConnectionsAreServed' /\ EventsAreCurrent' /\ ReportsInv'
  BY <1>4, HandlesKeeps
<1>6. OnlyUntakenIsLost' /\ FreshInv'
  BY <1>1, <1>3, <1>4, HandlesKeepsStreams
<1>7. TypeOK'
  BY <1>1, <1>2, <1>3 DEF TypeOK, Others
<1>8. QED
  BY <1>5, <1>6, <1>7 DEF IInv

\* A read appends to the buffer what it adds to the received.
LEMMA ReadStep ==
  ASSUME IInv, NEW r \in Report, Read(r)
  PROVE  IInv'
<1> DEFINE f == r.fd
           c == slaves[f].con
           b == slaves[f].buffer \o Chunk(c)
<1>1. /\ Handled(r) /\ got[c] < sent[c]
      /\ got' = [got EXCEPT ![c] = @ + Len(Chunk(c))]
      /\ UNCHANGED <<peer, sent, full, echoed, missing, alive>>
  BY DEF Read, Reading
<1>2. f \in OpenFds /\ c \in Clients /\ slaves[f].buffer \in Seq(Unit) /\ TypeOK
  BY <1>1, ReportedConnection DEF IInv
<1>3. /\ Chunk(c) \in Seq(Unit) /\ Len(Chunk(c)) \in Nat
      /\ got[c] + Len(Chunk(c)) <= sent[c]
      /\ Chunk(c) = SubSeq(Sends[c], got[c] + 1, got[c] + Len(Chunk(c)))
      /\ Len(Chunk(c)) > 0
  BY <1>1, <1>2, ChunkExtends
<1>4. b \in Seq(Unit)
  BY <1>2, <1>3
<1>5. /\ got' \in [Clients -> Nat] /\ got'[c] = got[c] + Len(Chunk(c))
      /\ \A d \in Clients \ {c} : got'[d] = got[d]
      /\ \A d \in Clients : got'[d] <= sent[d]
  <2>1. PICK l \in Nat : l = got[c] + Len(Chunk(c)) /\ l <= sent[c]
    BY <1>2, <1>3 DEF TypeOK
  <2>2. got' = [got EXCEPT ![c] = l]
    BY <1>1, <2>1
  <2>3. QED
    BY <1>2, <2>1, <2>2 DEF TypeOK
<1>6. \/ Restart({})
      \/ /\ Others(r) /\ UNCHANGED accepting
         /\ \/ Delete(f)
            \/ \E e \in Event : Continue(f, b, e)
  BY DEF Read, Event
<1>7. CASE Restart({})
  <2>1. link[c] = "open"
    BY <1>1, ReportedConnection
  <2>2. \A d \in Clients : link[d] # "open" =>
          got'[d] = got[d] /\ echoed'[d] = echoed[d] /\ missing'[d] = missing[d]
    BY <1>1, <1>5, <2>1
  <2>3. QED
    BY <1>1, <1>2, <1>5, <1>7, <2>2, RestartKeeps DEF TypeOK
<1>8. CASE Others(r) /\ UNCHANGED accepting /\ Delete(f)
  <2>1. /\ OpenFds' = OpenFds \ {f}
        /\ \A g \in OpenFds \ {f} : slaves'[g] = slaves[g]
        /\ slaves' \in [DOMAIN slaves' -> Connection \cup {Left}] /\ DOMAIN slaves' \subseteq Fds
        /\ link' = [link EXCEPT ![c] = "closed"]
        /\ link' \in [Clients -> {"idle", "queued", "open", "closed"}]
    BY <1>2, <1>8, DeleteEffect
  <2>2. Handles(r)
    BY <1>1, <1>5, <1>8, <2>1 DEF Handles, Handled, Others
  <2>3. OnlyUntakenIsLost' /\ FreshInv'
    BY <1>1, <2>1, <2>2, HandlesKeepsStreams
  <2>4. TypeOK'
    BY <1>1, <1>2, <1>5, <1>8, <2>1 DEF TypeOK, Others
  <2>5. QED
    BY <2>2, <2>3, <2>4, HandlesKeeps DEF IInv
<1>9. CASE Others(r) /\ UNCHANGED accepting /\ \E e \in Event : Continue(f, b, e)
  <2>1. /\ OpenFds' = OpenFds
        /\ \A g \in OpenFds \ {f} : slaves'[g] = slaves[g]
        /\ slaves' \in [DOMAIN slaves' -> Connection \cup {Left}] /\ DOMAIN slaves' \subseteq Fds
        /\ slaves'[f].con = c /\ slaves'[f].buffer = b /\ link' = link
    BY <1>2, <1>4, <1>9, ContinueEffect
  <2>2. Handles(r)
    BY <1>1, <1>5, <1>9, <2>1 DEF Handles, Handled, Others
  <2>3. Kept(echoed'[c], slaves'[f].buffer, got'[c], missing'[c], c)
    <3>1. /\ echoed[c] \in Seq(Unit) /\ got[c] \in Nat /\ missing[c] \in Nat
          /\ Kept(echoed[c], slaves[f].buffer, got[c], missing[c], c)
      BY <1>2 DEF IInv, OnlyUntakenIsLost, Kept, TypeOK
    <3>2. got'[c] \in Nat /\ got[c] < got'[c] /\ got'[c] <= Len(Sends[c])
      <4>1. Len(Sends[c]) \in Nat /\ sent[c] \in Nat /\ sent[c] <= Len(Sends[c])
        BY <1>2, StreamAssumption DEF TypeOK
      <4>2. QED
        BY <1>2, <1>3, <1>5, <3>1, <4>1
    <3>3. Kept(echoed[c], slaves[f].buffer \o SubSeq(Sends[c], got[c] + 1, got'[c]),
               got'[c], missing[c], c)
      BY <1>2, <3>1, <3>2, KeptRead
    <3>4. QED
      BY <1>1, <1>3, <1>5, <2>1, <3>3
  <2>4. OnlyUntakenIsLost' /\ FreshInv'
    BY <1>1, <2>2, <2>3, HandlesKeepsStreams
  <2>5. TypeOK'
    BY <1>1, <1>2, <1>5, <1>9, <2>1 DEF TypeOK, Others
  <2>6. QED
    BY <2>2, <2>4, <2>5, HandlesKeeps DEF IInv
<1>10. QED
  BY <1>6, <1>7, <1>8, <1>9

\* What send does for the client: it takes k units of the buffer.
LEMMA Sending ==
  ASSUME IInv, NEW r \in Report, Write(r)
  PROVE  LET c == slaves[r.fd].con
             b == slaves[r.fd].buffer
         IN /\ r.fd \in OpenFds /\ c \in Clients /\ b \in Seq(Unit) /\ Handled(r)
            /\ echoed' \in [Clients -> Seq(Unit)] /\ missing' \in [Clients -> Nat]
            /\ \A d \in Clients \ {c} : echoed'[d] = echoed[d] /\ missing'[d] = missing[d]
            /\ \E k \in 0 .. Len(b) :
                 /\ echoed'[c] = echoed[c] \o SubSeq(b, 1, k)
                 /\ EndsWithStop(b) => missing'[c] = missing[c] + (Len(b) - 2 - k)
                 /\ ~EndsWithStop(b) => missing'[c] = missing[c] + (Len(b) - k)
            /\ full' \subseteq full \cup {c} /\ full' \subseteq Clients
            /\ UNCHANGED <<peer, sent, got, alive>>
            /\ \/ Restart({})
               \/ /\ Others(r) /\ UNCHANGED accepting
                  /\ \/ EndsWithStop(b) /\ Close(r.fd)
                     \/ ~EndsWithStop(b) /\ Continue(r.fd, <<>>, "READ_EVENT")
<1> DEFINE c == slaves[r.fd].con
           b == slaves[r.fd].buffer
           out == WithoutStop(b)
<1>1. r.fd \in OpenFds /\ c \in Clients /\ b \in Seq(Unit) /\ Handled(r)
  BY ReportedConnection DEF Write, Writing
<1>2. out \in Seq(Unit) /\ Len(out) \in Nat
  BY <1>1 DEF WithoutStop
<1> HIDE DEF out
<1>3. PICK n \in Taken(out) :
        /\ echoed' = [echoed EXCEPT ![c] = @ \o SubSeq(out, 1, n)]
        /\ missing' = [missing EXCEPT ![c] = @ + (Len(out) - n)]
        /\ full' \in {full \cup {c}} \cup IF n < Len(out) THEN {} ELSE {full}
  BY DEF Write, out
<1>4. n \in 0 .. Len(out)
  BY <1>2 DEF Taken
<1>5. /\ n \in 0 .. Len(b) /\ SubSeq(out, 1, n) = SubSeq(b, 1, n)
      /\ Len(out) = IF EndsWithStop(b) THEN Len(b) - 2 ELSE Len(b)
  BY <1>1, <1>4, WithoutStopIs DEF out
<1>6. /\ echoed' \in [Clients -> Seq(Unit)]
      /\ \A d \in Clients \ {c} : echoed'[d] = echoed[d]
      /\ echoed'[c] = echoed[c] \o SubSeq(b, 1, n)
  <2>1. echoed \in [Clients -> Seq(Unit)]
    BY DEF IInv, TypeOK
  <2>2. echoed[c] \o SubSeq(b, 1, n) \in Seq(Unit)
    <3>1. SubSeq(b, 1, n) \in Seq(Unit) /\ echoed[c] \in Seq(Unit)
      BY <1>1, <1>5, <2>1
    <3>2. QED
      BY <3>1, ConcatLength
  <2>3. QED
    BY <1>1, <1>3, <1>5, <2>1, <2>2
<1>7. /\ missing' \in [Clients -> Nat]
      /\ \A d \in Clients \ {c} : missing'[d] = missing[d]
      /\ missing'[c] = missing[c] + (Len(out) - n)
  <2>1. missing \in [Clients -> Nat] /\ Len(out) - n \in Nat
    BY <1>2, <1>4 DEF IInv, TypeOK
  <2>2. QED
    BY <1>1, <1>3, <2>1
<1>8. full' \subseteq full \cup {c} /\ full' \subseteq Clients
  <2>1. full' \in {full, full \cup {c}}
    BY <1>3
  <2>2. QED
    BY <1>1, <2>1 DEF IInv, TypeOK
<1>9. /\ UNCHANGED <<peer, sent, got, alive>>
      /\ \/ Restart({})
         \/ /\ Others(r) /\ UNCHANGED accepting
            /\ \/ EndsWithStop(b) /\ Close(r.fd)
               \/ ~EndsWithStop(b) /\ Continue(r.fd, <<>>, "READ_EVENT")
  BY DEF Write
<1>10. /\ EndsWithStop(b) => missing'[c] = missing[c] + (Len(b) - 2 - n)
       /\ ~EndsWithStop(b) => missing'[c] = missing[c] + (Len(b) - n)
  BY <1>5, <1>7
<1>11. QED
  BY <1>1, <1>5, <1>6, <1>7, <1>8, <1>9, <1>10

\* A write moves the buffer to what was echoed.
LEMMA WriteStep ==
  ASSUME IInv, NEW r \in Report, Write(r)
  PROVE  IInv'
<1> DEFINE f == r.fd
           c == slaves[f].con
           b == slaves[f].buffer
<1>1. /\ f \in OpenFds /\ c \in Clients /\ b \in Seq(Unit) /\ Handled(r) /\ TypeOK
      /\ echoed' \in [Clients -> Seq(Unit)] /\ missing' \in [Clients -> Nat]
      /\ \A d \in Clients \ {c} : echoed'[d] = echoed[d] /\ missing'[d] = missing[d]
      /\ full' \subseteq full \cup {c} /\ full' \subseteq Clients
      /\ UNCHANGED <<peer, sent, got, alive>>
  BY Sending DEF IInv
<1>2. CASE Restart({})
  <2>1. link[c] = "open"
    BY <1>1, ReportedConnection
  <2>2. \A d \in Clients : link[d] # "open" =>
          got'[d] = got[d] /\ echoed'[d] = echoed[d] /\ missing'[d] = missing[d]
    BY <1>1, <2>1
  <2>3. QED
    BY <1>1, <1>2, <2>2, RestartKeeps DEF TypeOK
<1>3. CASE Others(r) /\ UNCHANGED accepting /\ Close(f)
  <2>1. /\ OpenFds' = OpenFds \ {f}
        /\ \A g \in OpenFds \ {f} : slaves'[g] = slaves[g]
        /\ slaves' \in [DOMAIN slaves' -> Connection \cup {Left}] /\ DOMAIN slaves' \subseteq Fds
        /\ link' = [link EXCEPT ![c] = "closed"]
        /\ link' \in [Clients -> {"idle", "queued", "open", "closed"}]
    BY <1>1, <1>3, CloseEffect
  <2>2. Handles(r)
    BY <1>1, <1>3, <2>1 DEF Handles, Handled, Others
  <2>3. OnlyUntakenIsLost' /\ FreshInv'
    BY <1>1, <2>1, <2>2, HandlesKeepsStreams
  <2>4. TypeOK'
    BY <1>1, <1>3, <2>1 DEF TypeOK, Others
  <2>5. QED
    BY <2>2, <2>3, <2>4, HandlesKeeps DEF IInv
<1>4. CASE Others(r) /\ UNCHANGED accepting /\ ~EndsWithStop(b) /\ Continue(f, <<>>, "READ_EVENT")
  <2>1. /\ OpenFds' = OpenFds
        /\ \A g \in OpenFds \ {f} : slaves'[g] = slaves[g]
        /\ slaves' \in [DOMAIN slaves' -> Connection \cup {Left}] /\ DOMAIN slaves' \subseteq Fds
        /\ slaves'[f].con = c /\ slaves'[f].buffer = <<>> /\ link' = link
    <3>1. <<>> \in Seq(Unit) /\ "READ_EVENT" \in Event
      BY DEF Event
    <3>2. QED
      BY <1>1, <1>4, <3>1, ContinueEffect
  <2>2. Handles(r)
    BY <1>1, <1>4, <2>1 DEF Handles, Handled, Others
  <2>3. Kept(echoed'[c], slaves'[f].buffer, got'[c], missing'[c], c)
    <3>1. /\ echoed[c] \in Seq(Unit) /\ got[c] \in Nat /\ missing[c] \in Nat
          /\ Kept(echoed[c], b, got[c], missing[c], c)
      BY <1>1 DEF IInv, OnlyUntakenIsLost, Kept, TypeOK
    <3>2. PICK k \in 0 .. Len(b) : /\ echoed'[c] = echoed[c] \o SubSeq(b, 1, k)
                                   /\ missing'[c] = missing[c] + (Len(b) - k)
      BY <1>4, Sending
    <3>3. Kept(echoed[c] \o SubSeq(b, 1, k), <<>>, got[c], missing[c] + (Len(b) - k), c)
      BY <1>1, <3>1, KeptWrite
    <3>4. QED
      BY <1>1, <2>1, <3>2, <3>3
  <2>4. OnlyUntakenIsLost' /\ FreshInv'
    BY <1>1, <2>2, <2>3, HandlesKeepsStreams
  <2>5. TypeOK'
    BY <1>1, <1>4, <2>1 DEF TypeOK, Others
  <2>6. QED
    BY <2>2, <2>4, <2>5, HandlesKeeps DEF IInv
<1>5. QED
  BY <1>2, <1>3, <1>4, Sending

\* An accepted connection takes a descriptor that no open connection has.
LEMMA AcceptStep ==
  ASSUME IInv, NEW c \in Clients, NEW fd \in Fds, Accept(c, fd)
  PROVE  IInv'
<1> DEFINE new == [opened |-> TRUE, con |-> c, buffer |-> <<>>, event |-> "READ_EVENT"]
<1> USE DEF IInv
<1>1. /\ link[c] = "queued" /\ fd \notin OpenFds
      /\ UNCHANGED <<peer, sent, full, got, echoed, missing, alive>>
  BY DEF Accept, FreeFds
<1>2. CASE Restart({c})
  BY <1>1, <1>2, RestartKeeps DEF TypeOK
<1>3. CASE /\ slaves' = [f \in DOMAIN slaves \cup {fd} |-> IF f = fd THEN new ELSE slaves[f]]
           /\ link' = [link EXCEPT ![c] = "open"]
           /\ UNCHANGED <<todo, accepting>>
  <2>1. new \in Connection /\ new.con = c /\ new.opened /\ new.buffer = <<>>
    <3>1. <<>> \in Seq(Unit)
      OBVIOUS
    <3>2. QED
      BY <3>1 DEF Connection, Event
  <2> HIDE DEF new
  <2>2. /\ DOMAIN slaves' = DOMAIN slaves \cup {fd} /\ slaves'[fd] = new
        /\ \A g \in DOMAIN slaves \ {fd} : slaves'[g] = slaves[g]
    BY <1>3
  <2>3. slaves' \in [DOMAIN slaves' -> Connection \cup {Left}]
    BY <1>3, <2>1, <2>2 DEF TypeOK
  <2>4. OpenFds' = OpenFds \cup {fd} /\ \A g \in OpenFds : g # fd /\ slaves'[g] = slaves[g]
    BY <1>1, <2>1, <2>2 DEF OpenFds
  <2>5. \A g \in OpenFds : slaves[g].con \in Clients /\ slaves[g].con # c
    BY <1>1, OpenIsConnection DEF OpenConnectionsAreServed
  <2>6. link'[c] = "open" /\ \A d \in Clients \ {c} : link'[d] = link[d]
    BY <1>3 DEF TypeOK
  <2>7. TypeOK'
    BY <1>1, <1>3, <2>2, <2>3 DEF TypeOK
  <2>8. OpenConnectionsAreServed'
    <3>1. \A d \in Clients : link'[d] = "open" => \E g \in OpenFds' : slaves'[g].con = d
      BY <2>1, <2>2, <2>4, <2>6 DEF OpenConnectionsAreServed
    <3>2. \A g \in OpenFds' : link'[slaves'[g].con] = "open"
      BY <2>1, <2>2, <2>4, <2>5, <2>6 DEF OpenConnectionsAreServed
    <3>3. \A g, h \in OpenFds' : slaves'[g].con = slaves'[h].con => g = h
      BY <2>1, <2>2, <2>4, <2>5 DEF OpenConnectionsAreServed
    <3>4. QED
      BY <3>1, <3>2, <3>3 DEF OpenConnectionsAreServed
  <2>9. EventsAreCurrent' /\ ReportsInv'
    <3>1. \A r \in todo : r.fd # Master => r.fd \in OpenFds /\ slaves'[r.fd] = slaves[r.fd]
      BY <2>4 DEF EventsAreCurrent
    <3>2. \A r \in todo : r.fd # Master => ReadyFor(slaves[r.fd])' = ReadyFor(slaves[r.fd])
      BY <1>1, <3>1 DEF ReadyFor
    <3>3. QED
      BY <1>1, <1>3, <2>4, <3>1, <3>2 DEF EventsAreCurrent, ReportsInv
  <2>10. ASSUME NEW g \in OpenFds'
         PROVE  LET d == slaves'[g].con
                IN Kept(echoed[d], slaves'[g].buffer, got[d], missing[d], d)
    <3>1. CASE g = fd
      <4>1. got[c] = 0 /\ echoed[c] = <<>> /\ missing[c] = 0
        BY <1>1 DEF FreshInv
      <4>2. QED
        BY <2>1, <2>2, <3>1, <4>1, KeptEmpty
    <3>2. CASE g # fd
      BY <2>4, <2>10, <3>2 DEF OnlyUntakenIsLost, Kept
    <3>3. QED
      BY <3>1, <3>2
  <2>11. FreshInv'
    BY <1>1, <2>6 DEF FreshInv
  <2>12. QED
    BY <1>1, <2>7, <2>8, <2>9, <2>10, <2>11 DEF OnlyUntakenIsLost, Kept
<1>4. QED
  BY <1>2, <1>3 DEF Accept, AddNewConnection

\* What epoll_wait reports is current.
LEMMA WakeStep ==
  ASSUME IInv, Wake
  PROVE  IInv'
<1> USE DEF IInv, Wake, clientVars
<1>1. \A f \in OpenFds : f \in Fds /\ f # Master
  BY OpenIsConnection, FdsAssumption
<1>2. \A r \in todo' :
        \/ r = MasterReport
        \/ /\ r.fd \in OpenFds /\ r.broken \in BOOLEAN
           /\ r = [fd |-> r.fd, broken |-> r.broken]
           /\ r.broken <=> peer[slaves[r.fd].con] = "reset"
           /\ ~r.broken => ReadyFor(slaves[r.fd])
  <2> SUFFICES ASSUME NEW r \in Reports
               PROVE  \/ r = MasterReport
                      \/ \E f \in OpenFds, b \in BOOLEAN :
                           /\ r = [fd |-> f, broken |-> b]
                           /\ b <=> peer[slaves[f].con] = "reset"
                           /\ ~b => ReadyFor(slaves[f])
    OBVIOUS
  <2>1. CASE r \in {[fd |-> f, broken |-> FALSE] :
               f \in {g \in OpenFds : peer[slaves[g].con] # "reset" /\ ReadyFor(slaves[g])}}
    <3>1. PICK f \in OpenFds : /\ r = [fd |-> f, broken |-> FALSE]
                               /\ peer[slaves[f].con] # "reset" /\ ReadyFor(slaves[f])
      BY <2>1
    <3>2. QED
      BY <3>1
  <2>2. CASE r \in {[fd |-> f, broken |-> TRUE] :
               f \in {g \in OpenFds : peer[slaves[g].con] = "reset"}}
    BY <2>2
  <2>3. CASE r = MasterReport
    BY <2>3
  <2>4. QED
    BY <2>1, <2>2, <2>3 DEF Reports
<1>3. todo' \subseteq Report
  <2> SUFFICES ASSUME NEW r \in todo' PROVE r \in Report
    OBVIOUS
  <2>1. CASE r = MasterReport
    BY <2>1 DEF Report, MasterReport
  <2>2. CASE r.fd \in OpenFds /\ r.broken \in BOOLEAN /\ r = [fd |-> r.fd, broken |-> r.broken]
    <3>1. r.fd \in Fds \cup {Master}
      BY <1>1, <2>2
    <3>2. QED
      BY <2>2, <3>1 DEF Report
  <2>3. QED
    BY <1>2, <2>1, <2>2
<1>4. OpenFds' = OpenFds
  BY DEF OpenFds
<1>5. EventsAreCurrent'
  <2>1. ASSUME NEW r \in todo', r.fd # Master
        PROVE  /\ r.fd \in OpenFds
               /\ peer[slaves[r.fd].con] = "reset" \/ (~r.broken /\ ReadyFor(slaves[r.fd]))
    BY <1>2, <2>1 DEF MasterReport
  <2>2. \A r \in todo' : ReadyFor(slaves[r.fd])' = ReadyFor(slaves[r.fd])
    BY DEF ReadyFor
  <2>3. QED
    BY <1>4, <2>1, <2>2 DEF EventsAreCurrent
<1>6. ReportsInv'
  <2> SUFFICES ASSUME NEW r \in todo', NEW s \in todo', r.fd = s.fd PROVE r = s
    BY DEF ReportsInv
  <2>1. CASE r.fd = Master
    BY <1>1, <1>2, <2>1 DEF MasterReport
  <2>2. CASE r.fd # Master
    <3>1. r # MasterReport /\ s # MasterReport
      BY <2>2 DEF MasterReport
    <3>2. /\ r.broken \in BOOLEAN /\ r = [fd |-> r.fd, broken |-> r.broken]
          /\ r.broken <=> peer[slaves[r.fd].con] = "reset"
      BY <1>2, <3>1
    <3>3. /\ s.broken \in BOOLEAN /\ s = [fd |-> s.fd, broken |-> s.broken]
          /\ s.broken <=> peer[slaves[s.fd].con] = "reset"
      BY <1>2, <3>1
    <3>4. r.broken = s.broken
      BY <3>2, <3>3
    <3>5. QED
      BY <3>2, <3>3, <3>4
  <2>3. QED
    BY <2>1, <2>2
<1>7. TypeOK'
  BY <1>3 DEF TypeOK
<1>8. OpenConnectionsAreServed' /\ OnlyUntakenIsLost' /\ FreshInv'
  BY <1>4 DEF OpenConnectionsAreServed, OnlyUntakenIsLost, FreshInv
<1>9. QED
  BY <1>5, <1>6, <1>7, <1>8

\* The rest of the accept loop.
LEMMA LoopStep ==
  ASSUME IInv, AcceptClients \/ AcceptWouldBlock \/ AcceptFails
  PROVE  IInv'
<1> USE DEF IInv
<1>1. CASE AcceptClients \/ AcceptWouldBlock
  <2>1. /\ UNCHANGED <<clientVars, got, echoed, missing, slaves, alive>>
        /\ todo' \subseteq todo /\ accepting' \in BOOLEAN
    BY <1>1 DEF AcceptClients, AcceptWouldBlock
  <2>2. OpenFds' = OpenFds
    BY <2>1 DEF OpenFds
  <2>3. TypeOK'
    BY <2>1 DEF TypeOK, clientVars
  <2>4. EventsAreCurrent'
    <3>1. \A r \in todo' : ReadyFor(slaves[r.fd])' = ReadyFor(slaves[r.fd])
      BY <2>1 DEF ReadyFor, clientVars
    <3>2. QED
      BY <2>1, <2>2, <3>1 DEF EventsAreCurrent, clientVars
  <2>5. OpenConnectionsAreServed' /\ OnlyUntakenIsLost' /\ FreshInv' /\ ReportsInv'
    BY <2>1, <2>2 DEF OpenConnectionsAreServed, OnlyUntakenIsLost, FreshInv,
                      ReportsInv, clientVars
  <2>6. QED
    BY <2>3, <2>4, <2>5
<1>2. CASE AcceptFails
  <2>1. /\ DOMAIN slaves' = {} /\ OpenFds' = {} /\ todo' = {}
        /\ UNCHANGED <<peer, sent, full, got, echoed, missing>>
    BY <1>2 DEF AcceptFails, OpenFds
  <2>2. /\ link' \in [Clients -> {"idle", "queued", "open", "closed"}]
        /\ \A c \in Clients : link'[c] = "closed" \/ (link'[c] = "idle" /\ link[c] = "idle")
    BY <1>2 DEF AcceptFails, TypeOK
  <2>3. TypeOK'
    <3>1. slaves' \in [DOMAIN slaves' -> Connection \cup {Left}]
      BY <2>1
    <3>2. accepting' \in BOOLEAN /\ alive' \in BOOLEAN
      BY <1>2 DEF AcceptFails
    <3>3. QED
      BY <2>1, <2>2, <3>1, <3>2 DEF TypeOK
  <2>4. QED
    BY <2>1, <2>2, <2>3 DEF OpenConnectionsAreServed, EventsAreCurrent, ReportsInv,
                            OnlyUntakenIsLost, FreshInv
<1>3. QED
  BY <1>1, <1>2

\* The clients only bring news, which keeps every report current.
LEMMA WorldStep ==
  ASSUME IInv, NEW c \in Clients, Connect(c) \/ SendUnit(c) \/ Disconnect(c) \/ Drain(c)
  PROVE  IInv'
<1> USE DEF IInv
<1>1. UNCHANGED <<got, echoed, missing, slaves, todo, accepting, alive>>
  BY DEF Connect, SendUnit, Disconnect, Drain
<1>2. /\ link' \in [Clients -> {"idle", "queued", "open", "closed"}]
      /\ \A d \in Clients : \/ link'[d] = link[d]
                            \/ link[d] = "idle" /\ link'[d] = "queued"
  BY DEF Connect, SendUnit, Disconnect, Drain, TypeOK
<1>3. /\ peer' \in [Clients -> {"up", "fin", "reset"}]
      /\ \A d \in Clients : peer[d] = "reset" => peer'[d] = "reset"
      /\ \A d \in Clients : peer[d] # "up" => peer'[d] # "up"
  BY DEF Connect, SendUnit, Disconnect, Drain, TypeOK
<1>4. /\ sent' \in [Clients -> Nat]
      /\ \A d \in Clients : sent[d] <= sent'[d] /\ sent'[d] <= Len(Sends[d])
  <2>1. CASE UNCHANGED sent
    BY <2>1 DEF TypeOK
  <2>2. CASE SendUnit(c)
    <3>1. Len(Sends[c]) \in Nat /\ sent[c] < Len(Sends[c])
      BY <2>2, StreamAssumption DEF SendUnit
    <3>2. QED
      BY <2>2, <3>1 DEF SendUnit, TypeOK
  <2>3. QED
    BY <2>1, <2>2 DEF Connect, Disconnect, Drain
<1>5. full' \subseteq full
  BY DEF Connect, SendUnit, Disconnect, Drain
<1>6. OpenFds' = OpenFds
  BY <1>1 DEF OpenFds
<1>7. TypeOK'
  BY <1>1, <1>2, <1>3, <1>4, <1>5 DEF TypeOK
<1>8. EventsAreCurrent'
  <2> SUFFICES ASSUME NEW r \in todo, r.fd # Master
               PROVE  /\ r.fd \in OpenFds
                      /\ \/ peer'[slaves[r.fd].con] = "reset"
                         \/ ~r.broken /\ ReadyFor(slaves[r.fd])'
    BY <1>1, <1>6 DEF EventsAreCurrent
  <2>1. r.fd \in OpenFds /\ slaves[r.fd].con \in Clients
    BY OpenIsConnection DEF EventsAreCurrent
  <2>2. ReadyFor(slaves[r.fd]) => ReadyFor(slaves[r.fd])'
    BY <1>1, <1>3, <1>4, <1>5, <2>1 DEF ReadyFor, TypeOK
  <2>3. QED
    BY <1>3, <2>1, <2>2 DEF EventsAreCurrent
<1>9. OpenConnectionsAreServed'
  <2>1. \A f \in OpenFds : slaves[f].con \in Clients
    BY OpenIsConnection
  <2>2. QED
    BY <1>1, <1>2, <1>6, <2>1 DEF OpenConnectionsAreServed
<1>10. OnlyUntakenIsLost' /\ FreshInv' /\ ReportsInv'
  BY <1>1, <1>2, <1>6 DEF OnlyUntakenIsLost, FreshInv, ReportsInv
<1>11. QED
  BY <1>7, <1>8, <1>9, <1>10

\* Every step keeps the invariant.
LEMMA StepInvariant == IInv /\ [Next]_vars => IInv'
<1> SUFFICES ASSUME IInv, [Next]_vars PROVE IInv'
  OBVIOUS
<1>1. CASE Server
  BY <1>1, WakeStep, LoopStep, AcceptStep, EndStep, ReadStep, WriteStep DEF Server
<1>2. CASE World
  BY <1>2, WorldStep DEF World
<1>3. CASE UNCHANGED vars
  <2>1. OpenFds' = OpenFds
    BY <1>3 DEF vars, OpenFds
  <2>2. \A r \in todo : ReadyFor(slaves[r.fd])' = ReadyFor(slaves[r.fd])
    BY <1>3 DEF vars, clientVars, ReadyFor
  <2>3. QED
    BY <1>3, <2>1, <2>2 DEF IInv, vars, clientVars, TypeOK, OpenConnectionsAreServed,
       EventsAreCurrent, ReportsInv, OnlyUntakenIsLost, FreshInv
<1>4. QED
  BY <1>1, <1>2, <1>3 DEF Next

\* The invariant holds in every state the server can reach.
THEOREM Invariance == Spec => []IInv
<1>1. Init => IInv
  BY InitInvariant
<1>2. IInv /\ [Next]_vars => IInv'
  BY StepInvariant
<1>3. QED
  BY <1>1, <1>2, PTL DEF Spec

\* The table and the loop of the server keep their types, and it reads no more
\* than arrived.
THEOREM TypeCorrect == Spec => []TypeOK
<1>1. IInv => TypeOK
  BY DEF IInv
<1>2. QED
  BY <1>1, Invariance, PTL

\* No event of the array is stale when its turn comes.
THEOREM EventsAreCurrentHolds == Spec => []EventsAreCurrent
<1>1. IInv => EventsAreCurrent
  BY DEF IInv
<1>2. QED
  BY <1>1, Invariance, PTL

\* The open connections and the table agree.
THEOREM OpenConnectionsAreServedHolds == Spec => []OpenConnectionsAreServed
<1>1. IInv => OpenConnectionsAreServed
  BY DEF IInv
<1>2. QED
  BY <1>1, Invariance, PTL

\* However the stream is cut into reads, packets and writes, what comes back of it is
\* what was sent, once and in order, without what send did not take and nothing else.
THEOREM OnlyUntakenIsLostHolds == Spec => []OnlyUntakenIsLost
<1>1. IInv => OnlyUntakenIsLost
  BY DEF IInv
<1>2. QED
  BY <1>1, Invariance, PTL

\* A step closes a connection under ClosesForAReason only.
Reason(c) ==
  LET rest == got'[c] - Len(echoed'[c]) - missing'[c]
  IN rest = 1 \/ (rest = 2 /\ EndsWithStop(Received(c)'))

\* A stream that ends with a buffer that ends with "stop" ends with "stop".
LEMMA StreamEndsWithStop ==
  ASSUME NEW s \in Seq(Unit), NEW n \in Nat, n <= Len(s), NEW b \in Seq(Unit),
         Len(b) <= n, b = SubSeq(s, n - Len(b) + 1, n), EndsWithStop(b)
  PROVE  EndsWithStop(SubSeq(s, 1, n))
<1> DEFINE t == SubSeq(s, 1, n)
           x == SubSeq(b, Len(b) - 1, Len(b))
           y == SubSeq(t, n - 1, n)
<1>1. Len(b) >= 2 /\ Len(b) \in Nat /\ x = Stop /\ Len(s) \in Nat
  BY DEF EndsWithStop
<1>2. t \in Seq(Unit) /\ Len(t) = n /\ \A i \in 1 .. n : t[i] = s[i]
  OBVIOUS
<1>3. PICK o \in Nat : o = n - Len(b)
  <2>1. n - Len(b) \in Nat
    BY <1>1
  <2>2. QED
    BY <2>1
<1>4. \A i \in 1 .. Len(b) : b[i] = s[o + i]
  <2>1. b = SubSeq(s, o + 1, n) /\ o < n /\ n - o = Len(b)
    BY <1>1, <1>3
  <2>2. QED
    BY <2>1, SliceOf
<1> HIDE DEF t
<1>5. x \in Seq(Unit) /\ Len(x) = 2 /\ x[1] = b[Len(b) - 1] /\ x[2] = b[Len(b)]
  BY <1>1
<1>6. y \in Seq(Unit) /\ Len(y) = 2 /\ y[1] = t[n - 1] /\ y[2] = t[n]
  BY <1>1, <1>2
<1>7. t[n - 1] = b[Len(b) - 1] /\ t[n] = b[Len(b)]
  <2>1. /\ Len(b) - 1 \in 1 .. Len(b) /\ Len(b) \in 1 .. Len(b) /\ n \in 1 .. n /\ n - 1 \in 1 .. n
        /\ o + (Len(b) - 1) = n - 1 /\ o + Len(b) = n
    BY <1>1, <1>3
  <2>2. b[Len(b) - 1] = s[o + (Len(b) - 1)] /\ b[Len(b)] = s[o + Len(b)]
    BY <1>4, <2>1
  <2>3. QED
    BY <1>2, <2>1, <2>2
<1> HIDE DEF x, y
<1>8. x = y
  <2>1. \A i \in 1 .. Len(x) : x[i] = y[i]
    BY <1>5, <1>6, <1>7
  <2>2. QED
    BY <1>5, <1>6, <2>1, SeqEqual
<1>9. SubSeq(t, Len(t) - 1, Len(t)) = Stop /\ Len(t) >= 2
  <2>1. y = Stop
    BY <1>1, <1>8
  <2>2. y = SubSeq(t, Len(t) - 1, Len(t))
    BY <1>2 DEF y
  <2>3. Len(t) >= 2
    BY <1>1, <1>2
  <2>4. QED
    BY <2>1, <2>2, <2>3
<1>10. QED
  BY <1>9 DEF EndsWithStop, t

\* A handler closes the connection of its report and no other.
LEMMA OthersStayOpen ==
  ASSUME IInv, NEW r \in Report, Handled(r), Delete(r.fd) \/ Close(r.fd),
         NEW c \in Clients, link[c] = "open", link'[c] = "closed"
  PROVE  c = slaves[r.fd].con
<1>1. r.fd \in OpenFds /\ TypeOK
  BY ReportedConnection DEF IInv
<1>2. QED
  BY <1>1 DEF Delete, Close, TypeOK

\* While epoll_ctl does not fail and main goes on, a peer that is up loses its
\* connection to a "stop" behind which everything was handed to send, or to a buffer of
\* less than 4 bytes.
THEOREM ClosesForAReasonHolds == Spec => ClosesForAReason
<1>1. ASSUME IInv, [Next]_vars, NEW c \in Clients,
             link[c] = "open", link'[c] = "closed", peer[c] = "up", alive', ~CtlFails
      PROVE  Reason(c)
  <2> USE <1>1
  <2>1. TypeOK
    BY DEF IInv
  <2>2. ~\E S : Restart(S)
    BY DEF Restart
  <2>3. PICK r \in Report :
          HandleBroken(r) \/ Read(r) \/ ReadNothing(r) \/ Write(r) \/ WriteFails(r)
    <3>1. CASE Wake \/ AcceptClients \/ AcceptWouldBlock
      BY <3>1 DEF Wake, AcceptClients, AcceptWouldBlock, clientVars
    <3>2. CASE AcceptFails
      BY <3>2 DEF AcceptFails
    <3>3. CASE \E d \in Clients, fd \in Fds : Accept(d, fd)
      BY <2>1, <2>2, <3>3 DEF Accept, AddNewConnection, TypeOK
    <3>4. CASE World \/ UNCHANGED vars
      BY <2>1, <3>4 DEF World, Connect, SendUnit, Disconnect, Drain, TypeOK, vars, clientVars
    <3>5. QED
      BY <3>1, <3>2, <3>3, <3>4 DEF Next, Server
  <2> DEFINE f == r.fd
             con == slaves[f].con
             buffer == slaves[f].buffer
  <2>4. Handled(r)
    BY <2>3 DEF HandleBroken, Read, ReadNothing, Write, WriteFails, Reading, Writing
  <2>5. f \in OpenFds /\ con \in Clients /\ buffer \in Seq(Unit)
        /\ (peer[con] = "reset" \/ (~r.broken /\ ReadyFor(slaves[f])))
    BY <2>4, ReportedConnection
  <2>6. CASE HandleBroken(r) \/ ReadNothing(r) \/ WriteFails(r)
    <3>1. Delete(f) \/ Close(f)
      BY <2>6 DEF HandleBroken, ReadNothing, WriteFails
    <3>2. c = con
      BY <2>4, <3>1, OthersStayOpen
    <3>3. CASE HandleBroken(r) \/ WriteFails(r)
      BY <2>5, <3>2, <3>3 DEF HandleBroken, WriteFails
    <3>4. CASE ReadNothing(r)
      BY <2>1, <2>5, <3>2, <3>4 DEF ReadNothing, Reading, ReadyFor, TypeOK
    <3>5. QED
      BY <2>6, <3>3, <3>4
  <2>7. CASE Read(r)
    <3> DEFINE b == buffer \o Chunk(con)
    <3>1. Delete(f) /\ Len(b) < 2 /\ got[con] < sent[con] /\ echoed' = echoed
          /\ got' = [got EXCEPT ![con] = @ + Len(Chunk(con))]
      BY <2>2, <2>7 DEF Read, Continue
    <3>2. c = con
      BY <2>4, <3>1, OthersStayOpen
    <3>3. Chunk(con) \in Seq(Unit) /\ Len(Chunk(con)) \in Nat \ {0}
      BY <2>1, <2>5, <3>1, ChunkExtends
    <3>4. Len(b) = 1 /\ Len(b) = Len(buffer) + Len(Chunk(con))
      BY <2>5, <3>1, <3>3, ShortIsSingle, ConcatLength
    <3>5. got'[c] = got[c] + Len(Chunk(con)) /\ echoed'[c] = echoed[c] /\ missing'[c] = missing[c]
      BY <2>1, <2>5, <2>7, <3>1, <3>2 DEF Read, TypeOK
    <3>6. /\ Len(echoed[c]) + Len(buffer) + missing[c] = got[c] /\ missing[c] \in Nat
          /\ Len(echoed[c]) \in Nat /\ Len(buffer) \in Nat /\ got[c] \in Nat
      <4>1. /\ missing[c] \in Nat /\ echoed[c] \in Seq(Unit) /\ got[c] \in Nat
            /\ buffer \in Seq(Unit)
        BY <2>1, <2>5, <3>2 DEF TypeOK
      <4>2. Len(echoed[c]) + Len(buffer) + missing[c] = got[c]
        BY <2>5, <3>2 DEF IInv, OnlyUntakenIsLost
      <4>3. Len(echoed[c]) \in Nat /\ Len(buffer) \in Nat
        BY <4>1
      <4>4. QED
        BY <4>1, <4>2, <4>3
    <3>7. PICK x \in Nat, y \in Nat, z \in Nat, u \in Nat :
            /\ x = Len(echoed[c]) /\ y = Len(buffer) /\ z = missing[c] /\ u = Len(Chunk(con))
            /\ got[c] = x + y + z /\ y + u = 1
      BY <3>3, <3>4, <3>6
    <3>8. got'[c] - Len(echoed'[c]) - missing'[c] = 1
      <4>1. got'[c] = x + y + z + u /\ Len(echoed'[c]) = x /\ missing'[c] = z
        BY <3>5, <3>7
      <4>2. (x + y + z + u) - x - z = y + u
        BY LengthsOfShort
      <4>3. y + u = 1
        BY <3>7
      <4>4. QED
        BY <4>1, <4>2, <4>3, Zenon
    <3>9. QED
      BY <3>8 DEF Reason
  <2>8. CASE Write(r)
    <3>1. Close(f) /\ EndsWithStop(buffer)
      BY <2>2, <2>8 DEF Write, Continue
    <3>2. c = con
      BY <2>4, <3>1, OthersStayOpen
    <3>3. PICK k \in 0 .. Len(buffer) :
            /\ echoed'[c] = echoed[c] \o SubSeq(buffer, 1, k) /\ UNCHANGED got
            /\ missing'[c] = missing[c] + (Len(buffer) - 2 - k)
      BY <2>8, <3>1, <3>2, Sending
    <3>4. /\ Len(echoed[c]) + Len(buffer) + missing[c] = got[c] /\ missing[c] \in Nat
          /\ Len(echoed[c]) \in Nat /\ Len(buffer) \in Nat /\ got[c] \in Nat
          /\ buffer = SubSeq(Sends[c], got[c] - Len(buffer) + 1, got[c])
          /\ echoed[c] \in Seq(Unit) /\ got[c] <= Len(Sends[c]) /\ Sends[c] \in Seq(Unit)
      <4>1. sent[c] \in Nat /\ got[c] <= sent[c] /\ sent[c] <= Len(Sends[c])
        BY DEF IInv, TypeOK
      <4>2. Sends[c] \in Seq(Unit) /\ Len(Sends[c]) \in Nat
        BY StreamAssumption
      <4>3. /\ missing[c] \in Nat /\ echoed[c] \in Seq(Unit) /\ got[c] \in Nat
            /\ buffer \in Seq(Unit)
        BY <2>1, <2>5, <3>2 DEF TypeOK
      <4>4. /\ Len(echoed[c]) + Len(buffer) + missing[c] = got[c]
            /\ buffer = SubSeq(Sends[c], got[c] - Len(buffer) + 1, got[c])
        BY <2>5, <3>2 DEF IInv, OnlyUntakenIsLost
      <4>5. got[c] <= Len(Sends[c])
        BY <4>1, <4>2, <4>3
      <4>6. Len(echoed[c]) \in Nat /\ Len(buffer) \in Nat
        BY <4>3
      <4>7. QED
        BY <4>2, <4>3, <4>4, <4>5, <4>6
    <3>5. Len(echoed'[c]) = Len(echoed[c]) + k
      <4>1. SubSeq(buffer, 1, k) \in Seq(Unit) /\ Len(SubSeq(buffer, 1, k)) = k
        BY <2>5
      <4>2. QED
        BY <3>3, <3>4, <4>1, ConcatLength
    <3>6. got'[c] - Len(echoed'[c]) - missing'[c] = 2
      <4>1. PICK x \in Nat, y \in Nat, z \in Nat :
              x = Len(echoed[c]) /\ y = Len(buffer) /\ z = missing[c] /\ got[c] = x + y + z
        BY <3>4
      <4>2. got'[c] = x + y + z /\ Len(echoed'[c]) = x + k /\ missing'[c] = z + (y - 2 - k)
        BY <3>3, <3>5, <4>1
      <4>3. k \in Int
        OBVIOUS
      <4>4. (x + y + z) - (x + k) - (z + (y - 2 - k)) = 2
        BY <4>3, LengthsOfStop
      <4>5. QED
        BY <4>2, <4>4, Zenon
    <3>7. EndsWithStop(Received(c)')
      <4>1. Len(buffer) <= got[c]
        <5>1. PICK x \in Nat, y \in Nat, z \in Nat :
                x = Len(echoed[c]) /\ y = Len(buffer) /\ z = missing[c] /\ got[c] = x + y + z
          BY <3>4
        <5>2. y <= x + y + z
          BY LengthsInside
        <5>3. QED
          BY <5>1, <5>2
      <4>2. EndsWithStop(SubSeq(Sends[c], 1, got[c]))
        BY <2>5, <3>1, <3>4, <4>1, StreamEndsWithStop
      <4>3. QED
        BY <3>3, <4>2 DEF Received
    <3>8. QED
      BY <3>6, <3>7 DEF Reason
  <2>9. QED
    BY <2>3, <2>6, <2>7, <2>8
<1>2. IInv /\ [Next]_vars =>
        [\A c \in Clients :
           link[c] = "open" /\ link'[c] = "closed" /\ peer[c] = "up" /\ alive' /\ ~CtlFails =>
             LET rest == got'[c] - Len(echoed'[c]) - missing'[c]
             IN rest = 1 \/ (rest = 2 /\ EndsWithStop(Received(c)'))]_vars
  BY <1>1 DEF Reason
<1>3. QED
  BY <1>2, Invariance, PTL DEF Spec, ClosesForAReason
=============================================================================
