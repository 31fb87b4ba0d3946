-------------------------- MODULE Processes_proofs --------------------------
(***************************************************************************)
(* Proofs about Processes, for any objects, files, lines, lengths and      *)
(* limits: the numbers of Descriptor, the messages of the two programs of  *)
(* the example however they are cut, and the ends of the pipes of Process. *)
(***************************************************************************)
EXTENDS Processes, TLAPS, SequenceTheorems, FiniteSetTheorems

-----------------------------------------------------------------------------
(***************************************************************************)
(* Descriptor                                                              *)
(***************************************************************************)

\* The inductive invariant: all three together, since a close may only free the
\* number of its own object when no other object has it.
OwnersInv == TypeOK /\ OneOwner /\ NothingLeaks

Tables == [Std \cup Numbers -> Files \cup {NoFile}]

\* A new number is -1 or free.
LEMMA NewNumberIsFree ==
  ASSUME NEW t
  PROVE  /\ NewNumber(t) \in Numbers \cup {-1}
         /\ NewNumber(t) # -1 => NewNumber(t) \in Numbers /\ t[NewNumber(t)] = NoFile
<1>1. -1 \notin Numbers
  BY DEF Numbers
<1>2. CASE \E n \in Numbers : Free(t, n)
  BY <1>1, <1>2 DEF NewNumber, Free
<1>3. CASE ~\E n \in Numbers : Free(t, n)
  BY <1>3 DEF NewNumber
<1> QED BY <1>2, <1>3

\* What opening and closing a number does to a table.
LEMMA OpenedTable ==
  ASSUME NEW t \in Tables, NEW n \in Numbers \cup {-1}, NEW f \in Files \cup {NoFile}
  PROVE  /\ Opened(t, n, f) \in Tables
         /\ n # -1 => Opened(t, n, f)[n] = f
         /\ \A m \in Std \cup Numbers : m # n => Opened(t, n, f)[m] = t[m]
<1>1. -1 \notin Numbers
  BY DEF Numbers
<1> QED BY <1>1 DEF Opened, Tables

\* A number and 0, 1, 2 are different, and -1 is neither.
LEMMA NumberFacts == -1 \notin Numbers /\ -1 \notin Std /\ Numbers \cap Std = {}
BY DEF Numbers, Std

\* The invariant holds at the start.
LEMMA OwnersInit == Init => OwnersInv
<1> SUFFICES ASSUME Init PROVE OwnersInv
  OBVIOUS
<1> USE DescriptorAssumption, NumberFacts
<1>1. TypeOK
  BY DEF Init, TypeOK
<1>2. OneOwner
  BY DEF Init, OneOwner
<1>3. NothingLeaks
  BY DEF Init, NothingLeaks
<1> QED BY <1>1, <1>2, <1>3 DEF OwnersInv

\* What is needed of a step, whatever action it is: the objects that have a
\* number afterwards have different ones, and the open numbers are theirs.
LEMMA OwnersStep ==
  ASSUME live' \subseteq Descriptors, fd' \in [Descriptors -> Numbers \cup {-1}],
         table' \in Tables, \A d \in Descriptors \ live' : fd'[d] = -1,
         \A d, o \in Descriptors : d # o /\ fd'[d] # -1 => fd'[d] # fd'[o],
         \A n \in Numbers : table'[n] # NoFile <=> \E d \in Descriptors : fd'[d] = n
  PROVE  OwnersInv'
<1> USE NumberFacts
<1>1. TypeOK'
  BY DEF TypeOK, Tables
<1>2. OneOwner'
  BY DEF OneOwner, IsValid, FileOf
<1>3. NothingLeaks'
  BY DEF NothingLeaks
<1> QED BY <1>1, <1>2, <1>3 DEF OwnersInv

\* The same facts before a step.
LEMMA Before ==
  ASSUME OwnersInv
  PROVE  /\ live \subseteq Descriptors /\ fd \in [Descriptors -> Numbers \cup {-1}]
         /\ table \in Tables /\ \A d \in Descriptors \ live : fd[d] = -1
         /\ \A d, o \in Descriptors : d # o /\ fd[d] # -1 => fd[d] # fd[o]
         /\ \A n \in Numbers : table[n] # NoFile <=> \E d \in Descriptors : fd[d] = n
<1> USE NumberFacts DEF OwnersInv, TypeOK, OneOwner, NothingLeaks, IsValid, FileOf, Tables
<1>1. \A d, o \in Descriptors : d # o /\ fd[d] # -1 => fd[d] # fd[o]
  OBVIOUS
<1>2. \A n \in Numbers : table[n] # NoFile <=> \E d \in Descriptors : fd[d] = n
  OBVIOUS
<1> QED BY <1>1, <1>2

\* Every action keeps the invariant.
LEMMA OwnersNext == OwnersInv /\ [Next]_vars => OwnersInv'
<1> SUFFICES ASSUME OwnersInv, [Next]_vars PROVE OwnersInv'
  OBVIOUS
<1> USE NumberFacts, DescriptorAssumption
<1>0. /\ live \subseteq Descriptors /\ fd \in [Descriptors -> Numbers \cup {-1}]
      /\ table \in Tables /\ \A d \in Descriptors \ live : fd[d] = -1
      /\ \A d, o \in Descriptors : d # o /\ fd[d] # -1 => fd[d] # fd[o]
      /\ \A n \in Numbers : table[n] # NoFile <=> \E d \in Descriptors : fd[d] = n
  BY Before
<1>1. ASSUME NEW d \in Descriptors, Construct(d) PROVE OwnersInv'
  <2> DEFINE n == NewNumber(table)
  <2>1. n \in Numbers \cup {-1} /\ (n # -1 => n \in Numbers /\ table[n] = NoFile)
    BY NewNumberIsFree
  <2>2. PICK f \in Files : table' = Opened(table, n, f)
    BY <1>1 DEF Construct
  <2>3. /\ table' \in Tables /\ (n # -1 => table'[n] = f)
        /\ \A m \in Std \cup Numbers : m # n => table'[m] = table[m]
    BY <1>0, <2>1, <2>2, OpenedTable
  <2>4. fd' = [fd EXCEPT ![d] = n] /\ live' = live \cup {d} /\ fd[d] = -1
    BY <1>0, <1>1 DEF Construct
  <2> HIDE DEF n
  <2> QED BY <1>0, <2>1, <2>3, <2>4, OwnersStep
<1>2. ASSUME NEW d \in Descriptors, Close(d) \/ Destroy(d) PROVE OwnersInv'
  <2>1. /\ fd' = [fd EXCEPT ![d] = -1] /\ table' = Opened(table, fd[d], NoFile)
        /\ live' \in {live, live \ {d}}
    BY <1>2 DEF Close, Destroy, Closed
  <2>2. /\ table' \in Tables /\ (fd[d] # -1 => table'[fd[d]] = NoFile)
        /\ \A m \in Std \cup Numbers : m # fd[d] => table'[m] = table[m]
    BY <1>0, <2>1, OpenedTable
  <2> QED BY <1>0, <2>1, <2>2, OwnersStep
<1>3. ASSUME NEW d \in Descriptors, NEW o \in Descriptors, MoveConstruct(d, o) PROVE OwnersInv'
  <2>1. /\ fd' = [fd EXCEPT ![d] = fd[o], ![o] = -1] /\ table' = table
        /\ live' = live \cup {d} /\ fd[d] = -1
    BY <1>0, <1>3 DEF MoveConstruct
  <2> QED BY <1>0, <2>1, OwnersStep
<1>4. ASSUME NEW d \in Descriptors, NEW o \in Descriptors, MoveAssign(d, o) PROVE OwnersInv'
  <2>1. /\ fd' = [fd EXCEPT ![d] = fd[o], ![o] = -1] /\ table' = Opened(table, fd[d], NoFile)
        /\ live' = live /\ d \in live /\ o \in live
    BY <1>4 DEF MoveAssign, Closed
  <2>2. /\ table' \in Tables /\ (fd[d] # -1 => table'[fd[d]] = NoFile)
        /\ \A m \in Std \cup Numbers : m # fd[d] => table'[m] = table[m]
    BY <1>0, <2>1, OpenedTable
  <2>3. CASE d = o
    <3>1. fd' = [fd EXCEPT ![d] = -1]
      BY <1>0, <2>1, <2>3
    <3> QED BY <1>0, <2>1, <2>2, <3>1, OwnersStep
  <2>4. CASE d # o
    <3>1. \A e \in Descriptors :
            fd'[e] = IF e = d THEN fd[o] ELSE IF e = o THEN -1 ELSE fd[e]
      BY <1>0, <2>1, <2>4
    <3>2. fd' \in [Descriptors -> Numbers \cup {-1}]
      BY <1>0, <2>1
    <3>3. \A a, b \in Descriptors : a # b /\ fd'[a] # -1 => fd'[a] # fd'[b]
      BY <1>0, <3>1, <2>4
    <3>4. \A n \in Numbers : table'[n] # NoFile <=> \E e \in Descriptors : fd'[e] = n
      <4> SUFFICES ASSUME NEW n \in Numbers
                   PROVE  table'[n] # NoFile <=> \E e \in Descriptors : fd'[e] = n
        OBVIOUS
      <4>1. CASE n = fd[d]
        BY <1>0, <2>2, <2>4, <3>1, <4>1
      <4>2. CASE n # fd[d]
        <5>1. table'[n] = table[n]
          BY <2>2, <4>2
        <5>2. ASSUME NEW e \in Descriptors, fd[e] = n PROVE \E x \in Descriptors : fd'[x] = n
          BY <3>1, <4>2, <5>2
        <5>3. ASSUME NEW e \in Descriptors, fd'[e] = n PROVE \E x \in Descriptors : fd[x] = n
          BY <3>1, <4>2, <5>3
        <5> QED BY <1>0, <5>1, <5>2, <5>3
      <4> QED BY <4>1, <4>2
    <3> QED BY <1>0, <2>1, <2>2, <3>1, <3>2, <3>3, <3>4, OwnersStep
  <2> QED BY <2>3, <2>4
<1>5. ASSUME NEW d \in Descriptors, NEW o \in Descriptors, CopyAssign(d, o) PROVE OwnersInv'
  <2> DEFINE t == Closed(table, fd[d])
             n == IF o = d \/ fd[o] = -1 THEN -1 ELSE NewNumber(t)
  <2>1. /\ t \in Tables /\ (fd[d] # -1 => t[fd[d]] = NoFile)
        /\ \A m \in Std \cup Numbers : m # fd[d] => t[m] = table[m]
    BY <1>0, OpenedTable DEF Closed
  <2>2. n \in Numbers \cup {-1} /\ (n # -1 => n \in Numbers /\ t[n] = NoFile)
    BY NewNumberIsFree
  <2>3. /\ fd' = [fd EXCEPT ![d] = n] /\ table' = Opened(t, n, FileOf(fd[o]))
        /\ live' = live /\ d \in live /\ o \in live
    BY <1>5 DEF CopyAssign
  <2>4. n # -1 => fd[o] \in Numbers /\ FileOf(fd[o]) = table[fd[o]] /\ table[fd[o]] # NoFile
    BY <1>0 DEF FileOf
  <2>5. FileOf(fd[o]) \in Files \cup {NoFile}
    BY <1>0 DEF FileOf, Tables
  <2> HIDE DEF t, n
  <2>6. /\ table' \in Tables /\ (n # -1 => table'[n] # NoFile)
        /\ \A m \in Std \cup Numbers : m # n => table'[m] = t[m]
    BY <2>1, <2>2, <2>3, <2>4, <2>5, OpenedTable
  <2>7. \A e \in Descriptors \ {d} : fd[e] # -1 => t[fd[e]] # NoFile
    BY <1>0, <2>1
  <2>8. \A a, b \in Descriptors : a # b /\ fd'[a] # -1 => fd'[a] # fd'[b]
    BY <1>0, <2>2, <2>3, <2>7
  <2>9. \A m \in Numbers : table'[m] # NoFile <=> \E e \in Descriptors : fd'[e] = m
    <3> SUFFICES ASSUME NEW m \in Numbers
                 PROVE  table'[m] # NoFile <=> \E e \in Descriptors : fd'[e] = m
      OBVIOUS
    <3>1. CASE m = n
      BY <1>0, <2>2, <2>3, <2>6, <3>1
    <3>2. CASE m # n
      <4>1. table'[m] = t[m]
        BY <2>6, <3>2
      <4>2. t[m] # NoFile <=> \E e \in Descriptors \ {d} : fd[e] = m
        BY <1>0, <2>1, <2>7
      <4> QED BY <1>0, <2>3, <3>2, <4>1, <4>2
    <3> QED BY <3>1, <3>2
  <2> QED BY <1>0, <2>2, <2>3, <2>6, <2>8, <2>9, OwnersStep
<1>6. ASSUME NEW d \in Descriptors, NEW n \in Std, Dup2(d, n) PROVE OwnersInv'
  <2>1. /\ live' = live /\ fd' = fd /\ table' = [table EXCEPT ![n] = FileOf(fd[d])]
        /\ FileOf(fd[d]) \in Files \cup {NoFile}
    BY <1>0, <1>6 DEF Dup2, FileOf, Tables
  <2>2. table' \in Tables /\ \A m \in Numbers : table'[m] = table[m]
    BY <1>0, <2>1 DEF Tables
  <2> QED BY <1>0, <2>1, <2>2, OwnersStep
<1>7. CASE UNCHANGED vars
  <2>1. live' = live /\ fd' = fd /\ table' = table
    BY <1>7 DEF vars
  <2> QED BY <1>0, <2>1, OwnersStep
<1> QED BY <1>1, <1>2, <1>3, <1>4, <1>5, <1>6, <1>7 DEF Next

\* The inductive invariant holds in every reachable state.
LEMMA OwnersInvariance == Spec => []OwnersInv
BY OwnersInit, OwnersNext, PTL DEF Spec

\* Types, for any objects, files and limit: no object ever gets a number of
\* stdin, stdout and stderr.
THEOREM DescriptorTypes == Spec => []TypeOK
<1>1. OwnersInv => TypeOK
  BY DEF OwnersInv
<1> QED BY <1>1, OwnersInvariance, PTL

\* No number has two owners and none is stale, so that each is closed once.
THEOREM OneOwnerHolds == Spec => []OneOwner
<1>1. OwnersInv => OneOwner
  BY DEF OwnersInv
<1> QED BY <1>1, OwnersInvariance, PTL

\* Every open number is closed by an object in the end.
THEOREM NothingLeaksHolds == Spec => []NothingLeaks
<1>1. OwnersInv => NothingLeaks
  BY DEF OwnersInv
<1> QED BY <1>1, OwnersInvariance, PTL
-----------------------------------------------------------------------------
\* What each object refers to.
File == [d \in Descriptors |-> FileOf(fd[d])]

\* A step whose numbers and table give the objects other files is, for a user,
\* a step in which the file of every object changes in that way.
LEMMA FilesAfter ==
  ASSUME NEW STATE g, \A e \in Descriptors : FileOf(fd[e])' = g[e]
  PROVE  File' = [e \in Descriptors |-> g[e]]
BY DEF File

\* Every step of the objects is a step of FileHandles or none.
LEMMA StepRefines == OwnersInv /\ [Next]_vars => [FH!Next]_File
<1> SUFFICES ASSUME OwnersInv, [Next]_vars PROVE [FH!Next]_File
  OBVIOUS
<1> USE NumberFacts, DescriptorAssumption
<1>0. /\ live \subseteq Descriptors /\ fd \in [Descriptors -> Numbers \cup {-1}]
      /\ table \in Tables /\ \A d \in Descriptors \ live : fd[d] = -1
      /\ \A d, o \in Descriptors : d # o /\ fd[d] # -1 => fd[d] # fd[o]
      /\ \A n \in Numbers : table[n] # NoFile <=> \E d \in Descriptors : fd[d] = n
  BY Before
<1>a. \A e \in Descriptors : fd[e] \in Numbers \cup {-1} /\ File[e] = FileOf(fd[e])
  BY <1>0 DEF File
<1>1. ASSUME NEW d \in Descriptors, Construct(d) PROVE [FH!Next]_File
  <2> DEFINE n == NewNumber(table)
  <2>1. n \in Numbers \cup {-1} /\ (n # -1 => n \in Numbers /\ table[n] = NoFile)
    BY NewNumberIsFree
  <2>2. PICK f \in Files : table' = Opened(table, n, f)
    BY <1>1 DEF Construct
  <2>3. /\ n # -1 => table'[n] = f
        /\ \A m \in Std \cup Numbers : m # n => table'[m] = table[m]
    BY <1>0, <2>1, <2>2, OpenedTable
  <2>4. fd' = [fd EXCEPT ![d] = n] /\ fd[d] = -1
    BY <1>0, <1>1 DEF Construct
  <2> HIDE DEF n
  <2> DEFINE g == [File EXCEPT ![d] = IF n = -1 THEN NoFile ELSE f]
  <2>5. \A e \in Descriptors \ {d} : fd[e] # -1 => fd[e] # n
    BY <1>0, <2>1
  <2>6. \A e \in Descriptors : FileOf(fd[e])' = g[e]
    BY <1>0, <1>a, <2>1, <2>3, <2>4, <2>5 DEF FileOf, File
  <2>7. File' = g
    BY <2>6, FilesAfter DEF File
  <2>8. File[d] = NoFile
    BY <1>a, <2>4 DEF FileOf
  <2>9. CASE n = -1
    <3>1. FH!Drop(d)
      BY <2>7, <2>9 DEF FH!Drop, File
    <3> QED BY <3>1 DEF FH!Next
  <2>10. CASE n # -1
    <3>1. FH!Get(d)
      BY <2>7, <2>8, <2>10 DEF FH!Get, File
    <3> QED BY <3>1 DEF FH!Next
  <2> QED BY <2>9, <2>10
<1>2. ASSUME NEW d \in Descriptors, Close(d) \/ Destroy(d) PROVE [FH!Next]_File
  <2>1. fd' = [fd EXCEPT ![d] = -1] /\ table' = Opened(table, fd[d], NoFile)
    BY <1>2 DEF Close, Destroy, Closed
  <2>2. \A m \in Std \cup Numbers : m # fd[d] => table'[m] = table[m]
    BY <1>0, <2>1, OpenedTable
  <2> DEFINE g == [File EXCEPT ![d] = NoFile]
  <2>3. \A e \in Descriptors : FileOf(fd[e])' = g[e]
    BY <1>0, <1>a, <2>1, <2>2 DEF FileOf, File
  <2>4. File' = g
    BY <2>3, FilesAfter DEF File
  <2>5. FH!Drop(d)
    BY <2>4 DEF FH!Drop, File
  <2> QED BY <2>5 DEF FH!Next
<1>3. ASSUME NEW d \in Descriptors, NEW o \in Descriptors, MoveConstruct(d, o)
      PROVE  [FH!Next]_File
  <2>1. fd' = [fd EXCEPT ![d] = fd[o], ![o] = -1] /\ table' = table /\ d # o
    BY <1>3 DEF MoveConstruct
  <2> DEFINE g == [File EXCEPT ![d] = File[o], ![o] = NoFile]
  <2>2. \A e \in Descriptors : FileOf(fd[e])' = g[e]
    BY <1>0, <1>a, <2>1 DEF FileOf, File
  <2>3. File' = g
    BY <2>2, FilesAfter DEF File
  <2>4. FH!Transfer(d, o)
    BY <2>1, <2>3 DEF FH!Transfer, File
  <2> QED BY <2>4 DEF FH!Next
<1>4. ASSUME NEW d \in Descriptors, NEW o \in Descriptors, MoveAssign(d, o)
      PROVE  [FH!Next]_File
  <2>1. fd' = [fd EXCEPT ![d] = fd[o], ![o] = -1] /\ table' = Opened(table, fd[d], NoFile)
    BY <1>4 DEF MoveAssign, Closed
  <2>2. \A m \in Std \cup Numbers : m # fd[d] => table'[m] = table[m]
    BY <1>0, <2>1, OpenedTable
  <2>3. CASE d = o
    <3> DEFINE g == [File EXCEPT ![d] = NoFile]
    <3>1. fd' = [fd EXCEPT ![d] = -1]
      BY <1>0, <2>1, <2>3
    <3>2. \A e \in Descriptors : FileOf(fd[e])' = g[e]
      BY <1>0, <1>a, <2>2, <3>1 DEF FileOf, File
    <3>3. File' = g
      BY <3>2, FilesAfter DEF File
    <3>4. FH!Drop(d)
      BY <3>3 DEF FH!Drop, File
    <3> QED BY <3>4 DEF FH!Next
  <2>4. CASE d # o
    <3> DEFINE g == [File EXCEPT ![d] = File[o], ![o] = NoFile]
    <3>1. fd[o] # -1 => fd[o] # fd[d]
      BY <1>0, <2>4
    <3>2. \A e \in Descriptors \ {d} : fd[e] # -1 => fd[e] # fd[d]
      BY <1>0
    <3>3. \A e \in Descriptors : FileOf(fd[e])' = g[e]
      BY <1>0, <1>a, <2>1, <2>2, <2>4, <3>1, <3>2 DEF FileOf, File
    <3>4. File' = g
      BY <3>3, FilesAfter DEF File
    <3>5. FH!Transfer(d, o)
      BY <2>4, <3>4 DEF FH!Transfer, File
    <3> QED BY <3>5 DEF FH!Next
  <2> QED BY <2>3, <2>4
<1>5. ASSUME NEW d \in Descriptors, NEW o \in Descriptors, CopyAssign(d, o)
      PROVE  [FH!Next]_File
  <2> DEFINE t == Closed(table, fd[d])
             n == IF o = d \/ fd[o] = -1 THEN -1 ELSE NewNumber(t)
  <2>1. t \in Tables /\ \A m \in Std \cup Numbers : m # fd[d] => t[m] = table[m]
    BY <1>0, OpenedTable DEF Closed
  <2>2. n \in Numbers \cup {-1} /\ (n # -1 => n \in Numbers /\ t[n] = NoFile)
    BY NewNumberIsFree
  <2>3. n # -1 => o # d
    OBVIOUS
  <2>4. fd' = [fd EXCEPT ![d] = n] /\ table' = Opened(t, n, FileOf(fd[o]))
    BY <1>5 DEF CopyAssign
  <2>5. FileOf(fd[o]) \in Files \cup {NoFile}
    BY <1>0 DEF FileOf, Tables
  <2> HIDE DEF t, n
  <2>6. /\ n # -1 => table'[n] = FileOf(fd[o])
        /\ \A m \in Std \cup Numbers : m # n => table'[m] = t[m]
    BY <2>1, <2>2, <2>4, <2>5, OpenedTable
  <2>7. \A e \in Descriptors \ {d} : fd[e] # -1 =>
          fd[e] \in Numbers /\ fd[e] # fd[d] /\ table[fd[e]] # NoFile
    BY <1>0
  <2>8. \A e \in Descriptors \ {d} : fd[e] # -1 => table'[fd[e]] = table[fd[e]]
    BY <2>1, <2>2, <2>6, <2>7
  <2> DEFINE g == [File EXCEPT ![d] = IF n = -1 THEN NoFile ELSE File[o]]
  <2>9. \A e \in Descriptors : FileOf(fd[e])' = g[e]
    BY <1>0, <1>a, <2>2, <2>4, <2>6, <2>8 DEF FileOf, File
  <2>10. File' = g
    BY <2>9, FilesAfter DEF File
  <2>11. CASE n = -1
    <3>1. FH!Drop(d)
      BY <2>10, <2>11 DEF FH!Drop, File
    <3> QED BY <3>1 DEF FH!Next
  <2>12. CASE n # -1
    <3>1. FH!Share(d, o)
      BY <2>3, <2>10, <2>12 DEF FH!Share, File
    <3> QED BY <3>1 DEF FH!Next
  <2> QED BY <2>11, <2>12
<1>6. ASSUME NEW d \in Descriptors, NEW n \in Std, Dup2(d, n) PROVE [FH!Next]_File
  <2>1. fd' = fd /\ table' = [table EXCEPT ![n] = FileOf(fd[d])]
    BY <1>6 DEF Dup2
  <2>2. \A m \in Numbers : table'[m] = table[m]
    BY <1>0, <2>1 DEF Tables
  <2>3. \A e \in Descriptors : FileOf(fd[e])' = File[e]
    BY <1>a, <2>1, <2>2 DEF FileOf
  <2>4. File' = File
    BY <2>3, FilesAfter DEF File
  <2> QED BY <2>4
<1>7. CASE UNCHANGED vars
  BY <1>7 DEF vars, File, FileOf
<1> QED BY <1>1, <1>2, <1>3, <1>4, <1>5, <1>6, <1>7 DEF Next

\* The objects are the handles of FileHandles, for any objects, files and limit:
\* no operation on one of them, and no number used again, touches the file of
\* another.
THEOREM Refinement == Spec => ImplementsFileHandles
<1>1. Init => FH!Init
  BY NumberFacts DEF Init, FH!Init, FileOf
<1>2. OwnersInv /\ [Next]_vars => [FH!Next]_File
  BY StepRefines
<1> QED BY <1>1, <1>2, OwnersInvariance, PTL DEF Spec, ImplementsFileHandles, FH!Spec, File

-----------------------------------------------------------------------------
(***************************************************************************)
(* PipeProtocol                                                            *)
(***************************************************************************)

Byte == PP!SizeByte \cup Char
Gone == {"closed", "waiting"} \cup PP!Ended

Cat(a, b) == a \o b
Beginning(f, n) == SubSeq(f, 1, n)

\* What Protocol::read of q has of the message that is on its way.
Got(q) == IF pc[q] \in {"size", "body"} THEN Cat(size[q], body[q]) ELSE <<>>

\* What was read and what is in the pipe are what was written of the buffer.
Flow(p) == Cat(Got(PP!Other(p)), pipe[p]) = Beginning(frame[p], moved[p])

\* Types, and the two loops of Protocol::read.
BytesInv ==
  /\ pipe \in [PP!Programs -> Seq(Byte)] /\ frame \in [PP!Programs -> Seq(Byte)]
  /\ size \in [PP!Programs -> Seq(Byte)] /\ body \in [PP!Programs -> Seq(Byte)]
  /\ pc \in [PP!Programs -> {"getline", "write", "size", "body"} \cup Gone]
  /\ moved \in [PP!Programs -> Nat] /\ \A p \in PP!Programs : moved[p] <= Len(frame[p])
  /\ asked \in Seq(Lines) /\ printed \in Seq(Seq(Byte))
  /\ \A p \in PP!Programs :
       /\ pc[p] = "size" => Len(size[p]) < SizeLen /\ body[p] = <<>>
       /\ pc[p] = "body" => Len(size[p]) = SizeLen

LastLine == asked[Len(asked)]

\* Between two lines nothing is on its way.
BetweenLines ==
  /\ pc["parent"] = "getline" /\ Len(printed) = Len(asked)
  /\ pipe["parent"] = <<>> /\ pipe["child"] = <<>>
  /\ pc["child"] \in {"write", "size"} \cup PP!Ended
  /\ pc["child"] = "size" => size["child"] = <<>>
  /\ pc["child"] = "write" => moved["child"] = Len(frame["child"])

\* The line is on its way to the child, or the child has ended.
Request ==
  /\ pc["parent"] \in {"write", "size"} /\ Len(asked) = Len(printed) + 1
  /\ frame["parent"] = PP!Frame(LastLine) /\ pipe["child"] = <<>>
  /\ pc["parent"] = "size" =>
       moved["parent"] = Len(frame["parent"]) /\ size["parent"] = <<>>
  /\ pc["child"] \in {"write", "size", "body"} \cup PP!Ended
  /\ pc["child"] = "write" => moved["child"] = Len(frame["child"])
  /\ pc["child"] \notin PP!Ended => Flow("parent")

\* Its copy in upper case is on its way back.
Reply ==
  /\ pc["parent"] \in {"write", "size", "body"} /\ Len(asked) = Len(printed) + 1
  /\ moved["parent"] = Len(frame["parent"]) /\ pipe["parent"] = <<>>
  /\ frame["child"] = PP!Frame(PP!UpperOf(LastLine))
  /\ pc["child"] \in {"write", "size"} \cup PP!Ended
  /\ pc["child"] = "size" =>
       moved["child"] = Len(frame["child"]) /\ size["child"] = <<>>
  /\ Flow("child")

\* The parent has left: the rest of a line, or nothing, is for the child.
Leaving ==
  /\ pc["parent"] \in Gone
  /\ pc["child"] \notin PP!Ended =>
       \/ Got("child") = <<>> /\ pipe["parent"] = <<>>
       \/ Flow("parent") /\ \E s \in Lines : frame["parent"] = PP!Frame(s)

MessagesInv ==
  /\ BytesInv /\ PP!AnswersInOrder
  /\ Leaving \/ BetweenLines \/ Request \/ Reply

-----------------------------------------------------------------------------
\* The parts of a sequence.
LEMMA SplitSequence ==
  ASSUME NEW S, NEW s \in Seq(S), NEW n \in 1 .. Len(s)
  PROVE  /\ SubSeq(s, 1, n) \in Seq(S) /\ Len(SubSeq(s, 1, n)) = n
         /\ SubSeq(s, n + 1, Len(s)) \in Seq(S)
         /\ SubSeq(s, 1, n) \o SubSeq(s, n + 1, Len(s)) = s
<1>1. Len(s) \in Nat /\ \A i \in 1 .. Len(s) : s[i] \in S
  BY LenProperties, ElementOfSeq
<1>2. /\ SubSeq(s, 1, n) \in Seq(S) /\ Len(SubSeq(s, 1, n)) = n
  <2>1. \A i \in 1 .. n : s[i] \in S
    BY <1>1
  <2>2. QED
    BY <1>1, <2>1, SubSeqProperties
<1>3. SubSeq(s, n + 1, Len(s)) \in Seq(S)
  <2>1. \A i \in n + 1 .. Len(s) : s[i] \in S
    BY <1>1
  <2>2. QED
    BY <1>1, <2>1, SubSeqProperties
<1>4. SubSeq(s, 1, n) \o SubSeq(s, n + 1, Len(s)) = SubSeq(s, 1, Len(s))
  <2>1. 1 \in 1 .. Len(s) + 1 /\ n \in 1 - 1 .. Len(s) /\ Len(s) \in n .. Len(s)
    BY <1>1
  <2>2. QED
    BY <2>1, ConcatAdjacentSubSeq
<1>5. QED
  BY <1>2, <1>3, <1>4, SubSeqFull

\* Sequences of bytes, behind each other.
LEMMA CatAssociative ==
  \A a, b, c \in Seq(Byte) : Cat(Cat(a, b), c) = Cat(a, Cat(b, c))
BY ConcatAssociative DEF Cat

\* What two sequences of bytes are, one behind the other.
LEMMA CatFacts ==
  /\ <<>> \in Seq(Byte) /\ Len(<<>>) = 0
  /\ \A a \in Seq(Byte) : Len(a) \in Nat /\ Cat(a, <<>>) = a
  /\ \A a, b \in Seq(Byte) : Cat(a, b) \in Seq(Byte) /\ Len(Cat(a, b)) = Len(a) + Len(b)
<1>1. \A a, b \in Seq(Byte) : Cat(a, b) \in Seq(Byte) /\ Len(Cat(a, b)) = Len(a) + Len(b)
  BY ConcatProperties DEF Cat
<1>2. \A a \in Seq(Byte) : Len(a) \in Nat /\ Cat(a, <<>>) = a
  BY ConcatEmptySeq, LenProperties DEF Cat
<1>3. QED
  BY <1>1, <1>2, EmptySeq

\* The same of three.
LEMMA CatOfThree ==
  \A a, b, c \in Seq(Byte) :
    /\ Len(Cat(Cat(a, b), c)) = Len(a) + Len(b) + Len(c)
    /\ \A i \in 1 .. Len(a) : Cat(Cat(a, b), c)[i] = a[i]
    /\ \A i \in 1 .. Len(b) : Cat(Cat(a, b), c)[Len(a) + i] = b[i]
<1> TAKE a, b, c \in Seq(Byte)
<1>1. \A x, y \in Seq(Byte) : \A i \in 1 .. Len(x) + Len(y) :
        Cat(x, y)[i] = IF i <= Len(x) THEN x[i] ELSE y[i - Len(x)]
  BY ConcatProperties DEF Cat
<1>2. /\ Len(a) \in Nat /\ Len(b) \in Nat /\ Len(c) \in Nat
      /\ Cat(a, b) \in Seq(Byte) /\ Len(Cat(a, b)) = Len(a) + Len(b)
      /\ Len(Cat(Cat(a, b), c)) = Len(a) + Len(b) + Len(c)
  <2>1. /\ Len(a) \in Nat /\ Len(b) \in Nat /\ Len(c) \in Nat
        /\ Cat(a, b) \in Seq(Byte) /\ Len(Cat(a, b)) = Len(a) + Len(b)
    BY CatFacts
  <2>2. Len(Cat(Cat(a, b), c)) = Len(Cat(a, b)) + Len(c)
    BY <2>1, CatFacts
  <2>3. QED
    BY <2>1, <2>2
<1>3. \A i \in 1 .. Len(a) + Len(b) : Cat(Cat(a, b), c)[i] = Cat(a, b)[i]
  <2>1. TAKE i \in 1 .. Len(a) + Len(b)
  <2>2. i \in 1 .. Len(Cat(a, b)) + Len(c) /\ i <= Len(Cat(a, b))
    BY <1>2
  <2>3. QED
    BY <1>1, <1>2, <2>2
<1>4. \A i \in 1 .. Len(a) : Cat(a, b)[i] = a[i]
  <2>1. TAKE i \in 1 .. Len(a)
  <2>2. i \in 1 .. Len(a) + Len(b) /\ i <= Len(a)
    BY <1>2
  <2>3. Cat(a, b)[i] = IF i <= Len(a) THEN a[i] ELSE b[i - Len(a)]
    BY <1>1, <2>2
  <2>4. QED
    BY <2>2, <2>3
<1>5. \A i \in 1 .. Len(b) : Cat(a, b)[Len(a) + i] = b[i]
  <2>1. TAKE i \in 1 .. Len(b)
  <2>2. Len(a) + i \in 1 .. Len(a) + Len(b) /\ ~(Len(a) + i <= Len(a))
    BY <1>2
  <2>3. (Len(a) + i) - Len(a) = i
    BY <1>2
  <2>4. QED
    BY <1>1, <2>2, <2>3
<1>6. QED
  BY <1>2, <1>3, <1>4, <1>5

\* The first 0 bytes of a message are none.
LEMMA NoBeginning == \A f : Beginning(f, 0) = <<>>
BY SubSeqEmpty DEF Beginning

\* A frame is a length and as many characters.
LEMMA FrameFacts ==
  ASSUME NEW s \in Seq(Byte)
  PROVE  /\ PP!Frame(s) \in Seq(Byte) /\ Len(PP!Frame(s)) = SizeLen + Len(s)
         /\ \A i \in 1 .. SizeLen : PP!Frame(s)[i] = PP!SizeBytes(Len(s))[i]
         /\ \A i \in 1 .. Len(s) : PP!Frame(s)[SizeLen + i] = s[i]
         /\ PP!SizeBytes(Len(s)) \in Seq(Byte) /\ Len(PP!SizeBytes(Len(s))) = SizeLen
<1>1. SizeLen \in Nat /\ Len(s) \in Nat
  BY LenProperties, PipesAssumption DEF PP!SizeAssumption
<1>2. PP!SizeBytes(Len(s)) \in Seq(Byte) /\ Len(PP!SizeBytes(Len(s))) = SizeLen
  <2>1. \A k \in 1 .. SizeLen : <<Len(s), k>> \in Byte
    BY <1>1 DEF Byte, PP!SizeByte
  <2>2. PP!SizeBytes(Len(s)) \in [1 .. SizeLen -> Byte]
    BY <2>1 DEF PP!SizeBytes
  <2>3. QED
    BY <1>1, <2>2
<1> HIDE DEF Byte, PP!SizeBytes
<1>3. /\ PP!Frame(s) \in Seq(Byte) /\ Len(PP!Frame(s)) = SizeLen + Len(s)
      /\ \A i \in 1 .. SizeLen + Len(s) :
           PP!Frame(s)[i] = IF i <= SizeLen THEN PP!SizeBytes(Len(s))[i] ELSE s[i - SizeLen]
  BY <1>2, ConcatProperties DEF PP!Frame
<1>4. QED
  BY <1>1, <1>2, <1>3

\* A length is read as the length of the line it was made of.
LEMMA SizeIsUnderstood ==
  ASSUME NEW s \in Lines
  PROVE  PP!SizeOf(PP!SizeBytes(Len(s))) = Len(s)
<1>1. SizeLen \in Nat \ {0}
  BY PipesAssumption DEF PP!SizeAssumption
<1>2. ASSUME NEW r \in Lines, PP!SizeBytes(Len(s)) = PP!SizeBytes(Len(r)) PROVE Len(r) = Len(s)
  <2>1. PP!SizeBytes(Len(s))[1] = <<Len(s), 1>> /\ PP!SizeBytes(Len(r))[1] = <<Len(r), 1>>
    BY <1>1 DEF PP!SizeBytes
  <2>2. QED
    BY <1>2, <2>1
<1>3. QED
  BY <1>2 DEF PP!SizeOf

\* The copy in upper case is as long as the line.
LEMMA UpperFacts ==
  /\ \A s \in Seq(Byte) : PP!UpperOf(s) \in Seq(Byte) /\ Len(PP!UpperOf(s)) = Len(s)
  /\ \A s \in Seq(Char) : PP!UpperOf(s) \in Seq(Char)
<1>1. \A c \in Char : Upper[c] \in Char
  BY PipesAssumption DEF PP!CharAssumption
<1>2. ASSUME NEW S, Char \subseteq S, NEW s \in Seq(S)
      PROVE  PP!UpperOf(s) \in Seq(S) /\ Len(PP!UpperOf(s)) = Len(s)
  <2>1. Len(s) \in Nat /\ DOMAIN s = 1 .. Len(s) /\ \A i \in 1 .. Len(s) : s[i] \in S
    BY LenProperties, ElementOfSeq
  <2>2. PP!UpperOf(s) \in [1 .. Len(s) -> S]
    BY <1>1, <1>2, <2>1 DEF PP!UpperOf
  <2>3. QED
    BY <2>1, <2>2
<1>3. QED
  BY <1>2 DEF Byte

-----------------------------------------------------------------------------
\* What a message is made of when it is complete.
LEMMA WholeMessage ==
  \A l \in Lines : \A s, sz, bd, rest \in Seq(Byte) : \A m \in Nat :
           /\ Len(s) = Len(l) /\ m <= Len(PP!Frame(s))
           /\ Len(sz) = SizeLen /\ Len(bd) = PP!SizeOf(sz)
           /\ Cat(Cat(sz, bd), rest) = Beginning(PP!Frame(s), m)
           => bd = s /\ rest = <<>> /\ m = Len(PP!Frame(s))
<1> SUFFICES ASSUME NEW l \in Lines, NEW s \in Seq(Byte), NEW sz \in Seq(Byte),
                    NEW bd \in Seq(Byte), NEW rest \in Seq(Byte), NEW m \in Nat,
                    Len(s) = Len(l), m <= Len(PP!Frame(s)),
                    Len(sz) = SizeLen, Len(bd) = PP!SizeOf(sz),
                    Cat(Cat(sz, bd), rest) = Beginning(PP!Frame(s), m)
             PROVE  bd = s /\ rest = <<>> /\ m = Len(PP!Frame(s))
  OBVIOUS
<1> DEFINE f == PP!Frame(s)
<1>0. f = PP!Frame(s) /\ m <= Len(f) /\ Cat(Cat(sz, bd), rest) = Beginning(f, m)
  OBVIOUS
<1>1. /\ SizeLen \in Nat /\ Len(s) \in Nat /\ Len(sz) \in Nat /\ Len(bd) \in Nat
      /\ Len(rest) \in Nat
  BY LenProperties, PipesAssumption DEF PP!SizeAssumption
<1>2. /\ f \in Seq(Byte) /\ Len(f) = SizeLen + Len(s)
      /\ \A i \in 1 .. SizeLen : f[i] = PP!SizeBytes(Len(s))[i]
      /\ \A i \in 1 .. Len(s) : f[SizeLen + i] = s[i]
      /\ PP!SizeBytes(Len(s)) \in Seq(Byte) /\ Len(PP!SizeBytes(Len(s))) = SizeLen
  BY FrameFacts
<1> HIDE DEF f
<1>3. /\ Len(SubSeq(f, 1, m)) = m
      /\ \A i \in 1 .. m : SubSeq(f, 1, m)[i] = f[i]
  <2>1. \A i \in 1 .. m : f[i] \in Byte
    BY <1>0, <1>1, <1>2, ElementOfSeq
  <2>2. QED
    BY <2>1, SubSeqProperties
<1> DEFINE whole == Cat(Cat(sz, bd), rest)
<1>4. /\ Len(whole) = SizeLen + Len(bd) + Len(rest)
      /\ \A i \in 1 .. SizeLen : whole[i] = sz[i]
      /\ \A i \in 1 .. Len(bd) : whole[SizeLen + i] = bd[i]
  <2>1. /\ Len(whole) = Len(sz) + Len(bd) + Len(rest)
        /\ \A i \in 1 .. Len(sz) : whole[i] = sz[i]
        /\ \A i \in 1 .. Len(bd) : whole[Len(sz) + i] = bd[i]
    BY CatOfThree, Zenon
  <2>2. QED
    BY <2>1, Zenon
<1>5. whole = SubSeq(f, 1, m)
  BY <1>0 DEF Beginning
<1> HIDE DEF whole
<1>6. m = SizeLen + Len(bd) + Len(rest) /\ \A i \in 1 .. m : whole[i] = f[i]
  BY <1>3, <1>4, <1>5
<1>7. sz = PP!SizeBytes(Len(s))
  <2>1. \A i \in 1 .. SizeLen : sz[i] = f[i]
    BY <1>1, <1>4, <1>6
  <2>2. \A i \in 1 .. SizeLen : sz[i] = PP!SizeBytes(Len(s))[i]
    BY <1>2, <2>1
  <2>3. QED
    BY <1>2, <2>2, SeqEqual
<1>8. Len(bd) = Len(s)
  BY <1>7, SizeIsUnderstood
<1>9. bd = s
  <2>1. \A i \in 1 .. Len(bd) : bd[i] = f[SizeLen + i]
    <3>1. TAKE i \in 1 .. Len(bd)
    <3>2. SizeLen + i \in 1 .. m
      BY <1>1, <1>6
    <3>3. QED
      BY <1>4, <1>6, <3>2
  <2>2. \A i \in 1 .. Len(bd) : bd[i] = s[i]
    BY <1>2, <1>8, <2>1
  <2>3. QED
    BY <1>8, <2>2, SeqEqual
<1>10. Len(rest) = 0 /\ m = Len(f)
  BY <1>0, <1>1, <1>2, <1>6, <1>8
<1>11. QED
  BY <1>0, <1>9, <1>10, EmptySeq

-----------------------------------------------------------------------------
\* There are two programs, each the other of the other.
LEMMA OtherFacts ==
  /\ PP!Programs = {"parent", "child"} /\ "parent" # "child"
  /\ PP!Other("parent") = "child" /\ PP!Other("child") = "parent"
  /\ \A p \in PP!Programs :
       PP!Other(p) \in PP!Programs /\ PP!Other(p) # p /\ PP!Other(PP!Other(p)) = p
BY DEF PP!Programs, PP!Other

\* The types of the loops at the start.
LEMMA BytesInit == ASSUME PP!Init PROVE BytesInv
<1>1. SizeLen \in Nat \ {0}
  BY PipesAssumption DEF PP!SizeAssumption
<1>2. <<>> \in Seq(Byte) /\ Len(<<>>) = 0 /\ <<>> \in Seq(Lines) /\ <<>> \in Seq(Seq(Byte))
  BY EmptySeq
<1>3. QED
  BY <1>1, <1>2 DEF BytesInv, PP!Init, PP!Programs, Gone, PP!Ended

\* Writing goes on where the last write ended.
LEMMA WriteFlows ==
  ASSUME BytesInv, NEW p \in PP!Programs, PP!Write(p)
  PROVE  BytesInv' /\ (Flow(p) => Flow(p)')
<1> DEFINE m == moved[p]
           f == frame[p]
           q == PP!Other(p)
<1>1. /\ f \in Seq(Byte) /\ m \in Nat /\ m <= Len(f) /\ pipe[p] \in Seq(Byte)
      /\ q \in PP!Programs /\ size[q] \in Seq(Byte) /\ body[q] \in Seq(Byte)
  BY OtherFacts DEF BytesInv
<1>2. PICK n \in 1 .. Len(f) - m :
        /\ pipe' = [pipe EXCEPT ![p] = @ \o SubSeq(f, m + 1, m + n)]
        /\ moved' = [moved EXCEPT ![p] = @ + n]
  BY DEF PP!Write
<1>3. UNCHANGED <<pc, frame, size, body, asked, printed, sigterm>>
  BY DEF PP!Write
<1>4. Len(f) \in Nat /\ \A i \in 1 .. Len(f) : f[i] \in Byte
  BY <1>1, LenProperties, ElementOfSeq
<1> DEFINE piece == SubSeq(f, m + 1, m + n)
<1>5. piece \in Seq(Byte) /\ SubSeq(f, 1, m) \in Seq(Byte)
  <2>1. /\ \A i \in m + 1 .. m + n : f[i] \in Byte
        /\ \A i \in 1 .. m : f[i] \in Byte
    BY <1>1, <1>4
  <2>2. m + 1 \in Int /\ m + n \in Int
    BY <1>1, <1>4
  <2>3. piece \in Seq(Byte)
    BY <2>1, <2>2, SubSeqProperties, Zenon
  <2>4. SubSeq(f, 1, m) \in Seq(Byte)
    BY <1>1, <1>4, <2>1, SubSeqProperties
  <2>5. QED
    BY <2>3, <2>4
<1>6. SubSeq(f, 1, m) \o piece = SubSeq(f, 1, m + n)
  <2>1. /\ 1 \in 1 .. Len(f) + 1 /\ m \in 1 - 1 .. Len(f) /\ m + n \in m .. Len(f)
    BY <1>1, <1>4
  <2>2. QED
    BY <1>1, <2>1, ConcatAdjacentSubSeq
<1>7. pipe' = [pipe EXCEPT ![p] = Cat(@, piece)]
  BY <1>2 DEF Cat
<1> HIDE DEF piece
<1>8. Cat(pipe[p], piece) \in Seq(Byte)
  BY <1>1, <1>5, CatFacts
<1>9. /\ pipe'[p] = Cat(pipe[p], piece) /\ pipe' \in [PP!Programs -> Seq(Byte)]
      /\ moved'[p] = m + n /\ m + n \in Nat /\ m + n <= Len(f)
  <2>1. pipe'[p] = Cat(pipe[p], piece) /\ pipe' \in [PP!Programs -> Seq(Byte)]
    BY <1>7, <1>8 DEF BytesInv
  <2>2. moved'[p] = m + n
    BY <1>2 DEF BytesInv
  <2>3. m + n \in Nat /\ m + n <= Len(f)
    BY <1>1, <1>4
  <2>4. QED
    BY <2>1, <2>2, <2>3
<1>10. Got(q) \in Seq(Byte) /\ Got(q)' = Got(q)
  BY <1>1, <1>3, CatFacts DEF Got
<1>11. ASSUME Flow(p) PROVE Flow(p)'
  <2>1. Cat(Got(q), Cat(pipe[p], piece)) = Cat(Cat(Got(q), pipe[p]), piece)
    BY <1>1, <1>5, <1>10, CatAssociative
  <2>2. Cat(Got(q), pipe[p]) = SubSeq(f, 1, m)
    BY <1>11 DEF Flow, Beginning
  <2>3. Cat(SubSeq(f, 1, m), piece) = SubSeq(f, 1, m + n)
    BY <1>6 DEF Cat
  <2>4. QED
    BY <1>3, <1>9, <1>10, <2>1, <2>2, <2>3 DEF Flow, Beginning
<1>12. BytesInv'
  <2>1. moved' \in [PP!Programs -> Nat] /\ \A r \in PP!Programs : moved'[r] <= Len(frame'[r])
    BY <1>2, <1>3, <1>9 DEF BytesInv
  <2>2. QED
    BY <1>3, <1>9, <2>1 DEF BytesInv
<1>13. QED
  BY <1>11, <1>12

\* Reading moves a part of the pipe behind what was read.
LEMMA ReadFlows ==
  ASSUME BytesInv, NEW q \in PP!Programs, PP!ReadSize(q) \/ PP!ReadBody(q)
  PROVE  /\ BytesInv' /\ (Flow(PP!Other(q)) => Flow(PP!Other(q))')
         /\ pipe[PP!Other(q)] # <<>>
         /\ pc'[q] \in {"size", "body"} /\ pipe'[q] = pipe[q]
         /\ \A r \in PP!Programs \ {q} : pc'[r] = pc[r] /\ size'[r] = size[r]
<1> DEFINE p == PP!Other(q)
<1>1. /\ p \in PP!Programs /\ p # q /\ pipe[p] \in Seq(Byte)
      /\ size[q] \in Seq(Byte) /\ body[q] \in Seq(Byte)
  BY OtherFacts DEF BytesInv
<1>2. PICK n \in 1 .. Len(pipe[p]) :
        /\ pipe' = [pipe EXCEPT ![p] = SubSeq(pipe[p], n + 1, Len(pipe[p]))]
        /\ \/ /\ pc[q] = "size" /\ Len(size[q]) + n <= SizeLen
              /\ size' = [size EXCEPT ![q] = Cat(size[q], SubSeq(pipe[p], 1, n))]
              /\ body' = body
              /\ IF Len(size[q]) + n = SizeLen THEN PP!Go(q, "body") ELSE UNCHANGED pc
           \/ /\ pc[q] = "body"
              /\ body' = [body EXCEPT ![q] = Cat(body[q], SubSeq(pipe[p], 1, n))]
              /\ UNCHANGED <<pc, size>>
  BY DEF PP!ReadSize, PP!ReadBody, PP!Take, PP!First, Cat
<1>3. UNCHANGED <<frame, moved, asked, printed, sigterm>>
  BY DEF PP!ReadSize, PP!ReadBody
<1> DEFINE first == SubSeq(pipe[p], 1, n)
           last == SubSeq(pipe[p], n + 1, Len(pipe[p]))
<1>4. /\ first \in Seq(Byte) /\ Len(first) = n /\ last \in Seq(Byte)
      /\ Cat(first, last) = pipe[p]
  BY <1>1, SplitSequence DEF Cat
<1> HIDE DEF first, last
<1>5. Len(pipe[p]) \in Nat /\ pipe[p] # <<>>
  BY <1>1, EmptySeq
<1>6. pipe' = [pipe EXCEPT ![p] = last]
  BY <1>2 DEF last
<1>7. pipe' \in [PP!Programs -> Seq(Byte)] /\ pipe'[p] = last /\ pipe'[q] = pipe[q]
  BY <1>1, <1>4, <1>6 DEF BytesInv
<1>8. SizeLen \in Nat /\ Len(size[q]) \in Nat
  BY <1>1, LenProperties, PipesAssumption DEF PP!SizeAssumption
<1>9. CASE pc[q] = "size"
  <2>1. /\ size' = [size EXCEPT ![q] = Cat(@, first)] /\ body' = body
        /\ IF Len(size[q]) + n = SizeLen THEN PP!Go(q, "body") ELSE UNCHANGED pc
        /\ Len(size[q]) + n <= SizeLen
    BY <1>2, <1>9 DEF first
  <2>2. Cat(size[q], first) \in Seq(Byte) /\ Len(Cat(size[q], first)) = Len(size[q]) + n
    BY <1>1, <1>4, CatFacts
  <2>3. size' \in [PP!Programs -> Seq(Byte)] /\ size'[q] = Cat(size[q], first)
        /\ \A r \in PP!Programs \ {q} : size'[r] = size[r]
    BY <2>1, <2>2 DEF BytesInv
  <2>4. /\ pc' \in [PP!Programs -> {"getline", "write", "size", "body"} \cup Gone]
        /\ pc'[q] = IF Len(size[q]) + n = SizeLen THEN "body" ELSE "size"
        /\ \A r \in PP!Programs \ {q} : pc'[r] = pc[r]
    BY <1>9, <2>1 DEF BytesInv, PP!Go
  <2>5. body[q] = <<>>
    BY <1>9 DEF BytesInv
  <2>6. \A r \in PP!Programs :
          /\ pc'[r] = "size" => Len(size'[r]) < SizeLen /\ body'[r] = <<>>
          /\ pc'[r] = "body" => Len(size'[r]) = SizeLen
    <3>1. TAKE r \in PP!Programs
    <3>2. CASE r = q
      BY <1>8, <2>1, <2>2, <2>3, <2>4, <2>5, <3>2
    <3>3. CASE r # q
      BY <2>1, <2>3, <2>4, <3>3 DEF BytesInv
    <3>4. QED
      BY <3>2, <3>3
  <2>7. BytesInv'
    BY <1>3, <1>7, <2>1, <2>3, <2>4, <2>6 DEF BytesInv
  <2>8. Got(q) = size[q] /\ Got(q)' = Cat(size[q], first)
    <3>1. Cat(size[q], <<>>) = size[q] /\ Cat(Cat(size[q], first), <<>>) = Cat(size[q], first)
      BY <1>1, <2>2, CatFacts
    <3>2. QED
      BY <1>9, <2>1, <2>3, <2>4, <2>5, <3>1 DEF Got
  <2>9. Cat(Got(q)', pipe'[p]) = Cat(Got(q), pipe[p])
    BY <1>1, <1>4, <1>7, <2>8, CatAssociative
  <2>10. QED
    BY <1>3, <1>5, <1>7, <2>3, <2>4, <2>7, <2>9, OtherFacts DEF Flow
<1>10. CASE pc[q] = "body"
  <2>1. body' = [body EXCEPT ![q] = Cat(@, first)] /\ UNCHANGED <<pc, size>>
    BY <1>2, <1>10 DEF first
  <2>2. Cat(body[q], first) \in Seq(Byte)
    BY <1>1, <1>4, CatFacts
  <2>3. body' \in [PP!Programs -> Seq(Byte)] /\ body'[q] = Cat(body[q], first)
        /\ \A r \in PP!Programs \ {q} : body'[r] = body[r]
    BY <2>1, <2>2 DEF BytesInv
  <2>4. \A r \in PP!Programs :
          /\ pc'[r] = "size" => Len(size'[r]) < SizeLen /\ body'[r] = <<>>
          /\ pc'[r] = "body" => Len(size'[r]) = SizeLen
    BY <1>10, <2>1, <2>3 DEF BytesInv
  <2>5. BytesInv'
    BY <1>3, <1>7, <2>1, <2>3, <2>4 DEF BytesInv
  <2>6. Got(q) = Cat(size[q], body[q]) /\ Got(q)' = Cat(size[q], Cat(body[q], first))
    BY <1>10, <2>1, <2>3 DEF Got
  <2>7. /\ Cat(size[q], Cat(body[q], first)) = Cat(Cat(size[q], body[q]), first)
        /\ Cat(size[q], body[q]) \in Seq(Byte)
    BY <1>1, <1>4, CatAssociative, CatFacts
  <2>8. Cat(Cat(Cat(size[q], body[q]), first), last) = Cat(Cat(size[q], body[q]), Cat(first, last))
    BY <1>4, <2>7, CatAssociative
  <2>9. Cat(Got(q)', pipe'[p]) = Cat(Got(q), pipe[p])
    BY <1>4, <1>7, <2>6, <2>7, <2>8
  <2>10. QED
    BY <1>3, <1>5, <1>7, <1>10, <2>1, <2>5, <2>9, OtherFacts DEF Flow
<1>11. QED
  BY <1>2, <1>9, <1>10
-----------------------------------------------------------------------------
\* The last line, and its copy.
LEMMA LastLineFacts ==
  ASSUME BytesInv, Len(printed) \in Nat, Len(asked) = Len(printed) + 1
  PROVE  /\ LastLine \in Lines /\ LastLine \in Seq(Byte)
         /\ PP!UpperOf(LastLine) \in Seq(Byte) /\ Len(PP!UpperOf(LastLine)) = Len(LastLine)
<1>1. Len(asked) \in 1 .. Len(asked) /\ asked \in Seq(Lines)
  BY DEF BytesInv
<1>2. LastLine \in Lines
  BY <1>1, ElementOfSeq DEF LastLine
<1>3. LastLine \in Seq(Byte)
  BY <1>2, SeqMonotonic, PipesAssumption DEF PP!CharAssumption, Byte
<1>4. QED
  BY <1>2, <1>3, UpperFacts

\* The exchange begins with nothing under way.
LEMMA MessagesInit == ASSUME PP!Init PROVE MessagesInv
<1>1. BytesInv
  BY BytesInit
<1>2. Len(asked) = 0 /\ Len(printed) = 0 /\ DOMAIN printed = {}
  BY DEF PP!Init
<1>3. PP!AnswersInOrder
  BY <1>2 DEF PP!AnswersInOrder
<1>4. BetweenLines
  BY <1>2, OtherFacts DEF PP!Init, BetweenLines
<1>5. QED
  BY <1>1, <1>3, <1>4 DEF MessagesInv

\* A program leaves its loop, or ends.
LEMMA LeavesStep ==
  ASSUME MessagesInv, NEW p \in PP!Programs,
         NEW x \in IF p = "parent" THEN Gone ELSE PP!Ended,
         pc' = [pc EXCEPT ![p] = x],
         UNCHANGED <<pipe, frame, size, body, moved, asked, printed>>
  PROVE  MessagesInv'
<1>1. /\ x \in Gone /\ x \notin {"getline", "write", "size", "body"}
      /\ pc' \in [PP!Programs -> {"getline", "write", "size", "body"} \cup Gone]
      /\ pc'[p] = x /\ \A r \in PP!Programs \ {p} : pc'[r] = pc[r]
  BY DEF MessagesInv, BytesInv, Gone, PP!Ended
<1>2. BytesInv' /\ PP!AnswersInOrder'
  BY <1>1 DEF MessagesInv, BytesInv, PP!AnswersInOrder
<1>3. CASE p = "parent"
  <2>1. pc'["parent"] \in Gone /\ pc'["child"] = pc["child"]
    BY <1>1, <1>3, OtherFacts
  <2>2. Got("child")' = Got("child") /\ Flow("parent")' = Flow("parent")
    BY <2>1, OtherFacts DEF Got, Flow
  <2>3. Cat(<<>>, <<>>) = <<>>
    BY CatFacts
  <2>4. ASSUME BetweenLines \/ Reply, pc["child"] \notin PP!Ended
        PROVE  Got("child") = <<>> /\ pipe["parent"] = <<>>
    <3>1. /\ pc["child"] \in {"write", "size"} /\ pipe["parent"] = <<>>
          /\ pc["child"] = "size" => size["child"] = <<>> /\ body["child"] = <<>>
      BY <2>4, OtherFacts DEF BetweenLines, Reply, MessagesInv, BytesInv
    <3>2. QED
      BY <2>3, <3>1 DEF Got
  <2>5. ASSUME Request, pc["child"] \notin PP!Ended
        PROVE  Flow("parent") /\ \E s \in Lines : frame["parent"] = PP!Frame(s)
    <3>1. LastLine \in Lines
      BY <2>5, LastLineFacts, LenProperties DEF Request, MessagesInv, BytesInv
    <3>2. QED
      BY <2>5, <3>1 DEF Request
  <2>6. Leaving'
    BY <2>1, <2>2, <2>4, <2>5 DEF MessagesInv, Leaving
  <2>7. QED
    BY <1>2, <2>6 DEF MessagesInv
<1>4. CASE p = "child"
  <2>1. pc'["parent"] = pc["parent"] /\ pc'["child"] \in PP!Ended
    BY <1>1, <1>4, OtherFacts
  <2>2. LastLine' = LastLine /\ Got("parent")' = Got("parent")
    BY <2>1 DEF LastLine, Got
  <2>3. pc'["child"] \notin {"size", "write"}
    BY <2>1 DEF PP!Ended
  <2>4. BetweenLines => BetweenLines'
    BY <2>1, <2>3 DEF BetweenLines
  <2>5. Request => Request'
    BY <2>1, <2>2, <2>3 DEF Request
  <2>6. Flow("child") => Flow("child")'
    BY <2>2, OtherFacts DEF Flow
  <2>7. Reply => Reply'
    BY <2>1, <2>2, <2>3, <2>6 DEF Reply
  <2>8. Leaving => Leaving'
    BY <2>1 DEF Leaving
  <2>9. QED
    BY <1>2, <2>4, <2>5, <2>7, <2>8 DEF MessagesInv
<1>5. QED
  BY <1>3, <1>4, OtherFacts

\* write moves bytes from the buffer to the pipe, and Flow stays.
LEMMA WriteStep ==
  ASSUME MessagesInv, NEW p \in PP!Programs, PP!Write(p)
  PROVE  MessagesInv'
<1>1. BytesInv /\ BytesInv' /\ (Flow(p) => Flow(p)')
  BY WriteFlows DEF MessagesInv
<1>2. /\ UNCHANGED <<pc, frame, size, body, asked, printed>>
      /\ pc[p] = "write" /\ moved[p] < Len(frame[p])
      /\ \A r \in PP!Programs \ {p} : pipe'[r] = pipe[r] /\ moved'[r] = moved[r]
  BY <1>1 DEF PP!Write, BytesInv
<1>3. PP!AnswersInOrder' /\ LastLine' = LastLine
  BY <1>2 DEF MessagesInv, PP!AnswersInOrder, LastLine
<1>4. moved[p] # Len(frame[p])
  BY <1>1, <1>2 DEF BytesInv
<1>5. CASE Leaving
  <2>1. p = "parent" \/ PP!HasPipes("parent")
    BY OtherFacts DEF PP!Write
  <2>2. QED
    BY <1>2, <1>5, <2>1 DEF Leaving, PP!HasPipes, Gone, PP!Ended
<1>6. CASE BetweenLines
  BY <1>2, <1>4, <1>6, OtherFacts DEF BetweenLines
<1>7. CASE Request
  <2>1. p = "parent"
    BY <1>2, <1>4, <1>7, OtherFacts DEF Request
  <2>2. Request'
    BY <1>1, <1>2, <1>3, <1>7, <2>1, OtherFacts DEF Request
  <2>3. QED
    BY <1>1, <1>3, <2>2 DEF MessagesInv
<1>8. CASE Reply
  <2>1. p = "child"
    BY <1>4, <1>8, OtherFacts DEF Reply
  <2>2. Reply'
    BY <1>1, <1>2, <1>3, <1>8, <2>1, OtherFacts DEF Reply
  <2>3. QED
    BY <1>1, <1>3, <2>2 DEF MessagesInv
<1>9. QED
  BY <1>5, <1>6, <1>7, <1>8 DEF MessagesInv

\* read moves bytes from the pipe to what was read, and Flow stays.
LEMMA ReadStep ==
  ASSUME MessagesInv, NEW q \in PP!Programs, PP!ReadSize(q) \/ PP!ReadBody(q)
  PROVE  MessagesInv'
<1>1. /\ BytesInv' /\ (Flow(PP!Other(q)) => Flow(PP!Other(q))')
      /\ pipe[PP!Other(q)] # <<>>
      /\ pc'[q] \in {"size", "body"} /\ pipe'[q] = pipe[q]
      /\ \A r \in PP!Programs \ {q} : pc'[r] = pc[r] /\ size'[r] = size[r]
  BY ReadFlows DEF MessagesInv
<1>2. UNCHANGED <<frame, moved, asked, printed>> /\ pc[q] \in {"size", "body"}
  BY DEF PP!ReadSize, PP!ReadBody
<1>3. PP!AnswersInOrder' /\ LastLine' = LastLine
  BY <1>2 DEF MessagesInv, PP!AnswersInOrder, LastLine
<1>4. CASE Leaving
  <2>1. q = "child" /\ pc["child"] \notin PP!Ended
    BY <1>2, <1>4, OtherFacts DEF Leaving, Gone, PP!Ended
  <2>2. pc'["parent"] \in Gone
    BY <1>1, <1>4, <2>1, OtherFacts DEF Leaving
  <2>3. Flow("parent")' /\ \E s \in Lines : frame'["parent"] = PP!Frame(s)
    BY <1>1, <1>2, <1>4, <2>1, OtherFacts DEF Leaving
  <2>4. Leaving'
    BY <2>2, <2>3 DEF Leaving
  <2>5. QED
    BY <1>1, <1>3, <2>4 DEF MessagesInv
<1>5. CASE BetweenLines
  BY <1>1, <1>5, OtherFacts DEF BetweenLines
<1>6. CASE Request
  <2>1. q = "child"
    BY <1>1, <1>6, OtherFacts DEF Request
  <2>2. pc["child"] \notin PP!Ended
    BY <1>2, <2>1 DEF PP!Ended
  <2>3. Request'
    BY <1>1, <1>2, <1>3, <1>6, <2>1, <2>2, OtherFacts DEF Request
  <2>4. QED
    BY <1>1, <1>3, <2>3 DEF MessagesInv
<1>7. CASE Reply
  <2>1. q = "parent"
    BY <1>1, <1>7, OtherFacts DEF Reply
  <2>2. Reply'
    BY <1>1, <1>2, <1>3, <1>7, <2>1, OtherFacts DEF Reply
  <2>3. QED
    BY <1>1, <1>3, <2>2 DEF MessagesInv
<1>8. QED
  BY <1>4, <1>5, <1>6, <1>7 DEF MessagesInv

\* A program begins to read when nothing of a message was read.
LEMMA StartReadStep ==
  ASSUME MessagesInv, NEW p \in PP!Programs, PP!StartRead(p)
  PROVE  MessagesInv'
<1>1. /\ UNCHANGED <<pipe, frame, moved, asked, printed>>
      /\ pc[p] = "write" /\ moved[p] = Len(frame[p])
      /\ pc' = [pc EXCEPT ![p] = "size"]
      /\ size' = [size EXCEPT ![p] = <<>>] /\ body' = [body EXCEPT ![p] = <<>>]
  BY DEF PP!StartRead, PP!Go
<1>2. SizeLen \in Nat \ {0} /\ <<>> \in Seq(Byte) /\ Len(<<>>) = 0
  BY CatFacts, PipesAssumption DEF PP!SizeAssumption
<1>3. /\ pc'[p] = "size" /\ size'[p] = <<>> /\ body'[p] = <<>>
      /\ \A r \in PP!Programs \ {p} :
           pc'[r] = pc[r] /\ size'[r] = size[r] /\ body'[r] = body[r]
  BY <1>1 DEF MessagesInv, BytesInv
<1>4. BytesInv'
  BY <1>1, <1>2, <1>3 DEF MessagesInv, BytesInv
<1>5. PP!AnswersInOrder' /\ LastLine' = LastLine
  BY <1>1 DEF MessagesInv, PP!AnswersInOrder, LastLine
<1>6. \A r \in PP!Programs : Got(r)' = Got(r)
  <2>1. Cat(<<>>, <<>>) = <<>>
    BY CatFacts
  <2>2. QED
    BY <1>1, <1>3, <2>1 DEF Got
<1>7. \A r \in PP!Programs : Flow(r) => Flow(r)'
  BY <1>1, <1>6, OtherFacts DEF Flow
<1>8. CASE Leaving
  <2>1. p = "child" /\ pc["child"] \notin PP!Ended
    BY <1>1, <1>8, OtherFacts DEF Leaving, Gone, PP!Ended
  <2>2. Leaving'
    BY <1>1, <1>3, <1>6, <1>7, <1>8, <2>1, OtherFacts DEF Leaving
  <2>3. QED
    BY <1>4, <1>5, <2>2 DEF MessagesInv
<1>9. CASE BetweenLines
  <2>1. BetweenLines'
    BY <1>1, <1>3, <1>9, OtherFacts DEF BetweenLines
  <2>2. QED
    BY <1>4, <1>5, <2>1 DEF MessagesInv
<1>10. CASE Request
  <2>1. Request'
    BY <1>1, <1>3, <1>5, <1>7, <1>10, OtherFacts DEF Request, PP!Ended
  <2>2. QED
    BY <1>4, <1>5, <2>1 DEF MessagesInv
<1>11. CASE Reply
  <2>1. Reply'
    BY <1>1, <1>3, <1>5, <1>7, <1>11, OtherFacts DEF Reply
  <2>2. QED
    BY <1>4, <1>5, <2>1 DEF MessagesInv
<1>12. QED
  BY <1>8, <1>9, <1>10, <1>11 DEF MessagesInv

-----------------------------------------------------------------------------
\* The child answers a whole request, and both pipes are empty.
LEMMA AnswerStep ==
  ASSUME MessagesInv, PP!Answer
  PROVE  MessagesInv'
<1>1. /\ UNCHANGED <<pipe, size, body, asked, printed>>
      /\ pc["child"] = "body" /\ Len(body["child"]) = PP!SizeOf(size["child"])
      /\ pc' = [pc EXCEPT !["child"] = "write"]
      /\ frame' = [frame EXCEPT !["child"] = PP!Frame(PP!UpperOf(body["child"]))]
      /\ moved' = [moved EXCEPT !["child"] = 0]
  BY DEF PP!Answer, PP!GotMessage, PP!StartWrite, PP!Go
<1>2. /\ BytesInv /\ size["child"] \in Seq(Byte) /\ body["child"] \in Seq(Byte)
      /\ pipe["parent"] \in Seq(Byte) /\ moved["parent"] \in Nat
      /\ moved["parent"] <= Len(frame["parent"])
      /\ Len(size["child"]) = SizeLen /\ Len(printed) \in Nat
  BY <1>1, OtherFacts, LenProperties DEF MessagesInv, BytesInv
<1>3. /\ PP!Frame(PP!UpperOf(body["child"])) \in Seq(Byte)
      /\ Len(PP!Frame(PP!UpperOf(body["child"]))) \in Nat
  BY <1>2, UpperFacts, FrameFacts, LenProperties
<1>4. /\ pc'["child"] = "write" /\ pc'["parent"] = pc["parent"]
      /\ moved'["child"] = 0 /\ moved'["parent"] = moved["parent"]
      /\ frame'["child"] = PP!Frame(PP!UpperOf(body["child"])) /\ frame'["parent"] = frame["parent"]
  BY <1>1, <1>2, OtherFacts DEF BytesInv
<1>5. BytesInv'
  <2>1. /\ frame' \in [PP!Programs -> Seq(Byte)] /\ moved' \in [PP!Programs -> Nat]
        /\ pc' \in [PP!Programs -> {"getline", "write", "size", "body"} \cup Gone]
    BY <1>1, <1>2, <1>3 DEF BytesInv
  <2>2. \A r \in PP!Programs : moved'[r] <= Len(frame'[r])
    BY <1>2, <1>3, <1>4, OtherFacts
  <2>3. QED
    BY <1>1, <1>2, <1>4, <2>1, <2>2, OtherFacts DEF BytesInv
<1>6. PP!AnswersInOrder' /\ LastLine' = LastLine
  BY <1>1 DEF MessagesInv, PP!AnswersInOrder, LastLine
<1>7. CASE Leaving
  <2>1. SizeLen \in Nat \ {0} /\ Cat(<<>>, <<>>) = <<>> /\ Len(<<>>) = 0
    BY CatFacts, PipesAssumption DEF PP!SizeAssumption
  <2>2. Got("child") = Cat(size["child"], body["child"])
    BY <1>1 DEF Got
  <2>3. Got("child") # <<>>
    <3>1. Len(Cat(size["child"], body["child"])) = SizeLen + Len(body["child"])
          /\ Len(body["child"]) \in Nat
      BY <1>2, CatFacts
    <3>2. Len(Cat(size["child"], body["child"])) # 0
      BY <2>1, <3>1
    <3>3. QED
      BY <2>1, <2>2, <3>2
  <2>4. PICK s \in Lines : frame["parent"] = PP!Frame(s) /\ Flow("parent")
    BY <1>1, <1>7, <2>3 DEF Leaving, PP!Ended
  <2>5. s \in Seq(Byte)
    BY SeqMonotonic, PipesAssumption DEF PP!CharAssumption, Byte
  <2>6. /\ moved["parent"] <= Len(PP!Frame(s)) /\ Len(s) = Len(s)
        /\ Cat(Cat(size["child"], body["child"]), pipe["parent"])
             = Beginning(PP!Frame(s), moved["parent"])
    BY <1>2, <2>2, <2>4, OtherFacts DEF Flow
  <2>7. pipe["parent"] = <<>>
    BY <1>1, <1>2, <2>5, <2>6, WholeMessage, Zenon
  <2>8. Got("child")' = <<>>
    BY <1>4 DEF Got
  <2>9. Leaving'
    BY <1>1, <1>4, <1>7, <2>7, <2>8 DEF Leaving
  <2>10. QED
    BY <1>5, <1>6, <2>9 DEF MessagesInv
<1>8. CASE BetweenLines
  BY <1>1, <1>8 DEF BetweenLines, PP!Ended
<1>9. CASE Request
  <2>1. /\ Len(asked) = Len(printed) + 1 /\ frame["parent"] = PP!Frame(LastLine) /\ Flow("parent")
    BY <1>1, <1>9 DEF Request, PP!Ended
  <2>2. LastLine \in Lines /\ LastLine \in Seq(Byte)
    BY <1>2, <2>1, LastLineFacts
  <2>3. Cat(Cat(size["child"], body["child"]), pipe["parent"])
          = Beginning(frame["parent"], moved["parent"])
    BY <1>1, <2>1, OtherFacts DEF Flow, Got
  <2>4. /\ body["child"] = LastLine /\ pipe["parent"] = <<>>
        /\ moved["parent"] = Len(frame["parent"])
    <3>1. /\ moved["parent"] <= Len(PP!Frame(LastLine)) /\ Len(LastLine) = Len(LastLine)
          /\ Cat(Cat(size["child"], body["child"]), pipe["parent"])
               = Beginning(PP!Frame(LastLine), moved["parent"])
      BY <1>2, <2>1, <2>3
    <3>2. /\ body["child"] = LastLine /\ pipe["parent"] = <<>>
          /\ moved["parent"] = Len(PP!Frame(LastLine))
      BY <1>1, <1>2, <2>2, <3>1, WholeMessage, Zenon
    <3>3. QED
      BY <2>1, <3>2
  <2>5. Got("parent")' = <<>>
    <3>1. /\ pc["parent"] \in {"write", "size"}
          /\ pc["parent"] = "size" => size["parent"] = <<>> /\ body["parent"] = <<>>
      BY <1>2, <1>9, OtherFacts DEF Request, BytesInv
    <3>2. Cat(<<>>, <<>>) = <<>>
      BY CatFacts
    <3>3. QED
      BY <1>1, <1>4, <3>1, <3>2 DEF Got
  <2>6. Flow("child")'
    <3>1. pipe'["child"] = <<>>
      BY <1>1, <1>9 DEF Request
    <3>2. Beginning(frame'["child"], 0) = <<>> /\ Cat(<<>>, <<>>) = <<>>
      BY CatFacts, NoBeginning
    <3>3. QED
      BY <1>4, <2>5, <3>1, <3>2, OtherFacts DEF Flow
  <2>7. Reply'
    BY <1>1, <1>4, <1>6, <1>9, <2>1, <2>4, <2>6 DEF Request, Reply
  <2>8. QED
    BY <1>5, <1>6, <2>7 DEF MessagesInv
<1>10. CASE Reply
  BY <1>1, <1>10 DEF Reply, PP!Ended
<1>11. QED
  BY <1>7, <1>8, <1>9, <1>10 DEF MessagesInv

\* A line begins an exchange while both pipes are empty.
LEMMA GetLineStep ==
  ASSUME MessagesInv, PP!GetLine
  PROVE  MessagesInv'
<1>1. PICK s \in Lines :
        /\ UNCHANGED <<pipe, size, body, printed>> /\ pc["parent"] = "getline"
        /\ pc' = [pc EXCEPT !["parent"] = "write"]
        /\ frame' = [frame EXCEPT !["parent"] = PP!Frame(s)]
        /\ moved' = [moved EXCEPT !["parent"] = 0] /\ asked' = Append(asked, s)
  BY DEF PP!GetLine, PP!StartWrite, PP!Go
<1>2. BytesInv /\ PP!AnswersInOrder /\ BetweenLines
  BY <1>1 DEF MessagesInv, Leaving, Request, Reply, Gone, PP!Ended
<1>3. s \in Seq(Byte)
  BY SeqMonotonic, PipesAssumption DEF PP!CharAssumption, Byte
<1>4. PP!Frame(s) \in Seq(Byte) /\ Len(PP!Frame(s)) \in Nat
  BY <1>3, FrameFacts, LenProperties
<1>5. /\ pc'["parent"] = "write" /\ pc'["child"] = pc["child"]
      /\ moved'["parent"] = 0 /\ moved'["child"] = moved["child"]
      /\ frame'["parent"] = PP!Frame(s) /\ frame'["child"] = frame["child"]
  BY <1>1, <1>2, OtherFacts DEF BytesInv
<1>6. /\ asked' \in Seq(Lines) /\ Len(asked') = Len(asked) + 1 /\ Len(asked) \in Nat
      /\ asked'[Len(asked) + 1] = s /\ \A i \in 1 .. Len(asked) : asked'[i] = asked[i]
  <2>1. asked \in Seq(Lines)
    BY <1>2 DEF BytesInv
  <2>2. QED
    BY <1>1, <2>1
<1>7. BytesInv'
  <2>1. /\ frame' \in [PP!Programs -> Seq(Byte)] /\ moved' \in [PP!Programs -> Nat]
        /\ pc' \in [PP!Programs -> {"getline", "write", "size", "body"} \cup Gone]
    BY <1>1, <1>2, <1>4 DEF BytesInv
  <2>2. \A r \in PP!Programs : moved'[r] <= Len(frame'[r])
    BY <1>2, <1>4, <1>5, OtherFacts DEF BytesInv
  <2>3. QED
    BY <1>1, <1>2, <1>5, <1>6, <2>1, <2>2, OtherFacts DEF BytesInv
<1>8. PP!AnswersInOrder'
  <2>1. Len(printed) = Len(asked) /\ DOMAIN printed = 1 .. Len(printed)
    BY <1>2, LenProperties DEF BetweenLines, BytesInv
  <2>2. QED
    BY <1>1, <1>2, <1>6, <2>1 DEF PP!AnswersInOrder
<1>9. Request'
  <2>1. LastLine' = s
    BY <1>6 DEF LastLine
  <2>2. Got("child")' = <<>>
    <3>1. /\ pc["child"] \in {"write", "size"} \cup PP!Ended
          /\ pc["child"] = "size" => size["child"] = <<>> /\ body["child"] = <<>>
      BY <1>2, OtherFacts DEF BetweenLines, BytesInv
    <3>2. Cat(<<>>, <<>>) = <<>>
      BY CatFacts
    <3>3. QED
      BY <1>1, <1>5, <3>1, <3>2 DEF Got, PP!Ended
  <2>3. Flow("parent")'
    <3>1. pipe'["parent"] = <<>>
      BY <1>1, <1>2 DEF BetweenLines
    <3>2. Beginning(frame'["parent"], 0) = <<>> /\ Cat(<<>>, <<>>) = <<>>
      BY CatFacts, NoBeginning
    <3>3. QED
      BY <1>5, <2>2, <3>1, <3>2, OtherFacts DEF Flow
  <2>4. QED
    BY <1>1, <1>2, <1>5, <1>6, <2>1, <2>3 DEF BetweenLines, Request
<1>10. QED
  BY <1>7, <1>8, <1>9 DEF MessagesInv

\* The parent prints a whole answer, and both pipes are empty.
LEMMA PrintAnswerStep ==
  ASSUME MessagesInv, PP!PrintAnswer
  PROVE  MessagesInv'
<1>1. /\ UNCHANGED <<pipe, frame, size, body, moved, asked>>
      /\ pc["parent"] = "body" /\ Len(body["parent"]) = PP!SizeOf(size["parent"])
      /\ pc' = [pc EXCEPT !["parent"] = "getline"]
      /\ printed' = Append(printed, body["parent"])
  BY DEF PP!PrintAnswer, PP!GotMessage, PP!Go
<1>2. /\ BytesInv /\ PP!AnswersInOrder /\ Reply
      /\ size["parent"] \in Seq(Byte) /\ body["parent"] \in Seq(Byte)
      /\ pipe["child"] \in Seq(Byte) /\ moved["child"] \in Nat
      /\ moved["child"] <= Len(frame["child"])
      /\ Len(size["parent"]) = SizeLen /\ Len(printed) \in Nat
      /\ printed \in Seq(Seq(Byte))
  BY <1>1, OtherFacts, LenProperties
  DEF MessagesInv, BytesInv, Leaving, BetweenLines, Request, Gone, PP!Ended
<1>3. /\ LastLine \in Lines /\ PP!UpperOf(LastLine) \in Seq(Byte)
      /\ Len(PP!UpperOf(LastLine)) = Len(LastLine)
  BY <1>2, LastLineFacts DEF Reply
<1>4. Cat(Cat(size["parent"], body["parent"]), pipe["child"])
        = Beginning(frame["child"], moved["child"])
  BY <1>1, <1>2, OtherFacts DEF Reply, Flow, Got
<1>5. frame["child"] = PP!Frame(PP!UpperOf(LastLine))
  BY <1>2 DEF Reply
<1>6. /\ body["parent"] = PP!UpperOf(LastLine) /\ pipe["child"] = <<>>
      /\ moved["child"] = Len(frame["child"])
  <2>1. /\ moved["child"] <= Len(PP!Frame(PP!UpperOf(LastLine)))
        /\ Cat(Cat(size["parent"], body["parent"]), pipe["child"])
             = Beginning(PP!Frame(PP!UpperOf(LastLine)), moved["child"])
    BY <1>2, <1>4, <1>5
  <2>2. /\ body["parent"] = PP!UpperOf(LastLine) /\ pipe["child"] = <<>>
        /\ moved["child"] = Len(PP!Frame(PP!UpperOf(LastLine)))
    BY <1>1, <1>2, <1>3, <2>1, WholeMessage, Zenon
  <2>3. QED
    BY <1>5, <2>2
<1>7. pc'["parent"] = "getline" /\ pc'["child"] = pc["child"]
  BY <1>1, <1>2, OtherFacts DEF BytesInv
<1>8. /\ printed' \in Seq(Seq(Byte)) /\ Len(printed') = Len(printed) + 1
      /\ DOMAIN printed' = 1 .. Len(printed) + 1 /\ DOMAIN printed = 1 .. Len(printed)
      /\ printed'[Len(printed) + 1] = body["parent"]
      /\ \A i \in 1 .. Len(printed) : printed'[i] = printed[i]
  BY <1>1, <1>2
<1>9. BytesInv'
  <2>1. pc' \in [PP!Programs -> {"getline", "write", "size", "body"} \cup Gone]
    BY <1>1, <1>2 DEF BytesInv
  <2>2. QED
    BY <1>1, <1>2, <1>7, <1>8, <2>1, OtherFacts DEF BytesInv
<1>10. Len(asked) = Len(printed) + 1
  BY <1>2 DEF Reply
<1>11. PP!AnswersInOrder'
  <2>1. ASSUME NEW i \in 1 .. Len(printed) + 1 PROVE printed'[i] = PP!UpperOf(asked[i])
    <3>1. CASE i = Len(printed) + 1
      BY <1>6, <1>8, <1>10, <3>1 DEF LastLine
    <3>2. CASE i \in 1 .. Len(printed)
      BY <1>2, <1>8, <3>2 DEF PP!AnswersInOrder
    <3>3. QED
      BY <1>2, <3>1, <3>2
  <2>2. QED
    BY <1>1, <1>8, <1>10, <2>1 DEF PP!AnswersInOrder
<1>12. BetweenLines'
  BY <1>1, <1>2, <1>6, <1>7, <1>8, <1>10 DEF Reply, BetweenLines
<1>13. QED
  BY <1>9, <1>11, <1>12 DEF MessagesInv

-----------------------------------------------------------------------------
\* Every step keeps the phases.
LEMMA MessagesStep ==
  ASSUME MessagesInv, [PP!Next]_(PP!vars) PROVE MessagesInv'
<1>1. ASSUME NEW p \in PP!Programs,
             PP!BrokenPipe(p) \/ PP!Eof(p) \/ PP!Crash(p)
      PROVE  MessagesInv'
  BY <1>1, LeavesStep DEF PP!BrokenPipe, PP!Eof, PP!Crash, PP!GiveUp, PP!Go, Gone, PP!Ended
<1>2. ASSUME PP!EndOfInput \/ PP!Terminate \/ PP!Waited PROVE MessagesInv'
  <2>1. PICK x \in Gone : pc' = [pc EXCEPT !["parent"] = x]
    BY <1>2 DEF PP!EndOfInput, PP!Terminate, PP!Waited, PP!Go, Gone, PP!Ended
  <2>2. UNCHANGED <<pipe, frame, size, body, moved, asked, printed>>
    BY <1>2 DEF PP!EndOfInput, PP!Terminate, PP!Waited
  <2>3. QED
    BY <2>1, <2>2, LeavesStep, OtherFacts
<1>3. ASSUME PP!TakeSignal PROVE MessagesInv'
  BY <1>3, LeavesStep, OtherFacts DEF PP!TakeSignal, PP!Go, PP!Ended
<1>4. ASSUME UNCHANGED PP!vars PROVE MessagesInv'
  BY <1>4
  DEF PP!vars, MessagesInv, BytesInv, PP!AnswersInOrder, Leaving, BetweenLines, Request,
      Reply, Flow, Got, LastLine
<1>5. QED
  BY <1>1, <1>2, <1>3, <1>4, WriteStep, ReadStep, StartReadStep, AnswerStep, GetLineStep,
     PrintAnswerStep
  DEF PP!Next, PP!User, PP!Program, PP!Protocol

-----------------------------------------------------------------------------
\* What is read of a frame is a length, and characters behind it.
LEMMA FrameTypes ==
  \A s \in Seq(Char) : \A sz, bd, rest \in Seq(Byte) : \A m \in Nat :
           /\ m <= Len(PP!Frame(s)) /\ Len(sz) <= SizeLen /\ (Len(sz) < SizeLen => bd = <<>>)
           /\ Cat(Cat(sz, bd), rest) = Beginning(PP!Frame(s), m)
           => sz \in Seq(PP!SizeByte) /\ bd \in Seq(Char)
<1> SUFFICES ASSUME NEW s \in Seq(Char), NEW sz \in Seq(Byte),
                    NEW bd \in Seq(Byte), NEW rest \in Seq(Byte), NEW m \in Nat,
                    m <= Len(PP!Frame(s)), Len(sz) <= SizeLen, Len(sz) < SizeLen => bd = <<>>,
                    Cat(Cat(sz, bd), rest) = Beginning(PP!Frame(s), m)
             PROVE  sz \in Seq(PP!SizeByte) /\ bd \in Seq(Char)
  OBVIOUS
<1> DEFINE f == PP!Frame(s)
           whole == Cat(Cat(sz, bd), rest)
<1>0. f = PP!Frame(s) /\ m <= Len(f) /\ whole = SubSeq(f, 1, m)
  BY DEF Beginning
<1>1. /\ SizeLen \in Nat /\ Len(s) \in Nat /\ Len(sz) \in Nat /\ Len(bd) \in Nat
      /\ Len(rest) \in Nat /\ Len(<<>>) = 0
  BY LenProperties, PipesAssumption DEF PP!SizeAssumption
<1>2. /\ f \in Seq(Byte) /\ Len(f) = SizeLen + Len(s)
      /\ \A i \in 1 .. SizeLen : f[i] = <<Len(s), i>>
      /\ \A i \in 1 .. Len(s) : f[SizeLen + i] = s[i]
  <2>1. s \in Seq(Byte)
    BY SeqMonotonic DEF Byte
  <2>2. QED
    BY <2>1, FrameFacts DEF PP!SizeBytes
<1>3. /\ Len(whole) = Len(sz) + Len(bd) + Len(rest)
      /\ \A i \in 1 .. Len(sz) : whole[i] = sz[i]
      /\ \A i \in 1 .. Len(bd) : whole[Len(sz) + i] = bd[i]
  <2>1. /\ Len(Cat(Cat(sz, bd), rest)) = Len(sz) + Len(bd) + Len(rest)
        /\ \A i \in 1 .. Len(sz) : Cat(Cat(sz, bd), rest)[i] = sz[i]
        /\ \A i \in 1 .. Len(bd) : Cat(Cat(sz, bd), rest)[Len(sz) + i] = bd[i]
    BY CatOfThree, Zenon
  <2>2. QED
    BY <2>1, Zenon
<1> HIDE DEF f, whole
<1>4. m = Len(sz) + Len(bd) + Len(rest) /\ \A i \in 1 .. m : whole[i] = f[i]
  <2>1. \A i \in 1 .. m : f[i] \in Byte
    BY <1>0, <1>1, <1>2, ElementOfSeq
  <2>2. Len(SubSeq(f, 1, m)) = m /\ \A i \in 1 .. m : SubSeq(f, 1, m)[i] = f[i]
    BY <2>1, SubSeqProperties
  <2>3. QED
    BY <1>0, <1>3, <2>2
<1>5. sz \in Seq(PP!SizeByte)
  <2>1. ASSUME NEW i \in 1 .. Len(sz) PROVE sz[i] \in PP!SizeByte
    <3>1. i \in 1 .. m /\ i \in 1 .. SizeLen
      BY <1>1, <1>4
    <3>2. sz[i] = <<Len(s), i>>
      BY <1>2, <1>3, <1>4, <3>1
    <3>3. QED
      BY <1>1, <3>1, <3>2 DEF PP!SizeByte
  <2>2. sz = [i \in 1 .. Len(sz) |-> sz[i]]
    BY LenProperties
  <2>3. sz \in [1 .. Len(sz) -> PP!SizeByte]
    BY <2>1, <2>2
  <2>4. QED
    BY <1>1, <2>3
<1>6. bd \in Seq(Char)
  <2>1. ASSUME NEW i \in 1 .. Len(bd) PROVE bd[i] \in Char
    <3>1. Len(sz) = SizeLen
      BY <1>1, <2>1
    <3>2. SizeLen + i \in 1 .. m /\ i \in 1 .. Len(s)
      BY <1>0, <1>1, <1>2, <1>4, <3>1
    <3>3. bd[i] = s[i]
      BY <1>2, <1>3, <1>4, <3>1, <3>2
    <3>4. QED
      BY <3>2, <3>3, ElementOfSeq
  <2>2. bd = [i \in 1 .. Len(bd) |-> bd[i]]
    BY LenProperties
  <2>3. bd \in [1 .. Len(bd) -> Char]
    BY <2>1, <2>2
  <2>4. QED
    BY <1>1, <2>3
<1>7. QED
  BY <1>5, <1>6

\* In every phase, what Protocol::read has is a length, and text behind it.
ReadText ==
  \A q \in PP!Programs :
    pc[q] \in {"size", "body"} => size[q] \in Seq(PP!SizeByte) /\ body[q] \in Seq(Char)

\* What was read of a message is its text.
LEMMA ReadIsText == MessagesInv => ReadText
<1> SUFFICES ASSUME MessagesInv, NEW q \in PP!Programs, pc[q] \in {"size", "body"}
             PROVE  size[q] \in Seq(PP!SizeByte) /\ body[q] \in Seq(Char)
  BY DEF ReadText
<1>1. /\ BytesInv /\ size[q] \in Seq(Byte) /\ body[q] \in Seq(Byte)
      /\ \A p \in PP!Programs :
           pipe[p] \in Seq(Byte) /\ moved[p] \in Nat /\ moved[p] <= Len(frame[p])
      /\ Len(printed) \in Nat /\ SizeLen \in Nat /\ Len(size[q]) \in Nat
      /\ Len(size[q]) <= SizeLen /\ (Len(size[q]) < SizeLen => body[q] = <<>>)
  BY LenProperties, PipesAssumption DEF MessagesInv, BytesInv, PP!SizeAssumption
<1>2. ASSUME size[q] = <<>>, pc[q] = "size"
      PROVE  size[q] \in Seq(PP!SizeByte) /\ body[q] \in Seq(Char)
  BY <1>1, <1>2, EmptySeq DEF BytesInv
<1>3. ASSUME NEW p \in PP!Programs, PP!Other(p) = q, NEW s \in Seq(Char),
             frame[p] = PP!Frame(s), Flow(p)
      PROVE  size[q] \in Seq(PP!SizeByte) /\ body[q] \in Seq(Char)
  <2>1. Cat(Cat(size[q], body[q]), pipe[p]) = Beginning(PP!Frame(s), moved[p])
    BY <1>3 DEF Flow, Got
  <2>2. moved[p] <= Len(PP!Frame(s)) /\ moved[p] \in Nat /\ pipe[p] \in Seq(Byte)
    BY <1>1, <1>3
  <2>3. QED
    BY <1>1, <2>1, <2>2, FrameTypes, Zenon
<1>4. \A s \in Lines : s \in Seq(Char)
  BY PipesAssumption DEF PP!CharAssumption
<1>5. CASE Leaving
  <2>1. q = "child" /\ pc["child"] \notin PP!Ended
    BY <1>5, OtherFacts DEF Leaving, Gone, PP!Ended
  <2>2. CASE Got("child") = <<>> /\ pipe["parent"] = <<>>
    <3>1. Cat(size[q], body[q]) = <<>>
      BY <2>1, <2>2 DEF Got
    <3>2. Len(Cat(size[q], body[q])) = Len(size[q]) + Len(body[q]) /\ Len(body[q]) \in Nat
          /\ Len(<<>>) = 0
      BY <1>1, CatFacts
    <3>3. Len(size[q]) = 0 /\ Len(body[q]) = 0
      <4>1. Len(Cat(size[q], body[q])) = 0
        BY <3>1, <3>2
      <4>2. Len(size[q]) + Len(body[q]) = 0
        BY <3>2, <4>1
      <4>3. Len(size[q]) \in Nat /\ Len(body[q]) \in Nat
        BY <1>1, LenProperties
      <4>4. \A a, b \in Nat : a + b = 0 => a = 0 /\ b = 0
        OBVIOUS
      <4>5. QED
        BY <4>2, <4>3, <4>4, Zenon
    <3>4. size[q] = <<>> /\ body[q] = <<>>
      BY <1>1, <3>3, EmptySeq
    <3>5. QED
      BY <3>4, EmptySeq
  <2>3. CASE Flow("parent") /\ \E s \in Lines : frame["parent"] = PP!Frame(s)
    BY <1>3, <1>4, <2>1, <2>3, OtherFacts
  <2>4. QED
    BY <1>5, <2>1, <2>2, <2>3 DEF Leaving
<1>6. CASE BetweenLines
  BY <1>2, <1>6, OtherFacts DEF BetweenLines, PP!Ended
<1>7. CASE Request
  <2>1. LastLine \in Lines
    BY <1>1, <1>7, LastLineFacts DEF Request
  <2>2. CASE q = "parent"
    BY <1>2, <1>7, <2>2 DEF Request
  <2>3. CASE q = "child"
    BY <1>3, <1>4, <1>7, <2>1, <2>3, OtherFacts DEF Request, PP!Ended
  <2>4. QED
    BY <2>2, <2>3, OtherFacts
<1>8. CASE Reply
  <2>1. LastLine \in Lines /\ PP!UpperOf(LastLine) \in Seq(Char)
    BY <1>1, <1>4, <1>8, LastLineFacts, UpperFacts DEF Reply
  <2>2. CASE q = "child"
    BY <1>2, <1>8, <2>2 DEF Reply, PP!Ended
  <2>3. CASE q = "parent"
    BY <1>3, <1>8, <2>1, <2>3, OtherFacts DEF Reply
  <2>4. QED
    BY <2>2, <2>3, OtherFacts
<1>9. QED
  BY <1>5, <1>6, <1>7, <1>8 DEF MessagesInv

\* The types that are left: text is text, and a pipe has room for what it holds.
TextInv ==
  /\ size \in [PP!Programs -> Seq(PP!SizeByte)] /\ body \in [PP!Programs -> Seq(Char)]
  /\ \A p \in PP!Programs : Len(size[p]) <= SizeLen /\ Len(pipe[p]) <= PipeRoom
  /\ printed \in Seq(Seq(Char)) /\ sigterm \in BOOLEAN

\* The types of the texts at the start.
LEMMA TextInit == ASSUME PP!Init PROVE TextInv
<1>1. /\ SizeLen \in Nat /\ PipeRoom \in Nat /\ Len(<<>>) = 0
      /\ <<>> \in Seq(PP!SizeByte) /\ <<>> \in Seq(Char) /\ <<>> \in Seq(Seq(Char))
  BY EmptySeq, PipesAssumption DEF PP!SizeAssumption
<1>2. size \in [PP!Programs -> Seq(PP!SizeByte)] /\ body \in [PP!Programs -> Seq(Char)]
  BY <1>1 DEF PP!Init
<1>3. \A p \in PP!Programs : Len(size[p]) <= SizeLen /\ Len(pipe[p]) <= PipeRoom
  <2>1. \A p \in PP!Programs : size[p] = <<>> /\ pipe[p] = <<>>
    BY DEF PP!Init
  <2>2. QED
    BY <1>1, <2>1
<1>4. QED
  BY <1>1, <1>2, <1>3 DEF PP!Init, TextInv

\* Every step keeps them.
LEMMA TextStep ==
  ASSUME MessagesInv, TextInv, [PP!Next]_(PP!vars) PROVE TextInv'
<1>1. MessagesInv' /\ ReadText'
  <2>1. MessagesInv'
    BY MessagesStep
  <2>2. (MessagesInv => ReadText)'
    BY ReadIsText, PTL
  <2>3. QED
    BY <2>1, <2>2
<1>2. /\ pipe \in [PP!Programs -> Seq(Byte)] /\ PipeRoom \in Nat /\ SizeLen \in Nat
      /\ \A p \in PP!Programs : pipe[p] \in Seq(Byte) /\ Len(pipe[p]) \in Nat
  BY PipesAssumption, LenProperties DEF MessagesInv, BytesInv, PP!SizeAssumption
<1>3. ASSUME UNCHANGED <<pipe, size, body, printed>>, sigterm' \in BOOLEAN PROVE TextInv'
  BY <1>3 DEF TextInv
<1>4. ASSUME NEW p \in PP!Programs, PP!Write(p) PROVE TextInv'
  <2>1. PICK n \in 1 .. Len(frame[p]) - moved[p] :
          /\ Len(pipe[p]) + n <= PipeRoom
          /\ pipe' = [pipe EXCEPT ![p] = @ \o SubSeq(frame[p], moved[p] + 1, moved[p] + n)]
          /\ UNCHANGED <<size, body, printed, sigterm>>
    BY <1>4 DEF PP!Write
  <2>2. /\ frame[p] \in Seq(Byte) /\ moved[p] \in Nat /\ Len(frame[p]) \in Nat
    BY LenProperties DEF MessagesInv, BytesInv
  <2> DEFINE piece == SubSeq(frame[p], moved[p] + 1, moved[p] + n)
  <2>3. piece \in Seq(Byte) /\ Len(piece) = n
    <3>1. \A i \in moved[p] + 1 .. moved[p] + n : frame[p][i] \in Byte
      BY <2>2, ElementOfSeq
    <3>2. /\ moved[p] + 1 \in Int /\ moved[p] + n \in Int
      BY <2>2
    <3>3. /\ piece \in Seq(Byte)
          /\ Len(piece) = IF moved[p] + 1 <= moved[p] + n
                          THEN (moved[p] + n) - (moved[p] + 1) + 1 ELSE 0
      BY <3>1, <3>2, SubSeqProperties
    <3>4. QED
      BY <2>2, <3>3
  <2>4. Len(pipe[p] \o piece) = Len(pipe[p]) + n
    BY <1>2, <2>3, ConcatProperties
  <2>5. pipe' = [pipe EXCEPT ![p] = pipe[p] \o piece]
    BY <2>1
  <2> HIDE DEF piece
  <2>6. \A r \in PP!Programs : Len(pipe'[r]) <= PipeRoom
    BY <1>2, <2>1, <2>4, <2>5 DEF TextInv
  <2>7. QED
    BY <2>1, <2>6 DEF TextInv
<1>5. ASSUME NEW q \in PP!Programs, PP!ReadSize(q) \/ PP!ReadBody(q) PROVE TextInv'
  <2>1. /\ pc'[q] \in {"size", "body"} /\ BytesInv'
        /\ PP!Other(q) \in PP!Programs
    BY <1>5, ReadFlows, OtherFacts DEF MessagesInv
  <2>2. size'[q] \in Seq(PP!SizeByte) /\ body'[q] \in Seq(Char) /\ Len(size'[q]) <= SizeLen
    <3>1. size'[q] \in Seq(PP!SizeByte) /\ body'[q] \in Seq(Char)
      BY <1>1, <2>1 DEF ReadText
    <3>2. Len(size'[q]) \in Nat
      BY <3>1, LenProperties
    <3>3. QED
      BY <1>2, <2>1, <3>1, <3>2 DEF BytesInv
  <2>3. /\ \A r \in PP!Programs \ {q} : size'[r] = size[r] /\ body'[r] = body[r]
        /\ DOMAIN size' = PP!Programs /\ DOMAIN body' = PP!Programs
        /\ size' = [r \in PP!Programs |-> size'[r]] /\ body' = [r \in PP!Programs |-> body'[r]]
    BY <1>5 DEF PP!ReadSize, PP!ReadBody, TextInv
  <2>4. /\ size' \in [PP!Programs -> Seq(PP!SizeByte)] /\ body' \in [PP!Programs -> Seq(Char)]
        /\ \A r \in PP!Programs : Len(size'[r]) <= SizeLen
    <3>1. /\ \A r \in PP!Programs : size'[r] \in Seq(PP!SizeByte) /\ body'[r] \in Seq(Char)
          /\ \A r \in PP!Programs : Len(size'[r]) <= SizeLen
      BY <2>2, <2>3 DEF TextInv
    <3>2. QED
      BY <2>3, <3>1
  <2>5. \A r \in PP!Programs : Len(pipe'[r]) <= PipeRoom
    <3>1. PICK n \in 1 .. Len(pipe[PP!Other(q)]) :
            pipe' = [pipe EXCEPT ![PP!Other(q)] =
                       SubSeq(pipe[PP!Other(q)], n + 1, Len(pipe[PP!Other(q)]))]
      BY <1>5 DEF PP!ReadSize, PP!ReadBody, PP!Take
    <3> DEFINE s == pipe[PP!Other(q)]
               last == SubSeq(s, n + 1, Len(s))
    <3>2. /\ s \in Seq(Byte) /\ Len(s) \in Nat
      BY <1>2, <2>1
    <3>3. Len(last) <= Len(s)
      <4>1. \A i \in n + 1 .. Len(s) : s[i] \in Byte
        BY <3>2, ElementOfSeq
      <4>2. n + 1 \in Int /\ Len(s) \in Int
        BY <3>2
      <4>3. Len(last) = IF n + 1 <= Len(s) THEN Len(s) - (n + 1) + 1 ELSE 0
        BY <4>1, <4>2, SubSeqProperties
      <4>4. QED
        BY <3>2, <4>3
    <3>4. pipe' = [pipe EXCEPT ![PP!Other(q)] = last] /\ Len(last) \in Nat
      BY <1>2, <2>1, <3>1, LenProperties DEF BytesInv
    <3> HIDE DEF last
    <3>5. QED
      BY <1>2, <2>1, <3>2, <3>3, <3>4 DEF TextInv
  <2>6. printed' = printed /\ sigterm' = sigterm
    BY <1>5 DEF PP!ReadSize, PP!ReadBody
  <2>7. QED
    BY <2>4, <2>5, <2>6 DEF TextInv
<1>6. ASSUME NEW p \in PP!Programs, PP!StartRead(p) PROVE TextInv'
  <2>1. /\ size' = [size EXCEPT ![p] = <<>>] /\ body' = [body EXCEPT ![p] = <<>>]
        /\ UNCHANGED <<pipe, printed, sigterm>>
    BY <1>6 DEF PP!StartRead
  <2>2. <<>> \in Seq(PP!SizeByte) /\ <<>> \in Seq(Char) /\ Len(<<>>) = 0
    BY EmptySeq
  <2>3. QED
    BY <1>2, <2>1, <2>2 DEF TextInv
<1>7. ASSUME PP!PrintAnswer PROVE TextInv'
  <2>1. /\ printed' = Append(printed, body["parent"]) /\ body["parent"] \in Seq(Char)
        /\ UNCHANGED <<pipe, size, body, sigterm>>
    BY <1>7, OtherFacts DEF PP!PrintAnswer, TextInv
  <2>2. printed' \in Seq(Seq(Char))
    BY <2>1, AppendProperties DEF TextInv
  <2>3. QED
    BY <2>1, <2>2 DEF TextInv
<1>8. ASSUME NEW p \in PP!Programs, PP!BrokenPipe(p) \/ PP!Eof(p) \/ PP!Crash(p) PROVE TextInv'
  BY <1>3, <1>8 DEF PP!BrokenPipe, PP!Eof, PP!Crash, TextInv
<1>9. ASSUME \/ PP!Answer \/ PP!GetLine \/ PP!EndOfInput \/ PP!Terminate \/ PP!Waited
             \/ PP!TakeSignal
             \/ UNCHANGED PP!vars
      PROVE  TextInv'
  BY <1>3, <1>9
  DEF PP!Answer, PP!GetLine, PP!EndOfInput, PP!Terminate, PP!Waited, PP!TakeSignal,
      PP!vars, TextInv
<1>10. QED
  BY <1>4, <1>5, <1>6, <1>7, <1>8, <1>9 DEF PP!Next, PP!User, PP!Program, PP!Protocol

\* Together they are the types of PipeProtocol.
LEMMA ProgramTypes == MessagesInv /\ TextInv => PP!TypeOK
BY DEF MessagesInv, BytesInv, TextInv, PP!TypeOK, Byte, Gone

\* The phases of an exchange follow each other whatever read, write and the
\* system do.
THEOREM MessagesInvariance == PP!Spec => [](MessagesInv /\ TextInv)
<1>1. PP!Init => MessagesInv /\ TextInv
  BY MessagesInit, TextInit
<1>2. MessagesInv /\ TextInv /\ [PP!Next]_(PP!vars) => MessagesInv' /\ TextInv'
  BY MessagesStep, TextStep
<1>3. QED
  BY <1>1, <1>2, PTL DEF PP!Spec

\* What is read as a length is a length and what is read as text is text, also
\* after the parent has left in the middle of a line.
THEOREM ProgramTypesHold == PP!Spec => []PP!TypeOK
<1>1. MessagesInv /\ TextInv => PP!TypeOK
  BY ProgramTypes
<1>2. QED
  BY <1>1, MessagesInvariance, PTL

\* parent.cpp:14: for lines of any length over pipes of any size, what the parent
\* prints are its lines in upper case, in order, and at most one is unanswered.
THEOREM AnswersInOrderHolds == PP!Spec => []PP!AnswersInOrder
<1>1. MessagesInv => PP!AnswersInOrder
  BY DEF MessagesInv
<1>2. QED
  BY <1>1, MessagesInvariance, PTL

\* Protocol.cpp: whenever the parent waits for a line both pipes are empty and the
\* child has read nothing of a message: the two never lose step.
THEOREM QuietBetweenLinesHolds == PP!Spec => []PP!QuietBetweenLines
<1>1. MessagesInv => PP!QuietBetweenLines
  BY OtherFacts
  DEF MessagesInv, Leaving, Gone, PP!Ended, BetweenLines, Request, Reply,
      PP!QuietBetweenLines
<1>2. QED
  BY <1>1, MessagesInvariance, PTL

-----------------------------------------------------------------------------
(***************************************************************************)
(* ChildProcess                                                            *)
(***************************************************************************)

\* The ends of the pipes of object i that the program may have.
Allowed(i) ==
  CASE obj[i] = "in" -> {CP!In(i, "r"), CP!In(i, "w")}
    [] obj[i] = "alive" -> {CP!In(i, "w"), CP!Out(i, "r")}
    [] obj[i] \in {"both", "forked"} ->
         {CP!In(i, "r"), CP!In(i, "w"), CP!Out(i, "r"), CP!Out(i, "w")}
    [] OTHER -> {}

EndsTypes ==
  /\ ends \in [CP!Processes -> SUBSET CP!Ends]
  /\ IsFiniteSet(ends[CP!Parent]) /\ Cardinality(ends[CP!Parent]) <= FdLimit
  /\ obj \in [CP!Objects -> {"none", "alive", "waiting", "gone", "failed", "lost"} \cup CP!Building]
  /\ child \in [CP!Objects -> CP!Live \cup {"none", "ended", "reaped"}]

CountsInv ==
  /\ input \in [CP!Objects -> 0 .. Capacity] /\ output \in [CP!Objects -> 0 .. Capacity]
  /\ held \in [CP!Objects -> 0 .. Capacity]
  /\ call \in [fun : {"none", "writeExact", "readExact"}, on : Nat, left : 0 .. MaxLen]
  /\ call.fun # "none" => call.on \in CP!Objects

\* One constructor runs at a time.
OneConstructor ==
  \A i, j \in CP!Objects : obj[i] \in CP!Building /\ obj[j] \in CP!Building => i = j

\* The program has the ends that its objects are to have.
EndsOfObjects ==
  \A i \in CP!Objects :
    /\ \A e \in ends[CP!Parent] : e[1] = i => e \in Allowed(i)
    /\ obj[i] \in {"both", "forked"} => CP!Out(i, "w") \in ends[CP!Parent]

\* The end that a child writes to is in no other child, and in its own.
OwnOutput ==
  \A i \in CP!Objects :
    /\ \A p \in CP!Objects \ {i} : CP!Out(i, "w") \notin ends[p]
    /\ child[i] \in CP!Live => CP!Out(i, "w") \in ends[i]

ObjectsInv == EndsTypes /\ OneConstructor /\ EndsOfObjects /\ OwnOutput

-----------------------------------------------------------------------------
\* The parent is no child, and each child belongs to an object.
LEMMA ProcessFacts ==
  /\ CP!Parent \notin CP!Objects /\ CP!Parent \in CP!Processes /\ CP!Objects \subseteq CP!Processes
  /\ \A p \in CP!Processes : p = CP!Parent \/ p \in CP!Objects
BY ChildrenAssumption DEF CP!Parent, CP!Objects, CP!Processes, CP!ChildProcessAssumption

\* The module that ChildProcess takes Cardinality from is the one of this module.
LEMMA SameCardinality == \A S : CP!Cardinality(S) = Cardinality(S)
BY DEF CP!Cardinality, Cardinality

\* The ends of the pipes are different.
LEMMA EndFacts ==
  /\ \A i \in CP!Objects, s \in {"r", "w"} : CP!In(i, s) \in CP!Ends /\ CP!Out(i, s) \in CP!Ends
  /\ \A i, s : CP!In(i, s)[1] = i /\ CP!Out(i, s)[1] = i
  /\ \A i, j, s, t : CP!In(i, s) # CP!Out(j, t)
  /\ \A i, j, s, t : CP!In(i, s) = CP!In(j, t) => i = j /\ s = t
  /\ \A i, j, s, t : CP!Out(i, s) = CP!Out(j, t) => i = j /\ s = t
BY DEF CP!In, CP!Out, CP!Ends

\* An empty set has no members to count.
LEMMA NoEnds == IsFiniteSet({}) /\ Cardinality({}) = 0
BY FS_EmptySet

\* After a close there are no more ends than before.
LEMMA FewerEnds ==
  ASSUME EndsTypes, NEW S \in SUBSET ends[CP!Parent]
  PROVE  S \in SUBSET CP!Ends /\ IsFiniteSet(S) /\ Cardinality(S) <= FdLimit
<1>1. IsFiniteSet(S) /\ Cardinality(S) <= Cardinality(ends[CP!Parent])
  BY FS_Subset DEF EndsTypes
<1>2. Cardinality(S) \in Nat /\ Cardinality(ends[CP!Parent]) \in Nat
  BY <1>1, FS_CardinalityType DEF EndsTypes
<1>3. QED
  BY <1>1, <1>2, ChildrenAssumption, ProcessFacts DEF EndsTypes, CP!ChildProcessAssumption

\* Two more ends, when there is room for them.
LEMMA MoreEnds ==
  ASSUME EndsTypes, Cardinality(ends[CP!Parent]) + 2 <= FdLimit,
         NEW a \in CP!Ends, NEW b \in CP!Ends
  PROVE  LET S == ends[CP!Parent] \cup {a, b}
         IN S \in SUBSET CP!Ends /\ IsFiniteSet(S) /\ Cardinality(S) <= FdLimit
<1> DEFINE A == ends[CP!Parent]
           B == A \cup {a}
           C == B \cup {b}
<1>1. IsFiniteSet(A) /\ Cardinality(A) \in Nat
  BY FS_CardinalityType DEF EndsTypes
<1>2. /\ IsFiniteSet(B)
      /\ Cardinality(B) = IF a \in A THEN Cardinality(A) ELSE Cardinality(A) + 1
  BY <1>1, FS_AddElement
<1>3. /\ IsFiniteSet(C)
      /\ Cardinality(C) = IF b \in B THEN Cardinality(B) ELSE Cardinality(B) + 1
  BY <1>2, FS_AddElement
<1>4. C = ends[CP!Parent] \cup {a, b}
  OBVIOUS
<1> HIDE DEF B, C
<1>5. Cardinality(C) <= FdLimit
  BY <1>1, <1>2, <1>3, ChildrenAssumption DEF CP!ChildProcessAssumption
<1>6. QED
  BY <1>3, <1>4, <1>5, ProcessFacts DEF EndsTypes

-----------------------------------------------------------------------------
\* The bytes in the pipes and the call at the start.
LEMMA CountsInit == ASSUME CP!Init PROVE CountsInv
BY ChildrenAssumption DEF CP!Init, CountsInv, CP!NoCall, CP!ChildProcessAssumption

\* What a write, a read and the filter move stays within the pipes.
LEMMA CountsStep ==
  ASSUME CountsInv, [CP!Next]_(CP!vars) PROVE CountsInv'
<1>1. Capacity \in Nat /\ MaxLen \in Nat
  BY ChildrenAssumption DEF CP!ChildProcessAssumption
<1>2. ASSUME UNCHANGED CP!bytes, call' = call \/ call' = CP!NoCall PROVE CountsInv'
  BY <1>1, <1>2 DEF CP!bytes, CountsInv, CP!NoCall
<1>3. ASSUME NEW i \in CP!Objects, CP!FilterReads(i) PROVE CountsInv'
  BY <1>1, <1>3 DEF CP!FilterReads, CountsInv
<1>4. ASSUME NEW i \in CP!Objects, CP!FilterWrites(i) PROVE CountsInv'
  BY <1>1, <1>4 DEF CP!FilterWrites, CountsInv
<1>5. ASSUME NEW i \in CP!Objects, NEW fun \in {"writeExact", "readExact"}, CP!Call(fun, i)
      PROVE  CountsInv'
  BY <1>1, <1>5 DEF CP!Call, CountsInv, CP!Objects, CP!bytes
<1>6. ASSUME CP!Write PROVE CountsInv'
  BY <1>1, <1>6 DEF CP!Write, CountsInv
<1>7. ASSUME CP!Read PROVE CountsInv'
  BY <1>1, <1>7 DEF CP!Read, CountsInv
<1>8. ASSUME NEW i \in CP!Objects,
             \/ CP!Constructor(i) \/ CP!Waited(i) \/ CP!CloseFarEnds(i) \/ CP!Exec(i)
             \/ CP!ExecFails(i) \/ CP!TakeSignal(i) \/ CP!FilterEnds(i)
             \/ CP!FirstPipe(i) \/ CP!CloseStdin(i) \/ CP!Close(i) \/ CP!Destroy(i) \/ CP!Exits(i)
      PROVE  CountsInv'
  BY <1>2, <1>8
  DEF CP!Constructor, CP!SecondPipe, CP!ConstructorFails, CP!Fork, CP!Adopt, CP!Waited,
      CP!CloseFarEnds, CP!Exec,
      CP!ExecFails, CP!TakeSignal, CP!FilterEnds, CP!FirstPipe, CP!CloseStdin, CP!Close,
      CP!Destroy, CP!Exits, CP!Ends0
<1>9. ASSUME CP!Killed \/ CP!WriteBroken \/ CP!CallThrows \/ CP!CallReturns \/ UNCHANGED CP!vars
      PROVE  CountsInv'
  BY <1>2, <1>9
  DEF CP!Killed, CP!WriteBroken, CP!Dies, CP!CallThrows, CP!CallReturns, CP!vars, CP!bytes
<1>10. QED
  BY <1>3, <1>4, <1>5, <1>6, <1>7, <1>8, <1>9 DEF CP!Next, CP!User, CP!Library, CP!Child

-----------------------------------------------------------------------------
\* The objects at the start.
LEMMA ObjectsInit == ASSUME CP!Init PROVE ObjectsInv
<1>1. EndsTypes
  BY NoEnds, ChildrenAssumption, ProcessFacts
  DEF CP!Init, EndsTypes, CP!Live, CP!Building, CP!ChildProcessAssumption
<1>2. QED
  BY <1>1, ProcessFacts
  DEF CP!Init, ObjectsInv, OneConstructor, EndsOfObjects, OwnOutput, CP!Live, CP!Building

\* A pipe for the object that is being built.
LEMMA PipeStep ==
  ASSUME ObjectsInv, NEW i \in CP!Objects, CP!FirstPipe(i) \/ CP!SecondPipe(i)
  PROVE  ObjectsInv'
<1>1. EndsTypes /\ OneConstructor /\ EndsOfObjects /\ OwnOutput
  BY DEF ObjectsInv
<1>2. PICK a \in CP!Ends, b \in CP!Ends :
        /\ \/ /\ CP!Idle /\ obj[i] = "none" /\ obj' = [obj EXCEPT ![i] = "in"]
              /\ a = CP!In(i, "r") /\ b = CP!In(i, "w")
           \/ /\ obj[i] = "in" /\ obj' = [obj EXCEPT ![i] = "both"]
              /\ a = CP!Out(i, "r") /\ b = CP!Out(i, "w")
        /\ ends' = [ends EXCEPT ![CP!Parent] = ends[CP!Parent] \cup {a, b}]
        /\ Cardinality(ends[CP!Parent]) + 2 <= FdLimit
  BY EndFacts, SameCardinality
  DEF CP!FirstPipe, CP!SecondPipe, CP!NewPipe, CP!Own, CP!Goes, CP!In, CP!Out
<1>3. child' = child /\ \A p \in CP!Objects : ends'[p] = ends[p]
  BY <1>1, <1>2, ProcessFacts DEF CP!FirstPipe, CP!SecondPipe, EndsTypes
<1>4. /\ ends'[CP!Parent] = ends[CP!Parent] \cup {a, b}
      /\ obj'[i] \in {"in", "both"} /\ \A j \in CP!Objects \ {i} : obj'[j] = obj[j]
  BY <1>1, <1>2, ProcessFacts DEF EndsTypes
<1>5. EndsTypes'
  BY <1>1, <1>2, <1>3, <1>4, MoreEnds, ProcessFacts DEF EndsTypes, CP!Building
<1>6. OneConstructor'
  <2>1. \A j \in CP!Objects : obj[j] \in CP!Building => j = i
    BY <1>1, <1>2 DEF OneConstructor, CP!Idle, CP!Building
  <2>2. QED
    BY <1>4, <2>1 DEF OneConstructor
<1>7. EndsOfObjects'
  <2>1. ASSUME NEW j \in CP!Objects, j # i
        PROVE  /\ \A e \in ends'[CP!Parent] : e[1] = j => e \in Allowed(j)'
               /\ obj'[j] \in {"both", "forked"} => CP!Out(j, "w") \in ends'[CP!Parent]
    <3>1. a[1] # j /\ b[1] # j /\ Allowed(j)' = Allowed(j)
      BY <1>2, <1>4, <2>1, EndFacts DEF Allowed
    <3>2. QED
      BY <1>1, <1>4, <2>1, <3>1 DEF EndsOfObjects
  <2>2. CASE obj[i] = "none"
    <3>1. \A e \in ends[CP!Parent] : e[1] # i
      BY <1>1, <2>2 DEF EndsOfObjects, Allowed
    <3>2. obj'[i] = "in" /\ a = CP!In(i, "r") /\ b = CP!In(i, "w")
      BY <1>1, <1>2, <2>2 DEF EndsTypes
    <3>3. \A e \in ends'[CP!Parent] : e[1] = i => e \in Allowed(i)'
      BY <1>4, <3>1, <3>2 DEF Allowed
    <3>4. QED
      BY <2>1, <3>2, <3>3 DEF EndsOfObjects
  <2>3. CASE obj[i] = "in"
    <3>1. \A e \in ends[CP!Parent] : e[1] = i => e \in {CP!In(i, "r"), CP!In(i, "w")}
      BY <1>1, <2>3 DEF EndsOfObjects, Allowed
    <3>2. obj'[i] = "both" /\ a = CP!Out(i, "r") /\ b = CP!Out(i, "w")
      BY <1>1, <1>2, <2>3 DEF EndsTypes
    <3>3. \A e \in ends'[CP!Parent] : e[1] = i => e \in Allowed(i)'
      BY <1>4, <3>1, <3>2 DEF Allowed
    <3>4. QED
      BY <1>4, <2>1, <3>2, <3>3 DEF EndsOfObjects
  <2>4. QED
    BY <1>2, <2>2, <2>3
<1>8. OwnOutput'
  BY <1>1, <1>3 DEF OwnOutput
<1>9. QED
  BY <1>5, <1>6, <1>7, <1>8 DEF ObjectsInv

\* Ends of object i are closed in the program, and its state changes: the
\* constructor fails or ends, or a member closes.
LEMMA CloseStep ==
  ASSUME ObjectsInv, NEW i \in CP!Objects,
         CP!ConstructorFails(i) \/ CP!Adopt(i) \/ CP!CloseStdin(i) \/ CP!Close(i) \/ CP!Destroy(i)
  PROVE  ObjectsInv'
<1>1. EndsTypes /\ OneConstructor /\ EndsOfObjects /\ OwnOutput
  BY DEF ObjectsInv
<1>2. PICK S \in SUBSET ends[CP!Parent] :
        /\ ends' = [ends EXCEPT ![CP!Parent] = S]
        /\ \A e \in ends[CP!Parent] : e[1] # i => e \in S
        /\ \A e \in S : e[1] = i => e \in Allowed(i)'
  <2>2. \A e \in ends[CP!Parent] : e[1] = i => e \in Allowed(i)
    BY <1>1 DEF EndsOfObjects
  <2>3. CASE CP!Adopt(i)
    <3>1. obj[i] = "forked" /\ obj'[i] = "alive"
      BY <1>1, <2>3 DEF CP!Adopt, CP!Goes, EndsTypes
    <3>2. Allowed(i)' = {CP!In(i, "w"), CP!Out(i, "r")}
      BY <3>1 DEF Allowed
    <3>3. \A e \in ends[CP!Parent] :
            e[1] = i => e \in {CP!In(i, "r"), CP!In(i, "w"), CP!Out(i, "r"), CP!Out(i, "w")}
      BY <2>2, <3>1 DEF Allowed
    <3> DEFINE S == ends[CP!Parent] \ {CP!In(i, "r"), CP!Out(i, "w")}
    <3>4. ends' = [ends EXCEPT ![CP!Parent] = S]
      BY <2>3 DEF CP!Adopt, CP!Own
    <3>5. \A e \in ends[CP!Parent] : e[1] # i => e \in S
      BY EndFacts
    <3>6. \A e \in S : e[1] = i => e \in Allowed(i)'
      BY <3>2, <3>3
    <3>7. QED
      BY <3>4, <3>5, <3>6
  <2>4. CASE CP!CloseStdin(i) \/ CP!Close(i)
    <3>1. obj[i] = "alive" /\ obj' = obj
      BY <2>4 DEF CP!CloseStdin, CP!Close
    <3>2. Allowed(i)' = Allowed(i)
      BY <3>1 DEF Allowed
    <3>3. QED
      BY <2>2, <2>4, <3>2, EndFacts DEF CP!CloseStdin, CP!Close, CP!Own
  <2>5. CASE CP!Destroy(i)
    <3>1. obj[i] = "alive"
      BY <2>5 DEF CP!Destroy
    <3>2. \A e \in ends[CP!Parent] : e[1] = i => e \in {CP!In(i, "w"), CP!Out(i, "r")}
      BY <2>2, <3>1 DEF Allowed
    <3> DEFINE S == ends[CP!Parent] \ {CP!In(i, "w"), CP!Out(i, "r")}
    <3>3. ends' = [ends EXCEPT ![CP!Parent] = S]
      BY <2>5 DEF CP!Destroy, CP!Own
    <3>4. \A e \in ends[CP!Parent] : e[1] # i => e \in S
      BY EndFacts
    <3>5. \A e \in S : e[1] = i => e \in Allowed(i)'
      BY <3>2
    <3>6. QED
      BY <3>3, <3>4, <3>5
  <2>6. CASE CP!ConstructorFails(i)
    <3> DEFINE S == {e \in ends[CP!Parent] : e[1] # i}
    <3>1. ends' = [ends EXCEPT ![CP!Parent] = S]
      BY <2>6 DEF CP!ConstructorFails, CP!Own
    <3>2. /\ S \in SUBSET ends[CP!Parent] /\ \A e \in ends[CP!Parent] : e[1] # i => e \in S
          /\ \A e \in S : e[1] # i
      OBVIOUS
    <3> HIDE DEF S
    <3>3. QED
      BY <3>1, <3>2
  <2>7. QED
    BY <2>3, <2>4, <2>5, <2>6
<1>3. /\ child' = child /\ \A p \in CP!Objects : ends'[p] = ends[p]
      /\ ends'[CP!Parent] = S
  BY <1>1, <1>2, ProcessFacts
  DEF CP!ConstructorFails, CP!Adopt, CP!CloseStdin, CP!Close, CP!Destroy, EndsTypes
<1>4. /\ obj'[i] \in {"failed", "alive", "waiting"}
      /\ \A j \in CP!Objects \ {i} : obj'[j] = obj[j]
      /\ DOMAIN obj' = CP!Objects /\ obj' = [j \in CP!Objects |-> obj'[j]]
  BY <1>1
  DEF CP!ConstructorFails, CP!Adopt, CP!CloseStdin, CP!Close, CP!Destroy, CP!Goes, EndsTypes
<1>5. EndsTypes'
  <2>1. S \in SUBSET CP!Ends /\ IsFiniteSet(S) /\ Cardinality(S) <= FdLimit
    BY <1>1, FewerEnds
  <2>2. ends' \in [CP!Processes -> SUBSET CP!Ends]
    BY <1>1, <1>2, <2>1 DEF EndsTypes
  <2>3. obj' \in [CP!Objects -> {"none", "alive", "waiting", "gone", "failed", "lost"}
                                  \cup CP!Building]
    BY <1>1, <1>4 DEF EndsTypes
  <2>4. QED
    BY <1>1, <1>3, <2>1, <2>2, <2>3 DEF EndsTypes
<1>6. OneConstructor'
  BY <1>1, <1>4 DEF OneConstructor, CP!Building
<1>7. EndsOfObjects'
  <2>1. ASSUME NEW j \in CP!Objects, j # i
        PROVE  /\ \A e \in ends'[CP!Parent] : e[1] = j => e \in Allowed(j)'
               /\ obj'[j] \in {"both", "forked"} => CP!Out(j, "w") \in ends'[CP!Parent]
    <3>1. Allowed(j)' = Allowed(j) /\ CP!Out(j, "w")[1] # i
      BY <1>4, <2>1, EndFacts DEF Allowed
    <3>2. QED
      BY <1>1, <1>2, <1>3, <1>4, <2>1, <3>1 DEF EndsOfObjects
  <2>2. QED
    BY <1>2, <1>3, <1>4, <2>1 DEF EndsOfObjects
<1>8. OwnOutput'
  BY <1>1, <1>3 DEF OwnOutput
<1>9. QED
  BY <1>5, <1>6, <1>7, <1>8 DEF ObjectsInv

\* The child of object i inherits what the program has: of the stdouts that are
\* written to, its own.
LEMMA ForkStep ==
  ASSUME ObjectsInv, NEW i \in CP!Objects, CP!Fork(i)
  PROVE  ObjectsInv'
<1>1. EndsTypes /\ OneConstructor /\ EndsOfObjects /\ OwnOutput
  BY DEF ObjectsInv
<1>2. /\ obj[i] = "both" /\ obj' = [obj EXCEPT ![i] = "forked"]
      /\ ends' = [ends EXCEPT ![i] = ends[CP!Parent]]
      /\ child' = [child EXCEPT ![i] = "forked"]
  BY DEF CP!Fork, CP!Goes, CP!Own, CP!Turns
<1>3. /\ ends'[CP!Parent] = ends[CP!Parent] /\ ends'[i] = ends[CP!Parent]
      /\ \A p \in CP!Objects \ {i} : ends'[p] = ends[p] /\ child'[p] = child[p]
      /\ obj'[i] = "forked" /\ \A j \in CP!Objects \ {i} : obj'[j] = obj[j]
  BY <1>1, <1>2, ProcessFacts DEF EndsTypes
<1>4. EndsTypes'
  BY <1>1, <1>2, <1>3, ProcessFacts DEF EndsTypes, CP!Building, CP!Live
<1>5. OneConstructor'
  BY <1>1, <1>2, <1>3 DEF OneConstructor, CP!Building
<1>6. EndsOfObjects'
  <2>1. \A j \in CP!Objects : Allowed(j)' = Allowed(j)
    BY <1>2, <1>3 DEF Allowed
  <2>2. QED
    BY <1>1, <1>2, <1>3, <2>1 DEF EndsOfObjects
<1>7. OwnOutput'
  <2>1. CP!Out(i, "w") \in ends[CP!Parent]
    BY <1>1, <1>2 DEF EndsOfObjects
  <2>2. ASSUME NEW j \in CP!Objects, j # i PROVE CP!Out(j, "w") \notin ends[CP!Parent]
    <3>1. obj[j] \notin CP!Building
      BY <1>1, <1>2, <2>2 DEF OneConstructor, CP!Building
    <3>2. CP!Out(j, "w") \notin Allowed(j)
      BY <3>1, EndFacts DEF Allowed, CP!Building
    <3>3. QED
      BY <1>1, <3>2, EndFacts DEF EndsOfObjects
  <2>3. QED
    BY <1>1, <1>3, <2>1, <2>2 DEF OwnOutput
<1>8. QED
  BY <1>4, <1>5, <1>6, <1>7 DEF ObjectsInv

\* A child closes ends or ends, and its state changes.
LEMMA ChildStep ==
  ASSUME ObjectsInv, NEW i \in CP!Objects,
         \/ CP!CloseFarEnds(i) \/ CP!Exec(i) \/ CP!ExecFails(i) \/ CP!TakeSignal(i)
         \/ CP!FilterEnds(i) \/ CP!Exits(i)
  PROVE  ObjectsInv'
<1>1. EndsTypes /\ OneConstructor /\ EndsOfObjects /\ OwnOutput
  BY DEF ObjectsInv
<1>2. obj' = obj
  BY DEF CP!CloseFarEnds, CP!Exec, CP!ExecFails, CP!TakeSignal, CP!FilterEnds, CP!Exits,
      CP!Ends0
<1>3. PICK S \in SUBSET ends[i], x \in {"exec", "running", "ended"} :
        /\ ends' = [ends EXCEPT ![i] = S] /\ child' = [child EXCEPT ![i] = x]
        /\ x # "ended" =>
             child[i] \in CP!Live /\ (CP!Out(i, "w") \in ends[i] => CP!Out(i, "w") \in S)
  <2>1. CASE CP!CloseFarEnds(i)
    <3> DEFINE S == ends[i] \ {CP!In(i, "w"), CP!Out(i, "r")}
    <3>1. ends' = [ends EXCEPT ![i] = S] /\ child' = [child EXCEPT ![i] = "exec"]
      BY <2>1 DEF CP!CloseFarEnds, CP!Own, CP!Turns
    <3>2. child[i] \in CP!Live /\ (CP!Out(i, "w") \in ends[i] => CP!Out(i, "w") \in S)
      BY <2>1, EndFacts DEF CP!CloseFarEnds, CP!Live
    <3>3. QED
      BY <3>1, <3>2
  <2>2. CASE CP!Exec(i)
    <3>1. ends' = [ends EXCEPT ![i] = ends[i]]
      BY <1>1, <2>2 DEF CP!Exec, EndsTypes
    <3>2. QED
      BY <2>2, <3>1 DEF CP!Exec, CP!Turns, CP!Live
  <2>3. CASE CP!ExecFails(i) \/ CP!TakeSignal(i) \/ CP!FilterEnds(i) \/ CP!Exits(i)
    BY <2>3
    DEF CP!ExecFails, CP!TakeSignal, CP!FilterEnds, CP!Exits, CP!Ends0, CP!Own, CP!Turns
  <2>4. QED
    BY <2>1, <2>2, <2>3
<1>4. /\ ends'[CP!Parent] = ends[CP!Parent] /\ ends'[i] = S /\ child'[i] = x
      /\ \A p \in CP!Objects \ {i} : ends'[p] = ends[p] /\ child'[p] = child[p]
  BY <1>1, <1>3, ProcessFacts DEF EndsTypes
<1>5. EndsTypes'
  BY <1>1, <1>2, <1>3, <1>4, ProcessFacts DEF EndsTypes, CP!Live
<1>6. OneConstructor' /\ EndsOfObjects'
  BY <1>1, <1>2, <1>4 DEF OneConstructor, EndsOfObjects, Allowed
<1>7. OwnOutput'
  BY <1>1, <1>3, <1>4 DEF OwnOutput, CP!Live
<1>8. QED
  BY <1>5, <1>6, <1>7 DEF ObjectsInv

\* waitpid in the destructor keeps the invariant.
LEMMA WaitedStep ==
  ASSUME ObjectsInv, NEW i \in CP!Objects, CP!Waited(i)
  PROVE  ObjectsInv'
<1>1. EndsTypes /\ OneConstructor /\ EndsOfObjects /\ OwnOutput
  BY DEF ObjectsInv
<1>2. /\ obj[i] = "waiting" /\ obj' = [obj EXCEPT ![i] = "gone"]
      /\ child' = [child EXCEPT ![i] = "reaped"] /\ ends' = ends
  BY DEF CP!Waited, CP!Goes, CP!Turns
<1>3. EndsTypes'
  BY <1>1, <1>2 DEF EndsTypes
<1>4. OneConstructor'
  BY <1>1, <1>2 DEF OneConstructor, CP!Building, EndsTypes
<1>5. EndsOfObjects'
  <2>1. \A j \in CP!Objects : Allowed(j)' = Allowed(j)
    BY <1>1, <1>2 DEF Allowed, EndsTypes
  <2>2. QED
    BY <1>1, <1>2, <2>1 DEF EndsOfObjects, EndsTypes
<1>6. OwnOutput'
  BY <1>1, <1>2 DEF OwnOutput, CP!Live, EndsTypes
<1>7. QED
  BY <1>3, <1>4, <1>5, <1>6 DEF ObjectsInv

\* The end of the parent keeps the invariant.
LEMMA DiesStep ==
  ASSUME ObjectsInv, CP!Dies
  PROVE  ObjectsInv'
<1>1. EndsTypes /\ OwnOutput
  BY DEF ObjectsInv
<1>2. /\ obj' = [i \in CP!Objects |-> "lost"] /\ child' = child
      /\ ends' = [ends EXCEPT ![CP!Parent] = {}]
  BY DEF CP!Dies, CP!Own
<1>3. ends'[CP!Parent] = {} /\ \A p \in CP!Objects : ends'[p] = ends[p]
  BY <1>1, <1>2, ProcessFacts DEF EndsTypes
<1>4. EndsTypes'
  <2>1. IsFiniteSet(ends'[CP!Parent]) /\ Cardinality(ends'[CP!Parent]) <= FdLimit
    BY <1>3, NoEnds, ChildrenAssumption DEF CP!ChildProcessAssumption
  <2>2. ends' \in [CP!Processes -> SUBSET CP!Ends]
    BY <1>1, <1>2 DEF EndsTypes
  <2>3. obj' \in [CP!Objects -> {"none", "alive", "waiting", "gone", "failed", "lost"}
                                  \cup CP!Building]
    BY <1>2
  <2>4. QED
    BY <1>1, <1>2, <2>1, <2>2, <2>3 DEF EndsTypes
<1>5. OneConstructor' /\ EndsOfObjects' /\ OwnOutput'
  BY <1>1, <1>2, <1>3 DEF OneConstructor, EndsOfObjects, OwnOutput, CP!Building
<1>6. QED
  BY <1>4, <1>5 DEF ObjectsInv

\* Every step keeps the invariant.
LEMMA ObjectsStep ==
  ASSUME ObjectsInv, [CP!Next]_(CP!vars) PROVE ObjectsInv'
<1>1. ASSUME UNCHANGED <<ends, obj, child>> PROVE ObjectsInv'
  BY <1>1 DEF ObjectsInv, EndsTypes, OneConstructor, EndsOfObjects, OwnOutput, Allowed
<1>2. ASSUME NEW i \in CP!Objects, CP!FilterReads(i) \/ CP!FilterWrites(i) PROVE ObjectsInv'
  BY <1>1, <1>2 DEF CP!FilterReads, CP!FilterWrites
<1>3. ASSUME NEW i \in CP!Objects, NEW fun \in {"writeExact", "readExact"}, CP!Call(fun, i)
      PROVE  ObjectsInv'
  BY <1>1, <1>3 DEF CP!Call
<1>4. ASSUME CP!CallThrows \/ CP!CallReturns \/ CP!Write \/ CP!Read \/ UNCHANGED CP!vars
      PROVE  ObjectsInv'
  BY <1>1, <1>4 DEF CP!CallThrows, CP!CallReturns, CP!Write, CP!Read, CP!vars
<1>5. ASSUME CP!Killed \/ CP!WriteBroken PROVE ObjectsInv'
  BY <1>5, DiesStep DEF CP!Killed, CP!WriteBroken
<1>6. QED
  BY <1>2, <1>3, <1>4, <1>5, PipeStep, CloseStep, ForkStep, ChildStep, WaitedStep
  DEF CP!Next, CP!User, CP!Library, CP!Child, CP!Constructor

\* The states of the objects decide which ends the program and its children have.
THEOREM ObjectsInvariance == CP!Spec => [](ObjectsInv /\ CountsInv)
<1>1. CP!Init => ObjectsInv /\ CountsInv
  BY ObjectsInit, CountsInit
<1>2. ObjectsInv /\ CountsInv /\ [CP!Next]_(CP!vars) => ObjectsInv' /\ CountsInv'
  BY ObjectsStep, CountsStep
<1>3. QED
  BY <1>1, <1>2, PTL DEF CP!Spec

\* The types; the program never has more descriptors than it may, and no pipe
\* more bytes than it has room for.
THEOREM ObjectsTypesHold == CP!Spec => []CP!TypeOK
<1>1. ObjectsInv /\ CountsInv => CP!TypeOK
  BY SameCardinality DEF ObjectsInv, EndsTypes, CountsInv, CP!TypeOK
<1>2. QED
  BY <1>1, ObjectsInvariance, PTL

\* Process.cpp: whatever constructor threw, between calls the program has the two
\* ends of each object that lives and nothing else.
THEOREM ObjectsLeakNothing == CP!Spec => []CP!NothingLeaks
<1>1. ObjectsInv => CP!NothingLeaks
  <2> SUFFICES ASSUME ObjectsInv, CP!Idle, NEW e \in ends[CP!Parent]
               PROVE  obj[e[1]] = "alive" /\ e \in {CP!In(e[1], "w"), CP!Out(e[1], "r")}
    BY DEF CP!NothingLeaks
  <2>1. e[1] \in CP!Objects
    BY ProcessFacts DEF ObjectsInv, EndsTypes, CP!Ends
  <2>2. e \in Allowed(e[1]) /\ obj[e[1]] \notin CP!Building \cup {"waiting"}
    BY <2>1 DEF ObjectsInv, EndsOfObjects, CP!Idle
  <2>3. QED
    BY <2>2 DEF Allowed, CP!Building
<1>2. QED
  BY <1>1, ObjectsInvariance, PTL

\* Process.cpp: only the child can write to its stdout, whatever later children
\* inherit, so that the end of the file that readExact meets is its end.
THEOREM EndOfFileHolds == CP!Spec => []CP!EndOfFileIsTheEnd
<1>1. ObjectsInv => CP!EndOfFileIsTheEnd
  <2> SUFFICES ASSUME ObjectsInv, NEW i \in CP!Objects, obj[i] = "alive", child[i] \in CP!Live,
                      NEW p \in CP!Processes
               PROVE  CP!Out(i, "w") \in ends[p] <=> p = i
    BY ProcessFacts DEF CP!EndOfFileIsTheEnd
  <2>1. CP!Out(i, "w") \in ends[i] /\ \A q \in CP!Objects \ {i} : CP!Out(i, "w") \notin ends[q]
    BY DEF ObjectsInv, OwnOutput
  <2>2. CP!Out(i, "w") \notin Allowed(i)
    BY EndFacts DEF Allowed
  <2>3. CP!Out(i, "w") \notin ends[CP!Parent]
    BY <2>2, EndFacts DEF ObjectsInv, EndsOfObjects
  <2>4. QED
    BY <2>1, <2>3, ProcessFacts
<1>2. QED
  BY <1>1, ObjectsInvariance, PTL

-----------------------------------------------------------------------------
(***************************************************************************)
(* The three parts together                                                *)
(***************************************************************************)

\* A step of the composition is a step of each part, or leaves it alone.
LEMMA StepOfEach ==
  ASSUME [Step]_all
  PROVE  /\ [Next]_vars /\ [PP!Next]_(PP!vars) /\ [CP!Next]_(CP!vars)
<1>1. ASSUME DescriptorStep PROVE [Next]_vars /\ UNCHANGED <<programs, children>>
  BY <1>1 DEF DescriptorStep
<1>2. ASSUME ChildrenStep(CP!Next) PROVE CP!Next /\ UNCHANGED <<vars, programs>>
  BY <1>2 DEF ChildrenStep
<1>3. ASSUME ProgramStep(PP!Next) PROVE PP!Next /\ UNCHANGED <<vars, children>>
  BY <1>3 DEF ProgramStep
<1>4. ASSUME UNCHANGED all PROVE UNCHANGED <<vars, programs, children>>
  BY <1>4 DEF all
<1>5. (UNCHANGED programs => UNCHANGED PP!vars) /\ (UNCHANGED children => UNCHANGED CP!vars)
  BY DEF programs, children, PP!vars, CP!vars
<1>6. QED
  BY <1>1, <1>2, <1>3, <1>4, <1>5 DEF Step

\* A behaviour of the composition is one of each of its parts.
LEMMA BehaviourOfEach == Parts => Spec /\ PP!Spec /\ CP!Spec
<1>1. Start => Init /\ PP!Init /\ CP!Init
  BY DEF Start
<1>2. [Step]_all => [Next]_vars /\ [PP!Next]_(PP!vars) /\ [CP!Next]_(CP!vars)
  BY StepOfEach
<1>3. QED
  BY <1>1, <1>2, PTL DEF Parts, Spec, PP!Spec, CP!Spec

\* The types of the three parts: no object has a number that does not exist, what
\* is read as a length or a text is one, and neither a pipe nor the descriptors
\* of the program exceed what there is.
THEOREM TypesAreOK == Parts => []TypesOK
<1>1. TypeOK /\ PP!TypeOK /\ CP!TypeOK => TypesOK
  BY DEF TypesOK
<1>2. QED
  BY <1>1, BehaviourOfEach, DescriptorTypes, ProgramTypesHold, ObjectsTypesHold, PTL

\* Descriptor.cpp and Process.cpp: every open number has one owner, and no
\* constructor that throws and no close leaves a number that nobody closes.
THEOREM DescriptorsAreOwnedHolds == Parts => []DescriptorsAreOwned
<1>1. OneOwner /\ NothingLeaks /\ CP!NothingLeaks => DescriptorsAreOwned
  BY DEF DescriptorsAreOwned
<1>2. QED
  BY <1>1, BehaviourOfEach, OneOwnerHolds, NothingLeaksHolds, ObjectsLeakNothing, PTL

\* Protocol.cpp and Process.cpp: the answers are the lines in upper case, both ends
\* agree where a message begins, and the end of the file is the end of the child.
THEOREM MessagesAreExactHolds == Parts => []MessagesAreExact
<1>1. /\ PP!AnswersInOrder /\ PP!QuietBetweenLines /\ CP!EndOfFileIsTheEnd
      => MessagesAreExact
  BY DEF MessagesAreExact
<1>2. QED
  BY <1>1, BehaviourOfEach, AnswersInOrderHolds, QuietBetweenLinesHolds, EndOfFileHolds, PTL

\* In the composition too, the objects are the handles of FileHandles.
THEOREM FilesAreHandles == Parts => ImplementsFileHandles
<1>1. Parts => Spec
  BY BehaviourOfEach, PTL
<1>2. QED
  BY <1>1, Refinement, PTL
=============================================================================
