-------------------------- MODULE Programs_proofs ---------------------------
(***************************************************************************)
(* Proofs about Programs, for any options, threads, loggers, clients,      *)
(* lines, ports and sizes of files: what each part promises, and that the  *)
(* six together keep the properties of Programs.                           *)
(***************************************************************************)
EXTENDS Programs, TLAPS, SequenceTheorems, FiniteSetTheorems

-----------------------------------------------------------------------------
(***************************************************************************)
(* VectorExample                                                           *)
(***************************************************************************)

\* i is the place of the last option of S in a before the place n, or 0.
IsLast(a, S, n, i) ==
  /\ i \in 0 .. n - 1 /\ (i > 0 => a[i] \in S)
  /\ \A j \in i + 1 .. n - 1 : a[j] \notin S

\* The logger is what the options so far make it.
OptionsSoFar ==
  \E to, lev \in 0 .. optind - 1 :
    /\ IsLast(argv, VE!LoggerOptions, optind, to) /\ IsLast(argv, VE!LevelOptions, optind, lev)
    /\ logger.to = IF to = 0 THEN "stdout" ELSE argv[to]
    /\ logger.level = IF lev > to THEN VE!LevelOf[argv[lev]] ELSE VE!INFO

VectorInv ==
  /\ VE!TypeOK
  /\ argv \in Seq(VE!Options) /\ vec \in Seq(Numbers)
  /\ vector_pc # "options" => optind = Len(argv) + 1

-----------------------------------------------------------------------------
\* The levels that options set.
LEMMA LevelsOf ==
  /\ VE!LevelOptions = {"v", "q", "w"}
  /\ VE!LevelOf["v"] = 3 /\ VE!LevelOf["q"] = 0 /\ VE!LevelOf["w"] = 1
  BY DEF VE!LevelOptions, VE!LevelOf, VE!ERROR, VE!WARNING, VE!DEBUG

\* An option sets a level or a logger, never both.
LEMMA OptionsAre == \A o \in VE!Options : (o \in VE!LevelOptions) <=> (o \notin VE!LoggerOptions)
  BY LevelsOf DEF VE!Options, VE!LoggerOptions

\* What a read of std::cin can leave, and that it leaves all once it has failed.
LEMMA ReadsTypes == ASSUME good \in BOOLEAN, NEW old \in SUBSET Numbers
  PROVE  /\ \A r \in VE!Reads(old) : r[1] \subseteq Numbers /\ r[2] \in BOOLEAN
         /\ ~good => VE!Reads(old) = {<<old, FALSE>>}
<1>1. 0 \in Numbers
  BY VectorsAssumption DEF VE!VectorAssumption
<1>2. ASSUME NEW r \in VE!Reads(old) PROVE r[1] \subseteq Numbers /\ r[2] \in BOOLEAN
  <2>1. \/ \E n \in Numbers : r = <<{n}, TRUE>>
        \/ r = <<{0}, FALSE>> \/ r = <<old, FALSE>>
    BY DEF VE!Reads
  <2>2. CASE \E n \in Numbers : r = <<{n}, TRUE>>
    BY <2>2
  <2>3. CASE r = <<{0}, FALSE>>
    <3>1. r[1] = {0} /\ r[2] = FALSE BY <2>3
    <3>2. QED BY <1>1, <3>1
  <2>4. CASE r = <<old, FALSE>>
    <3>1. r[1] = old /\ r[2] = FALSE BY <2>4
    <3>2. QED BY <3>1
  <2>5. QED BY <2>1, <2>2, <2>3, <2>4
<1>3. ~good => VE!Reads(old) = {<<old, FALSE>>}
  BY DEF VE!Reads
<1>4. QED BY <1>2, <1>3

\* The types hold at the start.
LEMMA VectorInit == VE!Init => VectorInv
<1> SUFFICES ASSUME VE!Init PROVE VectorInv
  OBVIOUS
<1>1. argv \in Seq(VE!Options)
  BY VectorsAssumption DEF VE!Init, VE!VectorAssumption
<1>2. QED
  BY <1>1, VectorsAssumption
  DEF VE!Init, VectorInv, VE!TypeOK, VE!VectorAssumption, VE!LoggerOptions, VE!ERROR,
      VE!INFO, VE!DEBUG

\* Every step keeps the types.
LEMMA VectorKept == ASSUME VectorInv, [VE!Next]_(VE!vars) PROVE VectorInv'
<1> USE DEF VectorInv, VE!TypeOK
<1>1. CASE VE!SetLevel
  <2>1. VE!LevelOf[argv[optind]] \in VE!ERROR .. VE!DEBUG
    BY <1>1, LevelsOf DEF VE!SetLevel, VE!ERROR, VE!DEBUG
  <2>2. logger' \in [to : {"stdout"} \cup VE!LoggerOptions, level : VE!ERROR .. VE!DEBUG]
    BY <1>1, <2>1 DEF VE!SetLevel
  <2>3. QED BY <1>1, <2>2 DEF VE!SetLevel
<1>2. CASE VE!SetGlobalLogger
  BY <1>2 DEF VE!SetGlobalLogger, VE!ERROR, VE!INFO, VE!DEBUG
<1>3. CASE VE!Start
  BY <1>3 DEF VE!Start
<1>4. CASE VE!CreateVector
  <2>1. PICK r \in VE!Reads(Numbers) : \E n \in r[1] :
          /\ good' = r[2]
          /\ \/ n \in 0 .. MaxSize /\ vec' = [i \in 1 .. n |-> 0] /\ vector_pc' = "cmd"
             \/ vector_pc' = "terminated" /\ UNCHANGED vec
    BY <1>4 DEF VE!CreateVector
  <2>2. r[2] \in BOOLEAN
    BY <2>1, ReadsTypes
  <2>3. vec' \in Seq(Numbers) /\ Len(vec') <= MaxSize /\ vector_pc' \in {"cmd", "terminated"}
    BY <2>1, VectorsAssumption DEF VE!VectorAssumption
  <2>4. QED BY <1>4, <2>1, <2>2, <2>3 DEF VE!CreateVector
<1>5. CASE VE!ReadCommand
  <2>1. PICK r \in VE!Reads(cmd) : \E n \in r[1] : cmd' = {n} /\ good' = r[2]
    BY <1>5 DEF VE!ReadCommand
  <2>2. r[1] \subseteq Numbers /\ r[2] \in BOOLEAN
    BY <2>1, ReadsTypes
  <2>3. vector_pc' \in {"index", "print", "leave"}
    BY <1>5 DEF VE!ReadCommand
  <2>4. QED BY <1>5, <2>1, <2>2, <2>3 DEF VE!ReadCommand
<1>6. CASE VE!ShowVector
  BY <1>6 DEF VE!ShowVector
<1>7. CASE VE!ReadIndex
  <2>1. PICK r \in VE!Reads(Numbers) : \E n \in r[1] : index' = {n} /\ good' = r[2]
    BY <1>7 DEF VE!ReadIndex
  <2>2. r[1] \subseteq Numbers /\ r[2] \in BOOLEAN
    BY <2>1, ReadsTypes
  <2>3. QED BY <1>7, <2>1, <2>2 DEF VE!ReadIndex
<1>8. CASE VE!IndexError
  BY <1>8 DEF VE!IndexError, VE!AccessFails
<1>9. CASE VE!Change
  <2>1. PICK i \in index : /\ i \in 0 .. Len(vec) - 1
                           /\ \E r \in VE!Reads({vec[i + 1]}) : \E n \in r[1] :
                                vec' = [vec EXCEPT ![i + 1] = n] /\ good' = r[2]
    BY <1>9 DEF VE!Change
  <2>2. vec[i + 1] \in Numbers
    BY <2>1
  <2>3. PICK r \in VE!Reads({vec[i + 1]}) : \E n \in r[1] :
          vec' = [vec EXCEPT ![i + 1] = n] /\ good' = r[2]
    BY <2>1
  <2>4. r[1] \subseteq Numbers /\ r[2] \in BOOLEAN
    BY <2>2, <2>3, ReadsTypes
  <2>5. vec' \in Seq(Numbers) /\ Len(vec') = Len(vec)
    BY <2>1, <2>3, <2>4
  <2>6. QED BY <1>9, <2>3, <2>4, <2>5 DEF VE!Change
<1>10. CASE VE!Get
  BY <1>10 DEF VE!Get
<1>11. CASE VE!Leave
  BY <1>11 DEF VE!Leave
<1>12. CASE UNCHANGED VE!vars
  BY <1>12 DEF VE!vars
<1>13. QED
  BY <1>1, <1>2, <1>3, <1>4, <1>5, <1>6, <1>7, <1>8, <1>9, <1>10, <1>11, <1>12 DEF VE!Next

-----------------------------------------------------------------------------
\* Before the first option the logger is that of no options.
LEMMA OptionsInit == VE!Init => OptionsSoFar
<1> SUFFICES ASSUME VE!Init PROVE OptionsSoFar
  OBVIOUS
<1>1. IsLast(argv, VE!LoggerOptions, 1, 0) /\ IsLast(argv, VE!LevelOptions, 1, 0)
  BY DEF IsLast
<1>2. QED
  BY <1>1 DEF VE!Init, OptionsSoFar

\* Each option makes the logger that of the options so far.
LEMMA OptionsStep == ASSUME VectorInv, OptionsSoFar, [VE!Next]_(VE!vars) PROVE OptionsSoFar'
<1>1. PICK to \in 0 .. optind - 1, lev \in 0 .. optind - 1 :
        /\ IsLast(argv, VE!LoggerOptions, optind, to) /\ IsLast(argv, VE!LevelOptions, optind, lev)
        /\ logger.to = IF to = 0 THEN "stdout" ELSE argv[to]
        /\ logger.level = IF lev > to THEN VE!LevelOf[argv[lev]] ELSE VE!INFO
  BY DEF OptionsSoFar
<1>2. optind \in Nat /\ optind >= 1 /\ argv \in Seq(VE!Options)
  BY DEF VectorInv, VE!TypeOK
<1>3. CASE VE!SetLevel
  <2>1. argv' = argv /\ optind' = optind + 1 /\ argv[optind] \in VE!LevelOptions
    BY <1>3 DEF VE!SetLevel
  <2>2. logger'.to = logger.to /\ logger'.level = VE!LevelOf[argv[optind]]
    BY <1>3 DEF VE!SetLevel, VectorInv, VE!TypeOK
  <2>3. argv[optind] \notin VE!LoggerOptions
    BY <1>2, <1>3, OptionsAre DEF VE!SetLevel
  <2>4. IsLast(argv', VE!LoggerOptions, optind', to)
    BY <1>1, <1>2, <2>1, <2>3 DEF IsLast
  <2>5. IsLast(argv', VE!LevelOptions, optind', optind)
    BY <1>2, <2>1 DEF IsLast
  <2>6. to \in 0 .. optind' - 1 /\ optind \in 0 .. optind' - 1 /\ optind > to
    BY <1>1, <1>2, <2>1
  <2>7. logger'.to = IF to = 0 THEN "stdout" ELSE argv'[to]
    BY <1>1, <2>1, <2>2
  <2>8. logger'.level = IF optind > to THEN VE!LevelOf[argv'[optind]] ELSE VE!INFO
    BY <2>1, <2>2, <2>6
  <2>9. QED
    BY <2>4, <2>5, <2>6, <2>7, <2>8 DEF OptionsSoFar
<1>4. CASE VE!SetGlobalLogger
  <2>1. argv' = argv /\ optind' = optind + 1 /\ argv[optind] \in VE!LoggerOptions
    BY <1>4 DEF VE!SetGlobalLogger
  <2>2. logger'.to = argv[optind] /\ logger'.level = VE!INFO
    BY <1>4 DEF VE!SetGlobalLogger
  <2>3. argv[optind] \notin VE!LevelOptions
    BY <1>2, <1>4, OptionsAre DEF VE!SetGlobalLogger
  <2>4. IsLast(argv', VE!LevelOptions, optind', lev)
    BY <1>1, <1>2, <2>1, <2>3 DEF IsLast
  <2>5. IsLast(argv', VE!LoggerOptions, optind', optind)
    BY <1>2, <2>1 DEF IsLast
  <2>6. /\ lev \in 0 .. optind' - 1 /\ optind \in 0 .. optind' - 1
        /\ ~(lev > optind) /\ optind # 0
    BY <1>1, <1>2, <2>1
  <2>7. logger'.to = IF optind = 0 THEN "stdout" ELSE argv'[optind]
    BY <2>1, <2>2, <2>6
  <2>8. logger'.level = IF lev > optind THEN VE!LevelOf[argv'[lev]] ELSE VE!INFO
    BY <2>1, <2>2, <2>6
  <2>9. QED
    BY <2>4, <2>5, <2>6, <2>7, <2>8 DEF OptionsSoFar
<1>5. CASE UNCHANGED <<argv, optind, logger>>
  BY <1>5 DEF OptionsSoFar, IsLast
<1>6. QED
  BY <1>3, <1>4, <1>5
  DEF VE!Next, VE!vars, VE!Start, VE!CreateVector, VE!ReadCommand, VE!ShowVector,
      VE!ReadIndex, VE!IndexError,
    VE!Change, VE!Get, VE!Leave

\* The last option of a kind is the one no other of the kind follows.
LEMMA LastOfIs == ASSUME argv \in Seq(VE!Options), NEW S, NEW i, IsLast(argv, S, Len(argv) + 1, i)
  PROVE  VE!LastOf(S) = i
<1> DEFINE P == {k \in DOMAIN argv : argv[k] \in S}
<1>0. Len(argv) \in Nat /\ DOMAIN argv = 1 .. Len(argv)
  OBVIOUS
<1>1. CASE i = 0
  <2>1. P = {}
    BY <1>0, <1>1 DEF IsLast
  <2>2. QED BY <1>1, <2>1 DEF VE!LastOf
<1>2. CASE i > 0
  <2>1. i \in P /\ \A j \in P : j <= i
    BY <1>0, <1>2 DEF IsLast
  <2>2. \A k \in P : (\A j \in P : j <= k) => k = i
    BY <1>0, <2>1
  <2>3. (CHOOSE k \in P : \A j \in P : j <= k) = i
    BY <2>1, <2>2
  <2>4. P # {}
    BY <2>1
  <2>5. QED BY <2>3, <2>4 DEF VE!LastOf
<1>3. QED BY <1>0, <1>1, <1>2 DEF IsLast

\* After the options, the logger is that of the whole command line.
LEMMA OptionsTake == ASSUME VectorInv, OptionsSoFar PROVE VE!OptionsTakeEffect
<1> SUFFICES ASSUME vector_pc # "options" PROVE VE!OptionsTakeEffect
  BY DEF VE!OptionsTakeEffect
<1>1. PICK to \in 0 .. optind - 1, lev \in 0 .. optind - 1 :
        /\ IsLast(argv, VE!LoggerOptions, optind, to) /\ IsLast(argv, VE!LevelOptions, optind, lev)
        /\ logger.to = IF to = 0 THEN "stdout" ELSE argv[to]
        /\ logger.level = IF lev > to THEN VE!LevelOf[argv[lev]] ELSE VE!INFO
  BY DEF OptionsSoFar
<1>2. optind = Len(argv) + 1 /\ argv \in Seq(VE!Options)
  BY DEF VectorInv
<1>3. VE!LastOf(VE!LoggerOptions) = to /\ VE!LastOf(VE!LevelOptions) = lev
  BY <1>1, <1>2, LastOfIs
<1>4. QED BY <1>1, <1>3 DEF VE!OptionsTakeEffect

-----------------------------------------------------------------------------
\* An access outside of the vector is logged, and changes nothing.
LEMMA IndexErrorsStep == ASSUME VectorInv, VE!Next PROVE VE!IndexErrorsAreLogged
<1> SUFFICES ASSUME vector_pc = "access", VE!OutOfRange
    PROVE  logged' = <<logger.to, VE!ERROR>> /\ vec' = vec
  BY DEF VE!IndexErrorsAreLogged
<1>1. VE!IndexError
  BY DEF VE!Next, VE!SetLevel, VE!SetGlobalLogger, VE!Start, VE!CreateVector,
      VE!ReadCommand, VE!ShowVector,
    VE!ReadIndex, VE!Change, VE!Get, VE!Leave, VE!OutOfRange
<1>2. logger.level >= VE!ERROR
  BY DEF VectorInv, VE!TypeOK, VE!ERROR, VE!DEBUG
<1>3. QED BY <1>1, <1>2 DEF VE!IndexError, VE!Log

\* Input that fails stores at most one 0.
LEMMA FailedInputStep == ASSUME VectorInv, [VE!Next]_(VE!vars) PROVE VE!FailedInputStoresZero
<1> SUFFICES ASSUME ~good', vector_pc # "size"
    PROVE  \/ vec' = vec
           \/ /\ good /\ vector_pc = "access" /\ cmd = {1}
              /\ \E i \in index \cap (0 .. Len(vec) - 1) : vec' = [vec EXCEPT ![i + 1] = 0]
  BY DEF VE!FailedInputStoresZero
<1>1. CASE VE!Change
  <2>1. PICK i \in index : /\ i \in 0 .. Len(vec) - 1
                           /\ \E r \in VE!Reads({vec[i + 1]}) : \E n \in r[1] :
                                vec' = [vec EXCEPT ![i + 1] = n] /\ good' = r[2]
    BY <1>1 DEF VE!Change
  <2>2. PICK r \in VE!Reads({vec[i + 1]}) : \E n \in r[1] :
          vec' = [vec EXCEPT ![i + 1] = n] /\ good' = r[2]
    BY <2>1
  <2>3. PICK n \in r[1] : vec' = [vec EXCEPT ![i + 1] = n] /\ good' = r[2]
    BY <2>2
  <2>4. r[2] = FALSE
    BY <2>3
  <2>5. r = <<{vec[i + 1]}, FALSE>> \/ (good /\ r = <<{0}, FALSE>>)
    <3>1. CASE good
      <4>1. \/ r \in {<<{k}, TRUE>> : k \in Numbers}
            \/ r = <<{0}, FALSE>> \/ r = <<{vec[i + 1]}, FALSE>>
        BY <2>2, <3>1 DEF VE!Reads
      <4>2. r \notin {<<{k}, TRUE>> : k \in Numbers}
        <5>1. ASSUME NEW k \in Numbers, r = <<{k}, TRUE>> PROVE FALSE
          BY <2>4, <5>1
        <5>2. QED BY <5>1
      <4>3. QED BY <3>1, <4>1, <4>2
    <3>2. CASE ~good
      BY <2>2, <3>2 DEF VE!Reads
    <3>3. QED BY <3>1, <3>2
  <2>6. CASE r = <<{vec[i + 1]}, FALSE>>
    <3>1. n = vec[i + 1]
      BY <2>6
    <3>2. QED BY <2>3, <3>1 DEF VectorInv
  <2>7. CASE good /\ r = <<{0}, FALSE>>
    <3>1. n = 0 /\ vector_pc = "access" /\ cmd = {1}
      BY <1>1, <2>7 DEF VE!Change
    <3>2. QED BY <2>1, <2>3, <2>7, <3>1
  <2>8. QED BY <2>5, <2>6, <2>7
<1>2. CASE ~VE!Change
  BY <1>2
  DEF VE!Next, VE!vars, VE!SetLevel, VE!SetGlobalLogger, VE!Start, VE!CreateVector,
      VE!ReadCommand,
    VE!ShowVector, VE!ReadIndex, VE!IndexError, VE!Get, VE!Leave
<1>3. QED BY <1>1, <1>2

\* vector_example.cpp: the types, and a command line in effect: when the options are
\* read, the log goes where the last of its options says, at the level given after it.
THEOREM VectorTypes == VE!Spec => [](VectorInv /\ VE!OptionsTakeEffect)
<1>1. VE!Init => VectorInv /\ OptionsSoFar BY VectorInit, OptionsInit
<1>2. VectorInv /\ OptionsSoFar /\ [VE!Next]_(VE!vars) => (VectorInv /\ OptionsSoFar)'
  BY VectorKept, OptionsStep
<1>3. VectorInv /\ OptionsSoFar => VE!OptionsTakeEffect BY OptionsTake
<1>4. QED BY <1>1, <1>2, <1>3, PTL DEF VE!Spec

-----------------------------------------------------------------------------
(***************************************************************************)
(* Logger: any threads, loggers and streams, with levels set at any moment *)
(* and global loggers replaced between calls                               *)
(***************************************************************************)

Inside == {"note", "end"}

LogTypes ==
  /\ level \in [Loggers -> LG!Levels] /\ mutex \in [Loggers -> SUBSET Threads]
  /\ global \in Loggers \ Own
  /\ out \in [Streams -> Seq(LG!Note \cup {End})]
  /\ log_pc \in [Threads -> [at : {"idle", "lock", "note", "end"}, on : Loggers]]
  /\ note \in [Threads -> LG!Note] /\ errors \in [Threads -> Nat]

\* The mutex of a logger is held by the thread that writes with it, if any.
MutexInv ==
  /\ \A l \in Loggers, t \in Threads :
        t \in mutex[l] <=> log_pc[t].at \in Inside /\ log_pc[t].on = l
  /\ \A l \in Loggers : \A t, u \in mutex[l] : t = u

\* A call that has not returned is not counted yet.
CountInv ==
  \A t \in Threads :
    /\ errors[t] <= note[t].nr
    /\ log_pc[t].at # "idle" => errors[t] < note[t].nr

Alone(l) == \A k \in Loggers : StreamOf[k] = StreamOf[l] => k = l
Open(l) == \E t \in Threads : log_pc[t].at = "end" /\ log_pc[t].on = l
Even(n) == n % 2 = 0
Odd(n) == n % 2 = 1
Whole(s) == \A i \in 1 .. Len(s) : (s[i] = End) <=> Even(i)

\* A stream with one logger has whole lines, and half of one while a thread is
\* between its two writes.
LinesInv ==
  \A l \in Loggers : Alone(l) =>
    /\ Whole(out[StreamOf[l]])
    /\ Odd(Len(out[StreamOf[l]])) <=> Open(l)

LoggerInv == LogTypes /\ MutexInv /\ CountInv /\ LinesInv

-----------------------------------------------------------------------------
\* One more element of a stream that has whole lines.
LEMMA OneMore ==
  ASSUME NEW S, NEW s \in Seq(S), NEW x \in S, Whole(s),
         (x = End) <=> Even(Len(s) + 1)
  PROVE  /\ Append(s, x) \in Seq(S) /\ Len(Append(s, x)) = Len(s) + 1
         /\ Whole(Append(s, x))
<1>1. /\ Len(s) \in Nat /\ Append(s, x) \in Seq(S) /\ Len(Append(s, x)) = Len(s) + 1
      /\ \A i \in 1 .. Len(s) : Append(s, x)[i] = s[i]
      /\ Append(s, x)[Len(s) + 1] = x
  OBVIOUS
<1>2. \A i \in 1 .. Len(s) + 1 : i \in 1 .. Len(s) \/ i = Len(s) + 1
  BY <1>1
<1>3. QED
  BY <1>1, <1>2 DEF Whole

\* Numbers are odd or even by turns.
LEMMA Parity ==
  /\ ~Odd(0)
  /\ \A n \in Nat : (Odd(n) <=> Even(n + 1)) /\ (Odd(n) <=> ~Odd(n + 1))
BY DEF Odd, Even

\* The invariant holds at the start.
LEMMA InitIsLogger == LG!Init => LoggerInv
<1> SUFFICES ASSUME LG!Init PROVE LoggerInv
  OBVIOUS
<1> USE LogsAssumption DEF LG!Init, LG!LoggerAssumption
<1>1. LogTypes
  BY DEF LogTypes, LG!Levels, LG!ERROR, LG!WARNING, LG!INFO, LG!DEBUG, LG!NoCall, LG!Note
<1>2. \A t \in Threads : log_pc[t].at = "idle" /\ errors[t] = 0 /\ note[t].nr = 0
  BY DEF LG!NoCall
<1>3. MutexInv /\ CountInv
  BY <1>2 DEF MutexInv, CountInv, Inside
<1>4. LinesInv
  <2>1. ASSUME NEW l \in Loggers
        PROVE Whole(out[StreamOf[l]]) /\ ~Odd(Len(out[StreamOf[l]])) /\ ~Open(l)
    <3>1. out[StreamOf[l]] = <<>>
      OBVIOUS
    <3>2. Len(out[StreamOf[l]]) = 0
      BY <3>1
    <3>3. ~Open(l)
      BY <1>2 DEF Open
    <3>4. QED
      BY <3>2, <3>3, Parity DEF Whole
  <2>2. QED
    BY <2>1 DEF LinesInv
<1>5. QED
  BY <1>1, <1>3, <1>4 DEF LoggerInv

\* What no thread writes: the lines stay as they are.
LEMMA NothingWritten ==
  ASSUME LinesInv, UNCHANGED out, \A l \in Loggers : Open(l)' <=> Open(l)
  PROVE  LinesInv'
BY DEF LinesInv, Alone, Whole

\* A call that begins keeps the invariant.
LEMMA CallStep ==
  ASSUME LoggerInv, NEW t \in Threads, NEW l \in Loggers, NEW lev \in UsedLevels,
         LG!Call(t, l, lev)
  PROVE  LoggerInv'
<1> USE DEF LoggerInv, LG!Call
<1>1. /\ lev \in LG!Levels /\ MaxMessages \in Nat /\ note[t] \in LG!Note /\ note[t].nr < MaxMessages
      /\ log_pc[t].at = "idle" /\ errors[t] <= note[t].nr
  BY LogsAssumption DEF LG!LoggerAssumption, LogTypes, CountInv
<1>2. [by |-> t, nr |-> note[t].nr + 1, level |-> lev] \in LG!Note
  BY <1>1 DEF LG!Note
<1>3. /\ log_pc' = [log_pc EXCEPT ![t] = [at |-> "lock", on |-> l]] \/ log_pc' = log_pc
      /\ log_pc' = [log_pc EXCEPT ![t] = [at |-> "lock", on |-> l]] => errors' = errors
      /\ errors' = errors \/ errors' = [errors EXCEPT ![t] = @ + 1]
  BY DEF LG!Returned, LogTypes
<1>4. LogTypes'
  <2>1. note' \in [Threads -> LG!Note] /\ UNCHANGED <<level, mutex, global, out>>
    BY <1>2 DEF LogTypes
  <2>2. log_pc' \in [Threads -> [at : {"idle", "lock", "note", "end"}, on : Loggers]]
    BY <1>3 DEF LogTypes
  <2>3. errors' \in [Threads -> Nat]
    BY <1>3 DEF LogTypes
  <2>4. QED
    BY <2>1, <2>2, <2>3 DEF LogTypes
<1>5. \A u \in Threads : /\ (log_pc'[u].at \in Inside) <=> (log_pc[u].at \in Inside)
                         /\ (log_pc'[u].at = "end") <=> (log_pc[u].at = "end")
                         /\ log_pc[u].at \in Inside => log_pc'[u] = log_pc[u]
  <2>1. log_pc'[t].at \in {"idle", "lock"} /\ log_pc[t].at = "idle"
    BY <1>1, <1>3 DEF LogTypes
  <2>2. \A u \in Threads \ {t} : log_pc'[u] = log_pc[u]
    BY <1>3 DEF LogTypes
  <2>3. QED
    BY <2>1, <2>2 DEF Inside
<1>6. MutexInv'
  BY <1>5 DEF MutexInv, Inside
<1>7. note'[t].nr = note[t].nr + 1 /\ \A u \in Threads \ {t} : note'[u] = note[u]
  BY DEF LogTypes
<1>8. CountInv'
  <2>1. \A u \in Threads \ {t} : log_pc'[u] = log_pc[u] /\ errors'[u] = errors[u]
    BY <1>3 DEF LogTypes
  <2>2. errors[t] \in Nat /\ note[t].nr \in Nat
    BY <1>1 DEF LogTypes, LG!Note
  <2>3. errors'[t] <= note'[t].nr
    BY <1>1, <1>3, <1>7, <2>2 DEF LogTypes
  <2>4. log_pc'[t].at # "idle" => errors'[t] < note'[t].nr
    BY <1>1, <1>3, <1>7, <2>2 DEF LG!Returned, LogTypes
  <2>5. QED
    BY <1>7, <2>1, <2>3, <2>4 DEF CountInv
<1>9. \A k \in Loggers : Open(k)' <=> Open(k)
  BY <1>5 DEF Open, Inside
<1>10. LinesInv'
  BY <1>9, NothingWritten
<1>11. QED
  BY <1>4, <1>6, <1>8, <1>10

\* Taking the mutex keeps the invariant.
LEMMA LockStep ==
  ASSUME LoggerInv, NEW t \in Threads, LG!Lock(t)
  PROVE  LoggerInv'
<1> USE DEF LoggerInv, LG!Lock, LG!Goes
<1>1. log_pc[t].on \in Loggers /\ mutex[log_pc[t].on] = {} /\ log_pc[t].at = "lock"
  BY DEF LogTypes
<1>2. /\ log_pc'[t].at = "note" /\ log_pc'[t].on = log_pc[t].on
      /\ \A u \in Threads \ {t} : log_pc'[u] = log_pc[u]
      /\ mutex'[log_pc[t].on] = {t} /\ \A l \in Loggers \ {log_pc[t].on} : mutex'[l] = mutex[l]
  BY <1>1 DEF LogTypes
<1>3. LogTypes'
  BY DEF LogTypes
<1>4. MutexInv'
  BY <1>1, <1>2 DEF MutexInv, Inside, LogTypes
<1>5. CountInv'
  BY <1>1, <1>2 DEF CountInv
<1>6. \A l \in Loggers : Open(l)' <=> Open(l)
  BY <1>1, <1>2 DEF Open
<1>7. LinesInv'
  BY <1>6, NothingWritten
<1>8. QED
  BY <1>3, <1>4, <1>5, <1>7

\* What the two writes have in common: x goes to the stream of the logger of t,
\* and to the one of no logger that is alone with another stream.
LEMMA WriteOf ==
  ASSUME LoggerInv, NEW t \in Threads, NEW x \in LG!Note \cup {End},
         log_pc[t].at \in Inside, LG!Put(StreamOf[log_pc[t].on], x),
         (x = End) <=> log_pc[t].at = "end",
         \A u \in Threads \ {t} : log_pc'[u] = log_pc[u],
         log_pc'[t].at = "end" <=> log_pc[t].at = "note",
         log_pc[t].at = "note" => log_pc'[t].on = log_pc[t].on
  PROVE  LinesInv'
<1> DEFINE m == log_pc[t].on
<1>1. m \in Loggers /\ t \in mutex[m] /\ StreamOf \in [Loggers -> Streams]
  BY LogsAssumption DEF LG!LoggerAssumption, LoggerInv, LogTypes, MutexInv
<1>2. \A u \in Threads \ {t} : ~(log_pc[u].at \in Inside /\ log_pc[u].on = m)
  BY <1>1 DEF LoggerInv, MutexInv
<1>3. SUFFICES ASSUME NEW l \in Loggers, Alone(l)
               PROVE  /\ Whole(out'[StreamOf[l]])
                      /\ Odd(Len(out'[StreamOf[l]])) <=> Open(l)'
  BY DEF LinesInv, Alone, Whole
<1>4. Whole(out[StreamOf[l]]) /\ (Odd(Len(out[StreamOf[l]])) <=> Open(l))
  BY <1>3 DEF LoggerInv, LinesInv
<1>5. CASE l # m
  <2>1. StreamOf[m] # StreamOf[l]
    BY <1>1, <1>3, <1>5 DEF Alone
  <2>2. out'[StreamOf[l]] = out[StreamOf[l]]
    BY <1>1, <2>1 DEF LG!Put, LoggerInv, LogTypes
  <2>3. Open(l)' <=> Open(l)
    BY <1>5 DEF Open, Inside
  <2>4. QED
    BY <1>4, <2>2, <2>3
<1>6. CASE l = m
  <2> DEFINE s == out[StreamOf[l]]
  <2>1. s \in Seq(LG!Note \cup {End}) /\ out'[StreamOf[l]] = Append(s, x)
    BY <1>1, <1>6 DEF LG!Put, LoggerInv, LogTypes
  <2>2. Open(l) <=> log_pc[t].at = "end"
    BY <1>2, <1>6 DEF Open, Inside
  <2>3. Open(l)' <=> log_pc[t].at = "note"
    BY <1>2, <1>6 DEF Open, Inside
  <2>4. log_pc[t].at = "note" <=> ~(log_pc[t].at = "end")
    BY DEF Inside
  <2>5. Len(s) \in Nat /\ ((x = End) <=> Odd(Len(s)))
    <3>1. Len(s) \in Nat
      BY <2>1
    <3>2. (x = End) <=> Open(l)
      BY <2>2
    <3>3. QED
      BY <1>4, <3>1, <3>2
  <2>6. (x = End) <=> Even(Len(s) + 1)
    BY <2>5, Parity
  <2>7. Len(Append(s, x)) = Len(s) + 1 /\ Whole(Append(s, x))
    BY <1>4, <2>1, <2>6, OneMore
  <2>8. Odd(Len(s) + 1) <=> ~Odd(Len(s))
    BY <2>5, Parity
  <2>9. QED
    BY <1>4, <2>1, <2>2, <2>3, <2>4, <2>7, <2>8
<1>7. QED
  BY <1>5, <1>6

\* Writing a text keeps the invariant: the stream gets an odd length.
LEMMA WriteNoteStep ==
  ASSUME LoggerInv, NEW t \in Threads, LG!WriteNote(t)
  PROVE  LoggerInv'
<1> USE DEF LoggerInv, LG!WriteNote, LG!Goes
<1>1. /\ log_pc[t].at = "note" /\ log_pc'[t].at = "end" /\ log_pc'[t].on = log_pc[t].on
      /\ \A u \in Threads \ {t} : log_pc'[u] = log_pc[u]
      /\ note[t] \in LG!Note /\ note[t] # End /\ log_pc[t].on \in Loggers
  BY LogsAssumption DEF LogTypes
<1>2. LogTypes'
  <2>1. StreamOf[log_pc[t].on] \in Streams
    BY LogsAssumption, <1>1 DEF LG!LoggerAssumption
  <2>2. Append(out[StreamOf[log_pc[t].on]], note[t]) \in Seq(LG!Note \cup {End})
    BY <1>1, <2>1 DEF LogTypes
  <2>3. QED
    BY <2>2 DEF LogTypes, LG!Put
<1>3. MutexInv'
  BY <1>1 DEF MutexInv, Inside
<1>4. CountInv'
  BY <1>1 DEF CountInv
<1>5. LinesInv'
  BY <1>1, WriteOf DEF Inside
<1>6. QED
  BY <1>2, <1>3, <1>4, <1>5

\* Writing the end of a line and unlocking keep the invariant.
LEMMA WriteEndStep ==
  ASSUME LoggerInv, NEW t \in Threads, LG!WriteEnd(t)
  PROVE  LoggerInv'
<1> USE DEF LoggerInv, LG!WriteEnd
<1>1. /\ log_pc[t].at = "end" /\ log_pc'[t] = LG!NoCall /\ LG!NoCall.at = "idle"
      /\ \A u \in Threads \ {t} : log_pc'[u] = log_pc[u]
      /\ log_pc[t].on \in Loggers /\ FirstGlobal \in Loggers
  BY LogsAssumption DEF LogTypes, LG!NoCall, LG!LoggerAssumption
<1>2. errors' = errors \/ errors' = [errors EXCEPT ![t] = @ + 1]
  BY DEF LG!Returned, LogTypes
<1>3. LogTypes'
  <2>1. StreamOf[log_pc[t].on] \in Streams
    BY LogsAssumption, <1>1 DEF LG!LoggerAssumption
  <2>2. Append(out[StreamOf[log_pc[t].on]], End) \in Seq(LG!Note \cup {End})
    BY <1>1, <2>1 DEF LogTypes
  <2>3. LG!NoCall \in [at : {"idle", "lock", "note", "end"}, on : Loggers]
    BY <1>1 DEF LG!NoCall
  <2>4. mutex' \in [Loggers -> SUBSET Threads]
    BY DEF LogTypes
  <2>5. /\ out' \in [Streams -> Seq(LG!Note \cup {End})]
        /\ log_pc' \in [Threads -> [at : {"idle", "lock", "note", "end"}, on : Loggers]]
    BY <2>2, <2>3 DEF LogTypes, LG!Put
  <2>6. errors' \in [Threads -> Nat]
    BY <1>2 DEF LogTypes
  <2>7. QED
    BY <2>4, <2>5, <2>6 DEF LogTypes
<1>4. MutexInv'
  <2>1. /\ mutex'[log_pc[t].on] = mutex[log_pc[t].on] \ {t}
        /\ \A l \in Loggers \ {log_pc[t].on} : mutex'[l] = mutex[l]
    BY <1>1 DEF LogTypes
  <2>2. QED
    BY <1>1, <2>1 DEF MutexInv, Inside
<1>5. CountInv'
  <2>1. \A u \in Threads \ {t} : errors'[u] = errors[u]
    BY <1>2 DEF LogTypes
  <2>2. errors[t] \in Nat /\ note[t].nr \in Nat /\ errors[t] < note[t].nr
    BY <1>1 DEF LogTypes, CountInv, LG!Note
  <2>3. errors'[t] <= note[t].nr
    BY <1>2, <2>2 DEF LogTypes
  <2>4. QED
    BY <1>1, <2>1, <2>3 DEF CountInv
<1>6. LinesInv'
  BY <1>1, WriteOf DEF Inside
<1>7. QED
  BY <1>3, <1>4, <1>5, <1>6

\* Setting a level or the global logger keeps the invariant.
LEMMA SetterStep ==
  ASSUME LoggerInv, NEW l \in Loggers, NEW lev \in LG!Levels,
         level' = [level EXCEPT ![l] = lev], global' \in Loggers \ Own,
         UNCHANGED <<mutex, out, log_pc, note, errors>>
  PROVE  LoggerInv'
<1> USE DEF LoggerInv
<1>1. LogTypes'
  BY DEF LogTypes
<1>2. MutexInv' /\ CountInv'
  BY DEF MutexInv, CountInv
<1>3. \A k \in Loggers : Open(k)' <=> Open(k)
  BY DEF Open
<1>4. LinesInv'
  BY <1>3, NothingWritten
<1>5. QED
  BY <1>1, <1>2, <1>4

\* Every step keeps the invariant.
LEMMA NextKeepsLogger == LoggerInv /\ [LG!Next]_(LG!vars) => LoggerInv'
<1> SUFFICES ASSUME LoggerInv, [LG!Next]_(LG!vars) PROVE LoggerInv'
  OBVIOUS
<1>1. global \in Loggers \ Own /\ Own \subseteq Loggers /\ UsedLevels \subseteq LG!Levels
  BY LogsAssumption DEF LoggerInv, LogTypes, LG!LoggerAssumption
<1>2. ASSUME NEW t \in Threads, LG!Log(t) PROVE LoggerInv'
  BY <1>2, LockStep, WriteNoteStep, WriteEndStep DEF LG!Log
<1>3. ASSUME NEW t \in Threads, NEW lev \in UsedLevels, LG!CallGlobal(t, lev) PROVE LoggerInv'
  BY <1>1, <1>3, CallStep DEF LG!CallGlobal
<1>4. ASSUME NEW t \in Threads, NEW lev \in UsedLevels, NEW l \in Own, LG!Call(t, l, lev)
      PROVE LoggerInv'
  BY <1>1, <1>4, CallStep
<1>5. ASSUME NEW lev \in UsedLevels, LG!SetLevel(global, lev) PROVE LoggerInv'
  BY <1>1, <1>5, SetterStep DEF LG!SetLevel
<1>6. ASSUME NEW l \in Loggers, LG!SetGlobal(l) PROVE LoggerInv'
  <2>1. LG!INFO \in LG!Levels /\ global' \in Loggers \ Own
    BY <1>6 DEF LG!SetGlobal, LG!Levels, LG!ERROR, LG!WARNING, LG!INFO, LG!DEBUG
  <2>2. QED
    BY <1>6, <2>1, SetterStep DEF LG!SetGlobal
<1>7. CASE UNCHANGED LG!vars
  BY <1>7 DEF LG!vars, LoggerInv, LogTypes, MutexInv, CountInv, LinesInv, Open
<1>8. QED
  BY <1>2, <1>3, <1>4, <1>5, <1>6, <1>7 DEF LG!Next

-----------------------------------------------------------------------------
\* Every instance has the cardinality of its own FiniteSets.
LEMMA SizeOfLoggers == \A S : LG!Cardinality(S) = Cardinality(S)
  BY DEF LG!Cardinality, Cardinality

\* The invariant has the types of Logger.
LEMMA LoggerInvType == LoggerInv => LG!TypeOK
<1> SUFFICES ASSUME LoggerInv PROVE LG!TypeOK
  OBVIOUS
<1> USE DEF LoggerInv
<1>1. \A l \in Loggers :
        mutex[l] = {t \in Threads : log_pc[t].at \in {"note", "end"} /\ log_pc[t].on = l}
  BY DEF LogTypes, MutexInv, Inside
<1>2. ASSUME NEW l \in Loggers PROVE Cardinality(mutex[l]) <= 1
  <2>1. CASE mutex[l] = {}
    BY <2>1, FS_EmptySet
  <2>2. CASE mutex[l] # {}
    <3>1. PICK t : t \in mutex[l]
      BY <2>2
    <3>2. mutex[l] = {t}
      BY <3>1 DEF MutexInv
    <3>3. Cardinality({t}) = 1
      BY FS_Singleton
    <3>4. QED
      BY <3>2, <3>3
  <2>3. QED
    BY <2>1, <2>2
<1>3. ASSUME NEW t \in Threads PROVE errors[t] \in 0 .. MaxMessages
  <2>1. errors[t] \in Nat /\ note[t].nr \in 0 .. MaxMessages /\ errors[t] <= note[t].nr
    BY DEF LogTypes, CountInv, LG!Note
  <2>2. MaxMessages \in Nat
    BY LogsAssumption DEF LG!LoggerAssumption
  <2>3. QED
    BY <2>1, <2>2
<1>4. errors \in [Threads -> 0 .. MaxMessages]
  BY <1>3 DEF LogTypes
<1>5. QED
  BY <1>1, <1>2, <1>4, SizeOfLoggers DEF LogTypes, LG!TypeOK

\* The invariant has whole lines on a stream of one logger.
LEMMA LoggerInvLines == LoggerInv => LG!LinesAreWhole
<1> SUFFICES ASSUME LoggerInv, NEW s \in Streams,
                    Cardinality({l \in Loggers : StreamOf[l] = s}) = 1,
                    NEW i \in DOMAIN out[s]
             PROVE  (out[s][i] = End) <=> (i % 2 = 0)
  BY SizeOfLoggers DEF LG!LinesAreWhole
<1> DEFINE Here == {l \in Loggers : StreamOf[l] = s}
<1>1. IsFiniteSet(Here)
  BY LogsAssumption, FS_Subset
<1>2. PICK l : Here = {l}
  BY <1>1, FS_Singleton
<1>3. l \in Loggers /\ StreamOf[l] = s /\ Alone(l)
  BY <1>2 DEF Alone
<1>4. Whole(out[s]) /\ out[s] \in Seq(LG!Note \cup {End})
  BY <1>3 DEF LoggerInv, LinesInv, LogTypes
<1>5. i \in 1 .. Len(out[s])
  BY <1>4
<1>6. QED
  BY <1>4, <1>5 DEF Whole, Even

\* The invariant holds in every state.
LEMMA LoggerInvHolds == LG!Spec => []LoggerInv
<1>1. LG!Init => LoggerInv
  BY InitIsLogger
<1>2. LoggerInv /\ [LG!Next]_(LG!vars) => LoggerInv'
  BY NextKeepsLogger
<1>3. QED
  BY <1>1, <1>2, PTL DEF LG!Spec

\* Types, and a mutex with one owner, which is the thread inside the logger.
THEOREM LogTypesHold == LG!Spec => []LG!TypeOK
<1>1. LoggerInv => LG!TypeOK
  BY LoggerInvType
<1>2. QED
  BY <1>1, LoggerInvHolds, PTL

\* The two writes of a line are never torn apart on a stream that has one logger,
\* for any number of threads: what log_mutex_ of hw-6 adds to hw-2.
THEOREM LinesAreWholeHolds == LG!Spec => []LG!LinesAreWhole
<1>1. LoggerInv => LG!LinesAreWhole
  BY LoggerInvLines
<1>2. QED
  BY <1>1, LoggerInvHolds, PTL

-----------------------------------------------------------------------------
\* An error is counted in its stream from its first write on, and as returned
\* from its second one on.
Pending(t) == IF log_pc[t].at = "end" /\ note[t].level = LG!ERROR THEN 1 ELSE 0
ErrorsInv ==
  \A t \in Threads :
    /\ note[t].by = t
    /\ IsFiniteSet(LG!NotesOf(t, LG!ERROR))
    /\ Cardinality(LG!NotesOf(t, LG!ERROR)) = errors[t] + Pending(t)

\* The notes of errors of t in the streams o.
ErrorNotes(o, t) ==
  {x \in UNION {{s} \X DOMAIN o[s] : s \in Streams} :
     LET n == o[x[1]][x[2]] IN n # End /\ n.by = t /\ n.level = LG!ERROR}

\* The errors in the logs, as an operator of the streams.
LEMMA NotesAre ==
  /\ \A t : LG!NotesOf(t, LG!ERROR) = ErrorNotes(out, t)
  /\ \A t : LG!NotesOf(t, LG!ERROR)' = ErrorNotes(out', t)
  BY DEF LG!NotesOf, ErrorNotes

\* Which places of the streams have an error of a thread.
LEMMA ErrorNotesAre == ASSUME NEW o, NEW t, NEW x
  PROVE  x \in ErrorNotes(o, t) <=>
           \E s \in Streams : \E i \in DOMAIN o[s] :
             /\ x = <<s, i>> /\ o[s][i] # End /\ o[s][i].by = t /\ o[s][i].level = LG!ERROR
<1>1. x \in UNION {{s} \X DOMAIN o[s] : s \in Streams} <=>
        \E s \in Streams : \E i \in DOMAIN o[s] : x = <<s, i>>
  OBVIOUS
<1>2. QED BY <1>1 DEF ErrorNotes

\* The streams p are the streams o with x written to s.
IsPut(o, p, s, x) ==
  /\ o[s] \in Seq(LG!Note \cup {End}) /\ p[s] = Append(o[s], x)
  /\ \A r \in Streams \ {s} : p[r] = o[r]

\* What a write to a stream adds to the errors of a thread.
LEMMA NotesAdded ==
  ASSUME NEW o, NEW p, NEW s \in Streams, NEW x \in LG!Note \cup {End}, NEW t \in Threads,
         IsPut(o, p, s, x)
  PROVE  /\ x # End /\ x.by = t /\ x.level = LG!ERROR =>
              ErrorNotes(p, t) = ErrorNotes(o, t) \cup {<<s, Len(o[s]) + 1>>}
         /\ ~(x # End /\ x.by = t /\ x.level = LG!ERROR) => ErrorNotes(p, t) = ErrorNotes(o, t)
         /\ <<s, Len(o[s]) + 1>> \notin ErrorNotes(o, t)
<1> DEFINE n == Len(o[s]) + 1
<1>2. /\ n \in Nat /\ n \notin DOMAIN o[s] /\ DOMAIN p[s] = DOMAIN o[s] \cup {n}
      /\ p[s][n] = x /\ \A i \in DOMAIN o[s] : p[s][i] = o[s][i]
  BY DEF IsPut
<1>3. /\ \A r \in Streams : DOMAIN p[r] = IF r = s THEN DOMAIN o[s] \cup {n} ELSE DOMAIN o[r]
      /\ \A r \in Streams \ {s} : p[r] = o[r]
  BY <1>2 DEF IsPut
<1> HIDE DEF n
<1>4. ASSUME NEW y \in ErrorNotes(o, t) PROVE y \in ErrorNotes(p, t)
  <2>1. PICK r \in Streams : \E i \in DOMAIN o[r] :
          /\ y = <<r, i>> /\ o[r][i] # End /\ o[r][i].by = t /\ o[r][i].level = LG!ERROR
    BY ErrorNotesAre
  <2>2. PICK i \in DOMAIN o[r] :
          /\ y = <<r, i>> /\ o[r][i] # End /\ o[r][i].by = t /\ o[r][i].level = LG!ERROR
    BY <2>1
  <2>3. i \in DOMAIN p[r] /\ p[r][i] = o[r][i]
    BY <1>2, <1>3
  <2>4. QED BY <2>2, <2>3, ErrorNotesAre
<1>5. ASSUME x # End, x.by = t, x.level = LG!ERROR PROVE <<s, n>> \in ErrorNotes(p, t)
  <2>1. n \in DOMAIN p[s] /\ p[s][n] = x
    BY <1>2
  <2>2. QED BY <1>5, <2>1, ErrorNotesAre
<1>6. ASSUME NEW y \in ErrorNotes(p, t)
      PROVE  y \in ErrorNotes(o, t) \/ (y = <<s, n>> /\ x # End /\ x.by = t /\ x.level = LG!ERROR)
  <2>1. PICK r \in Streams : \E i \in DOMAIN p[r] :
          /\ y = <<r, i>> /\ p[r][i] # End /\ p[r][i].by = t /\ p[r][i].level = LG!ERROR
    BY ErrorNotesAre
  <2>2. PICK i \in DOMAIN p[r] :
          /\ y = <<r, i>> /\ p[r][i] # End /\ p[r][i].by = t /\ p[r][i].level = LG!ERROR
    BY <2>1
  <2>3. CASE r = s /\ i = n
    BY <1>2, <2>2, <2>3
  <2>4. CASE ~(r = s /\ i = n)
    <3>1. i \in DOMAIN o[r] /\ p[r][i] = o[r][i]
      BY <1>2, <1>3, <2>4
    <3>2. QED BY <2>2, <3>1, ErrorNotesAre
  <2>5. QED BY <2>3, <2>4
<1>7. <<s, n>> \notin ErrorNotes(o, t)
  <2> SUFFICES ASSUME <<s, n>> \in ErrorNotes(o, t) PROVE FALSE
    OBVIOUS
  <2>1. \E r \in Streams : \E i \in DOMAIN o[r] : <<s, n>> = <<r, i>>
    BY ErrorNotesAre
  <2>2. QED BY <1>2, <2>1
<1>8. QED BY <1>4, <1>5, <1>6, <1>7 DEF n

\* No error was logged at the start.
LEMMA ErrorsInit == LG!Init => ErrorsInv
<1> SUFFICES ASSUME LG!Init, NEW t \in Threads
    PROVE  /\ note[t].by = t /\ IsFiniteSet(LG!NotesOf(t, LG!ERROR))
           /\ Cardinality(LG!NotesOf(t, LG!ERROR)) = errors[t] + Pending(t)
  BY DEF ErrorsInv
<1>1. \A s \in Streams : DOMAIN out[s] = {}
  BY DEF LG!Init
<1>2. LG!NotesOf(t, LG!ERROR) = {}
  BY <1>1, NotesAre, ErrorNotesAre
<1>3. errors[t] = 0 /\ Pending(t) = 0 /\ note[t].by = t
  BY DEF LG!Init, Pending, LG!NoCall
<1>4. QED BY <1>2, <1>3, FS_EmptySet

\* What a thread writes adds to its own errors.
LEMMA NotesWritten ==
  ASSUME LogTypes, NEW s \in Streams, NEW x \in LG!Note \cup {End}, LG!Put(s, x), NEW t \in Threads
  PROVE  /\ x # End /\ x.by = t /\ x.level = LG!ERROR =>
              \E new : /\ new \notin LG!NotesOf(t, LG!ERROR)
                      /\ LG!NotesOf(t, LG!ERROR)' = LG!NotesOf(t, LG!ERROR) \cup {new}
         /\ ~(x # End /\ x.by = t /\ x.level = LG!ERROR) =>
              LG!NotesOf(t, LG!ERROR)' = LG!NotesOf(t, LG!ERROR)
<1>1. IsPut(out, out', s, x)
  BY DEF LogTypes, LG!Put, IsPut
<1> DEFINE new == <<s, Len(out[s]) + 1>>
<1>2. /\ x # End /\ x.by = t /\ x.level = LG!ERROR =>
           ErrorNotes(out', t) = ErrorNotes(out, t) \cup {new}
      /\ ~(x # End /\ x.by = t /\ x.level = LG!ERROR) => ErrorNotes(out', t) = ErrorNotes(out, t)
      /\ new \notin ErrorNotes(out, t)
  BY <1>1, NotesAdded
<1>3. LG!NotesOf(t, LG!ERROR) = ErrorNotes(out, t) /\ LG!NotesOf(t, LG!ERROR)' = ErrorNotes(out', t)
  BY NotesAre
<1> HIDE DEF new
<1>4. QED BY <1>2, <1>3

\* Errors in the logs change with the streams only.
LEMMA NotesSame == ASSUME UNCHANGED out
  PROVE  \A t : LG!NotesOf(t, LG!ERROR)' = LG!NotesOf(t, LG!ERROR)
  BY NotesAre

\* A call that begins or returns at once keeps the count: no level is below ERROR.
LEMMA ErrorsCall ==
  ASSUME LoggerInv, ErrorsInv,
         NEW t \in Threads, NEW l \in Loggers, NEW lev \in UsedLevels, LG!Call(t, l, lev)
  PROVE  ErrorsInv'
<1>1. /\ log_pc[t].at = "idle" /\ UNCHANGED <<level, mutex, global, out>>
      /\ note' = [note EXCEPT ![t] = [by |-> t, nr |-> @.nr + 1, level |-> lev]]
      /\ \/ log_pc' = [log_pc EXCEPT ![t] = [at |-> "lock", on |-> l]] /\ errors' = errors
         \/ ~LG!Passes(l, lev) /\ LG!Returned(t, lev) /\ log_pc' = log_pc
  BY DEF LG!Call
<1>2. ~LG!Passes(l, lev) => lev # LG!ERROR
  <2>1. level[l] \in 0 .. 3
    BY DEF LoggerInv, LogTypes, LG!Levels, LG!ERROR, LG!DEBUG
  <2>2. QED BY <2>1 DEF LG!Passes, LG!ERROR
<1>3. errors' = errors
  BY <1>1, <1>2 DEF LG!Returned, LoggerInv, LogTypes
<1>4. \A u \in Threads : Pending(u)' = Pending(u)
  BY <1>1 DEF Pending, LoggerInv, LogTypes
<1>5. \A u \in Threads : note'[u].by = u
  BY <1>1 DEF ErrorsInv, LoggerInv, LogTypes
<1>6. QED BY <1>1, <1>3, <1>4, <1>5, NotesSame DEF ErrorsInv

\* The first write of an error adds it to the log, and it is pending.
LEMMA ErrorsWriteNote ==
  ASSUME LoggerInv, ErrorsInv, NEW t \in Threads, LG!WriteNote(t)
  PROVE  ErrorsInv'
<1>1. /\ log_pc[t].at = "note" /\ log_pc[t].on \in Loggers /\ StreamOf[log_pc[t].on] \in Streams
      /\ note[t] \in LG!Note /\ note[t] # End /\ note[t].by = t
      /\ LG!Put(StreamOf[log_pc[t].on], note[t]) /\ UNCHANGED <<note, errors>>
  BY LogsAssumption DEF LG!WriteNote, LoggerInv, LogTypes, ErrorsInv, LG!LoggerAssumption
<1>2. log_pc'[t].at = "end" /\ \A u \in Threads \ {t} : log_pc'[u] = log_pc[u]
  BY DEF LG!WriteNote, LG!Goes, LoggerInv, LogTypes
<1>3. /\ note[t].level = LG!ERROR =>
           \E new : /\ new \notin LG!NotesOf(t, LG!ERROR)
                   /\ LG!NotesOf(t, LG!ERROR)' = LG!NotesOf(t, LG!ERROR) \cup {new}
      /\ note[t].level # LG!ERROR => LG!NotesOf(t, LG!ERROR)' = LG!NotesOf(t, LG!ERROR)
  BY <1>1, NotesWritten DEF LoggerInv
<1>4. \A u \in Threads \ {t} :
        LG!NotesOf(u, LG!ERROR)' = LG!NotesOf(u, LG!ERROR) /\ Pending(u)' = Pending(u)
  <2>1. \A u \in Threads \ {t} : LG!NotesOf(u, LG!ERROR)' = LG!NotesOf(u, LG!ERROR)
    BY <1>1, NotesWritten DEF LoggerInv
  <2>2. \A u \in Threads \ {t} : Pending(u)' = Pending(u)
    BY <1>1, <1>2 DEF Pending
  <2>3. QED BY <2>1, <2>2
<1>5. /\ IsFiniteSet(LG!NotesOf(t, LG!ERROR))
      /\ Cardinality(LG!NotesOf(t, LG!ERROR)) = errors[t]
      /\ errors[t] \in Nat
  BY <1>1 DEF ErrorsInv, Pending, LoggerInv, LogTypes
<1>6. /\ IsFiniteSet(LG!NotesOf(t, LG!ERROR)')
      /\ Cardinality(LG!NotesOf(t, LG!ERROR)') =
            errors[t] + IF note[t].level = LG!ERROR THEN 1 ELSE 0
  <2>1. CASE note[t].level = LG!ERROR
    <3>1. PICK new : /\ new \notin LG!NotesOf(t, LG!ERROR)
                     /\ LG!NotesOf(t, LG!ERROR)' = LG!NotesOf(t, LG!ERROR) \cup {new}
      BY <1>3, <2>1
    <3>2. QED BY <1>5, <2>1, <3>1, FS_AddElement
  <2>2. CASE note[t].level # LG!ERROR
    BY <1>3, <1>5, <2>2
  <2>3. QED BY <2>1, <2>2
<1>7. Pending(t)' = IF note[t].level = LG!ERROR THEN 1 ELSE 0
  BY <1>1, <1>2 DEF Pending
<1>8. QED BY <1>1, <1>4, <1>6, <1>7 DEF ErrorsInv

\* The second write of an error counts it as returned.
LEMMA ErrorsWriteEnd ==
  ASSUME LoggerInv, ErrorsInv, NEW t \in Threads, LG!WriteEnd(t)
  PROVE  ErrorsInv'
<1>1. /\ log_pc[t].at = "end" /\ log_pc[t].on \in Loggers /\ StreamOf[log_pc[t].on] \in Streams
      /\ LG!Put(StreamOf[log_pc[t].on], End) /\ LG!Returned(t, note[t].level) /\ UNCHANGED note
  BY LogsAssumption DEF LG!WriteEnd, LoggerInv, LogTypes, ErrorsInv, LG!LoggerAssumption
<1>2. log_pc'[t].at = "idle" /\ \A u \in Threads \ {t} : log_pc'[u] = log_pc[u]
  BY DEF LG!WriteEnd, LG!NoCall, LoggerInv, LogTypes
<1>3. \A u \in Threads : LG!NotesOf(u, LG!ERROR)' = LG!NotesOf(u, LG!ERROR)
  BY <1>1, NotesWritten DEF LoggerInv
<1>4. \A u \in Threads \ {t} : errors'[u] = errors[u] /\ Pending(u)' = Pending(u)
  BY <1>1, <1>2 DEF Pending, LG!Returned, LoggerInv, LogTypes
<1>5. errors'[t] + Pending(t)' = errors[t] + Pending(t)
  BY <1>1, <1>2 DEF Pending, LG!Returned, LoggerInv, LogTypes
<1>6. QED BY <1>1, <1>3, <1>4, <1>5 DEF ErrorsInv

\* Every step keeps the count.
LEMMA ErrorsStep == ASSUME LoggerInv, ErrorsInv, [LG!Next]_(LG!vars) PROVE ErrorsInv'
<1>1. global \in Loggers /\ Own \subseteq Loggers
  BY LogsAssumption DEF LoggerInv, LogTypes, LG!LoggerAssumption
<1>2. ASSUME NEW t \in Threads, LG!Lock(t) PROVE ErrorsInv'
  <2>1. UNCHANGED <<out, note, errors>> /\ log_pc[t].at = "lock" /\ log_pc'[t].at = "note"
        /\ \A u \in Threads \ {t} : log_pc'[u] = log_pc[u]
    BY <1>2 DEF LG!Lock, LG!Goes, LoggerInv, LogTypes
  <2>2. \A u \in Threads : Pending(u)' = Pending(u)
    BY <2>1 DEF Pending
  <2>3. QED BY <2>1, <2>2, NotesSame DEF ErrorsInv
<1>3. ASSUME UNCHANGED <<out, log_pc, note, errors>> PROVE ErrorsInv'
  BY <1>3, NotesSame DEF ErrorsInv, Pending
<1>4. ASSUME NEW t \in Threads, NEW l \in Loggers, NEW lev \in UsedLevels, LG!Call(t, l, lev)
      PROVE ErrorsInv'
  BY <1>4, ErrorsCall
<1>5. QED
  BY <1>1, <1>2, <1>3, <1>4, ErrorsWriteNote, ErrorsWriteEnd
  DEF LG!Next, LG!Log, LG!CallGlobal, LG!SetLevel, LG!SetGlobal, LG!vars

\* With the count, an idle thread has all its errors in the logs.
LEMMA ErrorsKept == ErrorsInv /\ LoggerInv => LG!ErrorsAreNeverLost
<1> SUFFICES ASSUME ErrorsInv, LoggerInv, NEW t \in Threads, log_pc[t].at = "idle"
    PROVE  Cardinality(LG!NotesOf(t, LG!ERROR)) = errors[t]
  BY SizeOfLoggers DEF LG!ErrorsAreNeverLost
<1>1. Pending(t) = 0 /\ errors[t] \in Nat
  BY DEF Pending, LoggerInv, LogTypes
<1>2. QED BY <1>1 DEF ErrorsInv

\* BaseLogger.cpp: for any number of threads and loggers, a thread that is out of the
\* logger has a line in a log for each error it logged, whatever the levels are.
THEOREM ErrorsHold == LG!Spec => []LG!ErrorsAreNeverLost
<1>1. LG!Init => ErrorsInv BY ErrorsInit
<1>2. LoggerInv /\ ErrorsInv /\ [LG!Next]_(LG!vars) => ErrorsInv' BY ErrorsStep
<1>3. QED BY <1>1, <1>2, ErrorsKept, LoggerInvHolds, PTL DEF LG!Spec

-----------------------------------------------------------------------------
(***************************************************************************)
(* BlockingTcp                                                             *)
(***************************************************************************)

CountsInv ==
  /\ BT!TypeOK
  /\ sent \in [BT!Connections -> Nat] /\ got \in [BT!Connections -> Nat]
  /\ \A c \in Clients : left[c] > 0 => conns[c] > 0

\* k is an earlier connection of the client of l, or another client's.
Before(k, l) == k[1] = l[1] => k[2] < l[2]
Made(n, k) == k[2] <= n[k[1]]

\* What waits comes after what was printed, in the order it was made.
QueueInv ==
  /\ \A i \in 1 .. Len(queue) : Made(conns, queue[i])
  /\ \A i \in 1 .. Len(shown) : Made(conns, shown[i])
  /\ \A i, j \in 1 .. Len(queue) : i < j => Before(queue[i], queue[j])
  /\ \A i \in 1 .. Len(shown), j \in 1 .. Len(queue) : Before(shown[i], queue[j])
  /\ cur # BT!None =>
       /\ Made(conns, cur)
       /\ \A j \in 1 .. Len(queue) : Before(cur, queue[j])
       /\ \A i \in 1 .. Len(shown) :
            /\ shown[i][1] = cur[1] => shown[i][2] <= cur[2]
            /\ shown[i] = cur => \A m \in i .. Len(shown) : shown[m] = cur

-----------------------------------------------------------------------------
\* What the constants of BlockingTcp are.
LEMMA Bounds ==
  /\ Backlog \in Nat /\ Backlog > 0 /\ Buffer \in Nat /\ Buffer > 0
  /\ MaxConnects \in Nat /\ MaxBytes \in Nat
  BY TcpAssumption DEF BT!BlockingTcpAssumption

\* A connection is its client and a number.
LEMMA ConnectionsAre ==
  /\ \A k \in BT!Connections :
       k # BT!None /\ k[1] \in Clients /\ k[2] \in 1 .. MaxConnects /\ k = <<k[1], k[2]>>
  /\ \A c \in Clients, n \in 1 .. MaxConnects :
       <<c, n>> \in BT!Connections /\ <<c, n>>[1] = c /\ <<c, n>>[2] = n
  BY DEF BT!Connections, BT!None

\* The connection a client has open is open on the way.
LEMMA OpenedFd == ASSUME CountsInv, NEW c \in Clients, BT!IsOpened(c)
  PROVE  BT!Fd(c) \in BT!Connections /\ peer[BT!Fd(c)] = "open"
<1>1. conns[c] \in 1 .. MaxConnects
  BY Bounds DEF CountsInv, BT!TypeOK, BT!IsOpened
<1>2. QED BY <1>1, ConnectionsAre DEF BT!Fd, BT!IsOpened

\* The numbers of bytes and connections at the start.
LEMMA CountsInit == BT!Init => CountsInv
  BY Bounds DEF BT!Init, CountsInv, BT!TypeOK, BT!None

\* A client never has more bytes read than it sent.
LEMMA ClientCounts ==
  ASSUME CountsInv, NEW c \in Clients, BT!Client(c) \/ BT!User(c)
  PROVE  CountsInv'
<1> USE DEF CountsInv, BT!TypeOK
<1> USE Bounds
<1>1. CASE BT!Connect(c)
  <2>1. conns[c] \in 0 .. MaxConnects /\ conns[c] < MaxConnects /\ conns[c] + 1 \in 1 .. MaxConnects
    BY <1>1 DEF BT!Connect
  <2>2. <<c, conns[c] + 1>> \in BT!Connections
    BY <2>1, ConnectionsAre
  <2>3. queue' \in Seq(BT!Connections) /\ Len(queue') <= Backlog
    BY <1>1, <2>2 DEF BT!Connect
  <2>4. peer' \in [BT!Connections -> {"none", "open", "closed", "reset"}]
    <3>1. peer' = [k \in BT!Connections |->
                CASE k = <<c, conns[c] + 1>> -> "open"
                  [] k = BT!Fd(c) /\ peer[k] = "open" -> "closed"
                  [] OTHER -> peer[k]]
      BY <1>1 DEF BT!Connect
    <3>2. QED BY <3>1
  <2>5. conns' \in [Clients -> 0 .. MaxConnects]
    BY <1>1, <2>1 DEF BT!Connect
  <2>6. \A d \in Clients : left'[d] > 0 => conns'[d] > 0
    BY <1>1, <2>1 DEF BT!Connect
  <2>7. UNCHANGED <<server_pc, cur, sent, got, shown, left>>
    BY <1>1 DEF BT!Connect
  <2>8. QED BY <2>3, <2>4, <2>5, <2>6, <2>7
<1>2. CASE BT!WriteExact(c)
  <2>1. PICK n \in 1 .. MaxBytes - sent[BT!Fd(c)] : left' = [left EXCEPT ![c] = n]
    BY <1>2 DEF BT!WriteExact
  <2>2. sent[BT!Fd(c)] \in Nat
    BY <1>2, OpenedFd DEF BT!WriteExact
  <2>3. n \in 0 .. MaxBytes
    BY <2>2
  <2>4. conns[c] > 0
    BY <1>2 DEF BT!WriteExact, BT!IsOpened
  <2>5. QED BY <1>2, <2>1, <2>3, <2>4 DEF BT!WriteExact, BT!server
<1>3. CASE BT!Write(c)
  <2>1. PICK n \in 1 .. left[c] : /\ sent[BT!Fd(c)] + n - got[BT!Fd(c)] <= Buffer
                                 /\ sent' = [sent EXCEPT ![BT!Fd(c)] = @ + n]
                                 /\ left' = [left EXCEPT ![c] = @ - n]
    BY <1>3 DEF BT!Write
  <2>2. /\ BT!Fd(c) \in BT!Connections /\ left[c] \in 0 .. MaxBytes /\ n \in Nat
        /\ left[c] - n \in 0 .. MaxBytes
    <3>1. BT!Fd(c) \in BT!Connections
      BY <1>3, OpenedFd DEF BT!Write
    <3>2. left[c] \in 0 .. MaxBytes
      OBVIOUS
    <3>3. n \in Nat /\ left[c] - n \in 0 .. MaxBytes
      BY <2>1, <3>2, Bounds
    <3>4. QED BY <3>1, <3>2, <3>3
  <2>3. sent' \in [BT!Connections -> Nat] /\ left' \in [Clients -> 0 .. MaxBytes]
    <3>1. sent[BT!Fd(c)] + n \in Nat
      <4>1. sent[BT!Fd(c)] \in Nat /\ n \in Nat
        BY <2>2
      <4>2. QED BY <4>1, SMTT(30)
    <3>2. QED BY <2>1, <2>2, <3>1
  <2>4. UNCHANGED <<server_pc, queue, cur, got, shown, peer, conns>>
    BY <1>3 DEF BT!Write, BT!server
  <2>5. \A k \in BT!Connections : got'[k] \in 0 .. sent'[k] /\ sent'[k] <= got'[k] + Buffer
    <3> SUFFICES ASSUME NEW k \in BT!Connections
        PROVE  got'[k] \in 0 .. sent'[k] /\ sent'[k] <= got'[k] + Buffer
      OBVIOUS
    <3>1. /\ got[k] \in Nat /\ sent[k] \in Nat /\ got[k] <= sent[k] /\ sent[k] <= got[k] + Buffer
          /\ got'[k] = got[k]
      BY <2>4
    <3>2. CASE k = BT!Fd(c)
      <4>1. sent'[k] = sent[k] + n /\ sent[k] + n <= got[k] + Buffer
        BY <2>1, <2>2, <3>1, <3>2, Bounds
      <4>2. QED BY <2>2, <3>1, <4>1
    <3>3. CASE k # BT!Fd(c)
      BY <2>1, <3>1, <3>3
    <3>4. QED BY <3>2, <3>3
  <2>6. \A d \in Clients : left'[d] > 0 => conns'[d] > 0
    BY <2>1, <2>2, <2>4
  <2>7. QED BY <2>3, <2>4, <2>5, <2>6
<1>4. CASE BT!WriteTimesOut(c)
  BY <1>4 DEF BT!WriteTimesOut, BT!server
<1>5. CASE BT!WriteFails(c)
  <2>1. peer' \in [BT!Connections -> {"none", "open", "closed", "reset"}]
    BY <1>5 DEF BT!WriteFails
  <2>2. QED BY <1>5, <2>1 DEF BT!WriteFails, BT!server
<1>6. CASE BT!Close(c)
  BY <1>6 DEF BT!Close, BT!server
<1>7. CASE BT!Reset(c)
  BY <1>7 DEF BT!Reset, BT!server
<1>8. QED
  BY <1>1, <1>2, <1>3, <1>4, <1>5, <1>6, <1>7 DEF BT!Client, BT!User

\* The server reads no more than what was sent.
LEMMA ServerCounts == ASSUME CountsInv, BT!Server \/ BT!AcceptFails PROVE CountsInv'
<1> USE DEF CountsInv, BT!TypeOK
<1> USE Bounds
<1>1. CASE BT!Accept
  <2>1. /\ Head(queue) \in BT!Connections /\ Tail(queue) \in Seq(BT!Connections)
        /\ Len(Tail(queue)) <= Backlog
    BY <1>1 DEF BT!Accept
  <2>2. QED BY <1>1, <2>1, ConnectionsAre DEF BT!Accept
<1>2. CASE BT!ReadByte
  <2>1. cur \in BT!Connections
    BY <1>2 DEF BT!ReadByte
  <2>2. /\ got' = [got EXCEPT ![cur] = got[cur] + 1]
        /\ shown' = Append(shown, cur)
        /\ got[cur] < sent[cur]
    BY <1>2 DEF BT!ReadByte
  <2>3. got' \in [BT!Connections -> Nat] /\ shown' \in Seq(BT!Connections)
    BY <2>1, <2>2
  <2>4. \A k \in BT!Connections : got'[k] \in 0 .. sent[k] /\ sent[k] <= got'[k] + Buffer
    BY <2>1, <2>2
  <2>5. QED BY <1>2, <2>3, <2>4 DEF BT!ReadByte
<1>3. CASE BT!ReadFails
  BY <1>3 DEF BT!ReadFails
<1>4. CASE BT!AcceptFails
  BY <1>4 DEF BT!AcceptFails
<1>5. QED
  BY <1>1, <1>2, <1>3, <1>4 DEF BT!Server

\* Every step keeps the numbers.
LEMMA CountsStep == ASSUME CountsInv, [BT!Next]_(BT!vars) PROVE CountsInv'
<1>1. CASE UNCHANGED BT!vars
  BY <1>1 DEF CountsInv, BT!TypeOK, BT!vars
<1>2. QED
  BY <1>1, ClientCounts, ServerCounts DEF BT!Next

-----------------------------------------------------------------------------
\* Nothing waits at the start.
LEMMA OrderInit == BT!Init => QueueInv
  BY DEF BT!Init, QueueInv

\* A new connection waits behind the older ones of its client.
LEMMA ConnectOrder == ASSUME CountsInv, QueueInv, NEW c \in Clients, BT!Connect(c)
  PROVE  QueueInv' /\ \A k \in BT!Connections : BT!Waiting(k) => BT!Waiting(k)'
<1> DEFINE new == <<c, conns[c] + 1>>
<1>1. /\ conns[c] \in Nat /\ conns' = [conns EXCEPT ![c] = conns[c] + 1]
      /\ queue' = Append(queue, new) /\ UNCHANGED <<cur, shown>>
      /\ new \in BT!Connections
  <2>1. conns[c] \in Nat /\ conns[c] + 1 \in 1 .. MaxConnects
    BY Bounds DEF BT!Connect, CountsInv, BT!TypeOK
  <2>2. new \in BT!Connections
    BY <2>1, ConnectionsAre
  <2>3. QED BY <2>1, <2>2 DEF BT!Connect
<1>2. new[1] = c /\ new[2] = conns[c] + 1
  OBVIOUS
<1> HIDE DEF new
<1>3. ASSUME NEW k \in BT!Connections, Made(conns, k) PROVE Made(conns', k) /\ Before(k, new)
  <2>1. k[1] \in Clients /\ k[2] \in Nat /\ conns[k[1]] \in Nat
    BY Bounds, ConnectionsAre DEF CountsInv, BT!TypeOK
  <2>2. QED BY <1>1, <1>2, <1>3, <2>1 DEF Made, Before, CountsInv, BT!TypeOK
<1>4. /\ Len(queue') = Len(queue) + 1 /\ Len(queue) \in Nat /\ queue'[Len(queue) + 1] = new
      /\ \A i \in 1 .. Len(queue) : queue'[i] = queue[i] /\ queue[i] \in BT!Connections
      /\ Len(shown) \in Nat /\ \A i \in 1 .. Len(shown) : shown[i] \in BT!Connections
      /\ cur # BT!None => cur \in BT!Connections
  BY <1>1 DEF CountsInv, BT!TypeOK
<1>5. Made(conns', new)
  BY <1>1, <1>2 DEF Made, CountsInv, BT!TypeOK
<1>6. \A i \in 1 .. Len(queue') : Made(conns', queue'[i])
  <2> SUFFICES ASSUME NEW i \in 1 .. Len(queue) + 1 PROVE Made(conns', queue'[i])
    BY <1>4
  <2>1. CASE i \in 1 .. Len(queue) BY <1>3, <1>4, <2>1 DEF QueueInv
  <2>2. CASE i = Len(queue) + 1 BY <1>4, <1>5, <2>2
  <2>3. QED BY <1>4, <2>1, <2>2
<1>7. \A i \in 1 .. Len(shown') : Made(conns', shown'[i])
  BY <1>1, <1>3, <1>4 DEF QueueInv
<1>8. \A i, j \in 1 .. Len(queue') : i < j => Before(queue'[i], queue'[j])
  <2> SUFFICES ASSUME NEW i \in 1 .. Len(queue) + 1, NEW j \in 1 .. Len(queue) + 1, i < j
      PROVE  Before(queue'[i], queue'[j])
    BY <1>4
  <2>1. i \in 1 .. Len(queue) /\ queue'[i] = queue[i]
    BY <1>4
  <2>2. CASE j \in 1 .. Len(queue) BY <1>4, <2>1, <2>2 DEF QueueInv
  <2>3. CASE j = Len(queue) + 1 BY <1>3, <1>4, <2>1, <2>3 DEF QueueInv
  <2>4. QED BY <1>4, <2>2, <2>3
<1>9. \A i \in 1 .. Len(shown), j \in 1 .. Len(queue') : Before(shown[i], queue'[j])
  <2> SUFFICES ASSUME NEW i \in 1 .. Len(shown), NEW j \in 1 .. Len(queue) + 1
      PROVE  Before(shown[i], queue'[j])
    BY <1>4
  <2>1. CASE j \in 1 .. Len(queue) BY <1>4, <2>1 DEF QueueInv
  <2>2. CASE j = Len(queue) + 1 BY <1>3, <1>4, <2>2 DEF QueueInv
  <2>3. QED BY <1>4, <2>1, <2>2
<1>10. ASSUME cur # BT!None
       PROVE  Made(conns', cur) /\ \A j \in 1 .. Len(queue') : Before(cur, queue'[j])
  <2>1. Made(conns, cur) /\ cur \in BT!Connections
    BY <1>4, <1>10 DEF QueueInv
  <2>2. Made(conns', cur) /\ Before(cur, new)
    BY <1>1, <1>3, <2>1
  <2> SUFFICES ASSUME NEW j \in 1 .. Len(queue) + 1 PROVE Before(cur, queue'[j])
    BY <1>4, <2>2
  <2>3. CASE j \in 1 .. Len(queue) BY <1>4, <1>10, <2>3 DEF QueueInv
  <2>4. CASE j = Len(queue) + 1 BY <1>4, <2>2, <2>4
  <2>5. QED BY <1>4, <2>3, <2>4
<1>11. QueueInv'
  BY <1>1, <1>6, <1>7, <1>8, <1>9, <1>10 DEF QueueInv, Before
<1>12. \A k \in BT!Connections : BT!Waiting(k) => BT!Waiting(k)'
  BY <1>1, <1>4 DEF BT!Waiting
<1>13. QED BY <1>11, <1>12

\* accept takes the first that waits, and none is lost.
LEMMA AcceptOrder == ASSUME CountsInv, QueueInv, BT!Accept
  PROVE  QueueInv' /\ \A k \in BT!Connections : BT!Waiting(k) => BT!Waiting(k)'
<1>1. /\ queue \in Seq(BT!Connections) /\ queue # <<>> /\ cur' = queue[1] /\ queue' = Tail(queue)
      /\ cur = BT!None /\ UNCHANGED <<shown, conns>>
  BY DEF BT!Accept, CountsInv, BT!TypeOK
<1>2. /\ Len(queue) \in Nat /\ Len(queue) >= 1 /\ Len(queue') = Len(queue) - 1
      /\ \A i \in 1 .. Len(queue') : queue'[i] = queue[i + 1] /\ i + 1 \in 1 .. Len(queue)
      /\ 1 \in 1 .. Len(queue)
  BY <1>1
<1>3. /\ \A i \in 1 .. Len(queue') : Made(conns', queue'[i])
      /\ \A i \in 1 .. Len(shown') : Made(conns', shown'[i])
      /\ Made(conns', cur')
  BY <1>1, <1>2 DEF QueueInv, Made
<1>4. \A i, j \in 1 .. Len(queue') : i < j => Before(queue'[i], queue'[j])
  <2> SUFFICES ASSUME NEW i \in 1 .. Len(queue'), NEW j \in 1 .. Len(queue'), i < j
      PROVE  Before(queue'[i], queue'[j])
    OBVIOUS
  <2>1. /\ queue'[i] = queue[i + 1] /\ queue'[j] = queue[j + 1]
        /\ i + 1 \in 1 .. Len(queue) /\ j + 1 \in 1 .. Len(queue)
    BY <1>2
  <2>2. i + 1 < j + 1
    OBVIOUS
  <2>3. QED BY <2>1, <2>2 DEF QueueInv
<1>5. \A i \in 1 .. Len(shown), j \in 1 .. Len(queue') : Before(shown[i], queue'[j])
  BY <1>2 DEF QueueInv
<1>6. \A j \in 1 .. Len(queue') : Before(cur', queue'[j])
  BY <1>1, <1>2 DEF QueueInv
<1>7. \A i \in 1 .. Len(shown) : Before(shown[i], cur')
  BY <1>1, <1>2 DEF QueueInv
<1>8. \A i \in 1 .. Len(shown) :
        /\ shown[i][1] = cur'[1] => shown[i][2] <= cur'[2]
        /\ shown[i] # cur'
  <2> SUFFICES ASSUME NEW i \in 1 .. Len(shown)
      PROVE  (shown[i][1] = cur'[1] => shown[i][2] <= cur'[2]) /\ shown[i] # cur'
    OBVIOUS
  <2>1. shown[i] \in BT!Connections /\ cur' \in BT!Connections
    BY <1>1, <1>2 DEF CountsInv, BT!TypeOK
  <2>2. shown[i][2] \in Nat /\ cur'[2] \in Nat
    BY <2>1, ConnectionsAre, Bounds
  <2>3. QED BY <1>7, <2>2 DEF Before
<1>9. QueueInv'
  BY <1>1, <1>3, <1>4, <1>5, <1>6, <1>8 DEF QueueInv, Before
<1>10. ASSUME NEW k \in BT!Connections, BT!Waiting(k) PROVE BT!Waiting(k)'
  <2>1. k # cur
    BY <1>1, ConnectionsAre
  <2>2. PICK i \in 1 .. Len(queue) : queue[i] = k
    BY <1>1, <1>10, <2>1 DEF BT!Waiting
  <2>3. CASE i = 1 BY <1>1, <2>2, <2>3 DEF BT!Waiting
  <2>4. CASE i # 1
    <3>1. i - 1 \in 1 .. Len(queue') /\ queue'[i - 1] = k
      BY <1>2, <2>2, <2>4
    <3>2. DOMAIN queue' = 1 .. Len(queue')
      BY <1>1
    <3>3. QED BY <3>1, <3>2 DEF BT!Waiting
  <2>5. QED BY <2>3, <2>4
<1>11. QED BY <1>9, <1>10

\* A byte that is read belongs to the one connection that is printed.
LEMMA ReadOrder ==
  ASSUME CountsInv, QueueInv, BT!NotMixed, BT!ReadByte
  PROVE  QueueInv' /\ BT!NotMixed'
<1>1. /\ cur \in BT!Connections /\ cur # BT!None /\ shown \in Seq(BT!Connections)
      /\ shown' = Append(shown, cur) /\ UNCHANGED <<queue, cur, conns>>
  BY DEF BT!ReadByte, CountsInv, BT!TypeOK
<1>2. /\ Len(shown) \in Nat /\ Len(shown') = Len(shown) + 1 /\ shown'[Len(shown) + 1] = cur
      /\ \A i \in 1 .. Len(shown) : shown'[i] = shown[i]
      /\ DOMAIN shown = 1 .. Len(shown) /\ DOMAIN shown' = 1 .. Len(shown')
  BY <1>1
<1>3. \A i \in 1 .. Len(shown') : shown'[i] = cur \/ (i \in 1 .. Len(shown) /\ shown'[i] = shown[i])
  BY <1>2
<1>4. \A i \in 1 .. Len(shown') : Made(conns', shown'[i])
  BY <1>1, <1>3 DEF QueueInv, Made
<1>5. \A i \in 1 .. Len(shown'), j \in 1 .. Len(queue) : Before(shown'[i], queue[j])
  BY <1>1, <1>3 DEF QueueInv
<1>6. \A i \in 1 .. Len(shown') : shown'[i][1] = cur[1] => shown'[i][2] <= cur[2]
  <2>1. cur[2] \in Nat
    BY <1>1, ConnectionsAre, Bounds
  <2>2. QED BY <1>1, <1>3, <2>1 DEF QueueInv
<1>7. ASSUME NEW i \in 1 .. Len(shown'), shown'[i] = cur, NEW m \in i .. Len(shown')
      PROVE  shown'[m] = cur
  <2>1. CASE m = Len(shown) + 1
    BY <1>2, <2>1
  <2>2. CASE m # Len(shown) + 1
    <3>1. i \in 1 .. Len(shown) /\ m \in i .. Len(shown)
      BY <1>2, <2>2
    <3>2. QED BY <1>1, <1>2, <1>7, <3>1 DEF QueueInv
  <2>3. QED BY <2>1, <2>2
<1>8. QueueInv'
  BY <1>1, <1>4, <1>5, <1>6, <1>7 DEF QueueInv, Made, Before
<1>9. ASSUME NEW i \in 1 .. Len(shown'), NEW j \in 1 .. Len(shown'), i < j
      PROVE  /\ shown'[i] = shown'[j] => \A m \in i .. j : shown'[m] = shown'[i]
             /\ shown'[i][1] = shown'[j][1] => shown'[i][2] <= shown'[j][2]
  <2>1. CASE j = Len(shown) + 1
    <3>1. shown'[j] = cur
      BY <1>2, <2>1
    <3>2. \A m \in i .. j : m \in i .. Len(shown')
      BY <1>2, <2>1
    <3>3. QED BY <1>6, <1>7, <3>1, <3>2
  <2>2. CASE j # Len(shown) + 1
    <3>1. i \in 1 .. Len(shown) /\ j \in 1 .. Len(shown) /\ \A m \in i .. j : m \in 1 .. Len(shown)
      BY <1>2, <1>9, <2>2
    <3>2. QED BY <1>2, <1>9, <3>1 DEF BT!NotMixed
  <2>3. QED BY <2>1, <2>2
<1>10. BT!NotMixed'
  BY <1>2, <1>9 DEF BT!NotMixed
<1>11. QED BY <1>8, <1>10

\* Every step keeps the order of what waits and what was printed.
LEMMA OrderStep ==
  ASSUME CountsInv, QueueInv, BT!NotMixed, [BT!Next]_(BT!vars)
  PROVE  QueueInv' /\ BT!NotMixed'
<1>1. CASE \E c \in Clients : BT!Connect(c)
  BY <1>1, ConnectOrder DEF BT!Connect, BT!NotMixed
<1>2. CASE BT!Accept
  BY <1>2, AcceptOrder DEF BT!Accept, BT!NotMixed
<1>3. CASE BT!ReadByte
  BY <1>3, ReadOrder
<1>4. CASE BT!AcceptFails
  <2>1. queue' = <<>> /\ UNCHANGED <<shown, cur, conns>> /\ Len(<<>>) = 0
    BY <1>4 DEF BT!AcceptFails
  <2>2. Len(queue') = 0
    BY <2>1
  <2>3. BT!NotMixed'
    BY <2>1 DEF BT!NotMixed
  <2>4. QED BY <2>1, <2>2, <2>3 DEF QueueInv, Made, Before
<1>5. CASE BT!ReadFails
  BY <1>5 DEF BT!ReadFails, QueueInv, BT!NotMixed, Made, Before
<1>6. CASE UNCHANGED <<queue, shown, cur, conns>>
  BY <1>6 DEF QueueInv, BT!NotMixed, Made, Before
<1>7. QED
  BY <1>1, <1>2, <1>3, <1>4, <1>5, <1>6
  DEF BT!Next, BT!Server, BT!Client, BT!User, BT!vars, BT!server, BT!WriteExact, BT!Write,
      BT!WriteTimesOut, BT!WriteFails,
    BT!Close, BT!Reset

-----------------------------------------------------------------------------
\* A connection leaves the server only after its last byte.
LEMMA ClosedStep == ASSUME CountsInv, QueueInv, BT!ClosedIsComplete, [BT!Next]_(BT!vars)
  PROVE  BT!ClosedIsComplete'
<1> SUFFICES ASSUME NEW k \in BT!Connections, peer'[k] \in {"open", "closed"}, ~BT!Waiting(k)',
                    server_pc' # "ended"
    PROVE  peer'[k] = "closed" /\ got'[k] = sent'[k]
  BY DEF BT!ClosedIsComplete
<1>0. ASSUME peer[k] \in {"open", "closed"}, ~BT!Waiting(k), server_pc # "ended"
      PROVE  peer[k] = "closed" /\ got[k] = sent[k]
  BY <1>0 DEF BT!ClosedIsComplete
<1>1. ASSUME NEW c \in Clients, BT!Connect(c) PROVE peer'[k] = "closed" /\ got'[k] = sent'[k]
  <2>1. ~BT!Waiting(k)
    BY <1>1, ConnectOrder
  <2>2. queue' = Append(queue, <<c, conns[c] + 1>>) /\ queue \in Seq(BT!Connections)
    BY <1>1 DEF BT!Connect, CountsInv, BT!TypeOK
  <2>3. queue'[Len(queue) + 1] = <<c, conns[c] + 1>> /\ Len(queue) + 1 \in DOMAIN queue'
    BY <2>2
  <2>4. k # <<c, conns[c] + 1>>
    BY <2>3 DEF BT!Waiting
  <2>5. peer'[k] = IF k = BT!Fd(c) /\ peer[k] = "open" THEN "closed" ELSE peer[k]
    BY <1>1, <2>4 DEF BT!Connect
  <2>6. QED BY <1>0, <1>1, <2>1, <2>5 DEF BT!Connect
<1>2. CASE BT!Accept
  BY <1>0, <1>2, AcceptOrder DEF BT!Accept
<1>3. CASE BT!ReadByte
  BY <1>0, <1>3 DEF BT!ReadByte, BT!Waiting, CountsInv, BT!TypeOK
<1>4. CASE BT!ReadFails
  BY <1>0, <1>4 DEF BT!ReadFails, BT!Waiting, CountsInv, BT!TypeOK
<1>5. CASE BT!AcceptFails
  BY <1>5 DEF BT!AcceptFails
<1>6. ASSUME NEW c \in Clients, BT!Client(c) \/ BT!User(c), ~BT!Connect(c)
      PROVE  peer'[k] = "closed" /\ got'[k] = sent'[k]
  <2>1. UNCHANGED <<server_pc, queue, cur, got, shown>>
    BY <1>6
    DEF BT!Client, BT!User, BT!WriteExact, BT!Write, BT!WriteTimesOut, BT!WriteFails,
        BT!Close, BT!Reset, BT!server
  <2>2. ~BT!Waiting(k)
    BY <2>1 DEF BT!Waiting
  <2>3. peer[k] \in {"open", "closed"}
    <3>1. CASE BT!WriteFails(c) \/ BT!Close(c)
      <4>1. peer'[k] = peer[k] \/ k = BT!Fd(c)
        BY <3>1 DEF BT!WriteFails, BT!Close, CountsInv, BT!TypeOK
      <4>2. k = BT!Fd(c) => peer'[k] = peer[k] \/ peer[k] = "open"
        BY <3>1 DEF BT!WriteFails, BT!Close, BT!IsOpened, CountsInv, BT!TypeOK
      <4>3. QED BY <4>1, <4>2
    <3>2. CASE BT!Reset(c)
      <4>1. peer'[k] = peer[k] \/ peer'[k] = "reset"
        BY <3>2 DEF BT!Reset, CountsInv, BT!TypeOK
      <4>2. QED BY <4>1
    <3>3. CASE BT!WriteExact(c) \/ BT!Write(c) \/ BT!WriteTimesOut(c)
      BY <3>3 DEF BT!WriteExact, BT!Write, BT!WriteTimesOut
    <3>4. QED BY <1>6, <3>1, <3>2, <3>3 DEF BT!Client, BT!User
  <2>4. peer[k] = "closed" /\ got[k] = sent[k]
    BY <1>0, <2>1, <2>2, <2>3
  <2>5. BT!IsOpened(c) => k # BT!Fd(c)
    BY <2>4 DEF BT!IsOpened
  <2>6. QED
    BY <1>6, <2>1, <2>4, <2>5
    DEF BT!Client, BT!User, BT!WriteExact, BT!Write, BT!WriteTimesOut, BT!WriteFails,
      BT!Close, BT!Reset, CountsInv, BT!TypeOK
<1>7. CASE UNCHANGED BT!vars
  BY <1>0, <1>7 DEF BT!vars, BT!Waiting
<1>8. QED
  BY <1>1, <1>2, <1>3, <1>4, <1>5, <1>6, <1>7 DEF BT!Next, BT!Server

\* Connection.cpp of hw-3: for any clients and numbers of bytes the server prints the
\* bytes of one connection in a row and in the order they were sent, and leaves a
\* connection only after its last byte.
THEOREM TcpHolds == BT!Spec => [](BT!TypeOK /\ BT!NotMixed /\ BT!ClosedIsComplete)
<1>1. BT!Init => CountsInv /\ QueueInv /\ BT!NotMixed /\ BT!ClosedIsComplete
  <2>1. BT!Init => BT!NotMixed /\ BT!ClosedIsComplete
    BY DEF BT!Init, BT!NotMixed, BT!ClosedIsComplete
  <2>2. QED BY <2>1, CountsInit, OrderInit
<1>2. CountsInv /\ QueueInv /\ BT!NotMixed /\ BT!ClosedIsComplete /\ [BT!Next]_(BT!vars)
        => (CountsInv /\ QueueInv /\ BT!NotMixed /\ BT!ClosedIsComplete)'
  BY CountsStep, OrderStep, ClosedStep
<1>3. CountsInv => BT!TypeOK BY DEF CountsInv
<1>4. QED BY <1>1, <1>2, <1>3, PTL DEF BT!Spec

-----------------------------------------------------------------------------
(***************************************************************************)
(* EchoClient                                                              *)
(***************************************************************************)

StopLine == MaxLines + 1

\* The bytes of lines, and the two of "stop".
Byte == {b \in (1 .. StopLine) \X (Nat \ {0}) : b[1] = StopLine => b[2] \in {1, 2}}

\* What was echoed, and all that was taken and not dropped.
Shown == printed \o down
Way == Shown \o (buffer \o up)

\* The line that what comes next belongs to is behind those of what was taken.
NextLine == IF client_pc = "write" THEN lines ELSE lines + 1

EchoTypes ==
  /\ EC!TypeOK
  /\ up \in Seq(Byte) /\ down \in Seq(Byte) /\ buffer \in Seq(Byte)
  /\ taken \in Seq(Byte) /\ printed \in Seq(Byte)
  /\ client_pc = "stop" => eof
  /\ client_pc = "write" => \E n \in Nat : line = EC!LineOf(lines, n) /\ lines > 0
  /\ client_pc = "ended" => down = <<>> /\ server = "closed"
  /\ server = "closed" => buffer = <<>>

EchoInv ==
  /\ EC!InOrder(Way) /\ \A i \in DOMAIN Way : \E j \in DOMAIN taken : Way[i] = taken[j]
  /\ client_pc \notin {"drain", "ended", "terminated"} =>
       \A i \in DOMAIN taken : taken[i][1] < NextLine
  /\ ~cut /\ server # "closed" => Way = taken
  /\ ~cut /\ server = "closed" => EC!HasStop(taken) /\ Shown = EC!Text(taken)

-----------------------------------------------------------------------------
\* The bounds of the model are numbers.
LEMMA EchoNumbers ==
  /\ Room \in Nat \ {0} /\ Packet \in Nat /\ Packet >= 2 /\ MaxLine \in Nat /\ MaxLines \in Nat
  /\ StopLine \in Nat
  BY EchoAssumption DEF EC!EchoClientAssumption, StopLine

\* The bytes of a line, and of "stop", are in their order.
LEMMA LineBytes == ASSUME NEW k \in 1 .. StopLine, NEW n \in Nat, k = StopLine => n <= 2
  PROVE  /\ EC!LineOf(k, n) \in Seq(Byte) /\ Len(EC!LineOf(k, n)) = n
         /\ \A i \in 1 .. n : EC!LineOf(k, n)[i] = <<k, i>>
<1>1. \A i \in 1 .. n : <<k, i>> \in Byte
  BY EchoNumbers DEF Byte
<1>2. QED BY <1>1 DEF EC!LineOf

\* The two bytes of "stop" are the last ones there are.
LEMMA StopIs ==
  /\ EC!Stop \in Seq(Byte) /\ Len(EC!Stop) = 2
  /\ EC!Stop[1] = <<StopLine, 1>> /\ EC!Stop[2] = <<StopLine, 2>>
  /\ \A b \in Byte : ~EC!Before(EC!Stop[2], b)
<1>1. /\ EC!Stop \in Seq(Byte) /\ Len(EC!Stop) = 2
      /\ EC!Stop[1] = <<StopLine, 1>> /\ EC!Stop[2] = <<StopLine, 2>>
  <2>1. EC!Stop = EC!LineOf(StopLine, 2) /\ StopLine \in 1 .. StopLine
    BY EchoNumbers DEF EC!Stop, StopLine
  <2>2. /\ EC!LineOf(StopLine, 2) \in Seq(Byte) /\ Len(EC!LineOf(StopLine, 2)) = 2
        /\ \A i \in 1 .. 2 : EC!LineOf(StopLine, 2)[i] = <<StopLine, i>>
    <3>1. PICK n \in Nat : n = 2
      OBVIOUS
    <3>2. StopLine = StopLine => n <= 2
      BY <3>1
    <3>3. /\ EC!LineOf(StopLine, n) \in Seq(Byte) /\ Len(EC!LineOf(StopLine, n)) = n
          /\ \A i \in 1 .. n : EC!LineOf(StopLine, n)[i] = <<StopLine, i>>
      BY <2>1, <3>2, LineBytes
    <3>4. QED BY <3>1, <3>3
  <2>3. QED BY <2>1, <2>2
<1>2. ASSUME NEW b \in Byte PROVE ~EC!Before(EC!Stop[2], b)
  <2>1. /\ b[1] \in 1 .. StopLine /\ b[2] \in Nat /\ (b[1] = StopLine => b[2] \in {1, 2})
        /\ StopLine \in Nat
    BY EchoNumbers DEF Byte
  <2>2. EC!Stop[2][1] = StopLine /\ EC!Stop[2][2] = 2
    BY <1>1
  <2>3. QED BY <2>1, <2>2 DEF EC!Before
<1>3. QED BY <1>1, <1>2

\* What two sequences are, one behind the other.
LEMMA Joined == ASSUME NEW a \in Seq(Byte), NEW b \in Seq(Byte)
  PROVE  /\ a \o b \in Seq(Byte) /\ Len(a \o b) = Len(a) + Len(b)
         /\ \A i \in 1 .. Len(a) : (a \o b)[i] = a[i]
         /\ \A i \in Len(a) + 1 .. Len(a) + Len(b) : (a \o b)[i] = b[i - Len(a)]
  OBVIOUS

\* What the two parts of a sequence are.
LEMMA CutInTwo == ASSUME NEW a \in Seq(Byte), NEW n \in 0 .. Len(a)
  PROVE  /\ SubSeq(a, 1, n) \in Seq(Byte) /\ Len(SubSeq(a, 1, n)) = n
         /\ \A i \in 1 .. n : SubSeq(a, 1, n)[i] = a[i]
         /\ SubSeq(a, n + 1, Len(a)) \in Seq(Byte) /\ Len(SubSeq(a, n + 1, Len(a))) = Len(a) - n
         /\ \A i \in 1 .. Len(a) - n : SubSeq(a, n + 1, Len(a))[i] = a[n + i]
<1>1. /\ SubSeq(a, 1, n) \in Seq(Byte) /\ Len(SubSeq(a, 1, n)) = n
      /\ \A i \in 1 .. n : SubSeq(a, 1, n)[i] = a[i]
  OBVIOUS
<1>2. SubSeq(a, n + 1, Len(a)) \in Seq(Byte) /\ Len(SubSeq(a, n + 1, Len(a))) = Len(a) - n
  OBVIOUS
<1>3. ASSUME NEW i \in 1 .. Len(a) - n PROVE SubSeq(a, n + 1, Len(a))[i] = a[n + i]
  OBVIOUS
<1>4. QED BY <1>1, <1>2, <1>3

\* The order of three sequences that are joined does not matter.
LEMMA JoinedThree == ASSUME NEW a \in Seq(Byte), NEW b \in Seq(Byte), NEW c \in Seq(Byte)
  PROVE  (a \o b) \o c = a \o (b \o c)
  OBVIOUS

\* The two parts of a sequence make it up.
LEMMA CutAndJoined == ASSUME NEW a \in Seq(Byte), NEW n \in 0 .. Len(a)
  PROVE  SubSeq(a, 1, n) \o SubSeq(a, n + 1, Len(a)) = a
<1> DEFINE p == SubSeq(a, 1, n)
           q == SubSeq(a, n + 1, Len(a))
           w == p \o q
<1>1. /\ p \in Seq(Byte) /\ Len(p) = n /\ \A i \in 1 .. n : p[i] = a[i]
      /\ q \in Seq(Byte) /\ Len(q) = Len(a) - n /\ \A i \in 1 .. Len(a) - n : q[i] = a[n + i]
  BY CutInTwo
<1> HIDE DEF p, q
<1>2. /\ w \in Seq(Byte) /\ Len(w) = n + (Len(a) - n)
      /\ \A i \in 1 .. n : w[i] = p[i]
      /\ \A i \in n + 1 .. n + (Len(a) - n) : w[i] = q[i - n]
  BY <1>1, Joined
<1> HIDE DEF w
<1>3. Len(w) = Len(a) /\ n \in Nat /\ Len(a) \in Nat
  BY <1>2
<1>4. ASSUME NEW i \in 1 .. Len(a) PROVE w[i] = a[i]
  <2>1. CASE i <= n
    <3>1. i \in 1 .. n
      BY <1>3, <2>1
    <3>2. QED BY <1>1, <1>2, <3>1
  <2>2. CASE i > n
    <3>1. i \in n + 1 .. n + (Len(a) - n) /\ i - n \in 1 .. Len(a) - n /\ n + (i - n) = i
      BY <1>3, <2>2
    <3>2. w[i] = q[i - n] /\ q[i - n] = a[n + (i - n)]
      BY <1>1, <1>2, <3>1
    <3>3. QED BY <3>1, <3>2
  <2>3. QED BY <1>3, <2>1, <2>2
<1>5. w = a
  BY <1>2, <1>3, <1>4
<1>6. QED BY <1>5 DEF w, p, q

Three(a, b, c) == a \o (b \o c)
Drop(a, b, c, n, m) == (a \o SubSeq(b, 1, n)) \o SubSeq(c, m + 1, Len(c))

\* v has bytes of w only, and they are in order.
KeepsOrder(w, v) == EC!InOrder(v) /\ \A i \in DOMAIN v : \E j \in DOMAIN w : v[i] = w[j]

\* Bytes taken out of the middle leave the order as it is.
LEMMA Dropped ==
  ASSUME NEW a \in Seq(Byte), NEW b \in Seq(Byte), NEW c \in Seq(Byte),
         NEW n \in 0 .. Len(b), NEW m \in 0 .. Len(c), EC!InOrder(Three(a, b, c))
  PROVE  KeepsOrder(Three(a, b, c), Drop(a, b, c, n, m))
<1> DEFINE p == SubSeq(b, 1, n)
           q == SubSeq(c, m + 1, Len(c))
           w == a \o (b \o c)
           v == (a \o p) \o q
           d == Len(b) - n + m
           g == [i \in 1 .. Len(v) |-> IF i <= Len(a) + n THEN i ELSE i + d]
<1>0. Three(a, b, c) = w /\ Drop(a, b, c, n, m) = v
  BY DEF Three, Drop
<1>1. /\ p \in Seq(Byte) /\ Len(p) = n /\ \A i \in 1 .. n : p[i] = b[i]
      /\ q \in Seq(Byte) /\ Len(q) = Len(c) - m /\ \A i \in 1 .. Len(c) - m : q[i] = c[m + i]
  BY CutInTwo
<1> HIDE DEF p, q
<1>2. /\ b \o c \in Seq(Byte) /\ Len(b \o c) = Len(b) + Len(c)
      /\ \A i \in 1 .. Len(b) : (b \o c)[i] = b[i]
      /\ \A i \in Len(b) + 1 .. Len(b) + Len(c) : (b \o c)[i] = c[i - Len(b)]
  BY Joined
<1>3. /\ w \in Seq(Byte) /\ Len(w) = Len(a) + (Len(b) + Len(c))
      /\ \A i \in 1 .. Len(a) : w[i] = a[i]
      /\ \A i \in Len(a) + 1 .. Len(a) + (Len(b) + Len(c)) : w[i] = (b \o c)[i - Len(a)]
  BY <1>2, Joined
<1>4. /\ a \o p \in Seq(Byte) /\ Len(a \o p) = Len(a) + n
      /\ \A i \in 1 .. Len(a) : (a \o p)[i] = a[i]
      /\ \A i \in Len(a) + 1 .. Len(a) + n : (a \o p)[i] = p[i - Len(a)]
  <2>1. p \in Seq(Byte) /\ Len(p) = n
    BY <1>1
  <2>2. /\ a \o p \in Seq(Byte) /\ Len(a \o p) = Len(a) + Len(p)
        /\ \A i \in 1 .. Len(a) : (a \o p)[i] = a[i]
        /\ \A i \in Len(a) + 1 .. Len(a) + Len(p) : (a \o p)[i] = p[i - Len(a)]
    BY <2>1, Joined
  <2>3. QED BY <2>1, <2>2
<1>5. /\ v \in Seq(Byte) /\ Len(v) = (Len(a) + n) + (Len(c) - m)
      /\ \A i \in 1 .. Len(a) + n : v[i] = (a \o p)[i]
      /\ \A i \in (Len(a) + n) + 1 .. (Len(a) + n) + (Len(c) - m) : v[i] = q[i - (Len(a) + n)]
  <2> DEFINE u == a \o p
  <2>1. q \in Seq(Byte) /\ Len(q) = Len(c) - m /\ u \in Seq(Byte) /\ Len(u) = Len(a) + n
    BY <1>1, <1>4
  <2> HIDE DEF u
  <2>2. /\ u \o q \in Seq(Byte) /\ Len(u \o q) = Len(u) + Len(q)
        /\ \A i \in 1 .. Len(u) : (u \o q)[i] = u[i]
        /\ \A i \in Len(u) + 1 .. Len(u) + Len(q) : (u \o q)[i] = q[i - Len(u)]
    BY <2>1, Joined
  <2>3. v = u \o q
    BY DEF u
  <2> HIDE DEF v
  <2>4. QED BY <2>1, <2>2, <2>3 DEF u
<1>6. Len(a) \in Nat /\ Len(b) \in Nat /\ Len(c) \in Nat /\ n \in Nat /\ m \in Nat /\ d \in Nat
  OBVIOUS
<1> HIDE DEF v, w
<1>7. \A i \in 1 .. Len(v) : g[i] = IF i <= Len(a) + n THEN i ELSE i + d
  OBVIOUS
<1>8. d = Len(b) - n + m
  OBVIOUS
<1> HIDE DEF d, g
<1>9. ASSUME NEW i \in 1 .. Len(v) PROVE g[i] \in 1 .. Len(w) /\ v[i] = w[g[i]]
  <2>1. CASE i <= Len(a)
    <3>1. i \in 1 .. Len(a) + n /\ i \in 1 .. Len(a) /\ i \in 1 .. Len(w)
      <4>1. i \in Nat /\ i >= 1
        BY <1>5
      <4>2. QED BY <1>3, <1>6, <2>1, <4>1
    <3>3. g[i] = i
      BY <1>6, <1>7, <3>1
    <3>2. QED BY <1>3, <1>4, <1>5, <3>1, <3>3
  <2>2. CASE i > Len(a) /\ i <= Len(a) + n
    <3>1. /\ i \in 1 .. Len(a) + n /\ i \in Len(a) + 1 .. Len(a) + n /\ g[i] = i
          /\ i - Len(a) \in 1 .. n /\ i - Len(a) \in 1 .. Len(b)
          /\ i \in Len(a) + 1 .. Len(a) + (Len(b) + Len(c)) /\ i \in 1 .. Len(w)
      BY <1>3, <1>5, <1>6, <1>7, <2>2
    <3>2. v[i] = b[i - Len(a)]
      BY <1>1, <1>4, <1>5, <3>1
    <3>3. w[i] = b[i - Len(a)]
      BY <1>2, <1>3, <3>1
    <3>4. QED BY <3>1, <3>2, <3>3
  <2>3. CASE i > Len(a) + n
    <3>1. g[i] = i + d
      BY <1>6, <1>7, <2>3
    <3>2. /\ i \in (Len(a) + n) + 1 .. (Len(a) + n) + (Len(c) - m)
          /\ i - (Len(a) + n) \in 1 .. Len(c) - m
      BY <1>5, <1>6, <2>3
    <3>3. /\ m + (i - (Len(a) + n)) = (i + d - Len(a)) - Len(b)
          /\ i + d - Len(a) \in Len(b) + 1 .. Len(b) + Len(c)
          /\ i + d \in Len(a) + 1 .. Len(a) + (Len(b) + Len(c))
      BY <1>6, <1>8, <3>2
    <3>4. i + d \in 1 .. Len(w)
      BY <1>3, <1>6, <3>3
    <3>5. v[i] = c[m + (i - (Len(a) + n))]
      BY <1>1, <1>5, <3>2
    <3>6. PICK j \in Int : j = i + d
      BY <1>6
    <3>10. PICK k \in Int : k = j - Len(a)
      BY <1>6, <3>6
    <3>11. /\ j \in Len(a) + 1 .. Len(a) + (Len(b) + Len(c))
           /\ k \in Len(b) + 1 .. Len(b) + Len(c) /\ k - Len(b) = m + (i - (Len(a) + n))
      BY <1>6, <3>3, <3>6, <3>10
    <3>7. w[j] = (b \o c)[k] /\ (b \o c)[k] = c[k - Len(b)]
      BY <1>2, <1>3, <3>10, <3>11
    <3>8. v[i] = w[i + d]
      BY <3>5, <3>6, <3>7, <3>11
    <3>9. QED BY <3>1, <3>4, <3>8
  <2>4. QED BY <1>5, <1>6, <2>1, <2>2, <2>3
<1>10. ASSUME NEW i \in 1 .. Len(v), NEW j \in 1 .. Len(v), i < j PROVE g[i] < g[j]
  <2>1. i \in Nat /\ j \in Nat
    BY <1>5
  <2>2. (g[i] = i \/ (g[i] = i + d /\ i > Len(a) + n)) /\ (g[j] = j \/ g[j] = j + d)
    BY <1>6, <1>7, <2>1
  <2>3. i > Len(a) + n => g[j] = j + d
    BY <1>6, <1>7, <1>10, <2>1
  <2>4. QED BY <1>6, <1>10, <2>1, <2>2, <2>3
<1>11. DOMAIN v = 1 .. Len(v) /\ DOMAIN w = 1 .. Len(w)
  BY <1>3, <1>5
<1>12. EC!InOrder(v)
  <2> SUFFICES ASSUME NEW i \in 1 .. Len(v), NEW j \in 1 .. Len(v), i < j
      PROVE  EC!Before(v[i], v[j])
    BY <1>11 DEF EC!InOrder
  <2>1. /\ g[i] \in 1 .. Len(w) /\ g[j] \in 1 .. Len(w) /\ g[i] < g[j]
        /\ v[i] = w[g[i]] /\ v[j] = w[g[j]]
    BY <1>9, <1>10
  <2>2. EC!Before(w[g[i]], w[g[j]])
    BY <1>0, <1>11, <2>1 DEF EC!InOrder
  <2>3. QED BY <2>1, <2>2
<1>13. \A i \in DOMAIN v : \E j \in DOMAIN w : v[i] = w[j]
  BY <1>9, <1>11
<1>14. QED BY <1>0, <1>12, <1>13 DEF KeepsOrder

\* Bytes of a later line go behind those in order.
LEMMA Behind ==
  ASSUME NEW a \in Seq(Byte), NEW c \in Seq(Byte), EC!InOrder(a), EC!InOrder(c),
         \A i \in 1 .. Len(a), j \in 1 .. Len(c) : EC!Before(a[i], c[j])
  PROVE  EC!InOrder(a \o c)
<1> DEFINE w == a \o c
<1>1. /\ w \in Seq(Byte) /\ Len(w) = Len(a) + Len(c)
      /\ \A i \in 1 .. Len(a) : w[i] = a[i]
      /\ \A i \in Len(a) + 1 .. Len(a) + Len(c) : w[i] = c[i - Len(a)]
  BY Joined
<1>2. Len(a) \in Nat /\ Len(c) \in Nat
  OBVIOUS
<1> HIDE DEF w
<1> SUFFICES ASSUME NEW i \in 1 .. Len(w), NEW j \in 1 .. Len(w), i < j
    PROVE  EC!Before(w[i], w[j])
  BY <1>1 DEF EC!InOrder, w
<1>3. CASE j <= Len(a)
  <2>1. i \in 1 .. Len(a) /\ j \in 1 .. Len(a)
    BY <1>1, <1>2, <1>3
  <2>2. QED BY <1>1, <2>1 DEF EC!InOrder
<1>4. CASE i <= Len(a) /\ j > Len(a)
  <2>1. /\ i \in 1 .. Len(a) /\ j \in Len(a) + 1 .. Len(a) + Len(c)
        /\ j - Len(a) \in 1 .. Len(c)
    BY <1>1, <1>2, <1>4
  <2>2. QED BY <1>1, <2>1
<1>5. CASE i > Len(a)
  <2>1. /\ i \in Len(a) + 1 .. Len(a) + Len(c) /\ j \in Len(a) + 1 .. Len(a) + Len(c)
        /\ i - Len(a) \in 1 .. Len(c) /\ j - Len(a) \in 1 .. Len(c) /\ i - Len(a) < j - Len(a)
    BY <1>1, <1>2, <1>5
  <2>2. EC!Before(c[i - Len(a)], c[j - Len(a)])
    BY <2>1 DEF EC!InOrder
  <2>3. QED BY <1>1, <2>1, <2>2
<1>6. QED BY <1>1, <1>2, <1>3, <1>4, <1>5

-----------------------------------------------------------------------------
\* The invariant holds at the start.
LEMMA EchoInit == EC!Init => EchoTypes /\ EchoInv
<1> SUFFICES ASSUME EC!Init PROVE EchoTypes /\ EchoInv
  OBVIOUS
<1>1. /\ client_pc \in {"getline", "terminated"} /\ eof = FALSE /\ lines = 0 /\ line = <<>>
      /\ up = <<>> /\ down = <<>> /\ taken = <<>> /\ printed = <<>>
      /\ server = "reads" /\ buffer = <<>> /\ cut = FALSE
  BY DEF EC!Init
<1>2. EchoTypes
  <2>1. /\ up \in Seq(Byte) /\ down \in Seq(Byte) /\ buffer \in Seq(Byte)
        /\ taken \in Seq(Byte) /\ printed \in Seq(Byte) /\ Len(up) = 0 /\ Len(down) = 0
    BY <1>1
  <2>2. lines \in 0 .. MaxLines /\ Len(up) <= Room /\ Len(down) <= Room
    BY <1>1, <2>1, EchoNumbers
  <2>3. EC!TypeOK
    BY <1>1, <2>2 DEF EC!TypeOK
  <2>4. QED BY <1>1, <2>1, <2>3 DEF EchoTypes
<1>3. Way = <<>>
  BY <1>1 DEF Way, Shown
<1>4. QED BY <1>1, <1>2, <1>3 DEF EchoInv, EC!InOrder

\* What is on its way is made of bytes.
LEMMA WayTypes == ASSUME EchoTypes
  PROVE  /\ Shown \in Seq(Byte) /\ buffer \o up \in Seq(Byte) /\ Way \in Seq(Byte)
         /\ DOMAIN Way = 1 .. Len(Way) /\ DOMAIN taken = 1 .. Len(taken)
<1>1. Shown \in Seq(Byte) /\ buffer \o up \in Seq(Byte)
  BY DEF EchoTypes, Shown
<1>2. Way \in Seq(Byte)
  BY <1>1 DEF Way
<1>3. QED BY <1>1, <1>2 DEF EchoTypes

\* What send takes of a line or of "stop" goes behind what it took before.
LEMMA SentKeeps ==
  ASSUME EchoTypes, EchoInv, NEW k \in 1 .. StopLine, NEW l \in Nat, k = StopLine => l <= 2,
         NEW next, EC!Send(EC!LineOf(k, l), next),
         UNCHANGED <<printed, down, buffer, server, cut>>,
         \A i \in DOMAIN taken : taken[i][1] < k,
         client_pc \notin {"drain", "ended", "terminated"},
         \/ k = StopLine /\ next = "drain"
         \/ k < StopLine /\ next = "read" /\ lines' = lines /\ k = lines
  PROVE  EchoInv' /\ up' \in Seq(Byte) /\ taken' \in Seq(Byte) /\ Len(up') <= Room
<1> DEFINE s == EC!LineOf(k, l)
<1>1. s \in Seq(Byte) /\ Len(s) = l /\ \A i \in 1 .. l : s[i] = <<k, i>>
  BY LineBytes
<1>2. CASE client_pc' = "terminated" /\ UNCHANGED <<up, taken>>
  <2>1. Way' = Way /\ Shown' = Shown
    BY <1>2 DEF Way, Shown
  <2>2. QED BY <1>2, <2>1 DEF EchoInv, EchoTypes, EC!TypeOK, EC!HasStop, EC!Text
<1>3. ASSUME NEW n \in 0 .. Len(s), Len(up) + n <= Room,
             up' = up \o SubSeq(s, 1, n), taken' = taken \o SubSeq(s, 1, n), client_pc' = next
      PROVE  EchoInv' /\ up' \in Seq(Byte) /\ taken' \in Seq(Byte) /\ Len(up') <= Room
  <2> DEFINE c == SubSeq(s, 1, n)
  <2>1. c \in Seq(Byte) /\ Len(c) = n /\ \A i \in 1 .. n : c[i] = s[i]
    BY <1>1, CutInTwo
  <2>2. \A i \in 1 .. n : c[i] = <<k, i>>
    BY <1>1, <2>1
  <2>3. up' = up \o c /\ taken' = taken \o c
    BY <1>3
  <2> HIDE DEF c, s
  <2>4. up \in Seq(Byte) /\ taken \in Seq(Byte) /\ buffer \in Seq(Byte) /\ n \in Nat
    BY <1>1, <1>3 DEF EchoTypes
  <2>5. /\ up' \in Seq(Byte) /\ taken' \in Seq(Byte) /\ Len(up') <= Room
        /\ Len(taken') = Len(taken) + n
        /\ \A i \in 1 .. Len(taken) : taken'[i] = taken[i]
        /\ \A i \in Len(taken) + 1 .. Len(taken) + n : taken'[i] = c[i - Len(taken)]
    BY <1>3, <2>1, <2>3, <2>4, Joined
  <2>6. Shown' = Shown
    BY DEF Shown
  <2>7. Way' = Way \o c
    <3>1. buffer \o (up \o c) = (buffer \o up) \o c
      BY <2>1, <2>4, JoinedThree
    <3>2. Shown \o ((buffer \o up) \o c) = (Shown \o (buffer \o up)) \o c
      BY <2>1, WayTypes, JoinedThree
    <3>3. Way' = Shown' \o (buffer' \o up')
      BY DEF Way
    <3>4. QED BY <2>3, <2>6, <3>1, <3>2, <3>3 DEF Way
  <2>8. server = "closed" => cut
    <3> SUFFICES ASSUME server = "closed", ~cut PROVE FALSE
      OBVIOUS
    <3>1. EC!HasStop(taken)
      BY DEF EchoInv
    <3>2. Len(taken) \in DOMAIN taken /\ taken[Len(taken)][1] = StopLine
      BY <2>4, <3>1, StopIs DEF EC!HasStop
    <3>3. StopLine < k
      BY <3>2
    <3>4. QED BY <3>3, EchoNumbers
  <2>9. EC!InOrder(Way')
    <3>1. EC!InOrder(c)
      BY <2>1, <2>2 DEF EC!InOrder, EC!Before
    <3>2. ASSUME NEW i \in 1 .. Len(Way), NEW j \in 1 .. Len(c) PROVE EC!Before(Way[i], c[j])
      <4>1. Way[i][1] < k
        BY WayTypes DEF EchoInv
      <4>2. c[j][1] = k
        BY <2>1, <2>2
      <4>3. QED BY <4>1, <4>2 DEF EC!Before
    <3>3. EC!InOrder(Way)
      BY DEF EchoInv
    <3>4. QED BY <2>1, <2>7, <3>1, <3>2, <3>3, WayTypes, Behind
  <2>10. \A i \in DOMAIN Way' : \E j \in DOMAIN taken' : Way'[i] = taken'[j]
    <3>1. /\ Way' \in Seq(Byte) /\ Len(Way') = Len(Way) + n
          /\ \A i \in 1 .. Len(Way) : Way'[i] = Way[i]
          /\ \A i \in Len(Way) + 1 .. Len(Way) + n : Way'[i] = c[i - Len(Way)]
      BY <2>1, <2>7, WayTypes, Joined
    <3>2. /\ DOMAIN taken' = 1 .. Len(taken) + n /\ DOMAIN Way' = 1 .. Len(Way) + n
          /\ Len(Way) \in Nat /\ Len(taken) \in Nat
      BY <2>4, <2>5, <3>1, WayTypes
    <3> SUFFICES ASSUME NEW i \in 1 .. Len(Way) + n
        PROVE  \E j \in 1 .. Len(taken) + n : Way'[i] = taken'[j]
      BY <3>2
    <3>3. CASE i \in 1 .. Len(Way)
      <4>1. PICK j \in 1 .. Len(taken) : Way[i] = taken[j]
        BY <3>3, WayTypes DEF EchoInv
      <4>2. j \in 1 .. Len(taken) + n
        BY <2>4, <3>2
      <4>3. QED BY <2>5, <3>1, <3>3, <4>1, <4>2
    <3>4. CASE i > Len(Way)
      <4> DEFINE j == Len(taken) + (i - Len(Way))
      <4>1. /\ i \in Len(Way) + 1 .. Len(Way) + n /\ j \in Len(taken) + 1 .. Len(taken) + n
            /\ j - Len(taken) = i - Len(Way) /\ j \in 1 .. Len(taken) + n
        BY <2>4, <3>2, <3>4
      <4>2. Way'[i] = taken'[j]
        BY <2>5, <3>1, <4>1
      <4>3. QED BY <4>1, <4>2
    <3>5. QED BY <3>2, <3>3, <3>4
  <2>11. ~cut' => Way' = taken' /\ server' # "closed"
    BY <2>3, <2>7, <2>8 DEF EchoInv
  <2>12. client_pc' \notin {"drain", "ended", "terminated"} =>
           \A i \in DOMAIN taken' : taken'[i][1] < NextLine'
    <3> SUFFICES ASSUME next = "read" PROVE \A i \in DOMAIN taken' : taken'[i][1] < lines' + 1
      BY <1>3 DEF NextLine
    <3>1. lines' + 1 = k + 1 /\ k \in Nat
      BY EchoNumbers
    <3>2. \A i \in 1 .. Len(taken) + n :
            i \in 1 .. Len(taken) \/ i \in Len(taken) + 1 .. Len(taken) + n
      BY <2>4
    <3>3. \A i \in 1 .. Len(taken) : taken'[i][1] < k /\ taken'[i][1] \in Nat
      <4>1. \A i \in 1 .. Len(taken) : taken[i] \in Byte /\ taken[i][1] < k
        BY <2>4, WayTypes
      <4>2. \A b \in Byte : b[1] \in Nat
        BY DEF Byte
      <4>3. QED BY <2>5, <4>1, <4>2
    <3>4. \A i \in Len(taken) + 1 .. Len(taken) + n : taken'[i][1] = k
      <4>1. \A i \in Len(taken) + 1 .. Len(taken) + n : i - Len(taken) \in 1 .. n
        BY <2>4
      <4>2. QED BY <2>2, <2>5, <4>1
    <3>5. DOMAIN taken' = 1 .. Len(taken) + n
      BY <2>4, <2>5
    <3>6. QED BY <3>1, <3>2, <3>3, <3>4, <3>5
  <2>13. QED BY <2>5, <2>9, <2>10, <2>11, <2>12 DEF EchoInv
<1>4. QED BY <1>1, <1>2, <1>3 DEF EC!Send

\* What read returns is printed, and stays where it was.
LEMMA PrintKeeps == ASSUME EchoTypes, EC!PrintSome, UNCHANGED <<buffer, up>>
  PROVE  /\ printed' \in Seq(Byte) /\ down' \in Seq(Byte) /\ Len(down') <= Room
         /\ Shown' = Shown /\ Way' = Way
<1>1. PICK n \in 1 .. Len(down) : /\ printed' = printed \o SubSeq(down, 1, n)
                                 /\ down' = SubSeq(down, n + 1, Len(down))
  BY DEF EC!PrintSome
<1> DEFINE p == SubSeq(down, 1, n)
           q == SubSeq(down, n + 1, Len(down))
<1>2. printed \in Seq(Byte) /\ down \in Seq(Byte) /\ Len(down) <= Room /\ n \in 0 .. Len(down)
  BY EchoNumbers DEF EchoTypes, EC!TypeOK
<1>3. p \in Seq(Byte) /\ q \in Seq(Byte) /\ Len(q) = Len(down) - n /\ p \o q = down
  BY <1>2, CutInTwo, CutAndJoined
<1>4. printed' = printed \o p /\ down' = q
  BY <1>1
<1> HIDE DEF p, q
<1>5. printed' \in Seq(Byte) /\ down' \in Seq(Byte) /\ Len(down') <= Room
  BY <1>2, <1>3, <1>4, EchoNumbers
<1>6. Shown' = Shown
  <2>1. (printed \o p) \o q = printed \o (p \o q)
    BY <1>2, <1>3, JoinedThree
  <2>2. Shown' = printed' \o down'
    BY DEF Shown
  <2>3. QED BY <1>3, <1>4, <2>1, <2>2 DEF Shown
<1>7. Way' = Shown' \o (buffer' \o up')
  BY DEF Way
<1>8. QED BY <1>5, <1>6, <1>7 DEF Way

\* What the server reads goes into its buffer, or is dropped with it.
LEMMA ReadKeeps == ASSUME EchoTypes, EchoInv, EC!ServerReads
  PROVE  EchoTypes' /\ EchoInv'
<1>1. PICK n \in 1 .. Len(up) :
        LET b == buffer \o SubSeq(up, 1, n)
            short == Len(b) < 2
        IN /\ up' = SubSeq(up, n + 1, Len(up))
           /\ buffer' = IF short THEN <<>> ELSE b
           /\ cut' = (cut \/ short)
           /\ server' = IF short THEN "closed"
                        ELSE IF Len(b) >= Packet \/ EC!HasStop(b) THEN "writes" ELSE "reads"
  BY DEF EC!ServerReads
<1> DEFINE p == SubSeq(up, 1, n)
           q == SubSeq(up, n + 1, Len(up))
           b == buffer \o p
<1>2. /\ server = "reads" /\ UNCHANGED <<client_pc, eof, lines, line, taken, printed, down>>
      /\ up \in Seq(Byte) /\ buffer \in Seq(Byte) /\ n \in 0 .. Len(up) /\ cut \in BOOLEAN
      /\ Len(up) <= Room
  BY DEF EC!ServerReads, EC!client, EchoTypes, EC!TypeOK
<1>3. p \in Seq(Byte) /\ q \in Seq(Byte) /\ Len(q) = Len(up) - n /\ p \o q = up
  BY <1>2, CutInTwo, CutAndJoined
<1>4. up' = q
  BY <1>1
<1>5. \/ /\ buffer' = <<>> /\ cut' = TRUE /\ server' = "closed"
      \/ buffer' = b /\ cut' = cut /\ server' \in {"reads", "writes"}
  BY <1>1, <1>2
<1> HIDE DEF p
<1>6. b \in Seq(Byte)
  BY <1>2, <1>3
<1> HIDE DEF b, q
<1>7. buffer' \in Seq(Byte) /\ (server' = "closed" => buffer' = <<>>)
  <2>1. CASE buffer' = <<>>
    BY <2>1
  <2>2. CASE buffer' = b /\ server' \in {"reads", "writes"}
    BY <1>6, <2>2
  <2>3. QED BY <1>5, <2>1, <2>2
<1>8. EchoTypes'
  <2>1. client_pc # "ended"
    BY <1>2 DEF EchoTypes
  <2>2. up' \in Seq(Byte) /\ Len(up') <= Room
    BY <1>2, <1>3, <1>4, EchoNumbers
  <2>3. server' \in {"reads", "writes", "closed"} /\ cut' \in BOOLEAN
    BY <1>2, <1>5
  <2>4. QED BY <1>2, <1>7, <2>1, <2>2, <2>3 DEF EchoTypes, EC!TypeOK
<1>9. Shown' = Shown
  BY <1>2 DEF Shown
<1>10. Way' = Shown \o (buffer' \o q)
  BY <1>4, <1>9 DEF Way
<1>11. CASE buffer' = <<>> /\ cut' = TRUE
  <2>1. Way' = Drop(Shown, buffer, up, 0, n)
    <3>1. /\ <<>> = SubSeq(buffer, 1, 0) /\ q = SubSeq(up, n + 1, Len(up))
          /\ <<>> \o q = q /\ Shown \o <<>> = Shown
      BY <1>2, <1>3, WayTypes DEF q
    <3>2. QED BY <1>10, <1>11, <3>1 DEF Drop
  <2>2. Way = Three(Shown, buffer, up) /\ EC!InOrder(Way) /\ Shown \in Seq(Byte)
    BY WayTypes DEF Way, EchoInv, Three
  <2>3. EC!InOrder(Way') /\ \A i \in DOMAIN Way' : \E j \in DOMAIN Way : Way'[i] = Way[j]
    <3>1. 0 \in 0 .. Len(buffer)
      BY <1>2
    <3>2. KeepsOrder(Three(Shown, buffer, up), Drop(Shown, buffer, up, 0, n))
      BY <1>2, <2>2, <3>1, Dropped
    <3>3. QED BY <2>1, <2>2, <3>2 DEF KeepsOrder
  <2>4. \A i \in DOMAIN Way' : \E j \in DOMAIN taken : Way'[i] = taken[j]
    BY <2>3 DEF EchoInv
  <2>5. QED BY <1>2, <1>8, <1>11, <2>3, <2>4 DEF EchoInv, NextLine
<1>12. CASE buffer' = b /\ cut' = cut /\ server' \in {"reads", "writes"}
  <2>1. b \o q = buffer \o up
    <3>1. (buffer \o p) \o q = buffer \o (p \o q)
      BY <1>2, <1>3, JoinedThree
    <3>2. QED BY <1>3, <3>1 DEF b
  <2>2. Way' = Way
    BY <1>10, <1>12, <2>1 DEF Way
  <2>3. QED BY <1>2, <1>8, <1>12, <2>2 DEF EchoInv, NextLine
<1>13. QED BY <1>5, <1>11, <1>12

\* What the server writes was in its buffer; the rest of that is dropped.
LEMMA WriteKeeps == ASSUME EchoTypes, EchoInv, EC!ServerWrites
  PROVE  EchoTypes' /\ EchoInv'
<1> DEFINE s == IF EC!HasStop(buffer) THEN EC!Text(buffer) ELSE buffer
<1>1. PICK n \in 0 .. Len(s) : /\ Len(down) + n <= Room
                               /\ down' = down \o SubSeq(s, 1, n) /\ cut' = (cut \/ n < Len(s))
  BY DEF EC!ServerWrites
<1>2. /\ server = "writes" /\ UNCHANGED <<client_pc, eof, lines, line, taken, printed, up>>
      /\ server' = (IF EC!HasStop(buffer) THEN "closed" ELSE "reads") /\ buffer' = <<>>
      /\ up \in Seq(Byte) /\ buffer \in Seq(Byte) /\ down \in Seq(Byte) /\ cut \in BOOLEAN
      /\ printed \in Seq(Byte)
  BY DEF EC!ServerWrites, EC!client, EchoTypes, EC!TypeOK
<1>0. (EC!HasStop(buffer) => s = EC!Text(buffer)) /\ (~EC!HasStop(buffer) => s = buffer)
  OBVIOUS
<1> HIDE DEF s
<1>3. /\ s \in Seq(Byte) /\ n \in 0 .. Len(buffer) /\ SubSeq(s, 1, n) = SubSeq(buffer, 1, n)
      /\ Len(s) = IF EC!HasStop(buffer) THEN Len(buffer) - 2 ELSE Len(buffer)
  <2>1. CASE EC!HasStop(buffer)
    <3>1. Len(buffer) >= 2 /\ s = SubSeq(buffer, 1, Len(buffer) - 2) /\ Len(buffer) \in Nat
      BY <1>0, <1>2, <2>1 DEF EC!HasStop, EC!Text
    <3>2. /\ s \in Seq(Byte) /\ Len(s) = Len(buffer) - 2
          /\ \A i \in 1 .. Len(buffer) - 2 : s[i] = buffer[i]
      <4>1. Len(buffer) - 2 \in 0 .. Len(buffer)
        BY <3>1
      <4> DEFINE k == Len(buffer) - 2
      <4> HIDE DEF k
      <4>2. /\ SubSeq(buffer, 1, k) \in Seq(Byte) /\ Len(SubSeq(buffer, 1, k)) = k
            /\ \A i \in 1 .. k : SubSeq(buffer, 1, k)[i] = buffer[i]
        BY <1>2, <4>1, CutInTwo DEF k
      <4>3. QED BY <3>1, <4>2 DEF k
    <3>3. n \in 0 .. Len(buffer) /\ n \in 0 .. Len(s)
      BY <1>1, <3>1, <3>2
    <3>4. SubSeq(s, 1, n) = SubSeq(buffer, 1, n)
      <4>1. /\ SubSeq(s, 1, n) \in Seq(Byte) /\ Len(SubSeq(s, 1, n)) = n
            /\ \A i \in 1 .. n : SubSeq(s, 1, n)[i] = s[i]
        BY <3>2, <3>3, CutInTwo
      <4>2. /\ SubSeq(buffer, 1, n) \in Seq(Byte) /\ Len(SubSeq(buffer, 1, n)) = n
            /\ \A i \in 1 .. n : SubSeq(buffer, 1, n)[i] = buffer[i]
        BY <1>2, <3>3, CutInTwo
      <4>3. \A i \in 1 .. n : s[i] = buffer[i]
        BY <3>2, <3>3
      <4> DEFINE x == SubSeq(s, 1, n)
                 y == SubSeq(buffer, 1, n)
      <4> HIDE DEF x, y
      <4>4. /\ x \in Seq(Byte) /\ y \in Seq(Byte) /\ Len(x) = Len(y)
            /\ \A i \in 1 .. Len(x) : x[i] = y[i]
        BY <4>1, <4>2, <4>3 DEF x, y
      <4>5. x = y
        BY <4>4
      <4>6. QED BY <4>5 DEF x, y
    <3>5. QED BY <2>1, <3>2, <3>3, <3>4
  <2>2. CASE ~EC!HasStop(buffer)
    BY <1>0, <1>1, <1>2, <2>2
  <2>3. QED BY <2>1, <2>2
<1> DEFINE p == SubSeq(buffer, 1, n)
<1>4. p \in Seq(Byte) /\ Len(p) = n /\ down' = down \o p
  BY <1>1, <1>2, <1>3, CutInTwo
<1>5. cut' = (cut \/ n < Len(s))
  BY <1>1
<1> HIDE DEF p
<1>6. down' \in Seq(Byte) /\ Len(down') <= Room /\ client_pc # "ended"
  <2>1. client_pc # "ended"
    BY <1>2 DEF EchoTypes
  <2>2. down \o p \in Seq(Byte) /\ Len(down \o p) = Len(down) + n
    BY <1>2, <1>4, Joined
  <2>3. QED BY <1>1, <1>4, <2>1, <2>2
<1>7. EchoTypes'
  <2>1. cut' \in BOOLEAN /\ server' \in {"closed", "reads"} /\ buffer' \in Seq(Byte)
    BY <1>2, <1>5
  <2>2. QED BY <1>2, <1>6, <2>1 DEF EchoTypes, EC!TypeOK
<1>8. Shown' = Shown \o p /\ Shown \in Seq(Byte)
  <2>1. (printed \o down) \o p = printed \o (down \o p)
    BY <1>2, <1>4, JoinedThree
  <2>2. Shown' = printed' \o down'
    BY DEF Shown
  <2>3. QED BY <1>2, <1>4, <2>1, <2>2, WayTypes DEF Shown
<1>9. Way' = (Shown \o p) \o up
  <2>1. Way' = Shown' \o (buffer' \o up')
    BY DEF Way
  <2>2. <<>> \o up = up
    BY <1>2
  <2>3. QED BY <1>2, <1>8, <2>1, <2>2
<1>10. EC!InOrder(Way') /\ \A i \in DOMAIN Way' : \E j \in DOMAIN taken' : Way'[i] = taken'[j]
  <2>1. Way = Three(Shown, buffer, up) /\ EC!InOrder(Way) /\ 0 \in 0 .. Len(up)
    BY <1>2 DEF EchoInv, Way, Three
  <2>2. Way' = Drop(Shown, buffer, up, n, 0)
    <3>1. up = SubSeq(up, 0 + 1, Len(up)) /\ p = SubSeq(buffer, 1, n)
      BY <1>2 DEF p
    <3>2. QED BY <1>9, <3>1 DEF Drop
  <2>3. KeepsOrder(Three(Shown, buffer, up), Drop(Shown, buffer, up, n, 0))
    BY <1>2, <1>3, <1>8, <2>1, Dropped
  <2>4. EC!InOrder(Way') /\ \A i \in DOMAIN Way' : \E j \in DOMAIN Way : Way'[i] = Way[j]
    BY <2>1, <2>2, <2>3 DEF KeepsOrder
  <2>5. QED BY <1>2, <2>4 DEF EchoInv
<1>11. ASSUME ~cut', ~EC!HasStop(buffer) PROVE Way' = taken'
  <2>1. p = buffer
    <3>1. n = Len(buffer)
      <4>1. Len(s) = Len(buffer) /\ ~(n < Len(s))
        BY <1>3, <1>5, <1>11
      <4>2. n \in 0 .. Len(buffer) /\ Len(buffer) \in Nat
        BY <1>2, <1>3
      <4>3. QED BY <4>1, <4>2
    <3>2. SubSeq(buffer, 1, Len(buffer)) = buffer
      BY <1>2
    <3>3. QED BY <3>1, <3>2 DEF p
  <2>2. (Shown \o buffer) \o up = Shown \o (buffer \o up)
    BY <1>2, <1>8, JoinedThree
  <2>3. QED BY <1>2, <1>5, <1>9, <1>11, <2>1, <2>2 DEF EchoInv, Way
<1>12. ASSUME ~cut', EC!HasStop(buffer) PROVE EC!HasStop(taken') /\ Shown' = EC!Text(taken')
  <2>1. n = Len(buffer) - 2 /\ Len(buffer) >= 2 /\ Len(buffer) \in Nat /\ Way = taken
    <3>1. Len(buffer) >= 2 /\ Len(buffer) \in Nat /\ n \in 0 .. Len(s)
      BY <1>1, <1>2, <1>12 DEF EC!HasStop
    <3>2. Len(s) = Len(buffer) - 2 /\ ~(n < Len(s)) /\ ~cut
      BY <1>3, <1>5, <1>12
    <3>3. Way = taken
      BY <1>2, <3>2 DEF EchoInv
    <3>4. QED BY <3>1, <3>2, <3>3
  <2>2. up = <<>>
    <3> SUFFICES ASSUME up # <<>> PROVE FALSE
      OBVIOUS
    <3>1. Len(up) \in Nat \ {0} /\ up[1] \in Byte /\ Len(Shown) \in Nat
      BY <1>2, <1>8
    <3>2. /\ Len(buffer \o up) = Len(buffer) + Len(up) /\ buffer \o up \in Seq(Byte)
          /\ (buffer \o up)[Len(buffer)] = buffer[Len(buffer)]
          /\ (buffer \o up)[Len(buffer) + 1] = up[1]
      BY <1>2, <2>1, <3>1
    <3> DEFINE r == buffer \o up
    <3> HIDE DEF r
    <3>3. /\ Len(Shown \o r) = Len(Shown) + Len(r)
          /\ (Shown \o r)[Len(Shown) + Len(buffer)] = r[Len(buffer)]
          /\ (Shown \o r)[Len(Shown) + Len(buffer) + 1] = r[Len(buffer) + 1]
      <4>1. r \in Seq(Byte) /\ Len(r) = Len(buffer) + Len(up)
        BY <3>2 DEF r
      <4>2. /\ Len(Shown) + Len(buffer) \in Len(Shown) + 1 .. Len(Shown) + Len(r)
            /\ Len(Shown) + Len(buffer) + 1 \in Len(Shown) + 1 .. Len(Shown) + Len(r)
            /\ Len(Shown) + Len(buffer) - Len(Shown) = Len(buffer)
            /\ Len(Shown) + Len(buffer) + 1 - Len(Shown) = Len(buffer) + 1
        BY <2>1, <3>1, <4>1
      <4>3. /\ Len(Shown \o r) = Len(Shown) + Len(r)
            /\ \A i \in Len(Shown) + 1 .. Len(Shown) + Len(r) : (Shown \o r)[i] = r[i - Len(Shown)]
        BY <1>8, <4>1, Joined
      <4>4. QED BY <4>2, <4>3
    <3>4. Way = Shown \o r /\ DOMAIN Way = 1 .. Len(Way)
      BY WayTypes DEF Way, r
    <3>5. /\ Len(Shown) + Len(buffer) \in DOMAIN Way /\ Len(Shown) + Len(buffer) + 1 \in DOMAIN Way
          /\ Len(Shown) + Len(buffer) < Len(Shown) + Len(buffer) + 1
      BY <2>1, <3>1, <3>2, <3>3, <3>4 DEF r
    <3>6. EC!Before(Way[Len(Shown) + Len(buffer)], Way[Len(Shown) + Len(buffer) + 1])
      BY <3>5 DEF EchoInv, EC!InOrder
    <3>7. EC!Before(buffer[Len(buffer)], up[1])
      BY <3>2, <3>3, <3>4, <3>6 DEF r
    <3>8. buffer[Len(buffer)] = EC!Stop[2]
      BY <1>12 DEF EC!HasStop
    <3>9. QED BY <3>1, <3>7, <3>8, StopIs
  <2>3. taken = Shown \o buffer
    <3>1. buffer \o <<>> = buffer
      BY <1>2
    <3>2. QED BY <2>1, <2>2, <3>1 DEF Way
  <2>4. /\ Len(taken) = Len(Shown) + Len(buffer) /\ Len(Shown) \in Nat
        /\ \A i \in 1 .. Len(Shown) : taken[i] = Shown[i]
        /\ \A i \in Len(Shown) + 1 .. Len(Shown) + Len(buffer) : taken[i] = buffer[i - Len(Shown)]
        /\ taken \in Seq(Byte)
    BY <1>2, <1>8, <2>3, Joined
  <2>5. EC!HasStop(taken)
    <3>1. /\ Len(taken) - 1 \in Len(Shown) + 1 .. Len(Shown) + Len(buffer)
          /\ Len(taken) \in Len(Shown) + 1 .. Len(Shown) + Len(buffer)
          /\ (Len(taken) - 1) - Len(Shown) = Len(buffer) - 1
          /\ Len(taken) - Len(Shown) = Len(buffer) /\ Len(taken) >= 2
      BY <2>1, <2>4
    <3>2. taken[Len(taken) - 1] = buffer[Len(buffer) - 1] /\ taken[Len(taken)] = buffer[Len(buffer)]
      BY <2>4, <3>1
    <3>3. QED BY <1>12, <3>1, <3>2 DEF EC!HasStop
  <2>6. Shown' = SubSeq(taken, 1, Len(taken) - 2)
    <3> DEFINE t == SubSeq(taken, 1, Len(taken) - 2)
    <3>1. /\ t \in Seq(Byte) /\ Len(t) = Len(taken) - 2
          /\ \A i \in 1 .. Len(taken) - 2 : t[i] = taken[i]
      BY <2>1, <2>4
    <3>2. /\ Len(Shown \o p) = Len(Shown) + n /\ Shown \o p \in Seq(Byte)
          /\ \A i \in 1 .. Len(Shown) : (Shown \o p)[i] = Shown[i]
          /\ \A i \in Len(Shown) + 1 .. Len(Shown) + n : (Shown \o p)[i] = p[i - Len(Shown)]
      BY <1>4, <1>8, Joined
    <3>3. \A i \in 1 .. n : p[i] = buffer[i]
      BY <1>2, <1>3, CutInTwo DEF p
    <3>4. Len(taken) - 2 = Len(Shown) + n /\ n \in Nat
      BY <2>1, <2>4
    <3> DEFINE u == Shown \o p
    <3> HIDE DEF t, u
    <3>5. ASSUME NEW i \in 1 .. Len(Shown) + n PROVE u[i] = t[i]
      <4>1. CASE i \in 1 .. Len(Shown)
        BY <2>4, <3>1, <3>2, <3>4, <4>1 DEF u
      <4>2. CASE i > Len(Shown)
        <5>1. /\ i \in Len(Shown) + 1 .. Len(Shown) + n
              /\ i \in Len(Shown) + 1 .. Len(Shown) + Len(buffer)
              /\ i - Len(Shown) \in 1 .. n /\ i \in 1 .. Len(taken) - 2
          BY <2>1, <2>4, <3>4, <4>2
        <5>2. u[i] = buffer[i - Len(Shown)]
          BY <3>2, <3>3, <5>1 DEF u
        <5>3. taken[i] = buffer[i - Len(Shown)]
          BY <2>4, <5>1
        <5>4. QED BY <3>1, <5>1, <5>2, <5>3
      <4>3. QED BY <2>4, <3>4, <4>1, <4>2
    <3>6. u \in Seq(Byte) /\ Len(u) = Len(t) /\ t \in Seq(Byte) /\ Len(u) = Len(Shown) + n
      BY <3>1, <3>2, <3>4 DEF u
    <3>7. u = t
      <4>1. /\ u \in Seq(Byte) /\ t \in Seq(Byte) /\ Len(u) = Len(t)
            /\ \A i \in 1 .. Len(u) : u[i] = t[i]
        BY <3>5, <3>6
      <4>2. QED BY <4>1
    <3>8. QED BY <1>8, <3>7 DEF u, t
  <2>7. QED BY <1>2, <2>5, <2>6 DEF EC!Text
<1>13. client_pc' \notin {"drain", "ended", "terminated"} =>
         \A i \in DOMAIN taken' : taken'[i][1] < NextLine'
  BY <1>2 DEF EchoInv, NextLine
<1>14. QED BY <1>2, <1>7, <1>10, <1>11, <1>12, <1>13 DEF EchoInv

\* Closing drops the buffer.
LEMMA CloseKeeps == ASSUME EchoTypes, EchoInv, EC!ServerCloses
  PROVE  EchoTypes' /\ EchoInv'
<1>1. /\ UNCHANGED <<client_pc, eof, lines, line, taken, printed, up, down>>
      /\ server' = "closed" /\ buffer' = <<>> /\ cut' = TRUE
      /\ up \in Seq(Byte) /\ buffer \in Seq(Byte)
  BY DEF EC!ServerCloses, EC!client, EchoTypes
<1>2. EchoTypes'
  BY <1>1 DEF EchoTypes, EC!TypeOK
<1>3. Way' = Shown \o up
  <2>1. Way' = Shown' \o (buffer' \o up') /\ Shown' = Shown
    BY <1>1 DEF Way, Shown
  <2>2. <<>> \o up = up
    BY <1>1
  <2>3. QED BY <1>1, <2>1, <2>2
<1>4. EC!InOrder(Way') /\ \A i \in DOMAIN Way' : \E j \in DOMAIN Way : Way'[i] = Way[j]
  <2>1. Way = Three(Shown, buffer, up) /\ EC!InOrder(Way) /\ Shown \in Seq(Byte)
    BY WayTypes DEF EchoInv, Way, Three
  <2>2. Way' = Drop(Shown, buffer, up, 0, 0)
    <3>1. /\ up = SubSeq(up, 0 + 1, Len(up)) /\ <<>> = SubSeq(buffer, 1, 0)
          /\ Shown \o <<>> = Shown
      BY <1>1, <2>1
    <3>2. QED BY <1>3, <3>1 DEF Drop
  <2>3. KeepsOrder(Three(Shown, buffer, up), Drop(Shown, buffer, up, 0, 0))
    <3>1. 0 \in 0 .. Len(up) /\ 0 \in 0 .. Len(buffer)
      BY <1>1
    <3>2. QED BY <1>1, <2>1, <3>1, Dropped
  <2>4. QED BY <2>1, <2>2, <2>3 DEF KeepsOrder
<1>5. QED BY <1>1, <1>2, <1>4 DEF EchoInv, NextLine

\* Every step keeps the types and the order.
LEMMA EchoKept == ASSUME EchoTypes, EchoInv, [EC!Next]_(EC!vars) PROVE EchoTypes' /\ EchoInv'
<1>1. CASE EC!GetLine
  <2>1. PICK n \in 0 .. MaxLine, e \in BOOLEAN : line' = EC!LineOf(lines + 1, n) /\ eof' = e
    BY <1>1 DEF EC!GetLine
  <2>2. /\ client_pc = "getline" /\ client_pc' = "write" /\ lines' = lines + 1
        /\ UNCHANGED <<up, down, taken, printed, server, buffer, cut>>
        /\ lines < MaxLines /\ lines \in 0 .. MaxLines /\ n \in Nat
    BY <1>1, EchoNumbers DEF EC!GetLine, EchoTypes, EC!TypeOK
  <2>3. EchoTypes'
    BY <2>1, <2>2, EchoNumbers DEF EchoTypes, EC!TypeOK
  <2>4. Way' = Way /\ Shown' = Shown /\ NextLine' = NextLine
    BY <2>2 DEF Way, Shown, NextLine
  <2>5. QED BY <2>2, <2>3, <2>4 DEF EchoInv
<1>2. CASE EC!WriteLine
  <2>1. PICK n \in Nat : line = EC!LineOf(lines, n) /\ lines > 0
    BY <1>2 DEF EC!WriteLine, EchoTypes
  <2>2. /\ client_pc = "write" /\ EC!Send(line, "read")
        /\ UNCHANGED <<eof, lines, line, down, printed, server, buffer, cut>>
        /\ lines \in 1 .. StopLine /\ lines < StopLine
    BY <1>2, <2>1, EchoNumbers DEF EC!WriteLine, EchoTypes, EC!TypeOK, StopLine
  <2>3. \A i \in DOMAIN taken : taken[i][1] < lines
    BY <2>2 DEF EchoInv, NextLine
  <2>4. EchoInv' /\ up' \in Seq(Byte) /\ taken' \in Seq(Byte) /\ Len(up') <= Room
    BY <2>1, <2>2, <2>3, SentKeeps
  <2>5. client_pc' \in {"read", "terminated"}
    BY <2>2 DEF EC!Send
  <2>6. QED BY <2>2, <2>4, <2>5 DEF EchoTypes, EC!TypeOK
<1>3. CASE EC!WriteStop
  <2>1. /\ client_pc = "stop" /\ EC!Send(EC!LineOf(StopLine, 2), "drain")
        /\ UNCHANGED <<eof, lines, line, down, printed, server, buffer, cut>>
        /\ StopLine \in 1 .. StopLine
    BY <1>3, EchoNumbers DEF EC!WriteStop, EC!Stop, StopLine
  <2>2. \A i \in DOMAIN taken : taken[i][1] < StopLine
    <3>1. \A i \in DOMAIN taken : taken[i][1] < lines + 1 /\ taken[i] \in Byte
      BY <2>1, WayTypes DEF EchoInv, NextLine, EchoTypes
    <3>2. lines \in 0 .. MaxLines
      BY DEF EchoTypes, EC!TypeOK
    <3>3. QED BY <3>1, <3>2, EchoNumbers DEF Byte, StopLine
  <2>3. EchoInv' /\ up' \in Seq(Byte) /\ taken' \in Seq(Byte) /\ Len(up') <= Room
    BY <2>1, <2>2, SentKeeps
  <2>4. client_pc' \in {"drain", "terminated"}
    BY <2>1 DEF EC!Send
  <2>5. eof
    BY <1>3 DEF EC!WriteStop, EchoTypes, EC!TypeOK
  <2>6. QED BY <2>1, <2>3, <2>4, <2>5 DEF EchoTypes, EC!TypeOK
<1>4. CASE EC!ReadSome \/ EC!Drain
  <2>1. /\ UNCHANGED <<client_pc, eof, lines, line, up, taken, server, buffer, cut>>
        /\ client_pc \in {"read", "drain"} /\ EC!PrintSome
    BY <1>4 DEF EC!ReadSome, EC!Drain
  <2>2. /\ printed' \in Seq(Byte) /\ down' \in Seq(Byte) /\ Len(down') <= Room
        /\ Shown' = Shown /\ Way' = Way
    BY <2>1, PrintKeeps
  <2>3. EchoTypes'
    BY <2>1, <2>2 DEF EchoTypes, EC!TypeOK
  <2>4. QED BY <2>1, <2>2, <2>3 DEF EchoInv, NextLine
<1>5. CASE EC!ReadNothing \/ EC!DrainEnds \/ UNCHANGED EC!vars
  <2>1. /\ UNCHANGED <<up, down, taken, printed, server, buffer, cut, lines, eof, line>>
        /\ \/ client_pc = "read" /\ client_pc' \in {"stop", "getline"}
           \/ client_pc' = "ended" /\ down = <<>> /\ server = "closed"
           \/ client_pc' = client_pc
    BY <1>5 DEF EC!ReadNothing, EC!DrainEnds, EC!vars, EC!client
  <2>2. client_pc' = "stop" => client_pc = "stop" \/ eof
    BY <1>5 DEF EC!ReadNothing, EC!DrainEnds, EC!vars, EC!client
  <2>3. EchoTypes'
    BY <2>1, <2>2 DEF EchoTypes, EC!TypeOK
  <2>4. Way' = Way /\ Shown' = Shown
    BY <2>1 DEF Way, Shown
  <2>5. client_pc' \notin {"drain", "ended", "terminated"} =>
          client_pc \notin {"drain", "ended", "terminated"} /\ NextLine' = NextLine
    BY <2>1 DEF NextLine
  <2>6. QED BY <2>1, <2>3, <2>4, <2>5 DEF EchoInv
<1>6. CASE EC!Server
  BY <1>6, ReadKeeps, WriteKeeps DEF EC!Server
<1>7. CASE EC!ServerCloses
  BY <1>7, CloseKeeps
<1>8. QED
  BY <1>1, <1>2, <1>3, <1>4, <1>5, <1>6, <1>7 DEF EC!Next, EC!Main

\* What was echoed is what the invariant says of it.
LEMMA EchoesAre == ASSUME EchoTypes, EchoInv PROVE EC!EchoesInOrder /\ EC!AllIsPrinted
<1>1. /\ Shown \in Seq(Byte) /\ buffer \o up \in Seq(Byte)
      /\ DOMAIN Shown = 1 .. Len(Shown) /\ Len(Shown) \in Nat
  BY WayTypes
<1>2. /\ Len(Way) = Len(Shown) + Len(buffer \o up) /\ DOMAIN Way = 1 .. Len(Way)
      /\ \A i \in 1 .. Len(Shown) : Way[i] = Shown[i]
  BY <1>1, WayTypes, Joined DEF Way
<1>3. \A i \in 1 .. Len(Shown) : i \in DOMAIN Way
  BY <1>1, <1>2
<1>4. EC!InOrder(Shown)
  BY <1>1, <1>2, <1>3 DEF EchoInv, EC!InOrder
<1>5. \A i \in DOMAIN Shown : \E j \in DOMAIN taken : Shown[i] = taken[j]
  BY <1>1, <1>2, <1>3 DEF EchoInv
<1>6. EC!ToSet(Shown) \subseteq EC!ToSet(taken)
  BY <1>5 DEF EC!ToSet
<1>7. EC!AllIsPrinted
  <2> SUFFICES ASSUME client_pc = "ended", ~cut
      PROVE  EC!HasStop(taken) /\ printed = EC!Text(taken)
    BY DEF EC!AllIsPrinted
  <2>1. Shown = printed
    BY DEF EchoTypes, Shown
  <2>2. QED BY <2>1 DEF EchoTypes, EchoInv
<1>8. QED BY <1>4, <1>6, <1>7 DEF EC!EchoesInOrder, Shown

\* client.cpp of hw-4 with the callback of echo_server.cpp: however TCP cuts the lines
\* and their echoes, and whatever the server drops, what is printed was sent, comes in
\* its order and no byte twice; a client that ended, whose server dropped nothing, has
\* sent "stop" and printed all that was taken before it.
THEOREM EchoHolds == EC!Spec => [](EC!TypeOK /\ EC!EchoesInOrder /\ EC!AllIsPrinted)
<1>1. EC!Init => EchoTypes /\ EchoInv BY EchoInit
<1>2. EchoTypes /\ EchoInv /\ [EC!Next]_(EC!vars) => (EchoTypes /\ EchoInv)'
  BY EchoKept
<1>3. EchoTypes => EC!TypeOK BY DEF EchoTypes
<1>4. QED BY <1>1, <1>2, <1>3, EchoesAre, PTL DEF EC!Spec

-----------------------------------------------------------------------------
(***************************************************************************)
(* EchoServerMain                                                          *)
(***************************************************************************)

\* The port an argument names is the one the server listens at.
PortInv ==
  /\ EM!TypeOK
  /\ main_pc \in {"argc", "port", "open"} => address = EM!NoAddress
  /\ main_pc \in {"open", "loop", "serving"} =>
       text.digits \in PortNumbers /\ port = EM!Stoul % (EM!UInt16Max + 1)
  /\ main_pc \in {"loop", "serving"} => address = <<AnyIp, port>>
  /\ main_pc = "ended" => address = EM!NoAddress

\* The widths of the two integers are numbers.
LEMMA Widths == EM!UInt16Max \in Nat /\ EM!Wide \in Nat
  BY DEF EM!UInt16Max, EM!Wide

\* The numbers an argument may name fit an unsigned long.
LEMMA NumbersAreNat == \A n \in PortNumbers : n \in 0 .. EM!Wide - 1 /\ n \in Nat
<1>1. PortNumbers \subseteq 0 .. EM!Wide - 1
  BY MainAssumption DEF EM!EchoServerMainAssumption
<1>2. QED BY <1>1, Widths

\* What a conversion to uint16_t does to a number.
LEMMA CutToWidth == ASSUME NEW n \in Nat
  PROVE  /\ n % (EM!UInt16Max + 1) \in 0 .. EM!UInt16Max
         /\ n <= EM!UInt16Max => n % (EM!UInt16Max + 1) = n
<1>1. ASSUME NEW w \in Nat
      PROVE  n % (w + 1) \in 0 .. w /\ (n <= w => n % (w + 1) = n)
  OBVIOUS
<1>2. QED BY <1>1, Widths

\* std::stoul returns a number for an argument with digits.
LEMMA StoulIsNat == ASSUME text \in EM!PortText, text.digits # NoDigits
  PROVE  text.digits \in PortNumbers /\ EM!Stoul \in Nat
<1>1. text.digits \in PortNumbers /\ text.minus \in BOOLEAN
  BY DEF EM!PortText
<1>2. text.digits \in 0 .. EM!Wide - 1 /\ EM!Wide \in Nat
  BY <1>1, NumbersAreNat, Widths
<1>3. QED BY <1>1, <1>2, Widths DEF EM!Stoul

\* The invariant holds at the start.
LEMMA PortInit == EM!Init => PortInv
  BY MainAssumption
  DEF EM!Init, PortInv, EM!TypeOK, EM!EchoServerMainAssumption, EM!NoAddress, EM!Running,
      EM!UInt16Max

\* Every step keeps the invariant.
LEMMA PortStep == ASSUME PortInv, [EM!Next]_(EM!vars) PROVE PortInv'
<1> USE DEF PortInv, EM!TypeOK, EM!Stoul, EM!NoAddress, EM!Running, EM!Aborted,
      EM!Goes, EM!Ends, EM!args
<1> USE MainAssumption DEF EM!EchoServerMainAssumption
<1>1. CASE EM!Usage BY <1>1 DEF EM!Usage
<1>2. CASE EM!BadPort BY <1>2 DEF EM!BadPort
<1>3. CASE EM!GetPort
  <2>1. text.digits \in PortNumbers /\ EM!Stoul \in Nat
    BY <1>3, StoulIsNat DEF EM!GetPort
  <2>4. port' = EM!Stoul % (EM!UInt16Max + 1) /\ EM!Stoul' = EM!Stoul
    BY <1>3 DEF EM!GetPort
  <2> HIDE DEF EM!Stoul
  <2>3. EM!Stoul % (EM!UInt16Max + 1) \in 0 .. EM!UInt16Max
    BY <2>1, CutToWidth
  <2>5. QED BY <1>3, <2>1, <2>3, <2>4 DEF EM!GetPort
<1>4. CASE EM!OpenServer BY <1>4 DEF EM!OpenServer
<1>5. CASE EM!OpenFails BY <1>5 DEF EM!OpenFails
<1>6. CASE EM!EventLoop BY <1>6 DEF EM!EventLoop
<1>7. CASE EM!NoEpoll BY <1>7 DEF EM!NoEpoll, EM!vars
<1>8. CASE EM!EpollError BY <1>8 DEF EM!EpollError
<1>9. CASE EM!OtherError BY <1>9 DEF EM!OtherError
<1>10. CASE EM!SystemTakes BY <1>10 DEF EM!SystemTakes
<1>11. CASE EM!SystemGives BY <1>11 DEF EM!SystemGives
<1>12. CASE UNCHANGED EM!vars BY <1>12 DEF EM!vars
<1>13. QED
  BY <1>1, <1>2, <1>3, <1>4, <1>5, <1>6, <1>7, <1>8, <1>9, <1>10, <1>11, <1>12
  DEF EM!Next, EM!Main

\* An error of a manager leaves the address.
LEMMA ListensStep == ASSUME PortInv, [EM!Next]_(EM!vars) PROVE EM!ListensThroughErrors
  BY DEF PortInv, EM!ListensThroughErrors, EM!Next, EM!Main, EM!vars, EM!args, EM!Usage,
      EM!BadPort, EM!GetPort,
    EM!OpenServer, EM!OpenFails, EM!EventLoop, EM!NoEpoll, EM!EpollError, EM!OtherError,
    EM!SystemTakes, EM!SystemGives,
    EM!Goes, EM!Ends

\* A port below 2^16 is the one the server listens at.
LEMMA PortIsUsed == ASSUME PortInv PROVE EM!GoodPortIsUsed
<1> SUFFICES ASSUME address # EM!NoAddress, ~text.minus, text.digits <= EM!UInt16Max
    PROVE  address[2] = text.digits
  BY DEF EM!GoodPortIsUsed
<1>1. main_pc \in {"loop", "serving"}
  BY DEF PortInv, EM!TypeOK
<1>2. text.digits \in Nat
  BY <1>1, NumbersAreNat DEF PortInv
<1>3. port = text.digits % (EM!UInt16Max + 1)
  BY <1>1 DEF PortInv, EM!Stoul
<1>4. text.digits % (EM!UInt16Max + 1) = text.digits
  BY <1>2, CutToWidth
<1>5. QED BY <1>1, <1>3, <1>4 DEF PortInv

\* main.cpp of hw-4: a number that fits 16 bits is the port the server listens at,
\* whatever the other arguments are and whichever call fails.
THEOREM MainTypesHold == EM!Spec => [](PortInv /\ EM!GoodPortIsUsed)
<1>1. EM!Init => PortInv BY PortInit
<1>2. PortInv /\ [EM!Next]_(EM!vars) => PortInv' BY PortStep
<1>3. PortInv => EM!GoodPortIsUsed BY PortIsUsed
<1>4. QED BY <1>1, <1>2, <1>3, PTL DEF EM!Spec

-----------------------------------------------------------------------------
(***************************************************************************)
(* KvIndex                                                                 *)
(***************************************************************************)

\* The generator's vectors are not empty.
LEMMA Sizes == MaxElements \in Nat /\ MaxElements > 0
  BY FilesAssumption DEF KI!KvIndexAssumption

\* Products of numbers are numbers.
LEMMA Products == \A a, b \in Nat : a * b \in Nat
  OBVIOUS

\* Keys: those of the vector are still to be written, the others are in the file.

AllKeys ==
  /\ \A i \in 1 .. Len(file) : file[i] \in 0 .. start - 1 /\ file[i] \notin vector
  /\ \A i, j \in 1 .. Len(file) : file[i] = file[j] => i = j
  /\ \A k \in 0 .. start - 1 : k \in vector \/ \E i \in 1 .. Len(file) : file[i] = k

KeysInv ==
  /\ file_pc \in {"main", "refused", "run", "written", "reader", "thrown"}
  /\ gigabytes \in Nat /\ start \in Nat /\ written \in Nat /\ start <= KI!Elements
  /\ vector \subseteq 0 .. start - 1 /\ IsFiniteSet(vector)
  /\ written + Cardinality(vector) = start
  /\ file_pc \notin {"main", "refused", "run"} => vector = {} /\ written = KI!Elements
  /\ file \in Seq(Nat) /\ broken \in BOOLEAN
  /\ ~broken => Len(file) = written /\ AllKeys
  /\ path \in {"given", "moved"} /\ fds \subseteq {"index", "data"}
  /\ fds # {} => file_pc = "reader"

\* The number of keys of a file is a number.
LEMMA ElementsAreNat == ASSUME gigabytes \in Nat PROVE KI!Elements \in Nat
<1>1. PerGigabyte \in Nat
  BY FilesAssumption DEF KI!KvIndexAssumption
<1>2. QED BY <1>1, Products DEF KI!Elements

\* No key was written at the start.
LEMMA KeysInit == KI!Init => KeysInv
<1> SUFFICES ASSUME KI!Init PROVE KeysInv
  OBVIOUS
<1>1. gigabytes \in Nat
  BY FilesAssumption DEF KI!Init, KI!KvIndexAssumption
<1>2. KI!Elements \in Nat
  BY <1>1, ElementsAreNat
<1>3. IsFiniteSet({}) /\ Cardinality({}) = 0
  BY FS_EmptySet
<1>4. AllKeys
  BY DEF KI!Init, AllKeys
<1>5. /\ vector = {} /\ start = 0 /\ written = 0 /\ file_pc = "main"
      /\ file = <<>> /\ broken = FALSE /\ path = "given" /\ fds = {}
  BY DEF KI!Init
<1>6. file \in Seq(Nat) /\ Len(file) = 0
  BY <1>5
<1>7. written + Cardinality(vector) = start
  BY <1>3, <1>5
<1>8. vector \subseteq 0 .. start - 1 /\ IsFiniteSet(vector)
  BY <1>3, <1>5
<1>9. Len(file) = written /\ start \in Nat /\ written \in Nat /\ start <= KI!Elements
  BY <1>2, <1>5, <1>6
<1>10. QED
  BY <1>1, <1>4, <1>5, <1>6, <1>7, <1>8, <1>9 DEF KeysInv

\* The next vector has the next keys.
LEMMA NewVector == ASSUME KeysInv, KI!GenerateVector PROVE KeysInv'
<1> DEFINE n == KI!Lesser(KI!Elements - written, MaxElements)
<1>1. /\ KI!Elements \in Nat /\ written \in Nat /\ start \in Nat /\ start <= KI!Elements
      /\ vector = {} /\ written # KI!Elements
  BY ElementsAreNat DEF KeysInv, KI!GenerateVector
<1>2. written = start
  BY <1>1, FS_EmptySet DEF KeysInv
<1>3. n \in Nat /\ start + n <= KI!Elements
  BY <1>1, <1>2, Sizes DEF KI!Lesser
<1>4. vector' = start .. start + n - 1 /\ start' = start + n
  BY DEF KI!GenerateVector
<1>5. KI!Elements' = KI!Elements
  BY DEF KI!GenerateVector, KI!Elements
<1> HIDE DEF n
<1>6. IsFiniteSet(vector') /\ Cardinality(vector') = n
  BY <1>1, <1>3, <1>4, FS_Interval
<1>7. vector' \subseteq 0 .. start' - 1
  BY <1>1, <1>3, <1>4
<1>8. AllKeys => AllKeys'
  <2>1. file' = file
    BY DEF KI!GenerateVector, KI!data
  <2> SUFFICES ASSUME AllKeys PROVE AllKeys'
    OBVIOUS
  <2>2. Len(file) \in Nat
    BY DEF KeysInv
  <2>3. QED BY <1>1, <1>3, <1>4, <2>1, <2>2 DEF AllKeys
<1>9. QED
  BY <1>1, <1>2, <1>3, <1>4, <1>5, <1>6, <1>7, <1>8
  DEF KeysInv, KI!GenerateVector, KI!data, KI!make

\* A key that is written leaves the vector.
LEMMA KeyWritten == ASSUME KeysInv, KI!WritePair PROVE KeysInv'
<1>1. PICK key \in vector :
        /\ vector' = vector \ {key} /\ written' = written + 1
        /\ \/ ~broken /\ file' = Append(file, key) /\ UNCHANGED broken
           \/ /\ ~broken /\ broken' = TRUE
              /\ \E k \in 0 .. Len(file) : file' = SubSeq(file, 1, k)
           \/ broken /\ UNCHANGED KI!data
  BY DEF KI!WritePair
<1>2. /\ IsFiniteSet(vector') /\ Cardinality(vector') = Cardinality(vector) - 1
      /\ Cardinality(vector) \in Nat
  BY <1>1, FS_RemoveElement, FS_CardinalityType DEF KeysInv
<1>3. vector' \subseteq 0 .. start' - 1 /\ start' = start /\ key \in 0 .. start - 1 /\ key \in Nat
  BY <1>1 DEF KeysInv, KI!WritePair
<1>4. written' \in Nat /\ written' + Cardinality(vector') = start'
  BY <1>1, <1>2, <1>3 DEF KeysInv
<1>5. KI!Elements' = KI!Elements
  BY DEF KI!WritePair, KI!Elements
<1>6. file' \in Seq(Nat) /\ broken' \in BOOLEAN
  <2>1. CASE file' = Append(file, key) /\ UNCHANGED broken
    BY <1>3, <2>1 DEF KeysInv
  <2>2. CASE broken' = TRUE /\ \E k \in 0 .. Len(file) : file' = SubSeq(file, 1, k)
    BY <2>2 DEF KeysInv
  <2>3. CASE UNCHANGED KI!data
    BY <2>3 DEF KeysInv, KI!data
  <2>4. QED BY <1>1, <2>1, <2>2, <2>3
<1>7. ASSUME ~broken' PROVE Len(file') = written' /\ AllKeys'
  <2>1. ~broken /\ file' = Append(file, key)
    BY <1>1, <1>7 DEF KI!data
  <2>2. Len(file) = written /\ AllKeys /\ file \in Seq(Nat)
    BY <2>1 DEF KeysInv
  <2>3. /\ Len(file') = Len(file) + 1 /\ Len(file) \in Nat /\ file'[Len(file) + 1] = key
        /\ \A i \in 1 .. Len(file) : file'[i] = file[i]
    BY <2>1, <2>2, <1>3
  <2>4. \A i \in 1 .. Len(file) : file[i] # key
    BY <1>1, <2>2 DEF AllKeys
  <2>5. \A i \in 1 .. Len(file') : file'[i] \in 0 .. start' - 1 /\ file'[i] \notin vector'
    BY <1>1, <1>3, <2>2, <2>3 DEF AllKeys
  <2>6. \A i, j \in 1 .. Len(file') : file'[i] = file'[j] => i = j
    BY <2>2, <2>3, <2>4 DEF AllKeys
  <2>7. \A k \in 0 .. start' - 1 : k \in vector' \/ \E i \in 1 .. Len(file') : file'[i] = k
    BY <1>1, <1>3, <2>2, <2>3 DEF AllKeys
  <2>8. QED BY <1>1, <2>1, <2>2, <2>3, <2>5, <2>6, <2>7 DEF AllKeys
<1>8. file_pc' = "run" /\ gigabytes' = gigabytes /\ UNCHANGED <<path, fds>> /\ file_pc = "run"
  BY DEF KI!WritePair, KI!make
<1>9. QED
  BY <1>1, <1>2, <1>3, <1>4, <1>5, <1>6, <1>7, <1>8 DEF KeysInv

\* Every step keeps each key in one place.
LEMMA KeysStep == ASSUME KeysInv, [KI!Next]_(KI!vars) PROVE KeysInv'
<1>1. CASE KI!GenerateVector BY <1>1, NewVector
<1>2. CASE KI!WritePair BY <1>2, KeyWritten
<1>3. ASSUME UNCHANGED <<KI!generator, KI!data>>
      PROVE  AllKeys' = AllKeys /\ KI!Elements' = KI!Elements
  BY <1>3 DEF KI!generator, KI!data, AllKeys, KI!Elements
<1>4. CASE KI!Main
  BY <1>3, <1>4 DEF KI!Main, KeysInv, KI!generator, KI!data, KI!make
<1>5. CASE KI!Generated
  <2>1. vector = {} => Cardinality(vector) = 0
    BY FS_EmptySet
  <2>2. QED BY <1>3, <1>5, <2>1 DEF KI!Generated, KeysInv, KI!generator, KI!data, KI!make
<1>6. CASE KI!Maker
  BY <1>3, <1>6
  DEF KI!Maker, KI!OpenIndex, KI!InitFd, KI!InitFilesize, KeysInv, KI!generator, KI!data
<1>7. CASE UNCHANGED KI!vars
  BY <1>3, <1>7 DEF KI!vars, KeysInv, KI!generator, KI!data, KI!make
<1>8. QED
  BY <1>1, <1>2, <1>4, <1>5, <1>6, <1>7 DEF KI!Next, KI!Generator

\* A file that was written to its end has each key once.
LEMMA KeysAreOnce == KeysInv => KI!EachKeyOnce
<1> SUFFICES ASSUME KeysInv, file_pc \in {"written", "reader", "thrown"}, ~broken
    PROVE  file \in Bijection(1 .. KI!Elements, 0 .. KI!Elements - 1)
  BY DEF KI!EachKeyOnce, KI!Bijection, KI!Injection, KI!Surjection, KI!IsInjective,
    Bijection, Injection, Surjection, IsInjective
<1>1. vector = {} /\ Cardinality({}) = 0
  BY FS_EmptySet DEF KeysInv
<1>2. /\ Len(file) = KI!Elements /\ start = KI!Elements /\ AllKeys /\ KI!Elements \in Nat
      /\ file \in Seq(Nat)
  BY <1>1, ElementsAreNat DEF KeysInv
<1>3. file \in [1 .. KI!Elements -> 0 .. KI!Elements - 1]
  BY <1>2 DEF AllKeys
<1>4. IsInjective(file)
  BY <1>2 DEF AllKeys, IsInjective
<1>5. \A t \in 0 .. KI!Elements - 1 : \E s \in 1 .. KI!Elements : file[s] = t
  BY <1>1, <1>2 DEF AllKeys
<1>6. QED BY <1>3, <1>4, <1>5 DEF Bijection, Injection, Surjection

\* What throws closes what was open, and leaves the data.
LEMMA MakeFails == ASSUME KeysInv, [KI!Next]_(KI!vars) PROVE KI!NothingStaysOpen
<1> SUFFICES ASSUME file_pc' = "thrown" PROVE fds' = {} /\ UNCHANGED KI!data
  BY DEF KI!NothingStaysOpen
<1>1. CASE KI!Generator
  BY <1>1 DEF KI!Generator, KI!Main, KI!GenerateVector, KI!WritePair, KI!Generated
<1>2. CASE KI!Maker
  BY <1>2 DEF KI!Maker, KI!OpenIndex, KI!InitFd, KI!InitFilesize, KeysInv
<1>3. CASE UNCHANGED KI!vars
  BY <1>3 DEF KI!vars, KI!make, KeysInv
<1>4. QED BY <1>1, <1>2, <1>3 DEF KI!Next

\* FileGenerator and IndexMaker::make: for any lengths of the file and its vectors a
\* file that was written without an error has each key once, and nothing is open
\* but while the reader is built.
THEOREM FilesHold == KI!Spec => [](KI!TypeOK /\ KI!EachKeyOnce)
<1>1. KI!Init => KeysInv BY KeysInit
<1>2. KeysInv /\ [KI!Next]_(KI!vars) => KeysInv' BY KeysStep
<1>3. KeysInv => KI!TypeOK
  <2> SUFFICES ASSUME KeysInv PROVE KI!TypeOK
    OBVIOUS
  <2>1. Cardinality(vector) \in Nat /\ KI!Elements \in Nat
    BY FS_CardinalityType, ElementsAreNat DEF KeysInv
  <2>2. QED BY <2>1 DEF KeysInv, KI!TypeOK
<1>4. KeysInv => KI!EachKeyOnce BY KeysAreOnce
<1>5. QED BY <1>1, <1>2, <1>3, <1>4, PTL DEF KI!Spec

\* The invariant of the index maker, for the steps it takes.
LEMMA KeysHold == KI!Spec => []KeysInv
<1>1. KI!Init => KeysInv BY KeysInit
<1>2. KeysInv /\ [KI!Next]_(KI!vars) => KeysInv' BY KeysStep
<1>3. QED BY <1>1, <1>2, PTL DEF KI!Spec

-----------------------------------------------------------------------------
(***************************************************************************)
(* The six parts together                                                  *)
(***************************************************************************)

\* A step of the composition is a step of each part, or leaves it alone.
LEMMA StepOfEach ==
  ASSUME [Step]_all
  PROVE  /\ [VE!Next]_(VE!vars) /\ [LG!Next]_(LG!vars) /\ [BT!Next]_(BT!vars)
         /\ [EC!Next]_(EC!vars) /\ [EM!Next]_(EM!vars) /\ [KI!Next]_(KI!vars)
<1>1. /\ UNCHANGED vectors => UNCHANGED VE!vars
      /\ UNCHANGED logs => UNCHANGED LG!vars
      /\ UNCHANGED tcp => UNCHANGED BT!vars
      /\ UNCHANGED echo => UNCHANGED EC!vars
      /\ UNCHANGED main => UNCHANGED EM!vars
      /\ UNCHANGED files => UNCHANGED KI!vars
  BY DEF vectors, logs, tcp, echo, main, files,
    VE!vars, LG!vars, BT!vars, EC!vars, EC!client, EM!vars, EM!args,
    KI!vars, KI!generator, KI!data, KI!make
<1>2. CASE VectorStep(VE!Next)
  BY <1>1, <1>2 DEF VectorStep
<1>3. CASE LogStep(LG!Next)
  BY <1>1, <1>3 DEF LogStep
<1>4. CASE TcpStep(BT!Next)
  BY <1>1, <1>4 DEF TcpStep
<1>5. CASE EchoStep(EC!Next)
  BY <1>1, <1>5 DEF EchoStep
<1>6. CASE MainStep(EM!Next)
  BY <1>1, <1>6 DEF MainStep
<1>7. CASE FileStep(KI!Next)
  BY <1>1, <1>7 DEF FileStep
<1>8. CASE UNCHANGED all
  BY <1>1, <1>8 DEF all
<1>9. QED
  BY <1>2, <1>3, <1>4, <1>5, <1>6, <1>7, <1>8 DEF Step

\* A behaviour of the composition is one of each of its parts.
LEMMA BehaviourOfEach ==
  Parts => VE!Spec /\ LG!Spec /\ BT!Spec /\ EC!Spec /\ EM!Spec /\ KI!Spec
<1>1. Start => VE!Init /\ LG!Init /\ BT!Init /\ EC!Init /\ EM!Init /\ KI!Init
  BY DEF Start
<1>2. [Step]_all => /\ [VE!Next]_(VE!vars) /\ [LG!Next]_(LG!vars) /\ [BT!Next]_(BT!vars)
                    /\ [EC!Next]_(EC!vars) /\ [EM!Next]_(EM!vars) /\ [KI!Next]_(KI!vars)
  BY StepOfEach
<1>3. QED
  BY <1>1, <1>2, PTL
  DEF Parts, VE!Spec, LG!Spec, BT!Spec, EC!Spec, EM!Spec, KI!Spec

\* The types of the six parts: no buffer holds more than it has room for, and no
\* mutex of a logger has two owners.
THEOREM TypesAreOK == Parts => []TypesOK
<1>1. /\ VectorInv /\ LG!TypeOK /\ BT!TypeOK /\ EC!TypeOK /\ PortInv /\ KI!TypeOK
      => TypesOK
  BY DEF TypesOK, VectorInv, PortInv
<1>2. QED
  BY <1>1, BehaviourOfEach, VectorTypes, LogTypesHold, TcpHolds, EchoHolds, MainTypesHold,
    FilesHold, PTL

\* Connection.cpp of hw-3, client.cpp and hw-7: what is received, printed or written
\* is what was sent, echoed or generated, in its order and nothing twice, however it
\* was cut on the way; to its end where no part was dropped.
THEOREM StreamsAreInOrderHolds == Parts => []StreamsAreInOrder
<1>1. /\ BT!NotMixed /\ BT!ClosedIsComplete /\ EC!EchoesInOrder /\ EC!AllIsPrinted
      /\ KI!EachKeyOnce
      => StreamsAreInOrder
  BY DEF StreamsAreInOrder
<1>2. QED
  BY <1>1, BehaviourOfEach, TcpHolds, EchoHolds, FilesHold, PTL

\* BaseLogger.cpp and Logger.cpp: lines are whole when one logger writes a stream,
\* errors are logged at every level, the options of vector_example.cpp take effect
\* one after the other, and an index that does not exist is logged as an error.
THEOREM LogIsCompleteHolds == Parts => LogIsComplete
<1>1. VectorInv /\ [Step]_all => [VE!IndexErrorsAreLogged]_vectors
  <2> SUFFICES ASSUME VectorInv, [Step]_all, ~UNCHANGED vectors PROVE VE!IndexErrorsAreLogged
    OBVIOUS
  <2>1. CASE VectorStep(VE!Next)
    BY <2>1, IndexErrorsStep DEF VectorStep
  <2>2. CASE ~VectorStep(VE!Next)
    BY <2>2 DEF Step, LogStep, TcpStep, EchoStep, MainStep, FileStep, all
  <2>3. QED BY <2>1, <2>2
<1>2. /\ LG!LinesAreWhole' /\ LG!ErrorsAreNeverLost' /\ VE!OptionsTakeEffect'
      /\ [VE!IndexErrorsAreLogged]_vectors
      => [/\ LG!LinesAreWhole' /\ LG!ErrorsAreNeverLost'
          /\ VE!OptionsTakeEffect' /\ [VE!IndexErrorsAreLogged]_vectors]_all
  OBVIOUS
<1>3. Parts => [][Step]_all
  BY PTL DEF Parts
<1>4. QED
  BY <1>1, <1>2, <1>3, BehaviourOfEach, VectorTypes, LinesAreWholeHolds, ErrorsHold, PTL
  DEF LogIsComplete

\* What fails changes no more than it says: make of the index that throws leaves no
\* file open, input that fails stores at most one 0, an open() that throws leaves the
\* address, and a port that an argument names is not replaced by another.
THEOREM FailuresLeaveNothingHolds == Parts => FailuresLeaveNothing
<1>1. VectorInv /\ [VE!Next]_(VE!vars) => VE!FailedInputStoresZero
  BY FailedInputStep
<1>2. PortInv /\ [EM!Next]_(EM!vars) => EM!ListensThroughErrors
  BY ListensStep
<1>3. KeysInv /\ [KI!Next]_(KI!vars) => KI!NothingStaysOpen
  BY MakeFails
<1>4. [Step]_all => [VE!Next]_(VE!vars) /\ [EM!Next]_(EM!vars) /\ [KI!Next]_(KI!vars)
  BY StepOfEach
<1>5. /\ KI!NothingStaysOpen /\ VE!FailedInputStoresZero
      /\ EM!ListensThroughErrors /\ EM!GoodPortIsUsed'
      => [/\ KI!NothingStaysOpen /\ VE!FailedInputStoresZero
          /\ EM!ListensThroughErrors /\ EM!GoodPortIsUsed']_all
  OBVIOUS
<1>6. Parts => [][Step]_all
  BY PTL DEF Parts
<1>7. QED
  BY <1>1, <1>2, <1>3, <1>4, <1>5, <1>6, BehaviourOfEach, VectorTypes, MainTypesHold, KeysHold, PTL
  DEF FailuresLeaveNothing
=============================================================================
