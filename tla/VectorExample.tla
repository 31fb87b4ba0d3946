--------------------------- MODULE VectorExample ----------------------------
(***************************************************************************)
(* hw-2: the library Logger (no threads) and example/vector_example.cpp.   *)
(* The options choose the global logger and its level one after the other; *)
(* then the user creates a vector and works on it until an unknown command.*)
(* std::cin stays as it is once a read has failed: what is read after that *)
(* keeps its value, which may never have been set.                         *)
(***************************************************************************)
EXTENDS Integers, Sequences

CONSTANTS
  MaxOptions,  (* bound on the options of a command line *)
  Numbers,     (* the numbers a user may type, and that memory may hold *)
  MaxSize      (* the largest vector there is memory for *)

\* What the constants have to be; the module that instantiates this one asserts it.
VectorAssumption ==
  MaxOptions \in Nat /\ Numbers \subseteq Int /\ 0 \in Numbers /\ MaxSize \in Nat

\* enum class t_level
ERROR == 0
WARNING == 1
INFO == 2
DEBUG == 3

LevelOf == [v |-> DEBUG, q |-> ERROR, w |-> WARNING]
LevelOptions == DOMAIN LevelOf
LoggerOptions == {"log-to-file", "stderr"}
Options == LevelOptions \cup LoggerOptions

VARIABLES
  argv,     (* the options *)
  optind,   (* the next of them *)
  logger,   (* the global logger: where it writes, and level_ *)
  vec, good, cmd, index,  (* cmd and index: the values they may have *)
  pc,
  line      (* the last line logged: where and at which level *)

vars == <<argv, optind, logger, vec, good, cmd, index, pc, line>>

Init ==
  /\ argv \in UNION {[1 .. n -> Options] : n \in 0 .. MaxOptions}
  /\ optind = 1
  /\ logger = [to |-> "stdout", level |-> INFO]
  /\ vec = <<>> /\ good = TRUE /\ cmd = Numbers /\ index = Numbers
  /\ pc = "options" /\ line = <<"none", ERROR>>

\* BaseLogger::debug .. error
Log(lev) == line' = IF logger.level >= lev THEN <<logger.to, lev>> ELSE line

\* std::cin >> x, for an x that may have the values `old': the values it may
\* have afterwards, and whether std::cin is good.  Text that is no number gives
\* 0; the end of the input, or an earlier failure, leaves x.
Reads(old) ==
  IF good THEN {<<{n}, TRUE>> : n \in Numbers} \cup {<<{0}, FALSE>>, <<old, FALSE>>}
  ELSE {<<old, FALSE>>}

-----------------------------------------------------------------------------
\* Mutated form: the option is taken to have an argument.
SetLevelTo ==
  /\ pc = "options" /\ optind <= Len(argv) /\ argv[optind] \in LevelOptions
  /\ logger' = [logger EXCEPT !.level = LevelOf[argv[optind]]]
  /\ optind' = optind + 2
  /\ UNCHANGED <<argv, vec, good, cmd, index, pc, line>>

SetLevel ==
  /\ pc = "options" /\ optind <= Len(argv) /\ argv[optind] \in LevelOptions
  /\ logger' = [logger EXCEPT !.level = LevelOf[argv[optind]]]
  /\ optind' = optind + 1
  /\ UNCHANGED <<argv, vec, good, cmd, index, pc, line>>

\* Mutated form: the new logger takes the level of the old one.
KeepLevel ==
  /\ pc = "options" /\ optind <= Len(argv) /\ argv[optind] \in LoggerOptions
  /\ logger' = [logger EXCEPT !.to = argv[optind]]
  /\ optind' = optind + 1
  /\ UNCHANGED <<argv, vec, good, cmd, index, pc, line>>

\* create_file_logger and create_stderr_logger make a logger of level INFO.
SetGlobalLogger ==
  /\ pc = "options" /\ optind <= Len(argv) /\ argv[optind] \in LoggerOptions
  /\ logger' = [to |-> argv[optind], level |-> INFO]
  /\ optind' = optind + 1
  /\ UNCHANGED <<argv, vec, good, cmd, index, pc, line>>

Start ==
  /\ pc = "options" /\ optind > Len(argv) /\ pc' = "size" /\ Log(INFO)
  /\ UNCHANGED <<argv, optind, logger, vec, good, cmd, index>>

\* A negative number is a huge size_t: length_error or bad_alloc ends main.
CreateVector ==
  /\ pc = "size"
  /\ \E r \in Reads(Numbers) : \E n \in r[1] :
       /\ good' = r[2]
       /\ \/ n \in 0 .. MaxSize /\ vec' = [i \in 1 .. n |-> 0] /\ pc' = "cmd" /\ Log(DEBUG)
          \/ n \notin 0 .. MaxSize /\ pc' = "terminated" /\ UNCHANGED <<vec, line>>
  /\ UNCHANGED <<argv, optind, logger, cmd, index>>

ReadCommand ==
  /\ pc = "cmd"
  /\ \E r \in Reads(cmd) : \E n \in r[1] :
       /\ cmd' = {n} /\ good' = r[2]
       /\ pc' = IF n \in {1, 2} THEN "index" ELSE IF n = 3 THEN "print" ELSE "leave"
  /\ UNCHANGED <<argv, optind, logger, vec, index, line>>

ShowVector ==
  /\ pc = "print" /\ pc' = "cmd" /\ Log(DEBUG)
  /\ UNCHANGED <<argv, optind, logger, vec, good, cmd, index>>

ReadIndex ==
  /\ pc = "index"
  /\ \E r \in Reads(Numbers) : \E n \in r[1] : index' = {n} /\ good' = r[2]
  /\ pc' = "access"
  /\ UNCHANGED <<argv, optind, logger, vec, cmd, line>>

\* vec.at(index) counts from 0.
OutOfRange == \A i \in index : i \notin 0 .. Len(vec) - 1

AccessFails == pc = "access" /\ OutOfRange

\* Mutated form: at the level of a warning.
Warn ==
  /\ AccessFails /\ Log(WARNING) /\ pc' = "cmd" /\ index' = Numbers
  /\ UNCHANGED <<argv, optind, logger, vec, good, cmd>>

IndexError ==
  /\ AccessFails /\ Log(ERROR) /\ pc' = "cmd" /\ index' = Numbers
  /\ UNCHANGED <<argv, optind, logger, vec, good, cmd>>

\* Mutated form: a value that could not be read is an element of 0 as well.
ChangeAnyway ==
  /\ pc = "access" /\ cmd = {1} /\ \E i \in index :
       /\ i \in 0 .. Len(vec) - 1
       /\ \E r \in IF good THEN Reads({vec[i + 1]}) ELSE {<<{0}, FALSE>>} : \E n \in r[1] :
            vec' = [vec EXCEPT ![i + 1] = n] /\ good' = r[2]
  /\ Log(INFO) /\ pc' = "cmd" /\ index' = Numbers
  /\ UNCHANGED <<argv, optind, logger, cmd>>

Change ==
  /\ pc = "access" /\ cmd = {1} /\ \E i \in index :
       /\ i \in 0 .. Len(vec) - 1
       /\ \E r \in Reads({vec[i + 1]}) : \E n \in r[1] :
            vec' = [vec EXCEPT ![i + 1] = n] /\ good' = r[2]
  /\ Log(INFO) /\ pc' = "cmd" /\ index' = Numbers
  /\ UNCHANGED <<argv, optind, logger, cmd>>

Get ==
  /\ pc = "access" /\ cmd = {2} /\ ~OutOfRange
  /\ Log(DEBUG) /\ pc' = "cmd" /\ index' = Numbers
  /\ UNCHANGED <<argv, optind, logger, vec, good, cmd>>

\* The unknown command, and the end of main: with a level that lets INFO pass
\* the second line is the last one.
Leave ==
  /\ pc = "leave" /\ pc' = "ended"
  /\ line' = IF logger.level >= INFO THEN <<logger.to, INFO>>
             ELSE IF logger.level >= WARNING THEN <<logger.to, WARNING>> ELSE line
  /\ UNCHANGED <<argv, optind, logger, vec, good, cmd, index>>

Next ==
  \/ SetLevel \/ SetGlobalLogger \/ Start \/ CreateVector \/ ReadCommand \/ ShowVector
  \/ ReadIndex \/ IndexError \/ Change \/ Get \/ Leave

Spec == Init /\ [][Next]_vars

-----------------------------------------------------------------------------
\* Types; the options are read to their end and no further.
TypeOK ==
  /\ optind \in 1 .. Len(argv) + 1
  /\ logger \in [to : {"stdout"} \cup LoggerOptions, level : ERROR .. DEBUG]
  /\ Len(vec) <= MaxSize /\ \A i \in DOMAIN vec : vec[i] \in Numbers
  /\ good \in BOOLEAN /\ cmd \in SUBSET Numbers /\ index \in SUBSET Numbers
  /\ pc \in {"options", "size", "cmd", "index", "print", "access", "leave", "ended", "terminated"}

\* The options by their positions: the last logger option decides where to, the
\* last level option behind it the level.
LastOf(S) ==
  LET P == {i \in DOMAIN argv : argv[i] \in S}
  IN IF P = {} THEN 0 ELSE CHOOSE i \in P : \A j \in P : j <= i
OptionsTakeEffect ==
  pc # "options" =>
    LET to == LastOf(LoggerOptions)
        lev == LastOf(LevelOptions)
    IN /\ logger.to = IF to = 0 THEN "stdout" ELSE argv[to]
       /\ logger.level = IF lev > to THEN LevelOf[argv[lev]] ELSE INFO

\* In every step of the program: an access outside of the vector is logged at
\* every level, and changes nothing.
IndexErrorsAreLogged ==
  pc = "access" /\ OutOfRange => line' = <<logger.to, ERROR>> /\ vec' = vec

\* In every step: input that fails, or has failed before, changes at most the one
\* element that the user was asked about, which becomes 0 when it fails there for
\* want of a number; and nothing from then on, although the loop may go on for ever
\* with the last command and an index that was never set.
FailedInputStoresZero ==
  pc # "size" /\ ~good' =>
    \/ vec' = vec
    \/ /\ good /\ pc = "access" /\ cmd = {1}
       /\ \E i \in index \cap (0 .. Len(vec) - 1) : vec' = [vec EXCEPT ![i + 1] = 0]
=============================================================================
