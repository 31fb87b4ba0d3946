------------------------------ MODULE ShmemMap ------------------------------
(***************************************************************************)
(* hw-5: shmem::Map, a std::map in memory that forked processes share, its  *)
(* Allocator and SemLock.                                                   *)
(*                                                                         *)
(* The allocator moves one pointer, `start', through the mapped region; a   *)
(* block is freed only when it is the last one.  The semaphore guards the   *)
(* std::map, but the copies of a key and a value that are shmem::strings    *)
(* are built before it is taken and destroyed after it is released, and    *)
(* they use the same allocator.  Each read of `start' and each write of it  *)
(* is a step of its own.  A process may be killed at any step.              *)
(***************************************************************************)
EXTENDS Integers, Sequences

CONSTANTS
  Procs,      (* the processes *)
  Keys, Values,
  BigKeys,    (* keys whose K owns an allocated buffer: long strings *)
  BigValues,  (* values whose T owns an allocated buffer *)
  NodeSize,   (* units of memory of a node of the std::map *)
  BufSize,    (* units of memory of the buffer of a string *)
  Space,      (* units of memory after the Map constructor's own *)
  MaxCalls    (* bound: calls of a process *)

ASSUME SizesAssumption ==
  NodeSize \in Nat \ {0} /\ BufSize \in Nat \ {0} /\ Space \in Nat /\ MaxCalls \in Nat
ASSUME BigAssumption == BigKeys \subseteq Keys /\ BigValues \subseteq Values

VARIABLES
  start,    (* AllocState::start, counted from the end of the constructor's *)
  nodes,    (* *mapObject_: [some of Keys -> its node] *)
  sem,      (* the value of *sem_ *)
  pc,       (* [Procs -> where the process is in its call] *)
  op,       (* [Procs -> the operation and its arguments] *)
  local,    (* [Procs -> the blocks of the local key, value and new node] *)
  seen,     (* [Procs -> `start' as allocate or deallocate read it] *)
  freeing,  (* [Procs -> blocks of objects being destroyed, in order] *)
  result,   (* [Procs -> what the call will return or throw, and what at's reference
               showed when the caller read it] *)
  dead,     (* processes that were killed *)
  calls     (* [Procs -> calls made] *)

vars == <<start, nodes, sem, pc, op, local, seen, freeing, result, dead, calls>>

Unread == -1
NoBlock == [at |-> 0, size |-> 0]
Block == {NoBlock} \union [at: 0..Space, size: {NodeSize, BufSize}]

Pending == [is |-> "pending"]
Failed == [is |-> "bad_alloc"]
Reference == [is |-> "reference"]  \* to a value of the map
Dangling == [is |-> "dangling"]    \* to a value that was erased
Result == {Pending, Failed, Reference, Dangling} \union [is: {"done", "out_of_range"}]
            \union [is: {"value"}, value: Values] \union [is: {"erased"}, found: BOOLEAN]

Ops == [kind: {"insert"}, key: Keys, value: Values]
         \union [kind: {"at", "erase"}, key: Keys]
NoOp == [kind |-> "none"]

Node == [block: Block, value: Values, keyBuf: Block, valueBuf: Block]

EmptyLocal == [key |-> NoBlock, value |-> NoBlock, node |-> NoBlock]

\* The steps between sem_wait and sem_post.
Critical == {"search", "node", "link", "free", "unlock"}

Runs(p, place) == p \notin dead /\ pc[p] = place

Goto(p, place) == pc' = [pc EXCEPT ![p] = place]

\* What destroying an object has to free.
Owned(b) == IF b = NoBlock THEN <<>> ELSE <<b>>

\* The local value is destroyed before the local key.
Locals(p) == Owned(local[p].value) \o Owned(local[p].key)

-----------------------------------------------------------------------------
(* Allocator::allocate and deallocate *)

\* What the process builds next, and the memory it takes.
Demand(p) ==
  CASE pc[p] = "key" /\ op[p].key \in BigKeys -> BufSize
    [] pc[p] = "value" /\ op[p].value \in BigValues -> BufSize
    [] pc[p] = "node" -> NodeSize
    [] OTHER -> 0

AfterBuilding(p) ==
  CASE pc[p] = "key" -> IF op[p].kind = "insert" THEN "value" ELSE "lock"
    [] pc[p] = "value" -> "lock"
    [] pc[p] = "node" -> "link"

\* A number, or a string that fits into the object.
BuildInPlace(p) ==
  /\ Runs(p, "key") \/ Runs(p, "value")
  /\ Demand(p) = 0
  /\ Goto(p, AfterBuilding(p))
  /\ UNCHANGED <<start, nodes, sem, op, local, seen, freeing, result, dead, calls>>

Building(p) == p \notin dead /\ pc[p] \in {"key", "value", "node"} /\ Demand(p) > 0

\* allocate reads `start' and finds that the block fits.
AllocateRead(p) ==
  /\ Building(p) /\ seen[p] = Unread
  /\ start + Demand(p) <= Space
  /\ seen' = [seen EXCEPT ![p] = start]
  /\ UNCHANGED <<start, nodes, sem, pc, op, local, freeing, result, dead, calls>>

\* `start' moves on; the compiler may read it again for that, or not.
AllocateWrite(p) ==
  /\ Building(p) /\ seen[p] # Unread
  /\ \E base \in {start, seen[p]} : start' = base + Demand(p)
  /\ local' = [local EXCEPT ![p][pc[p]] = [at |-> seen[p], size |-> Demand(p)]]
  /\ seen' = [seen EXCEPT ![p] = Unread]
  /\ Goto(p, AfterBuilding(p))
  /\ UNCHANGED <<nodes, sem, op, freeing, result, dead, calls>>

\* Mutated form: an exception under the lock leaves the semaphore taken.
BadAllocKeepsLock(p) ==
  /\ Building(p) /\ seen[p] = Unread
  /\ start + Demand(p) > Space
  /\ result' = [result EXCEPT ![p] = Failed]
  /\ Goto(p, "drop")
  /\ freeing' = [freeing EXCEPT ![p] = Locals(p)]
  /\ local' = [local EXCEPT ![p] = EmptyLocal]
  /\ UNCHANGED <<start, nodes, sem, op, seen, dead, calls>>

\* bad_alloc: under the lock its destructor posts the semaphore, and the
\* local copies made so far are destroyed.
BadAlloc(p) ==
  /\ Building(p) /\ seen[p] = Unread
  /\ start + Demand(p) > Space
  /\ result' = [result EXCEPT ![p] = Failed]
  /\ IF pc[p] = "node"
     THEN Goto(p, "unlock") /\ UNCHANGED <<freeing, local>>
     ELSE /\ Goto(p, "drop")
          /\ freeing' = [freeing EXCEPT ![p] = Locals(p)]
          /\ local' = [local EXCEPT ![p] = EmptyLocal]
  /\ UNCHANGED <<start, nodes, sem, op, seen, dead, calls>>

Freeing(p) == p \notin dead /\ pc[p] \in {"free", "drop"} /\ freeing[p] # <<>>

\* deallocate of a block that is not the last one: it is lost.
DeallocateLost(p) ==
  LET b == Head(freeing[p])
  IN /\ Freeing(p) /\ seen[p] = Unread
     /\ b.at + b.size # start
     /\ freeing' = [freeing EXCEPT ![p] = Tail(@)]
     /\ UNCHANGED <<start, nodes, sem, pc, op, local, seen, result, dead, calls>>

\* Mutated form: any block is taken for the last one.
DeallocateReadAny(p) ==
  /\ Freeing(p) /\ seen[p] = Unread
  /\ seen' = [seen EXCEPT ![p] = Head(freeing[p]).at]
  /\ UNCHANGED <<start, nodes, sem, pc, op, local, freeing, result, dead, calls>>

\* deallocate of the last block reads `start' ...
DeallocateRead(p) ==
  LET b == Head(freeing[p])
  IN /\ Freeing(p) /\ seen[p] = Unread
     /\ b.at + b.size = start
     /\ seen' = [seen EXCEPT ![p] = b.at]
     /\ UNCHANGED <<start, nodes, sem, pc, op, local, freeing, result, dead, calls>>

\* ... and moves it back.
DeallocateWrite(p) ==
  /\ Freeing(p) /\ seen[p] # Unread
  /\ start' = seen[p]
  /\ seen' = [seen EXCEPT ![p] = Unread]
  /\ freeing' = [freeing EXCEPT ![p] = Tail(@)]
  /\ UNCHANGED <<nodes, sem, pc, op, local, result, dead, calls>>

-----------------------------------------------------------------------------
(* SemLock, and what a call does under it *)

Call(p, o) ==
  /\ Runs(p, "idle")
  /\ calls[p] < MaxCalls
  /\ calls' = [calls EXCEPT ![p] = @ + 1]
  /\ op' = [op EXCEPT ![p] = o]
  /\ result' = [result EXCEPT ![p] = Pending]
  /\ Goto(p, "key")
  /\ UNCHANGED <<start, nodes, sem, local, seen, freeing, dead>>

\* Mutated form: sem_trywait, its result ignored.
LockWithoutWait(p) ==
  /\ Runs(p, "lock")
  /\ sem' = IF sem > 0 THEN sem - 1 ELSE sem
  /\ Goto(p, "search")
  /\ UNCHANGED <<start, nodes, op, local, seen, freeing, result, dead, calls>>

Lock(p) ==
  /\ Runs(p, "lock")
  /\ sem > 0
  /\ sem' = sem - 1
  /\ Goto(p, "search")
  /\ UNCHANGED <<start, nodes, op, local, seen, freeing, result, dead, calls>>

Found(p) == op[p].key \in DOMAIN nodes

FoundNode(p) == nodes[op[p].key]

\* Mutated form: insert in place of insert_or_assign.
KeepOld(p) ==
  /\ Runs(p, "search") /\ op[p].kind = "insert" /\ Found(p)
  /\ result' = [result EXCEPT ![p] = [is |-> "done"]]
  /\ Goto(p, "unlock")
  /\ UNCHANGED <<start, nodes, sem, op, local, seen, freeing, dead, calls>>

\* The node with the value of the local; a string with a buffer moves it.
Moved(p) == op[p].value \in BigValues

Assigned(p) ==
  [FoundNode(p) EXCEPT !.value = op[p].value,
                       !.valueBuf = IF Moved(p) THEN local[p].value ELSE @]

\* Mutated form: the local string keeps the buffer it gave to the node.
AssignKeepsLocal(p) ==
  /\ Runs(p, "search") /\ op[p].kind = "insert" /\ Found(p)
  /\ nodes' = [nodes EXCEPT ![op[p].key] = Assigned(p)]
  /\ freeing' = [freeing EXCEPT ![p] = IF Moved(p) THEN Owned(FoundNode(p).valueBuf) ELSE <<>>]
  /\ result' = [result EXCEPT ![p] = [is |-> "done"]]
  /\ Goto(p, "free")
  /\ UNCHANGED <<start, sem, op, local, seen, dead, calls>>

\* insert_or_assign of a key that is there.  A string that is moved in leaves nothing
\* in the local, and the buffer it replaces is freed under the lock: the allocators have
\* a state, so the strings do not just swap.  One without a buffer is copied.
Assign(p) ==
  /\ Runs(p, "search") /\ op[p].kind = "insert" /\ Found(p)
  /\ nodes' = [nodes EXCEPT ![op[p].key] = Assigned(p)]
  /\ local' = [local EXCEPT ![p].value = IF Moved(p) THEN NoBlock ELSE @]
  /\ freeing' = [freeing EXCEPT ![p] = IF Moved(p) THEN Owned(FoundNode(p).valueBuf) ELSE <<>>]
  /\ result' = [result EXCEPT ![p] = [is |-> "done"]]
  /\ Goto(p, "free")
  /\ UNCHANGED <<start, sem, op, seen, dead, calls>>

InsertNew(p) ==
  /\ Runs(p, "search") /\ op[p].kind = "insert" /\ ~Found(p)
  /\ Goto(p, "node")
  /\ UNCHANGED <<start, nodes, sem, op, local, seen, freeing, result, dead, calls>>

\* The new node takes the buffers of the local key and value.
Link(p) ==
  /\ Runs(p, "link")
  /\ LET new == [block |-> local[p].node, value |-> op[p].value,
                 keyBuf |-> local[p].key, valueBuf |-> local[p].value]
     IN nodes' = [k \in DOMAIN nodes \union {op[p].key} |->
                    IF k = op[p].key THEN new ELSE nodes[k]]
  /\ local' = [local EXCEPT ![p] = EmptyLocal]
  /\ result' = [result EXCEPT ![p] = [is |-> "done"]]
  /\ Goto(p, "unlock")
  /\ UNCHANGED <<start, sem, op, seen, freeing, dead, calls>>

\* at returns a reference to the value in the map.
At(p) ==
  /\ Runs(p, "search") /\ op[p].kind = "at"
  /\ result' = [result EXCEPT ![p] = IF Found(p) THEN Reference ELSE [is |-> "out_of_range"]]
  /\ Goto(p, "unlock")
  /\ UNCHANGED <<start, nodes, sem, op, local, seen, freeing, dead, calls>>

\* erase unlinks the node, then its value, its key and the node are freed.  The
\* references that at gave to the value dangle.
Erase(p) ==
  /\ Runs(p, "search") /\ op[p].kind = "erase"
  /\ result' = [q \in Procs |->
       IF q = p THEN [is |-> "erased", found |-> Found(p)]
       ELSE IF result[q] = Reference /\ op[q].key = op[p].key THEN Dangling ELSE result[q]]
  /\ nodes' = [k \in DOMAIN nodes \ {op[p].key} |-> nodes[k]]
  /\ freeing' = [freeing EXCEPT ![p] =
       IF Found(p) THEN Owned(FoundNode(p).valueBuf) \o Owned(FoundNode(p).keyBuf)
                          \o <<FoundNode(p).block>>
       ELSE <<>>]
  /\ Goto(p, "free")
  /\ UNCHANGED <<start, sem, op, local, seen, dead, calls>>

NodeFreed(p) ==
  /\ Runs(p, "free") /\ freeing[p] = <<>>
  /\ Goto(p, "unlock")
  /\ UNCHANGED <<start, nodes, sem, op, local, seen, freeing, result, dead, calls>>

\* ~SemLock; then the local copies are destroyed.
Unlock(p) ==
  /\ Runs(p, "unlock")
  /\ sem' = sem + 1
  /\ freeing' = [freeing EXCEPT ![p] = Locals(p)]
  /\ local' = [local EXCEPT ![p] = EmptyLocal]
  /\ Goto(p, "drop")
  /\ UNCHANGED <<start, nodes, op, seen, result, dead, calls>>

\* The caller reads the reference that at returned, when the semaphore is free again:
\* what is in the map now, or anything if the value was erased.
Read(p) ==
  /\ Runs(p, "drop") /\ freeing[p] = <<>>
  /\ \E v \in Values :
       /\ \/ result[p] = Reference /\ v = FoundNode(p).value
          \/ result[p] = Dangling
       /\ result' = [result EXCEPT ![p] = [is |-> "value", value |-> v]]
  /\ UNCHANGED <<start, nodes, sem, pc, op, local, seen, freeing, dead, calls>>

Return(p) ==
  /\ Runs(p, "drop") /\ freeing[p] = <<>> /\ result[p] \notin {Reference, Dangling}
  /\ Goto(p, "idle")
  /\ UNCHANGED <<start, nodes, sem, op, local, seen, freeing, result, dead, calls>>

\* The process is killed: what it holds stays as it is.
Die(p) ==
  /\ p \notin dead
  /\ dead' = dead \union {p}
  /\ UNCHANGED <<start, nodes, sem, pc, op, local, seen, freeing, result, calls>>

-----------------------------------------------------------------------------
Init ==
  /\ start = 0
  /\ nodes = [k \in {} |-> Node]
  /\ sem = 1
  /\ pc = [p \in Procs |-> "idle"]
  /\ op = [p \in Procs |-> NoOp]
  /\ local = [p \in Procs |-> EmptyLocal]
  /\ seen = [p \in Procs |-> Unread]
  /\ freeing = [p \in Procs |-> <<>>]
  /\ result = [p \in Procs |-> Pending]
  /\ dead = {}
  /\ calls = [p \in Procs |-> 0]

Allocate(p) == BuildInPlace(p) \/ AllocateRead(p) \/ AllocateWrite(p) \/ BadAlloc(p)

Deallocate(p) == DeallocateLost(p) \/ DeallocateRead(p) \/ DeallocateWrite(p)

UnderLock(p) == Assign(p) \/ InsertNew(p) \/ Link(p) \/ At(p) \/ Erase(p) \/ NodeFreed(p)

Step(p) == Allocate(p) \/ Deallocate(p) \/ Lock(p) \/ UnderLock(p) \/ Unlock(p)
           \/ Read(p) \/ Return(p)

Next == \E p \in Procs : (\E o \in Ops : Call(p, o)) \/ Step(p) \/ Die(p)

Spec == Init /\ [][Next]_vars

\* A process that is not killed is scheduled; none has to call.
FairSpec == Spec /\ \A p \in Procs : WF_vars(Step(p))

-----------------------------------------------------------------------------
(* Properties *)

\* Type invariant: the allocator's pointer, the nodes and the calls.
TypeOK ==
  /\ start \in Nat
  /\ DOMAIN nodes \subseteq Keys /\ nodes \in [DOMAIN nodes -> Node]
  /\ sem \in {0, 1}
  /\ pc \in [Procs -> {"idle", "key", "value", "lock", "drop"} \union Critical]
  /\ op \in [Procs -> Ops \union {NoOp}]
  /\ local \in [Procs -> [key: Block, value: Block, node: Block]]
  /\ seen \in [Procs -> 0..Space \union {Unread}]
  /\ freeing \in [Procs -> Seq(Block)]
  /\ result \in [Procs -> Result]
  /\ dead \subseteq Procs
  /\ calls \in [Procs -> 0..MaxCalls]

\* At most one process is between sem_wait and sem_post, killed ones included,
\* and the semaphore says so.
OneInside ==
  /\ \A p, q \in Procs : pc[p] \in Critical /\ pc[q] \in Critical => p = q
  /\ sem = 0 <=> \E p \in Procs : pc[p] \in Critical

\* Everything that owns a block, named by its owner.
OldBlocks(p) == {<<"old", <<p, i>>, freeing[p][i]>> : i \in DOMAIN freeing[p]}

Owners ==
  {<<"node", k, nodes[k].block>> : k \in DOMAIN nodes}
    \union {<<"keyBuf", k, nodes[k].keyBuf>> : k \in DOMAIN nodes}
    \union {<<"valueBuf", k, nodes[k].valueBuf>> : k \in DOMAIN nodes}
    \union {<<"key", p, local[p].key>> : p \in Procs}
    \union {<<"value", p, local[p].value>> : p \in Procs}
    \union {<<"new", p, local[p].node>> : p \in Procs}
    \union UNION {OldBlocks(p) : p \in Procs}

Overlap(b1, b2) == b1.at < b2.at + b2.size /\ b2.at < b1.at + b1.size

\* No two objects of the map and of the calls in progress share memory, and
\* all of it lies in the mapped region below `start', so that no later
\* allocation hands it out again.
BlocksAreDisjoint ==
  /\ \A x, y \in Owners : x # y => ~Overlap(x[3], y[3])
  /\ \A x \in Owners : x[3].at + x[3].size <= start
  /\ start <= Space

\* A call that a process makes returns or throws, also when memory runs out
\* under the lock, unless the process is killed, or one is killed between
\* sem_wait and sem_post: nobody posts the semaphore for it.
CallsReturn ==
  \A p \in Procs :
    pc[p] # "idle" ~> \/ pc[p] = "idle"
                      \/ p \in dead
                      \/ \E q \in dead : pc[q] \in Critical

Contents == [k \in DOMAIN nodes |-> nodes[k].value]

CallOf ==
  [p \in Procs |-> IF pc[p] = "idle" THEN [kind |-> "none"]
                   ELSE [kind |-> "call", op |-> op[p], result |-> result[p]]]

Atomic == INSTANCE SharedMap WITH contents <- Contents, call <- CallOf

\* To its callers each call is one atomic step on a std::map, or a bad_alloc that
\* changes nothing; of an at the step takes a reference, which its caller reads in a
\* later one and which shows the value in the map until an erase.
ImplementsSharedMap == Atomic!Spec
=============================================================================
