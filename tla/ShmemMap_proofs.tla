--------------------------- MODULE ShmemMap_proofs ---------------------------
(***************************************************************************)
(* Proofs about ShmemMap, for any number of processes, keys and values and  *)
(* any size of the memory.                                                  *)
(***************************************************************************)
EXTENDS ShmemMap, TLAPS

\* A call in progress has arguments, an insert has a value, and its result is
\* there from the moment the map was read or changed.  A reference that does not
\* dangle is to a value that is in the map.
CallInv ==
  \A p \in Procs :
    /\ pc[p] # "idle" => op[p] \in Ops
    /\ pc[p] \in {"value", "node", "link"} => op[p].kind = "insert"
    /\ pc[p] \in {"key", "value", "lock", "search", "node", "link"}
         => result[p] = Pending
    /\ pc[p] \in {"free", "unlock", "drop"} => result[p] # Pending
    /\ result[p] = Reference => pc[p] \in {"unlock", "drop"} /\ op[p].key \in DOMAIN nodes

IInv == TypeOK /\ CallInv /\ OneInside

\* Maps of numbers: no key and no value owns a buffer.
Numbers == BigKeys = {} /\ BigValues = {}

EndOf(b) == b.at + b.size

Apart(b1, b2) == EndOf(b1) <= b2.at \/ EndOf(b2) <= b1.at

\* The block a process has in its hands while it adds or erases a node.
InHand(p, b) ==
  \/ pc[p] = "link" /\ b = local[p].node
  \/ pc[p] = "free" /\ freeing[p] # <<>> /\ b = Head(freeing[p])

\* What a process may hold while the map has numbers only: one block, apart
\* from the nodes and below `start', while it is under the lock.
HandsInv(p) ==
  /\ local[p].key = NoBlock /\ local[p].value = NoBlock
  /\ pc[p] # "link" => local[p].node = NoBlock
  /\ freeing[p] = <<>> \/ (pc[p] = "free" /\ freeing[p] = <<Head(freeing[p])>>)
  /\ seen[p] # Unread => \/ /\ pc[p] = "node" /\ seen[p] = start
                            /\ start + NodeSize <= Space
                         \/ /\ pc[p] = "free" /\ freeing[p] # <<>>
                            /\ seen[p] = Head(freeing[p]).at
                            /\ EndOf(Head(freeing[p])) = start
  /\ \A b \in Block : InHand(p, b) =>
       /\ b.size = NodeSize /\ EndOf(b) <= start
       /\ \A k \in DOMAIN nodes : Apart(b, nodes[k].block)

\* The nodes lie apart and below `start'.
NodesInv ==
  /\ start <= Space
  /\ \A k \in DOMAIN nodes :
       /\ nodes[k].keyBuf = NoBlock /\ nodes[k].valueBuf = NoBlock
       /\ nodes[k].block.size = NodeSize /\ EndOf(nodes[k].block) <= start
  /\ \A k, l \in DOMAIN nodes : k # l => Apart(nodes[k].block, nodes[l].block)

NumbersInv == NodesInv /\ \A p \in Procs : HandsInv(p)

-----------------------------------------------------------------------------
\* The invariant holds at the start.
LEMMA InitInvariant == Init => IInv
<1> SUFFICES ASSUME Init PROVE IInv
  OBVIOUS
<1> USE DEF Init
<1>1. DOMAIN nodes = {} /\ EmptyLocal \in [key: Block, value: Block, node: Block]
  BY DEF EmptyLocal, Block
<1>2. TypeOK
  BY <1>1, SizesAssumption DEF TypeOK, Result, Unread
<1>3. CallInv /\ OneInside
  BY DEF CallInv, OneInside, Critical, Pending, Reference
<1>4. QED
  BY <1>2, <1>3 DEF IInv

\* Each of the blocks named below is one an object may own.
LEMMA BlockTypes ==
  /\ NoBlock \in Block /\ EmptyLocal \in [key: Block, value: Block, node: Block]
  /\ \A b \in Block : Owned(b) \in Seq(Block)
  /\ \A b \in Block : b.at \in 0..Space /\ b.size \in Nat
  /\ \A at \in 0..Space, size \in {NodeSize, BufSize} : [at |-> at, size |-> size] \in Block
<1>1. NoBlock \in Block /\ EmptyLocal \in [key: Block, value: Block, node: Block]
  BY DEF EmptyLocal, Block
<1>2. \A b \in Block : Owned(b) \in Seq(Block)
  BY DEF Owned
<1>3. \A b \in Block : b.at \in 0..Space /\ b.size \in Nat
  BY SizesAssumption DEF Block, NoBlock
<1>4. QED
  BY <1>1, <1>2, <1>3 DEF Block

\* The copies of a call are blocks.
LEMMA LocalsType ==
  ASSUME TypeOK, NEW p \in Procs
  PROVE  Locals(p) \in Seq(Block)
<1>1. local[p].key \in Block /\ local[p].value \in Block
  BY DEF TypeOK
<1>2. QED
  BY <1>1, BlockTypes DEF Locals

\* No step of a process changes the types.
LEMMA TypeStep ==
  ASSUME TypeOK, CallInv, OneInside, NEW p \in Procs,
         (\E o \in Ops : Call(p, o)) \/ Step(p) \/ Die(p)
  PROVE  TypeOK'
<1> USE DEF TypeOK, Runs, Goto
<1>1. ASSUME NEW o \in Ops, Call(p, o) PROVE TypeOK'
  BY <1>1, SizesAssumption DEF Call, Result
<1>2. CASE BuildInPlace(p)
  BY <1>2 DEF BuildInPlace, AfterBuilding
<1>3. CASE AllocateRead(p)
  BY <1>3, SizesAssumption DEF AllocateRead, Building, Demand
<1>4. CASE AllocateWrite(p)
  <2> DEFINE new == [at |-> seen[p], size |-> Demand(p)]
  <2>1. Demand(p) \in {NodeSize, BufSize} /\ seen[p] \in 0..Space
        /\ pc[p] \in {"key", "value", "node"}
    BY <1>4 DEF AllocateWrite, Building, Demand
  <2>2. new \in Block
    BY <2>1, BlockTypes
  <2>3. start' \in Nat
    BY <1>4, <2>1, SizesAssumption DEF AllocateWrite
  <2>4. local' = [local EXCEPT ![p][pc[p]] = new]
    BY <1>4 DEF AllocateWrite
  <2>5. local'[p] = [local[p] EXCEPT ![pc[p]] = new]
        /\ \A q \in Procs \ {p} : local'[q] = local[q]
    BY <2>4
  <2>6. local'[p] \in [key: Block, value: Block, node: Block]
    <3>1. CASE pc[p] = "key"
      BY <2>2, <2>5, <3>1
    <3>2. CASE pc[p] = "value"
      BY <2>2, <2>5, <3>2
    <3>3. CASE pc[p] = "node"
      BY <2>2, <2>5, <3>3
    <3>4. QED
      BY <2>1, <3>1, <3>2, <3>3
  <2>7. local' \in [Procs -> [key: Block, value: Block, node: Block]]
    BY <2>4, <2>5, <2>6
  <2>8. pc' = [pc EXCEPT ![p] = AfterBuilding(p)] /\ AfterBuilding(p) \in {"value", "lock", "link"}
    BY <1>4, <2>1 DEF AllocateWrite, AfterBuilding
  <2>9. /\ seen' = [seen EXCEPT ![p] = Unread]
        /\ UNCHANGED <<nodes, sem, op, freeing, result, dead, calls>>
    BY <1>4 DEF AllocateWrite
  <2> HIDE DEF new
  <2>10. QED
    BY <2>3, <2>7, <2>8, <2>9 DEF Critical
<1>5. CASE BadAlloc(p)
  <2>1. Locals(p) \in Seq(Block)
    BY LocalsType
  <2>2. QED
    BY <1>5, <2>1, BlockTypes DEF BadAlloc, Result, Critical
<1>6. CASE DeallocateLost(p)
  <2>1. Tail(freeing[p]) \in Seq(Block)
    BY <1>6 DEF DeallocateLost, Freeing
  <2>2. QED
    BY <1>6, <2>1 DEF DeallocateLost
<1>7. CASE DeallocateRead(p)
  <2>1. Head(freeing[p]) \in Block
    BY <1>7 DEF DeallocateRead, Freeing
  <2>2. Head(freeing[p]).at \in 0..Space
    BY <2>1, BlockTypes
  <2>3. QED
    BY <1>7, <2>2 DEF DeallocateRead
<1>8. CASE DeallocateWrite(p)
  <2>1. Tail(freeing[p]) \in Seq(Block)
    BY <1>8 DEF DeallocateWrite, Freeing
  <2>2. seen[p] \in Nat
    BY <1>8, SizesAssumption DEF DeallocateWrite
  <2>3. QED
    BY <1>8, <2>1, <2>2 DEF DeallocateWrite
<1>9. CASE Lock(p)
  BY <1>9 DEF Lock, Critical
<1>10. CASE Assign(p)
  <2> DEFINE old == nodes[op[p].key]
             moved == op[p].value \in BigValues
             new == [old EXCEPT !.value = op[p].value,
                                !.valueBuf = IF moved THEN local[p].value ELSE old.valueBuf]
  <2>1. op[p] \in Ops /\ op[p].kind = "insert" /\ op[p].key \in DOMAIN nodes
    BY <1>10 DEF Assign, CallInv, Found
  <2>2. op[p].value \in Values
    BY <2>1 DEF Ops
  <2>3. local[p] \in [key: Block, value: Block, node: Block] /\ old \in Node
    BY <2>1
  <2>4. new \in Node
    BY <2>2, <2>3 DEF Node
  <2>5. /\ [local[p] EXCEPT !.value = IF moved THEN NoBlock ELSE local[p].value]
             \in [key: Block, value: Block, node: Block]
        /\ Owned(old.valueBuf) \in Seq(Block) /\ <<>> \in Seq(Block)
    <3>1. old.valueBuf \in Block /\ <<>> \in Seq(Block)
      BY <2>3 DEF Node
    <3>2. \A b \in {NoBlock, local[p].value} :
            [local[p] EXCEPT !.value = b] \in [key: Block, value: Block, node: Block]
      BY <2>3, BlockTypes
    <3>3. QED
      BY <3>1, <3>2, BlockTypes
  <2>6. /\ nodes' = [nodes EXCEPT ![op[p].key] = new]
        /\ local' = [local EXCEPT ![p].value = IF moved THEN NoBlock ELSE local[p].value]
        /\ freeing' = [freeing EXCEPT ![p] = IF moved THEN Owned(old.valueBuf) ELSE <<>>]
        /\ result' = [result EXCEPT ![p] = [is |-> "done"]]
        /\ pc' = [pc EXCEPT ![p] = "free"]
        /\ UNCHANGED <<start, sem, op, seen, dead, calls>>
    BY <1>10 DEF Assign, Assigned, Moved, FoundNode
  <2>7. /\ local' \in [Procs -> [key: Block, value: Block, node: Block]]
        /\ freeing' \in [Procs -> Seq(Block)]
    BY <2>5, <2>6
  <2>8. DOMAIN nodes' \subseteq Keys /\ nodes' \in [DOMAIN nodes' -> Node]
    BY <2>1, <2>4, <2>6
  <2>9. QED
    BY <2>6, <2>7, <2>8 DEF Critical, Result
<1>11. CASE InsertNew(p)
  BY <1>11 DEF InsertNew, Critical
<1>12. CASE Link(p)
  <2> DEFINE new == [block |-> local[p].node, value |-> op[p].value,
                     keyBuf |-> local[p].key, valueBuf |-> local[p].value]
  <2>1. op[p] \in Ops /\ op[p].kind = "insert"
    BY <1>12 DEF Link, CallInv
  <2>2. op[p].value \in Values /\ op[p].key \in Keys
    BY <2>1 DEF Ops
  <2>3. local[p] \in [key: Block, value: Block, node: Block]
    OBVIOUS
  <2>4. new \in Node
    BY <2>2, <2>3 DEF Node
  <2>5. /\ nodes' = [k \in DOMAIN nodes \union {op[p].key} |->
                       IF k = op[p].key THEN new ELSE nodes[k]]
        /\ local' = [local EXCEPT ![p] = EmptyLocal]
        /\ result' = [result EXCEPT ![p] = [is |-> "done"]]
        /\ pc' = [pc EXCEPT ![p] = "unlock"]
        /\ UNCHANGED <<start, sem, op, seen, freeing, dead, calls>>
    BY <1>12 DEF Link
  <2>6. DOMAIN nodes' \subseteq Keys /\ nodes' \in [DOMAIN nodes' -> Node]
    BY <2>2, <2>4, <2>5
  <2> HIDE DEF new
  <2>7. QED
    BY <2>5, <2>6, BlockTypes DEF Critical, Result
<1>13. CASE At(p)
  <2>1. result'[p] \in Result
    BY <1>13 DEF At, Result
  <2>2. result' \in [Procs -> Result]
    BY <1>13, <2>1 DEF At
  <2>3. QED
    BY <1>13, <2>2 DEF At, Critical
<1>14. CASE Erase(p)
  <2>1. Found(p) => FoundNode(p) \in Node
    BY DEF Found, FoundNode
  <2>2. Found(p) => Owned(FoundNode(p).valueBuf) \o Owned(FoundNode(p).keyBuf)
                      \o <<FoundNode(p).block>> \in Seq(Block)
    <3>1. SUFFICES ASSUME Found(p)
                   PROVE  Owned(FoundNode(p).valueBuf) \o Owned(FoundNode(p).keyBuf)
                            \o <<FoundNode(p).block>> \in Seq(Block)
      OBVIOUS
    <3>2. FoundNode(p).block \in Block /\ FoundNode(p).keyBuf \in Block
          /\ FoundNode(p).valueBuf \in Block
      BY <2>1, <3>1 DEF Node
    <3>3. /\ Owned(FoundNode(p).valueBuf) \in Seq(Block)
          /\ Owned(FoundNode(p).keyBuf) \in Seq(Block)
          /\ <<FoundNode(p).block>> \in Seq(Block)
      BY <3>2, BlockTypes
    <3>4. QED
      BY <3>3
  <2>3. freeing' \in [Procs -> Seq(Block)]
    BY <1>14, <2>2 DEF Erase
  <2>4. result' \in [Procs -> Result]
    BY <1>14 DEF Erase, Result, Found
  <2>5. DOMAIN nodes' \subseteq Keys /\ nodes' \in [DOMAIN nodes' -> Node]
    BY <1>14 DEF Erase
  <2>6. QED
    BY <1>14, <2>3, <2>4, <2>5 DEF Erase, Critical
<1>15. CASE NodeFreed(p)
  BY <1>15 DEF NodeFreed, Critical
<1>16. CASE Unlock(p)
  <2>1. Locals(p) \in Seq(Block)
    BY LocalsType
  <2>2. sem = 0
    BY <1>16 DEF Unlock, OneInside, Critical
  <2>3. sem' \in {0, 1}
    BY <1>16, <2>2 DEF Unlock
  <2>4. /\ freeing' = [freeing EXCEPT ![p] = Locals(p)]
        /\ local' = [local EXCEPT ![p] = EmptyLocal]
        /\ pc' = [pc EXCEPT ![p] = "drop"]
        /\ UNCHANGED <<start, nodes, op, seen, result, dead, calls>>
    BY <1>16 DEF Unlock
  <2>5. QED
    BY <2>1, <2>3, <2>4, BlockTypes
<1>17. CASE Return(p)
  BY <1>17 DEF Return
<1>18. CASE Die(p)
  BY <1>18 DEF Die
<1>19. CASE Read(p)
  BY <1>19 DEF Read, Result
<1>20. QED
  BY <1>1, <1>2, <1>3, <1>4, <1>5, <1>6, <1>7, <1>8, <1>9, <1>10, <1>11, <1>12,
     <1>13, <1>14, <1>15, <1>16, <1>17, <1>18, <1>19
     DEF Step, Allocate, Deallocate, UnderLock

\* A call keeps its arguments, and its result once it has one.
LEMMA CallStep ==
  ASSUME TypeOK, CallInv, NEW p \in Procs,
         (\E o \in Ops : Call(p, o)) \/ Step(p) \/ Die(p)
  PROVE  CallInv'
<1> USE DEF TypeOK, CallInv, Runs, Goto
<1>0. Pending # Reference /\ Pending # Failed /\ Reference # Failed
  BY DEF Pending, Reference, Failed
<1>1. CASE \E o \in Ops : Call(p, o)
  BY <1>0, <1>1 DEF Call
<1>2. CASE Allocate(p)
  BY <1>0, <1>2 DEF Allocate, BuildInPlace, AllocateRead, AllocateWrite, BadAlloc,
              Building, AfterBuilding, Demand
<1>3. CASE Deallocate(p)
  BY <1>3 DEF Deallocate, DeallocateLost, DeallocateRead, DeallocateWrite
<1>4. CASE Lock(p)
  BY <1>4 DEF Lock
<1>5. CASE Assign(p) \/ Link(p)
  <2>1. [is |-> "done"] # Pending /\ [is |-> "done"] # Reference
    BY DEF Pending, Reference
  <2>2. /\ result' = [result EXCEPT ![p] = [is |-> "done"]] /\ op' = op
        /\ \E place \in {"free", "unlock"} : pc' = [pc EXCEPT ![p] = place]
        /\ pc[p] # "idle" /\ DOMAIN nodes \subseteq DOMAIN nodes'
    BY <1>5 DEF Assign, Link
  <2>3. QED
    BY <2>1, <2>2
<1>6. CASE InsertNew(p)
  BY <1>6 DEF InsertNew
<1>7. CASE At(p)
  <2>1. [is |-> "out_of_range"] # Pending
    BY DEF Pending
  <2>2. PICK r : /\ result' = [result EXCEPT ![p] = r] /\ r # Pending
                 /\ r = Reference => op[p].key \in DOMAIN nodes
    <3>1. result' = [result EXCEPT ![p] =
                       IF op[p].key \in DOMAIN nodes THEN Reference ELSE [is |-> "out_of_range"]]
      BY <1>7 DEF At, Found
    <3>2. [is |-> "out_of_range"] # Reference
      BY DEF Reference
    <3>3. QED
      BY <1>0, <2>1, <3>1, <3>2
  <2>3. pc' = [pc EXCEPT ![p] = "unlock"] /\ op' = op /\ nodes' = nodes /\ pc[p] = "search"
    BY <1>7 DEF At
  <2>4. /\ result'[p] = r /\ pc'[p] = "unlock"
        /\ \A q \in Procs \ {p} : result'[q] = result[q] /\ pc'[q] = pc[q]
    BY <2>2, <2>3
  <2>5. QED
    BY <2>2, <2>3, <2>4
<1>8. CASE Erase(p)
  <2>1. \A f : [is |-> "erased", found |-> f] \notin {Pending, Reference}
    BY DEF Pending, Reference
  <2>2. Dangling # Pending /\ Dangling # Reference
    BY DEF Dangling, Pending, Reference
  <2>3. /\ result'[p] \notin {Pending, Reference}
        /\ \A q \in Procs \ {p} :
             \/ result'[q] = Dangling /\ result[q] = Reference
             \/ result'[q] = result[q] /\ (result[q] = Reference => op[q].key # op[p].key)
    BY <1>8, <2>1 DEF Erase
  <2>4. /\ pc' = [pc EXCEPT ![p] = "free"] /\ op' = op /\ pc[p] = "search"
        /\ DOMAIN nodes' = DOMAIN nodes \ {op[p].key}
    BY <1>8 DEF Erase
  <2>5. ASSUME NEW q \in Procs \ {p}, result'[q] = Dangling, result[q] = Reference
        PROVE  pc'[q] \in {"unlock", "drop"}
    BY <2>4, <2>5
  <2>6. QED
    BY <1>0, <2>2, <2>3, <2>4, <2>5
<1>9. CASE NodeFreed(p) \/ Unlock(p) \/ Return(p)
  BY <1>9 DEF NodeFreed, Unlock, Return
<1>10. CASE Read(p)
  <2>1. \A v : [is |-> "value", value |-> v] \notin {Pending, Reference}
    BY DEF Pending, Reference
  <2>2. /\ result'[p] \notin {Pending, Reference} /\ pc[p] = "drop"
        /\ \A q \in Procs \ {p} : result'[q] = result[q]
        /\ UNCHANGED <<pc, op, nodes>>
    BY <1>10, <2>1 DEF Read
  <2>3. QED
    BY <2>2
<1>11. CASE Die(p)
  BY <1>11 DEF Die
<1>12. QED
  BY <1>1, <1>2, <1>3, <1>4, <1>5, <1>6, <1>7, <1>8, <1>9, <1>10, <1>11 DEF Step, UnderLock

\* Only Lock enters the critical section and only Unlock leaves it.
LEMMA InsideStep ==
  ASSUME TypeOK, OneInside, NEW p \in Procs,
         (\E o \in Ops : Call(p, o)) \/ Step(p) \/ Die(p)
  PROVE  OneInside'
<1> USE DEF TypeOK, Runs, Goto
<1>1. ASSUME sem' = sem,
             \A q \in Procs : pc'[q] \in Critical <=> pc[q] \in Critical
      PROVE  OneInside'
  BY <1>1 DEF OneInside
<1>2. CASE Lock(p)
  <2>1. sem = 1 /\ sem' = 0 /\ pc' = [pc EXCEPT ![p] = "search"]
    BY <1>2 DEF Lock
  <2>2. \A q \in Procs : pc[q] \notin Critical
    BY <2>1 DEF OneInside
  <2>3. \A q \in Procs : pc'[q] \in Critical <=> q = p
    BY <2>1, <2>2 DEF Critical
  <2>4. QED
    BY <2>1, <2>3 DEF OneInside
<1>3. CASE Unlock(p)
  <2>1. pc[p] \in Critical /\ pc' = [pc EXCEPT ![p] = "drop"] /\ sem' = sem + 1
    BY <1>3 DEF Unlock, Critical
  <2>2. sem = 0 /\ sem' = 1
    BY <2>1 DEF OneInside
  <2>3. \A q \in Procs : pc'[q] \notin Critical
    BY <2>1 DEF OneInside, Critical
  <2>4. QED
    BY <2>2, <2>3 DEF OneInside
<1>4. CASE \E o \in Ops : Call(p, o)
  BY <1>1, <1>4 DEF Call, Critical
<1>5. CASE Allocate(p)
  <2>1. sem' = sem
    BY <1>5 DEF Allocate, BuildInPlace, AllocateRead, AllocateWrite, BadAlloc
  <2>2. \A q \in Procs : pc'[q] \in Critical <=> pc[q] \in Critical
    BY <1>5 DEF Allocate, BuildInPlace, AllocateRead, AllocateWrite, BadAlloc,
                Building, AfterBuilding, Critical
  <2>3. QED
    BY <1>1, <2>1, <2>2
<1>6. CASE Deallocate(p)
  BY <1>1, <1>6 DEF Deallocate, DeallocateLost, DeallocateRead, DeallocateWrite
<1>7. CASE UnderLock(p)
  <2>1. sem' = sem
    BY <1>7 DEF UnderLock, Assign, InsertNew, Link, At, Erase, NodeFreed
  <2>2. \E place \in Critical : pc' = [pc EXCEPT ![p] = place]
    BY <1>7 DEF UnderLock, Assign, InsertNew, Link, At, Erase, NodeFreed, Critical
  <2>3. pc[p] \in Critical
    BY <1>7 DEF UnderLock, Assign, InsertNew, Link, At, Erase, NodeFreed, Critical
  <2>4. QED
    BY <1>1, <2>1, <2>2, <2>3
<1>8. CASE Return(p)
  BY <1>1, <1>8 DEF Return, Critical
<1>9. CASE Die(p) \/ Read(p)
  BY <1>1, <1>9 DEF Die, Read
<1>10. QED
  BY <1>2, <1>3, <1>4, <1>5, <1>6, <1>7, <1>8, <1>9 DEF Step

\* Every step keeps the invariant.
THEOREM StepInvariant == IInv /\ [Next]_vars => IInv'
<1> SUFFICES ASSUME IInv, [Next]_vars PROVE IInv'
  OBVIOUS
<1>1. CASE Next
  BY <1>1, TypeStep, CallStep, InsideStep DEF Next, IInv
<1>2. CASE UNCHANGED vars
  <2>1. TypeOK'
    BY <1>2 DEF IInv, vars, TypeOK
  <2>2. CallInv' /\ OneInside'
    BY <1>2 DEF IInv, vars, CallInv, OneInside
  <2>3. QED
    BY <2>1, <2>2 DEF IInv
<1>3. QED
  BY <1>1, <1>2

\* The invariant holds in every state.
THEOREM Invariance == Spec => []IInv
<1>1. Init => IInv
  BY InitInvariant
<1>2. IInv /\ [Next]_vars => IInv'
  BY StepInvariant
<1>3. QED
  BY <1>1, <1>2, PTL DEF Spec

\* The shared structures and the calls keep their types, whatever races the
\* copies of strings run into.
THEOREM TypeCorrect == Spec => []TypeOK
<1>1. IInv => TypeOK
  BY DEF IInv
<1>2. QED
  BY <1>1, Invariance, PTL

\* The semaphore admits one process at a time to the std::map, and stays taken
\* if that process is killed.
THEOREM OneInsideHolds == Spec => []OneInside
<1>1. IInv => OneInside
  BY DEF IInv
<1>2. QED
  BY <1>1, Invariance, PTL

-----------------------------------------------------------------------------
\* Maps of numbers.
LEMMA NumbersInit == Init => NumbersInv
<1> SUFFICES ASSUME Init PROVE NumbersInv
  OBVIOUS
<1> USE DEF Init
<1>1. DOMAIN nodes = {} /\ \A p \in Procs : \A b \in Block : ~InHand(p, b)
  BY DEF InHand
<1>2. QED
  BY <1>1, SizesAssumption DEF NumbersInv, NodesInv, HandsInv, EmptyLocal

\* While a process is under the lock no other one is in the allocator or
\* holds a block.
LEMMA OthersWait ==
  ASSUME OneInside, NumbersInv, NEW p \in Procs, pc[p] \in Critical
  PROVE  \A q \in Procs \ {p} :
           /\ seen[q] = Unread /\ freeing[q] = <<>>
           /\ \A b \in Block : ~InHand(q, b)
<1> SUFFICES ASSUME NEW q \in Procs \ {p}
             PROVE  /\ seen[q] = Unread /\ freeing[q] = <<>>
                    /\ \A b \in Block : ~InHand(q, b)
  OBVIOUS
<1>1. pc[q] \notin {"node", "link", "free"}
  BY DEF OneInside, Critical
<1>2. QED
  BY <1>1 DEF NumbersInv, HandsInv, InHand

\* So whatever it does to the memory leaves the others with empty hands.
LEMMA OthersKept ==
  ASSUME OneInside, NumbersInv, NEW p \in Procs, pc[p] \in Critical,
         \A q \in Procs \ {p} :
           /\ pc'[q] = pc[q] /\ local'[q] = local[q]
           /\ seen'[q] = seen[q] /\ freeing'[q] = freeing[q]
  PROVE  \A q \in Procs \ {p} : HandsInv(q)'
<1> SUFFICES ASSUME NEW q \in Procs \ {p} PROVE HandsInv(q)'
  OBVIOUS
<1>1. seen[q] = Unread /\ freeing[q] = <<>> /\ \A b \in Block : ~InHand(q, b)
  BY OthersWait
<1>2. pc[q] # "link"
  BY DEF OneInside, Critical
<1>3. \A b \in Block : ~InHand(q, b)'
  BY <1>1, <1>2 DEF InHand
<1>4. QED
  BY <1>1, <1>2, <1>3 DEF NumbersInv, HandsInv

\* A step that changes neither the memory nor what the process has in hand.
LEMMA NumbersKept ==
  ASSUME TypeOK, NumbersInv, NEW p \in Procs, NEW place,
         UNCHANGED <<start, nodes, local, seen, freeing>>,
         pc' = [pc EXCEPT ![p] = place], place \notin {"link", "free"},
         pc[p] # "link", seen[p] = Unread, freeing[p] = <<>>
  PROVE  NumbersInv'
<1>1. pc'[p] = place /\ \A q \in Procs \ {p} : pc'[q] = pc[q]
  BY DEF TypeOK
<1>2. NodesInv'
  BY DEF NumbersInv, NodesInv
<1>3. HandsInv(p)'
  <2>1. \A b \in Block : ~InHand(p, b)'
    BY <1>1 DEF InHand
  <2>2. QED
    BY <1>1, <2>1 DEF NumbersInv, HandsInv
<1>4. \A q \in Procs \ {p} : HandsInv(q)'
  <2>1. \A q \in Procs \ {p} : HandsInv(q)
    BY DEF NumbersInv
  <2>2. QED
    BY <1>1, <2>1 DEF HandsInv, InHand
<1>5. QED
  BY <1>2, <1>3, <1>4 DEF NumbersInv

\* No step of a process on a map of numbers makes two objects share memory.
LEMMA NumbersStep ==
  ASSUME IInv, Numbers, NumbersInv, NEW p \in Procs,
         (\E o \in Ops : Call(p, o)) \/ Step(p) \/ Die(p)
  PROVE  NumbersInv'
<1> USE SizesAssumption DEF IInv, TypeOK, Runs, Goto
<1>1. /\ HandsInv(p) /\ NodesInv /\ local[p] \in [key: Block, value: Block, node: Block]
      /\ pc[p] \in {"key", "value"} => Demand(p) = 0
      /\ pc[p] = "node" => Demand(p) = NodeSize
  BY DEF NumbersInv, Numbers, Demand
<1>0. \A k \in DOMAIN nodes :
        nodes[k].block \in Block /\ nodes[k].block.at \in Nat /\ nodes[k].block.size \in Nat
  <2>1. \A k \in DOMAIN nodes : nodes[k].block \in Block
    BY DEF Node
  <2>2. QED
    BY <2>1, BlockTypes
<1>2. pc[p] \notin {"node", "free"} => seen[p] = Unread
  BY <1>1 DEF HandsInv
<1>3. pc[p] # "free" => freeing[p] = <<>>
  BY <1>1 DEF HandsInv
<1>4. CASE \/ (\E o \in Ops : Call(p, o)) \/ BuildInPlace(p) \/ Lock(p)
           \/ InsertNew(p) \/ At(p) \/ Return(p)
  <2>1. /\ UNCHANGED <<start, nodes, local, seen, freeing>>
        /\ pc[p] \in {"idle", "key", "value", "lock", "search", "drop"}
        /\ \E place \in {"key", "value", "lock", "search", "node", "unlock", "idle"} :
             pc' = [pc EXCEPT ![p] = place]
    BY <1>4 DEF Call, BuildInPlace, AfterBuilding, Lock, InsertNew, At, Return
  <2>2. QED
    BY <2>1, <1>2, <1>3, NumbersKept
<1>5. CASE NodeFreed(p)
  <2>1. /\ UNCHANGED <<start, nodes, local, seen, freeing>>
        /\ pc[p] = "free" /\ freeing[p] = <<>>
        /\ \E place \in {"unlock"} : pc' = [pc EXCEPT ![p] = place]
    BY <1>5 DEF NodeFreed
  <2>2. seen[p] = Unread
    BY <1>1, <2>1 DEF HandsInv
  <2>3. QED
    BY <2>1, <2>2, NumbersKept
<1>6. CASE BadAlloc(p)
  <2>1. /\ pc[p] = "node" /\ seen[p] = Unread
        /\ \E place \in {"unlock"} : pc' = [pc EXCEPT ![p] = place]
        /\ UNCHANGED <<start, nodes, local, seen, freeing>>
    BY <1>1, <1>6 DEF BadAlloc, Building
  <2>2. QED
    BY <2>1, <1>3, NumbersKept
<1>7. CASE Die(p) \/ Read(p)
  <2>1. UNCHANGED <<start, nodes, pc, local, seen, freeing>>
    BY <1>7 DEF Die, Read
  <2>2. NodesInv'
    BY <1>1, <2>1 DEF NodesInv
  <2>3. \A q \in Procs : HandsInv(q)'
    BY <2>1 DEF NumbersInv, HandsInv, InHand
  <2>4. QED
    BY <2>2, <2>3 DEF NumbersInv
<1>8. CASE AllocateRead(p)
  <2>1. /\ pc[p] = "node" /\ start + NodeSize <= Space
        /\ seen' = [seen EXCEPT ![p] = start]
        /\ UNCHANGED <<start, nodes, pc, local, freeing>>
    BY <1>1, <1>8 DEF AllocateRead, Building
  <2>2. NodesInv'
    BY <1>1, <2>1 DEF NodesInv
  <2>3. HandsInv(p)'
    BY <1>1, <2>1 DEF HandsInv, InHand
  <2>4. \A q \in Procs \ {p} : HandsInv(q)'
    BY <2>1, OthersKept DEF Critical
  <2>5. QED
    BY <2>2, <2>3, <2>4 DEF NumbersInv
<1>9. CASE AllocateWrite(p)
  <2> DEFINE new == [at |-> start, size |-> NodeSize]
  <2>1. pc[p] = "node" /\ seen[p] # Unread
    BY <1>1, <1>9 DEF AllocateWrite, Building
  <2>2. seen[p] = start /\ start + NodeSize <= Space
    BY <1>1, <2>1 DEF HandsInv
  <2>3. /\ start' = start + NodeSize
        /\ local' = [local EXCEPT ![p]["node"] = new]
        /\ seen' = [seen EXCEPT ![p] = Unread]
        /\ pc' = [pc EXCEPT ![p] = "link"]
        /\ UNCHANGED <<nodes, freeing>>
    BY <1>1, <1>9, <2>1, <2>2 DEF AllocateWrite, AfterBuilding
  <2>4. local'[p] = [local[p] EXCEPT !.node = new]
        /\ \A q \in Procs \ {p} : local'[q] = local[q]
    BY <2>3
  <2>5. local'[p].node = new /\ local'[p].key = NoBlock /\ local'[p].value = NoBlock
    BY <1>1, <2>4 DEF HandsInv
  <2>6. NodesInv'
    <3>1. \A k \in DOMAIN nodes : EndOf(nodes[k].block) \in Int
      BY <1>0 DEF EndOf
    <3>2. \A k \in DOMAIN nodes : EndOf(nodes[k].block) <= start'
      BY <1>1, <2>3, <3>1 DEF NodesInv
    <3>3. QED
      BY <1>1, <2>2, <2>3, <3>2 DEF NodesInv
  <2>7. EndOf(new) = start' /\ \A k \in DOMAIN nodes : Apart(new, nodes[k].block)
    BY <1>1, <2>3 DEF NodesInv, EndOf, Apart
  <2>8. \A b : InHand(p, b)' => b = new
    BY <2>3, <2>5 DEF InHand
  <2>9. HandsInv(p)'
    BY <1>3, <2>1, <2>3, <2>5, <2>7, <2>8 DEF HandsInv
  <2>10. \A q \in Procs \ {p} : HandsInv(q)'
    BY <2>1, <2>3, <2>4, OthersKept DEF Critical
  <2>11. QED
    BY <2>6, <2>9, <2>10 DEF NumbersInv
<1>10. CASE DeallocateLost(p)
  <2>1. /\ pc[p] = "free" /\ freeing[p] = <<Head(freeing[p])>> /\ seen[p] = Unread
        /\ freeing' = [freeing EXCEPT ![p] = Tail(freeing[p])]
        /\ UNCHANGED <<start, nodes, pc, local, seen>>
    BY <1>1, <1>10 DEF DeallocateLost, Freeing, HandsInv
  <2>2. freeing'[p] = <<>>
    <3>1. freeing'[p] = Tail(freeing[p])
      BY <2>1
    <3>2. \A b : Tail(<<b>>) = <<>>
      OBVIOUS
    <3>3. QED
      BY <2>1, <3>1, <3>2
  <2>3. NodesInv'
    BY <1>1, <2>1 DEF NodesInv
  <2>4. HandsInv(p)'
    BY <1>1, <2>1, <2>2 DEF HandsInv, InHand
  <2>5. \A q \in Procs \ {p} : HandsInv(q)'
    BY <2>1, OthersKept DEF Critical
  <2>6. QED
    BY <2>3, <2>4, <2>5 DEF NumbersInv
<1>11. CASE DeallocateRead(p)
  <2> DEFINE b == Head(freeing[p])
  <2>1. /\ pc[p] = "free" /\ freeing[p] = <<b>> /\ EndOf(b) = start
        /\ seen' = [seen EXCEPT ![p] = b.at]
        /\ UNCHANGED <<start, nodes, pc, local, freeing>>
    BY <1>1, <1>11 DEF DeallocateRead, Freeing, HandsInv, EndOf
  <2>2. NodesInv'
    BY <1>1, <2>1 DEF NodesInv
  <2>3. HandsInv(p)'
    BY <1>1, <2>1 DEF HandsInv, InHand
  <2>4. \A q \in Procs \ {p} : HandsInv(q)'
    BY <2>1, OthersKept DEF Critical
  <2>5. QED
    BY <2>2, <2>3, <2>4 DEF NumbersInv
<1>12. CASE DeallocateWrite(p)
  <2> DEFINE b == Head(freeing[p])
  <2>1. /\ freeing[p] # <<>> /\ seen[p] # Unread
        /\ start' = seen[p]
        /\ seen' = [seen EXCEPT ![p] = Unread]
        /\ freeing' = [freeing EXCEPT ![p] = Tail(freeing[p])]
        /\ UNCHANGED <<nodes, pc, local>>
    BY <1>12 DEF DeallocateWrite, Freeing
  <2>2. pc[p] = "free" /\ freeing[p] = <<b>> /\ EndOf(b) = start /\ seen[p] = b.at
    BY <1>1, <2>1 DEF HandsInv
  <2>3. InHand(p, b) /\ b \in Block
    BY <2>1, <2>2 DEF InHand
  <2>4. /\ b.at \in Nat /\ b.at <= Space /\ b.size = NodeSize
        /\ \A k \in DOMAIN nodes : Apart(b, nodes[k].block)
    BY <1>1, <2>3, BlockTypes DEF HandsInv
  <2>5. ASSUME NEW k \in DOMAIN nodes PROVE EndOf(nodes[k].block) <= b.at
    <3>1. /\ nodes[k].block.size = NodeSize /\ EndOf(nodes[k].block) <= start
          /\ Apart(b, nodes[k].block)
      BY <1>1, <2>4 DEF NodesInv
    <3>2. QED
      BY <1>0, <2>2, <2>4, <3>1 DEF EndOf, Apart
  <2>6. NodesInv'
    BY <1>1, <2>1, <2>2, <2>4, <2>5 DEF NodesInv
  <2>7. freeing'[p] = <<>> /\ seen'[p] = Unread
    BY <2>1, <2>2
  <2>8. HandsInv(p)'
    BY <1>1, <2>1, <2>2, <2>7 DEF HandsInv, InHand
  <2>9. \A q \in Procs \ {p} : HandsInv(q)'
    BY <2>1, <2>2, OthersKept DEF Critical
  <2>10. QED
    BY <2>6, <2>8, <2>9 DEF NumbersInv
<1>13. CASE Assign(p)
  <2> DEFINE old == nodes[op[p].key]
             new == [old EXCEPT !.value = op[p].value, !.valueBuf = old.valueBuf]
  <2>1. /\ pc[p] = "search" /\ op[p].key \in DOMAIN nodes
        /\ nodes' = [nodes EXCEPT ![op[p].key] = new]
        /\ local' = [local EXCEPT ![p].value = local[p].value]
        /\ freeing' = [freeing EXCEPT ![p] = <<>>]
        /\ pc' = [pc EXCEPT ![p] = "free"]
        /\ UNCHANGED <<start, seen>>
    BY <1>13 DEF Assign, Assigned, Moved, Found, FoundNode, Numbers
  <2>2. local' = local /\ freeing' = freeing
    BY <1>3, <2>1
  <2>3. old \in Node
    BY <2>1
  <2>4. new.block = old.block /\ new.keyBuf = old.keyBuf /\ new.valueBuf = old.valueBuf
    BY <2>3 DEF Node
  <2>5. DOMAIN nodes' = DOMAIN nodes /\ \A k \in DOMAIN nodes :
          /\ nodes'[k].block = nodes[k].block
          /\ nodes'[k].keyBuf = nodes[k].keyBuf
          /\ nodes'[k].valueBuf = nodes[k].valueBuf
    BY <2>1, <2>4
  <2>6. NodesInv'
    BY <1>1, <2>1, <2>5 DEF NodesInv
  <2>7. HandsInv(p)'
    BY <1>1, <1>2, <1>3, <2>1, <2>2 DEF HandsInv, InHand
  <2>8. \A q \in Procs \ {p} : HandsInv(q)'
    BY <2>1, <2>2, OthersKept DEF Critical
  <2>9. QED
    BY <2>6, <2>7, <2>8 DEF NumbersInv
<1>14. CASE Link(p)
  <2> DEFINE b == local[p].node
             new == [block |-> b, value |-> op[p].value,
                     keyBuf |-> local[p].key, valueBuf |-> local[p].value]
  <2>1. /\ pc[p] = "link"
        /\ nodes' = [k \in DOMAIN nodes \union {op[p].key} |->
                       IF k = op[p].key THEN new ELSE nodes[k]]
        /\ local' = [local EXCEPT ![p] = EmptyLocal]
        /\ pc' = [pc EXCEPT ![p] = "unlock"]
        /\ UNCHANGED <<start, seen, freeing>>
    BY <1>14 DEF Link
  <2>2. /\ InHand(p, b) /\ b \in Block
        /\ new.keyBuf = NoBlock /\ new.valueBuf = NoBlock /\ new.block = b
    BY <1>1, <2>1 DEF InHand, HandsInv
  <2>3. /\ b.size = NodeSize /\ EndOf(b) <= start
        /\ \A k \in DOMAIN nodes : Apart(b, nodes[k].block)
    BY <1>1, <2>2 DEF HandsInv
  <2> HIDE DEF new, b
  <2>4. \A k \in DOMAIN nodes' :
          \/ k = op[p].key /\ nodes'[k] = new
          \/ k # op[p].key /\ k \in DOMAIN nodes /\ nodes'[k] = nodes[k]
    BY <2>1
  <2>5. \A k \in DOMAIN nodes' :
          /\ nodes'[k].keyBuf = NoBlock /\ nodes'[k].valueBuf = NoBlock
          /\ nodes'[k].block.size = NodeSize /\ EndOf(nodes'[k].block) <= start'
    BY <1>1, <2>1, <2>2, <2>3, <2>4 DEF NodesInv
  <2>6. \A k, l \in DOMAIN nodes' : k # l => Apart(nodes'[k].block, nodes'[l].block)
    <3> SUFFICES ASSUME NEW k \in DOMAIN nodes', NEW l \in DOMAIN nodes', k # l
                 PROVE  Apart(nodes'[k].block, nodes'[l].block)
      OBVIOUS
    <3>1. \A j \in DOMAIN nodes : Apart(b, nodes[j].block) /\ Apart(nodes[j].block, b)
      BY <2>3 DEF Apart
    <3>2. k # op[p].key /\ l # op[p].key => Apart(nodes'[k].block, nodes'[l].block)
      BY <1>1, <2>4 DEF NodesInv
    <3>3. QED
      BY <2>2, <2>4, <3>1, <3>2
  <2>7. NodesInv'
    BY <1>1, <2>1, <2>5, <2>6 DEF NodesInv
  <2>8. HandsInv(p)'
    BY <1>2, <1>3, <2>1 DEF HandsInv, InHand, EmptyLocal
  <2>9. \A q \in Procs \ {p} : HandsInv(q)'
    BY <2>1, OthersKept DEF Critical
  <2>10. QED
    BY <2>7, <2>8, <2>9 DEF NumbersInv
<1>15. CASE Erase(p)
  <2>1. /\ pc[p] = "search"
        /\ nodes' = [k \in DOMAIN nodes \ {op[p].key} |-> nodes[k]]
        /\ pc' = [pc EXCEPT ![p] = "free"]
        /\ UNCHANGED <<start, local, seen>>
    BY <1>15 DEF Erase
  <2>2. NodesInv'
    BY <1>1, <2>1 DEF NodesInv
  <2>3. /\ freeing'[p] = <<>> \/ freeing'[p] = <<Head(freeing'[p])>>
        /\ \A b : freeing'[p] # <<>> /\ b = Head(freeing'[p]) =>
             Found(p) /\ b = FoundNode(p).block
        /\ \A q \in Procs \ {p} : freeing'[q] = freeing[q]
    <3>1. freeing' = [freeing EXCEPT ![p] =
            IF Found(p) THEN Owned(FoundNode(p).valueBuf) \o Owned(FoundNode(p).keyBuf)
                               \o <<FoundNode(p).block>>
            ELSE <<>>]
      BY <1>15 DEF Erase
    <3>2. Found(p) => Owned(FoundNode(p).valueBuf) \o Owned(FoundNode(p).keyBuf)
                        \o <<FoundNode(p).block>> = <<FoundNode(p).block>>
      <4>1. Found(p) => Owned(FoundNode(p).valueBuf) = <<>> /\ Owned(FoundNode(p).keyBuf) = <<>>
        BY <1>1 DEF NodesInv, Found, FoundNode, Owned
      <4>2. <<>> \o <<>> \o <<FoundNode(p).block>> = <<FoundNode(p).block>>
        OBVIOUS
      <4>3. QED
        BY <4>1, <4>2
    <3>3. freeing'[p] = IF Found(p) THEN <<FoundNode(p).block>> ELSE <<>>
      BY <3>1, <3>2
    <3>4. CASE Found(p)
      <4>1. \A b : Head(<<b>>) = b /\ <<b>> # <<>>
        OBVIOUS
      <4>2. freeing'[p] = <<FoundNode(p).block>>
        BY <3>3, <3>4
      <4>3. Head(freeing'[p]) = FoundNode(p).block
        BY <4>1, <4>2
      <4>4. QED
        BY <3>1, <3>4, <4>2, <4>3
    <3>5. CASE ~Found(p)
      BY <3>1, <3>3, <3>5
    <3>6. QED
      BY <3>4, <3>5
  <2>4. Found(p) => /\ FoundNode(p).block.size = NodeSize
                    /\ EndOf(FoundNode(p).block) <= start
                    /\ \A k \in DOMAIN nodes' : Apart(FoundNode(p).block, nodes'[k].block)
    BY <1>1, <2>1 DEF NodesInv, Found, FoundNode
  <2>5. \A b \in Block : InHand(p, b)' => Found(p) /\ b = FoundNode(p).block
    BY <2>1, <2>3 DEF InHand
  <2>6. HandsInv(p)'
    BY <1>1, <1>2, <2>1, <2>3, <2>4, <2>5 DEF HandsInv
  <2>7. \A q \in Procs \ {p} : HandsInv(q)'
    BY <2>1, <2>3, OthersKept DEF Critical
  <2>8. QED
    BY <2>2, <2>6, <2>7 DEF NumbersInv
<1>16. CASE Unlock(p)
  <2>1. /\ pc[p] = "unlock" /\ pc' = [pc EXCEPT ![p] = "drop"]
        /\ local' = [local EXCEPT ![p] = EmptyLocal]
        /\ freeing' = [freeing EXCEPT ![p] = Locals(p)]
        /\ UNCHANGED <<start, nodes, seen>>
    BY <1>16 DEF Unlock
  <2>2. Locals(p) = <<>>
    BY <1>1 DEF HandsInv, Locals, Owned
  <2>3. NodesInv'
    BY <1>1, <2>1 DEF NodesInv
  <2>4. HandsInv(p)'
    BY <1>2, <2>1, <2>2 DEF HandsInv, InHand, EmptyLocal
  <2>5. \A q \in Procs \ {p} : HandsInv(q)'
    BY <2>1, OthersKept DEF Critical
  <2>6. QED
    BY <2>3, <2>4, <2>5 DEF NumbersInv
<1>17. QED
  BY <1>4, <1>5, <1>6, <1>7, <1>8, <1>9, <1>10, <1>11, <1>12, <1>13, <1>14, <1>15,
     <1>16 DEF Step, Allocate, Deallocate, UnderLock

\* In maps of numbers the nodes lie apart below `start'.
THEOREM NumbersInvariance == ASSUME Numbers PROVE Spec => []NumbersInv
<1>1. Init => NumbersInv
  BY NumbersInit
<1>2. IInv /\ NumbersInv /\ [Next]_vars => NumbersInv'
  <2> SUFFICES ASSUME IInv, NumbersInv, [Next]_vars PROVE NumbersInv'
    OBVIOUS
  <2>1. CASE Next
    BY <2>1, NumbersStep, Numbers DEF Next
  <2>2. CASE UNCHANGED vars
    BY <2>2 DEF vars, NumbersInv, NodesInv, HandsInv, InHand
  <2>3. QED
    BY <2>1, <2>2
<1>3. QED
  BY <1>1, <1>2, Invariance, PTL DEF Spec

\* The memory of a map of numbers: however the calls of the processes
\* interleave and wherever they are killed, the allocator never hands out a
\* unit of memory that a node still owns.
THEOREM NumbersAreApart == ASSUME Numbers PROVE Spec => []BlocksAreDisjoint
<1>1. IInv /\ NumbersInv => BlocksAreDisjoint
  <2> SUFFICES ASSUME IInv, NumbersInv PROVE BlocksAreDisjoint
    OBVIOUS
  <2> USE DEF IInv, NumbersInv
  <2>1. ASSUME NEW x \in Owners
        PROVE  \/ x[3] = NoBlock
               \/ \E k \in DOMAIN nodes : x = <<"node", k, nodes[k].block>>
               \/ \E p \in Procs : pc[p] = "link" /\ x = <<"new", p, local[p].node>>
               \/ \E p \in Procs : /\ pc[p] = "free" /\ freeing[p] # <<>>
                                   /\ x = <<"old", <<p, 1>>, Head(freeing[p])>>
    <3>1. CASE \E k \in DOMAIN nodes :
                 \/ x = <<"node", k, nodes[k].block>>
                 \/ x = <<"keyBuf", k, nodes[k].keyBuf>>
                 \/ x = <<"valueBuf", k, nodes[k].valueBuf>>
      BY <3>1 DEF NodesInv
    <3>2. CASE \E p \in Procs : \/ x = <<"key", p, local[p].key>>
                               \/ x = <<"value", p, local[p].value>>
                               \/ x = <<"new", p, local[p].node>>
      BY <3>2 DEF HandsInv
    <3>3. CASE \E p \in Procs : \E i \in DOMAIN freeing[p] :
                 x = <<"old", <<p, i>>, freeing[p][i]>>
      <4>0. PICK p \in Procs : \E i \in DOMAIN freeing[p] :
                                  x = <<"old", <<p, i>>, freeing[p][i]>>
        BY <3>3
      <4>1. PICK i \in DOMAIN freeing[p] : x = <<"old", <<p, i>>, freeing[p][i]>>
        BY <4>0
      <4>2. DOMAIN <<>> = {} /\ \A b : DOMAIN <<b>> = {1} /\ <<b>>[1] = b
        OBVIOUS
      <4>3. freeing[p] # <<>>
        BY <4>1, <4>2
      <4>4. pc[p] = "free" /\ freeing[p] = <<Head(freeing[p])>>
        BY <4>3 DEF HandsInv
      <4>5. i = 1 /\ freeing[p][i] = Head(freeing[p])
        BY <4>1, <4>2, <4>4
      <4>6. QED
        BY <4>1, <4>3, <4>4, <4>5
    <3>4. \/ \E k \in DOMAIN nodes :
               \/ x = <<"node", k, nodes[k].block>>
               \/ x = <<"keyBuf", k, nodes[k].keyBuf>>
               \/ x = <<"valueBuf", k, nodes[k].valueBuf>>
          \/ \E p \in Procs : \/ x = <<"key", p, local[p].key>>
                             \/ x = <<"value", p, local[p].value>>
                             \/ x = <<"new", p, local[p].node>>
          \/ \E p \in Procs : x \in OldBlocks(p)
      BY DEF Owners
    <3>5. ASSUME NEW p \in Procs, x \in OldBlocks(p)
          PROVE  \E i \in DOMAIN freeing[p] : x = <<"old", <<p, i>>, freeing[p][i]>>
      BY <3>5 DEF OldBlocks
    <3>6. QED
      BY <3>1, <3>2, <3>3, <3>4, <3>5
  <2>2. \A p \in Procs : freeing[p] # <<>> => Head(freeing[p]) \in Block
    BY DEF TypeOK
  <2>3. ASSUME NEW p \in Procs, NEW b \in Block, InHand(p, b)
        PROVE  EndOf(b) <= start /\ \A k \in DOMAIN nodes : Apart(b, nodes[k].block)
    BY <2>3 DEF HandsInv
  <2>4. ASSUME NEW b1 \in Block, NEW b2 \in Block, Apart(b1, b2) \/ Apart(b2, b1)
        PROVE  ~Overlap(b1, b2)
    BY <2>4, BlockTypes DEF Apart, EndOf, Overlap
  <2>5. ASSUME NEW b \in Block PROVE ~Overlap(NoBlock, b) /\ ~Overlap(b, NoBlock)
    BY BlockTypes DEF Overlap, NoBlock
  <2>6. \A x \in Owners : x[3] \in Block
    <3>1. \A k \in DOMAIN nodes : nodes[k].block \in Block
      BY DEF TypeOK, Node
    <3>2. \A p \in Procs : local[p].node \in Block
      BY DEF TypeOK
    <3>3. SUFFICES ASSUME NEW x \in Owners PROVE x[3] \in Block
      OBVIOUS
    <3>4. CASE \E k \in DOMAIN nodes : x = <<"node", k, nodes[k].block>>
      BY <3>1, <3>4
    <3>5. CASE \E p \in Procs : x = <<"new", p, local[p].node>>
      BY <3>2, <3>5
    <3>6. CASE \E p \in Procs : freeing[p] # <<>> /\ x = <<"old", <<p, 1>>, Head(freeing[p])>>
      BY <2>2, <3>6
    <3>7. QED
      BY <2>1, <3>4, <3>5, <3>6, BlockTypes
  <2>7. ASSUME NEW x \in Owners, NEW y \in Owners, x # y
        PROVE  ~Overlap(x[3], y[3])
    <3>1. CASE x[3] = NoBlock \/ y[3] = NoBlock
      BY <2>5, <2>6, <3>1
    <3>2. CASE /\ \E k \in DOMAIN nodes : x = <<"node", k, nodes[k].block>>
               /\ \E k \in DOMAIN nodes : y = <<"node", k, nodes[k].block>>
      BY <2>4, <2>6, <2>7, <3>2 DEF NodesInv
    <3> DEFINE Hand(z) == \E p \in Procs :
                 /\ pc[p] \in {"link", "free"} /\ InHand(p, z[3])
                 /\ z = IF pc[p] = "link" THEN <<"new", p, z[3]>>
                        ELSE <<"old", <<p, 1>>, z[3]>>
    <3>3. \A z \in Owners : \/ z[3] = NoBlock
                            \/ \E k \in DOMAIN nodes : z = <<"node", k, nodes[k].block>>
                            \/ Hand(z)
      BY <2>1 DEF InHand
    <3>4. CASE Hand(x) /\ Hand(y)
      <4>1. PICK p \in Procs : /\ pc[p] \in {"link", "free"} /\ InHand(p, x[3])
                               /\ x = IF pc[p] = "link" THEN <<"new", p, x[3]>>
                                      ELSE <<"old", <<p, 1>>, x[3]>>
        BY <3>4
      <4>2. PICK q \in Procs : /\ pc[q] \in {"link", "free"} /\ InHand(q, y[3])
                               /\ y = IF pc[q] = "link" THEN <<"new", q, y[3]>>
                                      ELSE <<"old", <<q, 1>>, y[3]>>
        BY <3>4
      <4>3. p = q
        BY <4>1, <4>2 DEF OneInside, Critical
      <4>4. x[3] = y[3]
        BY <4>1, <4>2, <4>3 DEF InHand
      <4>5. QED
        BY <2>7, <4>1, <4>2, <4>3, <4>4
    <3>5. CASE Hand(x) /\ \E k \in DOMAIN nodes : y = <<"node", k, nodes[k].block>>
      BY <2>3, <2>4, <2>6, <3>5
    <3>6. CASE Hand(y) /\ \E k \in DOMAIN nodes : x = <<"node", k, nodes[k].block>>
      BY <2>3, <2>4, <2>6, <3>6
    <3>7. QED
      BY <3>1, <3>2, <3>3, <3>4, <3>5, <3>6
  <2>8. ASSUME NEW x \in Owners PROVE x[3].at + x[3].size <= start
    <3>1. CASE x[3] = NoBlock
      BY <3>1 DEF NoBlock, TypeOK
    <3>2. CASE \E k \in DOMAIN nodes : x = <<"node", k, nodes[k].block>>
      BY <3>2 DEF NodesInv, EndOf
    <3>3. CASE \E p \in Procs : InHand(p, x[3])
      BY <2>3, <2>6, <3>3 DEF EndOf
    <3>4. QED
      BY <2>1, <3>1, <3>2, <3>3 DEF InHand
  <2>9. QED
    BY <2>7, <2>8 DEF BlocksAreDisjoint, NodesInv
<1>2. QED
  BY <1>1, Invariance, NumbersInvariance, PTL

-----------------------------------------------------------------------------
\* The calls implement those of SharedMap.
Taken(p, r) == [kind |-> "call", op |-> op[p], result |-> r]

\* The map begins as SharedMap does.
LEMMA AtomicInit == Init => Atomic!Init
  BY DEF Init, Atomic!Init, Contents, CallOf, Atomic!None

\* A step inside a call that neither changes a value nor decides the result.
LEMMA AtomicStutter ==
  ASSUME TypeOK, NEW p \in Procs, NEW place,
         UNCHANGED <<nodes, op, result>>,
         pc[p] # "idle", place # "idle", pc' = [pc EXCEPT ![p] = place]
  PROVE  UNCHANGED Atomic!vars
<1>1. Contents' = Contents
  BY DEF Contents
<1>2. \A q \in Procs : pc'[q] = "idle" <=> pc[q] = "idle"
  BY DEF TypeOK
<1>3. CallOf' = CallOf
  BY <1>2 DEF CallOf
<1>4. QED
  BY <1>1, <1>3 DEF Atomic!vars

\* A step that decides the result of a call.
LEMMA AtomicTake ==
  ASSUME TypeOK, CallInv, NEW p \in Procs, NEW place, NEW r,
         op' = op, result' = [result EXCEPT ![p] = r],
         pc[p] \in {"key", "value", "search", "node", "link"}, place # "idle",
         pc' = [pc EXCEPT ![p] = place]
  PROVE  /\ CallOf[p] = Taken(p, Atomic!Pending)
         /\ CallOf[p] # Atomic!None
         /\ Atomic!Take(p, r)
<1>1. CallOf[p] = Taken(p, Atomic!Pending)
  BY DEF CallOf, CallInv, Taken, Pending, Atomic!Pending
<1>2. CallOf[p] # Atomic!None
  BY <1>1 DEF Taken, Atomic!None
<1>3. \A q \in Procs \ {p} : CallOf'[q] = CallOf[q]
  BY DEF TypeOK, CallOf
<1>4. CallOf'[p] = Taken(p, r)
  BY DEF TypeOK, CallOf, Taken
<1>5. [CallOf[p] EXCEPT !.result = r] = Taken(p, r)
  BY <1>1 DEF Taken
<1>6. CallOf' = [CallOf EXCEPT ![p] = Taken(p, r)]
  <2>1. /\ DOMAIN CallOf = Procs
        /\ CallOf' = [q \in Procs |-> CallOf'[q]]
    BY DEF CallOf
  <2>2. QED
    BY <1>3, <1>4, <2>1
<1>7. CallOf' = [CallOf EXCEPT ![p] = [CallOf[p] EXCEPT !.result = r]]
  BY <1>5, <1>6
<1>8. QED
  BY <1>1, <1>2, <1>7 DEF Atomic!Take

\* Every step of a process is one step of SharedMap, or none.
LEMMA AtomicStep ==
  ASSUME IInv, NEW p \in Procs, (\E o \in Ops : Call(p, o)) \/ Step(p) \/ Die(p)
  PROVE  Atomic!Next \/ UNCHANGED Atomic!vars
<1> USE DEF IInv, Runs, Goto
<1>1. ASSUME NEW o \in Ops, Call(p, o) PROVE Atomic!Next
  <2>1. /\ pc[p] = "idle" /\ pc' = [pc EXCEPT ![p] = "key"]
        /\ op' = [op EXCEPT ![p] = o] /\ result' = [result EXCEPT ![p] = Pending]
        /\ nodes' = nodes
    BY <1>1 DEF Call
  <2>2. CallOf[p] = Atomic!None /\ Contents' = Contents
    BY <2>1 DEF CallOf, Contents, Atomic!None
  <2>3. \A q \in Procs \ {p} : CallOf'[q] = CallOf[q]
    BY <2>1 DEF TypeOK, CallOf
  <2>4. CallOf'[p] = [kind |-> "call", op |-> o, result |-> Atomic!Pending]
    BY <2>1 DEF TypeOK, CallOf, Pending, Atomic!Pending
  <2>5. CallOf' = [CallOf EXCEPT ![p] =
                     [kind |-> "call", op |-> o, result |-> Atomic!Pending]]
    BY <2>3, <2>4 DEF CallOf
  <2>6. o \in Atomic!Ops
    BY DEF Ops, Atomic!Ops
  <2>7. QED
    BY <2>2, <2>5, <2>6 DEF Atomic!Next, Atomic!Invoke
<1>2. CASE \/ BuildInPlace(p) \/ AllocateWrite(p) \/ Lock(p) \/ InsertNew(p)
           \/ NodeFreed(p) \/ Unlock(p)
  <2>1. /\ UNCHANGED <<nodes, op, result>> /\ pc[p] # "idle"
        /\ \E place \in {"value", "lock", "link", "search", "node", "unlock", "drop"} :
             pc' = [pc EXCEPT ![p] = place]
    BY <1>2 DEF BuildInPlace, AllocateWrite, Building, AfterBuilding, Lock,
                InsertNew, NodeFreed, Unlock
  <2>2. QED
    BY <2>1, AtomicStutter
<1>3. CASE AllocateRead(p) \/ Deallocate(p) \/ Die(p)
  <2>1. UNCHANGED <<nodes, op, result, pc>>
    BY <1>3 DEF AllocateRead, Deallocate, DeallocateLost, DeallocateRead,
                DeallocateWrite, Die
  <2>2. QED
    BY <2>1 DEF Atomic!vars, Contents, CallOf
<1>4. CASE BadAlloc(p)
  <2>1. /\ op' = op /\ nodes' = nodes /\ result' = [result EXCEPT ![p] = Failed]
        /\ pc[p] \in {"key", "value", "node"}
        /\ \E place \in {"unlock", "drop"} : pc' = [pc EXCEPT ![p] = place]
    BY <1>4 DEF BadAlloc, Building
  <2>2. /\ CallOf[p] = Taken(p, Atomic!Pending)
        /\ CallOf[p] # Atomic!None
        /\ Atomic!Take(p, Failed)
    BY <2>1, AtomicTake
  <2>3. op[p].kind \in {"insert", "at", "erase"}
    BY <2>1 DEF CallInv, Ops
  <2>4. \E kind \in {"insert", "at", "erase"} : Atomic!IsPending(p, kind)
    BY <2>2, <2>3 DEF Atomic!IsPending, Taken
  <2>5. Contents' = Contents
    BY <2>1 DEF Contents
  <2>6. Atomic!BadAlloc(p)
    BY <2>2, <2>4, <2>5 DEF Atomic!BadAlloc, Failed
  <2>7. QED
    BY <2>6 DEF Atomic!Next
<1>5. CASE Assign(p) \/ Link(p)
  <2> DEFINE key == op[p].key
  <2>1. /\ op' = op /\ result' = [result EXCEPT ![p] = [is |-> "done"]]
        /\ pc[p] \in {"search", "link"} /\ op[p].kind = "insert"
        /\ \E place \in {"free", "unlock"} : pc' = [pc EXCEPT ![p] = place]
    BY <1>5 DEF Assign, Link, CallInv
  <2>2. /\ CallOf[p] = Taken(p, Atomic!Pending)
        /\ CallOf[p] # Atomic!None
        /\ Atomic!Take(p, [is |-> "done"])
    BY <2>1, AtomicTake
  <2>3. Atomic!IsPending(p, "insert") /\ CallOf[p].op = op[p]
    BY <2>1, <2>2 DEF Atomic!IsPending, Taken
  <2>4. /\ DOMAIN nodes' = DOMAIN nodes \union {key}
        /\ nodes'[key].value = op[p].value
        /\ \A k \in DOMAIN nodes : k # key => nodes'[k].value = nodes[k].value
    <3>1. CASE Assign(p)
      <4>1. key \in DOMAIN nodes /\ nodes[key] \in Node
        BY <3>1 DEF Assign, Found, TypeOK
      <4>2. \E b : nodes' = [nodes EXCEPT ![key] =
                     [nodes[key] EXCEPT !.value = op[p].value, !.valueBuf = b]]
        BY <3>1 DEF Assign, Assigned, FoundNode
      <4>3. \A b : [nodes[key] EXCEPT !.value = op[p].value, !.valueBuf = b].value
                    = op[p].value
        BY <4>1 DEF Node
      <4>4. QED
        BY <4>1, <4>2, <4>3
    <3>2. CASE Link(p)
      BY <3>2 DEF Link
    <3>3. QED
      BY <1>5, <3>1, <3>2
  <2>5. Contents' = Atomic!Put(key, op[p].value)
    BY <2>4 DEF Contents, Atomic!Put
  <2>6. Atomic!Insert(p)
    BY <2>2, <2>3, <2>5 DEF Atomic!Insert
  <2>7. QED
    BY <2>6 DEF Atomic!Next
<1>6. CASE At(p)
  <2> DEFINE r == IF Found(p) THEN Reference ELSE [is |-> "out_of_range"]
  <2>1. /\ op' = op /\ nodes' = nodes /\ result' = [result EXCEPT ![p] = r]
        /\ pc[p] = "search" /\ op[p].kind = "at"
        /\ \E place \in {"unlock"} : pc' = [pc EXCEPT ![p] = place]
    BY <1>6 DEF At
  <2> HIDE DEF r
  <2>2. /\ CallOf[p] = Taken(p, Atomic!Pending)
        /\ CallOf[p] # Atomic!None
        /\ Atomic!Take(p, r)
    BY <2>1, AtomicTake
  <2>3. Atomic!IsPending(p, "at") /\ CallOf[p].op = op[p]
    BY <2>1, <2>2 DEF Atomic!IsPending, Taken
  <2>4. r = IF op[p].key \in DOMAIN Contents THEN Atomic!Reference
            ELSE [is |-> "out_of_range"]
    BY DEF r, Found, Contents, Reference, Atomic!Reference
  <2>5. Contents' = Contents
    BY <2>1 DEF Contents
  <2>6. Atomic!At(p)
    BY <2>2, <2>3, <2>4, <2>5 DEF Atomic!At
  <2>7. QED
    BY <2>6 DEF Atomic!Next
<1>7. CASE Erase(p)
  <2> DEFINE r == [is |-> "erased", found |-> Found(p)]
             key == op[p].key
  <2>1. /\ op' = op /\ pc[p] = "search" /\ op[p].kind = "erase"
        /\ nodes' = [k \in DOMAIN nodes \ {key} |-> nodes[k]]
        /\ pc' = [pc EXCEPT ![p] = "free"]
        /\ result' = [q \in Procs |->
             IF q = p THEN r
             ELSE IF result[q] = Reference /\ op[q].key = key THEN Dangling ELSE result[q]]
    BY <1>7 DEF Erase
  <2> HIDE DEF r
  <2>2. CallOf[p] = Taken(p, Atomic!Pending) /\ CallOf[p] # Atomic!None
    BY <2>1 DEF CallOf, CallInv, Taken, Pending, Atomic!Pending, Atomic!None
  <2>3. Atomic!IsPending(p, "erase") /\ CallOf[p].op = op[p]
    BY <2>1, <2>2 DEF Atomic!IsPending, Taken
  <2>4. r = [is |-> "erased", found |-> key \in DOMAIN Contents]
    BY DEF r, Found, Contents
  <2>5. Contents' = [k \in DOMAIN Contents \ {key} |-> Contents[k]]
    BY <2>1 DEF Contents
  <2>6. [CallOf[p] EXCEPT !.result = r] = Taken(p, r) /\ CallOf'[p] = Taken(p, r)
    BY <2>1, <2>2 DEF Taken, CallOf, TypeOK
  <2>7. ASSUME NEW q \in Procs \ {p}
        PROVE  CallOf'[q] = IF Atomic!Refers(q, key)
                            THEN [CallOf[q] EXCEPT !.result = Atomic!Dangling] ELSE CallOf[q]
    <3>1. pc'[q] = pc[q] /\ op'[q] = op[q]
      BY <2>1 DEF TypeOK
    <3>2. CASE pc[q] = "idle"
      BY <3>1, <3>2 DEF CallOf, Atomic!Refers, Atomic!None
    <3>3. CASE pc[q] # "idle"
      <4>1. CallOf[q] = Taken(q, result[q]) /\ CallOf'[q] = Taken(q, result'[q])
        BY <3>1, <3>3 DEF CallOf, Taken
      <4>2. Atomic!Refers(q, key) <=> result[q] = Reference /\ op[q].key = key
        BY <4>1 DEF Taken, Atomic!Refers, Atomic!None, Reference, Atomic!Reference
      <4>3. result'[q] = IF result[q] = Reference /\ op[q].key = key THEN Dangling
                         ELSE result[q]
        BY <2>1
      <4>4. [CallOf[q] EXCEPT !.result = Atomic!Dangling] = Taken(q, Dangling)
        BY <4>1 DEF Taken, Dangling, Atomic!Dangling
      <4>5. QED
        BY <4>1, <4>2, <4>3, <4>4
    <3>4. QED
      BY <3>2, <3>3
  <2>8. CallOf' = [q \in Procs |->
          IF q = p THEN [CallOf[q] EXCEPT !.result = r]
          ELSE IF Atomic!Refers(q, key) THEN [CallOf[q] EXCEPT !.result = Atomic!Dangling]
          ELSE CallOf[q]]
    <3>1. CallOf' = [q \in Procs |-> CallOf'[q]]
      BY DEF CallOf
    <3>2. QED
      BY <2>6, <2>7, <3>1
  <2>9. Atomic!Erase(p)
    BY <2>3, <2>4, <2>5, <2>8 DEF Atomic!Erase, Atomic!Restrict
  <2>10. QED
    BY <2>9 DEF Atomic!Next
<1>8. CASE Return(p)
  <2>1. /\ pc[p] = "drop" /\ pc' = [pc EXCEPT ![p] = "idle"]
        /\ UNCHANGED <<nodes, op, result>> /\ result[p] \notin {Reference, Dangling}
    BY <1>8 DEF Return
  <2>2. /\ CallOf[p] = Taken(p, result[p])
        /\ result[p] \notin {Atomic!Pending, Atomic!Reference, Atomic!Dangling}
    BY <2>1 DEF CallOf, Taken, CallInv, Pending, Atomic!Pending, Reference, Atomic!Reference,
                Dangling, Atomic!Dangling
  <2>3. /\ CallOf[p] # Atomic!None
        /\ CallOf[p].result \notin {Atomic!Pending, Atomic!Reference, Atomic!Dangling}
    BY <2>2 DEF Taken, Atomic!None
  <2>4. CallOf'[p] = Atomic!None /\ \A q \in Procs \ {p} : CallOf'[q] = CallOf[q]
    BY <2>1 DEF TypeOK, CallOf, Atomic!None
  <2>5. CallOf' = [CallOf EXCEPT ![p] = Atomic!None]
    BY <2>4 DEF CallOf
  <2>6. Contents' = Contents
    BY <2>1 DEF Contents
  <2>7. QED
    BY <2>3, <2>5, <2>6 DEF Atomic!Next, Atomic!Return
<1>9. CASE Read(p)
  <2>1. PICK v \in Values :
          /\ \/ result[p] = Reference /\ v = FoundNode(p).value
             \/ result[p] = Dangling
          /\ result' = [result EXCEPT ![p] = [is |-> "value", value |-> v]]
    BY <1>9 DEF Read
  <2> DEFINE r == [is |-> "value", value |-> v]
  <2>2. pc[p] = "drop" /\ UNCHANGED <<nodes, op, pc>>
    BY <1>9 DEF Read
  <2>3. CallOf[p] = Taken(p, result[p]) /\ CallOf[p] # Atomic!None
    BY <2>2 DEF CallOf, Taken, Atomic!None
  <2> HIDE DEF r
  <2>4. Atomic!Take(p, r)
    <3>1. CallOf'[p] = Taken(p, r) /\ \A q \in Procs \ {p} : CallOf'[q] = CallOf[q]
      BY <2>1, <2>2 DEF TypeOK, CallOf, Taken, r
    <3>2. [CallOf[p] EXCEPT !.result = r] = Taken(p, r)
      BY <2>3 DEF Taken
    <3>3. CallOf' = [CallOf EXCEPT ![p] = Taken(p, r)]
      <4>1. DOMAIN CallOf = Procs /\ CallOf' = [q \in Procs |-> CallOf'[q]]
        BY DEF CallOf
      <4>2. QED
        BY <3>1, <4>1
    <3>4. QED
      BY <3>2, <3>3 DEF Atomic!Take
  <2>5. \/ CallOf[p].result = Atomic!Reference /\ v = Contents[CallOf[p].op.key]
        \/ CallOf[p].result = Atomic!Dangling
    <3>1. CASE result[p] = Dangling
      BY <2>3, <3>1 DEF Taken, Dangling, Atomic!Dangling
    <3>2. CASE result[p] = Reference /\ v = FoundNode(p).value
      <4>1. op[p].key \in DOMAIN nodes
        BY <3>2 DEF CallInv
      <4>2. CallOf[p].op = op[p] /\ CallOf[p].result = Atomic!Reference
        BY <2>3, <3>2 DEF Taken, Reference, Atomic!Reference
      <4>3. Contents[op[p].key] = FoundNode(p).value
        BY <4>1 DEF Contents, FoundNode
      <4>4. QED
        BY <3>2, <4>2, <4>3
    <3>3. QED
      BY <2>1, <3>1, <3>2
  <2>6. Contents' = Contents
    BY <2>2 DEF Contents
  <2>7. Atomic!Read(p)
    BY <2>3, <2>4, <2>5, <2>6 DEF Atomic!Read, r
  <2>8. QED
    BY <2>7 DEF Atomic!Next
<1>10. QED
  BY <1>1, <1>2, <1>3, <1>4, <1>5, <1>6, <1>7, <1>8, <1>9
     DEF Step, Allocate, UnderLock

\* To the processes that share a map of numbers the calls are atomic: each takes effect
\* between its invocation and its return as on a std::map, or fails and changes nothing.
\* The reference that at returns shows what is in the map when it is read, until an
\* erase.
THEOREM CallsAreAtomic == ASSUME Numbers PROVE Spec => ImplementsSharedMap
<1>1. Init => Atomic!Init
  BY AtomicInit
<1>2. IInv /\ [Next]_vars => [Atomic!Next]_(Atomic!vars)
  <2> SUFFICES ASSUME IInv, [Next]_vars PROVE [Atomic!Next]_(Atomic!vars)
    OBVIOUS
  <2>1. CASE Next
    BY <2>1, AtomicStep DEF Next
  <2>2. CASE UNCHANGED vars
    BY <2>2 DEF vars, Atomic!vars, Contents, CallOf
  <2>3. QED
    BY <2>1, <2>2
<1>3. QED
  BY <1>1, <1>2, Invariance, PTL DEF Spec, Atomic!Spec, ImplementsSharedMap
=============================================================================
