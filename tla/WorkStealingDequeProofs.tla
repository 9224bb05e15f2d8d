---------------------- MODULE WorkStealingDequeProofs ----------------------
(***************************************************************************)
(* Proofs about WorkStealingDeque, for every number of thieves and tasks   *)
(* and every capacity.                                                     *)
(***************************************************************************)
EXTENDS WorkStealingDeque, SequenceTheorems, FiniteSetTheorems, TLAPS

(***************************************************************************)
(* The inductive invariant.  Phases relates the program counters and the   *)
(* local copies of top and bottom to the shared ones while a push, a pop   *)
(* and several steals are under way; ClaimInv says which tasks are claimed.*)
(***************************************************************************)
PushPhase ==
    /\ pushPC # "idle" => popPC = "idle" /\ pushB = bottom /\ accepted < MaxTasks
    /\ pushPC \notin {"idle", "top"} => pushT <= top
    /\ pushPC \in {"publish", "sizes"} => 2 * capacity <= MaxCapacity
    /\ pushPC = "free" => \E a \in Arrays : capacity = 2 * a

PopPhase ==
    /\ popPC = "store" => bottom = popB + 1
    /\ popPC \in {"top", "tasks", "slot", "cas", "restore"} => bottom = popB
    /\ popPC \in {"tasks", "slot"} => popT <= popB
    /\ popPC = "cas" => popT = popB
    /\ popPC \in {"tasks", "slot", "cas"} => popT <= top
    /\ popPC # "idle" => popB < accepted

Span == top <= LogicalBottom /\ LogicalBottom <= accepted

\* The heart of the algorithm: a thief whose compare-and-exchange could still
\* succeed aims at an index that is in the deque.
StealPhase ==
    \A h \in Thieves :
        /\ stealPC[h] # "idle" => stealT[h] <= top
        /\ stealPC[h] \in {"tasks", "slot", "cas"} /\ stealT[h] = top
              => top < LogicalBottom

LifePhase ==
    life = "destroyed" =>
        /\ pushPC = "idle" /\ popPC = "idle"
        /\ \A h \in Thieves : stealPC[h] = "idle"

Phases == PushPhase /\ PopPhase /\ Span /\ StealPhase /\ LifePhase

\* Which tasks are claimed: those accepted and no longer in the deque, once.
ClaimInv ==
    /\ \A i \in Live : log[i] \in 1..accepted /\ claims[log[i]] = 0
    /\ \A i, j \in Live : log[i] = log[j] => i = j
    /\ \A k \in 1..accepted : claims[k] = 1 \/ (claims[k] = 0 /\ \E i \in Live : log[i] = k)
    /\ \A k \in Values \ (1..accepted) : claims[k] = 0

IndInv == TypeOK /\ Phases /\ ClaimInv

USE CapacityAssumption, BoundAssumption
USE DEF NULL, Garbage, Tasks, Values, Indices, Arrays

-----------------------------------------------------------------------------
(* Type correctness.                                                       *)

\* The local variables of a role change in its own steps only.
LEMMA Frames ==
    ASSUME [Next]_vars
    PROVE  /\ Push \/ UNCHANGED pushVars
           /\ Pop \/ UNCHANGED popVars
           /\ (\E h \in Thieves : Steal(h)) \/ UNCHANGED stealVars
  <1>1. CASE UNCHANGED vars
    BY <1>1 DEF vars
  <1>2. CASE Push
    BY <1>2 DEF Push, PushLoadBottom, PushLoadTop, ResizeCopy, ResizeRefused,
                ResizePublish, ResizeSizes, ResizeFree, PushRecheck,
                PushStoreSlot, PushStoreBottom
  <1>3. CASE Pop
    BY <1>3 DEF Pop, PopLoadBottom, PopStoreBottom, PopLoadTop, PopLoadTasks,
                PopReadSlot, PopCAS, PopCASFail, PopRestore
  <1>4. ASSUME NEW h \in Thieves, Steal(h)
        PROVE  UNCHANGED pushVars /\ UNCHANGED popVars
    BY <1>4 DEF Steal, StealLoadTop, StealLoadBottom, StealLoadTasks,
                StealReadSlot, StealCAS, StealCASFail
  <1>5. CASE Destroy
    BY <1>5 DEF Destroy
  <1> QED
    BY <1>1, <1>2, <1>3, <1>4, <1>5 DEF Next

\* A slot read through any pointer and mask yields a value of the model.
LEMMA ReadSlotType ==
    ASSUME DequeType, NEW a \in Arrays, NEW m \in Nat, m + 1 \in Arrays, NEW i \in Indices
    PROVE  ReadSlot(a, m, i) \in Values
  <1>1. CASE a \in freed \/ Ring(m, i) >= a
    BY <1>1 DEF ReadSlot
  <1>2. CASE ~(a \in freed \/ Ring(m, i) >= a)
    <2>1. i % (m + 1) \in 0..(MaxCapacity - 1)
      BY <1>2 DEF Ring
    <2>2. \A r \in 0..(MaxCapacity - 1) : slots[a][r] \in Values
      BY DEF DequeType
    <2> QED
      BY <1>2, <2>1, <2>2 DEF ReadSlot, Ring
  <1> QED
    BY <1>1, <1>2

\* A claim keeps the counters of claims natural numbers.
LEMMA ClaimType ==
    ASSUME HistoryType, NEW i \in Indices, Claim(i) PROVE claims' \in [Values -> Nat]
  <1>1. claims \in [Values -> Nat]
    BY DEF HistoryType
  <1>2. log[i] \in Values
    <2>1. log \in [Indices -> NULL..MaxTasks]
      BY DEF HistoryType
    <2>2. log[i] \in NULL..MaxTasks
      BY <2>1
    <2> QED
      BY <2>2
  <1> HIDE DEF Values
  <1>3. \A k \in Values : [claims EXCEPT ![k] = @ + 1] \in [Values -> Nat]
    BY <1>1
  <1> QED
    BY <1>2, <1>3 DEF Claim

\* So does a return for the counters of returned pointers.
LEMMA ReturnType ==
    ASSUME HistoryType, NEW v \in Values, Return(v) PROVE got' \in [Values -> Nat]
  <1>1. got \in [Values -> Nat]
    BY DEF HistoryType
  <1> QED
    BY <1>1 DEF Return

\* The invariant holds of a deque that was just created.
LEMMA InitInv == Init => IndInv
  <1> SUFFICES ASSUME Init PROVE IndInv
    OBVIOUS
  <1>1. TypeOK
    BY DEF Init, TypeOK, DequeType, PushType, PopType, StealType, HistoryType
  <1>2. Phases
    BY DEF Init, Phases, PushPhase, PopPhase, Span, StealPhase, LifePhase, LogicalBottom
  <1>3. ClaimInv
    BY DEF Init, ClaimInv, Live, LogicalBottom
  <1> QED
    BY <1>1, <1>2, <1>3 DEF IndInv

\* Every step keeps the type invariant.
LEMMA TypeStep == ASSUME ~SharedPush, IndInv, [Next]_vars PROVE TypeOK'
  <1> USE DEF IndInv, TypeOK
  <1>1. PushType'
    <2>1. CASE UNCHANGED pushVars
      BY <2>1 DEF pushVars, PushType
    <2>2. CASE Push
      BY <2>2 DEF PushType, DequeType, Push, PushLoadBottom, PushLoadTop, ResizeCopy,
                  ResizeRefused, ResizePublish, ResizeSizes, ResizeFree, PushRecheck,
                  PushStoreSlot, PushStoreBottom
    <2> QED
      BY <2>1, <2>2, Frames
  <1>2. PopType'
    <2>1. CASE UNCHANGED popVars
      BY <2>1 DEF popVars, PopType
    <2>2. CASE PopReadSlot
      <3>1. ReadSlot(popArr, mask, popB) \in Values
        BY ReadSlotType DEF PopType, DequeType
      <3> QED
        BY <2>2, <3>1 DEF PopType, PopReadSlot
    <2>3. CASE PopLoadBottom \/ PopLoadTop
      BY <2>3 DEF PopType, DequeType, PopLoadBottom, PopLoadTop
    <2>4. CASE PopLoadTasks
      BY <2>4 DEF PopType, DequeType, PopLoadTasks
    <2>5. CASE PopStoreBottom \/ PopCAS \/ PopCASFail \/ PopRestore
      BY <2>5 DEF PopType, PopStoreBottom, PopCAS, PopCASFail, PopRestore
    <2> QED
      BY <2>1, <2>2, <2>3, <2>4, <2>5, Frames DEF Pop
  <1>3. StealType'
    <2>1. CASE UNCHANGED stealVars
      BY <2>1 DEF stealVars, StealType
    <2>2. ASSUME NEW h \in Thieves, Steal(h) PROVE StealType'
      <3>1. CASE StealReadSlot(h)
        <4>1. ReadSlot(stealArr[h], mask, stealT[h]) \in Values
          BY ReadSlotType DEF StealType, DequeType
        <4> QED
          BY <3>1, <4>1 DEF StealType, StealReadSlot
      <3>2. CASE StealLoadTop(h)
        BY <3>2 DEF StealType, DequeType, StealLoadTop
      <3>3. CASE StealLoadTasks(h)
        BY <3>3 DEF StealType, DequeType, StealLoadTasks
      <3>4. CASE StealLoadBottom(h) \/ StealCAS(h) \/ StealCASFail(h)
        BY <3>4 DEF StealType, StealLoadBottom, StealCAS, StealCASFail
      <3> QED
        BY <2>2, <3>1, <3>2, <3>3, <3>4 DEF Steal
    <2> QED
      BY <2>1, <2>2, Frames
  <1>4. DequeType'
    <2>1. CASE UNCHANGED <<deque, life>>
      BY <2>1 DEF deque, DequeType
    <2>2. CASE ResizeCopy
      <3> DEFINE From(j) == {i \in top..(bottom - 1) : i % (2 * capacity) = j}
                 Copied(j) == IF From(j) = {} THEN NULL
                              ELSE slots[tasks][Ring(mask, CHOOSE i \in From(j) : TRUE)]
      <3>1. \A i \in top..(bottom - 1) : slots[tasks][Ring(mask, i)] \in Values
        <4>1. \A r \in 0..(MaxCapacity - 1) : slots[tasks][r] \in Values
          BY DEF DequeType
        <4>2. \A i \in top..(bottom - 1) : i % (mask + 1) \in 0..(MaxCapacity - 1)
          BY DEF DequeType
        <4> QED
          BY <4>1, <4>2 DEF Ring
      <3>2. \A j : From(j) # {} => (CHOOSE i \in From(j) : TRUE) \in top..(bottom - 1)
        OBVIOUS
      <3>3. \A j : Copied(j) \in Values
        BY <3>1, <3>2
      <3>4. slots' = [slots EXCEPT ![2 * capacity] =
                         [j \in 0..(MaxCapacity - 1) |-> Copied(j)]]
        BY <2>2 DEF ResizeCopy
      <3> HIDE DEF Copied
      <3>5. [j \in 0..(MaxCapacity - 1) |-> Copied(j)] \in [0..(MaxCapacity - 1) -> Values]
        BY <3>3
      <3>6. slots \in [Arrays -> [0..(MaxCapacity - 1) -> Values]]
        BY DEF DequeType
      <3>7. slots' \in [Arrays -> [0..(MaxCapacity - 1) -> Values]]
        BY <3>4, <3>5, <3>6
      <3> QED
        BY <2>2, <3>7 DEF ResizeCopy, DequeType
    <2>3. CASE ResizePublish \/ ResizeSizes
      <3>1. 2 * capacity <= MaxCapacity
        BY <2>3 DEF Phases, PushPhase, ResizePublish, ResizeSizes
      <3>2. capacity \in Arrays
        BY DEF DequeType
      <3>3. capacity \in Nat /\ 2 * capacity \in Arrays
        BY <3>1, <3>2
      <3>4. CASE ResizePublish
        BY <3>3, <3>4 DEF DequeType, ResizePublish
      <3>5. CASE ResizeSizes
        <4>1. mask' \in Nat /\ mask' + 1 \in Arrays
          BY <3>3, <3>5 DEF ResizeSizes
        <4> QED
          BY <3>3, <3>5, <4>1 DEF DequeType, ResizeSizes
      <3> QED
        BY <2>3, <3>4, <3>5
    <2>4. CASE ResizeFree
      <3>1. capacity \div 2 \in Arrays
        BY <2>4 DEF Phases, PushPhase, ResizeFree
      <3> QED
        BY <2>4, <3>1 DEF DequeType, ResizeFree
    <2>5. CASE PushStoreSlot
      <3>1. accepted + 1 \in Values
        BY <2>5 DEF Phases, PushPhase, PushStoreSlot, HistoryType
      <3>2. slots \in [Arrays -> [0..(MaxCapacity - 1) -> Values]] /\ tasks \in Arrays
        BY DEF DequeType
      <3>3. \A r : [slots EXCEPT ![tasks][r] = accepted + 1]
                      \in [Arrays -> [0..(MaxCapacity - 1) -> Values]]
        BY <3>1, <3>2
      <3>4. slots' \in [Arrays -> [0..(MaxCapacity - 1) -> Values]]
        BY <2>5, <3>3 DEF PushStoreSlot
      <3> QED
        BY <2>5, <3>4 DEF DequeType, PushStoreSlot
    <2>6. CASE PushStoreBottom
      <3>1. popPC = "idle" /\ pushB <= accepted /\ accepted < MaxTasks
        BY <2>6 DEF Phases, PushPhase, Span, LogicalBottom, PushStoreBottom
      <3>2. pushB + 1 \in Indices
        BY <3>1 DEF HistoryType, PushType
      <3> QED
        BY <2>6, <3>2 DEF DequeType, PushStoreBottom
    <2>7. CASE PopStoreBottom
      BY <2>7 DEF DequeType, PopStoreBottom, PopType
    <2>8. CASE PopCAS
      <3>1. top + 1 \in Indices
        BY <2>8 DEF Phases, PopPhase, PopCAS, HistoryType, DequeType, PopType
      <3> QED
        BY <2>8, <3>1 DEF DequeType, PopCAS
    <2>9. CASE PopRestore
      <3>1. popB + 1 \in Indices
        BY <2>9 DEF Phases, PopPhase, PopRestore, HistoryType, PopType
      <3> QED
        BY <2>9, <3>1 DEF DequeType, PopRestore
    <2>10. ASSUME NEW h \in Thieves, StealCAS(h) PROVE DequeType'
      <3>1. top < LogicalBottom /\ LogicalBottom <= accepted
        BY <2>10 DEF Phases, Span, StealPhase, StealCAS
      <3>2. LogicalBottom \in Int
        BY DEF LogicalBottom, DequeType, PopType
      <3>3. top + 1 \in Indices
        BY <3>1, <3>2 DEF HistoryType, DequeType
      <3> QED
        BY <2>10, <3>3 DEF DequeType, StealCAS
    <2>11. CASE Destroy
      BY <2>11 DEF DequeType, deque, Destroy
    <2> QED
      BY <2>1, <2>2, <2>3, <2>4, <2>5, <2>6, <2>7, <2>8, <2>9, <2>10, <2>11
      DEF Next, Push, Pop, Steal, vars, PushLoadBottom, PushLoadTop, ResizeRefused,
          PushRecheck, PopLoadBottom, PopLoadTop, PopLoadTasks, PopReadSlot, PopCASFail,
          StealLoadTop, StealLoadBottom, StealLoadTasks, StealReadSlot, StealCASFail
  <1>5. HistoryType'
    <2>1. CASE UNCHANGED history
      BY <2>1 DEF history, HistoryType
    <2>2. CASE PushStoreBottom
      <3>1. accepted + 1 \in Indices
        BY <2>2 DEF Phases, PushPhase, PushStoreBottom, HistoryType
      <3>2. log' \in [Indices -> NULL..MaxTasks]
        BY <2>2, <3>1 DEF PushStoreBottom, HistoryType
      <3> QED
        BY <2>2, <3>1, <3>2 DEF PushStoreBottom, HistoryType
    <2>3. CASE PopLoadTop
      BY <2>3, ClaimType DEF PopLoadTop, HistoryType, PopType
    <2>4. CASE PopReadSlot
      <3>1. ReadSlot(popArr, mask, popB) \in Values
        BY ReadSlotType DEF PopType, DequeType
      <3> QED
        BY <2>4, <3>1, ReturnType DEF PopReadSlot, HistoryType
    <2>5. CASE PopCAS
      BY <2>5, ClaimType, ReturnType DEF PopCAS, HistoryType, PopType
    <2>6. ASSUME NEW h \in Thieves, StealCAS(h) PROVE HistoryType'
      <3>1. stealT[h] \in Indices /\ stealTask[h] \in Values
        BY DEF StealType
      <3> QED
        BY <2>6, <3>1, ClaimType, ReturnType DEF StealCAS, HistoryType
    <2>7. CASE Destroy
      <3> DEFINE Left(k) == {i \in top..(bottom - 1) : log[i] = k}
                 Stored(v) == {i \in top..(bottom - 1) : slots[tasks][Ring(mask, i)] = v}
      <3>1. IsFiniteSet(top..(bottom - 1))
        BY FS_Interval DEF DequeType
      <3>2. \A k : Cardinality(Left(k)) \in Nat
        BY <3>1, FS_Subset, FS_CardinalityType
      <3>3. \A v : Cardinality(Stored(v)) \in Nat
        BY <3>1, FS_Subset, FS_CardinalityType
      <3>4. /\ claims' = [k \in Values |-> claims[k] + Cardinality(Left(k))]
            /\ got' = [v \in Values |-> got[v] + Cardinality(Stored(v))]
        BY <2>7 DEF Destroy
      <3>5. claims \in [Values -> Nat] /\ got \in [Values -> Nat]
        BY DEF HistoryType
      <3> HIDE DEF Left, Stored, Values
      <3>6. claims' \in [Values -> Nat]
        BY <3>2, <3>4, <3>5
      <3>7. got' \in [Values -> Nat]
        BY <3>3, <3>4, <3>5
      <3> QED
        BY <2>7, <3>6, <3>7 DEF Destroy, HistoryType
    <2> QED
      BY <2>1, <2>2, <2>3, <2>4, <2>5, <2>6, <2>7
      DEF Next, Push, Pop, Steal, vars, PushLoadBottom, PushLoadTop, ResizeCopy,
          ResizeRefused, ResizePublish, ResizeSizes, ResizeFree, PushRecheck,
          PushStoreSlot, PopLoadBottom, PopStoreBottom, PopLoadTasks, PopCASFail,
          PopRestore, StealLoadTop, StealLoadBottom, StealLoadTasks, StealReadSlot,
          StealCASFail
  <1> QED
    BY <1>1, <1>2, <1>3, <1>4, <1>5

-----------------------------------------------------------------------------
(* The phases.                                                             *)

\* The indices and the program's copies of them are natural numbers.
LEMMA Numbers ==
    ASSUME TypeOK
    PROVE  /\ top \in Nat /\ bottom \in Nat /\ accepted \in Nat /\ capacity \in Nat
           /\ pushB \in Nat /\ pushT \in Nat /\ popB \in Nat /\ popT \in Nat
           /\ stealT \in [Thieves -> Nat] /\ LogicalBottom \in Nat
  BY DEF TypeOK, DequeType, PushType, PopType, StealType, HistoryType, LogicalBottom

\* The steps of push_bottom keep the relations between the roles.
LEMMA PhasesPush == ASSUME ~SharedPush, IndInv, Push PROVE Phases'
  <1>1. TypeOK /\ Phases
    BY DEF IndInv
  <1>2. UNCHANGED <<top, popVars, stealVars, life>>
    BY DEF Push, PushLoadBottom, PushLoadTop, ResizeCopy, ResizeRefused, ResizePublish,
           ResizeSizes, ResizeFree, PushRecheck, PushStoreSlot, PushStoreBottom, deque
  <1>3. pushPC # "idle" \/ pushPC' # "idle"
    BY DEF Push, PushLoadBottom, PushLoadTop, ResizeCopy, ResizeRefused, ResizePublish,
           ResizeSizes, ResizeFree, PushRecheck, PushStoreSlot, PushStoreBottom
  <1>4. popPC = "idle" /\ popPC' = "idle" /\ life = "live" /\ life' = "live"
    <2>1. CASE PushLoadBottom
      BY <2>1 DEF PushLoadBottom, popVars
    <2>2. CASE pushPC # "idle"
      BY <1>1, <1>2, <2>2 DEF Phases, PushPhase, LifePhase, TypeOK, DequeType, popVars
    <2> QED
      BY <2>1, <2>2 DEF Push, PushLoadTop, ResizeCopy, ResizeRefused, ResizePublish,
           ResizeSizes, ResizeFree, PushRecheck, PushStoreSlot, PushStoreBottom
  <1>5. LogicalBottom = bottom /\ LogicalBottom' = bottom'
    BY <1>4 DEF LogicalBottom
  <1>6. \/ bottom' = bottom /\ accepted' = accepted
        \/ bottom' = bottom + 1 /\ accepted' = accepted + 1
    <2>1. CASE PushStoreBottom
      BY <1>1, <2>1 DEF Phases, PushPhase, PushStoreBottom
    <2>2. ASSUME ~PushStoreBottom PROVE bottom' = bottom /\ accepted' = accepted
      BY <2>2 DEF Push, PushLoadBottom, PushLoadTop, ResizeCopy, ResizeRefused, ResizePublish,
             ResizeSizes, ResizeFree, PushRecheck, PushStoreSlot, deque, history
    <2> QED
      BY <2>1, <2>2
  <1>7. PushPhase'
    <2>1. CASE PushLoadBottom
      BY <1>1, <1>4, <2>1, Numbers DEF PushLoadBottom, PushPhase, deque, history, popVars
    <2>2. CASE PushLoadTop
      BY <1>1, <1>4, <2>2, Numbers DEF PushLoadTop, Phases, PushPhase, deque, history, popVars
    <2>3. CASE ResizeCopy
      BY <1>1, <1>4, <2>3 DEF ResizeCopy, Phases, PushPhase, deque, history, popVars
    <2>4. CASE ResizePublish \/ ResizeRefused \/ PushRecheck \/ PushStoreSlot
      BY <1>1, <1>4, <2>4 DEF ResizePublish, ResizeRefused, PushRecheck, PushStoreSlot,
                              Phases, PushPhase, deque, history, popVars
    <2>5. CASE ResizeSizes
      <3>1. capacity \in Arrays
        BY <1>1 DEF TypeOK, DequeType
      <3> QED
        BY <1>1, <1>4, <2>5, <3>1 DEF ResizeSizes, Phases, PushPhase, history, popVars
    <2>6. CASE ResizeFree \/ PushStoreBottom
      BY <1>1, <1>4, <2>6 DEF ResizeFree, PushStoreBottom, Phases, PushPhase, history, popVars
    <2> QED
      BY <2>1, <2>2, <2>3, <2>4, <2>5, <2>6 DEF Push
  <1>8. PopPhase'
    BY <1>4 DEF PopPhase
  <1>9. Span'
    BY <1>1, <1>2, <1>5, <1>6, Numbers DEF Phases, Span
  <1>10. StealPhase'
    BY <1>1, <1>2, <1>5, <1>6, Numbers DEF Phases, StealPhase, stealVars
  <1>11. LifePhase'
    BY <1>4 DEF LifePhase
  <1> QED
    BY <1>7, <1>8, <1>9, <1>10, <1>11 DEF Phases

\* The steps of pop_bottom keep them.
LEMMA PhasesPop == ASSUME ~SharedPush, IndInv, Pop PROVE Phases'
  <1>1. TypeOK /\ Phases
    BY DEF IndInv
  <1>2. UNCHANGED <<pushVars, stealVars, accepted, capacity, life>>
    BY DEF Pop, PopLoadBottom, PopStoreBottom, PopLoadTop, PopLoadTasks, PopReadSlot, PopCAS,
           PopCASFail, PopRestore, deque, history
  <1>3. pushPC = "idle" /\ pushPC' = "idle" /\ life = "live" /\ life' = "live"
    <2>1. CASE PopLoadBottom
      BY <1>2, <2>1 DEF PopLoadBottom, pushVars
    <2>2. CASE popPC # "idle"
      BY <1>1, <1>2, <2>2 DEF Phases, PushPhase, LifePhase, TypeOK, DequeType, pushVars
    <2> QED
      BY <2>1, <2>2 DEF Pop, PopStoreBottom, PopLoadTop, PopLoadTasks, PopReadSlot, PopCAS,
                        PopCASFail, PopRestore
  <1>4. PopPhase'
    BY <1>1, Numbers DEF Phases, PopPhase, Span, LogicalBottom, Pop, PopLoadBottom, PopStoreBottom,
           PopLoadTop, PopLoadTasks, PopReadSlot, PopCAS, PopCASFail, PopRestore, deque, history
  \* A pop ends with one task less, or leaves the deque as it was.
  <1>5. \/ top' = top /\ LogicalBottom' = LogicalBottom
        \/ top' = top /\ LogicalBottom' = LogicalBottom - 1 /\ top < LogicalBottom'
        \/ top' = top + 1 /\ LogicalBottom' = LogicalBottom /\ top' <= LogicalBottom
    BY <1>1, Numbers DEF Phases, PopPhase, Span, LogicalBottom, Pop, PopLoadBottom, PopStoreBottom,
           PopLoadTop, PopLoadTasks, PopReadSlot, PopCAS, PopCASFail, PopRestore, deque
  <1>6. PushPhase'
    BY <1>3 DEF PushPhase
  <1>7. Span'
    BY <1>1, <1>2, <1>5, Numbers DEF Phases, Span
  <1>8. StealPhase'
    BY <1>1, <1>2, <1>5, Numbers DEF Phases, StealPhase, stealVars
  <1>9. LifePhase'
    BY <1>3 DEF LifePhase
  <1> QED
    BY <1>4, <1>6, <1>7, <1>8, <1>9 DEF Phases

\* The steps of steal_top keep them.
LEMMA PhasesSteal == ASSUME IndInv, NEW h \in Thieves, Steal(h) PROVE Phases'
  <1>1. TypeOK /\ Phases
    BY DEF IndInv
  <1>2. UNCHANGED <<pushVars, popVars, bottom, accepted, capacity, life>>
    BY DEF Steal, StealLoadTop, StealLoadBottom, StealLoadTasks, StealReadSlot, StealCAS,
           StealCASFail, deque, history
  <1>3. LogicalBottom' = LogicalBottom
    BY <1>2 DEF LogicalBottom, popVars
  <1>4. bottom <= LogicalBottom
    BY <1>1, Numbers DEF Phases, PopPhase, LogicalBottom
  <1>5. top' = top \/ (StealCAS(h) /\ top' = top + 1 /\ stealT[h] = top)
    <2>1. ASSUME ~StealCAS(h) PROVE top' = top
      BY <2>1 DEF Steal, StealLoadTop, StealLoadBottom, StealLoadTasks, StealReadSlot,
                  StealCASFail, deque
    <2>2. ASSUME StealCAS(h) PROVE top' = top + 1 /\ stealT[h] = top
      BY <2>2 DEF StealCAS
    <2> QED
      BY <2>1, <2>2
  <1>6. Span'
    <2>1. StealCAS(h) => top < LogicalBottom
      BY <1>1 DEF Phases, StealPhase, StealCAS
    <2> QED
      BY <1>1, <1>2, <1>3, <1>5, <2>1, Numbers DEF Phases, Span
  <1>7. StealPhase'
    <2> SUFFICES ASSUME NEW g \in Thieves
                 PROVE  /\ stealPC'[g] # "idle" => stealT'[g] <= top'
                        /\ stealPC'[g] \in {"tasks", "slot", "cas"} /\ stealT'[g] = top'
                              => top' < LogicalBottom'
      BY DEF StealPhase
    <2>1. stealPC \in [Thieves -> {"idle", "bottom", "tasks", "slot", "cas"}]
      BY <1>1 DEF TypeOK, StealType
    <2>2. CASE StealCAS(h)
      <3>1. /\ top' = top + 1 /\ UNCHANGED stealT
            /\ stealPC' = [stealPC EXCEPT ![h] = "idle"]
        BY <2>2 DEF StealCAS
      <3>2. top \in Nat /\ stealT[g] \in Nat /\ (stealPC[g] # "idle" => stealT[g] <= top)
        BY <1>1, Numbers DEF Phases, StealPhase
      <3> QED
        BY <2>1, <3>1, <3>2
    <2>3. CASE ~StealCAS(h)
      BY <1>1, <1>3, <1>4, <2>1, <2>3, Numbers DEF Phases, StealPhase, Steal, StealLoadTop, StealLoadBottom,
           StealLoadTasks, StealReadSlot, StealCASFail, deque
    <2> QED
      BY <2>2, <2>3
  <1>8. PushPhase'
    BY <1>1, <1>2, <1>5, Numbers DEF Phases, PushPhase, pushVars, popVars
  <1>9. PopPhase'
    BY <1>1, <1>2, <1>5, Numbers DEF Phases, PopPhase, popVars
  <1>10. LifePhase'
    BY <1>1, <1>2 DEF Phases, LifePhase, pushVars, popVars, Steal, StealLoadTop, StealLoadBottom,
           StealLoadTasks, StealReadSlot, StealCAS, StealCASFail
  <1> QED
    BY <1>6, <1>7, <1>8, <1>9, <1>10 DEF Phases

\* Every step keeps them.
LEMMA PhasesStep == ASSUME ~SharedPush, IndInv, [Next]_vars PROVE Phases'
  <1>1. CASE UNCHANGED vars
    BY <1>1 DEF IndInv, vars, deque, pushVars, popVars, stealVars, history, Phases, PushPhase,
                PopPhase, Span, StealPhase, LifePhase, LogicalBottom
  <1>2. CASE Destroy
    BY <1>2 DEF IndInv, Destroy, deque, pushVars, popVars, stealVars, Phases, PushPhase,
                PopPhase, Span, StealPhase, LifePhase, LogicalBottom
  <1> QED
    BY <1>1, <1>2, PhasesPush, PhasesPop, PhasesSteal DEF Next

-----------------------------------------------------------------------------
(* The claims.                                                             *)

\* Claiming the task of an index that leaves the deque keeps the account right.
LEMMA ClaimOne ==
    ASSUME TypeOK, ClaimInv, NEW i \in Live, Live' = Live \ {i}, Claim(i),
           log' = log, accepted' = accepted
    PROVE  ClaimInv'
  <1>1. claims \in [Values -> Nat] /\ accepted \in 0..MaxTasks
    BY DEF TypeOK, HistoryType
  <1>2. log[i] \in 1..accepted /\ claims[log[i]] = 0
    BY DEF ClaimInv
  <1>3. log[i] \in Values
    BY <1>1, <1>2
  <1>4. claims' = [claims EXCEPT ![log[i]] = claims[log[i]] + 1]
    BY DEF Claim
  <1> HIDE DEF Values
  <1>5. claims'[log[i]] = 1
    BY <1>1, <1>2, <1>3, <1>4
  <1>6. \A k \in Values : k # log[i] => claims'[k] = claims[k]
    BY <1>1, <1>4
  <1>7. \A k \in 1..accepted : k \in Values
    BY <1>1 DEF Values
  <1>8. \A j \in Live' : j \in Live /\ log'[j] # log[i] /\ log'[j] = log[j]
    BY DEF ClaimInv
  <1>9. \A j \in Live' : log'[j] \in 1..accepted' /\ claims'[log'[j]] = 0
    BY <1>6, <1>7, <1>8 DEF ClaimInv
  <1>10. \A j, l \in Live' : log'[j] = log'[l] => j = l
    BY <1>8 DEF ClaimInv
  <1>11. \A k \in 1..accepted' : \/ claims'[k] = 1
                                 \/ claims'[k] = 0 /\ \E j \in Live' : log'[j] = k
    BY <1>5, <1>6, <1>7 DEF ClaimInv
  <1>12. \A k \in Values \ (1..accepted') : claims'[k] = 0
    BY <1>2, <1>6 DEF ClaimInv
  <1> QED
    BY <1>9, <1>10, <1>11, <1>12 DEF ClaimInv, Values

\* Every step keeps the account of claimed tasks.
LEMMA ClaimStep == ASSUME ~SharedPush, IndInv, [Next]_vars PROVE ClaimInv'
  <1>1. TypeOK /\ Phases /\ ClaimInv
    BY DEF IndInv
  <1>2. TypeOK' /\ Phases'
    BY TypeStep, PhasesStep
  <1>3. ASSUME Live' = Live, UNCHANGED <<log, claims, accepted>> PROVE ClaimInv'
    BY <1>1, <1>3 DEF ClaimInv
  <1>4. CASE UNCHANGED vars
    BY <1>3, <1>4 DEF vars, deque, popVars, history, Live, LogicalBottom
  <1>5. CASE PushStoreBottom
    <2>1. popPC = "idle" /\ popPC' = "idle" /\ life = "live" /\ life' = "live" /\ pushB = bottom
      BY <1>1, <1>5 DEF Phases, PushPhase, LifePhase, TypeOK, DequeType, PushStoreBottom, popVars
    <2>2. Live = top..(bottom - 1) /\ Live' = top..bottom
      BY <1>1, <1>5, <2>1, Numbers DEF Live, LogicalBottom, PushStoreBottom
    <2>3. /\ top <= bottom /\ bottom <= accepted /\ accepted < MaxTasks
          /\ top \in Nat /\ bottom \in Nat /\ accepted \in Nat
      BY <1>1, <1>5, <2>1, Numbers DEF Phases, Span, PushPhase, LogicalBottom, PushStoreBottom
    <2>4. log \in [Indices -> NULL..MaxTasks] /\ bottom \in Indices
      BY <1>1 DEF TypeOK, HistoryType, DequeType
    <2>5. /\ accepted' = accepted + 1 /\ claims' = claims
          /\ log' = [log EXCEPT ![bottom] = accepted + 1]
      BY <1>5, <2>1 DEF PushStoreBottom
    <2>6. log'[bottom] = accepted + 1 /\ \A i \in Live : i \in Indices /\ log'[i] = log[i]
      BY <2>2, <2>3, <2>4, <2>5
    <2>7. \A i \in Live : log[i] \in 1..accepted
      BY <1>1 DEF ClaimInv
    <2>8. Live' = Live \cup {bottom}
      BY <2>2, <2>3
    <2>9. claims[accepted + 1] = 0
      BY <1>1, <2>3 DEF ClaimInv
    <2>10. \A i \in Live' : log'[i] \in 1..accepted' /\ claims'[log'[i]] = 0
      BY <1>1, <2>3, <2>5, <2>6, <2>7, <2>8, <2>9 DEF ClaimInv
    <2>11. \A i, j \in Live' : log'[i] = log'[j] => i = j
      BY <1>1, <2>3, <2>6, <2>7, <2>8 DEF ClaimInv
    <2>12. \A k \in 1..accepted' : \/ claims'[k] = 1
                                   \/ claims'[k] = 0 /\ \E i \in Live' : log'[i] = k
      BY <1>1, <2>3, <2>5, <2>6, <2>8, <2>9 DEF ClaimInv
    <2>13. \A k \in Values \ (1..accepted') : claims'[k] = 0
      BY <1>1, <2>3, <2>5 DEF ClaimInv
    <2> QED
      BY <2>10, <2>11, <2>12, <2>13 DEF ClaimInv
  <1>6. CASE Push /\ ~PushStoreBottom
    <2>1. UNCHANGED <<top, bottom, popVars, history, life>>
      BY <1>6 DEF Push, PushLoadBottom, PushLoadTop, ResizeCopy, ResizeRefused, ResizePublish,
             ResizeSizes, ResizeFree, PushRecheck, PushStoreSlot, deque
    <2> QED
      BY <1>3, <2>1 DEF Live, LogicalBottom, popVars, history
  <1>7. ASSUME Pop \/ \E h \in Thieves : Steal(h) PROVE life = "live" /\ life' = "live"
    <2>1. life' = life
      BY <1>7 DEF Pop, PopLoadBottom, PopStoreBottom, PopLoadTop, PopLoadTasks, PopReadSlot,
            PopCAS, PopCASFail, PopRestore, Steal, StealLoadTop, StealLoadBottom,
            StealLoadTasks, StealReadSlot, StealCAS, StealCASFail
    <2>2. life # "destroyed"
      BY <1>1, <1>7 DEF Phases, LifePhase, Pop, PopLoadBottom, PopStoreBottom, PopLoadTop,
            PopLoadTasks, PopReadSlot, PopCAS, PopCASFail, PopRestore, Steal, StealLoadTop,
            StealLoadBottom, StealLoadTasks, StealReadSlot, StealCAS, StealCASFail
    <2> QED
      BY <1>1, <2>1, <2>2 DEF TypeOK, DequeType
  <1>8. CASE PopLoadTop /\ top < popB
    <2>1. life = "live" /\ life' = "live" /\ bottom = popB
      BY <1>1, <1>7, <1>8 DEF Pop, PopLoadTop, Phases, PopPhase
    <2>2. Live = top..popB /\ Live' = top..(popB - 1)
      BY <1>1, <1>8, <2>1, Numbers DEF Live, LogicalBottom, PopLoadTop, deque
    <2>3. popB \in Live /\ Live' = Live \ {popB}
      BY <1>1, <1>8, <2>2, Numbers
    <2> QED
      BY <1>1, <1>8, <2>3, ClaimOne DEF PopLoadTop
  <1>9. CASE PopCAS
    <2>1. life = "live" /\ life' = "live" /\ popB = top /\ top' = top + 1
      BY <1>1, <1>7, <1>9 DEF Pop, PopCAS, Phases, PopPhase
    <2>2. Live = top..popB /\ Live' = (top + 1)..popB
      BY <1>1, <1>9, <2>1, Numbers DEF Live, LogicalBottom, PopCAS
    <2>3. popB \in Live /\ Live' = Live \ {popB}
      BY <1>1, <2>1, <2>2, Numbers
    <2> QED
      BY <1>1, <1>9, <2>3, ClaimOne DEF PopCAS
  <1>10. CASE Pop /\ ~(PopLoadTop /\ top < popB) /\ ~PopCAS
    <2>1. UNCHANGED <<top, log, claims, accepted>>
      BY <1>10 DEF Pop, PopLoadBottom, PopStoreBottom, PopLoadTop, PopLoadTasks, PopReadSlot,
            PopCASFail, PopRestore, deque, history
    <2>2. LogicalBottom' = LogicalBottom
      BY <1>1, <1>10, Numbers DEF Phases, PopPhase, Span, LogicalBottom, Pop, PopLoadBottom,
            PopStoreBottom, PopLoadTop, PopLoadTasks, PopReadSlot, PopCASFail, PopRestore, deque
    <2> QED
      BY <1>3, <1>7, <1>10, <2>1, <2>2 DEF Live
  <1>11. ASSUME NEW h \in Thieves, StealCAS(h) PROVE ClaimInv'
    <2>1. life = "live" /\ life' = "live" /\ stealT[h] = top /\ top' = top + 1
      BY <1>7, <1>11 DEF Steal, StealCAS
    <2>2. LogicalBottom' = LogicalBottom /\ top < LogicalBottom
      BY <1>1, <1>11 DEF StealCAS, LogicalBottom, popVars, Phases, StealPhase
    <2>3. top \in Live /\ Live' = Live \ {top}
      BY <1>1, <2>1, <2>2, Numbers DEF Live
    <2> QED
      BY <1>1, <1>11, <2>1, <2>3, ClaimOne DEF StealCAS
  <1>12. ASSUME NEW h \in Thieves, Steal(h), ~StealCAS(h) PROVE ClaimInv'
    <2>1. UNCHANGED <<top, bottom, popVars, history, life>>
      BY <1>12 DEF Steal, StealLoadTop, StealLoadBottom, StealLoadTasks, StealReadSlot,
            StealCASFail, deque
    <2> QED
      BY <1>3, <2>1 DEF Live, LogicalBottom, popVars, history
  <1>13. CASE Destroy
    <2> DEFINE Left(k) == {i \in top..(bottom - 1) : log[i] = k}
    <2>1. Live = top..(bottom - 1) /\ Live' = {}
      BY <1>13 DEF Destroy, Live, LogicalBottom
    <2>2. accepted' = accepted /\ \A k \in Values : claims'[k] = claims[k] + Cardinality(Left(k))
      BY <1>13 DEF Destroy
    <2>3. \A k \in 1..accepted : k \in Values
      <3>1. accepted \in 0..MaxTasks
        BY <1>1 DEF TypeOK, HistoryType
      <3> QED
        BY <3>1
    <2>4. ASSUME NEW k \in 1..accepted PROVE claims'[k] = 1
      <3>1. CASE \E i \in Live : log[i] = k
        <4>1. PICK i \in Live : log[i] = k
          BY <3>1
        <4>2. Left(k) = {i}
          BY <1>1, <2>1, <4>1 DEF ClaimInv
        <4>3. claims[k] = 0
          BY <1>1, <4>1 DEF ClaimInv
        <4>4. Cardinality(Left(k)) = 1
          BY <4>2, FS_Singleton
        <4> QED
          BY <2>2, <2>3, <4>3, <4>4
      <3>2. CASE ~\E i \in Live : log[i] = k
        <4>1. claims[k] = 1 /\ Left(k) = {}
          BY <1>1, <2>1, <3>2 DEF ClaimInv
        <4>2. Cardinality(Left(k)) = 0
          BY <4>1, FS_EmptySet
        <4> QED
          BY <2>2, <2>3, <4>1, <4>2
      <3> QED
        BY <3>1, <3>2
    <2>5. ASSUME NEW k \in Values \ (1..accepted) PROVE claims'[k] = 0
      <3>1. claims[k] = 0 /\ Left(k) = {}
        BY <1>1, <2>1 DEF ClaimInv
      <3>2. Cardinality(Left(k)) = 0
        BY <3>1, FS_EmptySet
      <3> QED
        BY <2>2, <3>1, <3>2
    <2> QED
      BY <2>1, <2>2, <2>4, <2>5 DEF ClaimInv
  <1> QED
    BY <1>4, <1>5, <1>6, <1>8, <1>9, <1>10, <1>11, <1>12, <1>13 DEF Next

-----------------------------------------------------------------------------
(* The theorems that hold for every capacity, with resizing.               *)

\* The deque's fields, the locals of every call in flight and the history keep
\* their types when the deque is used by its owner and any number of thieves:
\* in particular top and bottom stay in range, which is where an unsigned
\* underflow in push_bottom, pop_bottom or steal_top would show.
THEOREM TypeCorrect == ASSUME ~SharedPush PROVE Spec => []TypeOK
  <1>1. IndInv /\ [Next]_vars => IndInv'
    BY TypeStep, PhasesStep, ClaimStep DEF IndInv
  <1>2. IndInv => TypeOK
    BY DEF IndInv
  <1> QED
    BY InitInv, <1>1, <1>2, PTL DEF Spec

\* The invariant says that every accepted task is claimed or live, once.
LEMMA ClaimedOnceFollows == IndInv => ClaimedOnce
  <1> SUFFICES ASSUME IndInv PROVE ClaimedOnce
    OBVIOUS
  <1> DEFINE At(k) == {i \in Live : log[i] = k}
  <1>1. ClaimInv
    BY DEF IndInv
  <1>2. ASSUME NEW k \in 1..accepted PROVE claims[k] + Cardinality(At(k)) = 1
    <2>1. CASE \E i \in Live : log[i] = k
      <3>1. PICK i \in Live : log[i] = k
        BY <2>1
      <3>2. At(k) = {i}
        BY <1>1, <3>1 DEF ClaimInv
      <3>3. claims[k] = 0
        BY <1>1, <3>1 DEF ClaimInv
      <3>4. Cardinality(At(k)) = 1
        BY <3>2, FS_Singleton
      <3> QED
        BY <3>3, <3>4
    <2>2. CASE ~\E i \in Live : log[i] = k
      <3>1. claims[k] = 1 /\ At(k) = {}
        BY <1>1, <2>2 DEF ClaimInv
      <3>2. Cardinality(At(k)) = 0
        BY <3>1, FS_EmptySet
      <3> QED
        BY <3>1, <3>2
    <2> QED
      BY <2>1, <2>2
  <1> QED
    BY <1>1, <1>2 DEF ClaimedOnce, ClaimInv

\* Used by its owner and any number of thieves, at every capacity and across
\* resizes, the deque neither loses nor duplicates an accepted task: its index
\* is claimed by exactly one pop, steal or destroy, or it is still in the deque.
THEOREM ExactlyOnce == ASSUME ~SharedPush PROVE Spec => []ClaimedOnce
  <1>1. IndInv /\ [Next]_vars => IndInv'
    BY TypeStep, PhasesStep, ClaimStep DEF IndInv
  <1> QED
    BY InitInv, <1>1, ClaimedOnceFollows, PTL DEF Spec

-----------------------------------------------------------------------------
(* A deque that cannot grow: the slots.                                    *)

\* Remainder and quotient.
LEMMA DivMod ==
    ASSUME NEW c \in Int, c > 0, NEW i \in Int PROVE i % c = i - c * (i \div c)
  BY Z3

\* Two indices less than a capacity apart have different slots.
LEMMA RingDistinct ==
    ASSUME NEW c \in Nat \ {0}, NEW i \in Nat, NEW j \in Nat, i < j, j - i < c
    PROVE  i % c # j % c
  <1> SUFFICES ASSUME i % c = j % c PROVE FALSE
    OBVIOUS
  <1> DEFINE p == j \div c - i \div c
  <1>1. i \div c \in Int /\ j \div c \in Int
    OBVIOUS
  <1>2. i - c * (i \div c) = j - c * (j \div c)
    BY DivMod
  <1>3. j - i = c * p
    BY <1>1, <1>2
  <1>4. p \in Int
    BY <1>1
  <1> HIDE DEF p
  <1>5. p > 0 => c * p >= c
    BY <1>4
  <1>6. p <= 0 => c * p <= 0
    BY <1>4
  <1> QED
    BY <1>3, <1>4, <1>5, <1>6

\* The slot of index i in the array the deque began with.
Slot(i) == slots[InitCapacity][i % InitCapacity]

\* A pop owns its task from its load of top until it returns it.
InFlight == popPC \in {"tasks", "slot"} /\ popT < popB

\* No array was replaced, and every pointer leads to the first one.
Fixed ==
    /\ tasks = InitCapacity /\ capacity = InitCapacity /\ mask = InitCapacity - 1
    /\ freed = {}
    /\ pushPC \notin {"sizes", "free"}
    /\ popArr = InitCapacity
    /\ \A h \in Thieves : stealArr[h] = InitCapacity

\* The tasks in the deque are in their slots, and a local copy of a slot is
\* right as long as its owner can still claim the index it was read for.
Stored ==
    /\ \A i \in Live : Slot(i) = log[i]
    /\ pushPC \in {"slot", "bottom"} => pushB - pushT < InitCapacity - 1
    /\ pushPC = "bottom" => Slot(pushB) = accepted + 1
    /\ InFlight => /\ Slot(popB) = log[popB]
                   /\ log[popB] \in 1..accepted /\ claims[log[popB]] = 1
    /\ popPC = "cas" /\ top = popB => popTask = log[popB]
    /\ \A h \in Thieves : stealPC[h] = "cas" /\ stealT[h] = top => stealTask[h] = log[top]

\* What was returned is what was claimed, the task in flight excepted.
Returned ==
    \A v \in Values : got[v] = IF InFlight /\ v = log[popB] THEN 0 ELSE claims[v]

SlotInv == Fixed /\ Stored /\ Returned

\* The slots are right when the deque is created.
LEMMA SlotInit == Init => SlotInv
  BY DEF Init, SlotInv, Fixed, Stored, Returned, Live, LogicalBottom, InFlight

\* A step that publishes no new array keeps every pointer on the first one.
LEMMA FixedStep ==
    ASSUME Fixed, IndInv, [Next]_vars, Unresized' PROVE Fixed'
  <1>1. InitCapacity \in Nat
    OBVIOUS
  <1>2. CASE UNCHANGED vars
    BY <1>2 DEF Fixed, vars, deque, pushVars, popVars, stealVars
  <1>3. CASE Push
    <2>1. ~ResizePublish /\ ~ResizeSizes /\ ~ResizeFree
      BY <1>1 DEF Fixed, Unresized, ResizePublish, ResizeSizes, ResizeFree
    <2> QED
      BY <1>3, <2>1 DEF Fixed, Push, PushLoadBottom, PushLoadTop, ResizeCopy, ResizeRefused,
                        PushRecheck, PushStoreSlot, PushStoreBottom, deque, popVars, stealVars
  <1>4. CASE Pop
    BY <1>4 DEF Fixed, Pop, PopLoadBottom, PopStoreBottom, PopLoadTop, PopLoadTasks, PopReadSlot,
                PopCAS, PopCASFail, PopRestore, deque, pushVars, stealVars
  <1>5. ASSUME NEW h \in Thieves, Steal(h) PROVE Fixed'
    <2>1. stealArr \in [Thieves -> Arrays]
      BY DEF IndInv, TypeOK, StealType
    <2>2. UNCHANGED <<tasks, capacity, mask, freed, pushPC, popArr>>
      BY <1>5 DEF Steal, StealLoadTop, StealLoadBottom, StealLoadTasks, StealReadSlot, StealCAS,
                  StealCASFail, deque, pushVars, popVars
    <2>3. stealArr' = stealArr \/ stealArr' = [stealArr EXCEPT ![h] = tasks]
      BY <1>5 DEF Steal, StealLoadTop, StealLoadBottom, StealLoadTasks, StealReadSlot, StealCAS,
                  StealCASFail
    <2> QED
      BY <2>1, <2>2, <2>3 DEF Fixed
  <1>6. CASE Destroy
    BY <1>6 DEF Fixed, Destroy, deque, pushVars, popVars, stealVars
  <1> QED
    BY <1>2, <1>3, <1>4, <1>5, <1>6 DEF Next

\* Before a resize, reading a slot gives the slot of the first array.
LEMMA SlotRead ==
    ASSUME TypeOK, Fixed, NEW i \in Indices
    PROVE  /\ ReadSlot(InitCapacity, mask, i) = Slot(i)
           /\ slots[tasks][Ring(mask, i)] = Slot(i)
           /\ Slot(i) \in Values
  <1>1. Ring(mask, i) = i % InitCapacity /\ i % InitCapacity \in 0..(InitCapacity - 1)
    BY DEF Fixed, Ring
  <1>2. slots[tasks][Ring(mask, i)] = Slot(i)
    BY <1>1 DEF Fixed, Slot
  <1>3. ReadSlot(InitCapacity, mask, i) = Slot(i)
    BY <1>1, <1>2 DEF ReadSlot, Fixed
  <1>4. InitCapacity \in Arrays /\ mask \in Nat /\ mask + 1 \in Arrays
    BY DEF TypeOK, DequeType
  <1>5. DequeType
    BY DEF TypeOK
  <1> QED
    BY <1>2, <1>3, <1>4, <1>5, ReadSlotType

\* The live indices are the ones between top and the logical bottom.
LEMMA LiveBounds ==
    ASSUME IndInv
    PROVE  /\ \A i \in Live : i \in Indices /\ top <= i /\ i < LogicalBottom
           /\ life = "live" => \A i \in Nat : top <= i /\ i < LogicalBottom => i \in Live
  <1>1. TypeOK /\ Span
    BY DEF IndInv, Phases
  <1>2. accepted <= MaxTasks
    BY <1>1 DEF TypeOK, HistoryType
  <1> QED
    BY <1>1, <1>2, Numbers DEF Live, Span

\* push_bottom overwrites no slot that is still needed.
LEMMA StoredPush ==
    ASSUME ~SharedPush, IndInv, SlotInv, Push, Unresized'
    PROVE  Stored'
  <1>1. TypeOK /\ Phases /\ Fixed /\ Stored
    BY DEF IndInv, SlotInv
  <1>2. /\ UNCHANGED <<top, popVars, stealVars, life, claims>>
        /\ popPC = "idle" /\ life = "live"
    <2>1. UNCHANGED <<top, popVars, stealVars, life, claims>>
      BY DEF Push, PushLoadBottom, PushLoadTop, ResizeCopy, ResizeRefused, ResizePublish,
             ResizeSizes, ResizeFree, PushRecheck, PushStoreSlot, PushStoreBottom, deque, history
    <2>2. CASE PushLoadBottom
      BY <2>1, <2>2 DEF PushLoadBottom
    <2>3. CASE pushPC # "idle"
      BY <1>1, <2>1, <2>3 DEF Phases, PushPhase, LifePhase, TypeOK, DequeType
    <2> QED
      BY <2>1, <2>2, <2>3 DEF Push, PushLoadTop, ResizeCopy, ResizeRefused, ResizePublish,
           ResizeSizes, ResizeFree, PushRecheck, PushStoreSlot, PushStoreBottom
  <1>3. ~InFlight' /\ popPC' # "cas"
    BY <1>2 DEF InFlight, popVars
  <1>4. ~ResizePublish /\ ~ResizeSizes /\ ~ResizeFree
    <2>1. InitCapacity \in Nat \ {0}
      OBVIOUS
    <2> QED
      BY <1>1, <2>1 DEF Fixed, Unresized, ResizePublish, ResizeSizes, ResizeFree
  <1>5. CASE PushLoadBottom \/ PushLoadTop \/ ResizeCopy \/ ResizeRefused \/ PushRecheck
    <2>1. UNCHANGED <<bottom, history>> /\ slots'[InitCapacity] = slots[InitCapacity]
      <3>1. CASE ResizeCopy
        <4>1. 2 * capacity # InitCapacity
          BY <1>1 DEF Fixed
        <4>2. slots' = [slots EXCEPT ![2 * capacity] = slots'[2 * capacity]]
          BY <1>1, <3>1 DEF ResizeCopy, TypeOK, DequeType
        <4> QED
          BY <3>1, <4>1, <4>2 DEF ResizeCopy
      <3> QED
        BY <1>5, <3>1 DEF PushLoadBottom, PushLoadTop, ResizeRefused, PushRecheck, deque
    <2>2. \A i \in Live' : Slot(i)' = log'[i]
      BY <1>1, <1>2, <2>1 DEF Stored, Slot, Live, LogicalBottom, popVars, history
    <2>3. pushPC' \in {"slot", "bottom"} => pushPC' = "slot" /\ pushB' - pushT' < InitCapacity - 1
      BY <1>1, <1>5, Numbers DEF PushLoadBottom, PushLoadTop, ResizeCopy, ResizeRefused,
                                 PushRecheck, Full, Fixed
    <2>4. \A h \in Thieves : stealPC'[h] = "cas" /\ stealT'[h] = top' => stealTask'[h] = log'[top']
      BY <1>1, <1>2, <2>1 DEF Stored, stealVars, history
    <2> QED
      BY <1>3, <2>2, <2>3, <2>4 DEF Stored
  <1>6. CASE PushStoreSlot
    <2>1. UNCHANGED <<bottom, tasks, pushB, pushT, history>> /\ pushPC = "slot" /\ pushPC' = "bottom"
      BY <1>6 DEF PushStoreSlot
    <2>2. /\ pushB - pushT < InitCapacity - 1 /\ pushT <= top /\ pushB = bottom
          /\ LogicalBottom = bottom /\ Live' = Live
      BY <1>1, <1>2, <2>1 DEF Stored, Phases, PushPhase, Live, LogicalBottom, popVars
    <2>3. pushB \in Nat /\ pushT \in Nat /\ top \in Nat /\ pushB \in Indices
      BY <1>1, Numbers DEF TypeOK, PushType
    <2>4. ASSUME NEW i \in Live PROVE i % InitCapacity # pushB % InitCapacity
      <3>1. i \in Nat /\ top <= i /\ i < pushB
        BY <2>2, LiveBounds
      <3>2. pushB - i < InitCapacity
        BY <2>2, <2>3, <3>1
      <3>3. InitCapacity \in Nat \ {0}
        OBVIOUS
      <3> QED
        BY <2>3, <3>1, <3>2, <3>3, RingDistinct
    <2>5. slots \in [Arrays -> [0..(MaxCapacity - 1) -> Values]] /\ InitCapacity \in Arrays
      BY <1>1 DEF TypeOK, DequeType
    <2>6. pushB % InitCapacity \in 0..(MaxCapacity - 1)
      BY <2>3
    <2>7. slots' = [slots EXCEPT ![InitCapacity][pushB % InitCapacity] = accepted + 1]
      <3>1. tasks = InitCapacity /\ Ring(mask, pushB) = pushB % InitCapacity
        BY <1>1 DEF Fixed, Ring
      <3> QED
        BY <1>6, <3>1 DEF PushStoreSlot
    <2>8. slots'[InitCapacity] = [slots[InitCapacity] EXCEPT ![pushB % InitCapacity] = accepted + 1]
      BY <2>5, <2>7
    <2>9. slots[InitCapacity] \in [0..(MaxCapacity - 1) -> Values]
      BY <2>5
    <2>10. slots'[InitCapacity][pushB % InitCapacity] = accepted + 1
      BY <2>6, <2>8, <2>9
    <2>11. ASSUME NEW i \in Live PROVE slots'[InitCapacity][i % InitCapacity] = log[i]
      <3>1. i \in Indices /\ Slot(i) = log[i]
        BY <1>1, LiveBounds DEF Stored
      <3>2. i % InitCapacity \in 0..(MaxCapacity - 1)
        BY <3>1
      <3> QED
        BY <2>4, <2>8, <2>9, <3>1, <3>2 DEF Slot
    <2>12. \A h \in Thieves : stealPC'[h] = "cas" /\ stealT'[h] = top' => stealTask'[h] = log'[top']
      BY <1>1, <1>2, <2>1 DEF Stored, stealVars, history
    <2>13. \A i \in Live' : Slot(i)' = log'[i]
      BY <2>1, <2>2, <2>11 DEF Slot, history
    <2>14. Slot(pushB)' = accepted' + 1
      BY <2>1, <2>10 DEF Slot, history
    <2> QED
      BY <1>3, <2>1, <2>2, <2>12, <2>13, <2>14 DEF Stored
  <1>7. CASE PushStoreBottom
    <2>1. /\ UNCHANGED slots /\ pushPC = "bottom" /\ pushPC' = "idle" /\ pushB = bottom
          /\ bottom' = bottom + 1 /\ log' = [log EXCEPT ![bottom] = accepted + 1]
      BY <1>1, <1>7 DEF PushStoreBottom, Phases, PushPhase
    <2>2. log \in [Indices -> NULL..MaxTasks] /\ bottom \in Indices /\ top \in Indices
      BY <1>1 DEF TypeOK, HistoryType, DequeType
    <2>3. Live = top..(bottom - 1) /\ Live' = top..bottom /\ LogicalBottom = bottom
      BY <1>1, <1>2, <2>1, Numbers DEF Live, LogicalBottom, popVars
    <2>4. \A i \in Live : i \in Indices /\ i # bottom
      BY <2>2, <2>3, LiveBounds
    <2>5. \A i \in Live' : i \in Live \/ i = bottom
      BY <2>2, <2>3
    <2>6. log'[bottom] = Slot(bottom)
      BY <1>1, <2>1, <2>2 DEF Stored
    <2>7. \A i \in Live' : Slot(i)' = log'[i]
      BY <1>1, <2>1, <2>2, <2>4, <2>5, <2>6 DEF Stored, Slot
    <2>8. \A h \in Thieves : stealPC'[h] = "cas" /\ stealT'[h] = top' => stealTask'[h] = log'[top']
      <3> SUFFICES ASSUME NEW h \in Thieves, stealPC'[h] = "cas", stealT'[h] = top'
                   PROVE  stealTask'[h] = log'[top']
        OBVIOUS
      <3>1. stealPC[h] = "cas" /\ stealT[h] = top /\ stealTask'[h] = stealTask[h]
        BY <1>2 DEF stealVars
      <3>2. top < bottom
        BY <1>1, <2>3, <3>1 DEF Phases, StealPhase
      <3>3. log'[top] = log[top]
        BY <2>1, <2>2, <3>2
      <3> QED
        BY <1>1, <1>2, <3>1, <3>3 DEF Stored
    <2> QED
      BY <1>3, <2>1, <2>7, <2>8 DEF Stored
  <1> QED
    BY <1>4, <1>5, <1>6, <1>7 DEF Push

\* pop_bottom keeps the slots right.
LEMMA StoredPop == ASSUME ~SharedPush, IndInv, SlotInv, Pop PROVE Stored'
  <1>1. TypeOK /\ Phases /\ ClaimInv /\ Fixed /\ Stored
    BY DEF IndInv, SlotInv
  <1>2. /\ UNCHANGED <<slots, pushVars, stealVars, accepted, log, life>>
        /\ pushPC = "idle" /\ life = "live"
    <2>1. UNCHANGED <<slots, pushVars, stealVars, accepted, log, life>>
      BY DEF Pop, PopLoadBottom, PopStoreBottom, PopLoadTop, PopLoadTasks, PopReadSlot, PopCAS,
             PopCASFail, PopRestore, deque, history
    <2>2. CASE PopLoadBottom
      BY <2>1, <2>2 DEF PopLoadBottom
    <2>3. CASE popPC # "idle"
      BY <1>1, <2>1, <2>3 DEF Phases, PushPhase, LifePhase, TypeOK, DequeType
    <2> QED
      BY <2>1, <2>2, <2>3 DEF Pop, PopStoreBottom, PopLoadTop, PopLoadTasks, PopReadSlot, PopCAS,
                              PopCASFail, PopRestore
  <1>3. pushPC' = "idle"
    BY <1>2 DEF pushVars
  <1>4. \/ top' = top /\ LogicalBottom' = LogicalBottom
        \/ top' = top /\ LogicalBottom' = LogicalBottom - 1
        \/ top' = top + 1 /\ LogicalBottom' = LogicalBottom
    BY <1>1, Numbers DEF Phases, PopPhase, Span, LogicalBottom, Pop, PopLoadBottom, PopStoreBottom,
           PopLoadTop, PopLoadTasks, PopReadSlot, PopCAS, PopCASFail, PopRestore, deque
  <1>5. \A i \in Live' : i \in Live
    BY <1>1, <1>2, <1>4, Numbers DEF Live
  <1>6. \A i \in Live' : Slot(i)' = log'[i]
    BY <1>1, <1>2, <1>5 DEF Stored, Slot
  <1>7. \A h \in Thieves : stealPC'[h] = "cas" /\ stealT'[h] = top' => stealTask'[h] = log'[top']
    <2> SUFFICES ASSUME NEW h \in Thieves, stealPC'[h] = "cas", stealT'[h] = top'
                 PROVE  stealTask'[h] = log'[top']
      OBVIOUS
    <2>1. stealPC[h] = "cas" /\ stealT[h] = top' /\ stealTask'[h] = stealTask[h]
      BY <1>2 DEF stealVars
    <2>2. stealT[h] <= top /\ top \in Nat
      BY <1>1, <2>1, Numbers DEF Phases, StealPhase
    <2>3. top' = top
      BY <1>4, <2>1, <2>2
    <2> QED
      BY <1>1, <1>2, <2>1, <2>3 DEF Stored
  <1>8. InFlight' => /\ Slot(popB)' = log'[popB']
                     /\ log'[popB'] \in 1..accepted' /\ claims'[log'[popB']] = 1
    <2>1. CASE PopLoadTop /\ top < popB
      <3>1. popB' = popB /\ claims' = [claims EXCEPT ![log[popB]] = claims[log[popB]] + 1]
        BY <2>1 DEF PopLoadTop, Claim
      <3>2. popB \in Live
        BY <1>1, <1>2, <2>1, Numbers DEF Live, LogicalBottom, PopLoadTop
      <3>3. log[popB] \in 1..accepted /\ claims[log[popB]] = 0
        BY <1>1, <3>2 DEF ClaimInv
      <3>4. claims \in [Values -> Nat] /\ accepted \in 0..MaxTasks
        BY <1>1 DEF TypeOK, HistoryType
      <3>5. log[popB] \in Values
        BY <3>3, <3>4
      <3>6. claims'[log[popB]] = 1
        BY <3>1, <3>3, <3>4, <3>5
      <3> QED
        BY <1>1, <1>2, <3>1, <3>2, <3>3, <3>6 DEF Stored, Slot
    <2>2. CASE PopLoadTasks
      BY <1>1, <1>2, <2>2 DEF PopLoadTasks, InFlight, Stored, Slot, history
    <2>3. CASE ~PopLoadTasks /\ ~(PopLoadTop /\ top < popB)
      <3>1. ~InFlight'
        BY <1>1, <2>3, Numbers DEF Pop, PopLoadBottom, PopStoreBottom, PopLoadTop, PopReadSlot,
                                   PopCAS, PopCASFail, PopRestore, InFlight
      <3> QED
        BY <3>1
    <2> QED
      BY <2>1, <2>2, <2>3
  <1>9. popPC' = "cas" /\ top' = popB' => popTask' = log'[popB']
    <2> SUFFICES ASSUME popPC' = "cas", top' = popB' PROVE popTask' = log'[popB']
      OBVIOUS
    <2>1. PopReadSlot /\ popT = popB
      BY DEF Pop, PopLoadBottom, PopStoreBottom, PopLoadTop, PopLoadTasks, PopReadSlot, PopCAS,
             PopCASFail, PopRestore
    <2>2. popB' = popB /\ top = popB
      BY <2>1 DEF PopReadSlot, deque
    <2>3. popB \in Live
      BY <1>1, <1>2, <2>1, <2>2, Numbers DEF Live, LogicalBottom, PopReadSlot
    <2>4. popB \in Indices /\ popArr = InitCapacity
      BY <1>1 DEF TypeOK, PopType, Fixed
    <2>5. popTask' = Slot(popB)
      BY <1>1, <2>1, <2>4, SlotRead DEF PopReadSlot
    <2> QED
      BY <1>1, <1>2, <2>2, <2>3, <2>5 DEF Stored
  <1> QED
    BY <1>3, <1>6, <1>7, <1>8, <1>9 DEF Stored

\* steal_top keeps the slots right.
LEMMA StoredSteal == ASSUME IndInv, SlotInv, NEW h \in Thieves, Steal(h) PROVE Stored'
  <1>1. TypeOK /\ Phases /\ ClaimInv /\ Fixed /\ Stored
    BY DEF IndInv, SlotInv
  <1>2. UNCHANGED <<slots, bottom, pushVars, popVars, accepted, log, life>>
    BY DEF Steal, StealLoadTop, StealLoadBottom, StealLoadTasks, StealReadSlot, StealCAS,
           StealCASFail, deque, history
  <1>3. life = "live"
    BY <1>1 DEF Phases, LifePhase, TypeOK, DequeType, Steal, StealLoadTop, StealLoadBottom,
                StealLoadTasks, StealReadSlot, StealCAS, StealCASFail
  <1>4. LogicalBottom' = LogicalBottom
    BY <1>2 DEF LogicalBottom, popVars
  <1>5. ASSUME StealCAS(h) PROVE top \in Live /\ top' = top + 1 /\ stealT[h] = top
    <2>1. top' = top + 1 /\ stealT[h] = top /\ top < LogicalBottom
      BY <1>1, <1>5 DEF StealCAS, Phases, StealPhase
    <2> QED
      BY <1>1, <1>3, <2>1, Numbers DEF Live
  <1>6. ASSUME ~StealCAS(h) PROVE top' = top /\ claims' = claims
    BY <1>6 DEF Steal, StealLoadTop, StealLoadBottom, StealLoadTasks, StealReadSlot,
                StealCASFail, deque, history
  <1>7. top' = top \/ top' = top + 1
    BY <1>5, <1>6
  <1>8. \A i \in Live' : i \in Live
    BY <1>1, <1>2, <1>4, <1>7, Numbers DEF Live
  <1>9. \A i \in Live' : Slot(i)' = log'[i]
    BY <1>1, <1>2, <1>8 DEF Stored, Slot
  <1>10. InFlight' => /\ Slot(popB)' = log'[popB']
                      /\ log'[popB'] \in 1..accepted' /\ claims'[log'[popB']] = 1
    <2> SUFFICES ASSUME InFlight' PROVE claims'[log[popB]] = 1 /\ InFlight
      BY <1>1, <1>2 DEF Stored, Slot, popVars
    <2>1. InFlight
      BY <1>2 DEF InFlight, popVars
    <2>2. log[popB] \in 1..accepted /\ claims[log[popB]] = 1
      BY <1>1, <2>1 DEF Stored
    <2>3. CASE StealCAS(h)
      <3>1. claims[log[top]] = 0
        BY <1>1, <1>5, <2>3 DEF ClaimInv
      <3>2. claims' = [claims EXCEPT ![log[top]] = claims[log[top]] + 1]
        BY <1>5, <2>3 DEF StealCAS, Claim
      <3>3. claims \in [Values -> Nat] /\ accepted \in 0..MaxTasks
        BY <1>1 DEF TypeOK, HistoryType
      <3>4. log[popB] \in Values
        BY <2>2, <3>3
      <3> QED
        BY <2>1, <2>2, <3>1, <3>2, <3>3, <3>4
    <2>4. CASE ~StealCAS(h)
      BY <1>6, <2>1, <2>2, <2>4
    <2> QED
      BY <2>3, <2>4
  <1>11. popPC' = "cas" /\ top' = popB' => popTask' = log'[popB']
    <2> SUFFICES ASSUME popPC' = "cas", top' = popB' PROVE popTask' = log'[popB']
      OBVIOUS
    <2>1. popPC = "cas" /\ popT = popB /\ popT <= top /\ popB' = popB /\ popTask' = popTask
      BY <1>1, <1>2 DEF Phases, PopPhase, popVars
    <2>2. top = popB
      BY <1>1, <1>7, <2>1, Numbers
    <2> QED
      BY <1>1, <1>2, <2>1, <2>2 DEF Stored
  <1>12. ASSUME NEW g \in Thieves, stealPC'[g] = "cas", stealT'[g] = top'
         PROVE  stealTask'[g] = log'[top']
    <2>1. stealPC \in [Thieves -> {"idle", "bottom", "tasks", "slot", "cas"}]
      BY <1>1 DEF TypeOK, StealType
    <2>2. stealTask \in [Thieves -> Values] /\ stealT \in [Thieves -> Indices]
      BY <1>1 DEF TypeOK, StealType
    <2>3. CASE StealReadSlot(h) /\ g = h
      <3>1. stealT[h] = top /\ stealPC[h] = "slot" /\ top' = top
        BY <1>12, <2>3 DEF StealReadSlot, deque
      <3>2. top \in Live
        BY <1>1, <1>3, <3>1, Numbers DEF Live, Phases, StealPhase
      <3>3. stealTask'[h] = ReadSlot(stealArr[h], mask, top)
        BY <2>2, <2>3, <3>1 DEF StealReadSlot
      <3>4. stealArr[h] = InitCapacity /\ top \in Indices
        BY <1>1 DEF Fixed, TypeOK, DequeType
      <3>5. stealTask'[h] = Slot(top)
        BY <1>1, <3>3, <3>4, SlotRead
      <3> QED
        BY <1>1, <1>2, <2>3, <3>1, <3>2, <3>5 DEF Stored
    <2>4. CASE StealReadSlot(h) /\ g # h
      <3>1. stealPC[g] = "cas" /\ stealT[g] = top /\ top' = top /\ stealTask'[g] = stealTask[g]
        BY <1>12, <2>1, <2>2, <2>4 DEF StealReadSlot, deque
      <3> QED
        BY <1>1, <1>2, <3>1 DEF Stored
    <2>5. CASE ~StealReadSlot(h)
      <3>1. stealPC[g] = "cas" /\ stealTask'[g] = stealTask[g] /\ stealT[g] = top'
        BY <1>12, <2>1, <2>2, <2>5 DEF Steal, StealLoadTop, StealLoadBottom, StealLoadTasks,
                                       StealCAS, StealCASFail
      <3>2. stealT[g] <= top
        BY <1>1, <3>1 DEF Phases, StealPhase
      <3>3. top' = top
        BY <1>1, <1>7, <3>1, <3>2, Numbers
      <3> QED
        BY <1>1, <1>2, <3>1, <3>3 DEF Stored
    <2> QED
      BY <2>3, <2>4, <2>5
  <1>13. /\ pushPC' \in {"slot", "bottom"} => pushB' - pushT' < InitCapacity - 1
         /\ pushPC' = "bottom" => Slot(pushB)' = accepted' + 1
    BY <1>1, <1>2 DEF Stored, Slot, pushVars
  <1> QED
    BY <1>9, <1>10, <1>11, <1>12, <1>13 DEF Stored

\* Claiming a task and returning it in the same step keeps the two counts equal.
LEMMA ReturnOne ==
    ASSUME TypeOK, Returned, NEW i \in Live, ClaimInv, Claim(i), Return(log[i]),
           InFlight' <=> InFlight, log' = log, popB' = popB,
           InFlight => claims[log[popB]] = 1
    PROVE  Returned'
  <1>1. claims \in [Values -> Nat] /\ got \in [Values -> Nat]
    BY DEF TypeOK, HistoryType
  <1>2. log[i] \in 1..accepted /\ claims[log[i]] = 0
    BY DEF ClaimInv
  <1>3. log[i] \in Values
    <2>1. accepted \in 0..MaxTasks
      BY DEF TypeOK, HistoryType
    <2> QED
      BY <1>2, <2>1
  <1>4. /\ claims' = [claims EXCEPT ![log[i]] = claims[log[i]] + 1]
        /\ got' = [got EXCEPT ![log[i]] = got[log[i]] + 1]
    BY DEF Claim, Return
  <1>5. got[log[i]] = 0
    BY <1>2, <1>3 DEF Returned
  <1>6. claims'[log[i]] = 1 /\ got'[log[i]] = 1
    BY <1>1, <1>2, <1>3, <1>4, <1>5
  <1>7. \A v \in Values : v # log[i] => claims'[v] = claims[v] /\ got'[v] = got[v]
    BY <1>1, <1>4
  <1>8. InFlight => log[popB] # log[i]
    BY <1>2
  <1> HIDE DEF Values
  <1> QED
    BY <1>6, <1>7, <1>8 DEF Returned

\* Every step returns what it claimed.
LEMMA ReturnedStep ==
    ASSUME ~SharedPush, IndInv, SlotInv, [Next]_vars PROVE Returned'
  <1>1. TypeOK /\ Phases /\ ClaimInv /\ Fixed /\ Stored /\ Returned
    BY DEF IndInv, SlotInv
  <1>2. InFlight => claims[log[popB]] = 1
    BY <1>1 DEF Stored
  <1>3. claims \in [Values -> Nat] /\ got \in [Values -> Nat]
    BY <1>1 DEF TypeOK, HistoryType
  <1>4. ASSUME InFlight' <=> InFlight, UNCHANGED <<popB, log, claims, got>> PROVE Returned'
    BY <1>1, <1>4 DEF Returned
  <1>5. CASE UNCHANGED vars
    BY <1>4, <1>5 DEF vars, popVars, history, InFlight
  <1>6. CASE Push
    <2>1. UNCHANGED <<popVars, claims, got>>
      BY <1>6 DEF Push, PushLoadBottom, PushLoadTop, ResizeCopy, ResizeRefused, ResizePublish,
             ResizeSizes, ResizeFree, PushRecheck, PushStoreSlot, PushStoreBottom, history
    <2>2. CASE PushStoreBottom
      <3>1. popPC = "idle"
        BY <1>1, <2>2 DEF PushStoreBottom, Phases, PushPhase
      <3> QED
        BY <1>1, <2>1, <3>1 DEF Returned, InFlight, popVars
    <2>3. ASSUME ~PushStoreBottom PROVE log' = log
      BY <1>6, <2>3 DEF Push, PushLoadBottom, PushLoadTop, ResizeCopy, ResizeRefused,
             ResizePublish, ResizeSizes, ResizeFree, PushRecheck, PushStoreSlot, history
    <2> QED
      BY <1>4, <2>1, <2>2, <2>3 DEF InFlight, popVars
  <1>7. ASSUME Pop PROVE life = "live"
    BY <1>1, <1>7 DEF Phases, LifePhase, TypeOK, DequeType, Pop, PopLoadBottom, PopStoreBottom,
          PopLoadTop, PopLoadTasks, PopReadSlot, PopCAS, PopCASFail, PopRestore
  <1>8. CASE PopLoadTop /\ top < popB
    <2>1. /\ claims' = [claims EXCEPT ![log[popB]] = claims[log[popB]] + 1]
          /\ UNCHANGED <<popB, log, got>> /\ ~InFlight /\ InFlight'
      BY <1>1, <1>8, Numbers DEF PopLoadTop, Claim, InFlight
    <2>2. popB \in Live
      BY <1>1, <1>7, <1>8, Numbers DEF Live, LogicalBottom, PopLoadTop, Pop
    <2>3. claims[log[popB]] = 0 /\ log[popB] \in 1..accepted
      BY <1>1, <2>2 DEF ClaimInv
    <2>4. log[popB] \in Values
      <3>1. accepted \in 0..MaxTasks
        BY <1>1 DEF TypeOK, HistoryType
      <3> QED
        BY <2>3, <3>1
    <2>5. \A v \in Values : v # log[popB] => claims'[v] = claims[v]
      BY <1>3, <2>1
    <2>6. \A v \in Values : got[v] = claims[v]
      BY <1>1, <2>1 DEF Returned
    <2> HIDE DEF Values
    <2> QED
      BY <2>1, <2>3, <2>4, <2>5, <2>6 DEF Returned
  <1>9. CASE PopReadSlot /\ popT < popB
    <2>1. InFlight /\ ~InFlight' /\ UNCHANGED <<popB, log, claims>>
      BY <1>9 DEF InFlight, PopReadSlot
    <2>2. Slot(popB) = log[popB] /\ claims[log[popB]] = 1 /\ log[popB] \in 1..accepted
      BY <1>1, <2>1 DEF Stored
    <2>3. log[popB] \in Values
      <3>1. accepted \in 0..MaxTasks
        BY <1>1 DEF TypeOK, HistoryType
      <3> QED
        BY <2>2, <3>1
    <2>4. popB \in Indices /\ popArr = InitCapacity /\ popB \in Nat /\ popT \in Nat
      BY <1>1, Numbers DEF TypeOK, PopType, Fixed
    <2>5. ReadSlot(popArr, mask, popB) = log[popB]
      BY <1>1, <2>2, <2>4, SlotRead
    <2>6. got' = [got EXCEPT ![log[popB]] = got[log[popB]] + 1]
      BY <1>9, <2>4, <2>5 DEF PopReadSlot, Return
    <2>7. got[log[popB]] = 0
      BY <1>1, <2>1, <2>3 DEF Returned
    <2>8. got'[log[popB]] = 1 /\ \A v \in Values : v # log[popB] => got'[v] = got[v]
      BY <1>3, <2>3, <2>6, <2>7
    <2> HIDE DEF Values
    <2> QED
      BY <1>1, <2>1, <2>2, <2>8 DEF Returned
  <1>10. CASE PopCAS
    <2>1. top = popB /\ popTask = log[popB] /\ ~InFlight /\ ~InFlight' /\ log' = log /\ popB' = popB
      BY <1>1, <1>10 DEF PopCAS, Phases, PopPhase, Stored, InFlight
    <2>2. popB \in Live
      BY <1>1, <1>7, <1>10, <2>1, Numbers DEF Live, LogicalBottom, PopCAS, Pop
    <2>3. Claim(popB) /\ Return(log[popB])
      BY <1>10, <2>1 DEF PopCAS
    <2> QED
      BY <1>1, <1>2, <2>1, <2>2, <2>3, ReturnOne
  <1>11. CASE Pop /\ ~(PopLoadTop /\ top < popB) /\ ~(PopReadSlot /\ popT < popB) /\ ~PopCAS
    <2>1. UNCHANGED <<log, claims, got>>
      BY <1>11 DEF Pop, PopLoadBottom, PopStoreBottom, PopLoadTop, PopLoadTasks, PopReadSlot,
            PopCASFail, PopRestore, history
    <2>2. CASE PopLoadBottom
      BY <1>1, <2>1, <2>2 DEF PopLoadBottom, InFlight, Returned
    <2>3. CASE ~PopLoadBottom
      <3>1. popB' = popB
        BY <1>11, <2>3 DEF Pop, PopStoreBottom, PopLoadTop, PopLoadTasks, PopReadSlot, PopCASFail,
              PopRestore
      <3>2. InFlight' <=> InFlight
        BY <1>1, <1>11, <2>3, Numbers DEF Pop, PopStoreBottom, PopLoadTop, PopLoadTasks,
              PopReadSlot, PopCASFail, PopRestore, InFlight
      <3> QED
        BY <1>4, <2>1, <3>1, <3>2
    <2> QED
      BY <2>2, <2>3
  <1>12. ASSUME NEW h \in Thieves, StealCAS(h) PROVE Returned'
    <2>1. /\ stealT[h] = top /\ stealTask[h] = log[top] /\ log' = log /\ UNCHANGED popVars
          /\ top < LogicalBottom
      BY <1>1, <1>12 DEF StealCAS, Stored, Phases, StealPhase
    <2>2. (InFlight' <=> InFlight) /\ popB' = popB
      BY <2>1 DEF InFlight, popVars
    <2>3. life = "live"
      BY <1>1, <1>12 DEF Phases, LifePhase, TypeOK, DequeType, StealCAS
    <2>4. top \in Live
      BY <1>1, <2>1, <2>3, Numbers DEF Live
    <2>5. Claim(top) /\ Return(log[top])
      BY <1>12, <2>1 DEF StealCAS
    <2> QED
      BY <1>1, <1>2, <2>1, <2>2, <2>4, <2>5, ReturnOne
  <1>13. ASSUME NEW h \in Thieves, Steal(h), ~StealCAS(h) PROVE Returned'
    <2>1. UNCHANGED <<popVars, history>>
      BY <1>13 DEF Steal, StealLoadTop, StealLoadBottom, StealLoadTasks, StealReadSlot,
            StealCASFail
    <2> QED
      BY <1>4, <2>1 DEF InFlight, popVars, history
  <1>14. CASE Destroy
    <2> DEFINE Left(k) == {i \in top..(bottom - 1) : log[i] = k}
               Held(v) == {i \in top..(bottom - 1) : slots[tasks][Ring(mask, i)] = v}
    <2>1. ~InFlight /\ ~InFlight' /\ life = "live" /\ Live = top..(bottom - 1)
      BY <1>14 DEF Destroy, InFlight, Live, LogicalBottom, popVars
    <2>2. \A i \in top..(bottom - 1) : slots[tasks][Ring(mask, i)] = log[i]
      BY <1>1, <2>1, LiveBounds, SlotRead DEF Stored
    <2>3. \A v : Held(v) = Left(v)
      BY <2>2
    <2>4. /\ claims' = [k \in Values |-> claims[k] + Cardinality(Left(k))]
          /\ got' = [v \in Values |-> got[v] + Cardinality(Held(v))]
      BY <1>14 DEF Destroy
    <2>5. \A v \in Values : got[v] = claims[v]
      BY <1>1, <2>1 DEF Returned
    <2> HIDE DEF Values, Left, Held
    <2> QED
      BY <2>1, <2>3, <2>4, <2>5 DEF Returned
  <1> QED
    BY <1>5, <1>6, <1>8, <1>9, <1>10, <1>11, <1>12, <1>13, <1>14 DEF Next

\* Every step that publishes no new array keeps the slots right.
LEMMA SlotStep ==
    ASSUME ~SharedPush, IndInv, SlotInv, [Next]_vars, Unresized'
    PROVE  SlotInv'
  <1>1. Fixed'
    BY FixedStep DEF SlotInv
  <1>2. Stored'
    <2>1. CASE UNCHANGED vars
      BY <2>1 DEF SlotInv, Stored, Slot, Live, LogicalBottom, InFlight, vars, deque, pushVars,
                  popVars, stealVars, history
    <2>2. CASE Destroy
      BY <2>2 DEF SlotInv, Stored, Live, InFlight, Destroy, pushVars, popVars, stealVars
    <2> QED
      BY <2>1, <2>2, StoredPush, StoredPop, StoredSteal DEF Next
  <1> QED
    BY <1>1, <1>2, ReturnedStep DEF SlotInv

-----------------------------------------------------------------------------
(* The theorems about a deque that was not resized yet.                    *)

\* A resize is never undone.
LEMMA UnresizedBefore == ASSUME IndInv, [Next]_vars, Unresized' PROVE Unresized
  <1>1. capacity \in Arrays
    BY DEF IndInv, TypeOK, DequeType
  <1>2. tasks' = tasks \/ tasks' = 2 * capacity
    BY DEF Next, Push, PushLoadBottom, PushLoadTop, ResizeCopy, ResizeRefused, ResizePublish,
           ResizeSizes, ResizeFree, PushRecheck, PushStoreSlot, PushStoreBottom,
           Pop, PopLoadBottom, PopStoreBottom, PopLoadTop, PopLoadTasks, PopReadSlot,
           PopCAS, PopCASFail, PopRestore, Steal, StealLoadTop, StealLoadBottom, StealLoadTasks,
           StealReadSlot, StealCAS, StealCASFail, Destroy, vars, deque
  <1> QED
    BY <1>1, <1>2 DEF Unresized

SlotIndInv == IndInv /\ (Unresized => SlotInv)

\* Until the first resize, the slots and what was returned stay right.
LEMMA SlotInductive == ASSUME ~SharedPush PROVE Spec => []SlotIndInv
  <1>1. Init => SlotIndInv
    BY InitInv, SlotInit DEF SlotIndInv
  <1>2. SlotIndInv /\ [Next]_vars => SlotIndInv'
    <2> SUFFICES ASSUME SlotIndInv, [Next]_vars PROVE SlotIndInv'
      OBVIOUS
    <2>1. IndInv
      BY DEF SlotIndInv
    <2>2. IndInv'
      BY <2>1, TypeStep, PhasesStep, ClaimStep DEF IndInv
    <2>3. ASSUME Unresized' PROVE SlotInv'
      BY <2>1, <2>3, UnresizedBefore, SlotStep DEF SlotIndInv
    <2> QED
      BY <2>2, <2>3 DEF SlotIndInv
  <1> QED
    BY <1>1, <1>2, PTL DEF Spec

\* What was returned is what was claimed.
LEMMA DeliveredFollows == SlotIndInv => Delivered
  <1> SUFFICES ASSUME IndInv, SlotInv PROVE Delivered
    BY DEF SlotIndInv, Delivered
  <1>1. claims \in [Values -> Nat]
    BY DEF IndInv, TypeOK, HistoryType
  <1> HIDE DEF Values
  <1> QED
    BY <1>1 DEF Delivered, SlotInv, Returned, InFlight

\* Until the deque is resized, a pop or a steal returns the very task whose index
\* it claimed, however the slots are reused.
THEOREM DeliveredHolds == ASSUME ~SharedPush PROVE Spec => []Delivered
  BY SlotInductive, DeliveredFollows, PTL

\* The slots of [top, bottom) are the tasks that nobody claimed.
LEMMA ConservedFollows == IndInv /\ SlotInv => Conserved
  <1> SUFFICES ASSUME IndInv, SlotInv, pushPC = "idle", popPC = "idle", NEW k \in 1..accepted
               PROVE  got[k] + (IF life = "destroyed" THEN 0
                                ELSE Cardinality({i \in top..(bottom - 1) :
                                                    slots[tasks][Ring(mask, i)] = k})) = 1
    BY DEF Conserved
  <1>1. TypeOK /\ Fixed /\ Stored /\ Returned /\ ClaimedOnce
    BY ClaimedOnceFollows DEF IndInv, SlotInv
  <1>2. k \in Values
    <2>1. accepted \in 0..MaxTasks
      BY <1>1 DEF TypeOK, HistoryType
    <2> QED
      BY <2>1
  <1>3. got[k] = claims[k]
    BY <1>1, <1>2 DEF Returned, InFlight
  <1>4. claims[k] + Cardinality({i \in Live : log[i] = k}) = 1
    BY <1>1 DEF ClaimedOnce
  <1>5. CASE life = "destroyed"
    <2>1. {i \in Live : log[i] = k} = {}
      BY <1>5 DEF Live
    <2>2. Cardinality({i \in Live : log[i] = k}) = 0
      BY <2>1, FS_EmptySet
    <2>3. claims \in [Values -> Nat]
      BY <1>1 DEF TypeOK, HistoryType
    <2>4. claims[k] \in Nat
      BY <1>2, <2>3
    <2> QED
      BY <1>3, <1>4, <1>5, <2>2, <2>4
  <1>6. CASE life # "destroyed"
    <2>1. Live = top..(bottom - 1)
      BY <1>6 DEF Live, LogicalBottom
    <2>2. \A i \in top..(bottom - 1) : slots[tasks][Ring(mask, i)] = log[i]
      BY <1>1, <2>1, LiveBounds, SlotRead DEF Stored
    <2>3. {i \in top..(bottom - 1) : slots[tasks][Ring(mask, i)] = k} = {i \in Live : log[i] = k}
      BY <2>1, <2>2
    <2> QED
      BY <1>3, <1>4, <1>6, <2>3
  <1> QED
    BY <1>5, <1>6

\* Until it is resized, a quiescent deque has returned every accepted task
\* exactly once or holds it in exactly one slot of [top, bottom).
THEOREM ConservedHolds == ASSUME ~SharedPush PROVE Spec => []ConservedUnresized
  <1>1. SlotIndInv => ConservedUnresized
    BY ConservedFollows DEF SlotIndInv, ConservedUnresized
  <1> QED
    BY <1>1, SlotInductive, PTL

-----------------------------------------------------------------------------
(* The refinement of the atomic deque.                                     *)

\* The tasks logged at the n indices from t on, as a sequence.
Window(t, n, g) == [j \in 1..n |-> g[t + j - 1]]

\* How many tasks the deque holds.
Size == IF life = "destroyed" THEN 0 ELSE LogicalBottom - top

\* f holds v behind the window and what g holds within it.
Extended(f, g, t, n, v) ==
    /\ f \in [Indices -> Nat] /\ f[t + n] = v
    /\ \A j \in 1..n : f[t + j - 1] = g[t + j - 1]

\* A push writes the index behind the window.
LEMMA WindowAppend ==
    ASSUME NEW t \in Nat, NEW n \in Nat, NEW g \in [Indices -> Nat], t + n <= MaxTasks,
           NEW v \in Nat, NEW f, Extended(f, g, t, n, v)
    PROVE  Window(t, n + 1, f) = Append(Window(t, n, g), v)
  <1>1. PICK w : w = Window(t, n, g)
    OBVIOUS
  <1>2. PICK x : x = Window(t, n + 1, f)
    OBVIOUS
  <1>3. PICK y : y = Append(w, v)
    OBVIOUS
  <1>4. w \in Seq(Nat) /\ Len(w) = n /\ \A j \in 1..n : w[j] = g[t + j - 1]
    BY <1>1 DEF Window
  <1>5. f \in [Indices -> Nat] /\ f[t + n] = v /\ \A j \in 1..n : f[t + j - 1] = g[t + j - 1]
    BY DEF Extended
  <1>6. x \in Seq(Nat) /\ Len(x) = n + 1 /\ \A j \in 1..(n + 1) : x[j] = f[t + j - 1]
    BY <1>2, <1>5 DEF Window
  <1>7. /\ y \in Seq(Nat) /\ Len(y) = n + 1 /\ y[n + 1] = v
        /\ \A j \in 1..n : y[j] = w[j]
    <2>1. /\ y \in Seq(Nat) /\ Len(y) = Len(w) + 1 /\ y[Len(w) + 1] = v
          /\ \A j \in 1..Len(w) : y[j] = w[j]
      <3>1. w \in Seq(Nat) /\ v \in Nat
        BY <1>4
      <3>2. /\ Append(w, v) \in Seq(Nat) /\ Len(Append(w, v)) = Len(w) + 1
            /\ Append(w, v)[Len(w) + 1] = v /\ \A j \in 1..Len(w) : Append(w, v)[j] = w[j]
        BY <3>1, AppendProperties
      <3> QED
        BY <1>3, <3>2
    <2> QED
      BY <1>4, <2>1
  <1>8. ASSUME NEW j \in 1..(n + 1) PROVE x[j] = y[j]
    <2>1. CASE j = n + 1
      <3>1. t + j - 1 = t + n
        BY <2>1
      <3> QED
        BY <1>5, <1>6, <1>7, <2>1, <3>1
    <2>2. CASE j # n + 1
      <3>1. j \in 1..n
        BY <2>2
      <3> QED
        BY <1>4, <1>5, <1>6, <1>7, <3>1
    <2> QED
      BY <2>1, <2>2
  <1>9. x = y
    BY <1>6, <1>7, <1>8, SeqEqual
  <1> QED
    BY <1>1, <1>2, <1>3, <1>9

\* A pop takes the last task off the window.
LEMMA WindowFront ==
    ASSUME NEW t \in Nat, NEW n \in Nat, NEW g \in [Indices -> Nat], t + n <= MaxTasks + 1, n > 0
    PROVE  /\ Window(t, n, g) # <<>>
           /\ Window(t, n - 1, g) = SubSeq(Window(t, n, g), 1, Len(Window(t, n, g)) - 1)
  <1>1. PICK w : w = Window(t, n, g)
    OBVIOUS
  <1>2. PICK x : x = Window(t, n - 1, g)
    OBVIOUS
  <1>3. PICK y : y = SubSeq(w, 1, n - 1)
    OBVIOUS
  <1>4. w \in Seq(Nat) /\ Len(w) = n /\ \A j \in 1..n : w[j] = g[t + j - 1]
    BY <1>1 DEF Window
  <1>5. x \in Seq(Nat) /\ Len(x) = n - 1 /\ \A j \in 1..(n - 1) : x[j] = g[t + j - 1]
    BY <1>2 DEF Window
  <1>6. y \in Seq(Nat) /\ Len(y) = n - 1 /\ \A j \in 1..(n - 1) : y[j] = w[j]
    <2>1. \A j \in 1..(n - 1) : w[j] \in Nat
      BY <1>4
    <2>2. /\ y \in Seq(Nat) /\ Len(y) = IF 1 <= n - 1 THEN n - 1 - 1 + 1 ELSE 0
          /\ \A j \in 1..(n - 1 - 1 + 1) : y[j] = w[1 + j - 1]
      BY <1>3, <2>1, SubSeqProperties
    <2>3. n - 1 - 1 + 1 = n - 1 /\ \A j \in 1..(n - 1) : 1 + j - 1 = j
      OBVIOUS
    <2> QED
      BY <2>2, <2>3
  <1>7. x = y
    BY <1>4, <1>5, <1>6, SeqEqual
  <1>8. w # <<>>
    BY <1>4
  <1> QED
    BY <1>1, <1>2, <1>3, <1>4, <1>7, <1>8

\* A steal takes the first.
LEMMA WindowTail ==
    ASSUME NEW t \in Nat, NEW n \in Nat, NEW g \in [Indices -> Nat], t + n <= MaxTasks + 1, n > 0
    PROVE  Window(t + 1, n - 1, g) = Tail(Window(t, n, g))
  <1>1. PICK w : w = Window(t, n, g)
    OBVIOUS
  <1>2. PICK x : x = Window(t + 1, n - 1, g)
    OBVIOUS
  <1>3. PICK y : y = Tail(w)
    OBVIOUS
  <1>4. w \in Seq(Nat) /\ Len(w) = n /\ \A j \in 1..n : w[j] = g[t + j - 1]
    BY <1>1 DEF Window
  <1>5. x \in Seq(Nat) /\ Len(x) = n - 1 /\ \A j \in 1..(n - 1) : x[j] = g[t + 1 + j - 1]
    BY <1>2 DEF Window
  <1>6. y \in Seq(Nat) /\ Len(y) = n - 1 /\ \A j \in 1..Len(y) : y[j] = w[j + 1]
    <2>1. w # <<>>
      BY <1>4
    <2> QED
      BY <1>3, <1>4, <2>1, HeadTailProperties
  <1>7. ASSUME NEW j \in 1..(n - 1) PROVE x[j] = y[j]
    <2>1. j + 1 \in 1..n /\ t + 1 + j - 1 = t + (j + 1) - 1
      OBVIOUS
    <2> QED
      BY <1>4, <1>5, <1>6, <2>1
  <1>8. x = y
    BY <1>5, <1>6, <1>7, SeqEqual
  <1> QED
    BY <1>1, <1>2, <1>3, <1>8

\* The contents of the deque are the window from top to the logical bottom.
LEMMA ContentsWindow ==
    ASSUME TypeOK, Span
    PROVE  /\ Contents = Window(top, Size, log)
           /\ Size \in Nat /\ top + Size <= MaxTasks /\ top \in Nat /\ log \in [Indices -> Nat]
  <1>1. top \in Nat /\ LogicalBottom \in Nat /\ accepted \in Nat
    BY Numbers
  <1>2. accepted <= MaxTasks /\ top <= MaxTasks /\ log \in [Indices -> Nat]
    <2>1. log \in [Indices -> NULL..MaxTasks] /\ accepted \in Indices /\ top \in Indices
      BY DEF TypeOK, HistoryType, DequeType
    <2> QED
      BY <2>1
  <1>3. Cardinality(Live) = Size
    <2>1. CASE life = "destroyed"
      BY <2>1, FS_EmptySet DEF Live, Size
    <2>2. CASE life # "destroyed"
      <3>1. Cardinality(top..(LogicalBottom - 1)) =
              IF top > LogicalBottom - 1 THEN 0 ELSE LogicalBottom - 1 - top + 1
        BY <1>1, FS_Interval
      <3> QED
        BY <1>1, <2>2, <3>1 DEF Live, Size, Span
    <2> QED
      BY <2>1, <2>2
  <1> QED
    BY <1>1, <1>2, <1>3 DEF Contents, Window, Size, Span

\* The step of push_bottom that stores bottom is the push.
LEMMA PushRefines ==
    ASSUME ~SharedPush, IndInv, Push
    PROVE  \/ UNCHANGED <<top, LogicalBottom, accepted, log, life>>
           \/ /\ life = "live" /\ life' = "live" /\ top' = top
              /\ LogicalBottom' = LogicalBottom + 1 /\ accepted' = accepted + 1
              /\ log' = [log EXCEPT ![LogicalBottom] = accepted + 1]
              /\ LogicalBottom < MaxTasks
  <1>1. TypeOK /\ Phases
    BY DEF IndInv
  <1>2. CASE PushStoreBottom
    <2>1. /\ pushPC = "bottom" /\ bottom' = pushB + 1 /\ accepted' = accepted + 1
          /\ log' = [log EXCEPT ![pushB] = accepted + 1]
          /\ UNCHANGED <<top, popPC, life>>
      BY <1>2 DEF PushStoreBottom, popVars
    <2>2. popPC = "idle" /\ pushB = bottom /\ accepted < MaxTasks
      BY <1>1, <2>1 DEF Phases, PushPhase
    <2>3. LogicalBottom = bottom /\ LogicalBottom' = bottom'
      BY <2>1, <2>2 DEF LogicalBottom
    <2>4. life = "live"
      BY <1>1, <2>1 DEF Phases, LifePhase, TypeOK, DequeType
    <2>5. LogicalBottom < MaxTasks
      BY <1>1, <2>2, Numbers DEF Phases, Span
    <2> QED
      BY <2>1, <2>2, <2>3, <2>4, <2>5
  <1>3. CASE ~PushStoreBottom
    <2>1. UNCHANGED <<top, bottom, accepted, log, life, popVars>>
      BY <1>3 DEF Push, PushLoadBottom, PushLoadTop, ResizeCopy, ResizeRefused, ResizePublish,
             ResizeSizes, ResizeFree, PushRecheck, PushStoreSlot, deque, history
    <2> QED
      BY <2>1 DEF LogicalBottom, popVars
  <1> QED
    BY <1>2, <1>3

\* A pop owns its task once it has seen top below it, or has won the race for it.
LEMMA PopRefines ==
    ASSUME ~SharedPush, IndInv, Pop
    PROVE  /\ UNCHANGED <<accepted, log, life>>
           /\ \/ top' = top /\ LogicalBottom' = LogicalBottom
              \/ /\ life = "live" /\ top < LogicalBottom
                 /\ \/ top' = top /\ LogicalBottom' = LogicalBottom - 1
                    \/ top' = top + 1 /\ LogicalBottom' = LogicalBottom
  <1>1. TypeOK /\ Phases
    BY DEF IndInv
  <1>2. UNCHANGED <<accepted, log, life>>
    BY DEF Pop, PopLoadBottom, PopStoreBottom, PopLoadTop, PopLoadTasks, PopReadSlot, PopCAS,
           PopCASFail, PopRestore, history
  <1>3. \/ top' = top /\ LogicalBottom' = LogicalBottom
        \/ /\ popPC # "idle" /\ top < LogicalBottom
           /\ \/ top' = top /\ LogicalBottom' = LogicalBottom - 1
              \/ top' = top + 1 /\ LogicalBottom' = LogicalBottom
    BY <1>1, Numbers DEF Phases, PopPhase, Span, LogicalBottom, Pop, PopLoadBottom, PopStoreBottom,
           PopLoadTop, PopLoadTasks, PopReadSlot, PopCAS, PopCASFail, PopRestore, deque
  <1>4. popPC # "idle" => life = "live"
    BY <1>1 DEF Phases, LifePhase, TypeOK, DequeType
  <1> QED
    BY <1>2, <1>3, <1>4

\* A steal owns its task once it has moved top.
LEMMA StealRefines ==
    ASSUME IndInv, NEW h \in Thieves, Steal(h)
    PROVE  /\ UNCHANGED <<accepted, log, life, LogicalBottom>>
           /\ \/ top' = top
              \/ life = "live" /\ top < LogicalBottom /\ top' = top + 1
  <1>1. TypeOK /\ Phases
    BY DEF IndInv
  <1>2. UNCHANGED <<accepted, log, life, bottom, popVars>>
    BY DEF Steal, StealLoadTop, StealLoadBottom, StealLoadTasks, StealReadSlot, StealCAS,
           StealCASFail, deque, history
  <1>3. LogicalBottom' = LogicalBottom
    BY <1>2 DEF LogicalBottom, popVars
  <1>4. CASE StealCAS(h)
    <2>1. top < LogicalBottom /\ top' = top + 1 /\ stealPC[h] # "idle"
      BY <1>1, <1>4 DEF StealCAS, Phases, StealPhase
    <2>2. life = "live"
      BY <1>1, <2>1 DEF Phases, LifePhase, TypeOK, DequeType
    <2> QED
      BY <1>2, <1>3, <2>1, <2>2
  <1>5. CASE ~StealCAS(h)
    <2>1. top' = top
      BY <1>5 DEF Steal, StealLoadTop, StealLoadBottom, StealLoadTasks, StealReadSlot,
             StealCASFail, deque
    <2> QED
      BY <1>2, <1>3, <2>1
  <1> QED
    BY <1>4, <1>5

\* Every step of the deque is an operation of the atomic one or leaves it as it is.
LEMMA DequeStep ==
    ASSUME ~SharedPush, IndInv, IndInv', [Next]_vars
    PROVE  [Abstract!Next]_<<Contents, accepted, life = "live">>
  <1>1. TypeOK /\ Span /\ TypeOK' /\ Span'
    BY DEF IndInv, Phases
  <1>2. /\ Contents = Window(top, Size, log)
        /\ Size \in Nat /\ top + Size <= MaxTasks /\ top \in Nat /\ log \in [Indices -> Nat]
    BY <1>1, ContentsWindow
  <1>3. Contents' = Window(top', Size', log')
    <2>1. (TypeOK /\ Span => Contents = Window(top, Size, log))'
      BY ContentsWindow, PTL
    <2> QED
      BY <1>1, <2>1
  <1>4. LogicalBottom \in Nat /\ accepted \in Nat
    BY <1>1, Numbers
  <1>5. ASSUME UNCHANGED <<top, LogicalBottom, accepted, log, life>>
        PROVE  UNCHANGED <<Contents, accepted, life = "live">>
    <2>1. Size' = Size
      BY <1>5 DEF Size
    <2> QED
      BY <1>2, <1>3, <1>5, <2>1
  <1>6. ASSUME life = "live", life' = "live", top' = top,
               LogicalBottom' = LogicalBottom + 1, accepted' = accepted + 1,
               log' = [log EXCEPT ![LogicalBottom] = accepted + 1], LogicalBottom < MaxTasks
        PROVE  Abstract!PushBottom
    <2>1. Size' = Size + 1 /\ LogicalBottom = top + Size
      BY <1>2, <1>4, <1>6 DEF Size
    <2>2. Contents' = Window(top, Size + 1, log') /\ log' = [log EXCEPT ![top + Size] = accepted + 1]
      BY <1>3, <1>6, <2>1
    <2>3. PICK f : f = log'
      OBVIOUS
    <2>4. PICK v \in Nat : v = accepted + 1
      BY <1>4
    <2>5. f \in [Indices -> Nat] /\ f[top + Size] = v
      BY <1>2, <2>2, <2>3, <2>4
    <2>6. \A j \in 1..Size : f[top + j - 1] = log[top + j - 1]
      BY <1>2, <2>2, <2>3
    <2>7. Window(top, Size + 1, f) = Append(Window(top, Size, log), v)
      <3>1. Extended(f, log, top, Size, v)
        BY <2>5, <2>6 DEF Extended
      <3>2. PICK t \in Nat : t = top
        BY <1>2
      <3>3. PICK n \in Nat : n = Size
        BY <1>2
      <3>4. PICK g \in [Indices -> Nat] : g = log
        BY <1>2
      <3>5. Extended(f, g, t, n, v) /\ t + n <= MaxTasks
        BY <1>2, <3>1, <3>2, <3>3, <3>4
      <3> HIDE DEF Indices
      <3>6. Window(t, n + 1, f) = Append(Window(t, n, g), v)
        BY <2>4, <3>5, WindowAppend
      <3> QED
        BY <3>2, <3>3, <3>4, <3>6
    <2>8. Contents' = Append(Contents, accepted + 1)
      BY <1>2, <2>2, <2>3, <2>4, <2>7
    <2> QED
      BY <1>6, <2>8 DEF Abstract!PushBottom
  <1>7. ASSUME life = "live", top < LogicalBottom, top' = top, LogicalBottom' = LogicalBottom - 1,
               UNCHANGED <<accepted, log, life>>
        PROVE  Abstract!PopBottom
    <2>1. Size' = Size - 1 /\ Size > 0
      BY <1>2, <1>4, <1>7 DEF Size
    <2>2. Contents # <<>> /\ Contents' = SubSeq(Contents, 1, Len(Contents) - 1)
      <3>1. Contents' = Window(top, Size - 1, log)
        BY <1>3, <1>7, <2>1
      <3>2. top + Size <= MaxTasks + 1
        BY <1>2
      <3> QED
        BY <1>2, <2>1, <3>1, <3>2, WindowFront
    <2> QED
      BY <1>7, <2>2 DEF Abstract!PopBottom
  <1>8. ASSUME life = "live", top < LogicalBottom, top' = top + 1, LogicalBottom' = LogicalBottom,
               UNCHANGED <<accepted, log, life>>
        PROVE  Abstract!StealTop
    <2>1. Size' = Size - 1 /\ Size > 0
      BY <1>2, <1>4, <1>8 DEF Size
    <2>2. Contents # <<>> /\ Contents' = Tail(Contents)
      <3>1. Contents' = Window(top + 1, Size - 1, log)
        BY <1>3, <1>8, <2>1
      <3>2. top + Size <= MaxTasks + 1
        BY <1>2
      <3> QED
        BY <1>2, <2>1, <3>1, <3>2, WindowFront, WindowTail
    <2> QED
      BY <1>8, <2>2 DEF Abstract!StealTop
  <1>9. ASSUME Destroy PROVE Abstract!Discard
    <2>1. life = "live" /\ life' = "destroyed" /\ accepted' = accepted
      BY <1>9 DEF Destroy
    <2>2. Size' = 0
      BY <2>1 DEF Size
    <2>3. Contents' = <<>>
      BY <1>3, <2>2 DEF Window
    <2> QED
      BY <2>1, <2>3 DEF Abstract!Discard
  <1>10. CASE Push
    BY <1>5, <1>6, <1>10, PushRefines DEF Abstract!Next
  <1>11. CASE Pop
    BY <1>5, <1>7, <1>8, <1>11, PopRefines DEF Abstract!Next
  <1>12. CASE \E h \in Thieves : Steal(h)
    BY <1>5, <1>8, <1>12, StealRefines DEF Abstract!Next
  <1>13. CASE UNCHANGED vars
    BY <1>5, <1>13 DEF vars, deque, popVars, history, LogicalBottom
  <1> QED
    BY <1>9, <1>10, <1>11, <1>12, <1>13 DEF Next, Abstract!Next

\* The deque implements the atomic double-ended queue, under its own discipline:
\* each call of push_bottom, pop_bottom, steal_top and destroy takes effect in
\* one of its steps, whatever the interleaving with thieves and resizes.
THEOREM DequeRefinement == ASSUME ~SharedPush PROVE Spec => ImplementsDeque
  <1>1. Init => Abstract!Init
    <2> SUFFICES ASSUME Init PROVE Abstract!Init
      OBVIOUS
    <2>1. TypeOK /\ Span
      BY InitInv DEF IndInv, Phases
    <2>2. Size = 0
      BY DEF Init, Size, LogicalBottom
    <2>3. Contents = <<>>
      BY <2>1, <2>2, ContentsWindow DEF Window
    <2> QED
      BY <2>3 DEF Init, Abstract!Init
  <1>2. IndInv /\ [Next]_vars => IndInv'
    BY TypeStep, PhasesStep, ClaimStep DEF IndInv
  <1>3. IndInv /\ IndInv' /\ [Next]_vars => [Abstract!Next]_<<Contents, accepted, life = "live">>
    BY DequeStep
  <1> QED
    BY <1>1, <1>2, <1>3, InitInv, PTL DEF Spec, ImplementsDeque, Abstract!Spec
=============================================================================
