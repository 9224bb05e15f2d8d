----------------------- MODULE ConcurrentVmPoolProofs -----------------------
(***************************************************************************)
(* Proofs about ConcurrentVmPool, for every set of requests, every         *)
(* capacity and initial count, with and without failures in start.         *)
(***************************************************************************)
EXTENDS ConcurrentVmPool, FiniteSetTheorems, TLAPS

\* A request holds a VM from its acquire to its release, one that was created
\* at an entry below size.
HoldInv ==
    \A r \in Requests :
        /\ pc[r] \in {"new", "checked", "done", "failed"} <=> holds[r] = NoVM
        /\ holds[r] # NoVM => /\ holds[r][1] \in Entries /\ holds[r][1] < size
                              /\ holds[r][2] \in Nat /\ holds[r][2] # NULL

\* Nothing has happened before the start.
FreshInv ==
    phase = "created" => /\ size = 0
                         /\ \A r \in Requests : pc[r] = "new"

\* Where a request may be.
Places == {"new", "checked", "acquired", "queued", "running", "kept", "done", "failed"}

IndInv == TypeOK /\ HoldInv /\ FreshInv /\ InUseMarked /\ Exclusive

USE ConfigAssumption DEF Entries, NULL, NoVM

\* The invariant holds of a pool that was just created.
LEMMA InitInv == Init => IndInv
  BY DEF Init, IndInv, TypeOK, HoldInv, FreshInv, InUseMarked, Exclusive

\* start creates at most initial_vm_count VMs.
LEMMA StartSize ==
    ASSUME NEW S \in SUBSET (0..(Initial - 1)) PROVE Cardinality(S) \in 0..Initial
  <1>1. IsFiniteSet(0..(Initial - 1)) /\ Cardinality(0..(Initial - 1)) = Initial
    BY FS_Interval
  <1>2. IsFiniteSet(S) /\ Cardinality(S) <= Cardinality(0..(Initial - 1))
    BY <1>1, FS_Subset
  <1> QED
    BY <1>1, <1>2, FS_CardinalityType

\* Every step keeps the type invariant.
LEMMA TypeStep == ASSUME IndInv, [Next]_vars PROVE TypeOK'
  <1> USE DEF TypeOK, entryVars
  <1>1. TypeOK /\ HoldInv /\ FreshInv
    BY DEF IndInv
  <1>2. CASE UNCHANGED vars
    BY <1>1, <1>2 DEF vars
  <1>3. CASE Start
    <2>1. PICK S \in SUBSET (0..(Initial - 1)) :
              /\ vm' = [i \in Entries |-> IF i \in S THEN 1 ELSE NULL]
              /\ made' = [i \in Entries |-> IF i \in S THEN 1 ELSE 0]
              /\ size' = size + Cardinality(S)
              /\ available' = available + Cardinality(S)
      BY <1>3 DEF Start
    <2>2. size = 0
      BY <1>1, <1>3 DEF FreshInv, Start
    <2>3. Cardinality(S) \in 0..Initial
      BY StartSize
    <2>4. size' \in 0..Capacity /\ available' \in Int
      BY <1>1, <2>1, <2>2, <2>3
    <2> QED
      BY <1>1, <1>3, <2>1, <2>4 DEF Start
  <1>4. CASE Shutdown \/ ThreadPoolStopped
    BY <1>1, <1>4 DEF Shutdown, ThreadPoolStopped
  <1>5. CASE Destroy
    BY <1>1, <1>5 DEF Destroy
  <1>6. ASSUME NEW r \in Requests,
               Check(r) \/ Submit(r) \/ Execute(r) \/ CompleteKeeping(r) \/ Retry(r)
        PROVE  TypeOK'
    BY <1>1, <1>6 DEF Check, Submit, Execute, CompleteKeeping, Retry
  <1>7. ASSUME NEW r \in Requests, AcquireIdle(r) PROVE TypeOK'
    <2>1. PICK i \in Entries :
              /\ locked' = [locked EXCEPT ![i] = "yes"]
              /\ state' = [state EXCEPT ![i] = "EXECUTING"]
              /\ holds' = [holds EXCEPT ![r] = <<i, vm[i]>>]
      BY <1>7 DEF AcquireIdle
    <2>2. locked' \in [Entries -> {"no", "yes"}] /\ state' \in [Entries -> {"IDLE", "EXECUTING"}]
      BY <1>1, <2>1
    <2>3. <<i, vm[i]>> \in Entries \X Nat
      BY <1>1
    <2>4. holds' \in [Requests -> {NoVM} \cup (Entries \X Nat)]
      BY <1>1, <2>1, <2>3
    <2>5. pc' \in [Requests -> Places]
      BY <1>1, <1>7 DEF AcquireIdle, Places
    <2>6. UNCHANGED <<phase, vm, made, size>> /\ available' \in Int
      BY <1>1, <1>7 DEF AcquireIdle
    <2> QED
      BY <1>1, <2>2, <2>4, <2>5, <2>6 DEF Places
  <1>8. ASSUME NEW r \in Requests, AcquireExpand(r) PROVE TypeOK'
    <2>1. size \in Entries /\ size + 1 \in 0..Capacity
      BY <1>1, <1>8 DEF AcquireExpand
    <2>2. made[size] + 1 \in Nat
      BY <1>1, <2>1
    <2>3. vm' \in [Entries -> Nat] /\ made' \in [Entries -> Nat]
      BY <1>1, <1>8, <2>1, <2>2 DEF AcquireExpand
    <2>4. locked' \in [Entries -> {"no", "yes"}] /\ state' \in [Entries -> {"IDLE", "EXECUTING"}]
      BY <1>1, <1>8, <2>1 DEF AcquireExpand
    <2>5. <<size, made[size] + 1>> \in Entries \X Nat
      BY <2>1, <2>2
    <2>6. holds' \in [Requests -> {NoVM} \cup (Entries \X Nat)]
      BY <1>1, <1>8, <2>5 DEF AcquireExpand
    <2>7. pc' \in [Requests -> Places]
      BY <1>1, <1>8 DEF AcquireExpand, Places
    <2>8. UNCHANGED <<phase, available>> /\ size' \in 0..Capacity
      BY <1>8, <2>1 DEF AcquireExpand
    <2> QED
      BY <1>1, <2>3, <2>4, <2>6, <2>7, <2>8 DEF Places
  <1>9. ASSUME NEW r \in Requests, AcquireFail(r) PROVE TypeOK'
    <2>1. pc' \in [Requests -> Places]
      BY <1>1, <1>9 DEF AcquireFail, Places
    <2>2. vm' \in [Entries -> Nat]
      <3>1. vm \in [Entries -> Nat]
        BY <1>1
      <3>2. CASE size < Capacity
        BY <1>9, <3>1, <3>2 DEF AcquireFail
      <3>3. CASE ~(size < Capacity)
        BY <1>9, <3>1, <3>3 DEF AcquireFail
      <3> QED
        BY <3>2, <3>3
    <2>3. UNCHANGED <<phase, made, state, locked, size, available, holds>>
      BY <1>9 DEF AcquireFail
    <2> QED
      BY <1>1, <2>1, <2>2, <2>3 DEF Places
  <1>10. ASSUME NEW r \in Requests, SubmitFail(r) \/ Complete(r) PROVE TypeOK'
    <2>1. Release(r) /\ pc' \in [Requests -> Places]
      BY <1>1, <1>10 DEF SubmitFail, Complete, Places
    <2>2. holds' \in [Requests -> {NoVM} \cup (Entries \X Nat)]
      BY <1>1, <2>1 DEF Release
    <2>3. UNCHANGED <<phase, vm, made, size>>
      BY <2>1 DEF Release
    <2>4. locked' \in [Entries -> {"no", "yes"}] /\ state' \in [Entries -> {"IDLE", "EXECUTING"}]
      BY <1>1, <2>1 DEF Release
    <2>5. available' \in Int
      BY <1>1, <2>1 DEF Release
    <2> QED
      BY <1>1, <2>1, <2>2, <2>3, <2>4, <2>5 DEF Places
  <1> QED
    BY <1>2, <1>3, <1>4, <1>5, <1>6, <1>7, <1>8, <1>9, <1>10 DEF Next

\* What a held VM looks like.
LEMMA HeldPair ==
    ASSUME TypeOK, HoldInv, NEW r \in Requests, holds[r] # NoVM
    PROVE  /\ holds[r] = <<holds[r][1], holds[r][2]>>
           /\ holds[r][1] \in Entries /\ holds[r][1] < size
           /\ holds[r][2] \in Nat /\ holds[r][2] # NULL
  <1>1. holds \in [Requests -> {NoVM} \cup (Entries \X Nat)]
    BY DEF TypeOK
  <1>2. holds[r] \in Entries \X Nat
    BY <1>1
  <1> QED
    BY <1>2 DEF HoldInv

\* The acquire that finds a free entry: by InUseMarked nobody holds its VM.
LEMMA StepAcquireIdle ==
    ASSUME IndInv, NEW r \in Requests, AcquireIdle(r), TypeOK'
    PROVE  IndInv'
  <1>1. TypeOK /\ HoldInv /\ FreshInv /\ InUseMarked /\ Exclusive
    BY DEF IndInv
  <1>2. PICK i \in Entries :
            /\ Free(i)
            /\ locked' = [locked EXCEPT ![i] = "yes"]
            /\ state' = [state EXCEPT ![i] = "EXECUTING"]
            /\ holds' = [holds EXCEPT ![r] = <<i, vm[i]>>]
    BY DEF AcquireIdle
  <1>3. /\ pc[r] = "checked" /\ phase # "destroyed"
        /\ pc' = [pc EXCEPT ![r] = "acquired"]
        /\ UNCHANGED <<phase, vm, made, size>>
    BY DEF AcquireIdle
  <1>4. /\ vm[i] \in Nat /\ vm[i] # NULL /\ i < size /\ state[i] = "IDLE"
        /\ size \in Nat /\ i \in Nat
    BY <1>1, <1>2 DEF Free, TypeOK
  <1>5. /\ \A s \in Requests : holds'[s] = IF s = r THEN <<i, vm[i]>> ELSE holds[s]
        /\ \A s \in Requests : pc'[s] = IF s = r THEN "acquired" ELSE pc[s]
        /\ \A j \in Entries : state'[j] = IF j = i THEN "EXECUTING" ELSE state[j]
        /\ \A j \in Entries : locked'[j] = IF j = i THEN "yes" ELSE locked[j]
    BY <1>1, <1>2, <1>3 DEF TypeOK
  <1>6. \A s \in Requests : holds[s] # <<i, vm[i]>>
    BY <1>1, <1>3, <1>4 DEF InUseMarked
  <1>7. HoldInv'
    <2> SUFFICES ASSUME NEW s \in Requests
                 PROVE  /\ pc'[s] \in {"new", "checked", "done", "failed"} <=> holds'[s] = NoVM
                        /\ holds'[s] # NoVM => /\ holds'[s][1] \in Entries /\ holds'[s][1] < size
                                               /\ holds'[s][2] \in Nat /\ holds'[s][2] # NULL
      BY <1>3 DEF HoldInv
    <2>1. CASE s = r
      BY <1>4, <1>5, <2>1
    <2>2. CASE s # r
      BY <1>1, <1>5, <2>2 DEF HoldInv
    <2> QED
      BY <2>1, <2>2
  <1>8. FreshInv'
    BY <1>1, <1>3, <1>4 DEF FreshInv
  <1>9. InUseMarked'
    <2> SUFFICES ASSUME NEW s \in Requests, NEW j \in Entries,
                        j < size, holds'[s] = <<j, vm[j]>>
                 PROVE  state'[j] = "EXECUTING" /\ locked'[j] = "yes"
      BY <1>3 DEF InUseMarked
    <2>1. CASE j = i
      BY <1>5, <2>1
    <2>2. CASE j # i /\ s # r
      BY <1>1, <1>3, <1>5, <2>2 DEF InUseMarked
    <2>3. CASE j # i /\ s = r
      BY <1>5, <2>3
    <2> QED
      BY <2>1, <2>2, <2>3
  <1>10. Exclusive'
    BY <1>1, <1>5, <1>6 DEF Exclusive
  <1> QED
    BY <1>7, <1>8, <1>9, <1>10 DEF IndInv

\* The acquire that grows the pool: nobody holds a VM of an entry at or above size.
LEMMA StepAcquireExpand ==
    ASSUME IndInv, NEW r \in Requests, AcquireExpand(r), TypeOK'
    PROVE  IndInv'
  <1>1. TypeOK /\ HoldInv /\ FreshInv /\ InUseMarked /\ Exclusive
    BY DEF IndInv
  <1>2. /\ pc[r] = "checked" /\ phase # "destroyed"
        /\ size \in Entries /\ size \in Nat /\ size' = size + 1 /\ phase' = phase
        /\ made[size] + 1 \in Nat /\ made[size] + 1 # NULL
    BY <1>1 DEF AcquireExpand, TypeOK
  <1>3. /\ \A s \in Requests : holds'[s] = IF s = r THEN <<size, made[size] + 1>> ELSE holds[s]
        /\ \A s \in Requests : pc'[s] = IF s = r THEN "acquired" ELSE pc[s]
    BY <1>1 DEF TypeOK, AcquireExpand
  <1>4. /\ \A j \in Entries : state'[j] = IF j = size THEN "EXECUTING" ELSE state[j]
        /\ \A j \in Entries : locked'[j] = IF j = size THEN "yes" ELSE locked[j]
        /\ \A j \in Entries : j # size => vm'[j] = vm[j]
    BY <1>1, <1>2 DEF TypeOK, AcquireExpand
  <1>5. \A s \in Requests : holds[s] # NoVM => holds[s][1] < size
    BY <1>1 DEF HoldInv
  <1>6. HoldInv'
    <2> SUFFICES ASSUME NEW s \in Requests
                 PROVE  /\ pc'[s] \in {"new", "checked", "done", "failed"} <=> holds'[s] = NoVM
                        /\ holds'[s] # NoVM => /\ holds'[s][1] \in Entries /\ holds'[s][1] < size'
                                               /\ holds'[s][2] \in Nat /\ holds'[s][2] # NULL
      BY DEF HoldInv
    <2>1. CASE s = r
      BY <1>2, <1>3, <2>1
    <2>2. CASE s # r
      BY <1>1, <1>2, <1>3, <2>2 DEF HoldInv
    <2> QED
      BY <2>1, <2>2
  <1>7. FreshInv'
    BY <1>1, <1>2 DEF FreshInv
  <1>8. InUseMarked'
    <2> SUFFICES ASSUME NEW s \in Requests, NEW j \in Entries,
                        j < size + 1, holds'[s] = <<j, vm'[j]>>
                 PROVE  state'[j] = "EXECUTING" /\ locked'[j] = "yes"
      BY <1>2 DEF InUseMarked
    <2>1. CASE j = size
      BY <1>4, <2>1
    <2>2. CASE j # size /\ s # r
      <3>1. j < size /\ holds[s] = <<j, vm[j]>>
        BY <1>2, <1>3, <1>4, <2>2
      <3> QED
        BY <1>1, <1>2, <1>4, <2>2, <3>1 DEF InUseMarked
    <2>3. CASE j # size /\ s = r
      BY <1>3, <2>3
    <2> QED
      BY <2>1, <2>2, <2>3
  <1>9. Exclusive'
    <2>1. \A s \in Requests : holds[s] # <<size, made[size] + 1>>
      BY <1>2, <1>5
    <2> QED
      BY <1>1, <1>3, <2>1 DEF Exclusive
  <1> QED
    BY <1>6, <1>7, <1>8, <1>9 DEF IndInv

\* A release: by Exclusive the entry it marks IDLE is nobody else's.
LEMMA StepRelease ==
    ASSUME IndInv, NEW r \in Requests, TypeOK', Release(r),
           pc[r] \in {"acquired", "running"},
           NEW p \in {"done", "failed"}, pc' = [pc EXCEPT ![r] = p]
    PROVE  IndInv'
  <1>1. TypeOK /\ HoldInv /\ FreshInv /\ InUseMarked /\ Exclusive
    BY DEF IndInv
  <1> DEFINE e == holds[r][1]
  <1>2. holds[r] # NoVM
    BY <1>1 DEF HoldInv
  <1>3. /\ holds[r] = <<e, holds[r][2]>> /\ e \in Entries
        /\ e < size /\ holds[r][2] \in Nat
    BY <1>1, <1>2, HeldPair
  <1>4. /\ \A s \in Requests : holds'[s] = IF s = r THEN NoVM ELSE holds[s]
        /\ \A s \in Requests : pc'[s] = IF s = r THEN p ELSE pc[s]
        /\ UNCHANGED <<phase, vm, made, size>>
    BY <1>1 DEF TypeOK, Release
  <1>5. \A j \in Entries : j # e => state'[j] = state[j] /\ locked'[j] = locked[j]
    BY <1>1, <1>3 DEF TypeOK, Release
  <1>6. vm[e] # holds[r][2] => UNCHANGED <<state, locked>>
    BY DEF Release
  <1>7. HoldInv'
    <2> SUFFICES ASSUME NEW s \in Requests
                 PROVE  /\ pc'[s] \in {"new", "checked", "done", "failed"} <=> holds'[s] = NoVM
                        /\ holds'[s] # NoVM => /\ holds'[s][1] \in Entries /\ holds'[s][1] < size
                                               /\ holds'[s][2] \in Nat /\ holds'[s][2] # NULL
      BY <1>4 DEF HoldInv
    <2>1. CASE s = r
      BY <1>4, <2>1
    <2>2. CASE s # r
      BY <1>1, <1>4, <2>2 DEF HoldInv
    <2> QED
      BY <2>1, <2>2
  <1>8. FreshInv'
    BY <1>1, <1>4 DEF FreshInv
  <1>9. InUseMarked'
    <2> SUFFICES ASSUME phase # "destroyed", NEW s \in Requests, NEW j \in Entries,
                        j < size, holds'[s] = <<j, vm[j]>>
                 PROVE  state'[j] = "EXECUTING" /\ locked'[j] = "yes"
      BY <1>4 DEF InUseMarked
    <2>1. s # r /\ holds[s] = <<j, vm[j]>>
      BY <1>4
    <2>2. state[j] = "EXECUTING" /\ locked[j] = "yes"
      BY <1>1, <2>1 DEF InUseMarked
    <2>3. CASE j # e
      BY <1>5, <2>2, <2>3
    <2>4. CASE j = e
      <3>1. vm[e] # holds[r][2]
        BY <1>1, <1>2, <1>3, <2>1, <2>4 DEF Exclusive
      <3> QED
        BY <1>6, <2>2, <3>1
    <2> QED
      BY <2>3, <2>4
  <1>10. Exclusive'
    BY <1>1, <1>4 DEF Exclusive
  <1> QED
    BY <1>7, <1>8, <1>9, <1>10 DEF IndInv

\* The steps that move one request and leave the entries and what is held alone.
LEMMA StepQuiet ==
    ASSUME IndInv, NEW r \in Requests, TypeOK',
           Check(r) \/ Submit(r) \/ Execute(r) \/ CompleteKeeping(r) \/ Retry(r)
    PROVE  IndInv'
  <1>1. TypeOK /\ HoldInv /\ FreshInv /\ InUseMarked /\ Exclusive
    BY DEF IndInv
  <1>2. UNCHANGED <<phase, vm, made, state, locked, size, available, holds>>
    BY DEF Check, Submit, Execute, CompleteKeeping, Retry, entryVars
  <1>3. HoldInv'
    <2> SUFFICES ASSUME NEW s \in Requests
                 PROVE  pc'[s] \in {"new", "checked", "done", "failed"}
                            <=> pc[s] \in {"new", "checked", "done", "failed"}
      BY <1>1, <1>2 DEF HoldInv
    <2>1. CASE s # r
      BY <1>1, <2>1 DEF TypeOK, Check, Submit, Execute, CompleteKeeping, Retry
    <2>2. CASE s = r
      BY <1>1, <2>2 DEF TypeOK, Check, Submit, Execute, CompleteKeeping, Retry
    <2> QED
      BY <2>1, <2>2
  <1>4. FreshInv'
    <2>1. phase # "created"
      BY <1>1 DEF FreshInv, Check, Submit, Execute, CompleteKeeping, Retry
    <2> QED
      BY <1>2, <2>1 DEF FreshInv
  <1>5. InUseMarked' /\ Exclusive'
    BY <1>1, <1>2 DEF InUseMarked, Exclusive
  <1> QED
    BY <1>3, <1>4, <1>5 DEF IndInv

\* The failed acquire: it writes the first entry above size only.
LEMMA StepAcquireFail ==
    ASSUME IndInv, NEW r \in Requests, TypeOK', AcquireFail(r)
    PROVE  IndInv'
  <1>1. TypeOK /\ HoldInv /\ FreshInv /\ InUseMarked /\ Exclusive
    BY DEF IndInv
  <1>2. /\ UNCHANGED <<phase, made, state, locked, size, available, holds>>
        /\ pc[r] = "checked"
    BY DEF AcquireFail
  <1>3. \A s \in Requests : pc'[s] = IF s = r THEN "failed" ELSE pc[s]
    BY <1>1 DEF AcquireFail, TypeOK
  <1>4. \A j \in Entries : j < size => vm'[j] = vm[j]
    BY <1>1 DEF AcquireFail, TypeOK
  <1>5. HoldInv'
    BY <1>1, <1>2, <1>3 DEF HoldInv
  <1>6. FreshInv'
    BY <1>1, <1>2 DEF FreshInv
  <1>7. InUseMarked' /\ Exclusive'
    BY <1>1, <1>2, <1>4 DEF InUseMarked, Exclusive
  <1> QED
    BY <1>5, <1>6, <1>7 DEF IndInv

\* The steps of the pool itself.
LEMMA StepPool ==
    ASSUME IndInv, TypeOK', Start \/ Shutdown \/ ThreadPoolStopped \/ Destroy
    PROVE  IndInv'
  <1>1. TypeOK /\ HoldInv /\ FreshInv /\ InUseMarked /\ Exclusive
    BY DEF IndInv
  <1>2. UNCHANGED <<pc, holds>> /\ phase' # "created"
    BY DEF Start, Shutdown, ThreadPoolStopped, Destroy
  <1>3. FreshInv' /\ Exclusive'
    BY <1>1, <1>2 DEF FreshInv, Exclusive
  <1>4. CASE Start
    <2>1. \A s \in Requests : holds[s] = NoVM /\ pc[s] = "new"
      BY <1>1, <1>4 DEF Start, FreshInv, HoldInv
    <2>2. HoldInv' /\ InUseMarked'
      BY <1>2, <2>1 DEF HoldInv, InUseMarked
    <2> QED
      BY <1>3, <2>2 DEF IndInv
  <1>5. CASE Shutdown \/ ThreadPoolStopped
    <2>1. UNCHANGED <<vm, made, state, locked, size>> /\ phase # "destroyed"
      BY <1>5 DEF Shutdown, ThreadPoolStopped, entryVars
    <2>2. HoldInv' /\ InUseMarked'
      BY <1>1, <1>2, <2>1 DEF HoldInv, InUseMarked
    <2> QED
      BY <1>3, <2>2 DEF IndInv
  <1>6. CASE Destroy
    <2>1. phase' = "destroyed" /\ size' = size
      BY <1>6 DEF Destroy
    <2>2. HoldInv' /\ InUseMarked'
      BY <1>1, <1>2, <2>1 DEF HoldInv, InUseMarked
    <2> QED
      BY <1>3, <2>2 DEF IndInv
  <1> QED
    BY <1>4, <1>5, <1>6

\* The invariant is inductive.
LEMMA IndInvStep == ASSUME IndInv, [Next]_vars PROVE IndInv'
  <1>1. TypeOK'
    BY TypeStep
  <1>2. CASE UNCHANGED vars
    BY <1>2 DEF vars, entryVars, IndInv, TypeOK, HoldInv, FreshInv, InUseMarked, Exclusive
  <1>3. CASE Start \/ Shutdown \/ ThreadPoolStopped \/ Destroy
    BY <1>1, <1>3, StepPool
  <1>4. ASSUME NEW r \in Requests,
               Check(r) \/ Submit(r) \/ Execute(r) \/ CompleteKeeping(r) \/ Retry(r)
        PROVE  IndInv'
    BY <1>1, <1>4, StepQuiet
  <1>5. ASSUME NEW r \in Requests, AcquireIdle(r) PROVE IndInv'
    BY <1>1, <1>5, StepAcquireIdle
  <1>6. ASSUME NEW r \in Requests, AcquireExpand(r) PROVE IndInv'
    BY <1>1, <1>6, StepAcquireExpand
  <1>7. ASSUME NEW r \in Requests, AcquireFail(r) PROVE IndInv'
    BY <1>1, <1>7, StepAcquireFail
  <1>8. ASSUME NEW r \in Requests, SubmitFail(r) PROVE IndInv'
    <2>1. Release(r) /\ pc[r] = "acquired" /\ pc' = [pc EXCEPT ![r] = "failed"]
      BY <1>8 DEF SubmitFail
    <2> QED
      BY <1>1, <2>1, StepRelease
  <1>9. ASSUME NEW r \in Requests, Complete(r) PROVE IndInv'
    <2>1. Release(r) /\ pc[r] = "running" /\ pc' = [pc EXCEPT ![r] = "done"]
      BY <1>9 DEF Complete
    <2> QED
      BY <1>1, <2>1, StepRelease
  <1> QED
    BY <1>2, <1>3, <1>4, <1>5, <1>6, <1>7, <1>8, <1>9 DEF Next

\* The invariant holds in every reachable state.
LEMMA Inductive == Spec => []IndInv
  <1>1. IndInv /\ [Next]_vars => IndInv'
    BY IndInvStep
  <1> QED
    BY InitInv, <1>1, PTL DEF Spec

\* The variables of the pool keep their types: the size never exceeds the
\* configured maximum, for every configuration with initial <= maximum.
THEOREM TypeCorrect == Spec => []TypeOK
  <1>1. IndInv => TypeOK
    BY DEF IndInv
  <1> QED
    BY <1>1, Inductive, PTL

\* No two requests ever hold the same VM, for every number of requests and every
\* size of the pool, VM creation failing or not.
THEOREM ExclusiveHolds == Spec => []Exclusive
  <1>1. IndInv => Exclusive
    BY DEF IndInv
  <1> QED
    BY <1>1, Inductive, PTL

\* The entry of every VM in use is EXECUTING and locked until the pool is destroyed.
THEOREM InUseMarkedHolds == Spec => []InUseMarked
  <1>1. IndInv => InUseMarked
    BY DEF IndInv
  <1> QED
    BY <1>1, Inductive, PTL

\* Every step of the pool is an acquire, a release or a stutter of the allocator.
LEMMA RefinementStep ==
    ASSUME IndInv, [Next]_vars PROVE [Allocator!Next]_holds
  <1>1. TypeOK /\ HoldInv /\ FreshInv /\ InUseMarked /\ Exclusive
    BY DEF IndInv
  <1>2. CASE UNCHANGED holds
    BY <1>2
  <1>3. ASSUME NEW r \in Requests, AcquireIdle(r) PROVE Allocator!Next
    <2>1. PICK i \in Entries : Free(i) /\ holds' = [holds EXCEPT ![r] = <<i, vm[i]>>]
      BY <1>3 DEF AcquireIdle
    <2>2. holds[r] = NoVM /\ phase # "destroyed"
      BY <1>1, <1>3 DEF AcquireIdle, HoldInv
    <2>3. holds'[r] = <<i, vm[i]>>
      BY <1>1, <2>1 DEF TypeOK
    <2>4. \A s \in Requests : holds[s] # <<i, vm[i]>>
      BY <1>1, <2>1, <2>2 DEF Free, InUseMarked
    <2>5. <<i, vm[i]>> # NoVM
      BY <2>1 DEF Free
    <2>6. Allocator!Acquire(r)
      BY <2>1, <2>2, <2>3, <2>4, <2>5, Zenon DEF Allocator!Acquire, Allocator!Held
    <2> QED
      BY <2>6 DEF Allocator!Next
  <1>4. ASSUME NEW r \in Requests, AcquireExpand(r) PROVE Allocator!Next
    <2> DEFINE w == <<size, made[size] + 1>>
    <2>1. holds' = [holds EXCEPT ![r] = w] /\ holds[r] = NoVM /\ size \in Nat
      BY <1>1, <1>4 DEF AcquireExpand, HoldInv, TypeOK
    <2>2. holds'[r] = w
      BY <1>1, <2>1 DEF TypeOK
    <2>3. \A s \in Requests : holds[s] # w
      BY <1>1, <2>1 DEF HoldInv
    <2>4. w # NoVM
      BY <2>1
    <2> HIDE DEF w
    <2>5. Allocator!Acquire(r)
      BY <2>1, <2>2, <2>3, <2>4, Zenon DEF Allocator!Acquire, Allocator!Held
    <2> QED
      BY <2>5 DEF Allocator!Next
  <1>5. ASSUME NEW r \in Requests, SubmitFail(r) \/ Complete(r) PROVE Allocator!Next
    <2>1. holds' = [holds EXCEPT ![r] = NoVM] /\ holds[r] # NoVM
      BY <1>1, <1>5 DEF SubmitFail, Complete, Release, HoldInv
    <2>2. Allocator!Release(r)
      BY <2>1 DEF Allocator!Release
    <2> QED
      BY <2>2 DEF Allocator!Next
  <1>6. ASSUME NEW r \in Requests,
               Check(r) \/ Submit(r) \/ Execute(r) \/ CompleteKeeping(r) \/ Retry(r)
                 \/ AcquireFail(r)
        PROVE  UNCHANGED holds
    BY <1>6 DEF Check, Submit, Execute, CompleteKeeping, Retry, AcquireFail
  <1>7. ASSUME Start \/ Shutdown \/ ThreadPoolStopped \/ Destroy PROVE UNCHANGED holds
    BY <1>7 DEF Start, Shutdown, ThreadPoolStopped, Destroy
  <1>8. ASSUME UNCHANGED vars PROVE UNCHANGED holds
    BY <1>8 DEF vars
  <1> QED
    BY <1>2, <1>3, <1>4, <1>5, <1>6, <1>7, <1>8 DEF Next

\* The pool implements the exclusive allocator: a VM that acquire_vm hands out
\* is nobody's, and it stays its client's until release_vm.
THEOREM Refinement == Spec => ImplementsAllocator
  <1>1. Init => Allocator!Init
    BY DEF Init, Allocator!Init
  <1>2. IndInv /\ [Next]_vars => [Allocator!Next]_holds
    BY RefinementStep
  <1> QED
    BY <1>1, <1>2, Inductive, PTL DEF Spec, ImplementsAllocator, Allocator!Spec

-----------------------------------------------------------------------------
(* The accounting.                                                         *)

FreeEntries == {i \in Entries : Free(i)}

\* A start that leaves no hole leaves nothing above size.
HoleInv ==
    (\A i \in Entries : i < size => made[i] > 0) => \A i \in Entries : i >= size => made[i] = 0

\* What is true of the entries before the start.
UnusedInv ==
    phase = "created" =>
        available = 0 /\ \A i \in Entries : made[i] = 0 /\ state[i] = "IDLE" /\ locked[i] = "no"

CountedInv ==
    phase # "destroyed" /\ Contiguous =>
        available = Cardinality(FreeEntries) /\ \A i \in Entries : made[i] > 0 => vm[i] = made[i]

\* The join waits for the running scripts.
JoinInv == WaitOnShutdown => \A r \in Requests : pc[r] = "running" => phase \in {"started", "closing"}

AccountInv == HoleInv /\ UnusedInv /\ CountedInv /\ JoinInv

\* Only a hole below size keeps the VMs from being the first size entries.
LEMMA ContiguousMeans ==
    ASSUME TypeOK, HoleInv PROVE Contiguous <=> \A i \in Entries : i < size => made[i] > 0
  <1>1. \A i \in Entries : made[i] \in Nat /\ (made[i] > 0 <=> made[i] # 0)
    BY DEF TypeOK
  <1>2. size \in 0..Capacity
    BY DEF TypeOK
  <1>3. ASSUME Contiguous, NEW i \in Entries, i < size PROVE made[i] > 0
    <2>1. i \in 0..(size - 1)
      BY <1>2, <1>3
    <2> QED
      BY <1>3, <2>1 DEF Contiguous
  <1>4. ASSUME \A i \in Entries : i < size => made[i] > 0 PROVE Contiguous
    BY <1>1, <1>2, <1>4 DEF HoleInv, Contiguous
  <1> QED
    BY <1>3, <1>4

\* The free entries are finitely many.
LEMMA FreeFinite == IsFiniteSet(FreeEntries) /\ Cardinality(FreeEntries) \in Nat
  <1>1. FreeEntries \in SUBSET Entries /\ IsFiniteSet(Entries)
    BY FS_Interval DEF FreeEntries
  <1> QED
    BY <1>1, FS_Subset, FS_CardinalityType

\* An acquire takes one entry from the free ones.
LEMMA AcquireIdleAccount ==
    ASSUME IndInv, AccountInv, NEW r \in Requests, AcquireIdle(r) PROVE AccountInv'
  <1>1. TypeOK /\ HoldInv
    BY DEF IndInv
  <1>2. PICK i \in Entries :
            /\ Free(i)
            /\ locked' = [locked EXCEPT ![i] = "yes"] /\ state' = [state EXCEPT ![i] = "EXECUTING"]
    BY DEF AcquireIdle
  <1>3. /\ available' = available - 1 /\ pc' = [pc EXCEPT ![r] = "acquired"]
        /\ UNCHANGED <<phase, vm, made, size>> /\ pc[r] = "checked"
    BY DEF AcquireIdle
  <1>4. FreeEntries' = FreeEntries \ {i} /\ i \in FreeEntries
    BY <1>1, <1>2, <1>3 DEF FreeEntries, Free, TypeOK
  <1>5. Cardinality(FreeEntries') = Cardinality(FreeEntries) - 1
    BY <1>4, FreeFinite, FS_RemoveElement
  <1>6. CountedInv'
    BY <1>3, <1>5 DEF AccountInv, CountedInv, Contiguous
  <1>7. UnusedInv'
    <2>1. phase # "created"
      BY <1>3 DEF IndInv, FreshInv
    <2> QED
      BY <1>3, <2>1 DEF UnusedInv
  <1>8. HoleInv' /\ JoinInv'
    BY <1>1, <1>3 DEF AccountInv, HoleInv, JoinInv, TypeOK
  <1> QED
    BY <1>6, <1>7, <1>8 DEF AccountInv

\* Growing the pool finds no free entry and leaves none.
LEMMA AcquireExpandAccount ==
    ASSUME IndInv, AccountInv, NEW r \in Requests, AcquireExpand(r) PROVE AccountInv'
  <1>1. TypeOK
    BY DEF IndInv
  <1>2. /\ vm' = [vm EXCEPT ![size] = made[size] + 1] /\ made' = [made EXCEPT ![size] = @ + 1]
        /\ state' = [state EXCEPT ![size] = "EXECUTING"] /\ locked' = [locked EXCEPT ![size] = "yes"]
        /\ size' = size + 1 /\ pc' = [pc EXCEPT ![r] = "acquired"] /\ UNCHANGED <<phase, available>>
        /\ size < Capacity /\ pc[r] = "checked" /\ \A i \in Entries : ~Free(i)
    BY DEF AcquireExpand
  <1>3. size \in Entries /\ made[size] \in Nat
    BY <1>1, <1>2 DEF TypeOK
  <1>4. /\ made'[size] = made[size] + 1 /\ vm'[size] = made[size] + 1 /\ state'[size] = "EXECUTING"
        /\ \A i \in Entries : i # size => /\ made'[i] = made[i] /\ vm'[i] = vm[i]
                                          /\ state'[i] = state[i] /\ locked'[i] = locked[i]
    BY <1>1, <1>2, <1>3 DEF TypeOK
  <1>5. HoleInv' /\ (Contiguous' => Contiguous)
    <2>1. \A i \in Entries : made[i] \in Nat /\ made'[i] \in Nat
      BY <1>1, <1>3, <1>4, SMTT(20) DEF TypeOK
    <2>2. size \in Nat
      BY <1>1 DEF TypeOK
    <2>3. HoleInv /\ HoleInv'
      BY <1>2, <1>4, <2>1, <2>2 DEF AccountInv, HoleInv
    <2>4. TypeOK'
      BY TypeStep DEF Next
    <2>5. ASSUME Contiguous' PROVE \A i \in Entries : i < size => made[i] > 0
      <3>1. \A i \in Entries : i \in 0..size => made'[i] > 0
        BY <1>2, <2>2, <2>5 DEF Contiguous
      <3> QED
        BY <1>4, <2>2, <3>1
    <2> QED
      BY <1>1, <2>3, <2>5, ContiguousMeans
  <1>6. FreeEntries = {} /\ FreeEntries' = {}
    <2>1. \A i \in Entries : i < size + 1 => i < size \/ i = size
      BY <1>1 DEF TypeOK
    <2>2. FreeEntries = {}
      BY <1>2 DEF FreeEntries
    <2>3. ASSUME NEW i \in Entries PROVE ~Free(i)'
      BY <1>2, <1>4, <2>1 DEF Free
    <2> QED
      BY <2>2, <2>3 DEF FreeEntries
  <1>7. CountedInv'
    BY <1>2, <1>3, <1>4, <1>5, <1>6 DEF AccountInv, CountedInv
  <1>8. UnusedInv'
    <2>1. phase # "created"
      BY <1>2 DEF IndInv, FreshInv
    <2> QED
      BY <1>2, <2>1 DEF UnusedInv
  <1>9. JoinInv'
    BY <1>1, <1>2 DEF AccountInv, JoinInv, TypeOK
  <1> QED
    BY <1>5, <1>7, <1>8, <1>9 DEF AccountInv

\* An acquire that fails empties no entry that counts.
LEMMA AcquireFailAccount ==
    ASSUME IndInv, AccountInv, NEW r \in Requests, AcquireFail(r) PROVE AccountInv'
  <1>1. TypeOK
    BY DEF IndInv
  <1>2. /\ pc' = [pc EXCEPT ![r] = "failed"] /\ UNCHANGED <<phase, made, state, locked, size, available>>
        /\ pc[r] = "checked"
        /\ vm' = vm \/ vm' = [vm EXCEPT ![size] = NULL]
    BY DEF AcquireFail
  <1>3. \A i \in Entries : i # size => vm'[i] = vm[i]
    BY <1>1, <1>2 DEF TypeOK
  <1>4. FreeEntries' = FreeEntries
    <2>1. \A i \in Entries : i < size => i # size
      BY <1>1 DEF TypeOK
    <2> QED
      BY <1>2, <1>3, <2>1 DEF FreeEntries, Free
  <1>5. CountedInv'
    <2>1. ASSUME Contiguous, size \in Entries PROVE ~(made[size] > 0)
      <3>1. size \notin 0..(size - 1)
        BY <1>1 DEF TypeOK
      <3> QED
        BY <2>1, <3>1 DEF Contiguous
    <2> QED
      BY <1>2, <1>3, <1>4, <2>1 DEF AccountInv, CountedInv, Contiguous
  <1>6. UnusedInv'
    BY <1>2 DEF AccountInv, UnusedInv
  <1>7. HoleInv' /\ JoinInv'
    BY <1>1, <1>2 DEF AccountInv, HoleInv, JoinInv, TypeOK
  <1> QED
    BY <1>5, <1>6, <1>7 DEF AccountInv

\* A release puts a VM that was not free among the free ones, or changes nothing.
LEMMA ReleaseAccount ==
    ASSUME IndInv, AccountInv, NEW r \in Requests, SubmitFail(r) \/ Complete(r) PROVE AccountInv'
  <1>1. TypeOK /\ HoldInv /\ InUseMarked
    BY DEF IndInv
  <1>2. Release(r) /\ pc[r] \in {"acquired", "running"}
        /\ pc' \in {[pc EXCEPT ![r] = "failed"], [pc EXCEPT ![r] = "done"]}
    BY DEF SubmitFail, Complete
  <1>3. UNCHANGED <<phase, vm, made, size>>
    BY <1>2 DEF Release
  <1> DEFINE i == holds[r][1]
  <1>4. holds[r] # NoVM
    BY <1>1, <1>2 DEF HoldInv
  <1>5. i \in Entries /\ i < size /\ holds[r][2] # NULL /\ holds[r] = <<i, holds[r][2]>>
    BY <1>1, <1>4 DEF HoldInv, TypeOK
  <1>6. CountedInv'
    <2>1. CASE vm[i] # holds[r][2]
      <3>1. UNCHANGED <<state, locked, available>>
        BY <1>2, <2>1 DEF Release
      <3> QED
        BY <1>3, <3>1 DEF AccountInv, CountedInv, Contiguous, FreeEntries, Free
    <2>2. CASE vm[i] = holds[r][2] /\ phase # "destroyed"
      <3>1. /\ state' = [state EXCEPT ![i] = "IDLE"] /\ locked' = [locked EXCEPT ![i] = "no"]
            /\ available' = available + 1
        BY <1>2, <1>5, <2>2 DEF Release
      <3>2. state[i] = "EXECUTING"
        BY <1>1, <1>5, <2>2 DEF InUseMarked
      <3>3. /\ state'[i] = "IDLE" /\ locked'[i] = "no"
            /\ \A j \in Entries : j # i => state'[j] = state[j] /\ locked'[j] = locked[j]
        BY <1>1, <1>5, <3>1 DEF TypeOK
      <3>4. FreeEntries' = FreeEntries \cup {i} /\ i \notin FreeEntries
        BY <1>3, <1>5, <2>2, <3>2, <3>3 DEF FreeEntries, Free
      <3>5. Cardinality(FreeEntries') = Cardinality(FreeEntries) + 1
        BY <3>4, FreeFinite, FS_AddElement
      <3> QED
        BY <1>3, <3>1, <3>5 DEF AccountInv, CountedInv, Contiguous
    <2>3. CASE phase = "destroyed"
      BY <1>3, <2>3 DEF CountedInv
    <2> QED
      BY <2>1, <2>2, <2>3
  <1>7. UnusedInv'
    <2>1. phase # "created"
      BY <1>2 DEF IndInv, FreshInv
    <2> QED
      BY <1>3, <2>1 DEF UnusedInv
  <1>8. HoleInv' /\ JoinInv'
    BY <1>1, <1>2, <1>3 DEF AccountInv, HoleInv, JoinInv, TypeOK
  <1> QED
    BY <1>6, <1>7, <1>8 DEF AccountInv

\* start counts the VMs it made; without a hole they are the first entries.
LEMMA StartAccount == ASSUME IndInv, AccountInv, Start PROVE AccountInv'
  <1>1. /\ TypeOK /\ size = 0 /\ available = 0
        /\ \A r \in Requests : pc[r] = "new"
        /\ \A i \in Entries : state[i] = "IDLE" /\ locked[i] = "no"
    BY DEF IndInv, FreshInv, AccountInv, UnusedInv, Start
  <1>2. PICK S \in SUBSET (0..(Initial - 1)) :
            /\ vm' = [i \in Entries |-> IF i \in S THEN 1 ELSE NULL]
            /\ made' = [i \in Entries |-> IF i \in S THEN 1 ELSE 0]
            /\ size' = size + Cardinality(S)
            /\ available' = available + Cardinality(S)
    BY DEF Start
  <1>3. phase' = "started" /\ UNCHANGED <<state, locked, pc>>
    BY DEF Start
  <1>4. Cardinality(S) \in 0..Initial /\ S \in SUBSET Entries
    BY StartSize
  <1>5. size' = Cardinality(S) /\ available' = Cardinality(S)
    BY <1>1, <1>2, <1>4
  <1>6. IsFiniteSet(S) /\ IsFiniteSet(0..(size' - 1)) /\ Cardinality(0..(size' - 1)) = size'
    <2>1. IsFiniteSet(0..(Initial - 1))
      BY FS_Interval
    <2>2. IsFiniteSet(0..(size' - 1)) /\ Cardinality(0..(size' - 1)) = size'
      <3>1. size' \in Nat /\ 0 \in Int /\ size' - 1 \in Int
        BY <1>4, <1>5
      <3>2. /\ IsFiniteSet(0..(size' - 1))
            /\ Cardinality(0..(size' - 1)) = IF 0 > size' - 1 THEN 0 ELSE (size' - 1) - 0 + 1
        BY <3>1, FS_Interval
      <3>3. \A n \in Nat : (IF 0 > n - 1 THEN 0 ELSE (n - 1) - 0 + 1) = n
        OBVIOUS
      <3> QED
        BY ONLY <3>1, <3>2, <3>3
    <2> QED
      BY <2>1, <2>2, FS_Subset
  <1>7. ASSUME \A i \in Entries : i < size' => i \in S PROVE S = 0..(size' - 1)
    <2>1. 0..(size' - 1) \in SUBSET S
      BY <1>4, <1>5, <1>7
    <2> QED
      BY <1>5, <1>6, <2>1, FS_Subset
  <1>8. \A i \in Entries : made'[i] = (IF i \in S THEN 1 ELSE 0) /\ vm'[i] = (IF i \in S THEN 1 ELSE NULL)
    BY <1>2
  <1>9. HoleInv'
    <2> SUFFICES ASSUME \A i \in Entries : i < size' => made'[i] > 0, NEW i \in Entries, i >= size'
                 PROVE  made'[i] = 0
      BY DEF HoleInv
    <2>1. S = 0..(size' - 1)
      BY <1>7, <1>8
    <2>2. i \notin S
      <3>1. \A n, k \in Nat : k >= n => k \notin 0..(n - 1)
        OBVIOUS
      <3>2. size' \in Nat /\ i \in Nat
        BY <1>4, <1>5
      <3> QED
        BY <2>1, <3>1, <3>2
    <2> QED
      BY <1>8, <2>2
  <1>10. CountedInv'
    <2> SUFFICES ASSUME Contiguous' PROVE CountedInv'
      BY DEF CountedInv
    <2>1. S = 0..(size' - 1)
      <3>1. \A i \in Entries : made'[i] > 0 <=> i \in S
        BY <1>8
      <3>2. {i \in Entries : made'[i] > 0} = S
        BY <1>4, <3>1
      <3> QED
        BY <3>2 DEF Contiguous
    <2>2. FreeEntries' = S
      <3>1. \A i \in Entries : i \in S <=> i < size'
        <4>1. \A n, k \in Nat : k \in 0..(n - 1) <=> k < n
          OBVIOUS
        <4>2. size' \in Nat /\ \A i \in Entries : i \in Nat
          BY <1>4, <1>5
        <4> QED
          BY <2>1, <4>1, <4>2
      <3>2. \A i \in Entries : vm'[i] # NULL <=> i \in S
        BY <1>8
      <3>3. \A i \in Entries : state'[i] = "IDLE" /\ locked'[i] = "no"
        BY <1>1, <1>3
      <3>4. \A i \in Entries : i \in FreeEntries' <=> i \in S
        BY <3>1, <3>2, <3>3 DEF FreeEntries, Free
      <3> QED
        BY <1>4, <3>4 DEF FreeEntries
    <2> QED
      BY <1>5, <1>8, <2>2 DEF CountedInv
  <1>11. UnusedInv' /\ JoinInv'
    BY <1>1, <1>3 DEF UnusedInv, JoinInv
  <1> QED
    BY <1>9, <1>10, <1>11 DEF AccountInv

\* Every step keeps the accounts.
LEMMA AccountStep == ASSUME IndInv, AccountInv, [Next]_vars PROVE AccountInv'
  <1> USE DEF entryVars
  <1>1. TypeOK
    BY DEF IndInv
  <1>2. ASSUME UNCHANGED entryVars, phase' = phase \/ phase' # "created", phase = "destroyed" => phase' = "destroyed"
        PROVE  HoleInv' /\ UnusedInv' /\ CountedInv'
    BY <1>2 DEF AccountInv, HoleInv, UnusedInv, CountedInv, Contiguous, FreeEntries, Free
  <1>3. ASSUME NEW r \in Requests, Check(r) \/ Submit(r) \/ Execute(r) \/ CompleteKeeping(r) \/ Retry(r)
        PROVE  AccountInv'
    <2>1. UNCHANGED <<entryVars, phase>>
      BY <1>3 DEF Check, Submit, Execute, CompleteKeeping, Retry
    <2>2. JoinInv'
      BY <1>1, <1>3 DEF Check, Submit, Execute, CompleteKeeping, Retry, AccountInv, JoinInv, TypeOK
    <2> QED
      BY <1>2, <2>1, <2>2 DEF AccountInv
  <1>4. CASE Shutdown \/ ThreadPoolStopped
    <2>1. /\ UNCHANGED <<entryVars, pc>>
          /\ \/ phase = "started" /\ phase' = "closing"
             \/ /\ phase = "closing" /\ phase' = "joined"
                /\ WaitOnShutdown => \A r \in Requests : pc[r] # "running"
      BY <1>4 DEF Shutdown, ThreadPoolStopped
    <2>2. JoinInv'
      BY <2>1 DEF AccountInv, JoinInv
    <2> QED
      BY <1>2, <2>1, <2>2 DEF AccountInv
  <1>5. CASE Destroy
    <2>1. phase = "joined" /\ phase' = "destroyed" /\ UNCHANGED <<made, size, pc>>
      BY <1>5 DEF Destroy
    <2> QED
      BY <2>1 DEF AccountInv, HoleInv, UnusedInv, CountedInv, JoinInv
  <1>6. CASE UNCHANGED vars
    BY <1>2, <1>6 DEF vars, AccountInv, JoinInv
  <1> QED
    BY <1>3, <1>4, <1>5, <1>6, StartAccount, AcquireIdleAccount, AcquireExpandAccount,
       AcquireFailAccount, ReleaseAccount DEF Next

\* The accounts of a pool that was just created.
LEMMA AccountInit == ASSUME Init PROVE AccountInv
  <1>1. FreeEntries = {}
    BY DEF Init, FreeEntries, Free
  <1>2. Cardinality(FreeEntries) = 0
    BY <1>1, FS_EmptySet
  <1> QED
    BY <1>2 DEF Init, AccountInv, HoleInv, UnusedInv, CountedInv, JoinInv

\* Both invariants together are inductive.
LEMMA AccountInductive == Spec => [](IndInv /\ AccountInv)
  <1>1. Init => IndInv /\ AccountInv
    BY InitInv, AccountInit
  <1>2. IndInv /\ AccountInv /\ [Next]_vars => (IndInv /\ AccountInv)'
    BY IndInvStep, AccountStep
  <1> QED
    BY <1>1, <1>2, PTL DEF Spec

\* available_vms is the number of VMs the scan of acquire_vm would find, and no VM is
\* lost or freed under a running script, when shutdown waits for completion.
THEOREM AccountingHolds == ASSUME WaitOnShutdown PROVE Spec => []Accounting
  <1>1. IndInv /\ AccountInv => Accounting
    BY DEF AccountInv, CountedInv, JoinInv, Accounting, FreeEntries
  <1> QED
    BY <1>1, AccountInductive, PTL

\* acquire_vm grows the pool only when available_vms is 0.
THEOREM ExpandWhenExhaustedHolds == Spec => ExpandWhenExhausted
  <1>1. ASSUME IndInv, AccountInv, [Next]_vars
        PROVE  [phase = "started" /\ Contiguous /\ size' > size => available = 0]_vars
    <2> SUFFICES ASSUME phase = "started", Contiguous, size' > size PROVE available = 0
      OBVIOUS
    <2>1. size \in Nat
      BY <1>1 DEF IndInv, TypeOK
    <2>2. PICK r \in Requests : AcquireExpand(r)
      BY <1>1, <2>1 DEF Next, vars, entryVars, Start, Shutdown, ThreadPoolStopped, Destroy, Check,
                  AcquireIdle, AcquireFail, Submit, SubmitFail, Release, Execute, Complete,
                  CompleteKeeping, Retry
    <2>3. FreeEntries = {}
      BY <2>2 DEF AcquireExpand, FreeEntries
    <2>4. Cardinality(FreeEntries) = 0
      BY <2>3, FS_EmptySet
    <2> QED
      BY <1>1, <2>4 DEF AccountInv, CountedInv
  <1> QED
    BY <1>1, AccountInductive, PTL DEF Spec, ExpandWhenExhausted
=============================================================================
