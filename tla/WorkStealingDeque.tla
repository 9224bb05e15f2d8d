------------------------- MODULE WorkStealingDeque -------------------------
(***************************************************************************)
(* The work-stealing deque of experimental/vm_pools/work_stealing_pool.c:  *)
(* a Chase-Lev deque over a power-of-two ring buffer.  One thread pushes,  *)
(* one thread pops at the bottom, any number of thieves steal at the top.  *)
(*                                                                         *)
(* Every action is one access to the shared structure, so the actions of   *)
(* the three roles interleave as the loads and stores of the C code do.    *)
(* The interleaving is sequentially consistent: the one reordering that    *)
(* x86-TSO permits in these routines, the store of bottom passing the load *)
(* of top in pop_bottom, is forbidden there by MEMORY_BARRIER().           *)
(*                                                                         *)
(* Who may run concurrently with whom is the parameter SharedPush:         *)
(*   FALSE  the deque's own discipline: its owner pushes and pops, so that *)
(*          a push and a pop never overlap (pool->global_queue, always     *)
(*          used under global_mutex, is used in this way);                 *)
(*   TRUE   a worker's deque in the pool: the worker pops, and the thread  *)
(*          that called submit_task pushes (distribute_task_to_worker), in *)
(*          any interleaving.  Submitters exclude one another by           *)
(*          global_mutex, so there is one pusher, and the trylock on       *)
(*          resize_mutex, taken by pushers only, always succeeds.          *)
(***************************************************************************)
EXTENDS Integers, FiniteSets, Sequences

CONSTANTS
    Thieves,       \* the threads that call steal_top
    InitCapacity,  \* the capacity work_stealing_deque_create settled on
    MaxCapacity,   \* WORK_STEALING_MAX_DEQUE_SIZE
    MaxTasks,      \* bound: how many tasks are ever accepted
    SharedPush     \* may a push overlap a pop?

ASSUME CapacityAssumption ==
    /\ InitCapacity \in Nat \ {0}
    /\ MaxCapacity \in Nat
    /\ InitCapacity <= MaxCapacity
ASSUME BoundAssumption == MaxTasks \in Nat
ASSUME SharedPushAssumption == SharedPush \in BOOLEAN

NULL == 0                \* the null pointer, and the contents of a calloc'ed slot
Garbage == -1            \* what a freed or out-of-bounds slot holds
Tasks == 1..MaxTasks     \* task k is the k-th task a push accepted
Values == Garbage..MaxTasks
Indices == 0..MaxTasks   \* the values of top and bottom

\* Each resize doubles the capacity, so an array is identified by its size.
Arrays == InitCapacity..MaxCapacity

VARIABLES
    top, bottom,          \* deque->top, deque->bottom
    tasks,                \* deque->tasks: which array it points to
    capacity, mask,       \* deque->capacity, deque->mask
    slots,                \* the contents of every array
    freed,                \* the arrays that were freed
    pushPC, pushB, pushT, \* the pusher: next access, its bottom and top
    popPC, popB, popT,    \* the popper: next access, its bottom and top,
    popArr, popTask,      \*   its tasks pointer and the task it read
    stealPC, stealT,      \* each thief: next access, its top,
    stealArr, stealTask,  \*   its tasks pointer and the task it read
    accepted,             \* history: number of pushes that returned 0
    log,                  \* history: the task last pushed at each index
    claims,               \* history: how often each task's index was claimed
    got,                  \* history: how often each pointer was returned
    life                  \* "destroyed" once deque_destroy has run

deque == <<top, bottom, tasks, capacity, mask, slots, freed>>
pushVars == <<pushPC, pushB, pushT>>
popVars == <<popPC, popB, popT, popArr, popTask>>
stealVars == <<stealPC, stealT, stealArr, stealTask>>
history == <<accepted, log, claims, got>>
vars == <<deque, pushVars, popVars, stealVars, history, life>>

-----------------------------------------------------------------------------
Ring(m, i) == i % (m + 1)    \* i & mask, for m + 1 a power of two

\* tasks[i & mask] through the array pointer a, which may be stale.
ReadSlot(a, m, i) ==
    IF a \in freed \/ Ring(m, i) >= a THEN Garbage ELSE slots[a][Ring(m, i)]

\* bottom - top >= capacity - 1, in uint64_t: the difference wraps when the
\* popper has moved bottom below top.
Full(b, t, c) == b < t \/ b - t >= c - 1

Claim(i) == claims' = [claims EXCEPT ![log[i]] = @ + 1]
Return(v) == got' = [got EXCEPT ![v] = @ + 1]

Init ==
    /\ top = 0 /\ bottom = 0
    /\ tasks = InitCapacity /\ capacity = InitCapacity /\ mask = InitCapacity - 1
    /\ slots = [a \in Arrays |-> [i \in 0..(MaxCapacity - 1) |-> NULL]]
    /\ freed = {}
    /\ pushPC = "idle" /\ pushB = 0 /\ pushT = 0
    /\ popPC = "idle" /\ popB = 0 /\ popT = 0 /\ popArr = InitCapacity /\ popTask = NULL
    /\ stealPC = [h \in Thieves |-> "idle"]
    /\ stealT = [h \in Thieves |-> 0]
    /\ stealArr = [h \in Thieves |-> InitCapacity]
    /\ stealTask = [h \in Thieves |-> NULL]
    /\ accepted = 0
    /\ log = [i \in Indices |-> NULL]
    /\ claims = [k \in Values |-> 0]
    /\ got = [k \in Values |-> 0]
    /\ life = "live"

-----------------------------------------------------------------------------
(* work_stealing_deque_push_bottom, with resize_deque inlined.             *)

\* bottom = atomic_load(&deque->bottom)
PushLoadBottom ==
    /\ pushPC = "idle" /\ life = "live"
    /\ SharedPush \/ popPC = "idle"
    /\ accepted < MaxTasks
    /\ pushB' = bottom
    /\ pushPC' = "top"
    /\ UNCHANGED <<deque, pushT, popVars, stealVars, history, life>>

\* top = atomic_load(&deque->top), and the first check for a full deque
PushLoadTop ==
    /\ pushPC = "top"
    /\ pushT' = top
    /\ pushPC' = IF Full(pushB, top, capacity) THEN "resize" ELSE "slot"
    /\ UNCHANGED <<deque, pushB, popVars, stealVars, history, life>>

\* resize_deque allocates the double array and copies [top, bottom) into it
ResizeCopy ==
    /\ pushPC = "resize"
    /\ capacity < MaxCapacity /\ 2 * capacity <= MaxCapacity
    /\ slots' = [slots EXCEPT ![2 * capacity] =
                    [j \in 0..(MaxCapacity - 1) |->
                        LET from == {i \in top..(bottom - 1) : i % (2 * capacity) = j}
                        IN  IF from = {} THEN NULL
                            ELSE slots[tasks][Ring(mask, CHOOSE i \in from : TRUE)]]]
    /\ pushPC' = "publish"
    /\ UNCHANGED <<top, bottom, tasks, capacity, mask, freed, pushB, pushT,
                   popVars, stealVars, history, life>>

\* the deque is at WORK_STEALING_MAX_DEQUE_SIZE, or calloc failed
ResizeRefused ==
    /\ pushPC = "resize"
    /\ pushPC' = "recheck"
    /\ UNCHANGED <<deque, pushB, pushT, popVars, stealVars, history, life>>

\* atomic_store(&deque->tasks, new_tasks)
ResizePublish ==
    /\ pushPC = "publish"
    /\ tasks' = 2 * capacity
    /\ pushPC' = "sizes"
    /\ UNCHANGED <<top, bottom, capacity, mask, slots, freed, pushB, pushT,
                   popVars, stealVars, history, life>>

\* deque->capacity, which only the pusher reads, and deque->mask
ResizeSizes ==
    /\ pushPC = "sizes"
    /\ capacity' = 2 * capacity
    /\ mask' = 2 * capacity - 1
    /\ pushPC' = "free"
    /\ UNCHANGED <<top, bottom, tasks, slots, freed, pushB, pushT,
                   popVars, stealVars, history, life>>

\* free(old_tasks)
ResizeFree ==
    /\ pushPC = "free"
    /\ freed' = freed \cup {capacity \div 2}
    /\ pushPC' = "recheck"
    /\ UNCHANGED <<top, bottom, tasks, capacity, mask, slots, pushB, pushT,
                   popVars, stealVars, history, life>>

\* the second check, with the bottom and top loaded before the resize
PushRecheck ==
    /\ pushPC = "recheck"
    /\ pushPC' = IF Full(pushB, pushT, capacity) THEN "idle" ELSE "slot"
    /\ UNCHANGED <<deque, pushB, pushT, popVars, stealVars, history, life>>

\* tasks[bottom & deque->mask] = task
PushStoreSlot ==
    /\ pushPC = "slot"
    /\ slots' = [slots EXCEPT ![tasks][Ring(mask, pushB)] = accepted + 1]
    /\ pushPC' = "bottom"
    /\ UNCHANGED <<top, bottom, tasks, capacity, mask, freed, pushB, pushT,
                   popVars, stealVars, history, life>>

\* atomic_store(&deque->bottom, bottom + 1); return 0
PushStoreBottom ==
    /\ pushPC = "bottom"
    /\ bottom' = pushB + 1
    /\ accepted' = accepted + 1
    /\ log' = [log EXCEPT ![pushB] = accepted + 1]
    /\ pushPC' = "idle"
    /\ UNCHANGED <<top, tasks, capacity, mask, slots, freed, pushB, pushT,
                   popVars, stealVars, claims, got, life>>

Push ==
    \/ PushLoadBottom \/ PushLoadTop
    \/ ResizeCopy \/ ResizeRefused \/ ResizePublish \/ ResizeSizes \/ ResizeFree
    \/ PushRecheck \/ PushStoreSlot \/ PushStoreBottom

-----------------------------------------------------------------------------
(* work_stealing_deque_pop_bottom                                          *)

\* Variant for sensitivity checks: without the test for an empty deque.
PopLoadBottomUnchecked ==
    /\ popPC = "idle" /\ life = "live"
    /\ SharedPush \/ pushPC = "idle"
    /\ popB' = bottom - 1
    /\ popPC' = "store"
    /\ UNCHANGED <<deque, pushVars, popT, popArr, popTask, stealVars, history, life>>

\* bottom = atomic_load(&deque->bottom); at 0 the call returns NULL at once
PopLoadBottom ==
    /\ popPC = "idle" /\ life = "live"
    /\ SharedPush \/ pushPC = "idle"
    /\ bottom > 0
    /\ popB' = bottom - 1
    /\ popPC' = "store"
    /\ UNCHANGED <<deque, pushVars, popT, popArr, popTask, stealVars, history, life>>

\* atomic_store(&deque->bottom, bottom - 1); MEMORY_BARRIER()
PopStoreBottom ==
    /\ popPC = "store"
    /\ bottom' = popB
    /\ popPC' = "top"
    /\ UNCHANGED <<top, tasks, capacity, mask, slots, freed, pushVars,
                   popB, popT, popArr, popTask, stealVars, history, life>>

\* top = atomic_load(&deque->top), and the branch on it.  With top < bottom the
\* popper owns index bottom from here on.
PopLoadTop ==
    /\ popPC = "top"
    /\ popT' = top
    /\ popTask' = NULL
    /\ popPC' = IF top <= popB THEN "tasks" ELSE "restore"
    /\ IF top < popB THEN Claim(popB) ELSE UNCHANGED claims
    /\ UNCHANGED <<deque, pushVars, popB, popArr, stealVars, accepted, log, got, life>>

\* tasks = atomic_load(&deque->tasks)
PopLoadTasks ==
    /\ popPC = "tasks"
    /\ popArr' = tasks
    /\ popPC' = "slot"
    /\ UNCHANGED <<deque, pushVars, popB, popT, popTask, stealVars, history, life>>

\* task = tasks[bottom & deque->mask], returned unless it is the last one
PopReadSlot ==
    /\ popPC = "slot"
    /\ popTask' = ReadSlot(popArr, mask, popB)
    /\ \/ popT = popB /\ popPC' = "cas" /\ UNCHANGED got
       \/ popT < popB /\ popPC' = "idle" /\ Return(ReadSlot(popArr, mask, popB))
    /\ UNCHANGED <<deque, pushVars, popB, popT, popArr, stealVars,
                   accepted, log, claims, life>>

\* the race for the last task is won
PopCAS ==
    /\ popPC = "cas"
    /\ top = popT
    /\ top' = popT + 1
    /\ Claim(popB) /\ Return(popTask)
    /\ popPC' = "restore"
    /\ UNCHANGED <<bottom, tasks, capacity, mask, slots, freed, pushVars,
                   popB, popT, popArr, popTask, stealVars, accepted, log, life>>

\* Variant: the task is returned although the race for it is lost.
PopCASFailReturning ==
    /\ popPC = "cas"
    /\ popTask' = NULL
    /\ Return(popTask)
    /\ popPC' = "restore"
    /\ UNCHANGED <<deque, pushVars, popB, popT, popArr, stealVars, accepted, log, claims, life>>

\* the race is lost, or the weak compare-and-exchange failed spuriously
PopCASFail ==
    /\ popPC = "cas"
    /\ popTask' = NULL
    /\ popPC' = "restore"
    /\ UNCHANGED <<deque, pushVars, popB, popT, popArr, stealVars, history, life>>

\* Variant: bottom is left decremented.
PopRestoreMissing ==
    /\ popPC = "restore"
    /\ popPC' = "idle"
    /\ UNCHANGED <<deque, pushVars, popB, popT, popArr, popTask, stealVars, history, life>>

\* atomic_store(&deque->bottom, bottom + 1)
PopRestore ==
    /\ popPC = "restore"
    /\ bottom' = popB + 1
    /\ popPC' = "idle"
    /\ UNCHANGED <<top, tasks, capacity, mask, slots, freed, pushVars,
                   popB, popT, popArr, popTask, stealVars, history, life>>

Pop ==
    \/ PopLoadBottom \/ PopStoreBottom \/ PopLoadTop \/ PopLoadTasks
    \/ PopReadSlot \/ PopCAS \/ PopCASFail \/ PopRestore

-----------------------------------------------------------------------------
(* work_stealing_deque_steal_top, called by thief h                        *)

\* top = atomic_load(&deque->top)
StealLoadTop(h) ==
    /\ stealPC[h] = "idle" /\ life = "live"
    /\ stealT' = [stealT EXCEPT ![h] = top]
    /\ stealPC' = [stealPC EXCEPT ![h] = "bottom"]
    /\ UNCHANGED <<deque, pushVars, popVars, stealArr, stealTask, history, life>>

\* bottom = atomic_load(&deque->bottom); an empty deque ends the call
StealLoadBottom(h) ==
    /\ stealPC[h] = "bottom"
    /\ stealPC' = [stealPC EXCEPT ![h] = IF stealT[h] >= bottom THEN "idle" ELSE "tasks"]
    /\ UNCHANGED <<deque, pushVars, popVars, stealT, stealArr, stealTask, history, life>>

\* tasks = atomic_load(&deque->tasks)
StealLoadTasks(h) ==
    /\ stealPC[h] = "tasks"
    /\ stealArr' = [stealArr EXCEPT ![h] = tasks]
    /\ stealPC' = [stealPC EXCEPT ![h] = "slot"]
    /\ UNCHANGED <<deque, pushVars, popVars, stealT, stealTask, history, life>>

\* task = tasks[top & deque->mask], with the mask of this moment
StealReadSlot(h) ==
    /\ stealPC[h] = "slot"
    /\ stealTask' = [stealTask EXCEPT ![h] = ReadSlot(stealArr[h], mask, stealT[h])]
    /\ stealPC' = [stealPC EXCEPT ![h] = "cas"]
    /\ UNCHANGED <<deque, pushVars, popVars, stealT, stealArr, history, life>>

\* Variant: a plain store of top.
StealStore(h) ==
    /\ stealPC[h] = "cas"
    /\ top' = stealT[h] + 1
    /\ Claim(stealT[h]) /\ Return(stealTask[h])
    /\ stealPC' = [stealPC EXCEPT ![h] = "idle"]
    /\ UNCHANGED <<bottom, tasks, capacity, mask, slots, freed, pushVars, popVars,
                   stealT, stealArr, stealTask, accepted, log, life>>

\* the compare-and-exchange of top succeeds: the task is stolen
StealCAS(h) ==
    /\ stealPC[h] = "cas"
    /\ top = stealT[h]
    /\ top' = stealT[h] + 1
    /\ Claim(stealT[h]) /\ Return(stealTask[h])
    /\ stealPC' = [stealPC EXCEPT ![h] = "idle"]
    /\ UNCHANGED <<bottom, tasks, capacity, mask, slots, freed, pushVars, popVars,
                   stealT, stealArr, stealTask, accepted, log, life>>

\* it fails, because top moved or spuriously
StealCASFail(h) ==
    /\ stealPC[h] = "cas"
    /\ stealPC' = [stealPC EXCEPT ![h] = "idle"]
    /\ UNCHANGED <<deque, pushVars, popVars, stealT, stealArr, stealTask, history, life>>

Steal(h) ==
    \/ StealLoadTop(h) \/ StealLoadBottom(h) \/ StealLoadTasks(h)
    \/ StealReadSlot(h) \/ StealCAS(h) \/ StealCASFail(h)

-----------------------------------------------------------------------------
(* work_stealing_deque_destroy, called once the threads are joined: the    *)
(* tasks left in [top, bottom) are freed, which counts as their return.    *)
Destroy ==
    /\ life = "live"
    /\ pushPC = "idle" /\ popPC = "idle" /\ \A h \in Thieves : stealPC[h] = "idle"
    /\ life' = "destroyed"
    /\ claims' = [k \in Values |-> claims[k] + Cardinality({i \in top..(bottom - 1) : log[i] = k})]
    /\ got' = [v \in Values |-> got[v] +
                  Cardinality({i \in top..(bottom - 1) : slots[tasks][Ring(mask, i)] = v})]
    /\ UNCHANGED <<deque, pushVars, popVars, stealVars, accepted, log>>

Next == Push \/ Pop \/ (\E h \in Thieves : Steal(h)) \/ Destroy

Spec == Init /\ [][Next]_vars

-----------------------------------------------------------------------------
(* Properties.                                                             *)

\* The bottom the deque has when the pop under way is left out of account:
\* between the two stores of a pop that ends up with nothing, or races for the
\* last task, the task at index popB is still in the deque.
LogicalBottom ==
    IF \/ popPC \in {"top", "cas", "restore"}
       \/ popPC \in {"tasks", "slot"} /\ popT = popB
    THEN popB + 1
    ELSE bottom

\* The indices whose task is still in the deque.
Live == IF life = "destroyed" THEN {} ELSE top..(LogicalBottom - 1)

\* Type invariant: what each field of the deque and of a call in flight can hold.
DequeType ==
    /\ top \in Indices /\ bottom \in Indices
    /\ tasks \in Arrays /\ capacity \in Arrays
    /\ mask \in Nat /\ mask + 1 \in Arrays
    /\ slots \in [Arrays -> [0..(MaxCapacity - 1) -> Values]]
    /\ freed \subseteq Arrays
    /\ life \in {"live", "destroyed"}
PushType ==
    /\ pushPC \in {"idle", "top", "resize", "publish", "sizes", "free",
                   "recheck", "slot", "bottom"}
    /\ pushB \in Indices /\ pushT \in Indices
PopType ==
    /\ popPC \in {"idle", "store", "top", "tasks", "slot", "cas", "restore"}
    /\ popB \in Indices /\ popT \in Indices /\ popArr \in Arrays /\ popTask \in Values
StealType ==
    /\ stealPC \in [Thieves -> {"idle", "bottom", "tasks", "slot", "cas"}]
    /\ stealT \in [Thieves -> Indices]
    /\ stealArr \in [Thieves -> Arrays]
    /\ stealTask \in [Thieves -> Values]
HistoryType ==
    /\ accepted \in Indices
    /\ log \in [Indices -> NULL..MaxTasks]
    /\ claims \in [Values -> Nat] /\ got \in [Values -> Nat]
TypeOK == DequeType /\ PushType /\ PopType /\ StealType /\ HistoryType

\* Every accepted task is in the deque at one index and unclaimed, or is out of
\* it and was claimed by exactly one pop, steal or destroy: the races on top and
\* bottom neither lose nor duplicate a task (pop_bottom's comment "Lost the race
\* to a thief" is the interesting case).
ClaimedOnce ==
    /\ \A k \in 1..accepted :
          claims[k] + Cardinality({i \in Live : log[i] = k}) = 1
    /\ \A k \in Values \ (1..accepted) : claims[k] = 0

\* No resize has published a new array yet.
Unresized == tasks = InitCapacity

\* Until the deque is resized, a caller gets the task of the index it claimed: no
\* pointer is returned that was not claimed, and outside a pop every claimed task
\* has been handed out.  Reading a slot that push_bottom has reused breaks this.
Delivered ==
    Unresized =>
        /\ \A v \in Values : got[v] <= claims[v]
        /\ popPC = "idle" => \A v \in Values : got[v] = claims[v]

\* When no call is under way, every accepted task was returned exactly once or
\* sits in exactly one slot of [top, bottom): what the pool's test counts on
\* when it waits "for all tasks to complete".  It is stated on the pointers the
\* callers got and the slots themselves, without the history of claims.
Conserved ==
    (pushPC = "idle" /\ popPC = "idle" /\ \A h \in Thieves : stealPC[h] = "idle")
    => \A k \in 1..accepted :
          got[k] + (IF life = "destroyed" THEN 0
                    ELSE Cardinality({i \in top..(bottom - 1) :
                                        slots[tasks][Ring(mask, i)] = k})) = 1

\* The deque conserves its tasks until it is resized.
ConservedUnresized == Unresized => Conserved

\* The abstract deque this state stands for: the tasks of the live indices.
Contents == [j \in 1..Cardinality(Live) |-> log[top + j - 1]]

Abstract == INSTANCE TaskDeque WITH q <- Contents, n <- accepted, open <- (life = "live")

\* The interleaved loads, stores and compare-and-exchanges implement the atomic
\* deque: the tasks leave at the two ends only, a steal taking the oldest and a
\* pop the newest, each in one indivisible step of push_bottom, pop_bottom,
\* steal_top or destroy.
ImplementsDeque == Abstract!Spec
=============================================================================
