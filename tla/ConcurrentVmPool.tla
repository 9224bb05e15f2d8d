-------------------------- MODULE ConcurrentVmPool --------------------------
(***************************************************************************)
(* The concurrent VM pool of experimental/vm_pools/concurrent_vm_pool.c:   *)
(* start, acquire, release, script submission, shutdown and destruction.   *)
(*                                                                         *)
(* vm_pool_mutex makes the body of each operation one step; what happens   *)
(* outside it (the test of is_shutting_down before an acquire, the hand-   *)
(* over to the thread pool, the execution, the callback) is a step of its  *)
(* own.  The thread pool is modelled by what this file uses of it: a task  *)
(* it accepts is executed at most once, by some worker, and after its      *)
(* shutdown no task is begun.                                              *)
(*                                                                         *)
(* A VM is identified by its entry and by which VM created there it is.    *)
(***************************************************************************)
EXTENDS Integers, FiniteSets

CONSTANTS
    Requests,       \* the calls of submit_script_execution and acquire_vm
    Releasing,      \* those whose completion callback releases the VM
    Capacity,       \* config.max_vm_count
    Initial,        \* config.initial_vm_count
    StartFaults,    \* can ember_new_vm fail while the pool starts?
    WaitOnShutdown  \* is shutdown called with wait_for_completion?

ASSUME ConfigAssumption ==
    /\ Capacity \in Nat /\ Initial \in Nat /\ Initial <= Capacity
    /\ Releasing \subseteq Requests
ASSUME FlagAssumption ==
    StartFaults \in BOOLEAN /\ WaitOnShutdown \in BOOLEAN

Entries == 0..(Capacity - 1)
NULL == 0
NoVM == <<-1, NULL>>

VARIABLES
    phase,      \* of the pool: "created", "started", "closing", "joined", "destroyed"
    vm,         \* vm_entries[i].vm: which VM created at entry i, or NULL
    made,       \* history: how many VMs were created at entry i
    state,      \* vm_entries[i].state
    locked,     \* is vm_entries[i].vm_mutex locked?
    size,       \* vm_pool_size
    available,  \* available_vms
    pc,         \* where each request is
    holds       \* context->vm of each request

entryVars == <<vm, made, state, locked, size, available>>
vars == <<phase, entryVars, pc, holds>>

\* is_shutting_down
Closing == phase \in {"closing", "joined", "destroyed"}

Init ==
    /\ phase = "created"
    /\ vm = [i \in Entries |-> NULL]
    /\ made = [i \in Entries |-> 0]
    /\ state = [i \in Entries |-> "IDLE"]
    /\ locked = [i \in Entries |-> "no"]
    /\ size = 0
    /\ available = 0
    /\ pc = [r \in Requests |-> "new"]
    /\ holds = [r \in Requests |-> NoVM]

-----------------------------------------------------------------------------
(* Variant for sensitivity checks: every VM is counted twice.              *)
StartCountingTwice ==
    /\ phase = "created"
    /\ \E S \in SUBSET (0..(Initial - 1)) :
        /\ StartFaults \/ S = 0..(Initial - 1)
        /\ vm' = [i \in Entries |-> IF i \in S THEN 1 ELSE NULL]
        /\ made' = [i \in Entries |-> IF i \in S THEN 1 ELSE 0]
        /\ size' = size + 2 * Cardinality(S)
        /\ available' = available + Cardinality(S)
    /\ phase' = "started"
    /\ UNCHANGED <<state, locked, pc, holds>>

(* concurrent_vm_pool_start.  The loop runs over the entries 0..Initial-1  *)
(* and counts the VMs it could create; S are the entries where it could.   *)
Start ==
    /\ phase = "created"
    /\ \E S \in SUBSET (0..(Initial - 1)) :
        /\ StartFaults \/ S = 0..(Initial - 1)
        /\ vm' = [i \in Entries |-> IF i \in S THEN 1 ELSE NULL]
        /\ made' = [i \in Entries |-> IF i \in S THEN 1 ELSE 0]
        /\ size' = size + Cardinality(S)
        /\ available' = available + Cardinality(S)
    /\ phase' = "started"
    /\ UNCHANGED <<state, locked, pc, holds>>

\* concurrent_vm_pool_acquire_vm reads is_shutting_down before it takes the lock.
\* A client calls the pool once concurrent_vm_pool_start has returned.
Check(r) ==
    /\ pc[r] = "new"
    /\ phase # "created"
    /\ pc' = [pc EXCEPT ![r] = IF Closing THEN "failed" ELSE "checked"]
    /\ UNCHANGED <<phase, entryVars, holds>>

\* Variant: the state of the entry is not looked at.
FreeUnchecked(i) == i < size /\ vm[i] # NULL

\* An entry the scan of acquire_vm would take.
Free(i) == i < size /\ locked[i] = "no" /\ state[i] = "IDLE" /\ vm[i] # NULL

\* The scan finds its first free entry.
AcquireIdle(r) ==
    /\ pc[r] = "checked" /\ phase # "destroyed"
    /\ \E i \in Entries :
        /\ Free(i) /\ \A j \in Entries : Free(j) => i <= j
        /\ locked' = [locked EXCEPT ![i] = "yes"]
        /\ state' = [state EXCEPT ![i] = "EXECUTING"]
        /\ holds' = [holds EXCEPT ![r] = <<i, vm[i]>>]
    /\ available' = available - 1
    /\ pc' = [pc EXCEPT ![r] = "acquired"]
    /\ UNCHANGED <<phase, vm, made, size>>

\* Variant: the pool grows without looking for a free entry first.
AcquireExpandEager(r) ==
    /\ pc[r] = "checked" /\ phase # "destroyed"
    /\ size < Capacity
    /\ vm' = [vm EXCEPT ![size] = made[size] + 1]
    /\ made' = [made EXCEPT ![size] = @ + 1]
    /\ state' = [state EXCEPT ![size] = "EXECUTING"]
    /\ locked' = [locked EXCEPT ![size] = "yes"]
    /\ size' = size + 1
    /\ holds' = [holds EXCEPT ![r] = <<size, made[size] + 1>>]
    /\ pc' = [pc EXCEPT ![r] = "acquired"]
    /\ UNCHANGED <<phase, available>>

\* There is none and the pool grows by one entry.
AcquireExpand(r) ==
    /\ pc[r] = "checked" /\ phase # "destroyed"
    /\ \A i \in Entries : ~Free(i)
    /\ size < Capacity
    /\ vm' = [vm EXCEPT ![size] = made[size] + 1]
    /\ made' = [made EXCEPT ![size] = @ + 1]
    /\ state' = [state EXCEPT ![size] = "EXECUTING"]
    /\ locked' = [locked EXCEPT ![size] = "yes"]
    /\ size' = size + 1
    /\ holds' = [holds EXCEPT ![r] = <<size, made[size] + 1>>]
    /\ pc' = [pc EXCEPT ![r] = "acquired"]
    /\ UNCHANGED <<phase, available>>

\* There is none, and the pool is full or ember_new_vm fails at the new entry.
AcquireFail(r) ==
    /\ pc[r] = "checked" /\ phase # "destroyed"
    /\ \A i \in Entries : ~Free(i)
    /\ IF size < Capacity THEN vm' = [vm EXCEPT ![size] = NULL] ELSE UNCHANGED vm
    /\ pc' = [pc EXCEPT ![r] = "failed"]
    /\ UNCHANGED <<phase, made, state, locked, size, available, holds>>

\* Variant: available_vms is not raised.
ReleaseUncounted(r) ==
    /\ holds' = [holds EXCEPT ![r] = NoVM]
    /\ LET i == holds[r][1] IN
       IF i < size /\ vm[i] = holds[r][2]
       THEN /\ state' = [state EXCEPT ![i] = "IDLE"]
            /\ locked' = [locked EXCEPT ![i] = "no"]
       ELSE UNCHANGED <<state, locked>>
    /\ UNCHANGED <<phase, vm, made, size, available>>

\* concurrent_vm_pool_release_vm(pool, holds[r]): the entry is looked up by VM.
Release(r) ==
    /\ holds' = [holds EXCEPT ![r] = NoVM]
    /\ LET i == holds[r][1] IN
       IF i < size /\ vm[i] = holds[r][2]
       THEN /\ state' = [state EXCEPT ![i] = "IDLE"]
            /\ locked' = [locked EXCEPT ![i] = "no"]
            /\ available' = available + 1
       ELSE UNCHANGED <<state, locked, available>>
    /\ UNCHANGED <<phase, vm, made, size>>

-----------------------------------------------------------------------------
(* concurrent_vm_pool_submit_script_execution after the acquire, and       *)
(* vm_task_executor.                                                       *)

\* work_stealing_pool_submit_task accepts the task; it still may between the two
\* steps of a shutdown.
Submit(r) ==
    /\ pc[r] = "acquired"
    /\ phase \in {"started", "closing"}
    /\ pc' = [pc EXCEPT ![r] = "queued"]
    /\ UNCHANGED <<phase, entryVars, holds>>

\* Variant: the VM goes back although the thread pool has the task.
SubmitFailQueued(r) ==
    /\ pc[r] = "acquired" /\ phase # "destroyed"
    /\ state' = [state EXCEPT ![holds[r][1]] = "IDLE"]
    /\ locked' = [locked EXCEPT ![holds[r][1]] = "no"]
    /\ available' = available + 1
    /\ pc' = [pc EXCEPT ![r] = "queued"]
    /\ UNCHANGED <<phase, vm, made, size, holds>>

\* The task cannot be created or is refused, and the VM goes back at once.
SubmitFail(r) ==
    /\ pc[r] = "acquired" /\ phase # "destroyed"
    /\ Release(r)
    /\ pc' = [pc EXCEPT ![r] = "failed"]

\* A worker of the thread pool begins the task.
Execute(r) ==
    /\ pc[r] = "queued"
    /\ phase \in {"started", "closing"}
    /\ pc' = [pc EXCEPT ![r] = "running"]
    /\ UNCHANGED <<phase, entryVars, holds>>

\* Variant: the callback is not called.
CompleteSilently(r) ==
    /\ pc[r] = "running" /\ r \in Releasing
    /\ pc' = [pc EXCEPT ![r] = "kept"]
    /\ UNCHANGED <<phase, entryVars, holds>>

\* The script has run and the completion callback gives the VM back.
Complete(r) ==
    /\ pc[r] = "running" /\ r \in Releasing
    /\ Release(r)
    /\ pc' = [pc EXCEPT ![r] = "done"]

\* There is no callback, or it keeps the VM: vm_task_executor releases nothing.
CompleteKeeping(r) ==
    /\ pc[r] = "running" /\ r \notin Releasing
    /\ pc' = [pc EXCEPT ![r] = "kept"]
    /\ UNCHANGED <<phase, entryVars, holds>>

\* A client whose call failed calls again.
Retry(r) ==
    /\ pc[r] = "failed"
    /\ pc' = [pc EXCEPT ![r] = "new"]
    /\ UNCHANGED <<phase, entryVars, holds>>

-----------------------------------------------------------------------------
(* concurrent_vm_pool_shutdown sets is_shutting_down, then stops the       *)
(* thread pool and, with wait_for_completion, joins its workers.           *)
Shutdown ==
    /\ phase = "started"
    /\ phase' = "closing"
    /\ UNCHANGED <<entryVars, pc, holds>>

ThreadPoolStopped ==
    /\ phase = "closing"
    /\ WaitOnShutdown => \A r \in Requests : pc[r] # "running"
    /\ phase' = "joined"
    /\ UNCHANGED <<entryVars, pc, holds>>

\* concurrent_vm_pool_destroy: cleanup_vm_instance on the entries below size.
\* Its caller has no call of the pool under way.
Destroy ==
    /\ phase = "joined"
    /\ \A r \in Requests : pc[r] \notin {"checked", "acquired"}
    /\ phase' = "destroyed"
    /\ vm' = [i \in Entries |-> IF i < size THEN NULL ELSE vm[i]]
    /\ state' = [i \in Entries |-> IF i < size THEN "IDLE" ELSE state[i]]
    /\ locked' = [i \in Entries |-> IF i < size THEN "no" ELSE locked[i]]
    /\ UNCHANGED <<made, size, available, pc, holds>>

Next ==
    \/ Start \/ Shutdown \/ ThreadPoolStopped \/ Destroy
    \/ \E r \in Requests :
          \/ Check(r) \/ AcquireIdle(r) \/ AcquireExpand(r) \/ AcquireFail(r)
          \/ Submit(r) \/ SubmitFail(r) \/ Execute(r)
          \/ Complete(r) \/ CompleteKeeping(r) \/ Retry(r)

\* A call that is past its first test returns, the workers run what is queued
\* and a script that runs comes to its end.
Fairness ==
    \A r \in Requests :
        /\ WF_vars(AcquireIdle(r) \/ AcquireExpand(r) \/ AcquireFail(r))
        /\ WF_vars(Submit(r) \/ SubmitFail(r))
        /\ WF_vars(Execute(r))
        /\ WF_vars(Complete(r) \/ CompleteKeeping(r))

Spec == Init /\ [][Next]_vars
FairSpec == Spec /\ Fairness

-----------------------------------------------------------------------------
(* Properties.                                                             *)

\* Type invariant of the pool, its entries and its requests.
TypeOK ==
    /\ phase \in {"created", "started", "closing", "joined", "destroyed"}
    /\ vm \in [Entries -> Nat] /\ made \in [Entries -> Nat]
    /\ state \in [Entries -> {"IDLE", "EXECUTING"}]
    /\ locked \in [Entries -> {"no", "yes"}]
    /\ size \in 0..Capacity
    /\ available \in Int
    /\ pc \in [Requests -> {"new", "checked", "acquired", "queued", "running",
                            "kept", "done", "failed"}]
    /\ holds \in [Requests -> {NoVM} \cup (Entries \X Nat)]

\* No two requests ever hold the same VM: acquire_vm, release_vm and
\* submit_script_execution keep a VM exclusive whatever start, expansion and
\* failed submissions do to the entries.
Exclusive ==
    \A r, s \in Requests : holds[r] # NoVM /\ holds[r] = holds[s] => r = s

\* The VMs in use: their entries are marked EXECUTING and locked, so that the
\* scan of acquire_vm passes them over.
InUseMarked ==
    phase # "destroyed" =>
        \A r \in Requests : \A i \in Entries :
            i < size /\ holds[r] = <<i, vm[i]>> => state[i] = "EXECUTING" /\ locked[i] = "yes"

\* The VMs are in the entries below vm_pool_size.  Only a start that failed to
\* create a VM and then created another leaves a hole, which is never filled.
Contiguous == {i \in Entries : made[i] > 0} = 0..(size - 1)

\* Unless start left a hole, available_vms is the number of VMs the scan would
\* find, and every VM that was created can be found: expansion, release and
\* failed submissions leak none.  With or without a hole, no VM is freed under a
\* running script: destroy comes after the join.
Accounting ==
    /\ phase # "destroyed" /\ Contiguous =>
        /\ available = Cardinality({i \in Entries : Free(i)})
        /\ \A i \in Entries : made[i] > 0 => vm[i] = made[i]
    /\ \A r \in Requests : pc[r] = "running" => phase # "destroyed"

\* acquire_vm creates a VM only when there is no available one ("No available
\* VMs, try to expand pool if possible"), again unless start left a hole.
ExpandWhenExhausted ==
    [][phase = "started" /\ Contiguous /\ size' > size => available = 0]_vars

\* Every VM acquired for a script whose callback releases it comes back, unless
\* the pool is shut down first.
VmReturned ==
    \A r \in Releasing :
        pc[r] \in {"acquired", "queued", "running"} ~> holds[r] = NoVM \/ Closing

\* The pool implements exclusive allocation.
Allocator == INSTANCE VmAllocator WITH Clients <- Requests, holder <- holds
ImplementsAllocator == Allocator!Spec
=============================================================================
