-------------------------- MODULE WorkStealingPool --------------------------
(***************************************************************************)
(* The thread pool of experimental/vm_pools/work_stealing_pool.c: starting *)
(* workers, submitting tasks under back-pressure, the worker loop with     *)
(* stealing and idle exit, balancing of the global queue, shutdown and     *)
(* destruction.                                                            *)
(*                                                                         *)
(* The deques are used through the operations of TaskDeque, one step each; *)
(* WorkStealingDeque models what happens inside them, and under which      *)
(* discipline they are atomic.  global_mutex is explicit: submitters,      *)
(* balancer, completions and shutdown exclude one another with it, while   *)
(* the workers take from the deques without it.                            *)
(*                                                                         *)
(* Time is a choice: an idle worker may have been idle for long enough, a  *)
(* balancing interval may have passed.  Left out: is_paused and            *)
(* target_thread_count, which nothing sets or reads, CPU and NUMA          *)
(* placement, which only reorders the victims, and averages.               *)
(***************************************************************************)
EXTENDS Integers, Sequences, FiniteSets, SequencesExt

CONSTANTS
    NumTasks,       \* bound: tasks are 1..NumTasks, each submitted once
    InitThreads,    \* config.initial_threads after validation
    MinThreads,     \* config.min_threads
    DequeLimit,     \* how many tasks a worker's deque can be made to hold
    GlobalLimit,    \* how many the global queue can
    MaxPending,     \* backpressure.max_pending_tasks
    HighWater,      \* backpressure.high_water_mark
    Stealing,       \* config.enable_work_stealing
    Balancing,      \* load_balancing_enabled
    StartFaults,    \* can creating a worker fail?
    WaitOnShutdown, \* shutdown(pool, wait_for_completion)
    MayShutdown     \* is the pool ever shut down?

ASSUME PoolAssumption ==
    /\ NumTasks \in Nat /\ InitThreads \in Nat \ {0}
    /\ MinThreads \in Nat /\ MinThreads <= InitThreads
    /\ DequeLimit \in Nat /\ GlobalLimit \in Nat
    /\ MaxPending \in Nat \ {0} /\ HighWater \in 0..MaxPending
    /\ {Stealing, Balancing, StartFaults, WaitOnShutdown, MayShutdown} \subseteq BOOLEAN

Tasks == 1..NumTasks
Workers == 0..(InitThreads - 1)
NoTask == 0
FREE == 0           \* nobody has global_mutex
BALANCER == -1      \* work_stealing_pool_load_balance has it
GLOBAL == -1        \* the global queue, next to those of the workers

VARIABLES
    phase,      \* "created", "started", "shutdown", "joined", "destroyed"
    mutex,      \* who has global_mutex: FREE, BALANCER or the submitter of a task
    count,      \* current_thread_count
    deque,      \* workers[i].deque
    global,     \* global_queue
    wpc, job,   \* each worker: where it is, the task it has taken
    spc, best,  \* each submission: where it is, the worker it has chosen
    submitted, rejected, completed   \* the counters of pool->stats

queues == <<deque, global>>
workerVars == <<wpc, job>>
submitVars == <<spc, best>>
stats == <<submitted, rejected, completed>>
vars == <<phase, mutex, count, queues, workerVars, submitVars, stats>>

Started == 0..(count - 1)
IsShutdown == phase \in {"shutdown", "joined", "destroyed"}

Init ==
    /\ phase = "created" /\ mutex = FREE /\ count = 0
    /\ deque = [w \in Workers |-> <<>>] /\ global = <<>>
    /\ wpc = [w \in Workers |-> "absent"] /\ job = [w \in Workers |-> NoTask]
    /\ spc = [k \in Tasks |-> "new"] /\ best = [k \in Tasks |-> 0]
    /\ submitted = 0 /\ rejected = 0 /\ completed = 0

\* work_stealing_pool_start: a failure leaves the workers created before it.
Start ==
    /\ phase = "created"
    /\ \E n \in 0..InitThreads :
        /\ n = InitThreads \/ StartFaults
        /\ count' = n
        /\ wpc' = [w \in Workers |-> IF w < n THEN "loop" ELSE "absent"]
    /\ phase' = "started"
    /\ UNCHANGED <<mutex, queues, job, submitVars, stats>>

-----------------------------------------------------------------------------
(* work_stealing_pool_submit_task                                          *)

\* The tests before the lock is taken.
SubmitCheck(k) ==
    /\ spc[k] = "new" /\ phase # "created"
    /\ spc' = [spc EXCEPT ![k] = IF IsShutdown THEN "rejected" ELSE "lock"]
    /\ UNCHANGED <<phase, mutex, count, queues, workerVars, best, stats>>

\* work_stealing_pool_get_pending_tasks adds up the sizes of the queues: it counts the
\* places taken in them.  What is executed is not pending.
Queue(q) == IF q = GLOBAL THEN global ELSE deque[q]
Waiting == UNION {{q} \X DOMAIN Queue(q) : q \in {GLOBAL} \cup Started}
Pending == Cardinality(Waiting)

\* The lock is taken and the task is turned away: always at the limit, by chance
\* between the high water mark and the limit.
SubmitReject(k) ==
    /\ spc[k] = "lock" /\ mutex = FREE /\ phase # "destroyed"
    /\ Pending >= MaxPending \/ Pending > HighWater
    /\ spc' = [spc EXCEPT ![k] = "rejected"]
    /\ rejected' = rejected + 1
    /\ UNCHANGED <<phase, mutex, count, queues, workerVars, best, submitted, completed>>

\* Variant for sensitivity checks: the lock does not cover the test and the push.
SubmitAdmitUnlocked(k) ==
    /\ spc[k] = "lock" /\ mutex = FREE /\ phase # "destroyed"
    /\ Pending < MaxPending
    /\ submitted' = submitted + 1
    /\ spc' = [spc EXCEPT ![k] = "choose"]
    /\ UNCHANGED <<phase, mutex, count, queues, workerVars, best, rejected, completed>>

\* The lock is taken and the task gets through.
SubmitAdmit(k) ==
    /\ spc[k] = "lock" /\ mutex = FREE /\ phase # "destroyed"
    /\ Pending < MaxPending
    /\ mutex' = k
    /\ submitted' = submitted + 1
    /\ spc' = [spc EXCEPT ![k] = "choose"]
    /\ UNCHANGED <<phase, count, queues, workerVars, best, rejected, completed>>

\* distribute_task_to_worker: a worker that is not terminating, worker 0 if all
\* are.  Which one depends on the queue lengths and on load scores that grow with
\* every push and decay when the pool is balanced: any of them may be the best.
Eligible == {w \in Started : ~IsShutdown /\ wpc[w] # "exited"}
Chosen(w) == w \in Eligible \/ (Eligible = {} /\ w = 0)

SubmitChoose(k) ==
    /\ spc[k] = "choose"
    /\ \/ count > 0 /\ \E w \in Started : Chosen(w) /\ best' = [best EXCEPT ![k] = w]
                    /\ spc' = [spc EXCEPT ![k] = "push"]
       \/ count = 0 /\ spc' = [spc EXCEPT ![k] = "fallback"] /\ UNCHANGED best
    /\ UNCHANGED <<phase, mutex, count, queues, workerVars, stats>>

\* The push onto the chosen worker's deque, whatever became of the worker.
SubmitPush(k) ==
    /\ spc[k] = "push"
    /\ LET w == best[k] IN
       IF Len(deque[w]) < DequeLimit
       THEN /\ deque' = [deque EXCEPT ![w] = Append(@, k)]
            /\ mutex' = FREE
            /\ spc' = [spc EXCEPT ![k] = "accepted"]
       ELSE /\ spc' = [spc EXCEPT ![k] = "fallback"]
            /\ UNCHANGED <<deque, mutex>>
    /\ UNCHANGED <<phase, count, global, workerVars, best, stats>>

\* The global queue, or rejection after all.
SubmitFallback(k) ==
    /\ spc[k] = "fallback"
    /\ mutex' = FREE
    /\ IF Len(global) < GlobalLimit
       THEN /\ global' = Append(global, k)
            /\ spc' = [spc EXCEPT ![k] = "accepted"]
            /\ UNCHANGED rejected
       ELSE /\ spc' = [spc EXCEPT ![k] = "rejected"]
            /\ rejected' = rejected + 1
            /\ UNCHANGED global
    /\ UNCHANGED <<phase, count, deque, workerVars, best, submitted, completed>>

-----------------------------------------------------------------------------
(* worker_thread_main and try_steal_work                                   *)

Take(w, k) == job' = [job EXCEPT ![w] = k] /\ wpc' = [wpc EXCEPT ![w] = "execute"]

\* The loop condition is false.
WorkerStop(w) ==
    /\ wpc[w] = "loop" /\ IsShutdown
    /\ wpc' = [wpc EXCEPT ![w] = "exited"]
    /\ UNCHANGED <<phase, mutex, count, queues, job, submitVars, stats>>

\* A task of its own, the newest.
WorkerPop(w) ==
    /\ wpc[w] = "loop" /\ ~IsShutdown
    /\ deque[w] # <<>>
    /\ Take(w, Last(deque[w]))
    /\ deque' = [deque EXCEPT ![w] = Front(@)]
    /\ UNCHANGED <<phase, mutex, count, global, submitVars, stats>>

WorkerEmpty(w) ==
    /\ wpc[w] = "loop" /\ ~IsShutdown
    /\ deque[w] = <<>>
    /\ wpc' = [wpc EXCEPT ![w] = IF Stealing THEN "steal" ELSE "idle"]
    /\ UNCHANGED <<phase, mutex, count, queues, job, submitVars, stats>>

\* The oldest task of another worker, one that has exited included.
WorkerSteal(w) ==
    /\ wpc[w] = "steal"
    /\ \E v \in Started \ {w} :
        /\ deque[v] # <<>>
        /\ Take(w, Head(deque[v]))
        /\ deque' = [deque EXCEPT ![v] = Tail(@)]
    /\ UNCHANGED <<phase, mutex, count, global, submitVars, stats>>

\* All attempts failed; a steal fails on an empty deque and when it loses a race.
WorkerGiveUp(w) ==
    /\ wpc[w] = "steal"
    /\ wpc' = [wpc EXCEPT ![w] = "idle"]
    /\ UNCHANGED <<phase, mutex, count, queues, job, submitVars, stats>>

\* Idle for too long, with current_thread_count above the minimum.
WorkerIdleExit(w) ==
    /\ wpc[w] = "idle"
    /\ count > MinThreads
    /\ wpc' = [wpc EXCEPT ![w] = "exited"]
    /\ UNCHANGED <<phase, mutex, count, queues, job, submitVars, stats>>

\* Variant: the worker does not look at its own deque again.
WorkerRetryStealing(w) ==
    /\ wpc[w] = "idle"
    /\ wpc' = [wpc EXCEPT ![w] = "steal"]
    /\ UNCHANGED <<phase, mutex, count, queues, job, submitVars, stats>>

WorkerRetry(w) ==
    /\ wpc[w] = "idle"
    /\ wpc' = [wpc EXCEPT ![w] = "loop"]
    /\ UNCHANGED <<phase, mutex, count, queues, job, submitVars, stats>>

\* The task has run; it is counted under the lock and freed.
WorkerComplete(w) ==
    /\ wpc[w] = "execute" /\ mutex = FREE
    /\ completed' = completed + 1
    /\ job' = [job EXCEPT ![w] = NoTask]
    /\ wpc' = [wpc EXCEPT ![w] = "loop"]
    /\ UNCHANGED <<phase, mutex, count, queues, submitVars, submitted, rejected>>

-----------------------------------------------------------------------------
(* work_stealing_pool_load_balance, called by the program now and then.    *)

\* The lock is taken; update_worker_load_scores changes the scores only.
BalanceBegin ==
    /\ Balancing /\ phase \in {"started", "shutdown"} /\ mutex = FREE
    /\ mutex' = BALANCER
    /\ UNCHANGED <<phase, count, queues, workerVars, submitVars, stats>>

\* Variant: the task stays in the global queue as well.
BalanceCopy ==
    /\ mutex = BALANCER /\ global # <<>> /\ count > 0
    /\ \E w \in Started :
        /\ Chosen(w) /\ Len(deque[w]) < DequeLimit
        /\ deque' = [deque EXCEPT ![w] = Append(@, Last(global))]
    /\ UNCHANGED <<phase, mutex, count, global, workerVars, submitVars, stats>>

\* The newest task of the global queue goes to a worker whose deque has room.
BalanceMove ==
    /\ mutex = BALANCER /\ global # <<>> /\ count > 0
    /\ \E w \in Started :
        /\ Chosen(w) /\ Len(deque[w]) < DequeLimit
        /\ deque' = [deque EXCEPT ![w] = Append(@, Last(global))]
    /\ global' = Front(global)
    /\ UNCHANGED <<phase, mutex, count, workerVars, submitVars, stats>>

\* The queue is empty, or the task was put back.
BalanceEnd ==
    /\ mutex = BALANCER
    /\ \/ global = <<>> \/ count = 0
       \/ \E w \in Started : Chosen(w) /\ Len(deque[w]) >= DequeLimit
    /\ mutex' = FREE
    /\ UNCHANGED <<phase, count, queues, workerVars, submitVars, stats>>

-----------------------------------------------------------------------------
(* work_stealing_pool_shutdown and work_stealing_pool_destroy              *)

Shutdown ==
    /\ MayShutdown /\ phase = "started" /\ mutex = FREE
    /\ phase' = "shutdown"
    /\ UNCHANGED <<mutex, count, queues, workerVars, submitVars, stats>>

\* Variant: the workers are not waited for.
JoinNobody ==
    /\ phase = "shutdown"
    /\ phase' = "joined"
    /\ UNCHANGED <<mutex, count, queues, workerVars, submitVars, stats>>

\* The joins, or the return without them.
Join ==
    /\ phase = "shutdown"
    /\ WaitOnShutdown => \A w \in Started : wpc[w] = "exited"
    /\ phase' = "joined"
    /\ UNCHANGED <<mutex, count, queues, workerVars, submitVars, stats>>

\* The deques and the tasks in them are freed.  No call of the pool is under way.
Destroy ==
    /\ phase = "joined" /\ mutex = FREE
    /\ \A k \in Tasks : spc[k] # "lock"
    /\ phase' = "destroyed"
    /\ deque' = [w \in Workers |-> <<>>] /\ global' = <<>>
    /\ UNCHANGED <<mutex, count, workerVars, submitVars, stats>>

Worker(w) ==
    \/ WorkerStop(w) \/ WorkerPop(w) \/ WorkerEmpty(w) \/ WorkerSteal(w) \/ WorkerGiveUp(w)
    \/ WorkerIdleExit(w) \/ WorkerRetry(w) \/ WorkerComplete(w)
Submitter(k) ==
    \/ SubmitReject(k) \/ SubmitAdmit(k)
    \/ SubmitChoose(k) \/ SubmitPush(k) \/ SubmitFallback(k)
Balancer == BalanceBegin \/ BalanceMove \/ BalanceEnd

Next ==
    \/ Start \/ Shutdown \/ Join \/ Destroy \/ Balancer
    \/ \E w \in Workers : Worker(w)
    \/ \E k \in Tasks : SubmitCheck(k) \/ Submitter(k)

Spec == Init /\ [][Next]_vars

\* Workers and submitters keep running, a lock that is released again and again
\* is obtained, and the program calls work_stealing_pool_load_balance again and again.
Fairness ==
    /\ \A w \in Workers : WF_vars(Worker(w)) /\ SF_vars(WorkerComplete(w))
    /\ \A k \in Tasks : WF_vars(Submitter(k)) /\ SF_vars(SubmitReject(k) \/ SubmitAdmit(k))
    /\ WF_vars(BalanceMove \/ BalanceEnd) /\ SF_vars(BalanceBegin)
FairSpec == Spec /\ Fairness

-----------------------------------------------------------------------------
(* Properties.                                                             *)

\* The types of the pool, the workers and the submissions.
TypeOK ==
    /\ phase \in {"created", "started", "shutdown", "joined", "destroyed"}
    /\ mutex \in {FREE, BALANCER} \cup Tasks
    /\ count \in 0..InitThreads
    /\ deque \in [Workers -> Seq(Tasks)] /\ global \in Seq(Tasks)
    /\ wpc \in [Workers -> {"absent", "loop", "steal", "idle", "execute", "exited"}]
    /\ job \in [Workers -> Tasks \cup {NoTask}]
    /\ spc \in [Tasks -> {"new", "lock", "choose", "push", "fallback", "accepted", "rejected"}]
    /\ best \in [Tasks -> Workers]
    /\ submitted \in 0..NumTasks /\ rejected \in 0..NumTasks /\ completed \in 0..NumTasks

Queued(k) == k \in ToSet(global) \/ \E w \in Workers : k \in ToSet(deque[w])
Taken(k) == \E w \in Workers : job[w] = k
Executed(k) == spc[k] = "accepted" /\ ~Queued(k) /\ ~Taken(k)

\* The pool neither loses nor repeats a task, and its statistics add up: until the
\* pool is destroyed every task submit_task accepted was completed, is being
\* executed by one worker, or waits in one queue, and a refused one is nowhere.
TasksConserved ==
    /\ TypeOK
    /\ phase # "destroyed" =>
        /\ completed + Pending + Cardinality({w \in Workers : job[w] # NoTask})
             = Cardinality({k \in Tasks : spc[k] = "accepted"})
        /\ \A k \in Tasks : Queued(k) \/ Taken(k) => spc[k] = "accepted"

\* Back-pressure: the tasks waiting never exceed max_pending_tasks, although workers
\* take tasks and the balancer moves them while a submission decides.
BackPressure == Pending <= MaxPending

\* Once a shutdown that waits has returned, no task is executed and none will be.
QuietAfterJoin ==
    phase \in {"joined", "destroyed"} =>
        \A w \in Workers : wpc[w] \in {"absent", "exited"} /\ job[w] = NoTask

\* Every task that was accepted is executed ("Wait for remaining tasks to
\* complete"), unless the pool is shut down, has no worker, or one of its workers
\* has left for idleness.
AcceptedExecuted ==
    \A k \in Tasks :
        spc[k] = "accepted" ~>
            \/ Executed(k)
            \/ IsShutdown \/ count = 0 \/ \E w \in Started : wpc[w] = "exited"
=============================================================================
