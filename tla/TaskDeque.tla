----------------------------- MODULE TaskDeque -----------------------------
(***************************************************************************)
(* What a work-stealing deque promises: a double-ended queue of tasks,     *)
(* each operation one step.  The owner pushes and pops at the bottom, the  *)
(* thieves take the oldest task at the top, and whatever is left when the  *)
(* deque is destroyed is discarded at once.  Which operations are offered  *)
(* is read off the interface of experimental/vm_pools/work_stealing_pool.c *)
(* (push_bottom, pop_bottom, steal_top, destroy); WorkStealingDeque is     *)
(* shown to implement it.                                                  *)
(***************************************************************************)
EXTENDS Naturals, Sequences

VARIABLES
    q,      \* the tasks in the deque, oldest (top) first
    n,      \* how many tasks were ever accepted; task k is the k-th of them
    open    \* FALSE once the deque is destroyed

Init == q = <<>> /\ n = 0 /\ open = TRUE

PushBottom == open /\ n' = n + 1 /\ q' = Append(q, n + 1) /\ open' = open

PopBottom == open /\ q # <<>> /\ q' = SubSeq(q, 1, Len(q) - 1) /\ n' = n /\ open' = open

StealTop == open /\ q # <<>> /\ q' = Tail(q) /\ n' = n /\ open' = open

Discard == open /\ open' = FALSE /\ q' = <<>> /\ UNCHANGED n

Next == PushBottom \/ PopBottom \/ StealTop \/ Discard

Spec == Init /\ [][Next]_<<q, n, open>>
=============================================================================
