---------------------------- MODULE SlabAllocator ----------------------------
(***************************************************************************)
(* The lock-free free lists of one size class of the slab allocator in     *)
(* experimental/memory/numa_arena_allocator.c, at the grain of its atomic  *)
(* loads and compare-and-swaps.  The link of a free object lies in the     *)
(* object itself, so its user overwrites it.                               *)
(***************************************************************************)
EXTENDS Integers, FiniteSets

CONSTANTS
    Threads,     \* the threads that call slab_alloc and slab_free
    Nodes,       \* NUMA nodes, from 1; list 0 is that of size_classes
    Objects,     \* bound: the objects mmap hands out, from 1
    MaxFrees     \* bound: how often one object is freed

ASSUME SlabBounds ==
    Nodes \subseteq Nat \ {0} /\ Objects \subseteq Nat \ {0} /\ MaxFrees \in Nat

NULL == 0
Junk == -1                      \* what the user of an object wrote over its link
Failed == -2                    \* MAP_FAILED

VARIABLES
    interleaving,  \* slab->numa_interleaving: "yes" or "no"
    free,          \* free_list of every list
    next,          \* the word of each object that is the link of a free one
    fresh,         \* objects mmap has not handed out
    pc, list, head, link, arg,   \* of each thread: where it is, and its locals
    held,          \* objects each thread was given and has not freed
    frees          \* history: how often each object was freed

slabVars == <<interleaving, free, next, fresh, pc, list, head, link, arg, held, frees>>

SlabInit ==
    /\ interleaving \in {"yes", "no"}
    /\ free = [l \in Nodes \cup {0} |-> NULL]
    /\ next = [o \in Objects |-> NULL] /\ fresh = Objects
    /\ pc = [t \in Threads |-> "idle"] /\ list = [t \in Threads |-> 0]
    /\ head = [t \in Threads |-> NULL] /\ link = [t \in Threads |-> NULL]
    /\ arg = [t \in Threads |-> NULL]
    /\ held = [t \in Threads |-> {}] /\ frees = [o \in Objects |-> 0]

At(t, p) == pc[t] = p
GoTo(t, p) == pc' = [pc EXCEPT ![t] = p]

\* The call returns and its local variables are gone.
Returns(t) ==
    /\ GoTo(t, "idle")
    /\ list' = [list EXCEPT ![t] = 0] /\ head' = [head EXCEPT ![t] = NULL]
    /\ link' = [link EXCEPT ![t] = NULL] /\ arg' = [arg EXCEPT ![t] = NULL]

\* The list a call begins with: that of the node its thread runs on just then.
FirstLists == IF interleaving = "yes" THEN Nodes ELSE {0}

-----------------------------------------------------------------------------
(* slab_alloc                                                              *)
AllocBegin(t) ==
    /\ At(t, "idle") /\ GoTo(t, "load")
    /\ \E l \in FirstLists : list' = [list EXCEPT ![t] = l]
    /\ UNCHANGED <<interleaving, free, next, fresh, head, link, arg, held, frees>>

\* A node's list that is empty is followed by the global one, that by mmap.
AllocLoad(t) ==
    /\ At(t, "load")
    /\ head' = [head EXCEPT ![t] = free[list[t]]]
    /\ list' = [list EXCEPT ![t] = IF free[@] = NULL THEN 0 ELSE @]
    /\ GoTo(t, IF free[list[t]] # NULL THEN "read" ELSE IF list[t] # 0 THEN "load" ELSE "map")
    /\ UNCHANGED <<interleaving, free, next, fresh, link, arg, held, frees>>

\* The head may have been taken, and written to, since it was loaded.
AllocRead(t) ==
    /\ At(t, "read") /\ GoTo(t, "swap")
    /\ link' = [link EXCEPT ![t] = IF head[t] \in Objects THEN next[head[t]] ELSE Junk]
    /\ UNCHANGED <<interleaving, free, next, fresh, list, head, arg, held, frees>>

\* The user of the object writes to it.
Give(t, o) ==
    /\ held' = [held EXCEPT ![t] = @ \cup {o}]
    /\ next' = IF o \in Objects THEN [next EXCEPT ![o] = Junk] ELSE next
    /\ Returns(t)

\* Variant: the head is stored, as if the load and the store were one step.
PopStore(t) ==
    /\ At(t, "swap")
    /\ free' = [free EXCEPT ![list[t]] = link[t]]
    /\ Give(t, head[t])
    /\ UNCHANGED <<interleaving, fresh, frees>>

PopCAS(t) ==
    /\ At(t, "swap") /\ free[list[t]] = head[t]
    /\ free' = [free EXCEPT ![list[t]] = link[t]]
    /\ Give(t, head[t])
    /\ UNCHANGED <<interleaving, fresh, frees>>

PopRetry(t) ==
    /\ At(t, "swap") /\ free[list[t]] # head[t] /\ GoTo(t, "load")
    /\ UNCHANGED <<interleaving, free, next, fresh, list, head, link, arg, held, frees>>

\* numa_alloc_on_node: a failure is NULL on a NUMA machine and MAP_FAILED, which
\* the caller takes for a pointer, elsewhere.
AllocMap(t) ==
    /\ At(t, "map")
    /\ \/ \E o \in fresh : Give(t, o) /\ fresh' = fresh \ {o}
       \/ interleaving = "yes" /\ Returns(t) /\ UNCHANGED <<next, fresh, held>>
       \/ interleaving = "no" /\ Give(t, Failed) /\ UNCHANGED fresh
    /\ UNCHANGED <<interleaving, free, frees>>

(* slab_free, with the size the object was asked for with.                 *)
FreeBegin(t, o) ==
    /\ At(t, "idle") /\ o \in held[t] \cap Objects /\ frees[o] < MaxFrees
    /\ \E l \in FirstLists :
          /\ list' = [list EXCEPT ![t] = l]
          /\ head' = [head EXCEPT ![t] = free[l]]
    /\ arg' = [arg EXCEPT ![t] = o]
    /\ held' = [held EXCEPT ![t] = @ \ {o}]
    /\ frees' = [frees EXCEPT ![o] = @ + 1]
    /\ GoTo(t, "link")
    /\ UNCHANGED <<interleaving, free, next, fresh, link>>

FreeLink(t) ==
    /\ At(t, "link") /\ GoTo(t, "push")
    /\ next' = [next EXCEPT ![arg[t]] = head[t]]
    /\ UNCHANGED <<interleaving, free, fresh, list, head, link, arg, held, frees>>

PushCAS(t) ==
    /\ At(t, "push") /\ free[list[t]] = head[t] /\ Returns(t)
    /\ free' = [free EXCEPT ![list[t]] = arg[t]]
    /\ UNCHANGED <<interleaving, next, fresh, held, frees>>

\* A failed compare-and-swap leaves the head it found in the local variable.
PushRetry(t) ==
    /\ At(t, "push") /\ free[list[t]] # head[t] /\ GoTo(t, "link")
    /\ head' = [head EXCEPT ![t] = free[list[t]]]
    /\ UNCHANGED <<interleaving, free, next, fresh, list, link, arg, held, frees>>

SlabNext ==
    \E t \in Threads :
        \/ AllocBegin(t) \/ AllocLoad(t) \/ AllocRead(t) \/ PopCAS(t) \/ PopRetry(t)
        \/ AllocMap(t) \/ FreeLink(t) \/ PushCAS(t) \/ PushRetry(t)
        \/ \E o \in Objects : FreeBegin(t, o)

SlabSpec == SlabInit /\ [][SlabNext]_slabVars

-----------------------------------------------------------------------------
(* Properties.                                                             *)

\* No object is in the hands of two threads, or free while somebody holds it.
ObjectExclusive ==
    /\ \A t, u \in Threads : t # u => held[t] \cap held[u] \cap Objects = {}
    /\ \A t \in Threads, l \in DOMAIN free : free[l] \notin held[t] \cup {Junk}

\* As long as no object is freed a second time, whatever the interleaving of
\* allocations and first frees: a head that was taken cannot come back between
\* the load of the list and its compare-and-swap.
ExclusiveInFirstLife == (\A o \in Objects : frees[o] <= 1) => ObjectExclusive
=============================================================================
