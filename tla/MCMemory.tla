------------------------------ MODULE MCMemory ------------------------------
(***************************************************************************)
(* The slab free lists and the memory context of a VM on small instances:  *)
(* a behaviour is about one of them, the other stands still.               *)
(***************************************************************************)
EXTENDS SlabAllocator, VmMemory, TLC

VARIABLE about

MCInit ==
    /\ SlabInit /\ MemoryInit
    /\ \/ about = "slab" /\ numa = "no" /\ config = [slab |-> "on", profiling |-> "off"]
       \/ about = "context" /\ interleaving = "no"
MCNext ==
    /\ UNCHANGED about
    /\ \/ about = "slab" /\ SlabNext /\ UNCHANGED memoryVars
       \/ about = "context" /\ MemoryNext /\ UNCHANGED slabVars
MCSpec == MCInit /\ [][MCNext]_<<about, slabVars, memoryVars>>

Symmetry == Permutations(Threads) \cup Permutations(Allocators)
=============================================================================
