------------------------------ MODULE VmMemory ------------------------------
(***************************************************************************)
(* The memory context of a VM (experimental/vm_pools/                      *)
(* vm_memory_integration.c) with the arenas, thread arenas, large objects  *)
(* and memory managers of experimental/memory/numa_arena_allocator.c it    *)
(* routes to.  Slab objects are never freed here, so slab_alloc is a fresh *)
(* object or the failure of mmap; the free lists are SlabAllocator's.      *)
(***************************************************************************)
EXTENDS Integers, FiniteSets

CONSTANTS
    Allocators,   \* the threads that allocate
    Sizes,        \* sizes asked for
    Alignments,   \* powers of two asked of arena_alloc_aligned
    Line,         \* CACHE_LINE_SIZE
    SlabMax,      \* max_object_size of a slab allocator, 65536
    Large,        \* LARGE_OBJECT_THRESHOLD, and that of the context
    Block,        \* size of a new arena block, ARENA_DEFAULT_BLOCK_SIZE
    Threshold,    \* pressure_threshold
    MaxAllocs,    \* bound: allocations
    MaxContexts   \* bound: calls of vm_integrate_memory_management

ASSUME VmMemoryBounds ==
    /\ IsFiniteSet(Allocators) /\ Sizes \subseteq Nat /\ Alignments \subseteq Nat \ {0}
    /\ Line \in Nat \ {0} /\ SlabMax \in Nat /\ Large \in Nat /\ Block \in Nat
    /\ SlabMax < Large /\ Large + Line <= Block
    /\ Threshold \in Nat /\ MaxAllocs \in Nat /\ MaxContexts \in Nat

Managers == {"primary", "object", "string"}
Arenas == {"vm_arena", "object_arena", "string_arena"}
Pieces == Managers \cup Arenas \cup {"slab", "large"}

VARIABLES
    numa,       \* global_numa_topology.available: "yes" or "no"
    config,     \* the configuration: slab allocator, profiling, each "on" or "off"
    attached,   \* vm->memory_context: "no", "yes", or "crashed"
    pieces,     \* the allocators alive: sets of <<context, piece>>
    contexts,   \* contexts made so far; the attached one is the last
    arenaOf,    \* thread_local_arena of each thread: [blk, ptr], blk 0 if none
    blocks,     \* arena blocks made so far
    regions,    \* what thread arenas gave out: block, bounds, bounds asked for
    objects,    \* large->objects of the context: id, size
    mapped,     \* ids of large objects that are mapped
    counts,     \* large->object_count and total_bytes
    stats,      \* ctx->stats: typed (sum of the per-type counters), total, usage, peak
    under,      \* pressure_state.under_pressure: "yes" or "no"
    called,     \* calls of the pressure callback for this context
    mgr,        \* a memory manager: total_memory_allocated, peak, pressure
    step, now,    \* of each thread: where it is, and its locals
    allocs,     \* history: allocations begun
    lost        \* history: arena allocations that failed, counted by type

memoryVars == <<numa, config, attached, pieces, contexts, arenaOf, blocks, regions, objects,
                mapped, counts, stats, under, called, mgr, step, now, allocs, lost>>
context == <<config, attached, pieces, contexts, under, called>>
memory == <<arenaOf, blocks, regions>>
large == <<objects, mapped, counts>>

NoCall == [size |-> 0, ok |-> "no", seen |-> 0]

MemoryInit ==
    /\ numa \in {"yes", "no"}
    /\ config \in [slab: {"on", "off"}, profiling: {"on", "off"}]
    /\ attached = "no" /\ pieces = {} /\ contexts = 0
    /\ arenaOf = [t \in Allocators |-> [blk |-> 0, ptr |-> 0]] /\ blocks = 0 /\ regions = {}
    /\ objects = {} /\ mapped = {} /\ counts = [n |-> 0, bytes |-> 0]
    /\ stats = [typed |-> 0, total |-> 0, usage |-> 0, peak |-> 0]
    /\ under = "no" /\ called = 0
    /\ mgr = [total |-> 0, peak |-> 0, under |-> "no"]
    /\ step = [t \in Allocators |-> "idle"] /\ now = [t \in Allocators |-> NoCall]
    /\ allocs = 0 /\ lost = 0

\* The call of thread t returns.
Returned(t) == step' = [step EXCEPT ![t] = "idle"] /\ now' = [now EXCEPT ![t] = NoCall]

Quiet == \A t \in Allocators : step[t] = "idle"
AlignUp(n, a) == ((n + a - 1) \div a) * a

-----------------------------------------------------------------------------
(* vm_memory_init and vm_memory_destroy, as vm_integrate_memory_management *)
(* and vm_cleanup_memory_management call them.                             *)
Wanted == IF config.slab = "on" THEN Pieces ELSE Pieces \ {"slab"}

\* Any piece may fail; the ones made so far are destroyed with the context.
IntegrateFails ==
    /\ Quiet /\ attached # "crashed" /\ contexts < MaxContexts
    /\ contexts' = contexts + 1
    /\ UNCHANGED <<numa, config, attached, pieces, memory, large, stats, under, called, mgr,
                   step, now, allocs, lost>>

Fresh ==
    /\ objects' = {} /\ counts' = [n |-> 0, bytes |-> 0]
    /\ stats' = [typed |-> 0, total |-> 0, usage |-> 0, peak |-> 0]
    /\ under' = "no" /\ called' = 0 /\ mgr' = [total |-> 0, peak |-> 0, under |-> "no"]
    /\ lost' = 0

\* A context that is there already is forgotten, not destroyed.
Integrate ==
    /\ Quiet /\ attached # "crashed" /\ contexts < MaxContexts
    /\ contexts' = contexts + 1 /\ attached' = "yes"
    /\ pieces' = pieces \cup {<<contexts + 1, p>> : p \in Wanted}
    /\ Fresh
    /\ UNCHANGED <<numa, config, memory, mapped, step, now, allocs>>

\* What vm_memory_destroy frees.
Destroyed == {<<contexts, p>> : p \in Pieces}

\* The large objects are unmapped; slab objects and the thread arenas stay.
Detach ==
    /\ Quiet /\ attached = "yes"
    /\ attached' = "no" /\ pieces' = pieces \ Destroyed
    /\ mapped' = mapped \ {o.id : o \in objects}
    /\ Fresh
    /\ UNCHANGED <<numa, config, contexts, memory, step, now, allocs>>

-----------------------------------------------------------------------------
(* The allocators.  An operator describes an outcome: ok, and what changes.*)

\* numa_alloc_on_node and what its callers make of a failure: MAP_FAILED is taken
\* for a pointer without NUMA; with it, arena_create_block writes to NULL.
MapFailure == IF numa = "no" THEN "bad" ELSE "no"

\* thread_arena_alloc_fast, for a size already rounded up to cache lines: the
\* block in use, or a new one; get_thread_arena makes the first.
Bump(t, size) ==
    LET a == arenaOf[t]
    IN IF a.blk # 0 /\ a.ptr + size <= Block
       THEN [blk |-> a.blk, from |-> a.ptr, ptr |-> a.ptr + size, new |-> 0]
       ELSE [blk |-> blocks + 1, from |-> 0, ptr |-> size, new |-> 1]

\* The region a caller gets that asked for size bytes at a multiple of align.
Region(b, rounded, size, align) ==
    [blk |-> b.blk, lo |-> b.from, hi |-> b.from + rounded,
     from |-> AlignUp(b.from, align), size |-> size, align |-> align]

ThreadArena(t, asked, size, align) ==
    LET b == Bump(t, AlignUp(asked, Line))
    IN /\ arenaOf' = [arenaOf EXCEPT ![t] = [blk |-> b.blk, ptr |-> b.ptr]]
       /\ blocks' = blocks + b.new
       /\ regions' = regions \cup {Region(b, AlignUp(asked, Line), size, align)}

\* The block could not be made.  The allocation fails, or the program crashes.
ThreadArenaFails(t, asked) ==
    /\ Bump(t, AlignUp(asked, Line)).new = 1
    /\ UNCHANGED memory

\* The counts once an object is unmapped.
CountsAfterFree(c, o) == [n |-> c.n - 1, bytes |-> c.bytes - o.size]

\* large_object_alloc: mapped, and tracked if malloc has room for the record.
LargeAlloc(id, size) ==
    \/ /\ objects' = objects \cup {[id |-> id, size |-> size]}
       /\ counts' = [n |-> counts.n + 1, bytes |-> counts.bytes + size]
       /\ mapped' = mapped \cup {id}
    \/ /\ UNCHANGED <<objects, counts>> /\ mapped' = mapped \cup {id}

\* large_object_free, one step under the lock of the large objects.  It touches
\* nothing the counting steps of an allocation under way read or write.
LargeFree(o) ==
    /\ Quiet /\ attached = "yes" /\ o \in objects
    /\ objects' = objects \ {o} /\ counts' = CountsAfterFree(counts, o)
    /\ mapped' = mapped \ {o.id}
    /\ UNCHANGED <<numa, context, memory, stats, mgr, step, now, allocs, lost>>

\* large_object_alloc of a pointer that is MAP_FAILED.
LargeBad(id, size) ==
    /\ objects' = objects \cup {[id |-> id, size |-> size]}
    /\ counts' = [n |-> counts.n + 1, bytes |-> counts.bytes + size]
    /\ UNCHANGED mapped

Begin(t, size, ok, where) ==
    /\ attached = "yes" /\ step[t] = "idle" /\ allocs < MaxAllocs
    /\ allocs' = allocs + 1
    /\ now' = [now EXCEPT ![t] = IF where = "idle" THEN NoCall
                                 ELSE [size |-> size, ok |-> ok, seen |-> mgr.total]]
    /\ step' = [step EXCEPT ![t] = where]

-----------------------------------------------------------------------------
(* vm_alloc_object                                                         *)
AllocLarge(t, size) ==
    /\ size >= Large
    /\ \/ Begin(t, size, "yes", "type") /\ LargeAlloc(allocs, size)
       \/ MapFailure = "bad" /\ Begin(t, size, "yes", "type") /\ LargeBad(allocs, size)
       \/ MapFailure = "no" /\ Begin(t, 0, "no", "idle") /\ UNCHANGED large
    /\ UNCHANGED <<numa, context, memory, stats, mgr, lost>>

\* By the slab allocator of the context or, without it, of the arena.
AllocSlab(t, size) ==
    /\ size <= SlabMax
    /\ \/ Begin(t, size, "yes", "type") /\ UNCHANGED lost
       \/ MapFailure = "no" /\ config.slab = "on" /\ Begin(t, 0, "no", "idle") /\ UNCHANGED lost
       \/ MapFailure = "no" /\ config.slab = "off" /\ Begin(t, size, "no", "type") /\ lost' = lost + 1
    /\ UNCHANGED <<numa, context, memory, large, stats, mgr>>

\* By the arena for the type; all arenas of a thread share its thread arena.
AllocArena(t, size) ==
    /\ SlabMax < size /\ size < Large
    /\ \/ /\ Begin(t, size, "yes", "type") /\ ThreadArena(t, size, size, 1) /\ UNCHANGED lost
       \/ /\ numa = "no" /\ Begin(t, size, "no", "type") /\ ThreadArenaFails(t, size)
          /\ lost' = lost + 1
    /\ UNCHANGED <<numa, context, large, stats, mgr>>

\* With NUMA, arena_create_block touches the pages of a block at address NULL.
Crash(t, size) ==
    /\ attached = "yes" /\ step[t] = "idle" /\ numa = "yes" /\ SlabMax < size /\ size < Large
    /\ ThreadArenaFails(t, size) /\ attached' = "crashed"
    /\ UNCHANGED <<numa, config, pieces, contexts, large, stats, under, called, mgr, step, now,
                   allocs, lost>>

\* The counter of the type, raised by the arena path even when there is no object.
CountType(t) ==
    /\ step[t] = "type"
    /\ stats' = [stats EXCEPT !.typed = @ + 1]
    /\ IF now[t].ok = "yes" THEN step' = [step EXCEPT ![t] = "total"] /\ UNCHANGED now
       ELSE Returned(t)
    /\ UNCHANGED <<numa, context, memory, large, mgr, allocs, lost>>

\* Variant: the allocation is not counted in total_allocations.
CountTotalForgotten(t) ==
    /\ step[t] = "total"
    /\ stats' = [stats EXCEPT !.usage = @ + now[t].size]
    /\ step' = [step EXCEPT ![t] = "peak"]
    /\ UNCHANGED <<numa, context, memory, large, mgr, now, allocs, lost>>

\* The atomic additions to total_allocations and current_memory_usage.
CountTotal(t) ==
    /\ step[t] = "total"
    /\ stats' = [stats EXCEPT !.total = @ + 1, !.usage = @ + now[t].size]
    /\ step' = [step EXCEPT ![t] = "peak"]
    /\ UNCHANGED <<numa, context, memory, large, mgr, now, allocs, lost>>

\* peak_memory_usage is compared with a plain read of the usage and stored from
\* it, or from a second read: the compiler may make either of the two.
ReadPeak(t) ==
    /\ step[t] = "peak"
    /\ IF stats.usage > stats.peak
       THEN now' = [now EXCEPT ![t].seen = stats.usage] /\ step' = [step EXCEPT ![t] = "store"]
       ELSE Returned(t)
    /\ UNCHANGED <<numa, context, memory, large, stats, mgr, allocs, lost>>

StorePeak(t) ==
    /\ step[t] = "store"
    /\ \E usage \in {now[t].seen, stats.usage} : stats' = [stats EXCEPT !.peak = usage]
    /\ Returned(t)
    /\ UNCHANGED <<numa, context, memory, large, mgr, allocs, lost>>

\* vm_memory_track_allocation
Track ==
    /\ attached = "yes" /\ config.profiling = "on" /\ allocs < MaxAllocs /\ allocs' = allocs + 1
    /\ stats' = [stats EXCEPT !.total = @ + 1]
    /\ UNCHANGED <<numa, context, memory, large, mgr, step, now, lost>>

-----------------------------------------------------------------------------
(* The other ways to allocate.                                             *)

\* Variant: no room is asked for to move the pointer.
AskedUnaligned(size, align) == size
Asked(size, align) == size + align - 1

\* arena_alloc_aligned, as vm_alloc_cache_aligned calls it, when the size with its
\* room is one for the thread arena.
AllocAligned(t, size, align) ==
    /\ SlabMax < Asked(size, align) /\ Asked(size, align) < Large
    /\ Begin(t, size, "yes", "idle") /\ ThreadArena(t, Asked(size, align), size, align)
    /\ UNCHANGED <<numa, context, large, stats, mgr, lost>>

\* arena_alloc_numa, as vm_alloc_numa_local calls it: a thread arena for each call.
AllocNuma(t, size) ==
    /\ size < Large
    /\ Begin(t, size, "yes", "idle")
    /\ blocks' = blocks + 1
    /\ regions' = regions \cup
         {Region([blk |-> blocks + 1, from |-> 0], AlignUp(size, Line), size, 1)}
    /\ UNCHANGED <<numa, context, arenaOf, large, stats, mgr, lost>>

\* memory_manager_alloc of a size for the thread arena: the usage it compares is
\* the one before its own bytes.
ManagerAlloc(t, size) ==
    /\ SlabMax < size /\ size < Large
    /\ Begin(t, size, "yes", "mpeak") /\ ThreadArena(t, size, size, 1)
    /\ mgr' = [mgr EXCEPT !.total = @ + size]
    /\ UNCHANGED <<numa, context, large, stats, lost>>

\* The peak is loaded, compared and stored in separate steps.
ManagerReadPeak(t) ==
    /\ step[t] = "mpeak"
    /\ step' = [step EXCEPT ![t] = IF now[t].seen > mgr.peak THEN "mstore" ELSE "mpressure"]
    /\ UNCHANGED <<numa, context, memory, large, stats, mgr, now, allocs, lost>>

ManagerStorePeak(t) ==
    /\ step[t] = "mstore"
    /\ mgr' = [mgr EXCEPT !.peak = now[t].seen]
    /\ step' = [step EXCEPT ![t] = "mpressure"]
    /\ UNCHANGED <<numa, context, memory, large, stats, now, allocs, lost>>

ManagerPressure(t) ==
    /\ step[t] = "mpressure"
    /\ mgr' = [mgr EXCEPT !.under = IF now[t].seen > Threshold THEN "yes" ELSE @]
    /\ Returned(t)
    /\ UNCHANGED <<numa, context, memory, large, stats, allocs, lost>>

-----------------------------------------------------------------------------
(* Memory pressure.                                                        *)

\* Variant: the callback is called at every check that finds pressure.
CalledAgain(isUnder) == IF isUnder THEN called + 1 ELSE called
Called(isUnder) == IF isUnder /\ under = "no" THEN called + 1 ELSE called

\* vm_memory_check_pressure, called by the VM's thread 100 ms after the last check.
CheckPressure ==
    /\ attached = "yes" /\ called < MaxAllocs
    /\ under' = IF stats.usage > Threshold THEN "yes" ELSE "no"
    /\ called' = Called(stats.usage > Threshold)
    /\ UNCHANGED <<numa, config, attached, pieces, contexts, memory, large, stats, mgr, step, now,
                   allocs, lost>>

MemoryNext ==
    \/ Integrate \/ IntegrateFails \/ Detach \/ Track \/ CheckPressure
    \/ \E o \in objects : LargeFree(o)
    \/ \E t \in Allocators :
          \/ CountType(t) \/ CountTotal(t) \/ ReadPeak(t) \/ StorePeak(t)
          \/ ManagerReadPeak(t) \/ ManagerStorePeak(t) \/ ManagerPressure(t)
          \/ \E size \in Sizes :
                \/ AllocLarge(t, size) \/ AllocSlab(t, size) \/ AllocArena(t, size)
                \/ Crash(t, size) \/ AllocNuma(t, size) \/ ManagerAlloc(t, size)
                \/ \E a \in Alignments : AllocAligned(t, size, a)

MemorySpec == MemoryInit /\ [][MemoryNext]_memoryVars

-----------------------------------------------------------------------------
(* Properties.                                                             *)

\* No two allocations from arenas share a byte, whichever of the arenas and
\* managers of a thread they were asked of and whatever contexts came and went,
\* and each lies, at its alignment, within what was set aside for it.
RegionsDisjoint ==
    \A r \in regions :
        /\ r.lo <= r.from /\ r.from + r.size <= r.hi /\ r.hi <= Block /\ r.from % r.align = 0
        /\ \A q \in regions : q # r /\ q.blk = r.blk => r.hi <= q.lo \/ q.hi <= r.lo

\* vm_memory_validate_integrity, as far as the statistics go.
Validates == stats.total >= stats.typed

\* The bytes of the large objects that are tracked.
TrackedBytes == UNION {{o} \X (1..o.size) : o \in objects}

\* Whenever no allocation is under way and no arena allocation failed, the
\* counters agree, so that vm_memory_validate_integrity holds; the peak is never
\* above the usage, and the large objects are counted as they are tracked.
StatisticsAgree ==
    /\ Quiet /\ lost = 0 => Validates
    /\ stats.peak <= stats.usage /\ mgr.peak <= mgr.total
    /\ counts = [n |-> Cardinality(objects), bytes |-> Cardinality(TrackedBytes)]

\* The callback tells the VM of memory pressure once, although it is checked for
\* again and again, and only when the usage is above the threshold; a context that
\* was detached leaves no allocator behind, unless it was replaced while attached.
PressureAndPieces ==
    /\ called = (IF under = "yes" THEN 1 ELSE 0)
    /\ under = "yes" => stats.usage > Threshold
    /\ \A c \in 1..contexts : {p \in Pieces : <<c, p>> \in pieces} \in {{}, Wanted}
=============================================================================
