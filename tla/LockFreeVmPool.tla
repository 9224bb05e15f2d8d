--------------------------- MODULE LockFreeVmPool ---------------------------
(***************************************************************************)
(* The lock-free VM pool of experimental/vm_pools/vm_pool_lockfree.c.      *)
(*                                                                         *)
(* Threads take VMs from a list of chunks that grows at its head, and keep *)
(* the ones they release in a cache of their own.  A step is at most one   *)
(* access to memory that another thread reads or writes (the chunk list,   *)
(* the capacity, the free counts, the entries), together with the accesses *)
(* to the thread's own slot around it: a claimed slot belongs to one       *)
(* thread, so its cache and its counters are private.                      *)
(*                                                                         *)
(* A VM is identified with its entry.  The rate limiter, the clock and     *)
(* mmap are a choice to refuse.  Left out: statistics nothing reads, and   *)
(* the generation and version counters, which no comparison can depend on  *)
(* while the slots are private.                                            *)
(***************************************************************************)
EXTENDS Integers, FiniteSets, FiniteSetsExt

CONSTANTS
    Threads,        \* the client threads
    Slots,          \* VM_POOL_MAX_THREADS
    InitialSize,    \* config->initial_size, entries of the first chunk
    ChunkSize,      \* config->chunk_size, entries of every other chunk
    MaxTotal,       \* VM_POOL_MAX_TOTAL_VMS
    MaxActive,      \* VM_POOL_MAX_VMS_PER_THREAD
    MaxCache,       \* config->thread_cache_size
    CountModulus,   \* 2^32: the counters are uint32_t
    MaxChunks       \* bound of the model on the number of chunks

ASSUME SizeAssumption ==
    /\ Slots \in Nat /\ MaxActive \in Nat /\ MaxCache \in Nat
    /\ InitialSize \in Nat \ {0} /\ ChunkSize \in Nat \ {0}
    /\ MaxTotal \in Nat /\ InitialSize <= MaxTotal
    /\ MaxChunks \in Nat \ {0}
    /\ CountModulus \in Nat /\ CountModulus > MaxTotal /\ CountModulus > MaxActive
    /\ IsFiniteSet(Threads) /\ Threads # {}

Chunks == 1..MaxChunks
EntryCount(c) == IF c = 1 THEN InitialSize ELSE ChunkSize
EntriesOf(c) == {c} \X (0..(EntryCount(c) - 1))
Entries == UNION {EntriesOf(c) : c \in Chunks}
NIL == 0                    \* a null chunk pointer
NoEntry == <<0, 0>>         \* a null entry pointer
NoSlot == 0

VARIABLES
    ready,          \* "no", "yes", "gone": g_vm_pool_secure_initialized over time
    chunkHead,      \* chunk_head
    nextChunk,      \* chunk->next
    made,           \* how many chunks were created
    freeCount,      \* chunk->free_count
    capacity,       \* total_capacity
    state,          \* entry->state
    nextEntry,      \* entry->next
    slotThread,     \* thread_pools[i].thread_id: the thread that claimed slot i, if any
    tls,            \* tls_pool of each thread
    cache,          \* thread_pools[i].local_cache
    cacheSize,      \* thread_pools[i].cache_size
    active,         \* thread_pools[i].active_vms
    globalActive,   \* stats.active_vms
    pc,             \* where each thread is
    at,             \* its chunk
    left,           \* the entries of that chunk it has not yet seen taken
    ent,            \* its entry
    expected,       \* the chunk_head it has read
    held            \* held[t][e]: how often t was handed the VM of e

chunkVars == <<chunkHead, nextChunk, made, capacity>>
entryVars == <<state, nextEntry, freeCount>>
slotVars == <<slotThread, tls, cache, cacheSize, active, globalActive>>
local == <<at, left, ent, expected>>
vars == <<ready, chunkVars, entryVars, slotVars, pc, local, held>>

\* uint32_t arithmetic.
Wrap(n) == n % CountModulus

\* The chunks a walk from chunk_head meets: those of every set that holds the
\* head and is closed under next.
Reachable ==
    LET MetWith(S) == /\ chunkHead \in S \cup {NIL}
                      /\ \A d \in S : nextChunk[d] \in S \cup {NIL}
    IN  {c \in Chunks : \A S \in SUBSET Chunks : MetWith(S) => c \in S}

Init ==
    /\ ready = "no"
    /\ chunkHead = NIL /\ made = 0 /\ capacity = 0
    /\ nextChunk = [c \in Chunks |-> NIL]
    /\ freeCount = [c \in Chunks |-> 0]
    /\ state = [e \in Entries |-> "FREE"]
    /\ nextEntry = [e \in Entries |-> NoEntry]
    /\ slotThread = [i \in 1..Slots |-> {}]
    /\ tls = [t \in Threads |-> NoSlot]
    /\ cache = [i \in 1..Slots |-> NoEntry]
    /\ cacheSize = [i \in 1..Slots |-> 0]
    /\ active = [i \in 1..Slots |-> 0]
    /\ globalActive = 0
    /\ pc = [t \in Threads |-> "idle"]
    /\ at = [t \in Threads |-> NIL]
    /\ left = [t \in Threads |-> {}]
    /\ ent = [t \in Threads |-> NoEntry]
    /\ expected = [t \in Threads |-> NIL]
    /\ held = [t \in Threads |-> [e \in Entries |-> 0]]

Goto(t, p) == pc' = [pc EXCEPT ![t] = p]

\* vm_pool_init_secure: the first chunk.
PoolInit ==
    /\ ready = "no"
    /\ ready' = "yes"
    /\ made' = 1 /\ chunkHead' = 1 /\ capacity' = InitialSize
    /\ freeCount' = [freeCount EXCEPT ![1] = InitialSize]
    /\ UNCHANGED <<nextChunk, state, nextEntry, slotVars, pc, local, held>>

-----------------------------------------------------------------------------
(* vm_pool_get_thread_local_secure: the first slot whose thread_id is 0.   *)
(* Slots are only ever claimed, so the scan is one step.                   *)
ClaimSlot(t) ==
    /\ pc[t] = "idle" /\ ready = "yes" /\ tls[t] = NoSlot
    /\ \E i \in 1..Slots :
        /\ slotThread[i] = {} /\ \A j \in 1..(i - 1) : slotThread[j] # {}
        /\ slotThread' = [slotThread EXCEPT ![i] = {t}]
        /\ tls' = [tls EXCEPT ![t] = i]
        /\ cacheSize' = [cacheSize EXCEPT ![i] = 0]
        /\ active' = [active EXCEPT ![i] = 0]
        /\ cache' = [cache EXCEPT ![i] = NoEntry]
    /\ UNCHANGED <<ready, chunkVars, entryVars, globalActive, pc, local, held>>

(* vm_pool_acquire_secure *)

\* Variant: one VM too many.
MayAcquireOneMore(t) ==
    /\ pc[t] = "idle" /\ ready = "yes" /\ tls[t] # NoSlot
    /\ active[tls[t]] <= MaxActive

\* Its first tests: the per-thread limit (a refusal by the rate limiter is an
\* acquire that does not start).
MayAcquire(t) ==
    /\ pc[t] = "idle" /\ ready = "yes" /\ tls[t] # NoSlot
    /\ active[tls[t]] < MaxActive

\* The statistics after an entry was found, and the return of its VM.
HandOut(t, e) ==
    /\ active' = [active EXCEPT ![tls[t]] = Wrap(@ + 1)]
    /\ globalActive' = Wrap(globalActive + 1)
    /\ held' = [held EXCEPT ![t][e] = @ + 1]

\* The entry at the head of the thread's cache; its state is not looked at.
AcquireCached(t) ==
    /\ MayAcquire(t)
    /\ cache[tls[t]] # NoEntry
    /\ LET e == cache[tls[t]] IN
        /\ cache' = [cache EXCEPT ![tls[t]] = nextEntry[e]]
        /\ HandOut(t, e)
    /\ cacheSize' = [cacheSize EXCEPT ![tls[t]] = Wrap(@ - 1)]
    /\ UNCHANGED <<ready, chunkVars, entryVars, slotThread, tls, pc, local>>

\* The cache is empty: the search begins at chunk_head.
AcquireSearch(t) ==
    /\ MayAcquire(t)
    /\ cache[tls[t]] = NoEntry
    /\ at' = [at EXCEPT ![t] = chunkHead]
    /\ Goto(t, "chunk")
    /\ UNCHANGED <<ready, chunkVars, entryVars, slotVars, left, ent, expected, held>>

\* vm_pool_alloc_entry_secure reads free_count; a chunk without free entries
\* is passed over.
AllocBegin(t) ==
    /\ pc[t] \in {"chunk", "fresh"} /\ at[t] # NIL
    /\ freeCount[at[t]] # 0
    /\ left' = [left EXCEPT ![t] = EntriesOf(at[t])]
    /\ Goto(t, IF pc[t] = "chunk" THEN "entries" ELSE "freshEntries")
    /\ UNCHANGED <<ready, chunkVars, entryVars, slotVars, at, ent, expected, held>>

\* Its compare-and-swap on an entry that is free; the scan starts at random.
AllocCAS(t) ==
    /\ pc[t] \in {"entries", "freshEntries"}
    /\ \E e \in EntriesOf(at[t]) :
        /\ state[e] = "FREE"
        /\ state' = [state EXCEPT ![e] = "ALLOCATED"]
        /\ ent' = [ent EXCEPT ![t] = e]
    /\ left' = [left EXCEPT ![t] = {}]
    /\ Goto(t, "count")
    /\ UNCHANGED <<ready, chunkVars, nextEntry, freeCount, slotVars, at, expected, held>>

\* It sees that an entry is taken.
AllocSkip(t) ==
    /\ pc[t] \in {"entries", "freshEntries"}
    /\ \E e \in left[t] :
        /\ state[e] # "FREE"
        /\ left' = [left EXCEPT ![t] = @ \ {e}]
    /\ UNCHANGED <<ready, chunkVars, entryVars, slotVars, pc, at, ent, expected, held>>

\* Variant: the walk does not advance.
NextChunkStuck(t) ==
    /\ \/ pc[t] = "chunk" /\ at[t] # NIL /\ freeCount[at[t]] = 0
       \/ pc[t] = "entries" /\ left[t] = {}
    /\ Goto(t, "chunk")
    /\ UNCHANGED <<ready, chunkVars, entryVars, slotVars, local, held>>

\* The walk goes on to the next chunk: free_count was 0, or every entry was taken.
NextChunk(t) ==
    /\ \/ pc[t] = "chunk" /\ at[t] # NIL /\ freeCount[at[t]] = 0
       \/ pc[t] = "entries" /\ left[t] = {}
    /\ at' = [at EXCEPT ![t] = nextChunk[@]]
    /\ Goto(t, "chunk")
    /\ UNCHANGED <<ready, chunkVars, entryVars, slotVars, left, ent, expected, held>>

\* free_count is decremented after the entry was taken; the VM is returned.
AllocCount(t) ==
    /\ pc[t] = "count"
    /\ freeCount' = [freeCount EXCEPT ![at[t]] = Wrap(@ - 1)]
    /\ HandOut(t, ent[t])
    /\ ent' = [ent EXCEPT ![t] = NoEntry]
    /\ at' = [at EXCEPT ![t] = NIL]
    /\ Goto(t, "idle")
    /\ UNCHANGED <<ready, chunkVars, state, nextEntry, slotThread, tls, cache, cacheSize,
                   left, expected>>

\* vm_pool_create_chunk_secure, first half: the test of total_capacity.
CreateCheck(t) ==
    /\ pc[t] = "chunk" /\ at[t] = NIL
    /\ capacity + ChunkSize <= MaxTotal
    /\ Goto(t, "create")
    /\ UNCHANGED <<ready, chunkVars, entryVars, slotVars, local, held>>

\* Second half: the chunk is ready and total_capacity is raised.
CreateAdd(t) ==
    /\ pc[t] = "create" /\ made < MaxChunks
    /\ made' = made + 1
    /\ capacity' = capacity + ChunkSize
    /\ freeCount' = [freeCount EXCEPT ![made + 1] = ChunkSize]
    /\ at' = [at EXCEPT ![t] = made + 1]
    /\ Goto(t, "load")
    /\ UNCHANGED <<ready, chunkHead, nextChunk, state, nextEntry, slotVars,
                   left, ent, expected, held>>

\* expected = chunk_head
LinkLoad(t) ==
    /\ pc[t] = "load"
    /\ expected' = [expected EXCEPT ![t] = chunkHead]
    /\ Goto(t, "link")
    /\ UNCHANGED <<ready, chunkVars, entryVars, slotVars, at, left, ent, held>>

\* Variant: a plain store of chunk_head.
LinkStore(t) ==
    /\ pc[t] = "link"
    /\ nextChunk' = [nextChunk EXCEPT ![at[t]] = expected[t]]
    /\ chunkHead' = at[t]
    /\ expected' = [expected EXCEPT ![t] = NIL]
    /\ Goto(t, "fresh")
    /\ UNCHANGED <<ready, made, capacity, entryVars, slotVars, at, left, ent, held>>

\* new_chunk->next = expected, and the compare-and-swap of chunk_head; when it
\* fails it reloads expected.
LinkCAS(t) ==
    /\ pc[t] = "link"
    /\ nextChunk' = [nextChunk EXCEPT ![at[t]] = expected[t]]
    /\ IF chunkHead = expected[t]
       THEN /\ chunkHead' = at[t]
            /\ expected' = [expected EXCEPT ![t] = NIL]
            /\ Goto(t, "fresh")
       ELSE /\ expected' = [expected EXCEPT ![t] = chunkHead]
            /\ UNCHANGED <<chunkHead, pc>>
    /\ UNCHANGED <<ready, made, capacity, entryVars, slotVars, at, left, ent, held>>

\* The acquire returns NULL: no capacity or no memory for a chunk, or others
\* emptied the new chunk.
AcquireFail(t) ==
    /\ \/ pc[t] = "chunk" /\ at[t] = NIL
       \/ pc[t] = "create"
       \/ pc[t] = "fresh" /\ freeCount[at[t]] = 0
       \/ pc[t] = "freshEntries" /\ left[t] = {}
    /\ at' = [at EXCEPT ![t] = NIL]
    /\ Goto(t, "idle")
    /\ UNCHANGED <<ready, chunkVars, entryVars, slotVars, left, ent, expected, held>>

-----------------------------------------------------------------------------
(* vm_pool_release_secure, called for a VM the thread was handed.          *)
Holds(t, e) == pc[t] = "idle" /\ ready = "yes" /\ held[t][e] > 0

\* The entry is found by a walk over the chunks and set free; from here on it
\* can be allocated, while the VM is still to be cleared.
ReleaseCAS(t, e) ==
    /\ Holds(t, e)
    /\ e[1] \in Reachable
    /\ state[e] = "ALLOCATED"
    /\ state' = [state EXCEPT ![e] = "FREE"]
    /\ ent' = [ent EXCEPT ![t] = e]
    /\ Goto(t, "clear")
    /\ UNCHANGED <<ready, chunkVars, nextEntry, freeCount, slotVars, at, left, expected, held>>

\* The VM is not found, or its entry is not allocated ("double free").
ReleaseRefused(t, e) ==
    /\ Holds(t, e)
    /\ e[1] \notin Reachable \/ state[e] # "ALLOCATED"
    /\ held' = [held EXCEPT ![t][e] = @ - 1]
    /\ UNCHANGED <<ready, chunkVars, entryVars, slotVars, pc, local>>

\* The VM is cleared and leaves its holder; what follows on the thread's slot.
Cleared(t) ==
    /\ active' = [active EXCEPT ![tls[t]] = Wrap(@ - 1)]
    /\ held' = [held EXCEPT ![t][ent[t]] = @ - 1]

\* There is room in the cache: the entry is pushed.
ReleaseCache(t) ==
    /\ pc[t] = "clear"
    /\ cacheSize[tls[t]] < MaxCache
    /\ Cleared(t)
    /\ nextEntry' = [nextEntry EXCEPT ![ent[t]] = cache[tls[t]]]
    /\ cache' = [cache EXCEPT ![tls[t]] = ent[t]]
    /\ cacheSize' = [cacheSize EXCEPT ![tls[t]] = Wrap(@ + 1)]
    /\ globalActive' = Wrap(globalActive - 1)
    /\ ent' = [ent EXCEPT ![t] = NoEntry]
    /\ Goto(t, "idle")
    /\ UNCHANGED <<ready, chunkVars, state, freeCount, slotThread, tls, at, left, expected>>

\* There is none: vm_pool_free_entry_secure stores FREE (again) ...
ReleaseStore(t) ==
    /\ pc[t] = "clear"
    /\ cacheSize[tls[t]] >= MaxCache
    /\ Cleared(t)
    /\ state' = [state EXCEPT ![ent[t]] = "FREE"]
    /\ Goto(t, "free")
    /\ UNCHANGED <<ready, chunkVars, nextEntry, freeCount, slotThread, tls, cache, cacheSize,
                   globalActive, local>>

\* ... and then counts the entry as free.
ReleaseCount(t) ==
    /\ pc[t] = "free"
    /\ freeCount' = [freeCount EXCEPT ![ent[t][1]] = Wrap(@ + 1)]
    /\ globalActive' = Wrap(globalActive - 1)
    /\ ent' = [ent EXCEPT ![t] = NoEntry]
    /\ Goto(t, "idle")
    /\ UNCHANGED <<ready, chunkVars, state, nextEntry, slotThread, tls, cache, cacheSize, active,
                   at, left, expected, held>>

\* vm_pool_cleanup_secure, called when no call of the pool is under way: every
\* chunk is freed and the pool is zeroed; the threads' tls_pool is not.
Cleanup ==
    /\ ready = "yes"
    /\ \A t \in Threads : pc[t] = "idle"
    /\ ready' = "gone"
    /\ chunkHead' = NIL /\ capacity' = 0
    /\ slotThread' = [i \in 1..Slots |-> {}]
    /\ cache' = [i \in 1..Slots |-> NoEntry]
    /\ cacheSize' = [i \in 1..Slots |-> 0]
    /\ active' = [i \in 1..Slots |-> 0]
    /\ globalActive' = 0
    /\ UNCHANGED <<nextChunk, made, entryVars, tls, pc, local, held>>

\* The steps of a call that is under way.
Proceed(t) ==
    \/ AllocBegin(t) \/ AllocCAS(t) \/ AllocSkip(t) \/ AllocCount(t) \/ NextChunk(t)
    \/ CreateCheck(t) \/ CreateAdd(t) \/ LinkLoad(t) \/ LinkCAS(t) \/ AcquireFail(t)
    \/ ReleaseCache(t) \/ ReleaseStore(t) \/ ReleaseCount(t)

Next ==
    \/ PoolInit \/ Cleanup
    \/ \E t \in Threads :
          \/ ClaimSlot(t) \/ AcquireCached(t) \/ AcquireSearch(t) \/ Proceed(t)
          \/ \E e \in Entries : ReleaseCAS(t, e) \/ ReleaseRefused(t, e)

Spec == Init /\ [][Next]_vars

\* A thread inside a call keeps running.
FairSpec == Spec /\ \A t \in Threads : WF_vars(Proceed(t))

-----------------------------------------------------------------------------
(* Properties.                                                             *)

\* The VMs in the hands of t, a VM as often as it was handed out.
HeldVms(t) == UNION {{e} \X (1..held[t][e]) : e \in Entries}
HeldBy(t) == Cardinality(HeldVms(t))

\* The types of the pool, the slots and the calls under way.
TypeOK ==
    /\ ready \in {"no", "yes", "gone"}
    /\ chunkHead \in Chunks \cup {NIL} /\ made \in 0..MaxChunks
    /\ nextChunk \in [Chunks -> Chunks \cup {NIL}]
    /\ freeCount \in [Chunks -> 0..(CountModulus - 1)]
    /\ capacity \in Nat
    /\ state \in [Entries -> {"FREE", "ALLOCATED"}]
    /\ nextEntry \in [Entries -> Entries \cup {NoEntry}]
    /\ slotThread \in [1..Slots -> SUBSET Threads]
    /\ tls \in [Threads -> 0..Slots]
    /\ cache \in [1..Slots -> Entries \cup {NoEntry}]
    /\ cacheSize \in [1..Slots -> 0..(CountModulus - 1)]
    /\ active \in [1..Slots -> 0..(CountModulus - 1)]
    /\ globalActive \in 0..(CountModulus - 1)
    /\ pc \in [Threads -> {"idle", "chunk", "entries", "count", "create", "load", "link",
                           "fresh", "freshEntries", "clear", "free"}]
    /\ at \in [Threads -> Chunks \cup {NIL}]
    /\ left \in [Threads -> SUBSET Entries]
    /\ ent \in [Threads -> Entries \cup {NoEntry}]
    /\ expected \in [Threads -> Chunks \cup {NIL}]
    /\ held \in [Threads -> [Entries -> Nat]]

\* A thread never holds more VMs than active_vms of its slot says, nor more than
\* the per-thread limit, and no other thread counts on its slot: the limit that
\* vm_pool_acquire_secure tests is sound, whatever releases are refused.
PerThreadLimit ==
    ready = "yes" =>
        \A t \in Threads : tls[t] # NoSlot =>
            /\ slotThread[tls[t]] = {t}
            /\ HeldBy(t) <= active[tls[t]] /\ active[tls[t]] <= MaxActive

\* Expansion is sound: total_capacity counts the entries of all chunks, and the
\* threads that passed its test together exceed the limit by at most a chunk for
\* each but one; and no chunk is lost when threads push theirs on chunk_head at the
\* same time, so that release finds the entry of every VM.
CapacityBound ==
    ready = "yes" =>
        /\ TypeOK
        /\ capacity = InitialSize + ChunkSize * (made - 1)
        /\ capacity <= MaxTotal + ChunkSize * (Cardinality(Threads) - 1)
        /\ \A c \in 1..made :
              \/ c \in Reachable
              \/ \E t \in Threads : pc[t] \in {"load", "link"} /\ at[t] = c
        /\ \A t \in Threads : \A e \in Entries : held[t][e] > 0 => e[1] \in Reachable

\* An acquire or release that began comes to its end: no walk over the chunks, no
\* retry of the compare-and-swap and no scan of a chunk goes on for ever.
CallsReturn == \A t \in Threads : pc[t] # "idle" ~> pc[t] = "idle"

\* A VM is in the hands of one holder at a time ("Race condition fixes with
\* proper memory ordering", "Fixed thread-local cache operations").
Exclusive == \A e \in Entries : MapThenSumSet(LAMBDA t : held[t][e], Threads) <= 1
=============================================================================
