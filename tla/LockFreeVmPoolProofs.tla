------------------------ MODULE LockFreeVmPoolProofs ------------------------
(***************************************************************************)
(* Proofs about LockFreeVmPool, for every set of threads and every size of *)
(* the pool, its chunks, its caches and its counters.                      *)
(***************************************************************************)
EXTENDS LockFreeVmPool, FiniteSetTheorems, TLAPS

\* The places of an acquire that has passed the per-thread limit.
Acquiring == {"chunk", "entries", "count", "create", "load", "link", "fresh", "freshEntries"}

\* Nothing happens before vm_pool_init_secure.
FreshInv == ready = "no" => Init

\* What a call under way knows: it has a slot, a chunk where it needs one and an
\* entry where it needs one; a VM about to be cleared is still held.
CallInv ==
    \A t \in Threads :
        /\ pc[t] # "idle" => ready = "yes" /\ tls[t] # NoSlot
        /\ pc[t] \in {"entries", "freshEntries", "count", "load", "link", "fresh"} => at[t] # NIL
        /\ pc[t] \in {"count", "clear", "free"} => ent[t] # NoEntry
        /\ pc[t] = "clear" => held[t][ent[t]] > 0
        /\ pc[t] = "create" => ChunkSize <= MaxTotal
        /\ \A e \in Entries : held[t][e] > 0 => tls[t] # NoSlot

\* A slot belongs to one thread and its counter covers what that thread holds; an
\* acquire under way has room for one VM more.
SlotInv ==
    ready = "yes" =>
        \A t \in Threads : tls[t] # NoSlot =>
            /\ slotThread[tls[t]] = {t}
            /\ IsFiniteSet(HeldVms(t))
            /\ Cardinality(HeldVms(t)) <= active[tls[t]] /\ active[tls[t]] <= MaxActive
            /\ pc[t] \in Acquiring => active[tls[t]] < MaxActive

\* The threads that passed the test of total_capacity and have not yet raised it.
Creators == {t \in Threads : pc[t] = "create"}

\* total_capacity counts the chunks, and has room for what the creators will add.
CapacityInv ==
    ready = "yes" =>
        /\ made >= 1
        /\ capacity = InitialSize + ChunkSize * (made - 1)
        /\ capacity + ChunkSize * Cardinality(Creators)
             <= MaxTotal + ChunkSize * (Cardinality(Threads) - 1)

\* A thread has made a chunk and not yet pushed it; the chunks that were pushed.
Linking(t) == pc[t] \in {"load", "link"}
Linked == {c \in 1..made : \A t \in Threads : Linking(t) => at[t] # c}

\* Only pushed chunks are pointed to, and all of them are met by a walk.
ChainInv ==
    /\ ready = "yes" => chunkHead \in Linked /\ Linked \subseteq Reachable
    /\ \A c \in Chunks : nextChunk[c] \in Linked \cup {NIL}
    /\ \A t \in Threads :
          /\ pc[t] = "link" => expected[t] \in Linked \cup {NIL}
          /\ IF Linking(t) THEN at[t] \in 1..made ELSE at[t] \in Linked \cup {NIL}
    /\ \A t, u \in Threads : t # u /\ Linking(t) /\ Linking(u) => at[t] # at[u]

\* An entry that a thread, a cache or another entry refers to is in a pushed chunk.
StoredInv ==
    /\ \A t \in Threads :
          /\ \A e \in Entries : held[t][e] > 0 => e[1] \in Linked
          /\ ent[t] # NoEntry => ent[t][1] \in Linked
    /\ \A i \in 1..Slots : cache[i] # NoEntry => cache[i][1] \in Linked
    /\ \A e \in Entries : nextEntry[e] # NoEntry => nextEntry[e][1] \in Linked

IndInv ==
    /\ TypeOK /\ FreshInv /\ CallInv /\ SlotInv /\ CapacityInv /\ ChainInv /\ StoredInv

-----------------------------------------------------------------------------
USE SizeAssumption

\* What uint32_t arithmetic gives.
LEMMA WrapType == \A n \in Int : Wrap(n) \in 0..(CountModulus - 1)
  BY DEF Wrap

\* Below the modulus it is plain arithmetic.
LEMMA WrapSmall == \A n \in 0..(CountModulus - 1) : Wrap(n) = n
  BY DEF Wrap

\* The entries of a chunk name it, and no entry is the null pointer.
LEMMA EntryFacts ==
    /\ \A e \in Entries : e # NoEntry /\ e[1] \in Chunks
    /\ \A c \in Chunks : \A e \in EntriesOf(c) : e \in Entries /\ e[1] = c
    /\ \A c \in Chunks : c # NIL
  BY DEF Entries, EntriesOf, NoEntry, Chunks, NIL

\* The invariant holds before vm_pool_init_secure.
LEMMA InitInv == Init => IndInv
  <1> SUFFICES ASSUME Init PROVE IndInv
    OBVIOUS
  <1>1. TypeOK
    BY EntryFacts DEF Init, TypeOK, Chunks, NIL, NoSlot
  <1>2. FreshInv /\ CallInv /\ SlotInv /\ CapacityInv
    BY DEF Init, FreshInv, CallInv, SlotInv, CapacityInv
  <1>3. ChainInv /\ StoredInv
    BY DEF Init, ChainInv, StoredInv, Linking
  <1> QED
    BY <1>1, <1>2, <1>3 DEF IndInv

\* Every step keeps the type invariant.
LEMMA TypeStep == ASSUME IndInv, [Next]_vars PROVE TypeOK'
  <1> DEFINE Count == 0..(CountModulus - 1)
             Places == Acquiring \cup {"idle", "clear", "free"}
  <1> USE DEF TypeOK, chunkVars, entryVars, slotVars, local, Goto, Acquiring
  <1>1. TypeOK /\ CallInv
    BY DEF IndInv
  <1>2. CASE UNCHANGED vars
    BY <1>1, <1>2 DEF vars
  <1>3. CASE PoolInit
    BY <1>1, <1>3, SMTT(20) DEF PoolInit, Chunks, NIL
  <1>4. CASE Cleanup
    BY <1>1, <1>4 DEF Cleanup
  <1>5. ASSUME NEW t \in Threads, ClaimSlot(t) PROVE TypeOK'
    BY <1>1, <1>5 DEF ClaimSlot
  <1>6. ASSUME NEW t \in Threads, AcquireCached(t) PROVE TypeOK'
    <2>1. tls[t] \in 1..Slots /\ cache[tls[t]] \in Entries
      BY <1>1, <1>6 DEF AcquireCached, MayAcquire, NoSlot
    <2>2. /\ Wrap(active[tls[t]] + 1) \in Count /\ Wrap(globalActive + 1) \in Count
          /\ Wrap(cacheSize[tls[t]] - 1) \in Count
      <3>1. active[tls[t]] \in Int /\ cacheSize[tls[t]] \in Int /\ globalActive \in Int
        BY <1>1, <2>1
      <3> QED
        BY <3>1, WrapType
    <2>3. active' \in [1..Slots -> Count] /\ globalActive' \in Count
          /\ cacheSize' \in [1..Slots -> Count]
      BY <1>1, <1>6, <2>1, <2>2 DEF AcquireCached, HandOut
    <2>4. held' \in [Threads -> [Entries -> Nat]]
      BY <1>1, <1>6, <2>1, SMTT(20) DEF AcquireCached, HandOut
    <2>5. cache' \in [1..Slots -> Entries \cup {NoEntry}]
      BY <1>1, <1>6, <2>1 DEF AcquireCached
    <2>6. UNCHANGED <<ready, chunkVars, entryVars, slotThread, tls, pc, local>>
      BY <1>6 DEF AcquireCached
    <2> QED
      BY <1>1, <2>3, <2>4, <2>5, <2>6
  <1>7. ASSUME NEW t \in Threads, AcquireSearch(t) PROVE TypeOK'
    BY <1>1, <1>7 DEF AcquireSearch
  <1>20. ASSUME NEW t \in Threads, CreateCheck(t) PROVE TypeOK'
    BY <1>1, <1>20 DEF CreateCheck
  <1>21. ASSUME NEW t \in Threads, LinkLoad(t) PROVE TypeOK'
    BY <1>1, <1>21 DEF LinkLoad
  <1>8. ASSUME NEW t \in Threads, AllocBegin(t) PROVE TypeOK'
    BY <1>1, <1>8, EntryFacts DEF AllocBegin
  <1>9. ASSUME NEW t \in Threads, AllocCAS(t) PROVE TypeOK'
    BY <1>1, <1>9, EntryFacts DEF AllocCAS, CallInv
  <1>10. ASSUME NEW t \in Threads, AllocSkip(t) PROVE TypeOK'
    BY <1>1, <1>10 DEF AllocSkip
  <1>22. ASSUME NEW t \in Threads, NextChunk(t) PROVE TypeOK'
    <2>1. at[t] \in Chunks
      BY <1>1, <1>22 DEF NextChunk, CallInv
    <2>2. at' \in [Threads -> Chunks \cup {NIL}] /\ pc' \in [Threads -> Places]
      BY <1>1, <1>22, <2>1 DEF NextChunk
    <2>3. UNCHANGED <<ready, chunkVars, entryVars, slotVars, left, ent, expected, held>>
      BY <1>22 DEF NextChunk
    <2> QED
      BY <1>1, <2>2, <2>3
  <1>11. ASSUME NEW t \in Threads, AllocCount(t) PROVE TypeOK'
    <2>1. tls[t] \in 1..Slots /\ at[t] \in Chunks /\ ent[t] \in Entries
      BY <1>1, <1>11 DEF AllocCount, CallInv, NoSlot
    <2>2. /\ Wrap(active[tls[t]] + 1) \in Count /\ Wrap(globalActive + 1) \in Count
          /\ Wrap(freeCount[at[t]] - 1) \in Count
      <3>1. active[tls[t]] \in Int /\ freeCount[at[t]] \in Int /\ globalActive \in Int
        BY <1>1, <2>1
      <3> QED
        BY <3>1, WrapType
    <2>3. active' \in [1..Slots -> Count] /\ globalActive' \in Count
          /\ freeCount' \in [Chunks -> Count]
      BY <1>1, <1>11, <2>1, <2>2 DEF AllocCount, HandOut
    <2>4. held' \in [Threads -> [Entries -> Nat]]
      <3>1. held' = [held EXCEPT ![t][ent[t]] = @ + 1]
        BY <1>11 DEF AllocCount, HandOut
      <3> QED
        BY <1>1, <2>1, <3>1
    <2>5. /\ ent' \in [Threads -> Entries \cup {NoEntry}]
          /\ at' \in [Threads -> Chunks \cup {NIL}] /\ pc' \in [Threads -> Places]
      BY <1>1, <1>11, <2>1 DEF AllocCount
    <2>6. UNCHANGED <<ready, chunkVars, state, nextEntry, slotThread, tls, cache, cacheSize,
                      left, expected>>
      BY <1>11 DEF AllocCount
    <2> QED
      BY <1>1, <2>3, <2>4, <2>5, <2>6
  <1>12. ASSUME NEW t \in Threads, CreateAdd(t) PROVE TypeOK'
    <2>1. made + 1 \in Chunks /\ made' \in 0..MaxChunks
      BY <1>1, <1>12 DEF CreateAdd, Chunks
    <2>2. ready = "yes" /\ capacity' \in Nat
      BY <1>1, <1>12 DEF CreateAdd, CallInv
    <2>3. ChunkSize \in Count
      BY <1>1, <1>12 DEF CreateAdd, CallInv
    <2>4. freeCount' \in [Chunks -> Count]
      BY <1>1, <1>12, <2>1, <2>3 DEF CreateAdd
    <2>5. at' \in [Threads -> Chunks \cup {NIL}] /\ pc' \in [Threads -> Places]
      BY <1>1, <1>12, <2>1 DEF CreateAdd
    <2>6. UNCHANGED <<ready, chunkHead, nextChunk, state, nextEntry, slotVars,
                      left, ent, expected, held>>
      BY <1>12 DEF CreateAdd
    <2> QED
      BY <1>1, <2>1, <2>2, <2>4, <2>5, <2>6
  <1>13. ASSUME NEW t \in Threads, LinkCAS(t) PROVE TypeOK'
    <2>1. at[t] \in Chunks
      BY <1>1, <1>13 DEF LinkCAS, CallInv
    <2>2. nextChunk' \in [Chunks -> Chunks \cup {NIL}] /\ chunkHead' \in Chunks \cup {NIL}
      BY <1>1, <1>13, <2>1 DEF LinkCAS
    <2>3. expected' \in [Threads -> Chunks \cup {NIL}]
      BY <1>1, <1>13, <2>1 DEF LinkCAS
    <2>5. pc' \in [Threads -> Places]
      BY <1>1, <1>13 DEF LinkCAS
    <2>4. UNCHANGED <<ready, made, capacity, entryVars, slotVars, at, left, ent, held>>
      BY <1>13 DEF LinkCAS
    <2> QED
      BY <1>1, <2>2, <2>3, <2>4, <2>5
  <1>14. ASSUME NEW t \in Threads, AcquireFail(t) PROVE TypeOK'
    BY <1>1, <1>14 DEF AcquireFail
  <1>15. ASSUME NEW t \in Threads, ReleaseCache(t) PROVE TypeOK'
    <2>1. tls[t] \in 1..Slots /\ ent[t] \in Entries /\ held[t][ent[t]] - 1 \in Nat
      BY <1>1, <1>15, SMTT(20) DEF ReleaseCache, CallInv, NoSlot
    <2>2. /\ Wrap(active[tls[t]] - 1) \in Count /\ Wrap(globalActive - 1) \in Count
          /\ Wrap(cacheSize[tls[t]] + 1) \in Count
      <3>1. active[tls[t]] \in Int /\ cacheSize[tls[t]] \in Int /\ globalActive \in Int
        BY <1>1, <2>1
      <3> QED
        BY <3>1, WrapType
    <2>3. active' \in [1..Slots -> Count] /\ globalActive' \in Count
          /\ cacheSize' \in [1..Slots -> Count]
      BY <1>1, <1>15, <2>1, <2>2 DEF ReleaseCache, Cleared
    <2>4. held' \in [Threads -> [Entries -> Nat]]
      BY <1>1, <1>15, <2>1 DEF ReleaseCache, Cleared
    <2>5. /\ cache' \in [1..Slots -> Entries \cup {NoEntry}]
          /\ nextEntry' \in [Entries -> Entries \cup {NoEntry}]
      BY <1>1, <1>15, <2>1 DEF ReleaseCache
    <2>6. ent' \in [Threads -> Entries \cup {NoEntry}] /\ pc' \in [Threads -> Places]
      BY <1>1, <1>15 DEF ReleaseCache
    <2>7. UNCHANGED <<ready, chunkVars, state, freeCount, slotThread, tls, at, left, expected>>
      BY <1>15 DEF ReleaseCache
    <2> QED
      BY <1>1, <2>3, <2>4, <2>5, <2>6, <2>7
  <1>16. ASSUME NEW t \in Threads, ReleaseStore(t) PROVE TypeOK'
    <2>1. tls[t] \in 1..Slots /\ ent[t] \in Entries /\ held[t][ent[t]] - 1 \in Nat
      BY <1>1, <1>16 DEF ReleaseStore, CallInv, NoSlot
    <2>2. Wrap(active[tls[t]] - 1) \in Count
      <3>1. active[tls[t]] \in Int /\ cacheSize[tls[t]] \in Int /\ globalActive \in Int
        BY <1>1, <2>1
      <3> QED
        BY <3>1, WrapType
    <2>3. active' \in [1..Slots -> Count]
      BY <1>1, <1>16, <2>1, <2>2 DEF ReleaseStore, Cleared
    <2>4. held' \in [Threads -> [Entries -> Nat]]
      BY <1>1, <1>16, <2>1 DEF ReleaseStore, Cleared
    <2>5. state' \in [Entries -> {"FREE", "ALLOCATED"}] /\ pc' \in [Threads -> Places]
      BY <1>1, <1>16, <2>1 DEF ReleaseStore
    <2>6. UNCHANGED <<ready, chunkVars, nextEntry, freeCount, slotThread, tls, cache, cacheSize,
                      globalActive, local>>
      BY <1>16 DEF ReleaseStore
    <2> QED
      BY <1>1, <2>3, <2>4, <2>5, <2>6
  <1>17. ASSUME NEW t \in Threads, ReleaseCount(t) PROVE TypeOK'
    <2>1. ent[t] \in Entries /\ ent[t][1] \in Chunks
      BY <1>1, <1>17, EntryFacts DEF ReleaseCount, CallInv
    <2>2. Wrap(freeCount[ent[t][1]] + 1) \in Count /\ Wrap(globalActive - 1) \in Count
      <3>1. freeCount[ent[t][1]] \in Int /\ globalActive \in Int
        BY <1>1, <2>1
      <3> QED
        BY <3>1, WrapType
    <2>3. freeCount' \in [Chunks -> Count] /\ globalActive' \in Count
      BY <1>1, <1>17, <2>1, <2>2 DEF ReleaseCount
    <2>4. ent' \in [Threads -> Entries \cup {NoEntry}] /\ pc' \in [Threads -> Places]
      BY <1>1, <1>17 DEF ReleaseCount
    <2>5. UNCHANGED <<ready, chunkVars, state, nextEntry, slotThread, tls, cache, cacheSize, active,
                      at, left, expected, held>>
      BY <1>17 DEF ReleaseCount
    <2> QED
      BY <1>1, <2>3, <2>4, <2>5
  <1>18. ASSUME NEW t \in Threads, NEW e \in Entries, ReleaseCAS(t, e) PROVE TypeOK'
    BY <1>1, <1>18 DEF ReleaseCAS
  <1>19. ASSUME NEW t \in Threads, NEW e \in Entries, ReleaseRefused(t, e) PROVE TypeOK'
    BY <1>1, <1>19, SMTT(20) DEF ReleaseRefused, Holds
  <1> QED
    BY <1>2, <1>3, <1>4, <1>5, <1>6, <1>7, <1>8, <1>9, <1>10, <1>11, <1>12, <1>13, <1>14,
       <1>15, <1>16, <1>17, <1>18, <1>19, <1>20, <1>21, <1>22 DEF Next, Proceed

\* A step of a thread, by the action it is.
ThreadStep(t) ==
    \/ ClaimSlot(t) \/ AcquireCached(t) \/ AcquireSearch(t) \/ Proceed(t)
    \/ \E e \in Entries : ReleaseCAS(t, e) \/ ReleaseRefused(t, e)

\* A thread only runs while the pool is up, and leaves it up.
LEMMA ThreadStepReady ==
    ASSUME IndInv, NEW t \in Threads, ThreadStep(t) PROVE ready = "yes" /\ ready' = "yes"
  <1> USE DEF IndInv, CallInv
  <1>1. CASE ClaimSlot(t) \/ AcquireCached(t) \/ AcquireSearch(t)
    BY <1>1 DEF ClaimSlot, AcquireCached, AcquireSearch, MayAcquire
  <1>2. CASE AllocBegin(t) \/ AllocCAS(t) \/ AllocSkip(t) \/ AllocCount(t) \/ NextChunk(t)
    BY <1>2 DEF AllocBegin, AllocCAS, AllocSkip, AllocCount, NextChunk
  <1>3. CASE CreateCheck(t) \/ CreateAdd(t) \/ LinkLoad(t) \/ LinkCAS(t) \/ AcquireFail(t)
    BY <1>3 DEF CreateCheck, CreateAdd, LinkLoad, LinkCAS, AcquireFail
  <1>4. CASE ReleaseCache(t) \/ ReleaseStore(t) \/ ReleaseCount(t)
    BY <1>4 DEF ReleaseCache, ReleaseStore, ReleaseCount
  <1>5. ASSUME NEW e \in Entries, ReleaseCAS(t, e) \/ ReleaseRefused(t, e)
        PROVE  ready = "yes" /\ ready' = "yes"
    BY <1>5 DEF ReleaseCAS, ReleaseRefused, Holds
  <1> QED
    BY <1>1, <1>2, <1>3, <1>4, <1>5 DEF ThreadStep, Proceed

\* Nothing but vm_pool_init_secure happens first.
LEMMA FreshStep == ASSUME IndInv, [Next]_vars PROVE FreshInv'
  <1>1. CASE UNCHANGED vars
    BY <1>1 DEF IndInv, FreshInv, Init, vars, chunkVars, entryVars, slotVars, local
  <1>2. CASE PoolInit \/ Cleanup
    BY <1>2 DEF FreshInv, PoolInit, Cleanup
  <1>3. ASSUME NEW t \in Threads, ThreadStep(t) PROVE FreshInv'
    BY <1>3, ThreadStepReady DEF FreshInv
  <1> QED
    BY <1>1, <1>2, <1>3 DEF Next, ThreadStep

\* Every step keeps what the calls under way know.
LEMMA CallStep == ASSUME IndInv, [Next]_vars PROVE CallInv'
  <1> USE DEF CallInv, chunkVars, entryVars, slotVars, local, Goto
  <1>1. TypeOK /\ FreshInv /\ CallInv
    BY DEF IndInv
  <1>2. CASE UNCHANGED vars
    BY <1>1, <1>2 DEF vars
  <1>3. CASE PoolInit
    BY <1>1, <1>3 DEF PoolInit
  <1>4. CASE Cleanup
    BY <1>1, <1>4 DEF Cleanup
  <1>5. ASSUME NEW t \in Threads, ThreadStep(t) PROVE CallInv'
    <2>1. ready' = "yes"
      BY <1>5, ThreadStepReady
    <2> USE <1>1, <2>1 DEF TypeOK
    <2>2. CASE ClaimSlot(t)
      BY <2>2 DEF ClaimSlot, NoSlot
    <2>3. CASE AcquireCached(t)
      <3>1. cache[tls[t]] \in Entries /\ tls[t] # NoSlot
        BY <2>3 DEF AcquireCached, MayAcquire, NoSlot
      <3>2. /\ held' = [held EXCEPT ![t][cache[tls[t]]] = @ + 1]
            /\ pc[t] = "idle" /\ UNCHANGED <<pc, at, ent, tls>>
        BY <2>3 DEF AcquireCached, MayAcquire, HandOut
      <3> QED
        BY <3>1, <3>2, SMTT(20)
    <2>4. CASE AcquireSearch(t)
      BY <2>4 DEF AcquireSearch, MayAcquire
    <2>5. CASE AllocBegin(t)
      BY <2>5 DEF AllocBegin
    <2>6. CASE AllocCAS(t)
      BY <2>6, EntryFacts DEF AllocCAS
    <2>7. CASE AllocSkip(t) \/ NextChunk(t)
      BY <2>7 DEF AllocSkip, NextChunk
    <2>8. CASE AllocCount(t)
      <3>1. ent[t] \in Entries /\ tls[t] # NoSlot
        BY <2>8 DEF AllocCount
      <3>2. /\ held' = [held EXCEPT ![t][ent[t]] = @ + 1]
            /\ pc' = [pc EXCEPT ![t] = "idle"] /\ UNCHANGED tls
            /\ ent' = [ent EXCEPT ![t] = NoEntry] /\ at' = [at EXCEPT ![t] = NIL]
        BY <2>8 DEF AllocCount, HandOut
      <3> QED
        BY <3>1, <3>2
    <2>9. CASE CreateCheck(t)
      BY <2>9 DEF CreateCheck
    <2>10. CASE CreateAdd(t)
      BY <2>10 DEF CreateAdd, NIL
    <2>11. CASE LinkLoad(t)
      BY <2>11 DEF LinkLoad
    <2>12. CASE LinkCAS(t)
      BY <2>12 DEF LinkCAS
    <2>13. CASE AcquireFail(t)
      BY <2>13 DEF AcquireFail
    <2>14. CASE ReleaseCache(t) \/ ReleaseStore(t)
      <3>1. ent[t] \in Entries /\ tls[t] # NoSlot /\ held[t][ent[t]] > 0
        BY <2>14 DEF ReleaseCache, ReleaseStore
      <3>2. /\ held' = [held EXCEPT ![t][ent[t]] = @ - 1] /\ UNCHANGED <<at, tls>>
            /\ \/ pc' = [pc EXCEPT ![t] = "idle"] /\ ent' = [ent EXCEPT ![t] = NoEntry]
               \/ pc' = [pc EXCEPT ![t] = "free"] /\ UNCHANGED ent
        BY <2>14 DEF ReleaseCache, ReleaseStore, Cleared
      <3>3. CASE pc' = [pc EXCEPT ![t] = "idle"] /\ ent' = [ent EXCEPT ![t] = NoEntry]
        BY <3>1, <3>2, <3>3
      <3>4. CASE pc' = [pc EXCEPT ![t] = "free"] /\ UNCHANGED ent
        BY <3>1, <3>2, <3>4, EntryFacts
      <3> QED
        BY <3>2, <3>3, <3>4
    <2>15. CASE ReleaseCount(t)
      BY <2>15 DEF ReleaseCount
    <2>16. ASSUME NEW e \in Entries, ReleaseCAS(t, e) PROVE CallInv'
      BY <2>16, EntryFacts DEF ReleaseCAS, Holds
    <2>17. ASSUME NEW e \in Entries, ReleaseRefused(t, e) PROVE CallInv'
      BY <2>17 DEF ReleaseRefused, Holds
    <2> QED
      BY <1>5, <2>2, <2>3, <2>4, <2>5, <2>6, <2>7, <2>8, <2>9, <2>10, <2>11, <2>12, <2>13,
         <2>14, <2>15, <2>16, <2>17 DEF ThreadStep, Proceed
  <1> QED
    BY <1>2, <1>3, <1>4, <1>5 DEF Next, ThreadStep

\* Membership in the VMs a thread holds.
LEMMA HeldVmsDef ==
    ASSUME NEW t \in Threads, NEW p
    PROVE  p \in HeldVms(t) <=> \E e \in Entries : \E k \in 1..held[t][e] : p = <<e, k>>
  BY DEF HeldVms

\* One VM handed to t is one VM more for t and none for the others.
LEMMA HeldAdd ==
    ASSUME TypeOK, NEW t \in Threads, NEW e \in Entries,
           held' = [held EXCEPT ![t][e] = @ + 1]
    PROVE  /\ HeldVms(t)' = HeldVms(t) \cup {<<e, held[t][e] + 1>>}
           /\ \A u \in Threads : u # t => HeldVms(u)' = HeldVms(u)
  <1> USE DEF TypeOK
  <1>1. held[t][e] \in Nat /\ held'[t][e] = held[t][e] + 1
    OBVIOUS
  <1>2. \A d \in Entries : d # e => held'[t][d] = held[t][d]
    OBVIOUS
  <1>3. ASSUME NEW u \in Threads, u # t PROVE HeldVms(u)' = HeldVms(u)
    BY <1>3 DEF HeldVms
  <1>4. ASSUME NEW p PROVE p \in HeldVms(t)' <=> p \in HeldVms(t) \cup {<<e, held[t][e] + 1>>}
    <2>1. p \in HeldVms(t)' <=> \E d \in Entries : \E k \in 1..held'[t][d] : p = <<d, k>>
      BY DEF HeldVms
    <2>2. \A d \in Entries : held[t][d] \in Nat
      OBVIOUS
    <2> QED
      BY <1>1, <1>2, <2>1, <2>2, HeldVmsDef
  <1> QED
    BY <1>3, <1>4

\* One VM taken from t is one VM less for t and none for the others.
LEMMA HeldRemove ==
    ASSUME TypeOK, NEW t \in Threads, NEW e \in Entries, held[t][e] > 0,
           held' = [held EXCEPT ![t][e] = @ - 1]
    PROVE  /\ HeldVms(t)' = HeldVms(t) \ {<<e, held[t][e]>>}
           /\ <<e, held[t][e]>> \in HeldVms(t)
           /\ \A u \in Threads : u # t => HeldVms(u)' = HeldVms(u)
  <1> USE DEF TypeOK
  <1>1. held[t][e] \in Nat \ {0} /\ held'[t][e] = held[t][e] - 1
    OBVIOUS
  <1>2. \A d \in Entries : d # e => held'[t][d] = held[t][d]
    OBVIOUS
  <1>3. ASSUME NEW u \in Threads, u # t PROVE HeldVms(u)' = HeldVms(u)
    BY <1>3 DEF HeldVms
  <1>4. ASSUME NEW p PROVE p \in HeldVms(t)' <=> p \in HeldVms(t) \ {<<e, held[t][e]>>}
    <2>1. p \in HeldVms(t)' <=> \E d \in Entries : \E k \in 1..held'[t][d] : p = <<d, k>>
      BY DEF HeldVms
    <2>2. \A d \in Entries : held[t][d] \in Nat
      OBVIOUS
    <2> QED
      BY <1>1, <1>2, <2>1, <2>2, HeldVmsDef
  <1>5. <<e, held[t][e]>> \in HeldVms(t)
    BY <1>1, HeldVmsDef
  <1> QED
    BY <1>3, <1>4, <1>5

\* A thread without a slot holds nothing.
LEMMA HeldNothing ==
    ASSUME TypeOK, CallInv, NEW t \in Threads, tls[t] = NoSlot
    PROVE  IsFiniteSet(HeldVms(t)) /\ Cardinality(HeldVms(t)) = 0
  <1>1. \A e \in Entries : held[t][e] = 0
    BY DEF TypeOK, CallInv
  <1>2. HeldVms(t) = {}
    BY <1>1 DEF HeldVms
  <1> QED
    BY <1>2, FS_EmptySet

\* The counter of a slot after its thread was handed a VM.
LEMMA SlotHandOut ==
    ASSUME IndInv, NEW t \in Threads, NEW e \in Entries, ready = "yes", tls[t] # NoSlot,
           active[tls[t]] < MaxActive, HandOut(t, e), UNCHANGED <<tls, slotThread>>,
           pc'[t] = "idle", \A u \in Threads : u # t => pc'[u] = pc[u]
    PROVE  SlotInv'
  <1>1. TypeOK /\ SlotInv
    BY DEF IndInv
  <1>2. tls[t] \in 1..Slots /\ active[tls[t]] \in Nat
    BY <1>1 DEF TypeOK, NoSlot
  <1>3. Wrap(active[tls[t]] + 1) = active[tls[t]] + 1
    BY <1>1, <1>2, WrapSmall DEF TypeOK
  <1>4. active' = [active EXCEPT ![tls[t]] = active[tls[t]] + 1]
    BY <1>3 DEF HandOut
  <1>5. /\ HeldVms(t)' = HeldVms(t) \cup {<<e, held[t][e] + 1>>}
        /\ \A u \in Threads : u # t => HeldVms(u)' = HeldVms(u)
    BY <1>1, HeldAdd DEF HandOut
  <1>6. IsFiniteSet(HeldVms(t)) /\ Cardinality(HeldVms(t)) <= active[tls[t]]
    BY <1>1 DEF SlotInv
  <1>7. /\ IsFiniteSet(HeldVms(t)') /\ Cardinality(HeldVms(t)) \in Nat
        /\ Cardinality(HeldVms(t)') <= Cardinality(HeldVms(t)) + 1
    <2>1. Cardinality(HeldVms(t)) \in Nat
      BY <1>6, FS_CardinalityType
    <2>2. /\ IsFiniteSet(HeldVms(t) \cup {<<e, held[t][e] + 1>>})
          /\ Cardinality(HeldVms(t) \cup {<<e, held[t][e] + 1>>}) =
               IF <<e, held[t][e] + 1>> \in HeldVms(t)
               THEN Cardinality(HeldVms(t)) ELSE Cardinality(HeldVms(t)) + 1
      BY <1>6, FS_AddElement
    <2> QED
      BY <1>5, <2>1, <2>2
  <1>8. active'[tls[t]] = active[tls[t]] + 1
    BY <1>1, <1>2, <1>4 DEF TypeOK
  <1>9. ASSUME NEW u \in Threads, u # t, tls[u] # NoSlot
        PROVE  tls[u] # tls[t] /\ active'[tls[u]] = active[tls[u]]
    <2>1. slotThread[tls[t]] = {t} /\ slotThread[tls[u]] = {u}
      BY <1>1, <1>2, <1>9 DEF SlotInv
    <2>2. tls[u] # tls[t]
      BY <1>9, <2>1
    <2>3. tls[u] \in 1..Slots
      BY <1>1, <1>9 DEF TypeOK, NoSlot
    <2> QED
      BY <1>1, <1>4, <2>2, <2>3 DEF TypeOK
  <1>10. ASSUME NEW u \in Threads, tls'[u] # NoSlot
         PROVE  /\ slotThread'[tls'[u]] = {u}
                /\ IsFiniteSet(HeldVms(u)')
                /\ Cardinality(HeldVms(u)') <= active'[tls'[u]] /\ active'[tls'[u]] <= MaxActive
                /\ pc'[u] \in Acquiring => active'[tls'[u]] < MaxActive
    <2>1. CASE u = t
      <3>1. pc'[t] \notin Acquiring
        BY DEF Acquiring
      <3>2. slotThread[tls[t]] = {t}
        BY <1>1 DEF SlotInv
      <3>3. Cardinality(HeldVms(t)') <= active'[tls[t]]
        <4>1. Cardinality(HeldVms(t)') \in Nat
          BY <1>7, FS_CardinalityType
        <4> QED
          BY <1>2, <1>6, <1>7, <1>8, <4>1
      <3> QED
        BY <1>1, <1>2, <1>7, <1>8, <2>1, <3>1, <3>2, <3>3
    <2>2. CASE u # t
      BY <1>1, <1>5, <1>9, <1>10, <2>2 DEF SlotInv
    <2> QED
      BY <2>1, <2>2
  <1> QED
    BY <1>10 DEF SlotInv

\* The counter of a slot after a VM of its thread was cleared.
LEMMA SlotCleared ==
    ASSUME IndInv, NEW t \in Threads, pc[t] = "clear", Cleared(t), UNCHANGED <<tls, slotThread>>,
           pc'[t] \in {"idle", "free"}, \A u \in Threads : u # t => pc'[u] = pc[u]
    PROVE  SlotInv'
  <1>1. TypeOK /\ SlotInv /\ CallInv
    BY DEF IndInv
  <1>2. /\ ready = "yes" /\ tls[t] # NoSlot /\ tls[t] \in 1..Slots /\ active[tls[t]] \in Nat
        /\ ent[t] \in Entries /\ held[t][ent[t]] > 0
    BY <1>1 DEF TypeOK, CallInv, NoSlot
  <1>3. /\ HeldVms(t)' = HeldVms(t) \ {<<ent[t], held[t][ent[t]]>>}
        /\ <<ent[t], held[t][ent[t]]>> \in HeldVms(t)
        /\ \A u \in Threads : u # t => HeldVms(u)' = HeldVms(u)
    BY <1>1, <1>2, HeldRemove DEF Cleared
  <1>4. IsFiniteSet(HeldVms(t)) /\ Cardinality(HeldVms(t)) <= active[tls[t]]
    BY <1>1, <1>2 DEF SlotInv
  <1>5. /\ IsFiniteSet(HeldVms(t)') /\ Cardinality(HeldVms(t)) \in Nat
        /\ Cardinality(HeldVms(t)') \in Nat
        /\ Cardinality(HeldVms(t)') = Cardinality(HeldVms(t)) - 1
    BY <1>3, <1>4, FS_RemoveElement, FS_CardinalityType
  <1>6. Wrap(active[tls[t]] - 1) = active[tls[t]] - 1
    BY <1>1, <1>2, <1>4, <1>5, WrapSmall DEF TypeOK
  <1>7. active' = [active EXCEPT ![tls[t]] = active[tls[t]] - 1]
    BY <1>6 DEF Cleared
  <1>8. active'[tls[t]] = active[tls[t]] - 1
    BY <1>1, <1>2, <1>7 DEF TypeOK
  <1>9. ASSUME NEW u \in Threads, u # t, tls[u] # NoSlot
        PROVE  tls[u] # tls[t] /\ active'[tls[u]] = active[tls[u]]
    <2>1. slotThread[tls[t]] = {t} /\ slotThread[tls[u]] = {u}
      BY <1>1, <1>2, <1>9 DEF SlotInv
    <2>2. tls[u] # tls[t]
      BY <1>9, <2>1
    <2>3. tls[u] \in 1..Slots
      BY <1>1, <1>9 DEF TypeOK, NoSlot
    <2> QED
      BY <1>1, <1>7, <2>2, <2>3 DEF TypeOK
  <1>10. ASSUME NEW u \in Threads, tls'[u] # NoSlot, ready' = "yes"
         PROVE  /\ slotThread'[tls'[u]] = {u}
                /\ IsFiniteSet(HeldVms(u)')
                /\ Cardinality(HeldVms(u)') <= active'[tls'[u]] /\ active'[tls'[u]] <= MaxActive
                /\ pc'[u] \in Acquiring => active'[tls'[u]] < MaxActive
    <2>1. CASE u = t
      <3>1. pc'[t] \notin Acquiring
        BY DEF Acquiring
      <3>2. slotThread[tls[t]] = {t} /\ active[tls[t]] <= MaxActive
        BY <1>1, <1>2 DEF SlotInv
      <3> QED
        BY <1>2, <1>4, <1>5, <1>8, <2>1, <3>1, <3>2
    <2>2. CASE u # t
      BY <1>1, <1>2, <1>3, <1>9, <1>10, <2>2 DEF SlotInv
    <2> QED
      BY <2>1, <2>2
  <1> QED
    BY <1>10 DEF SlotInv

\* A step that leaves the slots and the held VMs alone, and starts an acquire only
\* below the limit.
LEMMA SlotSame ==
    ASSUME IndInv, UNCHANGED <<tls, slotThread, active, held>>, ready = "yes",
           \A u \in Threads : pc'[u] \in Acquiring =>
               pc[u] \in Acquiring \/ active[tls[u]] < MaxActive
    PROVE  SlotInv'
  <1>1. \A u \in Threads : HeldVms(u)' = HeldVms(u)
    BY DEF HeldVms
  <1> QED
    BY <1>1 DEF IndInv, SlotInv

\* Every step keeps the counters of the slots right.
LEMMA SlotStep == ASSUME IndInv, [Next]_vars PROVE SlotInv'
  <1> USE DEF chunkVars, entryVars, slotVars, local, Goto
  <1>1. TypeOK /\ FreshInv /\ CallInv /\ SlotInv
    BY DEF IndInv
  <1>2. CASE UNCHANGED vars
    BY <1>1, <1>2, SlotSame DEF vars, SlotInv
  <1>3. CASE PoolInit
    BY <1>1, <1>3 DEF PoolInit, FreshInv, Init, SlotInv
  <1>4. CASE Cleanup
    BY <1>4 DEF Cleanup, SlotInv
  <1>5. ASSUME NEW t \in Threads, ThreadStep(t) PROVE SlotInv'
    <2>1. ready = "yes" /\ ready' = "yes"
      BY <1>5, ThreadStepReady
    <2>2. CASE ClaimSlot(t)
      <3>1. PICK i \in 1..Slots :
                /\ slotThread[i] = {}
                /\ slotThread' = [slotThread EXCEPT ![i] = {t}]
                /\ tls' = [tls EXCEPT ![t] = i]
                /\ active' = [active EXCEPT ![i] = 0]
        BY <2>2 DEF ClaimSlot
      <3>2. UNCHANGED <<held, pc>> /\ pc[t] = "idle" /\ tls[t] = NoSlot
        BY <2>2 DEF ClaimSlot
      <3>3. \A u \in Threads : HeldVms(u)' = HeldVms(u)
        BY <3>2 DEF HeldVms
      <3>4. IsFiniteSet(HeldVms(t)) /\ Cardinality(HeldVms(t)) = 0
        BY <1>1, <3>2, HeldNothing
      <3>5. ASSUME NEW u \in Threads, tls'[u] # NoSlot
            PROVE  /\ slotThread'[tls'[u]] = {u}
                   /\ IsFiniteSet(HeldVms(u)')
                   /\ Cardinality(HeldVms(u)') <= active'[tls'[u]] /\ active'[tls'[u]] <= MaxActive
                   /\ pc'[u] \in Acquiring => active'[tls'[u]] < MaxActive
        <4>1. CASE u = t
          BY <1>1, <3>1, <3>2, <3>3, <3>4, <4>1 DEF TypeOK, Acquiring
        <4>2. CASE u # t
          <5>1. tls'[u] = tls[u] /\ tls[u] \in 1..Slots /\ slotThread[tls[u]] = {u}
            BY <1>1, <2>1, <3>1, <3>5, <4>2 DEF TypeOK, SlotInv, NoSlot
          <5>2. tls[u] # i
            BY <3>1, <5>1
          <5>3. active'[tls[u]] = active[tls[u]] /\ slotThread'[tls[u]] = {u}
            BY <1>1, <3>1, <5>1, <5>2 DEF TypeOK
          <5> QED
            BY <1>1, <2>1, <3>2, <3>3, <3>5, <5>1, <5>3 DEF SlotInv
        <4> QED
          BY <4>1, <4>2
      <3> QED
        BY <3>5 DEF SlotInv
    <2>3. CASE AcquireCached(t)
      <3>1. /\ tls[t] # NoSlot /\ active[tls[t]] < MaxActive /\ cache[tls[t]] \in Entries
            /\ HandOut(t, cache[tls[t]]) /\ UNCHANGED <<tls, slotThread, pc>> /\ pc[t] = "idle"
        BY <1>1, <2>3 DEF AcquireCached, MayAcquire, TypeOK, NoSlot
      <3> QED
        BY <2>1, <3>1, SlotHandOut
    <2>4. CASE AllocCount(t)
      <3>1. /\ tls[t] # NoSlot /\ active[tls[t]] < MaxActive /\ ent[t] \in Entries
        BY <1>1, <2>1, <2>4 DEF AllocCount, TypeOK, CallInv, SlotInv, Acquiring
      <3>2. HandOut(t, ent[t]) /\ UNCHANGED <<tls, slotThread>> /\ pc' = [pc EXCEPT ![t] = "idle"]
        BY <2>4 DEF AllocCount
      <3>3. pc'[t] = "idle" /\ \A u \in Threads : u # t => pc'[u] = pc[u]
        BY <1>1, <3>2 DEF TypeOK
      <3> QED
        BY <2>1, <3>1, <3>2, <3>3, SlotHandOut
    <2>5. CASE ReleaseCache(t) \/ ReleaseStore(t)
      <3>1. /\ pc[t] = "clear" /\ Cleared(t) /\ UNCHANGED <<tls, slotThread>>
            /\ \E p \in {"idle", "free"} : pc' = [pc EXCEPT ![t] = p]
        BY <2>5 DEF ReleaseCache, ReleaseStore
      <3>2. pc'[t] \in {"idle", "free"} /\ \A u \in Threads : u # t => pc'[u] = pc[u]
        BY <1>1, <3>1 DEF TypeOK
      <3> QED
        BY <3>1, <3>2, SlotCleared
    <2>6. ASSUME NEW e \in Entries, ReleaseRefused(t, e) PROVE SlotInv'
      <3>1. /\ held[t][e] > 0 /\ held' = [held EXCEPT ![t][e] = @ - 1]
            /\ UNCHANGED <<tls, slotThread, active, pc>>
        BY <2>6 DEF ReleaseRefused, Holds
      <3>2. /\ HeldVms(t)' = HeldVms(t) \ {<<e, held[t][e]>>}
            /\ <<e, held[t][e]>> \in HeldVms(t)
            /\ \A u \in Threads : u # t => HeldVms(u)' = HeldVms(u)
        BY <1>1, <3>1, HeldRemove
      <3>3. ASSUME NEW u \in Threads, IsFiniteSet(HeldVms(u)), tls[u] # NoSlot
            PROVE  /\ IsFiniteSet(HeldVms(u)') /\ Cardinality(HeldVms(u)') \in Nat
                   /\ Cardinality(HeldVms(u)') <= active[tls[u]]
        <4>1. Cardinality(HeldVms(u)) \in Nat /\ Cardinality(HeldVms(u)) <= active[tls[u]]
          BY <1>1, <2>1, <3>3, FS_CardinalityType DEF SlotInv
        <4>2. active[tls[u]] \in Nat
          BY <1>1, <3>3 DEF TypeOK, NoSlot
        <4>3. CASE u = t
          <5>1. /\ IsFiniteSet(HeldVms(t) \ {<<e, held[t][e]>>})
                /\ Cardinality(HeldVms(t) \ {<<e, held[t][e]>>}) = Cardinality(HeldVms(t)) - 1
            <6>1. IsFiniteSet(HeldVms(t))
              BY <3>3, <4>3
            <6>2. /\ IsFiniteSet(HeldVms(t) \ {<<e, held[t][e]>>})
                  /\ Cardinality(HeldVms(t) \ {<<e, held[t][e]>>}) =
                       IF <<e, held[t][e]>> \in HeldVms(t)
                       THEN Cardinality(HeldVms(t)) - 1 ELSE Cardinality(HeldVms(t))
              BY <6>1, FS_RemoveElement
            <6> QED
              BY <3>2, <6>2
          <5>2. Cardinality(HeldVms(t) \ {<<e, held[t][e]>>}) \in Nat
            BY <5>1, FS_CardinalityType
          <5>3. /\ IsFiniteSet(HeldVms(t)') /\ Cardinality(HeldVms(t)') \in Nat
                /\ Cardinality(HeldVms(t)') = Cardinality(HeldVms(t)) - 1
            BY <3>2, <5>1, <5>2
          <5>4. Cardinality(HeldVms(t)') <= active[tls[t]]
            BY <4>1, <4>2, <4>3, <5>3
          <5> QED
            BY <4>3, <5>3, <5>4
        <4>4. CASE u # t
          BY <3>2, <3>3, <4>1, <4>4
        <4> QED
          BY <4>3, <4>4
      <3> QED
        BY <1>1, <2>1, <3>1, <3>3 DEF SlotInv
    <2>7. CASE AcquireSearch(t)
      BY <1>1, <2>1, <2>7, SlotSame DEF AcquireSearch, MayAcquire, TypeOK
    <2>8. CASE AllocBegin(t)
      BY <1>1, <2>1, <2>8, SlotSame DEF AllocBegin, TypeOK, Acquiring
    <2>9. CASE AllocCAS(t) \/ AllocSkip(t) \/ NextChunk(t)
      BY <1>1, <2>1, <2>9, SlotSame DEF AllocCAS, AllocSkip, NextChunk, TypeOK, Acquiring
    <2>10. CASE CreateCheck(t) \/ CreateAdd(t) \/ LinkLoad(t) \/ LinkCAS(t)
      BY <1>1, <2>1, <2>10, SlotSame DEF CreateCheck, CreateAdd, LinkLoad, LinkCAS, TypeOK, Acquiring
    <2>11. CASE AcquireFail(t) \/ ReleaseCount(t)
      BY <1>1, <2>1, <2>11, SlotSame DEF AcquireFail, ReleaseCount, TypeOK, Acquiring
    <2>12. ASSUME NEW e \in Entries, ReleaseCAS(t, e) PROVE SlotInv'
      BY <1>1, <2>1, <2>12, SlotSame DEF ReleaseCAS, TypeOK, Acquiring
    <2> QED
      BY <1>5, <2>2, <2>3, <2>4, <2>5, <2>6, <2>7, <2>8, <2>9, <2>10, <2>11, <2>12
         DEF ThreadStep, Proceed
  <1> QED
    BY <1>2, <1>3, <1>4, <1>5 DEF Next, ThreadStep

\* Every step keeps total_capacity right.
LEMMA CapacityStep == ASSUME IndInv, [Next]_vars PROVE CapacityInv'
  <1> USE DEF chunkVars, entryVars, slotVars, local, Goto
  <1>1. TypeOK /\ FreshInv /\ CallInv /\ CapacityInv
    BY DEF IndInv
  <1>2. /\ IsFiniteSet(Creators) /\ Cardinality(Creators) \in Nat
        /\ Cardinality(Threads) \in Nat /\ Cardinality(Threads) >= 1
    <2>1. Creators \in SUBSET Threads
      BY DEF Creators
    <2>2. IsFiniteSet(Creators)
      BY <2>1, FS_Subset
    <2>3. Cardinality(Threads) # 0
      BY FS_EmptySet
    <2> QED
      BY <2>2, <2>3, FS_CardinalityType
  <1>3. CASE UNCHANGED vars
    BY <1>1, <1>3 DEF vars, CapacityInv, Creators
  <1>4. CASE PoolInit
    <2>1. Creators' = {} /\ made' = 1 /\ capacity' = InitialSize
      BY <1>1, <1>4 DEF PoolInit, FreshInv, Init, Creators
    <2>2. Cardinality(Creators') = 0
      BY <2>1, FS_EmptySet
    <2>3. 0 <= ChunkSize * (Cardinality(Threads) - 1)
      BY <1>2
    <2> QED
      BY <1>2, <2>1, <2>2, <2>3 DEF CapacityInv
  <1>5. CASE Cleanup
    BY <1>5 DEF Cleanup, CapacityInv
  <1>6. ASSUME NEW t \in Threads, ThreadStep(t) PROVE CapacityInv'
    <2>1. /\ ready = "yes" /\ ready' = "yes"
          /\ made \in Nat /\ capacity \in Nat /\ made >= 1
          /\ capacity = InitialSize + ChunkSize * (made - 1)
          /\ capacity + ChunkSize * Cardinality(Creators)
               <= MaxTotal + ChunkSize * (Cardinality(Threads) - 1)
      BY <1>1, <1>6, ThreadStepReady DEF TypeOK, CapacityInv
    <2>2. CASE CreateCheck(t)
      <3>1. /\ capacity + ChunkSize <= MaxTotal /\ UNCHANGED <<made, capacity>>
            /\ Creators' = Creators \cup {t} /\ t \notin Creators
        BY <1>1, <2>2 DEF CreateCheck, Creators, TypeOK
      <3>2. Cardinality(Creators') = Cardinality(Creators) + 1
        BY <1>2, <3>1, FS_AddElement
      <3>3. Cardinality(Creators') <= Cardinality(Threads)
        <4>1. Creators' \in SUBSET Threads
          BY DEF Creators
        <4> QED
          BY <4>1, FS_Subset
      <3>4. ChunkSize * Cardinality(Creators) <= ChunkSize * (Cardinality(Threads) - 1)
        BY <1>2, <3>2, <3>3
      <3>5. ChunkSize * Cardinality(Creators') = ChunkSize * Cardinality(Creators) + ChunkSize
        BY <1>2, <3>2
      <3>6. ChunkSize * Cardinality(Creators) \in Int /\ ChunkSize * (Cardinality(Threads) - 1) \in Int
        BY <1>2
      <3>7. capacity' + ChunkSize * Cardinality(Creators')
              <= MaxTotal + ChunkSize * (Cardinality(Threads) - 1)
        BY <2>1, <3>1, <3>4, <3>5, <3>6
      <3> QED
        BY <2>1, <3>1, <3>7 DEF CapacityInv
    <2>3. CASE CreateAdd(t)
      <3>1. /\ made' = made + 1 /\ capacity' = capacity + ChunkSize
            /\ Creators' = Creators \ {t} /\ t \in Creators
        BY <1>1, <2>3 DEF CreateAdd, Creators, TypeOK
      <3>2. Cardinality(Creators') = Cardinality(Creators) - 1
        BY <1>2, <3>1, FS_RemoveElement
      <3>3. /\ ChunkSize * (made' - 1) = ChunkSize * (made - 1) + ChunkSize
            /\ ChunkSize * Cardinality(Creators') = ChunkSize * Cardinality(Creators) - ChunkSize
        BY <1>2, <2>1, <3>1, <3>2
      <3>4. /\ ChunkSize * Cardinality(Creators) \in Int /\ ChunkSize * (Cardinality(Threads) - 1) \in Int
            /\ ChunkSize * (made - 1) \in Int
        BY <1>2, <2>1
      <3> QED
        BY <2>1, <3>1, <3>3, <3>4 DEF CapacityInv
    <2>4. CASE pc[t] # "create" /\ UNCHANGED <<made, capacity>> /\ Creators' = Creators
      BY <2>1, <2>4 DEF CapacityInv
    <2>5. CASE pc[t] = "create" /\ AcquireFail(t)
      <3>1. UNCHANGED <<made, capacity>> /\ Creators' = Creators \ {t} /\ t \in Creators
        BY <1>1, <2>5 DEF AcquireFail, Creators, TypeOK
      <3>2. Cardinality(Creators') = Cardinality(Creators) - 1
        BY <1>2, <3>1, FS_RemoveElement
      <3>3. ChunkSize * Cardinality(Creators') = ChunkSize * Cardinality(Creators) - ChunkSize
        BY <1>2, <3>2
      <3>4. ChunkSize * Cardinality(Creators) \in Int /\ ChunkSize * (Cardinality(Threads) - 1) \in Int
        BY <1>2
      <3> QED
        BY <2>1, <3>1, <3>3, <3>4 DEF CapacityInv
    <2>6. ASSUME pc[t] # "create", pc'[t] # "create", \A u \in Threads : u # t => pc'[u] = pc[u]
          PROVE  Creators' = Creators
      BY <2>6 DEF Creators
    <2>7. CASE ClaimSlot(t) \/ AcquireCached(t) \/ AcquireSearch(t)
      <3>1. /\ pc[t] = "idle" /\ UNCHANGED <<made, capacity>>
            /\ \E p \in {"idle", "chunk"} : pc' = [pc EXCEPT ![t] = p]
        BY <1>1, <2>7 DEF ClaimSlot, AcquireCached, AcquireSearch, MayAcquire, TypeOK
      <3> QED
        BY <1>1, <2>4, <2>6, <3>1 DEF TypeOK
    <2>8. CASE \/ AllocBegin(t) \/ AllocCAS(t) \/ AllocSkip(t) \/ NextChunk(t) \/ AllocCount(t)
      <3>1. /\ pc[t] # "create" /\ UNCHANGED <<made, capacity>>
            /\ pc' = pc \/ \E p \in {"entries", "freshEntries", "count", "chunk", "idle"} :
                               pc' = [pc EXCEPT ![t] = p]
        BY <2>8 DEF AllocBegin, AllocCAS, AllocSkip, NextChunk, AllocCount
      <3> QED
        BY <1>1, <2>4, <2>6, <3>1 DEF TypeOK
    <2>9. CASE LinkLoad(t) \/ LinkCAS(t) \/ (pc[t] # "create" /\ AcquireFail(t))
      <3>1. /\ pc[t] # "create" /\ UNCHANGED <<made, capacity>>
            /\ pc' = pc \/ \E p \in {"link", "fresh", "idle"} : pc' = [pc EXCEPT ![t] = p]
        BY <2>9 DEF LinkLoad, LinkCAS, AcquireFail
      <3> QED
        BY <1>1, <2>4, <2>6, <3>1 DEF TypeOK
    <2>10. CASE ReleaseCache(t) \/ ReleaseStore(t) \/ ReleaseCount(t)
      <3>1. /\ pc[t] # "create" /\ UNCHANGED <<made, capacity>>
            /\ \E p \in {"idle", "free"} : pc' = [pc EXCEPT ![t] = p]
        BY <2>10 DEF ReleaseCache, ReleaseStore, ReleaseCount
      <3> QED
        BY <1>1, <2>4, <2>6, <3>1 DEF TypeOK
    <2>11. ASSUME NEW e \in Entries, ReleaseCAS(t, e) \/ ReleaseRefused(t, e) PROVE CapacityInv'
      <3>1. /\ pc[t] # "create" /\ UNCHANGED <<made, capacity>>
            /\ pc' = pc \/ pc' = [pc EXCEPT ![t] = "clear"]
        BY <2>11 DEF ReleaseCAS, ReleaseRefused, Holds
      <3> QED
        BY <1>1, <2>4, <2>6, <3>1 DEF TypeOK
    <2> QED
      BY <1>6, <2>2, <2>3, <2>5, <2>7, <2>8, <2>9, <2>10, <2>11 DEF ThreadStep, Proceed
  <1> QED
    BY <1>3, <1>4, <1>5, <1>6 DEF Next, ThreadStep

\* A walk only depends on the head and the links.
LEMMA ReachableSame == ASSUME UNCHANGED <<chunkHead, nextChunk>> PROVE Reachable' = Reachable
  BY DEF Reachable

\* A step that pushes nothing and changes no link keeps the chain.
LEMMA ChainSame ==
    ASSUME IndInv, ready' = "yes" => ready = "yes", UNCHANGED <<chunkHead, nextChunk>>,
           Linked' = Linked, made' >= made, made' \in Nat,
           \A u \in Threads :
               /\ pc'[u] = "link" => expected'[u] \in Linked \cup {NIL}
               /\ IF Linking(u)' THEN at'[u] \in 1..made' ELSE at'[u] \in Linked \cup {NIL},
           \A u, v \in Threads : u # v /\ Linking(u)' /\ Linking(v)' => at'[u] # at'[v]
    PROVE  ChainInv'
  BY ReachableSame DEF IndInv, ChainInv

\* What the thread's own pc and chunk do not decide of Linked is unchanged.
LEMMA LinkedSame ==
    ASSUME IndInv, NEW t \in Threads, UNCHANGED made,
           \A u \in Threads : u # t => pc'[u] = pc[u] /\ at'[u] = at[u],
           (~Linking(t) /\ ~Linking(t)') \/ (Linking(t) /\ Linking(t)' /\ at'[t] = at[t])
    PROVE  /\ Linked' = Linked
           /\ \A u, v \in Threads : u # v /\ Linking(u)' /\ Linking(v)' => at'[u] # at'[v]
           /\ \A u \in Threads : u # t =>
                 IF Linking(u)' THEN at'[u] \in 1..made' ELSE at'[u] \in Linked \cup {NIL}
  BY DEF Linked, Linking, IndInv, ChainInv

\* Every step but the push of a chunk keeps the chain.
LEMMA ChainStepOther ==
    ASSUME IndInv, NEW t \in Threads, ThreadStep(t), ~LinkCAS(t), ~CreateAdd(t)
    PROVE  ChainInv' /\ Linked' = Linked
  <1> USE DEF chunkVars, entryVars, slotVars, local, Goto
  <1>1. TypeOK /\ CallInv /\ ChainInv
    BY DEF IndInv
  <1>2. ready = "yes" /\ ready' = "yes" /\ chunkHead \in Linked /\ made \in Nat
    BY <1>1, ThreadStepReady DEF ChainInv, TypeOK
  <1>3. UNCHANGED <<chunkHead, nextChunk, made>>
    <2>1. CASE ClaimSlot(t) \/ AcquireCached(t) \/ AcquireSearch(t)
      BY <2>1 DEF ClaimSlot, AcquireCached, AcquireSearch
    <2>2. CASE AllocBegin(t) \/ AllocCAS(t) \/ AllocSkip(t) \/ AllocCount(t) \/ NextChunk(t)
      BY <2>2 DEF AllocBegin, AllocCAS, AllocSkip, AllocCount, NextChunk
    <2>3. CASE CreateCheck(t) \/ LinkLoad(t) \/ AcquireFail(t)
      BY <2>3 DEF CreateCheck, LinkLoad, AcquireFail
    <2>4. CASE ReleaseCache(t) \/ ReleaseStore(t) \/ ReleaseCount(t)
      BY <2>4 DEF ReleaseCache, ReleaseStore, ReleaseCount
    <2>5. ASSUME NEW e \in Entries, ReleaseCAS(t, e) \/ ReleaseRefused(t, e)
          PROVE  UNCHANGED <<chunkHead, nextChunk, made>>
      BY <2>5 DEF ReleaseCAS, ReleaseRefused
    <2> QED
      BY <2>1, <2>2, <2>3, <2>4, <2>5 DEF ThreadStep, Proceed
  <1>4. /\ \A u \in Threads : u # t => pc'[u] = pc[u] /\ at'[u] = at[u] /\ expected'[u] = expected[u]
        /\ \/ /\ ~Linking(t) /\ ~Linking(t)'
              /\ (at'[t] \in {at[t], NIL, chunkHead}) \/ (at[t] # NIL /\ at'[t] = nextChunk[at[t]])
           \/ /\ Linking(t) /\ Linking(t)' /\ at'[t] = at[t]
              /\ expected'[t] = chunkHead
    <2> USE <1>1 DEF Linking, TypeOK
    <2>1. CASE ClaimSlot(t) \/ AcquireCached(t) \/ AcquireSearch(t)
      BY <2>1 DEF ClaimSlot, AcquireCached, AcquireSearch, MayAcquire
    <2>2. CASE AllocBegin(t) \/ AllocCAS(t) \/ AllocSkip(t) \/ AllocCount(t) \/ NextChunk(t)
      BY <2>2 DEF AllocBegin, AllocCAS, AllocSkip, AllocCount, NextChunk, CallInv
    <2>3. CASE CreateCheck(t) \/ LinkLoad(t) \/ AcquireFail(t)
      BY <2>3 DEF CreateCheck, LinkLoad, AcquireFail
    <2>4. CASE ReleaseCache(t) \/ ReleaseStore(t) \/ ReleaseCount(t)
      BY <2>4 DEF ReleaseCache, ReleaseStore, ReleaseCount
    <2>5. ASSUME NEW e \in Entries, ReleaseCAS(t, e) \/ ReleaseRefused(t, e)
          PROVE  /\ \A u \in Threads : u # t => /\ pc'[u] = pc[u] /\ at'[u] = at[u]
                                                /\ expected'[u] = expected[u]
                 /\ ~Linking(t) /\ ~Linking(t)' /\ at'[t] = at[t]
      BY <2>5 DEF ReleaseCAS, ReleaseRefused, Holds
    <2> QED
      BY <2>1, <2>2, <2>3, <2>4, <2>5 DEF ThreadStep, Proceed
  <1>5. /\ Linked' = Linked
        /\ \A u, v \in Threads : u # v /\ Linking(u)' /\ Linking(v)' => at'[u] # at'[v]
        /\ \A u \in Threads : u # t =>
              IF Linking(u)' THEN at'[u] \in 1..made' ELSE at'[u] \in Linked \cup {NIL}
    <2>1. (~Linking(t) /\ ~Linking(t)') \/ (Linking(t) /\ Linking(t)' /\ at'[t] = at[t])
      BY <1>4
    <2>2. UNCHANGED made /\ \A u \in Threads : u # t => pc'[u] = pc[u] /\ at'[u] = at[u]
      BY <1>3, <1>4
    <2> QED
      BY <2>1, <2>2, LinkedSame
  <1>6. IF Linking(t)' THEN at'[t] \in 1..made' ELSE at'[t] \in Linked \cup {NIL}
    BY <1>1, <1>2, <1>3, <1>4 DEF ChainInv, TypeOK
  <1>7. \A u \in Threads : pc'[u] = "link" => expected'[u] \in Linked \cup {NIL}
    BY <1>1, <1>2, <1>4 DEF ChainInv, Linking
  <1> QED
    BY <1>2, <1>3, <1>5, <1>6, <1>7, ChainSame

\* A chunk that was made is not yet part of the chain.
LEMMA ChainStepCreate ==
    ASSUME IndInv, NEW t \in Threads, CreateAdd(t)
    PROVE  ChainInv' /\ Linked' = Linked
  <1> USE DEF chunkVars, entryVars, slotVars, local, Goto
  <1>1. TypeOK /\ CallInv /\ ChainInv
    BY DEF IndInv
  <1>2. /\ pc[t] = "create" /\ made' = made + 1 /\ made \in Nat
        /\ at' = [at EXCEPT ![t] = made + 1] /\ pc' = [pc EXCEPT ![t] = "load"]
        /\ UNCHANGED <<ready, chunkHead, nextChunk, expected>>
    BY <1>1 DEF CreateAdd, TypeOK
  <1>3. /\ at'[t] = made + 1 /\ Linking(t)' /\ pc'[t] # "link"
        /\ \A u \in Threads : u # t => pc'[u] = pc[u] /\ at'[u] = at[u]
    BY <1>1, <1>2 DEF TypeOK, Linking
  <1>4. \A u \in Threads : Linking(u) => at[u] \in 1..made
    BY <1>1 DEF ChainInv
  <1>5. Linked' = Linked
    <2>1. ~Linking(t)
      BY <1>2 DEF Linking
    <2>2. ASSUME NEW c PROVE c \in Linked' <=> c \in Linked
      BY <1>2, <1>3, <2>1 DEF Linked, Linking
    <2> QED
      BY <2>2
  <1>6. \A u, v \in Threads : u # v /\ Linking(u)' /\ Linking(v)' => at'[u] # at'[v]
    BY <1>1, <1>2, <1>3, <1>4 DEF ChainInv, Linking
  <1>7. \A u \in Threads : IF Linking(u)' THEN at'[u] \in 1..made' ELSE at'[u] \in Linked \cup {NIL}
    BY <1>1, <1>2, <1>3 DEF ChainInv, Linking
  <1>8. \A u \in Threads : pc'[u] = "link" => expected'[u] \in Linked \cup {NIL}
    BY <1>1, <1>2, <1>3 DEF ChainInv
  <1> QED
    BY <1>2, <1>5, <1>6, <1>7, <1>8, ChainSame

\* The push of a chunk, or the failed attempt, loses no chunk of the chain.
LEMMA ChainStepLink ==
    ASSUME IndInv, NEW t \in Threads, LinkCAS(t)
    PROVE  ChainInv' /\ Linked \subseteq Linked'
  <1> USE DEF chunkVars, entryVars, slotVars, local, Goto
  <1> DEFINE c == at[t]
  <1>1. TypeOK /\ CallInv /\ ChainInv
    BY DEF IndInv
  <1>2. /\ ready = "yes" /\ ready' = "yes" /\ made' = made /\ made \in Nat
        /\ pc[t] = "link" /\ Linking(t)
        /\ at' = at /\ nextChunk' = [nextChunk EXCEPT ![c] = expected[t]]
    BY <1>1 DEF LinkCAS, CallInv, TypeOK, Linking
  <1>3. /\ c \in Chunks /\ c \in 1..made /\ c \notin Linked /\ c # NIL
        /\ expected[t] \in Linked \cup {NIL} /\ chunkHead \in Linked
    BY <1>1, <1>2 DEF TypeOK, CallInv, ChainInv, Linked
  <1>4. Linked \subseteq Chunks /\ NIL \notin Linked
    BY <1>1 DEF Linked, TypeOK, Chunks, NIL
  <1>5. ASSUME NEW S \in SUBSET Chunks, chunkHead \in S,
               \A d \in S : nextChunk'[d] \in S \cup {NIL}
        PROVE  Linked \subseteq S
    <2>1. S \ {c} \in SUBSET Chunks /\ chunkHead \in S \ {c}
      BY <1>3, <1>5
    <2>2. ASSUME NEW d \in S \ {c} PROVE nextChunk[d] \in (S \ {c}) \cup {NIL}
      BY <1>1, <1>2, <1>3, <1>5 DEF ChainInv, TypeOK
    <2>3. Reachable \subseteq S \ {c}
      BY <2>1, <2>2 DEF Reachable
    <2> QED
      BY <1>1, <1>2, <2>3 DEF ChainInv
  <1>6. CASE chunkHead = expected[t]
    <2>1. chunkHead' = c /\ pc' = [pc EXCEPT ![t] = "fresh"] /\ expected' = [expected EXCEPT ![t] = NIL]
      BY <1>6 DEF LinkCAS
    <2>2. ~Linking(t)' /\ \A u \in Threads : u # t => pc'[u] = pc[u] /\ expected'[u] = expected[u]
      BY <1>1, <2>1 DEF TypeOK, Linking
    <2>3. Linked' = Linked \cup {c}
      <3>1. \A u \in Threads : u # t /\ Linking(u) => at[u] # c
        BY <1>1, <1>2 DEF ChainInv
      <3>2. ASSUME NEW d PROVE d \in Linked' <=> d \in Linked \cup {c}
        BY <1>2, <1>3, <2>2, <3>1 DEF Linked, Linking
      <3> QED
        BY <3>2
    <2>4. Linked' \subseteq Reachable'
      <3>1. SUFFICES ASSUME NEW S \in SUBSET Chunks, chunkHead' \in S \cup {NIL},
                            \A d \in S : nextChunk'[d] \in S \cup {NIL}
                     PROVE  Linked \subseteq S /\ c \in S
        BY <1>3, <1>4, <2>3 DEF Reachable
      <3>2. c \in S
        BY <1>3, <2>1, <3>1
      <3>3. nextChunk'[c] = chunkHead
        BY <1>1, <1>2, <1>3, <1>6 DEF TypeOK
      <3>4. chunkHead \in S
        BY <1>3, <1>4, <3>1, <3>2, <3>3
      <3> QED
        BY <1>5, <3>1, <3>2, <3>4
    <2>5. \A d \in Chunks : nextChunk'[d] \in Linked' \cup {NIL}
      BY <1>1, <1>2, <1>3, <2>3 DEF ChainInv, TypeOK
    <2>6. \A u \in Threads : pc'[u] = "link" => expected'[u] \in Linked' \cup {NIL}
      BY <1>1, <2>2, <2>3 DEF ChainInv, Linking
    <2>7. \A u \in Threads : IF Linking(u)' THEN at'[u] \in 1..made' ELSE at'[u] \in Linked' \cup {NIL}
      BY <1>1, <1>2, <2>2, <2>3 DEF ChainInv, Linking
    <2>8. \A u, v \in Threads : u # v /\ Linking(u)' /\ Linking(v)' => at'[u] # at'[v]
      BY <1>1, <1>2, <2>2 DEF ChainInv, Linking
    <2> QED
      BY <2>1, <2>3, <2>4, <2>5, <2>6, <2>7, <2>8 DEF ChainInv
  <1>7. CASE chunkHead # expected[t]
    <2>1. UNCHANGED <<chunkHead, pc>> /\ expected' = [expected EXCEPT ![t] = chunkHead]
      BY <1>7 DEF LinkCAS
    <2>2. Linked' = Linked
      BY <1>2, <2>1 DEF Linked, Linking
    <2>3. Linked' \subseteq Reachable'
      <3>1. SUFFICES ASSUME NEW S \in SUBSET Chunks, chunkHead' \in S \cup {NIL},
                            \A d \in S : nextChunk'[d] \in S \cup {NIL}
                     PROVE  Linked \subseteq S
        BY <1>4, <2>2 DEF Reachable
      <3>2. chunkHead \in S
        BY <1>3, <1>4, <2>1, <3>1
      <3> QED
        BY <1>5, <3>1, <3>2
    <2>4. \A d \in Chunks : nextChunk'[d] \in Linked' \cup {NIL}
      BY <1>1, <1>2, <1>3, <2>2 DEF ChainInv, TypeOK
    <2>5. \A u \in Threads : pc'[u] = "link" => expected'[u] \in Linked' \cup {NIL}
      BY <1>1, <1>3, <2>1, <2>2 DEF ChainInv, TypeOK
    <2> QED
      BY <1>1, <1>2, <1>3, <2>1, <2>2, <2>3, <2>4, <2>5 DEF ChainInv, Linking
  <1> QED
    BY <1>6, <1>7

\* Every step keeps the chain, and no chunk leaves it while the pool is up.
LEMMA ChainStep == ASSUME IndInv, [Next]_vars PROVE ChainInv' /\ Linked \subseteq Linked'
  <1>1. CASE UNCHANGED vars
    <2>1. UNCHANGED <<ready, chunkHead, nextChunk, made, pc, at, expected>>
      BY <1>1 DEF vars, chunkVars, local
    <2>2. Linked' = Linked /\ Reachable' = Reachable
      BY <2>1, ReachableSame DEF Linked, Linking
    <2> QED
      BY <2>1, <2>2 DEF IndInv, ChainInv, Linking
  <1>2. CASE PoolInit
    <2>1. Init
      BY <1>2 DEF PoolInit, IndInv, FreshInv
    <2>2. /\ ready' = "yes" /\ made' = 1 /\ chunkHead' = 1
          /\ UNCHANGED <<nextChunk, pc, at, expected>>
      BY <1>2 DEF PoolInit, local
    <2>3. Linked' = {1} /\ Linked = {}
      BY <2>1, <2>2 DEF Linked, Linking, Init
    <2>4. 1 \in Reachable'
      BY <2>2 DEF Reachable, Chunks, NIL
    <2> QED
      BY <2>1, <2>2, <2>3, <2>4 DEF ChainInv, Init, Linking, NIL
  <1>3. CASE Cleanup
    <2>1. UNCHANGED <<nextChunk, made, pc, at, expected>> /\ ready' = "gone"
      BY <1>3 DEF Cleanup, local
    <2>2. Linked' = Linked
      BY <2>1 DEF Linked, Linking
    <2> QED
      BY <2>1, <2>2 DEF IndInv, ChainInv, Linking
  <1>4. ASSUME NEW t \in Threads, ThreadStep(t) PROVE ChainInv' /\ Linked \subseteq Linked'
    BY <1>4, ChainStepOther, ChainStepCreate, ChainStepLink
  <1> QED
    BY <1>1, <1>2, <1>3, <1>4 DEF Next, ThreadStep

\* Every step keeps the entries that are referred to inside pushed chunks.
LEMMA StoredStep == ASSUME IndInv, [Next]_vars PROVE StoredInv'
  <1> USE DEF chunkVars, entryVars, slotVars, local, Goto
  <1>1. TypeOK /\ CallInv /\ ChainInv /\ StoredInv
    BY DEF IndInv
  <1>2. Linked \subseteq Linked'
    BY ChainStep
  <1>3. ASSUME UNCHANGED <<nextEntry, held, ent>>,
               cache' = cache \/ \A i \in 1..Slots : cache'[i] = NoEntry
        PROVE  StoredInv'
    BY <1>1, <1>2, <1>3 DEF StoredInv
  <1>4. CASE UNCHANGED vars
    BY <1>3, <1>4 DEF vars
  <1>5. CASE PoolInit \/ Cleanup
    BY <1>3, <1>5 DEF PoolInit, Cleanup
  <1>6. ASSUME NEW t \in Threads, ThreadStep(t) PROVE StoredInv'
    <2> USE <1>1, <1>2 DEF TypeOK, StoredInv
    <2>1. CASE ClaimSlot(t)
      BY <2>1 DEF ClaimSlot
    <2>2. CASE AcquireCached(t)
      <3>1. /\ tls[t] \in 1..Slots /\ cache[tls[t]] \in Entries
            /\ held' = [held EXCEPT ![t][cache[tls[t]]] = @ + 1]
            /\ cache' = [cache EXCEPT ![tls[t]] = nextEntry[cache[tls[t]]]]
            /\ UNCHANGED <<nextEntry, ent>>
        BY <2>2 DEF AcquireCached, MayAcquire, HandOut, NoSlot
      <3>2. cache[tls[t]][1] \in Linked
        BY <3>1, EntryFacts
      <3> QED
        BY <3>1, <3>2
    <2>3. CASE AllocCAS(t)
      <3>1. at[t] \in Linked /\ at[t] \in Chunks
        BY <2>3 DEF AllocCAS, CallInv, ChainInv, Linking
      <3>2. PICK e \in EntriesOf(at[t]) : ent' = [ent EXCEPT ![t] = e]
        BY <2>3 DEF AllocCAS
      <3>3. e[1] \in Linked
        BY <3>1, <3>2, EntryFacts
      <3>4. UNCHANGED <<nextEntry, held, cache>>
        BY <2>3 DEF AllocCAS
      <3> QED
        BY <3>2, <3>3, <3>4
    <2>4. CASE AllocCount(t)
      <3>1. /\ ent[t] \in Entries /\ ent[t][1] \in Linked
            /\ held' = [held EXCEPT ![t][ent[t]] = @ + 1]
            /\ ent' = [ent EXCEPT ![t] = NoEntry]
            /\ UNCHANGED <<nextEntry, cache>>
        BY <2>4 DEF AllocCount, HandOut, CallInv
      <3> QED
        BY <3>1
    <2>5. CASE ReleaseCache(t)
      <3>1. /\ tls[t] \in 1..Slots /\ ent[t] \in Entries /\ ent[t][1] \in Linked
            /\ held' = [held EXCEPT ![t][ent[t]] = @ - 1]
            /\ ent' = [ent EXCEPT ![t] = NoEntry]
            /\ cache' = [cache EXCEPT ![tls[t]] = ent[t]]
            /\ nextEntry' = [nextEntry EXCEPT ![ent[t]] = cache[tls[t]]]
        BY <2>5 DEF ReleaseCache, Cleared, CallInv, NoSlot
      <3>2. \A u \in Threads : \A e \in Entries : held'[u][e] > 0 => held[u][e] > 0
        BY <3>1
      <3>3. \A u \in Threads : \A e \in Entries : held'[u][e] > 0 => e[1] \in Linked'
        BY <3>2
      <3>4. \A u \in Threads : ent'[u] # NoEntry => ent'[u][1] \in Linked'
        BY <3>1
      <3>5. \A i \in 1..Slots : cache'[i] # NoEntry => cache'[i][1] \in Linked'
        BY <3>1
      <3>6. \A e \in Entries : nextEntry'[e] # NoEntry => nextEntry'[e][1] \in Linked'
        BY <3>1
      <3> QED
        BY <3>3, <3>4, <3>5, <3>6
    <2>6. CASE ReleaseStore(t)
      <3>1. /\ ent[t] \in Entries /\ held' = [held EXCEPT ![t][ent[t]] = @ - 1]
            /\ UNCHANGED <<nextEntry, cache, ent>>
        BY <2>6 DEF ReleaseStore, Cleared, CallInv
      <3>2. \A u \in Threads : \A e \in Entries : held'[u][e] > 0 => held[u][e] > 0
        BY <3>1
      <3> QED
        BY <3>1, <3>2
    <2>7. CASE ReleaseCount(t)
      BY <2>7 DEF ReleaseCount
    <2>8. ASSUME NEW e \in Entries, ReleaseCAS(t, e) PROVE StoredInv'
      BY <2>8 DEF ReleaseCAS, Holds
    <2>9. ASSUME NEW e \in Entries, ReleaseRefused(t, e) PROVE StoredInv'
      <3>1. held' = [held EXCEPT ![t][e] = @ - 1] /\ UNCHANGED <<nextEntry, cache, ent>>
        BY <2>9 DEF ReleaseRefused
      <3>2. \A u \in Threads : \A d \in Entries : held'[u][d] > 0 => held[u][d] > 0
        BY <3>1
      <3> QED
        BY <3>1, <3>2
    <2>10. CASE AcquireSearch(t) \/ AllocBegin(t) \/ AllocSkip(t) \/ NextChunk(t)
      BY <1>3, <2>10 DEF AcquireSearch, AllocBegin, AllocSkip, NextChunk
    <2>11. CASE CreateCheck(t) \/ CreateAdd(t) \/ LinkLoad(t) \/ LinkCAS(t) \/ AcquireFail(t)
      BY <1>3, <2>11 DEF CreateCheck, CreateAdd, LinkLoad, LinkCAS, AcquireFail
    <2> QED
      BY <1>6, <2>1, <2>2, <2>3, <2>4, <2>5, <2>6, <2>7, <2>8, <2>9, <2>10, <2>11
         DEF ThreadStep, Proceed
  <1> QED
    BY <1>4, <1>5, <1>6 DEF Next, ThreadStep

\* The invariant is inductive.
THEOREM Invariance == Spec => []IndInv
  <1>1. IndInv /\ [Next]_vars => IndInv'
    BY TypeStep, FreshStep, CallStep, SlotStep, CapacityStep, ChainStep, StoredStep DEF IndInv
  <1> QED
    BY <1>1, InitInv, PTL DEF Spec

\* vm_pool_acquire_secure keeps the per-thread limit for any number of threads, slots
\* and chunks: what a thread holds is covered by active_vms of a slot that is its own,
\* whatever releases are refused, and active_vms never passes the limit nor wraps.
THEOREM PerThreadLimitHolds == Spec => []PerThreadLimit
  <1>1. IndInv => PerThreadLimit
    BY DEF IndInv, SlotInv, PerThreadLimit, HeldBy
  <1> QED
    BY <1>1, Invariance, PTL

\* Expansion is sound for any number of threads: total_capacity counts the entries of
\* the chunks, overshoots by at most a chunk for each thread but one, and concurrent
\* pushes on chunk_head lose no chunk, so that release finds the entry of every VM.
THEOREM CapacityBoundHolds == Spec => []CapacityBound
  <1>1. ASSUME IndInv, ready = "yes" PROVE CapacityBound
    <2>1. TypeOK /\ CapacityInv /\ ChainInv /\ StoredInv
      BY <1>1 DEF IndInv
    <2>2. Cardinality(Creators) \in Nat /\ Cardinality(Threads) \in Nat
      <3>1. Creators \in SUBSET Threads
        BY DEF Creators
      <3>2. IsFiniteSet(Creators)
        BY <3>1, FS_Subset
      <3> QED
        BY <3>2, FS_CardinalityType
    <2>3. /\ 0 <= ChunkSize * Cardinality(Creators) /\ ChunkSize * Cardinality(Creators) \in Int
          /\ ChunkSize * (Cardinality(Threads) - 1) \in Int
      BY <2>2
    <2>4. capacity <= MaxTotal + ChunkSize * (Cardinality(Threads) - 1)
      BY <1>1, <2>1, <2>3 DEF CapacityInv, TypeOK
    <2>5. \A c \in 1..made : \/ c \in Reachable
                             \/ \E t \in Threads : pc[t] \in {"load", "link"} /\ at[t] = c
      BY <1>1, <2>1 DEF ChainInv, Linked, Linking
    <2>6. \A t \in Threads : \A e \in Entries : held[t][e] > 0 => e[1] \in Reachable
      BY <1>1, <2>1 DEF ChainInv, StoredInv
    <2> QED
      BY <1>1, <2>1, <2>4, <2>5, <2>6 DEF CapacityBound, CapacityInv
  <1>2. IndInv => CapacityBound
    BY <1>1 DEF CapacityBound
  <1> QED
    BY <1>2, Invariance, PTL
=============================================================================
