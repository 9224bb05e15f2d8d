---------------------------- MODULE MemoryProofs ----------------------------
(***************************************************************************)
(* Proofs about the free lists of SlabAllocator and the memory context of  *)
(* VmMemory, for every set of threads, objects and sizes.                  *)
(***************************************************************************)
EXTENDS SlabAllocator, VmMemory, FiniteSetTheorems, TLAPS

\* No object was freed twice.
FirstLife == \A o \in Objects : frees[o] <= 1

SlabTypes ==
    /\ interleaving \in {"yes", "no"}
    /\ free \in [Nodes \cup {0} -> Objects \cup {NULL}]
    /\ next \in [Objects -> Objects \cup {NULL, Junk}]
    /\ fresh \subseteq Objects
    /\ pc \in [Threads -> {"idle", "load", "read", "swap", "map", "link", "push"}]
    /\ list \in [Threads -> Nodes \cup {0}]
    /\ head \in [Threads -> Objects \cup {NULL}]
    /\ link \in [Threads -> Objects \cup {NULL, Junk}]
    /\ arg \in [Threads -> Objects \cup {NULL}]
    /\ held \in [Threads -> SUBSET (Objects \cup {Failed})]

\* Who has an object: it is held by one thread at most, the argument of one free
\* at most, and untouched while it is fresh.
OwnerInv ==
    /\ \A t, u \in Threads : t # u => held[t] \cap held[u] \cap Objects = {}
    /\ \A t \in Threads :
          IF pc[t] \in {"link", "push"}
          THEN /\ arg[t] \in Objects /\ frees[arg[t]] = 1
               /\ \A u \in Threads : arg[t] \notin held[u] /\ (u # t => arg[u] # arg[t])
          ELSE arg[t] = NULL
    /\ \A o \in fresh : frees[o] = 0 /\ \A t \in Threads : o \notin held[t]

\* The objects that were freed and not taken again.
Freed(o) == o \in Objects /\ frees[o] = 1 /\ \A t \in Threads : o \notin held[t] /\ o # arg[t]

\* The lists hold freed objects only, and no two links lead to the same one.
ListInv ==
    /\ \A l \in Nodes \cup {0} : free[l] # NULL => Freed(free[l])
    /\ \A o \in Objects : Freed(o) /\ next[o] # NULL => Freed(next[o])
    /\ \A l, m \in Nodes \cup {0} : free[l] # NULL /\ free[l] = free[m] => l = m
    /\ \A o, p \in Objects : Freed(o) /\ Freed(p) /\ next[o] # NULL /\ next[o] = next[p] => o = p
    /\ \A l \in Nodes \cup {0}, o \in Objects : free[l] # NULL /\ Freed(o) => free[l] # next[o]

\* What a thread has read is still so, or the object it read from was taken.
LocalInv ==
    \A t \in Threads :
        /\ pc[t] \in {"read", "swap"} =>
              /\ head[t] \in Objects /\ frees[head[t]] = 1
              /\ \A u \in Threads : arg[u] # head[t]
        /\ pc[t] = "swap" /\ Freed(head[t]) => link[t] = next[head[t]]
        /\ pc[t] = "push" => next[arg[t]] = head[t]

SlabInv ==
    /\ frees \in [Objects -> Nat]
    /\ FirstLife => SlabTypes /\ OwnerInv /\ ListInv /\ LocalInv

\* What holds as long as no object was freed twice.
Shape == SlabTypes /\ OwnerInv /\ ListInv /\ LocalInv

USE SlabBounds DEF NULL, Junk, Failed

\* The invariant holds of an allocator whose lists are empty.
LEMMA SlabInitInv == SlabInit => SlabInv
  BY DEF SlabInit, SlabInv, SlabTypes, OwnerInv, ListInv, LocalInv, Freed

\* The steps that only read the lists and move on.
LEMMA QuietStep ==
    ASSUME Shape, NEW t \in Threads,
           AllocBegin(t) \/ AllocLoad(t) \/ AllocRead(t) \/ PopRetry(t) \/ PushRetry(t)
    PROVE  Shape'
  <1> USE DEF At, GoTo
  <1>1. SlabTypes /\ OwnerInv /\ ListInv /\ LocalInv
    BY DEF Shape
  <1>2. UNCHANGED <<interleaving, free, next, fresh, arg, held, frees>>
    BY DEF AllocBegin, AllocLoad, AllocRead, PopRetry, PushRetry
  <1>3. \A o : Freed(o)' <=> Freed(o)
    BY <1>2 DEF Freed
  <1>4. ListInv'
    BY <1>1, <1>2, <1>3 DEF ListInv
  <1>5. CASE AllocBegin(t)
    <2>1. SlabTypes'
      BY <1>1, <1>5 DEF AllocBegin, FirstLists, SlabTypes
    <2>2. OwnerInv'
      BY <1>1, <1>5 DEF AllocBegin, OwnerInv, SlabTypes
    <2>3. LocalInv'
      BY <1>1, <1>3, <1>5 DEF AllocBegin, LocalInv, SlabTypes
    <2> QED
      BY <1>4, <2>1, <2>2, <2>3 DEF Shape
  <1>6. CASE AllocLoad(t)
    <2>1. SlabTypes'
      BY <1>1, <1>6 DEF AllocLoad, SlabTypes
    <2>2. OwnerInv'
      BY <1>1, <1>6 DEF AllocLoad, OwnerInv, SlabTypes
    <2>3. LocalInv'
      <3>1. free[list[t]] # NULL => Freed(free[list[t]])
        BY <1>1 DEF ListInv, SlabTypes
      <3> QED
        BY <1>1, <1>3, <1>6, <3>1 DEF AllocLoad, LocalInv, SlabTypes, Freed
    <2> QED
      BY <1>4, <2>1, <2>2, <2>3 DEF Shape
  <1>7. CASE AllocRead(t)
    <2>1. SlabTypes'
      BY <1>1, <1>7 DEF AllocRead, SlabTypes
    <2>2. OwnerInv'
      BY <1>1, <1>7 DEF AllocRead, OwnerInv, SlabTypes
    <2>3. LocalInv'
      BY <1>1, <1>3, <1>7 DEF AllocRead, LocalInv, SlabTypes
    <2> QED
      BY <1>4, <2>1, <2>2, <2>3 DEF Shape
  <1>8. CASE PopRetry(t)
    <2>1. SlabTypes'
      BY <1>1, <1>8 DEF PopRetry, SlabTypes
    <2>2. OwnerInv'
      BY <1>1, <1>8 DEF PopRetry, OwnerInv, SlabTypes
    <2>3. LocalInv'
      BY <1>1, <1>3, <1>8 DEF PopRetry, LocalInv, SlabTypes
    <2> QED
      BY <1>4, <2>1, <2>2, <2>3 DEF Shape
  <1>9. CASE PushRetry(t)
    <2>1. SlabTypes'
      BY <1>1, <1>9 DEF PushRetry, SlabTypes
    <2>2. OwnerInv'
      BY <1>1, <1>9 DEF PushRetry, OwnerInv, SlabTypes
    <2>3. LocalInv'
      BY <1>1, <1>3, <1>9 DEF PushRetry, LocalInv, SlabTypes
    <2> QED
      BY <1>4, <2>1, <2>2, <2>3 DEF Shape
  <1> QED
    BY <1>5, <1>6, <1>7, <1>8, <1>9

\* A compare-and-swap that takes the head of a list: the head is freed, so the link
\* that was read is still its own.
LEMMA PopStep == ASSUME Shape, NEW t \in Threads, PopCAS(t) PROVE Shape'
  <1> USE DEF At, GoTo, Returns
  <1> DEFINE o == head[t]
             l == list[t]
  <1>1. SlabTypes /\ OwnerInv /\ ListInv /\ LocalInv
    BY DEF Shape
  <1>2. /\ pc[t] = "swap" /\ free[l] = o /\ o \in Objects /\ l \in Nodes \cup {0}
        /\ Freed(o) /\ link[t] = next[o] /\ o # NULL
    BY <1>1 DEF PopCAS, SlabTypes, ListInv, LocalInv
  <1>3. /\ free' = [free EXCEPT ![l] = next[o]]
        /\ held' = [held EXCEPT ![t] = @ \cup {o}]
        /\ next' = [next EXCEPT ![o] = Junk]
        /\ pc' = [pc EXCEPT ![t] = "idle"] /\ list' = [list EXCEPT ![t] = 0]
        /\ head' = [head EXCEPT ![t] = NULL] /\ link' = [link EXCEPT ![t] = NULL]
        /\ arg' = [arg EXCEPT ![t] = NULL] /\ UNCHANGED <<interleaving, fresh, frees>>
    BY <1>2 DEF PopCAS, Give
  <1>4. next[o] \in Objects \cup {NULL}
    BY <1>1, <1>2 DEF ListInv, Freed
  <1>5. SlabTypes'
    BY <1>1, <1>2, <1>3, <1>4 DEF SlabTypes
  <1>6. arg' = arg
    BY <1>1, <1>2, <1>3 DEF OwnerInv, SlabTypes
  <1>7. \A p : Freed(p)' <=> Freed(p) /\ p # o
    BY <1>1, <1>2, <1>3, <1>6 DEF Freed, SlabTypes
  <1>8. OwnerInv'
    <2>1. \A u, v \in Threads : u # v => held'[u] \cap held'[v] \cap Objects = {}
      BY <1>1, <1>2, <1>3 DEF OwnerInv, SlabTypes, Freed
    <2>2. \A u \in Threads : pc[u] \in {"link", "push"} => arg[u] # o
      BY <1>2 DEF Freed
    <2>3. ASSUME NEW u \in Threads
          PROVE  IF pc'[u] \in {"link", "push"}
                 THEN /\ arg'[u] \in Objects /\ frees'[arg'[u]] = 1
                      /\ \A v \in Threads : arg'[u] \notin held'[v] /\ (v # u => arg'[v] # arg'[u])
                 ELSE arg'[u] = NULL
      BY <1>1, <1>2, <1>3, <1>6, <2>2 DEF OwnerInv, SlabTypes
    <2>4. \A p \in fresh' : frees'[p] = 0 /\ \A u \in Threads : p \notin held'[u]
      BY <1>1, <1>2, <1>3 DEF OwnerInv, SlabTypes, Freed
    <2> QED
      BY <2>1, <2>3, <2>4 DEF OwnerInv
  <1>9. ListInv'
    <2>1. \A m \in Nodes \cup {0} : free'[m] = IF m = l THEN next[o] ELSE free[m]
      BY <1>1, <1>3 DEF SlabTypes
    <2>2. \A p \in Objects : p # o => next'[p] = next[p]
      BY <1>1, <1>3 DEF SlabTypes
    <2>3. \A m \in Nodes \cup {0} : free'[m] # NULL => Freed(free'[m]) /\ free'[m] # o
      <3>1. next[o] # NULL => Freed(next[o]) /\ next[o] # o
        BY <1>1, <1>2 DEF ListInv
      <3>2. \A m \in Nodes \cup {0} : m # l /\ free[m] # NULL => Freed(free[m]) /\ free[m] # o
        BY <1>1, <1>2 DEF ListInv
      <3> QED
        BY <2>1, <3>1, <3>2
    <2>4. \A p \in Objects : Freed(p) /\ p # o /\ next[p] # NULL => Freed(next[p]) /\ next[p] # o
      BY <1>1, <1>2, ZenonT(40) DEF ListInv
    <2>5. \A m, n \in Nodes \cup {0} : free'[m] # NULL /\ free'[m] = free'[n] => m = n
      <3>1. \A m \in Nodes \cup {0} : free[m] # NULL => free[m] # next[o]
        BY <1>1, <1>2 DEF ListInv
      <3>2. \A m, n \in Nodes \cup {0} : free[m] # NULL /\ free[m] = free[n] => m = n
        BY <1>1 DEF ListInv
      <3> QED
        BY <2>1, <3>1, <3>2
    <2>6. \A m \in Nodes \cup {0}, p \in Objects :
              free'[m] # NULL /\ Freed(p) /\ p # o => free'[m] # next[p]
      <3>1. \A p \in Objects : Freed(p) /\ p # o /\ next[o] # NULL => next[o] # next[p]
        BY <1>1, <1>2 DEF ListInv
      <3>2. \A m \in Nodes \cup {0}, p \in Objects : free[m] # NULL /\ Freed(p) => free[m] # next[p]
        BY <1>1 DEF ListInv
      <3> QED
        BY <2>1, <3>1, <3>2
    <2>7. \A p, q \in Objects : Freed(p) /\ Freed(q) /\ next[p] # NULL /\ next[p] = next[q] => p = q
      BY <1>1 DEF ListInv
    <2> QED
      BY <1>7, <2>2, <2>3, <2>4, <2>5, <2>6, <2>7 DEF ListInv
  <1>10. LocalInv'
    <2>1. ASSUME NEW u \in Threads, pc'[u] \in {"read", "swap"}
          PROVE  /\ head'[u] \in Objects /\ frees'[head'[u]] = 1
                 /\ \A v \in Threads : arg'[v] # head'[u]
      BY <1>1, <1>3, <1>6, <2>1 DEF LocalInv, SlabTypes
    <2>2. ASSUME NEW u \in Threads, pc'[u] = "swap", Freed(head[u])'
          PROVE  link'[u] = next'[head'[u]]
      <3>1. u # t /\ pc[u] = "swap" /\ head'[u] = head[u] /\ link'[u] = link[u]
        BY <1>1, <1>3, <2>2 DEF SlabTypes
      <3>2. Freed(head[u]) /\ head[u] # o
        <4>1. Freed(head[u])' <=> (Freed(head[u]) /\ head[u] # o)
          BY <1>3, <1>6, <1>7, <3>1 DEF Freed
        <4> QED
          BY <2>2, <4>1
      <3>3. head[u] \in Objects /\ link[u] = next[head[u]]
        BY <1>1, <3>1, <3>2 DEF LocalInv
      <3> QED
        BY <1>1, <1>3, <3>1, <3>2, <3>3 DEF SlabTypes
    <2>3. ASSUME NEW u \in Threads, pc'[u] = "push" PROVE next'[arg'[u]] = head'[u]
      BY <1>1, <1>2, <1>3, <1>6, <2>3 DEF LocalInv, OwnerInv, SlabTypes, Freed
    <2> QED
      BY <2>1, <2>2, <2>3 DEF LocalInv
  <1> QED
    BY <1>5, <1>8, <1>9, <1>10 DEF Shape

\* mmap: an object nobody has seen, or a failure.
LEMMA MapStep == ASSUME Shape, NEW t \in Threads, AllocMap(t) PROVE Shape'
  <1> USE DEF At, GoTo, Returns
  <1>1. SlabTypes /\ OwnerInv /\ ListInv /\ LocalInv
    BY DEF Shape
  <1>2. /\ pc[t] = "map" /\ pc' = [pc EXCEPT ![t] = "idle"] /\ list' = [list EXCEPT ![t] = 0]
        /\ head' = [head EXCEPT ![t] = NULL] /\ link' = [link EXCEPT ![t] = NULL]
        /\ arg' = [arg EXCEPT ![t] = NULL] /\ UNCHANGED <<interleaving, free, frees>>
    BY DEF AllocMap, Give
  <1>3. arg' = arg
    BY <1>1, <1>2 DEF OwnerInv, SlabTypes
  <1>4. ASSUME NEW o \in fresh, held' = [held EXCEPT ![t] = @ \cup {o}],
               next' = [next EXCEPT ![o] = Junk], fresh' = fresh \ {o}
        PROVE  Shape'
    <2>1. o \in Objects /\ frees[o] = 0 /\ ~Freed(o) /\ \A u \in Threads : o \notin held[u]
      BY <1>1 DEF OwnerInv, SlabTypes, Freed
    <2>2. \A u \in Threads : arg[u] # o
      BY <1>1, <2>1 DEF OwnerInv, SlabTypes
    <2>3. \A p : Freed(p)' <=> Freed(p)
      BY <1>1, <1>2, <1>3, <1>4, <2>1 DEF Freed, SlabTypes
    <2>4. SlabTypes'
      BY <1>1, <1>2, <1>4, <2>1 DEF SlabTypes
    <2>5. OwnerInv'
      <3>1. \A u, v \in Threads : u # v => held'[u] \cap held'[v] \cap Objects = {}
        BY <1>1, <1>4, <2>1 DEF OwnerInv, SlabTypes
      <3>2. ASSUME NEW u \in Threads
            PROVE  IF pc'[u] \in {"link", "push"}
                   THEN /\ arg'[u] \in Objects /\ frees'[arg'[u]] = 1
                        /\ \A v \in Threads : arg'[u] \notin held'[v] /\ (v # u => arg'[v] # arg'[u])
                   ELSE arg'[u] = NULL
        BY <1>1, <1>2, <1>3, <1>4, <2>2 DEF OwnerInv, SlabTypes
      <3>3. \A p \in fresh' : frees'[p] = 0 /\ \A u \in Threads : p \notin held'[u]
        BY <1>1, <1>2, <1>4 DEF OwnerInv, SlabTypes
      <3> QED
        BY <3>1, <3>2, <3>3 DEF OwnerInv
    <2>6. ListInv'
      <3>1. \A p \in Objects : Freed(p) => next'[p] = next[p]
        BY <1>1, <1>4, <2>1 DEF SlabTypes
      <3> QED
        BY <1>1, <1>2, <2>3, <3>1 DEF ListInv
    <2>7. LocalInv'
      <3>1. \A p \in Objects : p # o => next'[p] = next[p]
        BY <1>1, <1>4 DEF SlabTypes
      <3>2. \A u \in Threads : u # t => /\ pc'[u] = pc[u] /\ head'[u] = head[u]
                                        /\ link'[u] = link[u]
        BY <1>1, <1>2 DEF SlabTypes
      <3>3. pc'[t] = "idle"
        BY <1>1, <1>2 DEF SlabTypes
      <3>4. \A u \in Threads : pc[u] = "push" => arg[u] \in Objects
        BY <1>1 DEF OwnerInv
      <3>5. ASSUME NEW u \in Threads, pc'[u] \in {"read", "swap"}
            PROVE  /\ head'[u] \in Objects /\ frees'[head'[u]] = 1
                   /\ \A v \in Threads : arg'[v] # head'[u]
        BY <1>1, <1>2, <1>3, <3>2, <3>3, <3>5 DEF LocalInv
      <3>6. ASSUME NEW u \in Threads, pc'[u] = "swap", Freed(head[u])'
            PROVE  link'[u] = next'[head'[u]]
        <4>1. pc[u] = "swap" /\ head'[u] = head[u] /\ link'[u] = link[u]
          BY <3>2, <3>3, <3>6
        <4>2. Freed(head[u])
          BY <2>3, <3>6, <4>1
        <4>3. link[u] = next[head[u]] /\ head[u] \in Objects
          BY <1>1, <4>1, <4>2 DEF LocalInv
        <4>4. head[u] # o
          BY <2>1, <4>2
        <4> QED
          BY <3>1, <4>1, <4>3, <4>4
      <3>7. ASSUME NEW u \in Threads, pc'[u] = "push" PROVE next'[arg'[u]] = head'[u]
        <4>1. pc[u] = "push" /\ head'[u] = head[u] /\ arg'[u] = arg[u]
          BY <1>3, <3>2, <3>3, <3>7
        <4>2. next[arg[u]] = head[u] /\ arg[u] \in Objects /\ arg[u] # o
          BY <1>1, <2>2, <3>4, <4>1 DEF LocalInv
        <4> QED
          BY <3>1, <4>1, <4>2
      <3> QED
        BY <3>5, <3>6, <3>7 DEF LocalInv
    <2> QED
      BY <2>4, <2>5, <2>6, <2>7 DEF Shape
  <1>5. ASSUME \/ UNCHANGED <<next, fresh, held>>
               \/ held' = [held EXCEPT ![t] = @ \cup {Failed}] /\ UNCHANGED <<next, fresh>>
        PROVE  Shape'
    <2>1. UNCHANGED <<next, fresh>> /\ Failed \notin Objects
      BY <1>5
    <2>2. held' \in [Threads -> SUBSET (Objects \cup {Failed})]
      BY <1>1, <1>5 DEF SlabTypes
    <2>3. \A u \in Threads : \A p \in Objects : p \in held'[u] <=> p \in held[u]
      BY <1>1, <1>5, <2>1 DEF SlabTypes
    <2>4. SlabTypes'
      BY <1>1, <1>2, <2>1, <2>2 DEF SlabTypes
    <2>5. \A p : Freed(p)' <=> Freed(p)
      BY <1>2, <1>3, <2>3 DEF Freed
    <2>6. OwnerInv'
      <3>1. \A u, v \in Threads : u # v => held'[u] \cap held'[v] \cap Objects = {}
        BY <1>1, <2>3 DEF OwnerInv
      <3>2. ASSUME NEW u \in Threads
            PROVE  IF pc'[u] \in {"link", "push"}
                   THEN /\ arg'[u] \in Objects /\ frees'[arg'[u]] = 1
                        /\ \A v \in Threads : arg'[u] \notin held'[v] /\ (v # u => arg'[v] # arg'[u])
                   ELSE arg'[u] = NULL
        BY <1>1, <1>2, <1>3, <2>3, ZenonT(40) DEF OwnerInv, SlabTypes
      <3>3. \A p \in fresh' : frees'[p] = 0 /\ \A u \in Threads : p \notin held'[u]
        BY <1>1, <1>2, <2>1, <2>3 DEF OwnerInv, SlabTypes
      <3> QED
        BY <3>1, <3>2, <3>3 DEF OwnerInv
    <2>7. ListInv'
      BY <1>1, <1>2, <2>1, <2>5 DEF ListInv
    <2>8. LocalInv'
      BY <1>1, <1>2, <1>3, <2>1, <2>5 DEF LocalInv, SlabTypes
    <2> QED
      BY <2>4, <2>6, <2>7, <2>8 DEF Shape
  <1>6. ASSUME NEW o \in fresh, Give(t, o), fresh' = fresh \ {o} PROVE Shape'
    BY <1>1, <1>4, <1>6 DEF Give, SlabTypes
  <1>7. ASSUME Give(t, Failed), UNCHANGED fresh PROVE Shape'
    BY <1>5, <1>7 DEF Give
  <1> QED
    BY <1>5, <1>6, <1>7 DEF AllocMap

\* slab_free takes an object from its holder, for the first time.
LEMMA FreeBeginStep ==
    ASSUME Shape, frees \in [Objects -> Nat], FirstLife',
           NEW t \in Threads, NEW o \in Objects, FreeBegin(t, o)
    PROVE  Shape'
  <1> USE DEF At, GoTo
  <1>1. SlabTypes /\ OwnerInv /\ ListInv /\ LocalInv
    BY DEF Shape
  <1>2. PICK l \in Nodes \cup {0} : list' = [list EXCEPT ![t] = l] /\ head' = [head EXCEPT ![t] = free[l]]
    BY DEF FreeBegin, FirstLists
  <1>3. /\ pc[t] = "idle" /\ o \in held[t] /\ pc' = [pc EXCEPT ![t] = "link"]
        /\ arg' = [arg EXCEPT ![t] = o] /\ held' = [held EXCEPT ![t] = @ \ {o}]
        /\ frees' = [frees EXCEPT ![o] = @ + 1]
        /\ UNCHANGED <<interleaving, free, next, fresh, link>>
    BY DEF FreeBegin
  <1>4. /\ frees[o] = 0 /\ frees'[o] = 1 /\ \A p \in Objects : p # o => frees'[p] = frees[p]
    BY <1>3 DEF FirstLife
  <1>5. SlabTypes'
    BY <1>1, <1>2, <1>3 DEF SlabTypes
  <1>6. \A u \in Threads : arg[u] # o /\ (u # t => o \notin held[u])
    BY <1>1, <1>3, <1>4 DEF OwnerInv, SlabTypes
  <1>7. \A p : Freed(p)' <=> Freed(p)
    <2>1. arg[t] = NULL /\ ~Freed(o)
      BY <1>1, <1>3, <1>4 DEF OwnerInv, Freed
    <2>2. \A u \in Threads : u # t => arg'[u] = arg[u] /\ held'[u] = held[u]
      BY <1>1, <1>3 DEF SlabTypes
    <2>3. arg'[t] = o /\ held'[t] = held[t] \ {o}
      BY <1>1, <1>3 DEF SlabTypes
    <2>4. ASSUME NEW p, p # o PROVE Freed(p)' <=> Freed(p)
      BY <1>4, <2>1, <2>2, <2>3, <2>4 DEF Freed
    <2>5. ~Freed(o)'
      BY <2>3 DEF Freed
    <2> QED
      BY <2>1, <2>4, <2>5
  <1>8. OwnerInv'
    <2>1. \A u, v \in Threads : u # v => held'[u] \cap held'[v] \cap Objects = {}
      BY <1>1, <1>3 DEF OwnerInv, SlabTypes
    <2>2. ASSUME NEW u \in Threads
          PROVE  IF pc'[u] \in {"link", "push"}
                 THEN /\ arg'[u] \in Objects /\ frees'[arg'[u]] = 1
                      /\ \A v \in Threads : arg'[u] \notin held'[v] /\ (v # u => arg'[v] # arg'[u])
                 ELSE arg'[u] = NULL
      <3>1. CASE u = t
        BY <1>1, <1>3, <1>4, <1>6, <3>1 DEF SlabTypes
      <3>2. CASE u # t
        <4>1. pc'[u] = pc[u] /\ arg'[u] = arg[u] /\ arg[u] # o /\ arg'[t] = o
          BY <1>1, <1>3, <1>6, <3>2 DEF SlabTypes
        <4>2. \A v \in Threads : held'[v] \subseteq held[v] /\ (v # t => arg'[v] = arg[v])
          BY <1>1, <1>3 DEF SlabTypes
        <4>3. CASE pc[u] \in {"link", "push"}
          <5>1. /\ arg[u] \in Objects /\ frees[arg[u]] = 1
                /\ \A v \in Threads : arg[u] \notin held[v] /\ (v # u => arg[v] # arg[u])
            BY <1>1, <4>3 DEF OwnerInv
          <5> QED
            BY <1>4, <4>1, <4>2, <4>3, <5>1
        <4>4. CASE pc[u] \notin {"link", "push"}
          BY <1>1, <4>1, <4>4 DEF OwnerInv
        <4> QED
          BY <4>3, <4>4
      <3> QED
        BY <3>1, <3>2
    <2>3. \A p \in fresh' : frees'[p] = 0 /\ \A u \in Threads : p \notin held'[u]
      BY <1>1, <1>3, <1>4 DEF OwnerInv, SlabTypes
    <2> QED
      BY <2>1, <2>2, <2>3 DEF OwnerInv
  <1>9. ListInv'
    BY <1>1, <1>3, <1>7 DEF ListInv
  <1>10. LocalInv'
    <2>1. \A u \in Threads : u # t => /\ pc'[u] = pc[u] /\ head'[u] = head[u]
                                      /\ link'[u] = link[u] /\ arg'[u] = arg[u]
      BY <1>1, <1>2, <1>3 DEF SlabTypes
    <2>2. pc'[t] = "link" /\ arg'[t] = o
      BY <1>1, <1>3 DEF SlabTypes
    <2>3. ASSUME NEW u \in Threads, pc'[u] \in {"read", "swap"}
          PROVE  /\ head'[u] \in Objects /\ frees'[head'[u]] = 1
                 /\ \A v \in Threads : arg'[v] # head'[u]
      <3>1. u # t /\ head'[u] = head[u] /\ head[u] \in Objects /\ frees[head[u]] = 1
            /\ \A v \in Threads : arg[v] # head[u]
        BY <1>1, <2>1, <2>2, <2>3 DEF LocalInv
      <3>2. head[u] # o
        BY <1>4, <3>1
      <3>3. \A v \in Threads : arg'[v] # head[u]
        BY <2>1, <2>2, <3>1, <3>2
      <3> QED
        BY <1>4, <3>1, <3>2, <3>3
    <2>4. ASSUME NEW u \in Threads, pc'[u] = "swap", Freed(head[u])'
          PROVE  link'[u] = next'[head'[u]]
      <3>1. pc[u] = "swap" /\ head'[u] = head[u] /\ link'[u] = link[u]
        BY <2>1, <2>2, <2>4
      <3>2. Freed(head[u])
        BY <1>7, <2>4, <3>1
      <3> QED
        BY <1>1, <1>3, <3>1, <3>2 DEF LocalInv
    <2>5. ASSUME NEW u \in Threads, pc'[u] = "push" PROVE next'[arg'[u]] = head'[u]
      BY <1>1, <1>3, <2>1, <2>2, <2>5 DEF LocalInv
    <2> QED
      BY <2>3, <2>4, <2>5 DEF LocalInv
  <1> QED
    BY <1>5, <1>8, <1>9, <1>10 DEF Shape

\* The link is written into an object that only its free has.
LEMMA FreeLinkStep == ASSUME Shape, NEW t \in Threads, FreeLink(t) PROVE Shape'
  <1> USE DEF At, GoTo
  <1>1. SlabTypes /\ OwnerInv /\ ListInv /\ LocalInv
    BY DEF Shape
  <1>2. /\ pc[t] = "link" /\ pc' = [pc EXCEPT ![t] = "push"]
        /\ next' = [next EXCEPT ![arg[t]] = head[t]]
        /\ UNCHANGED <<interleaving, free, fresh, list, head, link, arg, held, frees>>
    BY DEF FreeLink
  <1>3. arg[t] \in Objects /\ ~Freed(arg[t])
    BY <1>1, <1>2 DEF OwnerInv, Freed
  <1>4. \A p : Freed(p)' <=> Freed(p)
    BY <1>2 DEF Freed
  <1>5. \A p \in Objects : p # arg[t] => next'[p] = next[p]
    BY <1>1, <1>2 DEF SlabTypes
  <1>6. SlabTypes'
    BY <1>1, <1>2, <1>3 DEF SlabTypes
  <1>7. OwnerInv'
    BY <1>1, <1>2 DEF OwnerInv, SlabTypes
  <1>8. ListInv'
    <2>1. \A p \in Objects : Freed(p) => next'[p] = next[p]
      BY <1>3, <1>5
    <2> QED
      BY <1>1, <1>2, <1>4, <2>1 DEF ListInv
  <1>9. LocalInv'
    <2>1. \A u \in Threads : u # t => pc'[u] = pc[u] /\ (pc[u] = "push" => arg[u] # arg[t])
      BY <1>1, <1>2 DEF OwnerInv, SlabTypes
    <2>2. pc'[t] = "push" /\ next'[arg[t]] = head[t]
      BY <1>1, <1>2, <1>3 DEF SlabTypes
    <2>3. ASSUME NEW u \in Threads, pc'[u] = "push" PROVE next'[arg'[u]] = head'[u]
      <3>1. CASE u = t
        BY <1>2, <2>2, <3>1
      <3>2. CASE u # t
        <4>1. arg[u] \in Objects
          BY <1>1, <2>1, <2>3, <3>2 DEF OwnerInv
        <4> QED
          BY <1>1, <1>2, <1>5, <2>1, <2>3, <3>2, <4>1 DEF LocalInv
      <3> QED
        BY <3>1, <3>2
    <2>4. ASSUME NEW u \in Threads, pc'[u] \in {"read", "swap"}
          PROVE  /\ u # t /\ head'[u] \in Objects /\ frees'[head'[u]] = 1
                 /\ \A v \in Threads : arg'[v] # head'[u]
      BY <1>1, <1>2, <2>1, <2>2, <2>4 DEF LocalInv
    <2>5. ASSUME NEW u \in Threads, pc'[u] = "swap", Freed(head[u])'
          PROVE  link'[u] = next'[head'[u]]
      <3>1. pc[u] = "swap" /\ head'[u] = head[u] /\ Freed(head[u])
        BY <1>2, <1>4, <2>1, <2>4, <2>5
      <3>2. head[u] \in Objects /\ head[u] # arg[t]
        BY <1>3, <3>1 DEF Freed
      <3> QED
        BY <1>1, <1>2, <1>5, <3>1, <3>2 DEF LocalInv
    <2> QED
      BY <2>3, <2>4, <2>5 DEF LocalInv
  <1> QED
    BY <1>6, <1>7, <1>8, <1>9 DEF Shape

\* The compare-and-swap that puts an object on a list.
LEMMA PushStep == ASSUME Shape, NEW t \in Threads, PushCAS(t) PROVE Shape'
  <1> USE DEF At, GoTo, Returns
  <1> DEFINE o == arg[t]
             l == list[t]
  <1>1. SlabTypes /\ OwnerInv /\ ListInv /\ LocalInv
    BY DEF Shape
  <1>2. /\ pc[t] = "push" /\ free[l] = head[t] /\ l \in Nodes \cup {0}
        /\ o \in Objects /\ frees[o] = 1 /\ o # NULL /\ next[o] = free[l]
        /\ \A u \in Threads : o \notin held[u] /\ (u # t => arg[u] # o)
    BY <1>1 DEF PushCAS, SlabTypes, OwnerInv, LocalInv
  <1>3. /\ free' = [free EXCEPT ![l] = o]
        /\ pc' = [pc EXCEPT ![t] = "idle"] /\ list' = [list EXCEPT ![t] = 0]
        /\ head' = [head EXCEPT ![t] = NULL] /\ link' = [link EXCEPT ![t] = NULL]
        /\ arg' = [arg EXCEPT ![t] = NULL]
        /\ UNCHANGED <<interleaving, next, fresh, held, frees>>
    BY DEF PushCAS
  <1>4. /\ arg'[t] = NULL /\ pc'[t] = "idle"
        /\ \A u \in Threads : u # t => /\ arg'[u] = arg[u] /\ pc'[u] = pc[u]
                                       /\ head'[u] = head[u] /\ link'[u] = link[u]
    BY <1>1, <1>3 DEF SlabTypes
  <1>5. ~Freed(o) /\ \A p : Freed(p)' <=> Freed(p) \/ p = o
    <2>1. ~Freed(o)
      BY DEF Freed
    <2>2. ASSUME NEW p, p = o PROVE Freed(p)'
      BY <1>2, <1>3, <1>4, <2>2 DEF Freed
    <2>3. ASSUME NEW p, p # o PROVE Freed(p)' <=> Freed(p)
      BY <1>2, <1>3, <1>4, <2>3 DEF Freed
    <2> QED
      BY <2>1, <2>2, <2>3
  <1>6. SlabTypes'
    BY <1>1, <1>2, <1>3 DEF SlabTypes
  <1>7. OwnerInv'
    BY <1>1, <1>2, <1>3, <1>4 DEF OwnerInv
  <1>8. ListInv'
    <2>1. \A m \in Nodes \cup {0} : free'[m] = IF m = l THEN o ELSE free[m]
      BY <1>1, <1>3 DEF SlabTypes
    <2>2. \A m \in Nodes \cup {0} : free[m] # NULL => Freed(free[m]) /\ free[m] # o
      BY <1>1, <1>5 DEF ListInv
    <2>3. \A p \in Objects : Freed(p) /\ next[p] # NULL => Freed(next[p]) /\ next[p] # o
      BY <1>1, <1>5 DEF ListInv
    <2>4. ASSUME NEW p \in Objects, Freed(p), free[l] # NULL PROVE next[p] # free[l]
      BY <1>1, <1>2, <2>4 DEF ListInv
    <2>5. \A m \in Nodes \cup {0} : m # l /\ free[m] # NULL => free[m] # next[o]
      BY <1>1, <1>2 DEF ListInv
    <2>6. \A m \in Nodes \cup {0} : free'[m] # NULL => Freed(free[m])'
      BY <1>5, <2>1, <2>2, <1>2, <1>3, <1>4 DEF Freed
    <2>7. \A p \in Objects : Freed(p)' /\ next'[p] # NULL => Freed(next[p])'
      <3>1. ASSUME NEW p \in Objects, Freed(p)', next[p] # NULL PROVE Freed(next[p])
        BY <1>2, <1>5, <2>2, <2>3, <3>1
      <3>2. \A p : Freed(next[p]) => Freed(next[p])'
        BY <1>3, <1>5 DEF Freed
      <3> QED
        BY <1>3, <3>1, <3>2
    <2>8. \A m, n \in Nodes \cup {0} : free'[m] # NULL /\ free'[m] = free'[n] => m = n
      BY <1>1, <2>1, <2>2 DEF ListInv
    <2>9. \A p, q \in Objects : Freed(p)' /\ Freed(q)' /\ next'[p] # NULL /\ next'[p] = next'[q] => p = q
      BY <1>1, <1>2, <1>3, <1>5, <2>4 DEF ListInv
    <2>10. \A m \in Nodes \cup {0}, p \in Objects : free'[m] # NULL /\ Freed(p)' => free'[m] # next'[p]
      <3>1. ASSUME NEW m \in Nodes \cup {0}, NEW p \in Objects, free'[m] # NULL, Freed(p)'
            PROVE  free'[m] # next[p]
        <4>1. Freed(p) \/ p = o
          BY <1>5, <3>1
        <4>2. next[o] # o
          BY <1>2, <2>2
        <4>3. CASE p = o
          BY <1>2, <2>1, <2>5, <3>1, <4>2, <4>3
        <4>4. CASE Freed(p) /\ m = l
          BY <1>2, <2>1, <2>3, <4>4
        <4>5. CASE Freed(p) /\ m # l
          BY <1>1, <2>1, <3>1, <4>5 DEF ListInv
        <4> QED
          BY <4>1, <4>3, <4>4, <4>5
      <3> QED
        BY <1>3, <3>1
    <2> QED
      BY <2>6, <2>7, <2>8, <2>9, <2>10 DEF ListInv
  <1>9. LocalInv'
    <2>1. ASSUME NEW u \in Threads, pc'[u] \in {"read", "swap"}
          PROVE  /\ u # t /\ head'[u] \in Objects /\ frees'[head'[u]] = 1 /\ head[u] # o
                 /\ \A v \in Threads : arg'[v] # head'[u]
      BY <1>1, <1>3, <1>4, <2>1 DEF LocalInv
    <2>2. ASSUME NEW u \in Threads, pc'[u] = "swap", Freed(head[u])'
          PROVE  link'[u] = next'[head'[u]]
      <3>1. pc[u] = "swap" /\ head'[u] = head[u] /\ link'[u] = link[u] /\ head[u] # o
        BY <1>4, <2>1, <2>2
      <3>2. Freed(head[u])
        BY <1>5, <2>2, <3>1
      <3> QED
        BY <1>1, <1>3, <3>1, <3>2 DEF LocalInv
    <2>3. ASSUME NEW u \in Threads, pc'[u] = "push" PROVE next'[arg'[u]] = head'[u]
      BY <1>1, <1>3, <1>4, <2>3 DEF LocalInv
    <2> QED
      BY <2>1, <2>2, <2>3 DEF LocalInv
  <1> QED
    BY <1>6, <1>7, <1>8, <1>9 DEF Shape

\* Every step keeps the invariant; an object that was freed twice stays so.
LEMMA SlabStep == ASSUME SlabInv, [SlabNext]_slabVars PROVE SlabInv'
  <1>1. frees \in [Objects -> Nat]
    BY DEF SlabInv
  <1>2. CASE UNCHANGED slabVars
    BY <1>2 DEF slabVars, SlabInv, FirstLife, SlabTypes, OwnerInv, ListInv, LocalInv, Freed
  <1>3. ASSUME NEW t \in Threads,
               \/ AllocBegin(t) \/ AllocLoad(t) \/ AllocRead(t) \/ PopCAS(t) \/ PopRetry(t)
               \/ AllocMap(t) \/ FreeLink(t) \/ PushCAS(t) \/ PushRetry(t)
        PROVE  SlabInv'
    <2>1. UNCHANGED frees
      BY <1>3 DEF AllocBegin, AllocLoad, AllocRead, PopCAS, PopRetry, AllocMap, FreeLink,
                  PushCAS, PushRetry
    <2>2. FirstLife' => Shape
      BY <2>1 DEF SlabInv, FirstLife, Shape
    <2>3. FirstLife' => Shape'
      BY <1>3, <2>2, QuietStep, PopStep, MapStep, FreeLinkStep, PushStep
    <2> QED
      BY <1>1, <2>1, <2>3 DEF SlabInv, Shape
  <1>4. ASSUME NEW t \in Threads, NEW o \in Objects, FreeBegin(t, o) PROVE SlabInv'
    <2>1. frees' = [frees EXCEPT ![o] = @ + 1]
      BY <1>4 DEF FreeBegin
    <2>2. FirstLife' => FirstLife
      BY <1>1, <2>1 DEF FirstLife
    <2>3. FirstLife' => Shape'
      BY <1>1, <1>4, <2>2, FreeBeginStep DEF SlabInv, Shape
    <2>4. frees' \in [Objects -> Nat]
      BY <1>1, <2>1
    <2> QED
      BY <2>3, <2>4 DEF SlabInv, Shape
  <1> QED
    BY <1>2, <1>3, <1>4 DEF SlabNext

\* The invariant of the free lists is inductive.
THEOREM SlabInvariance == SlabSpec => []SlabInv
  BY SlabInitInv, SlabStep, PTL DEF SlabSpec

\* slab_alloc and slab_free never give an object to two threads, and keep no object
\* on a list that somebody holds, for any number of threads, nodes and objects, as
\* long as no object is freed a second time.
THEOREM ExclusiveInFirstLifeHolds == SlabSpec => []ExclusiveInFirstLife
  <1>1. SlabInv => ExclusiveInFirstLife
    <2> SUFFICES ASSUME SlabInv, FirstLife PROVE ObjectExclusive
      BY DEF ExclusiveInFirstLife, FirstLife
    <2>1. SlabTypes /\ OwnerInv /\ ListInv
      BY DEF SlabInv
    <2>2. ASSUME NEW t \in Threads, NEW l \in DOMAIN free PROVE free[l] \notin held[t] \cup {Junk}
      BY <2>1 DEF SlabTypes, ListInv, Freed
    <2> QED
      BY <2>1, <2>2 DEF ObjectExclusive, OwnerInv
  <1> QED
    BY <1>1, SlabInvariance, PTL

-----------------------------------------------------------------------------
(* The memory context of a VM.                                             *)

\* Threads fill different blocks, and a block is filled from below.
ArenaInv ==
    /\ blocks \in Nat /\ arenaOf \in [Allocators -> [blk: Nat, ptr: Nat]]
    /\ regions \subseteq [blk: Nat, lo: Nat, hi: Nat, from: Nat, size: Nat, align: Nat \ {0}]
    /\ \A t \in Allocators : arenaOf[t].blk <= blocks /\ arenaOf[t].ptr <= Block
    /\ \A t, u \in Allocators : t # u /\ arenaOf[t].blk # 0 => arenaOf[t].blk # arenaOf[u].blk
    /\ \A r \in regions :
          /\ r.blk # 0 /\ r.blk <= blocks
          /\ \A t \in Allocators : arenaOf[t].blk = r.blk => r.hi <= arenaOf[t].ptr

Steps == {"idle", "type", "total", "peak", "store", "mpeak", "mstore", "mpressure"}

\* The allocations that will be counted by type but not in total, and the other way
\* round.
WillFail == {t \in Allocators : step[t] = "type" /\ now[t].ok = "no"}
HalfCounted == {t \in Allocators : step[t] = "total"}

\* The counters agree but for the allocations under way, and what these have read is
\* not ahead of the counters.
CountInv ==
    /\ lost \in Nat
    /\ stats \in [typed: Nat, total: Nat, usage: Nat, peak: Nat]
    /\ mgr \in [total: Nat, peak: Nat, under: {"yes", "no"}]
    /\ step \in [Allocators -> Steps]
    /\ now \in [Allocators -> [size: Nat, ok: {"yes", "no"}, seen: Nat]]
    /\ stats.typed + Cardinality(WillFail) <= stats.total + lost + Cardinality(HalfCounted)
    /\ stats.peak <= stats.usage /\ mgr.peak <= mgr.total
    /\ \A t \in Allocators :
          /\ step[t] = "store" => now[t].seen <= stats.usage
          /\ step[t] \in {"mpeak", "mstore", "mpressure"} => now[t].seen <= mgr.total

\* The tracked objects are counted, under ids that were used.
TrackInv ==
    /\ allocs \in Nat /\ objects \subseteq [id: Nat, size: Nat]
    /\ IsFiniteSet(objects) /\ IsFiniteSet(TrackedBytes)
    /\ counts = [n |-> Cardinality(objects), bytes |-> Cardinality(TrackedBytes)]
    /\ \A o \in objects : o.id < allocs

\* Every piece belongs to a context that was made.
PieceInv ==
    /\ contexts \in Nat /\ called \in Nat /\ under \in {"yes", "no"}
    /\ pieces \subseteq (1..contexts) \X Pieces

MemoryInv ==
    ArenaInv /\ RegionsDisjoint /\ CountInv /\ TrackInv /\ PieceInv /\ PressureAndPieces

\* Rounding up adds less than the alignment.
LEMMA AlignUpFacts ==
    ASSUME NEW n \in Nat, NEW a \in Nat \ {0}
    PROVE  /\ AlignUp(n, a) \in Nat /\ n <= AlignUp(n, a) /\ AlignUp(n, a) <= n + a - 1
           /\ AlignUp(n, a) % a = 0
  <1> DEFINE m == n + a - 1
             q == m \div a
  <1>1. m \in Nat
    OBVIOUS
  <1>2. \A k \in Nat, b \in Nat \ {0} :
            (k \div b) \in Nat /\ b * (k \div b) <= k /\ k < b * (k \div b) + b
    OBVIOUS
  <1>3. \A k \in Nat, b \in Nat \ {0} : (k * b) % b = 0
    OBVIOUS
  <1>4. q \in Nat /\ a * q <= m /\ m < a * q + a
    BY <1>1, <1>2
  <1>5. AlignUp(n, a) = q * a /\ (q * a) % a = 0
    BY <1>3, <1>4 DEF AlignUp
  <1>6. q * a = a * q /\ q * a \in Nat
    BY <1>4
  <1> QED
    BY <1>4, <1>5, <1>6

\* A region above all the others of its block is disjoint from them.
LEMMA NewRegion ==
    ASSUME VmMemoryBounds, ArenaInv, RegionsDisjoint,
           NEW b, b.blk \in Nat, b.from \in Nat,
           NEW n \in Nat, NEW size \in Nat, NEW align \in Nat \ {0},
           b.from + n <= Block, size + align - 1 <= n,
           \A q \in regions : q.blk = b.blk => q.hi <= b.from,
           regions' = regions \cup {Region(b, n, size, align)}
    PROVE  /\ RegionsDisjoint'
           /\ regions' \subseteq [blk: Nat, lo: Nat, hi: Nat, from: Nat, size: Nat, align: Nat \ {0}]
  <1> DEFINE r == Region(b, n, size, align)
  <1>1. /\ AlignUp(b.from, align) \in Nat /\ b.from <= AlignUp(b.from, align)
        /\ AlignUp(b.from, align) <= b.from + align - 1 /\ AlignUp(b.from, align) % align = 0
    BY AlignUpFacts
  <1>2. /\ r.blk = b.blk /\ r.lo = b.from /\ r.hi = b.from + n /\ r.size = size
        /\ r.from = AlignUp(b.from, align) /\ r.align = align
        /\ r \in [blk: Nat, lo: Nat, hi: Nat, from: Nat, size: Nat, align: Nat \ {0}]
    BY <1>1 DEF Region
  <1> HIDE DEF r
  <1>3. regions' = regions \cup {r}
    BY DEF r
  <1>4. r.lo <= r.from /\ r.from + r.size <= r.hi /\ r.hi <= Block /\ r.from % r.align = 0
    BY <1>1, <1>2
  <1>5. \A q \in regions : q.blk = r.blk => q.hi <= r.lo
    BY <1>2
  <1>6. RegionsDisjoint'
    BY <1>3, <1>4, <1>5 DEF RegionsDisjoint
  <1> QED
    BY <1>2, <1>3, <1>6 DEF ArenaInv

\* An allocation from the arena of a thread.
LEMMA ThreadArenaStep ==
    ASSUME VmMemoryBounds, ArenaInv, RegionsDisjoint, NEW t \in Allocators,
           NEW size \in Nat, NEW align \in Nat \ {0}, size + align - 1 < Large,
           ThreadArena(t, size + align - 1, size, align)
    PROVE  ArenaInv' /\ RegionsDisjoint'
  <1> DEFINE n == AlignUp(size + align - 1, Line)
             a == arenaOf[t]
             b == Bump(t, n)
  <1>1. n \in Nat /\ size + align - 1 <= n /\ n <= Block
    <2>1. size + align - 1 \in Nat
      OBVIOUS
    <2>2. n \in Nat /\ size + align - 1 <= n /\ n <= size + align - 1 + Line - 1
      BY <2>1, AlignUpFacts DEF VmMemoryBounds
    <2> QED
      BY <2>1, <2>2 DEF VmMemoryBounds
  <1>2. /\ arenaOf' = [arenaOf EXCEPT ![t] = [blk |-> b.blk, ptr |-> b.ptr]]
        /\ blocks' = blocks + b.new
        /\ regions' = regions \cup {Region(b, n, size, align)}
    BY DEF ThreadArena
  <1> HIDE DEF n
  <1>3. /\ b.blk \in Nat /\ b.from \in Nat /\ b.ptr = b.from + n /\ b.ptr <= Block
        /\ b.new \in {0, 1} /\ b.blk # 0 /\ b.blk <= blocks + b.new
        /\ \A q \in regions : q.blk = b.blk => q.hi <= b.from
        /\ \A u \in Allocators : u # t => arenaOf[u].blk # b.blk
    <2>1. CASE a.blk # 0 /\ a.ptr + n <= Block
      <3>1. b.blk = a.blk /\ b.from = a.ptr /\ b.ptr = a.ptr + n /\ b.new = 0
        BY <2>1 DEF Bump
      <3> QED
        BY <1>1, <2>1, <3>1 DEF ArenaInv
    <2>2. CASE ~(a.blk # 0 /\ a.ptr + n <= Block)
      <3>1. b.blk = blocks + 1 /\ b.from = 0 /\ b.ptr = n /\ b.new = 1
        BY <2>2 DEF Bump
      <3>2. \A q \in regions : q.blk # blocks + 1
        BY DEF ArenaInv
      <3>3. \A u \in Allocators : arenaOf[u].blk # blocks + 1
        BY DEF ArenaInv
      <3> QED
        BY <1>1, <3>1, <3>2, <3>3 DEF ArenaInv
    <2> QED
      BY <2>1, <2>2
  <1> HIDE DEF b
  <1>4. RegionsDisjoint'
        /\ regions' \subseteq [blk: Nat, lo: Nat, hi: Nat, from: Nat, size: Nat, align: Nat \ {0}]
    BY <1>1, <1>2, <1>3, NewRegion
  <1>5. blocks' \in Nat /\ blocks <= blocks' /\ b.blk <= blocks'
    BY <1>2, <1>3 DEF ArenaInv
  <1>6. /\ arenaOf'[t].blk = b.blk /\ arenaOf'[t].ptr = b.ptr
        /\ \A u \in Allocators : u # t => arenaOf'[u] = arenaOf[u]
        /\ arenaOf' \in [Allocators -> [blk: Nat, ptr: Nat]]
    BY <1>1, <1>2, <1>3 DEF ArenaInv
  <1>7. /\ \A u \in Allocators : arenaOf'[u].blk <= blocks' /\ arenaOf'[u].ptr <= Block
        /\ \A u, v \in Allocators : u # v /\ arenaOf'[u].blk # 0 => arenaOf'[u].blk # arenaOf'[v].blk
    BY <1>3, <1>5, <1>6 DEF ArenaInv
  <1>8. ASSUME NEW r \in regions'
        PROVE  /\ r.blk # 0 /\ r.blk <= blocks'
               /\ \A u \in Allocators : arenaOf'[u].blk = r.blk => r.hi <= arenaOf'[u].ptr
    <2>1. CASE r \in regions
      <3>1. /\ r.blk # 0 /\ r.blk <= blocks /\ r.hi \in Nat /\ r.blk \in Nat
            /\ \A u \in Allocators : arenaOf[u].blk = r.blk => r.hi <= arenaOf[u].ptr
        BY <2>1 DEF ArenaInv
      <3>2. r.blk = b.blk => r.hi <= b.ptr
        BY <1>1, <1>3, <2>1, <3>1
      <3> QED
        BY <1>5, <1>6, <3>1, <3>2 DEF ArenaInv
    <2>2. CASE r = Region(b, n, size, align)
      <3>1. r.blk = b.blk /\ r.hi = b.from + n
        BY <2>2 DEF Region
      <3> QED
        BY <1>1, <1>3, <1>5, <1>6, <3>1
    <2> QED
      BY <1>2, <2>1, <2>2
  <1> QED
    BY <1>4, <1>5, <1>6, <1>7, <1>8 DEF ArenaInv

\* An allocation on a node, which makes an arena of its own.
LEMMA NumaStep ==
    ASSUME VmMemoryBounds, ArenaInv, RegionsDisjoint, NEW size \in Nat, size < Large,
           UNCHANGED arenaOf, blocks' = blocks + 1,
           regions' = regions \cup
              {Region([blk |-> blocks + 1, from |-> 0], AlignUp(size, Line), size, 1)}
    PROVE  ArenaInv' /\ RegionsDisjoint'
  <1> DEFINE n == AlignUp(size, Line)
             b == [blk |-> blocks + 1, from |-> 0]
  <1>1. n \in Nat /\ size <= n /\ n <= Block
    <2>1. n \in Nat /\ size <= n /\ n <= size + Line - 1
      BY AlignUpFacts DEF VmMemoryBounds
    <2> QED
      BY <2>1 DEF VmMemoryBounds
  <1>2. regions' = regions \cup {Region(b, n, size, 1)}
    OBVIOUS
  <1> HIDE DEF n
  <1>3. b.blk = blocks + 1 /\ b.from = 0 /\ b.blk \in Nat /\ b.from \in Nat
    BY DEF ArenaInv
  <1>4. \A q \in regions : q.blk # b.blk
    BY <1>3 DEF ArenaInv
  <1> HIDE DEF b
  <1>5. RegionsDisjoint'
        /\ regions' \subseteq [blk: Nat, lo: Nat, hi: Nat, from: Nat, size: Nat, align: Nat \ {0}]
    <2>1. /\ b.from + n <= Block /\ size + 1 - 1 <= n /\ 1 \in Nat \ {0}
          /\ \A q \in regions : q.blk = b.blk => q.hi <= b.from
      BY <1>1, <1>3, <1>4
    <2> QED
      BY <1>1, <1>2, <1>3, <2>1, NewRegion
  <1>6. \A u \in Allocators : arenaOf[u].blk # b.blk
    BY <1>3 DEF ArenaInv
  <1>7. Region(b, n, size, 1).blk = b.blk
    BY DEF Region
  <1>8. ASSUME NEW r \in regions'
        PROVE  /\ r.blk # 0 /\ r.blk <= blocks'
               /\ \A u \in Allocators : arenaOf'[u].blk = r.blk => r.hi <= arenaOf'[u].ptr
    <2>1. CASE r \in regions
      BY <2>1 DEF ArenaInv
    <2>2. CASE r = Region(b, n, size, 1)
      BY <1>3, <1>6, <1>7, <2>2 DEF ArenaInv
    <2> QED
      BY <1>2, <2>1, <2>2
  <1>9. \A u \in Allocators : arenaOf[u].blk <= blocks'
    BY DEF ArenaInv
  <1> QED
    BY <1>5, <1>8, <1>9 DEF ArenaInv

\* Every step keeps the regions apart.
LEMMA ArenaStep ==
    ASSUME VmMemoryBounds, MemoryInv, [MemoryNext]_memoryVars
    PROVE  ArenaInv' /\ RegionsDisjoint'
  <1> USE DEF context, memory, large
  <1>1. ArenaInv /\ RegionsDisjoint
    BY DEF MemoryInv
  <1>2. ASSUME UNCHANGED memory PROVE ArenaInv' /\ RegionsDisjoint'
    BY <1>1, <1>2 DEF ArenaInv, RegionsDisjoint
  <1>3. CASE UNCHANGED memoryVars
    BY <1>2, <1>3 DEF memoryVars
  <1>4. CASE Integrate \/ IntegrateFails \/ Detach \/ Track \/ CheckPressure
    BY <1>2, <1>4 DEF Integrate, IntegrateFails, Detach, Track, CheckPressure
  <1>5. ASSUME NEW o \in objects, LargeFree(o) PROVE ArenaInv' /\ RegionsDisjoint'
    BY <1>2, <1>5 DEF LargeFree
  <1>6. ASSUME NEW t \in Allocators,
               \/ CountType(t) \/ CountTotal(t) \/ ReadPeak(t) \/ StorePeak(t)
               \/ ManagerReadPeak(t) \/ ManagerStorePeak(t) \/ ManagerPressure(t)
        PROVE  ArenaInv' /\ RegionsDisjoint'
    BY <1>2, <1>6 DEF CountType, CountTotal, ReadPeak, StorePeak, ManagerReadPeak,
                      ManagerStorePeak, ManagerPressure
  <1>7. ASSUME NEW t \in Allocators, NEW size \in Sizes,
               AllocLarge(t, size) \/ AllocSlab(t, size) \/ Crash(t, size)
        PROVE  ArenaInv' /\ RegionsDisjoint'
    BY <1>2, <1>7 DEF AllocLarge, AllocSlab, Crash, ThreadArenaFails
  <1>8. ASSUME NEW t \in Allocators, NEW size \in Sizes, size < Large,
               ThreadArena(t, size, size, 1)
        PROVE  ArenaInv' /\ RegionsDisjoint'
    <2>1. size \in Nat /\ size + 1 - 1 = size
      BY DEF VmMemoryBounds
    <2> QED
      BY <1>1, <1>8, <2>1, ThreadArenaStep
  <1>9. ASSUME NEW t \in Allocators, NEW size \in Sizes, AllocArena(t, size)
        PROVE  ArenaInv' /\ RegionsDisjoint'
    BY <1>2, <1>8, <1>9 DEF AllocArena, ThreadArenaFails
  <1>10. ASSUME NEW t \in Allocators, NEW size \in Sizes, ManagerAlloc(t, size)
         PROVE  ArenaInv' /\ RegionsDisjoint'
    BY <1>8, <1>10 DEF ManagerAlloc
  <1>11. ASSUME NEW t \in Allocators, NEW size \in Sizes, AllocNuma(t, size)
         PROVE  ArenaInv' /\ RegionsDisjoint'
    BY <1>1, <1>11, NumaStep DEF AllocNuma, VmMemoryBounds
  <1>12. ASSUME NEW t \in Allocators, NEW size \in Sizes, NEW a \in Alignments,
                AllocAligned(t, size, a)
         PROVE  ArenaInv' /\ RegionsDisjoint'
    <2>1. size \in Nat /\ a \in Nat \ {0}
      BY DEF VmMemoryBounds
    <2>2. size + a - 1 < Large /\ ThreadArena(t, size + a - 1, size, a)
      BY <1>12 DEF AllocAligned, Asked
    <2> QED
      BY <1>1, <2>1, <2>2, ThreadArenaStep
  <1> QED
    BY <1>3, <1>4, <1>5, <1>6, <1>7, <1>9, <1>10, <1>11, <1>12 DEF MemoryNext

\* What Begin does to the thread that calls it and to the others.
LEMMA BeginFacts ==
    ASSUME CountInv, NEW t \in Allocators, NEW size \in Nat, NEW ok \in {"yes", "no"},
           NEW where \in Steps, Begin(t, size, ok, where)
    PROVE  /\ step[t] = "idle" /\ step' = [step EXCEPT ![t] = where]
           /\ now' \in [Allocators -> [size: Nat, ok: {"yes", "no"}, seen: Nat]]
           /\ \A u \in Allocators : u # t => step'[u] = step[u] /\ now'[u] = now[u]
           /\ step'[t] = where
           /\ where # "idle" => now'[t].ok = ok /\ now'[t].seen = mgr.total
  <1>1. mgr.total \in Nat /\ NoCall \in [size: Nat, ok: {"yes", "no"}, seen: Nat]
    BY DEF CountInv, NoCall
  <1>2. [size |-> size, ok |-> ok, seen |-> mgr.total] \in [size: Nat, ok: {"yes", "no"}, seen: Nat]
    BY <1>1
  <1> QED
    BY <1>1, <1>2 DEF Begin, CountInv

\* The sets of allocations under way are finite.
LEMMA UnderWayFinite ==
    ASSUME VmMemoryBounds
    PROVE  /\ IsFiniteSet(WillFail) /\ Cardinality(WillFail) \in Nat
           /\ IsFiniteSet(HalfCounted) /\ Cardinality(HalfCounted) \in Nat
  <1>1. WillFail \in SUBSET Allocators /\ HalfCounted \in SUBSET Allocators
    BY DEF WillFail, HalfCounted
  <1>2. IsFiniteSet(WillFail) /\ IsFiniteSet(HalfCounted)
    BY <1>1, FS_Subset DEF VmMemoryBounds
  <1> QED
    BY <1>2, FS_CardinalityType

\* An allocation that begins: it will be counted, or has failed and counted as lost.
LEMMA CountBegin ==
    ASSUME VmMemoryBounds, CountInv, NEW t \in Allocators, NEW size \in Nat,
           NEW ok \in {"yes", "no"}, NEW where \in {"idle", "type", "mpeak"},
           Begin(t, size, ok, where), where = "mpeak" => ok = "yes",
           UNCHANGED stats,
           mgr' \in [total: Nat, peak: Nat, under: {"yes", "no"}],
           mgr'.total >= mgr.total, mgr'.peak = mgr.peak,
           lost' = IF where = "type" /\ ok = "no" THEN lost + 1 ELSE lost
    PROVE  CountInv'
  <1>1. where \in Steps
    BY DEF Steps
  <1>2. /\ step[t] = "idle" /\ step' = [step EXCEPT ![t] = where]
        /\ now' \in [Allocators -> [size: Nat, ok: {"yes", "no"}, seen: Nat]]
        /\ \A u \in Allocators : u # t => step'[u] = step[u] /\ now'[u] = now[u]
        /\ step'[t] = where
        /\ where # "idle" => now'[t].ok = ok /\ now'[t].seen = mgr.total
    <2>1. CountInv /\ t \in Allocators /\ size \in Nat /\ ok \in {"yes", "no"}
          /\ Begin(t, size, ok, where)
      OBVIOUS
    <2> QED
      BY ONLY <1>1, <2>1, BeginFacts
  <1>3. HalfCounted' = HalfCounted
    BY <1>2 DEF HalfCounted
  <1>4. WillFail' = (IF where = "type" /\ ok = "no" THEN WillFail \cup {t} ELSE WillFail) /\ t \notin WillFail
    BY <1>2 DEF WillFail
  <1>5. Cardinality(WillFail') = IF where = "type" /\ ok = "no" THEN Cardinality(WillFail) + 1
                                                                ELSE Cardinality(WillFail)
    BY <1>4, UnderWayFinite, FS_AddElement
  <1>6. Cardinality(WillFail) \in Nat /\ Cardinality(HalfCounted) \in Nat
    BY UnderWayFinite
  <1>7. stats'.typed + Cardinality(WillFail') <= stats'.total + lost' + Cardinality(HalfCounted')
    BY <1>3, <1>5, <1>6 DEF CountInv
  <1>8. \A u \in Allocators :
          /\ step'[u] = "store" => now'[u].seen <= stats'.usage
          /\ step'[u] \in {"mpeak", "mstore", "mpressure"} => now'[u].seen <= mgr'.total
    BY <1>2 DEF CountInv
  <1>9. step' \in [Allocators -> Steps] /\ lost' \in Nat
    BY <1>1, <1>2 DEF CountInv
  <1> QED
    BY <1>2, <1>7, <1>8, <1>9 DEF CountInv

\* When the context is replaced, nothing is under way and every counter is zero.
LEMMA CountFresh ==
    ASSUME VmMemoryBounds, CountInv, Quiet, Fresh, UNCHANGED <<step, now>> PROVE CountInv'
  <1>1. WillFail' = {} /\ HalfCounted' = {}
    BY DEF WillFail, HalfCounted, Quiet
  <1>2. Cardinality(WillFail') = 0 /\ Cardinality(HalfCounted') = 0
    BY <1>1, FS_EmptySet
  <1> QED
    BY <1>2 DEF CountInv, Fresh, Quiet

\* The steps that count an allocation.
LEMMA CountingStep ==
    ASSUME VmMemoryBounds, CountInv, NEW t \in Allocators, CountType(t) \/ CountTotal(t)
    PROVE  CountInv'
  <1> USE DEF Steps
  <1>1. /\ Cardinality(WillFail) \in Nat /\ Cardinality(HalfCounted) \in Nat
        /\ IsFiniteSet(WillFail) /\ IsFiniteSet(HalfCounted)
    BY UnderWayFinite
  <1>2. CASE CountType(t) /\ now[t].ok = "yes"
    <2>1. /\ stats' = [stats EXCEPT !.typed = @ + 1] /\ step' = [step EXCEPT ![t] = "total"]
          /\ UNCHANGED <<now, mgr, lost>> /\ step[t] = "type"
      BY <1>2 DEF CountType
    <2>2. WillFail' = WillFail /\ HalfCounted' = HalfCounted \cup {t} /\ t \notin HalfCounted
      BY <1>2, <2>1 DEF WillFail, HalfCounted, CountInv
    <2>3. Cardinality(HalfCounted') = Cardinality(HalfCounted) + 1
      BY <1>1, <2>2, FS_AddElement
    <2>4. stats'.typed + Cardinality(WillFail') <= stats'.total + lost' + Cardinality(HalfCounted')
      BY <1>1, <2>1, <2>2, <2>3 DEF CountInv
    <2> QED
      BY <2>1, <2>4 DEF CountInv
  <1>3. CASE CountType(t) /\ now[t].ok # "yes"
    <2>1. /\ stats' = [stats EXCEPT !.typed = @ + 1] /\ step' = [step EXCEPT ![t] = "idle"]
          /\ now' = [now EXCEPT ![t] = NoCall]
          /\ UNCHANGED <<mgr, lost>> /\ step[t] = "type"
      BY <1>3 DEF CountType, Returned
    <2>2. now[t].ok = "no" /\ now' \in [Allocators -> [size: Nat, ok: {"yes", "no"}, seen: Nat]]
      BY <1>3, <2>1 DEF CountInv, NoCall
    <2>3. WillFail' = WillFail \ {t} /\ t \in WillFail /\ HalfCounted' = HalfCounted
      BY <2>1, <2>2 DEF WillFail, HalfCounted, CountInv
    <2>4. Cardinality(WillFail') = Cardinality(WillFail) - 1
      BY <1>1, <2>3, FS_RemoveElement
    <2>5. stats'.typed + Cardinality(WillFail') <= stats'.total + lost' + Cardinality(HalfCounted')
      BY <1>1, <2>1, <2>3, <2>4 DEF CountInv
    <2>6. \A u \in Allocators : u # t => step'[u] = step[u] /\ now'[u] = now[u]
      BY <2>1 DEF CountInv
    <2>7. step'[t] = "idle" /\ step' \in [Allocators -> Steps]
      BY <2>1 DEF CountInv
    <2> QED
      BY <2>1, <2>2, <2>5, <2>6, <2>7 DEF CountInv
  <1>4. CASE CountTotal(t)
    <2>1. /\ stats' = [stats EXCEPT !.total = @ + 1, !.usage = @ + now[t].size]
          /\ step' = [step EXCEPT ![t] = "peak"] /\ UNCHANGED <<now, mgr, lost>> /\ step[t] = "total"
      BY <1>4 DEF CountTotal
    <2>2. WillFail' = WillFail /\ HalfCounted' = HalfCounted \ {t} /\ t \in HalfCounted
      BY <2>1 DEF WillFail, HalfCounted, CountInv
    <2>3. Cardinality(HalfCounted') = Cardinality(HalfCounted) - 1
      BY <1>1, <2>2, FS_RemoveElement
    <2>4. /\ stats'.typed = stats.typed /\ stats'.total = stats.total + 1
          /\ stats'.usage = stats.usage + now[t].size /\ stats'.peak = stats.peak
          /\ now[t].size \in Nat
          /\ stats' \in [typed: Nat, total: Nat, usage: Nat, peak: Nat]
      <3>1. now[t].size \in Nat /\ stats \in [typed: Nat, total: Nat, usage: Nat, peak: Nat]
        BY DEF CountInv
      <3>2. stats.total + 1 \in Nat /\ stats.usage + now[t].size \in Nat
        BY <3>1
      <3> QED
        BY ONLY <2>1, <3>1, <3>2
    <2>5. stats'.typed + Cardinality(WillFail') <= stats'.total + lost' + Cardinality(HalfCounted')
      BY <1>1, <2>1, <2>2, <2>3, <2>4 DEF CountInv
    <2>6. \A u \in Allocators : step'[u] # "peak" => step'[u] = step[u]
      BY <2>1 DEF CountInv
    <2>7. step' \in [Allocators -> Steps] /\ \A u \in Allocators : now[u].seen \in Nat
      BY <2>1 DEF CountInv
    <2> QED
      BY <2>1, <2>4, <2>5, <2>6, <2>7 DEF CountInv
  <1> QED
    BY <1>2, <1>3, <1>4

\* The steps that keep the peaks.
LEMMA PeakStep ==
    ASSUME VmMemoryBounds, CountInv, NEW t \in Allocators,
           \/ ReadPeak(t) \/ StorePeak(t)
           \/ ManagerReadPeak(t) \/ ManagerStorePeak(t) \/ ManagerPressure(t)
    PROVE  CountInv'
  <1> USE DEF Steps
  <1>1. /\ step[t] \in {"peak", "store", "mpeak", "mstore", "mpressure"}
        /\ \E p \in {"idle", "store", "mstore", "mpressure"} : step' = [step EXCEPT ![t] = p]
        /\ UNCHANGED lost /\ stats'.typed = stats.typed /\ stats'.total = stats.total
    BY DEF ReadPeak, StorePeak, ManagerReadPeak, ManagerStorePeak, ManagerPressure, Returned, CountInv
  <1>2. \A u \in Allocators : u # t => step'[u] = step[u] /\ now'[u] = now[u]
    BY <1>1 DEF ReadPeak, StorePeak, ManagerReadPeak, ManagerStorePeak, ManagerPressure, Returned, CountInv
  <1>3. WillFail' = WillFail /\ HalfCounted' = HalfCounted
    BY <1>1, <1>2 DEF WillFail, HalfCounted, CountInv
  <1>4. step' \in [Allocators -> Steps]
    BY <1>1 DEF CountInv
  <1>5. now' \in [Allocators -> [size: Nat, ok: {"yes", "no"}, seen: Nat]]
    BY DEF ReadPeak, StorePeak, ManagerReadPeak, ManagerStorePeak, ManagerPressure, Returned,
           CountInv, NoCall
  <1>6. ASSUME stats' \in [typed: Nat, total: Nat, usage: Nat, peak: Nat],
               mgr' \in [total: Nat, peak: Nat, under: {"yes", "no"}],
               stats'.usage = stats.usage, mgr'.total = mgr.total,
               stats'.peak <= stats.usage, mgr'.peak <= mgr.total,
               step'[t] = "store" => now'[t].seen <= stats.usage,
               step'[t] \in {"mpeak", "mstore", "mpressure"} => now'[t].seen <= mgr.total
        PROVE  CountInv'
    BY <1>1, <1>2, <1>3, <1>4, <1>5, <1>6 DEF CountInv
  <1>7. CASE ReadPeak(t)
    <2>1. UNCHANGED <<stats, mgr>> /\ step[t] = "peak"
      BY <1>7 DEF ReadPeak
    <2>2. CASE stats.usage > stats.peak
      <3>1. now' = [now EXCEPT ![t].seen = stats.usage] /\ step' = [step EXCEPT ![t] = "store"]
        BY <1>7, <2>2 DEF ReadPeak
      <3>2. now'[t].seen = stats.usage /\ step'[t] = "store" /\ stats.usage \in Nat
        BY <3>1 DEF CountInv
      <3> QED
        BY <1>6, <2>1, <3>2 DEF CountInv
    <2>3. CASE ~(stats.usage > stats.peak)
      <3>1. step' = [step EXCEPT ![t] = "idle"]
        BY <1>7, <2>3 DEF ReadPeak, Returned
      <3>2. step'[t] = "idle"
        BY <3>1 DEF CountInv
      <3> QED
        BY <1>6, <2>1, <3>2 DEF CountInv
    <2> QED
      BY <2>2, <2>3
  <1>8. CASE StorePeak(t)
    <2>1. PICK usage \in {now[t].seen, stats.usage} : stats' = [stats EXCEPT !.peak = usage]
      BY <1>8 DEF StorePeak
    <2>2. UNCHANGED mgr /\ step[t] = "store" /\ step' = [step EXCEPT ![t] = "idle"]
      BY <1>8 DEF StorePeak, Returned
    <2>3. step'[t] = "idle" /\ usage \in Nat /\ usage <= stats.usage
      BY <2>1, <2>2 DEF CountInv
    <2>4. /\ stats' \in [typed: Nat, total: Nat, usage: Nat, peak: Nat]
          /\ stats'.usage = stats.usage /\ stats'.peak = usage
      BY <2>1, <2>3 DEF CountInv
    <2> QED
      BY <1>6, <2>2, <2>3, <2>4 DEF CountInv
  <1>9. CASE ManagerReadPeak(t)
    <2>1. /\ UNCHANGED <<stats, mgr, now>> /\ step[t] = "mpeak"
          /\ \E p \in {"mstore", "mpressure"} : step' = [step EXCEPT ![t] = p]
      BY <1>9 DEF ManagerReadPeak
    <2>2. step'[t] \in {"mstore", "mpressure"} /\ now'[t].seen <= mgr.total
      BY <2>1 DEF CountInv
    <2> QED
      BY <1>6, <2>1, <2>2 DEF CountInv
  <1>10. CASE ManagerStorePeak(t)
    <2>1. /\ UNCHANGED <<stats, now>> /\ step[t] = "mstore" /\ step' = [step EXCEPT ![t] = "mpressure"]
          /\ mgr' = [mgr EXCEPT !.peak = now[t].seen]
      BY <1>10 DEF ManagerStorePeak
    <2>2. step'[t] = "mpressure" /\ now[t].seen <= mgr.total /\ now[t].seen \in Nat
      BY <2>1 DEF CountInv
    <2>3. /\ mgr' \in [total: Nat, peak: Nat, under: {"yes", "no"}]
          /\ mgr'.total = mgr.total /\ mgr'.peak = now[t].seen
      BY <2>1, <2>2 DEF CountInv
    <2> QED
      BY <1>6, <2>1, <2>2, <2>3 DEF CountInv
  <1>11. CASE ManagerPressure(t)
    <2>1. /\ UNCHANGED stats /\ step' = [step EXCEPT ![t] = "idle"]
          /\ \E w \in {"yes", mgr.under} : mgr' = [mgr EXCEPT !.under = w]
      BY <1>11 DEF ManagerPressure, Returned
    <2>2. step'[t] = "idle"
      BY <2>1 DEF CountInv
    <2>3. /\ mgr' \in [total: Nat, peak: Nat, under: {"yes", "no"}]
          /\ mgr'.total = mgr.total /\ mgr'.peak = mgr.peak
      BY <2>1 DEF CountInv
    <2> QED
      BY <1>6, <2>1, <2>2, <2>3 DEF CountInv
  <1> QED
    BY <1>7, <1>8, <1>9, <1>10, <1>11

\* Every step keeps the counters in agreement.
LEMMA CountStep ==
    ASSUME VmMemoryBounds, MemoryInv, [MemoryNext]_memoryVars PROVE CountInv'
  <1> USE DEF context, memory, large
  <1>1. CountInv
    BY DEF MemoryInv
  <1>2. ASSUME UNCHANGED <<stats, mgr, step, now, lost>> PROVE CountInv'
    BY <1>1, <1>2 DEF CountInv, WillFail, HalfCounted
  <1>3. CASE UNCHANGED memoryVars
    BY <1>2, <1>3 DEF memoryVars
  <1>4. CASE Integrate \/ Detach
    BY <1>1, <1>4, CountFresh DEF Integrate, Detach
  <1>5. CASE IntegrateFails \/ CheckPressure
    BY <1>2, <1>5 DEF IntegrateFails, CheckPressure
  <1>6. CASE Track
    <2>1. stats' = [stats EXCEPT !.total = @ + 1] /\ UNCHANGED <<mgr, step, now, lost>>
      BY <1>6 DEF Track
    <2>2. WillFail' = WillFail /\ HalfCounted' = HalfCounted
      BY <2>1 DEF WillFail, HalfCounted
    <2>3. Cardinality(WillFail) \in Nat /\ Cardinality(HalfCounted) \in Nat
      BY UnderWayFinite
    <2> QED
      BY <1>1, <2>1, <2>2, <2>3 DEF CountInv
  <1>7. ASSUME NEW o \in objects, LargeFree(o) PROVE CountInv'
    BY <1>2, <1>7 DEF LargeFree
  <1>8. ASSUME NEW t \in Allocators,
               \/ CountType(t) \/ CountTotal(t) \/ ReadPeak(t) \/ StorePeak(t)
               \/ ManagerReadPeak(t) \/ ManagerStorePeak(t) \/ ManagerPressure(t)
        PROVE  CountInv'
    BY <1>1, <1>8, CountingStep, PeakStep
  <1>9. ASSUME NEW t \in Allocators, NEW size \in Sizes, Crash(t, size) PROVE CountInv'
    BY <1>2, <1>9 DEF Crash
  <1>10. ASSUME NEW t \in Allocators, NEW size \in Nat, NEW ok \in {"yes", "no"},
                NEW where \in {"idle", "type"}, Begin(t, size, ok, where), UNCHANGED <<stats, mgr>>,
                lost' = IF where = "type" /\ ok = "no" THEN lost + 1 ELSE lost
         PROVE  CountInv'
    <2>1. /\ mgr' \in [total: Nat, peak: Nat, under: {"yes", "no"}]
          /\ mgr'.total >= mgr.total /\ mgr'.peak = mgr.peak
      BY <1>1, <1>10 DEF CountInv
    <2>2. where \in {"idle", "type", "mpeak"} /\ (where = "mpeak" => ok = "yes")
      OBVIOUS
    <2> QED
      BY <1>1, <1>10, <2>1, <2>2, CountBegin
  <1>11. ASSUME NEW t \in Allocators, NEW size \in Sizes,
                \/ AllocLarge(t, size) \/ AllocSlab(t, size) \/ AllocArena(t, size)
                \/ AllocNuma(t, size) \/ \E a \in Alignments : AllocAligned(t, size, a)
         PROVE  CountInv'
    <2>1. size \in Nat /\ 0 \in Nat
      BY DEF VmMemoryBounds
    <2>2. CASE AllocLarge(t, size)
      BY <1>10, <2>1, <2>2 DEF AllocLarge
    <2>3. CASE AllocSlab(t, size)
      BY <1>10, <2>1, <2>3 DEF AllocSlab
    <2>4. CASE AllocArena(t, size)
      BY <1>10, <2>1, <2>4 DEF AllocArena
    <2>5. CASE AllocNuma(t, size)
      BY <1>10, <2>1, <2>5 DEF AllocNuma
    <2>6. CASE \E a \in Alignments : AllocAligned(t, size, a)
      BY <1>10, <2>1, <2>6 DEF AllocAligned
    <2> QED
      BY <1>11, <2>2, <2>3, <2>4, <2>5, <2>6
  <1>12. ASSUME NEW t \in Allocators, NEW size \in Sizes, ManagerAlloc(t, size) PROVE CountInv'
    <2>1. size \in Nat
      BY DEF VmMemoryBounds
    <2>2. /\ Begin(t, size, "yes", "mpeak") /\ mgr' = [mgr EXCEPT !.total = @ + size]
          /\ UNCHANGED <<stats, lost>>
      BY <1>12 DEF ManagerAlloc
    <2>3. /\ mgr' \in [total: Nat, peak: Nat, under: {"yes", "no"}]
          /\ mgr'.total >= mgr.total /\ mgr'.peak = mgr.peak
      BY <1>1, <2>1, <2>2 DEF CountInv
    <2> QED
      BY <1>1, <2>1, <2>2, <2>3, CountBegin
  <1> QED
    BY <1>3, <1>4, <1>5, <1>6, <1>7, <1>8, <1>9, <1>11, <1>12 DEF MemoryNext

\* The bytes of a set of objects.
Bytes(S) == UNION {{o} \X (1..o.size) : o \in S}

\* An object adds its size to the bytes of the others.
LEMMA BytesAdded ==
    ASSUME NEW S, NEW o, o.size \in Nat, o \notin S, IsFiniteSet(Bytes(S))
    PROVE  /\ IsFiniteSet(Bytes(S \cup {o}))
           /\ Cardinality(Bytes(S \cup {o})) = Cardinality(Bytes(S)) + o.size
  <1> DEFINE own == {o} \X (1..o.size)
  <1>1. IsFiniteSet(1..o.size) /\ Cardinality(1..o.size) = o.size
    BY FS_Interval
  <1>2. IsFiniteSet({o}) /\ Cardinality({o}) = 1
    BY FS_Singleton
  <1>3. IsFiniteSet(own) /\ Cardinality(own) = o.size
    <2>1. Cardinality(own) = Cardinality({o}) * Cardinality(1..o.size) /\ IsFiniteSet(own)
      BY <1>1, <1>2, FS_Product
    <2> QED
      BY <1>1, <1>2, <2>1
  <1>4. Bytes(S \cup {o}) = Bytes(S) \cup own
    BY DEF Bytes
  <1>5. Bytes(S) \cap own = {}
    BY DEF Bytes
  <1> HIDE DEF own
  <1>6. /\ IsFiniteSet(Bytes(S) \cup own)
        /\ Cardinality(Bytes(S) \cup own)
             = Cardinality(Bytes(S)) + Cardinality(own) - Cardinality(Bytes(S) \cap own)
    BY <1>3, FS_Union
  <1>7. Cardinality(Bytes(S) \cap own) = 0 /\ Cardinality(Bytes(S)) \in Nat
    BY <1>5, FS_EmptySet, FS_CardinalityType
  <1>8. Cardinality(Bytes(S) \cup own) = Cardinality(Bytes(S)) + Cardinality(own)
    <2>1. Cardinality(own) \in Nat
      BY <1>3, FS_CardinalityType
    <2> QED
      BY ONLY <1>6, <1>7, <2>1
  <1> QED
    BY ONLY <1>3, <1>4, <1>6, <1>8

\* An object takes its size away from the bytes.
LEMMA BytesRemoved ==
    ASSUME NEW S, NEW o \in S, o.size \in Nat, IsFiniteSet(Bytes(S))
    PROVE  /\ IsFiniteSet(Bytes(S \ {o}))
           /\ Cardinality(Bytes(S \ {o})) = Cardinality(Bytes(S)) - o.size
  <1>1. Bytes(S \ {o}) \in SUBSET Bytes(S)
    BY DEF Bytes
  <1>2. IsFiniteSet(Bytes(S \ {o}))
    BY <1>1, FS_Subset
  <1>3. (S \ {o}) \cup {o} = S /\ o \notin S \ {o}
    OBVIOUS
  <1>4. Cardinality(Bytes((S \ {o}) \cup {o})) = Cardinality(Bytes(S \ {o})) + o.size
    BY <1>2, <1>3, BytesAdded
  <1>5. Cardinality(Bytes(S \ {o})) \in Nat
    BY <1>2, FS_CardinalityType
  <1>6. Cardinality(Bytes(S)) = Cardinality(Bytes(S \ {o})) + o.size
    BY <1>3, <1>4
  <1>7. \A a, b, c \in Nat : a = b + c => b = a - c
    OBVIOUS
  <1>8. Cardinality(Bytes(S)) \in Nat
    BY FS_CardinalityType
  <1> QED
    BY <1>2, <1>5, <1>6, <1>7, <1>8

\* A tracked object gets an id that no other has.
LEMMA TrackAdd ==
    ASSUME TrackInv, NEW size \in Nat, allocs' = allocs + 1,
           objects' = objects \cup {[id |-> allocs, size |-> size]},
           counts' = [n |-> counts.n + 1, bytes |-> counts.bytes + size]
    PROVE  TrackInv'
  <1> DEFINE o == [id |-> allocs, size |-> size]
  <1>1. o \in [id: Nat, size: Nat] /\ o.size = size /\ o.id = allocs /\ o \notin objects
    BY DEF TrackInv
  <1>2. TrackedBytes = Bytes(objects) /\ TrackedBytes' = Bytes(objects \cup {o})
    BY DEF TrackedBytes, Bytes
  <1> HIDE DEF o
  <1>3. /\ IsFiniteSet(Bytes(objects \cup {o}))
        /\ Cardinality(Bytes(objects \cup {o})) = Cardinality(Bytes(objects)) + size
    BY <1>1, <1>2, BytesAdded DEF TrackInv
  <1>4. /\ IsFiniteSet(objects \cup {o}) /\ Cardinality(objects \cup {o}) = Cardinality(objects) + 1
    BY <1>1, FS_AddElement DEF TrackInv
  <1>5. counts' = [n |-> Cardinality(objects) + 1, bytes |-> Cardinality(Bytes(objects)) + size]
    BY <1>2 DEF TrackInv
  <1>6. objects' = objects \cup {o}
    BY DEF o
  <1>7. /\ allocs' \in Nat /\ objects' \subseteq [id: Nat, size: Nat]
        /\ \A p \in objects' : p.id < allocs'
    BY <1>1, <1>6 DEF TrackInv
  <1> QED
    BY <1>2, <1>3, <1>4, <1>5, <1>6, <1>7 DEF TrackInv

\* Every step keeps the large objects counted.
LEMMA TrackStep ==
    ASSUME VmMemoryBounds, MemoryInv, [MemoryNext]_memoryVars PROVE TrackInv'
  <1> USE DEF context, memory, large
  <1>1. TrackInv
    BY DEF MemoryInv
  <1>2. ASSUME UNCHANGED <<objects, counts>>, allocs' \in {allocs, allocs + 1} PROVE TrackInv'
    BY <1>1, <1>2 DEF TrackInv, TrackedBytes
  <1>3. CASE UNCHANGED memoryVars
    BY <1>2, <1>3 DEF memoryVars
  <1>4. CASE Integrate \/ Detach
    <2>1. objects' = {} /\ counts' = [n |-> 0, bytes |-> 0] /\ UNCHANGED allocs
      BY <1>4 DEF Integrate, Detach, Fresh
    <2>2. TrackedBytes' = {}
      BY <2>1 DEF TrackedBytes
    <2> QED
      BY <1>1, <2>1, <2>2, FS_EmptySet DEF TrackInv
  <1>5. CASE IntegrateFails \/ CheckPressure \/ Track
    BY <1>2, <1>5 DEF IntegrateFails, CheckPressure, Track
  <1>6. ASSUME NEW o \in objects, LargeFree(o) PROVE TrackInv'
    <2>1. /\ objects' = objects \ {o} /\ UNCHANGED allocs
          /\ counts' = [n |-> counts.n - 1, bytes |-> counts.bytes - o.size]
      BY <1>6 DEF LargeFree, CountsAfterFree
    <2>2. o.size \in Nat /\ TrackedBytes = Bytes(objects) /\ TrackedBytes' = Bytes(objects \ {o})
      BY <1>1, <2>1 DEF TrackInv, TrackedBytes, Bytes
    <2>3. /\ IsFiniteSet(Bytes(objects \ {o}))
          /\ Cardinality(Bytes(objects \ {o})) = Cardinality(Bytes(objects)) - o.size
      BY <1>1, <2>2, BytesRemoved DEF TrackInv
    <2>4. IsFiniteSet(objects \ {o}) /\ Cardinality(objects \ {o}) = Cardinality(objects) - 1
      BY <1>1, FS_RemoveElement DEF TrackInv
    <2>5. counts' = [n |-> Cardinality(objects) - 1, bytes |-> Cardinality(Bytes(objects)) - o.size]
      BY <1>1, <2>1, <2>2 DEF TrackInv
    <2> QED
      BY <1>1, <2>1, <2>2, <2>3, <2>4, <2>5 DEF TrackInv
  <1>7. ASSUME NEW t \in Allocators,
               \/ CountType(t) \/ CountTotal(t) \/ ReadPeak(t) \/ StorePeak(t)
               \/ ManagerReadPeak(t) \/ ManagerStorePeak(t) \/ ManagerPressure(t)
        PROVE  TrackInv'
    BY <1>2, <1>7 DEF CountType, CountTotal, ReadPeak, StorePeak, ManagerReadPeak,
                      ManagerStorePeak, ManagerPressure
  <1>8. ASSUME NEW t \in Allocators, NEW size \in Sizes,
               \/ AllocSlab(t, size) \/ AllocArena(t, size) \/ Crash(t, size)
               \/ AllocNuma(t, size) \/ ManagerAlloc(t, size)
               \/ \E a \in Alignments : AllocAligned(t, size, a)
        PROVE  TrackInv'
    BY <1>2, <1>8 DEF AllocSlab, AllocArena, Crash, AllocNuma, ManagerAlloc, AllocAligned, Begin
  <1>9. ASSUME NEW t \in Allocators, NEW size \in Sizes, AllocLarge(t, size) PROVE TrackInv'
    <2>1. size \in Nat /\ allocs' = allocs + 1
      BY <1>9 DEF VmMemoryBounds, AllocLarge, Begin
    <2>2. \/ /\ objects' = objects \cup {[id |-> allocs, size |-> size]}
             /\ counts' = [n |-> counts.n + 1, bytes |-> counts.bytes + size]
          \/ UNCHANGED <<objects, counts>>
      BY <1>9 DEF AllocLarge, LargeAlloc, LargeBad
    <2> QED
      BY <1>1, <1>2, <2>1, <2>2, TrackAdd
  <1> QED
    BY <1>3, <1>4, <1>5, <1>6, <1>7, <1>8, <1>9 DEF MemoryNext

\* What is alive of each context is all or nothing.
PiecesWhole == \A c \in 1..contexts : {p \in Pieces : <<c, p>> \in pieces} \in {{}, Wanted}

\* The contexts come and go as wholes.
LEMMA WholeStep ==
    ASSUME MemoryInv, [MemoryNext]_memoryVars
    PROVE  contexts' \in Nat /\ pieces' \subseteq (1..contexts') \X Pieces /\ PiecesWhole'
  <1> USE DEF context, memory, large
  <1>1. contexts \in Nat /\ pieces \subseteq (1..contexts) \X Pieces /\ PiecesWhole
    BY DEF MemoryInv, PieceInv, PressureAndPieces, PiecesWhole
  <1>2. Wanted \subseteq Pieces /\ Pieces' = Pieces
    BY DEF Wanted, Pieces, Managers, Arenas
  <1>3. ASSUME UNCHANGED <<contexts, pieces, config>>
        PROVE  contexts' \in Nat /\ pieces' \subseteq (1..contexts') \X Pieces /\ PiecesWhole'
    BY <1>1, <1>2, <1>3 DEF PiecesWhole, Wanted
  <1>4. CASE IntegrateFails
    <2>1. contexts' = contexts + 1 /\ UNCHANGED <<pieces, config>>
      BY <1>4 DEF IntegrateFails
    <2>2. Wanted' = Wanted
      BY <2>1 DEF Wanted, Pieces
    <2>3. ASSUME NEW c \in 1..(contexts + 1)
          PROVE  {p \in Pieces : <<c, p>> \in pieces} \in {{}, Wanted}
      <3>1. CASE c \in 1..contexts
        BY <1>1, <3>1 DEF PiecesWhole
      <3>2. CASE c \notin 1..contexts
        BY <1>1, <3>2
      <3> QED
        BY <3>1, <3>2
    <2>4. pieces \subseteq (1..(contexts + 1)) \X Pieces /\ contexts + 1 \in Nat
      BY <1>1
    <2> QED
      BY <1>2, <2>1, <2>2, <2>3, <2>4 DEF PiecesWhole
  <1>5. CASE Integrate
    <2>1. /\ contexts' = contexts + 1 /\ UNCHANGED config
          /\ pieces' = pieces \cup {<<contexts + 1, p>> : p \in Wanted}
      BY <1>5 DEF Integrate
    <2>2. Wanted' = Wanted
      BY <2>1 DEF Wanted, Pieces
    <2>3. ASSUME NEW c \in 1..(contexts + 1)
          PROVE  {p \in Pieces : <<c, p>> \in pieces'} \in {{}, Wanted}
      <3>1. CASE c \in 1..contexts
        <4>1. c # contexts + 1
          BY <1>1, <3>1
        <4>2. {p \in Pieces : <<c, p>> \in pieces'} = {p \in Pieces : <<c, p>> \in pieces}
          BY <2>1, <4>1
        <4> QED
          BY <1>1, <3>1, <4>2 DEF PiecesWhole
      <3>2. CASE c \notin 1..contexts
        <4>1. c = contexts + 1
          BY <1>1, <3>2
        <4>2. {p \in Pieces : <<c, p>> \in pieces'} = Wanted
          BY <1>1, <1>2, <2>1, <3>2, <4>1
        <4> QED
          BY <4>2
      <3> QED
        BY <3>1, <3>2
    <2>4. pieces' \subseteq (1..(contexts + 1)) \X Pieces /\ contexts + 1 \in Nat
      BY <1>1, <1>2, <2>1
    <2> QED
      BY <1>2, <2>1, <2>2, <2>3, <2>4 DEF PiecesWhole
  <1>6. CASE Detach
    <2>1. UNCHANGED <<contexts, config>> /\ pieces' = pieces \ {<<contexts, p>> : p \in Pieces}
      BY <1>6 DEF Detach, Destroyed
    <2>2. Wanted' = Wanted
      BY <2>1 DEF Wanted, Pieces
    <2>3. ASSUME NEW c \in 1..contexts
          PROVE  {p \in Pieces : <<c, p>> \in pieces'} \in {{}, Wanted}
      <3>1. CASE c = contexts
        <4>1. {p \in Pieces : <<c, p>> \in pieces'} = {}
          BY <2>1, <3>1
        <4> QED
          BY <4>1
      <3>2. CASE c # contexts
        <4>1. {p \in Pieces : <<c, p>> \in pieces'} = {p \in Pieces : <<c, p>> \in pieces}
          BY <2>1, <3>2
        <4> QED
          BY <1>1, <4>1 DEF PiecesWhole
      <3> QED
        BY <3>1, <3>2
    <2> QED
      BY <1>1, <1>2, <2>1, <2>2, <2>3 DEF PiecesWhole
  <1>7. CASE Track \/ CheckPressure \/ \E o \in objects : LargeFree(o)
    BY <1>3, <1>7 DEF Track, CheckPressure, LargeFree
  <1>9. ASSUME NEW t \in Allocators,
               \/ CountType(t) \/ CountTotal(t) \/ ReadPeak(t) \/ StorePeak(t)
               \/ ManagerReadPeak(t) \/ ManagerStorePeak(t) \/ ManagerPressure(t)
        PROVE  UNCHANGED <<contexts, pieces, config>>
    BY <1>9 DEF CountType, CountTotal, ReadPeak, StorePeak, ManagerReadPeak, ManagerStorePeak,
                ManagerPressure
  <1>10. ASSUME NEW t \in Allocators, NEW size \in Sizes,
                \/ AllocLarge(t, size) \/ AllocSlab(t, size) \/ AllocArena(t, size)
                \/ Crash(t, size) \/ AllocNuma(t, size) \/ ManagerAlloc(t, size)
                \/ \E a \in Alignments : AllocAligned(t, size, a)
         PROVE  UNCHANGED <<contexts, pieces, config>>
    BY <1>10 DEF AllocLarge, AllocSlab, AllocArena, Crash, AllocNuma, ManagerAlloc, AllocAligned
  <1>8. CASE UNCHANGED memoryVars
    BY <1>3, <1>8 DEF memoryVars
  <1> QED
    BY <1>3, <1>4, <1>5, <1>6, <1>7, <1>8, <1>9, <1>10 DEF MemoryNext

\* The callback was called once for the pressure there is.
PressureTold ==
    /\ called = (IF under = "yes" THEN 1 ELSE 0) /\ under \in {"yes", "no"}
    /\ under = "yes" => stats.usage > Threshold

\* The usage of a context only grows.
LEMMA PressureStep ==
    ASSUME VmMemoryBounds, MemoryInv, [MemoryNext]_memoryVars PROVE PressureTold'
  <1> USE DEF context, memory, large
  <1>1. PressureTold /\ stats.usage \in Nat /\ Threshold \in Nat
        /\ stats \in [typed: Nat, total: Nat, usage: Nat, peak: Nat]
    BY DEF MemoryInv, PieceInv, PressureAndPieces, PressureTold, CountInv, VmMemoryBounds
  <1>2. ASSUME UNCHANGED <<under, called>>, stats'.usage \in Nat, stats'.usage >= stats.usage
        PROVE  PressureTold'
    BY <1>1, <1>2 DEF PressureTold
  <1>3. CASE Integrate \/ Detach
    BY <1>3 DEF Integrate, Detach, Fresh, PressureTold
  <1>4. CASE CheckPressure
    BY <1>1, <1>4 DEF CheckPressure, Called, PressureTold
  <1>5. ASSUME NEW t \in Allocators, CountTotal(t) PROVE PressureTold'
    <2>1. stats' = [stats EXCEPT !.total = @ + 1, !.usage = @ + now[t].size]
          /\ UNCHANGED <<under, called>> /\ now[t].size \in Nat
      BY <1>5 DEF CountTotal, MemoryInv, CountInv
    <2>2. stats'.usage = stats.usage + now[t].size
      BY <1>1, <2>1
    <2>3. stats.usage + now[t].size \in Nat /\ stats.usage + now[t].size >= stats.usage
      BY <1>1, <2>1
    <2> QED
      BY <1>2, <2>1, <2>2, <2>3
  <1>6. ASSUME NEW t \in Allocators, CountType(t) \/ StorePeak(t) PROVE PressureTold'
    <2>1. UNCHANGED <<under, called>>
      BY <1>6 DEF CountType, StorePeak
    <2>2. \/ stats' = [stats EXCEPT !.typed = @ + 1]
          \/ \E usage \in {now[t].seen, stats.usage} : stats' = [stats EXCEPT !.peak = usage]
      BY <1>6 DEF CountType, StorePeak
    <2>3. stats'.usage = stats.usage
      BY <1>1, <2>2
    <2> QED
      BY <1>1, <1>2, <2>1, <2>3
  <1>7. CASE Track
    <2>1. stats' = [stats EXCEPT !.total = @ + 1] /\ UNCHANGED <<under, called>>
      BY <1>7 DEF Track
    <2> QED
      BY <1>1, <1>2, <2>1
  <1>8. CASE MemoryNext /\ UNCHANGED <<under, called, stats>>
    BY <1>1, <1>2, <1>8
  <1>9. CASE UNCHANGED memoryVars
    BY <1>1, <1>2, <1>9 DEF memoryVars
  <1>10. MemoryNext => \/ Integrate \/ Detach \/ CheckPressure \/ Track
                       \/ \E t \in Allocators : CountTotal(t) \/ CountType(t) \/ StorePeak(t)
                       \/ UNCHANGED <<under, called, stats>>
    BY DEF MemoryNext, IntegrateFails, LargeFree, ReadPeak, ManagerReadPeak, ManagerStorePeak,
           ManagerPressure, AllocLarge, AllocSlab, AllocArena, Crash, AllocNuma, ManagerAlloc,
           AllocAligned
  <1> QED
    BY <1>3, <1>4, <1>5, <1>6, <1>7, <1>8, <1>9, <1>10

\* Nothing is allocated at the start.
LEMMA MemoryInitInv == ASSUME VmMemoryBounds, MemoryInit PROVE MemoryInv
  <1>1. ArenaInv /\ RegionsDisjoint
    BY DEF MemoryInit, ArenaInv, RegionsDisjoint, VmMemoryBounds
  <1>2. WillFail = {} /\ HalfCounted = {} /\ TrackedBytes = {}
    BY DEF MemoryInit, WillFail, HalfCounted, TrackedBytes
  <1>3. Cardinality({}) = 0 /\ IsFiniteSet({})
    BY FS_EmptySet
  <1>4. step \in [Allocators -> Steps]
        /\ now \in [Allocators -> [size: Nat, ok: {"yes", "no"}, seen: Nat]]
    BY DEF MemoryInit, Steps, NoCall
  <1>5. CountInv
    BY <1>2, <1>3, <1>4 DEF MemoryInit, CountInv
  <1>6. TrackInv
    BY <1>2, <1>3 DEF MemoryInit, TrackInv
  <1>7. PieceInv /\ PressureAndPieces
    BY DEF MemoryInit, PieceInv, PressureAndPieces
  <1> QED
    BY <1>1, <1>5, <1>6, <1>7 DEF MemoryInv

\* The invariant of the memory context is inductive.
THEOREM MemoryInvariance == MemorySpec => []MemoryInv
  <1>1. ASSUME MemoryInv, [MemoryNext]_memoryVars PROVE MemoryInv'
    <2>1. ArenaInv' /\ RegionsDisjoint'
      BY <1>1, VmMemoryBounds, ArenaStep
    <2>2. CountInv' /\ TrackInv'
      BY <1>1, VmMemoryBounds, CountStep, TrackStep
    <2>3. PieceInv' /\ PressureAndPieces'
      <3>1. PressureTold' /\ contexts' \in Nat /\ pieces' \subseteq (1..contexts') \X Pieces
            /\ PiecesWhole'
        BY <1>1, VmMemoryBounds, WholeStep, PressureStep
      <3> QED
        BY <3>1 DEF PieceInv, PressureAndPieces, PressureTold, PiecesWhole, Pieces
    <2> QED
      BY <2>1, <2>2, <2>3 DEF MemoryInv
  <1> QED
    BY <1>1, MemoryInitInv, VmMemoryBounds, PTL DEF MemorySpec

\* No two allocations from the arenas share a byte, and each lies at its alignment
\* within its block, for any number of threads and contexts and any sizes.
THEOREM RegionsDisjointHolds == MemorySpec => []RegionsDisjoint
  <1>1. MemoryInv => RegionsDisjoint
    BY DEF MemoryInv
  <1> QED
    BY <1>1, MemoryInvariance, PTL

\* The statistics agree whenever no allocation is under way, however the steps of the
\* allocations of several threads interleave; the peaks never pass the usage, and the
\* counters of the large objects are their number and their bytes.
THEOREM StatisticsAgreeHolds == MemorySpec => []StatisticsAgree
  <1>1. ASSUME MemoryInv PROVE StatisticsAgree
    <2>1. CountInv /\ TrackInv
      BY <1>1 DEF MemoryInv
    <2>2. ASSUME Quiet, lost = 0 PROVE Validates
      <3>1. WillFail = {} /\ HalfCounted = {}
        BY <2>2 DEF Quiet, WillFail, HalfCounted
      <3>2. Cardinality(WillFail) = 0 /\ Cardinality(HalfCounted) = 0
        BY <3>1, FS_EmptySet
      <3> QED
        BY <2>1, <2>2, <3>2 DEF CountInv, Validates
    <2> QED
      BY <2>1, <2>2 DEF StatisticsAgree, CountInv, TrackInv
  <1> QED
    BY <1>1, MemoryInvariance, PTL

\* The VM is told of memory pressure once, and only above the threshold; a context is
\* there as a whole or not at all.
THEOREM PressureAndPiecesHolds == MemorySpec => []PressureAndPieces
  <1>1. MemoryInv => PressureAndPieces
    BY DEF MemoryInv
  <1> QED
    BY <1>1, MemoryInvariance, PTL
=============================================================================
