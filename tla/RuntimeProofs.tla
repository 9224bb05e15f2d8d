-------------------------- MODULE RuntimeProofs --------------------------
(***************************************************************************)
(* Proofs about parts of the runtime: the hash table of maps and sets, for *)
(* any number of keys, any hash function and tables of any capacity; the   *)
(* mount array of the virtual file system, for any mount points, paths and *)
(* sizes of the array; the counters of the testing framework, for any      *)
(* number of suites and tests; and how code is found and loaded: the lists *)
(* of the module system, for any number of loads and modules, the VMs of   *)
(* packages, for any number of packages, and the order of versions.        *)
(***************************************************************************)
EXTENDS Collections, Vfs, TestRunner, MCLoading, SequenceTheorems, FiniteSetTheorems, TLAPS

-----------------------------------------------------------------------------
(* Numbers.                                                                *)

\* Induction up to a number, for a set: with n outside of I, adding 1 would be an
\* injection of the finite set I into itself that misses 0.
LEMMA ReachesEnd ==
    ASSUME NEW n \in Nat, NEW I \in SUBSET (0..n), 0 \in I,
           \A k \in I : k < n => k + 1 \in I
    PROVE  n \in I
<1> SUFFICES ASSUME n \notin I PROVE FALSE
  OBVIOUS
<1> DEFINE f == [k \in I |-> k + 1]
<1>1. \A k \in I : k \in Nat /\ k < n
  OBVIOUS
<1>2. f \in Injection(I, I)
  <2>1. f \in [I -> I]
    BY <1>1
  <2>2. \A a, b \in I : f[a] = f[b] => a = b
    BY <1>1
  <2> QED
    BY <2>1, <2>2 DEF Injection, IsInjective
<1>3. IsFiniteSet(I)
  <2>1. IsFiniteSet(0..n)
    BY FS_Interval
  <2> QED
    BY <2>1, FS_Subset
<1>4. f \in Surjection(I, I)
  BY <1>2, <1>3, FS_Injection
<1>5. PICK k \in I : f[k] = 0
  BY <1>4 DEF Surjection
<1> QED
  BY <1>1, <1>5

\* A set of natural numbers that is not empty has a smallest one.
LEMMA Smallest ==
    ASSUME NEW S \in SUBSET Nat, S # {}
    PROVE  \E m \in S : \A k \in S : m <= k
<1> SUFFICES ASSUME \A m \in S : \E k \in S : k < m PROVE FALSE
  OBVIOUS
<1>1. PICK s \in S : TRUE
  OBVIOUS
<1> DEFINE I == {n \in 0..s : \A k \in 0..n : k \notin S}
<1>2. 0 \in I
  OBVIOUS
<1>3. ASSUME NEW n \in I, n < s PROVE n + 1 \in I
  <2>1. \A k \in 0..n : k \notin S
    OBVIOUS
  <2>2. n + 1 \notin S
    BY <2>1
  <2> QED
    BY <1>3, <2>1, <2>2
<1>4. I \in SUBSET (0..s) /\ s \in Nat
  BY <1>1
<1> HIDE DEF I
<1>5. s \in I
  BY <1>2, <1>3, <1>4, ReachesEnd
<1> QED
  BY <1>1, <1>5 DEF I

LEMMA MinIs ==
    ASSUME NEW S \in SUBSET Nat, NEW m \in S, \A k \in S : m <= k
    PROVE  Min(S) = m
<1>1. \A x \in S : (\A k \in S : x <= k) => x = m
  <2> SUFFICES ASSUME NEW x \in S, \A k \in S : x <= k PROVE x = m
    OBVIOUS
  <2>1. x <= m /\ m <= x /\ x \in Nat /\ m \in Nat
    OBVIOUS
  <2> QED
    BY <2>1
<1> QED
  BY <1>1 DEF Min

\* What is computed step by step from a start exists as a function.
Computed(f, n, T, a, s) ==
    f \in [0..n -> T] /\ f[0] = a /\ \A m \in 1..n : f[m] = s[<<m, f[m - 1]>>]

LEMMA Recursion ==
    ASSUME NEW c \in Nat, NEW T, NEW a \in T, NEW s \in [(1..c) \X T -> T]
    PROVE  \E f : Computed(f, c, T, a, s)
<1> DEFINE Upto(n, f) == Computed(f, n, T, a, s)
           I == {n \in 0..c : \E f : Upto(n, f)}
<1> USE DEF Computed
<1>1. 0 \in I
  <2>1. Upto(0, [m \in 0..0 |-> a])
    OBVIOUS
  <2> HIDE DEF Computed
  <2>2. \E f : Upto(0, f)
    BY <2>1
  <2> QED
    BY <2>2
<1>2. ASSUME NEW n \in I, n < c PROVE n + 1 \in I
  <2>1. PICK f : Upto(n, f)
    OBVIOUS
  <2>2. n \in Nat /\ f[n] \in T /\ n + 1 \in 1..c
    BY <1>2, <2>1
  <2> DEFINE g == [m \in 0..(n + 1) |-> IF m = n + 1 THEN s[<<n + 1, f[n]>>] ELSE f[m]]
  <2>3. s[<<n + 1, f[n]>>] \in T
    BY <2>2
  <2>4. g \in [0..(n + 1) -> T] /\ g[0] = a
    BY <2>1, <2>2, <2>3
  <2>5. ASSUME NEW m \in 1..(n + 1) PROVE g[m] = s[<<m, g[m - 1]>>]
    <3>1. CASE m = n + 1
      <4>1. m - 1 = n /\ n # n + 1 /\ n \in 0..(n + 1) /\ n + 1 \in 0..(n + 1)
        BY <2>2, <3>1
      <4>2. g[m] = s[<<m, f[n]>>] /\ g[m - 1] = f[n]
        BY <3>1, <4>1
      <4> QED
        BY <4>2
    <3>2. CASE m # n + 1
      <4>1. m \in 1..n /\ m - 1 \in 0..n
        BY <2>2, <3>2
      <4> QED
        BY <2>1, <2>2, <4>1
    <3> QED
      BY <3>1, <3>2
  <2>6. Upto(n + 1, g)
    BY <2>4, <2>5
  <2> HIDE DEF Computed, g
  <2>7. \E h : Upto(n + 1, h)
    BY <2>6
  <2> QED
    BY <2>2, <2>7
<1>3. I \in SUBSET (0..c)
  OBVIOUS
<1> HIDE DEF I, Computed
<1>4. c \in I
  BY <1>1, <1>2, <1>3, ReachesEnd
<1> QED
  BY <1>4 DEF I

LEMMA DivMod ==
    ASSUME NEW c \in Int, c > 0, NEW i \in Int
    PROVE  i % c = i - c * (i \div c) /\ i \div c \in Int /\ i % c \in 0..(c - 1)
  BY Z3

\* The probe sequence: it goes up from the hash value and wraps around once.
LEMMA ProbeIs ==
    ASSUME NEW c \in Nat \ {0}, NEW h \in Nat, NEW n \in 0..(c - 1)
    PROVE  /\ h % c \in 0..(c - 1)
           /\ (h + n) % c = IF (h % c) + n < c THEN (h % c) + n ELSE (h % c) + n - c
<1> DEFINE r == h % c
           q == h \div c
           x == (h + n) % c
           y == (h + n) \div c
           w == IF r + n < c THEN r + n ELSE r + n - c
           z == IF r + n < c THEN q ELSE q + 1
<1>1. c \in Int /\ c > 0 /\ h \in Int /\ h + n \in Int
  OBVIOUS
<1>2. r = h - c * q /\ q \in Int /\ r \in 0..(c - 1)
  BY <1>1, DivMod
<1>3. x = h + n - c * y /\ y \in Int /\ x \in 0..(c - 1)
  BY <1>1, DivMod
<1> HIDE DEF r, q, x, y
<1>4. w \in 0..(c - 1) /\ z \in Int
  BY <1>2
<1>5. h + n = c * z + w
  <2>1. c * (q + 1) = c * q + c
    BY <1>1, <1>2
  <2> QED
    BY <1>1, <1>2, <2>1
<1> HIDE DEF w, z
<1> DEFINE d == z - y
<1>6. c * d = x - w /\ d \in Int
  <2>1. c * (z - y) = c * z - c * y
    BY <1>1, <1>3, <1>4
  <2> QED
    BY <1>1, <1>3, <1>4, <1>5, <2>1
<1> HIDE DEF d
<1>7. (d > 0 => c * d >= c) /\ (d < 0 => c * d <= -c)
  BY <1>1, <1>6
<1>8. d = 0
  BY <1>1, <1>3, <1>4, <1>6, <1>7
<1>9. x = w
  BY <1>1, <1>3, <1>4, <1>6, <1>8
<1> QED
  BY <1>2, <1>9 DEF r, x, w

-----------------------------------------------------------------------------
(* The hash table. FindEntry is the first hit of a probe.                  *)

Stored == [key : Keys, value : Keys \cup Values]
Tables(c) == [capacity : {c}, length : Nat, entries : [0..(c - 1) -> Stored \cup {Unoccupied}]]

Probe(t, k, n) == (hash[k] + n) % t.capacity
Hit(t, k, n) == t.entries[Probe(t, k, n)] = Unoccupied \/ t.entries[Probe(t, k, n)].key = k
FirstHit(t, k, n) == n \in Slots(t) /\ Hit(t, k, n) /\ \A m \in Slots(t) : Hit(t, k, m) => n <= m

LEMMA StoredIs ==
    /\ \A r \in Stored : r # Unoccupied
    /\ \A k \in Keys, v \in Keys \cup Values : [key |-> k, value |-> v] \in Stored
<1>1. ASSUME NEW r \in Stored PROVE r # Unoccupied
  <2>1. DOMAIN r = {"key", "value"}
    BY DEF Stored
  <2>2. DOMAIN Unoccupied = {}
    BY DEF Unoccupied
  <2> QED
    BY <2>1, <2>2
<1> QED
  BY <1>1 DEF Stored

LEMMA TableIs ==
    ASSUME NEW c \in Nat \ {0}, NEW t \in Tables(c)
    PROVE  /\ t.capacity = c /\ t.length \in Nat /\ Slots(t) = 0..(c - 1)
           /\ \A i \in 0..(c - 1) : t.entries[i] \in Stored \cup {Unoccupied}
           /\ \A i \in 0..(c - 1) : i \in Occupied(t) <=> t.entries[i] # Unoccupied
           /\ \A i \in Occupied(t) : i \in 0..(c - 1) /\ t.entries[i] \in Stored /\ t.entries[i].key \in Keys
           /\ Occupied(t) \in SUBSET (0..(c - 1))
BY DEF Tables, Slots, Occupied, Stored

LEMMA OccupiedFinite ==
    ASSUME NEW c \in Nat \ {0}, NEW t \in Tables(c)
    PROVE  IsFiniteSet(Occupied(t)) /\ Cardinality(Occupied(t)) \in Nat
<1>1. IsFiniteSet(0..(c - 1))
  BY FS_Interval
<1>2. Occupied(t) \in SUBSET (0..(c - 1))
  BY TableIs
<1> QED
  BY <1>1, <1>2, FS_Subset, FS_CardinalityType

LEMMA ProbeInSlots ==
    ASSUME hash \in [Keys -> Hashes], NEW c \in Nat \ {0}, NEW t \in Tables(c), NEW k \in Keys
    PROVE  /\ \A n \in 0..(c - 1) : Probe(t, k, n) \in 0..(c - 1)
           /\ \A i \in 0..(c - 1) : \E n \in 0..(c - 1) : Probe(t, k, n) = i
           /\ \A n \in 0..(c - 1) : n + 1 < c => Probe(t, k, n + 1) = (Probe(t, k, n) + 1) % c
<1> DEFINE h == hash[k]
<1>1. h \in Nat
  BY TableAssumption
<1> HIDE DEF h
<1>2. \A n : Probe(t, k, n) = (h + n) % c
  BY TableIs DEF Probe, h
<1>3. h % c \in 0..(c - 1)
  BY <1>1, ProbeIs
<1>4. \A n \in 0..(c - 1) : Probe(t, k, n) = IF (h % c) + n < c THEN (h % c) + n ELSE (h % c) + n - c
  BY <1>1, <1>2, ProbeIs
<1>5. \A n \in 0..(c - 1) : Probe(t, k, n) \in 0..(c - 1)
  BY <1>3, <1>4
<1>6. ASSUME NEW i \in 0..(c - 1) PROVE \E n \in 0..(c - 1) : Probe(t, k, n) = i
  <2> DEFINE r == h % c
             n == IF r <= i THEN i - r ELSE i - r + c
  <2>1. r \in 0..(c - 1)
    BY <1>3
  <2>2. Probe(t, k, n) = IF r + n < c THEN r + n ELSE r + n - c
    BY <1>4, <2>1
  <2> HIDE DEF r
  <2>3. n \in 0..(c - 1) /\ (IF r + n < c THEN r + n ELSE r + n - c) = i
    BY <2>1
  <2> HIDE DEF n
  <2> QED
    BY <2>2, <2>3
<1>7. ASSUME NEW n \in 0..(c - 1), n + 1 < c
      PROVE  Probe(t, k, n + 1) = (Probe(t, k, n) + 1) % c
  <2> DEFINE r == h % c
             p == Probe(t, k, n)
  <2>1. r \in 0..(c - 1) /\ p \in 0..(c - 1)
    BY <1>3, <1>5
  <2>2. p = (IF r + n < c THEN r + n ELSE r + n - c)
    BY <1>4
  <2>3. Probe(t, k, n + 1) = IF r + (n + 1) < c THEN r + (n + 1) ELSE r + (n + 1) - c
    BY <1>4, <1>7
  <2> HIDE DEF r, p
  <2>4. (p + 1) % c = IF (p % c) + 1 < c THEN (p % c) + 1 ELSE (p % c) + 1 - c
    <3>1. p \in Nat /\ 1 \in 0..(c - 1)
      BY <1>7, <2>1
    <3> QED
      BY <3>1, ProbeIs
  <2>5. p % c = p
    <3>1. 0 % c = 0 /\ p = 0 + p
      BY <2>1, DivMod
    <3> QED
      BY <2>1
  <2> QED
    BY <1>7, <2>1, <2>2, <2>3, <2>4, <2>5 DEF p
<1> QED
  BY <1>5, <1>6, <1>7

LEMMA FindEntryIs ==
    ASSUME NEW t, NEW k
    PROVE  LET hits == {n \in Slots(t) : Hit(t, k, n)}
           IN  FindEntry(t, k) = IF hits = {} THEN NONE ELSE Probe(t, k, Min(hits))
BY DEF FindEntry, Hit, Probe

LEMMA FindFirst ==
    ASSUME NEW c \in Nat \ {0}, NEW t \in Tables(c), NEW k, NEW n, FirstHit(t, k, n)
    PROVE  FindEntry(t, k) = Probe(t, k, n)
<1> DEFINE hits == {m \in Slots(t) : Hit(t, k, m)}
<1>1. hits \in SUBSET Nat /\ n \in hits /\ \A m \in hits : n <= m
  BY TableIs DEF FirstHit
<1>2. FindEntry(t, k) = IF hits = {} THEN NONE ELSE Probe(t, k, Min(hits))
  BY FindEntryIs
<1> HIDE DEF hits
<1>3. Min(hits) = n
  BY <1>1, MinIs
<1> QED
  BY <1>1, <1>2, <1>3

\* A probe of a table that is not full ends.
LEMMA EntryFound ==
    ASSUME hash \in [Keys -> Hashes], NEW c \in Nat \ {0}, NEW t \in Tables(c), NEW k \in Keys,
           Occupied(t) # 0..(c - 1)
    PROVE  /\ \E n \in 0..(c - 1) : FirstHit(t, k, n) /\ FindEntry(t, k) = Probe(t, k, n)
           /\ FindEntry(t, k) \in 0..(c - 1) /\ FindEntry(t, k) # NONE
           /\ t.entries[FindEntry(t, k)] = Unoccupied \/ t.entries[FindEntry(t, k)].key = k
<1> DEFINE hits == {m \in Slots(t) : Hit(t, k, m)}
<1>1. PICK i \in 0..(c - 1) : t.entries[i] = Unoccupied
  BY TableIs
<1>2. PICK m \in 0..(c - 1) : Probe(t, k, m) = i
  BY ProbeInSlots
<1>3. m \in hits /\ hits \in SUBSET Nat
  BY <1>1, <1>2, TableIs DEF Hit
<1>4. PICK n \in hits : \A j \in hits : n <= j
  <2> HIDE DEF hits
  <2> QED
    BY <1>3, Smallest
<1>5. FirstHit(t, k, n) /\ n \in 0..(c - 1)
  BY <1>4, TableIs DEF FirstHit
<1>6. FindEntry(t, k) = Probe(t, k, n) /\ Probe(t, k, n) \in 0..(c - 1)
  BY <1>5, FindFirst, ProbeInSlots
<1>7. Hit(t, k, n)
  BY <1>5 DEF FirstHit
<1> QED
  BY <1>5, <1>6, <1>7 DEF NONE, Hit

\* What a store changes.
LEMMA StoreIs ==
    ASSUME hash \in [Keys -> Hashes], NEW c \in Nat \ {0}, NEW t \in Tables(c), NEW k \in Keys,
           NEW v \in Keys \cup Values, Occupied(t) # 0..(c - 1),
           NEW u, u = Store(t, k, v), NEW e, e = FindEntry(t, k)
    PROVE  /\ u \in Tables(c) /\ e \in 0..(c - 1) /\ u.entries[e] = [key |-> k, value |-> v]
           /\ \A i \in 0..(c - 1) : i # e => u.entries[i] = t.entries[i]
           /\ u.length = IF e \in Occupied(t) THEN t.length ELSE t.length + 1
<1> DEFINE x == [key |-> k, value |-> v]
           l == IF t.entries[e] = Unoccupied THEN t.length + 1 ELSE t.length
           t1 == [t EXCEPT !.entries[e] = x]
           t2 == [t1 EXCEPT !.length = l]
<1>1. e \in 0..(c - 1) /\ e # NONE /\ x \in Stored
  BY EntryFound, StoredIs
<1>2. u = t2
  BY <1>1 DEF Store
<1> HIDE DEF x
<1>3. l \in Nat
  BY DEF Tables
<1> HIDE DEF l
<1>4. t1 \in Tables(c) /\ t1.entries[e] = x /\ \A i \in 0..(c - 1) : i # e => t1.entries[i] = t.entries[i]
  BY <1>1 DEF Tables
<1> HIDE DEF t1
<1>5. t2 \in Tables(c) /\ t2.entries = t1.entries /\ t2.length = l
  BY <1>3, <1>4 DEF Tables
<1> HIDE DEF t2
<1>6. l = IF e \in Occupied(t) THEN t.length ELSE t.length + 1
  BY <1>1, TableIs DEF l
<1> QED
  BY <1>1, <1>2, <1>4, <1>5, <1>6 DEF x

\* The key of every entry leads to it.
Reached(t) == \A i \in Occupied(t) : FindEntry(t, t.entries[i].key) = i
Counted(t) == t.length = Cardinality(Occupied(t))

LEMMA StoreKeeps ==
    ASSUME hash \in [Keys -> Hashes], NEW c \in Nat \ {0}, NEW t \in Tables(c), NEW k \in Keys,
           NEW v \in Keys \cup Values, Occupied(t) # 0..(c - 1), Counted(t),
           NEW u, u = Store(t, k, v), NEW e, e = FindEntry(t, k)
    PROVE  /\ Occupied(u) = Occupied(t) \cup {e} /\ Counted(u)
           /\ Reached(t) => Reached(u)
<1>1. /\ u \in Tables(c) /\ e \in 0..(c - 1) /\ u.entries[e] = [key |-> k, value |-> v]
      /\ \A i \in 0..(c - 1) : i # e => u.entries[i] = t.entries[i]
      /\ u.length = IF e \in Occupied(t) THEN t.length ELSE t.length + 1
  BY StoreIs
<1>2. u.entries[e] # Unoccupied /\ u.entries[e].key = k
  BY <1>1, StoredIs
<1>3. Occupied(u) = Occupied(t) \cup {e}
  BY <1>1, <1>2, TableIs
<1>4. Counted(u)
  <2>1. Cardinality(Occupied(t) \cup {e}) = IF e \in Occupied(t) THEN Cardinality(Occupied(t)) ELSE Cardinality(Occupied(t)) + 1
    BY OccupiedFinite, FS_AddElement
  <2> QED
    BY <1>1, <1>3, <2>1 DEF Counted
<1>5. ASSUME Reached(t), NEW i \in Occupied(u) PROVE FindEntry(u, u.entries[i].key) = i
  <2> DEFINE j == u.entries[i].key
  <2>1. i \in 0..(c - 1) /\ j \in Keys
    BY <1>1, TableIs
  <2>2. FindEntry(t, j) = i
    <3>1. CASE i = e
      BY <1>2, <3>1
    <3>2. CASE i # e
      BY <1>1, <1>3, <1>5, <2>1, <3>2 DEF Reached
    <3> QED
      BY <3>1, <3>2
  <2>3. PICK n \in 0..(c - 1) : FirstHit(t, j, n) /\ FindEntry(t, j) = Probe(t, j, n)
    BY <2>1, EntryFound
  <2>4. \A m : Probe(u, j, m) = Probe(t, j, m)
    BY <1>1, TableIs DEF Probe
  <2>5. Hit(u, j, n)
    BY <2>2, <2>3, <2>4 DEF Hit
  <2>6. ASSUME NEW m \in 0..(c - 1), m < n PROVE ~Hit(u, j, m)
    <3>1. ~Hit(t, j, m)
      BY <2>3, <2>6, TableIs DEF FirstHit
    <3>2. Probe(t, j, m) \in 0..(c - 1)
      BY <2>1, ProbeInSlots
    <3>3. CASE Probe(t, j, m) # e
      BY <1>1, <2>4, <3>1, <3>2, <3>3 DEF Hit
    <3>4. CASE Probe(t, j, m) = e
      <4>1. t.entries[e] # Unoccupied /\ t.entries[e].key # j
        BY <3>1, <3>4 DEF Hit
      <4>2. t.entries[e].key = k
        BY <4>1, EntryFound
      <4> QED
        BY <1>2, <2>4, <3>4, <4>1, <4>2 DEF Hit
    <3> QED
      BY <3>3, <3>4
  <2>7. FirstHit(u, j, n)
    BY <1>1, <2>3, <2>5, <2>6, TableIs DEF FirstHit
  <2>8. FindEntry(u, j) = Probe(u, j, n)
    BY <1>1, <2>1, <2>7, FindFirst
  <2> QED
    BY <2>2, <2>3, <2>4, <2>8
<1> QED
  BY <1>3, <1>4, <1>5 DEF Reached

-----------------------------------------------------------------------------
(* Growth.                                                                 *)

LEMMA StoreType ==
    ASSUME hash \in [Keys -> Hashes], NEW c \in Nat \ {0}, NEW t \in Tables(c), NEW k \in Keys,
           NEW v \in Keys \cup Values
    PROVE  Store(t, k, v) \in Tables(c)
<1> DEFINE hits == {m \in Slots(t) : Hit(t, k, m)}
           e == FindEntry(t, k)
<1>1. e = IF hits = {} THEN NONE ELSE Probe(t, k, Min(hits))
  BY FindEntryIs
<1>2. CASE hits = {}
  BY <1>1, <1>2 DEF Store
<1>3. CASE hits # {}
  <2>1. hits \in SUBSET Nat /\ hits \subseteq 0..(c - 1)
    BY TableIs
  <2> HIDE DEF hits
  <2>2. PICK n \in hits : \A j \in hits : n <= j
    BY <1>3, <2>1, Smallest
  <2>3. e = Probe(t, k, n) /\ n \in 0..(c - 1)
    BY <1>1, <1>3, <2>1, <2>2, MinIs
  <2>4. e \in 0..(c - 1)
    BY <2>3, ProbeInSlots
  <2> HIDE DEF e
  <2> DEFINE x == [key |-> k, value |-> v]
             l == IF t.entries[e] = Unoccupied THEN t.length + 1 ELSE t.length
             t1 == [t EXCEPT !.entries[e] = x]
             t2 == [t1 EXCEPT !.length = l]
  <2>5. x \in Stored /\ l \in Nat /\ e # NONE
    BY <2>4, StoredIs DEF Tables, NONE
  <2>6. Store(t, k, v) = t2
    BY <2>5 DEF Store, e
  <2> HIDE DEF x, l
  <2>7. t1 \in Tables(c)
    BY <2>4, <2>5 DEF Tables
  <2> HIDE DEF t1
  <2>8. t2 \in Tables(c)
    BY <2>5, <2>7 DEF Tables
  <2> QED
    BY <2>6, <2>8
<1> QED
  BY <1>2, <1>3

LEMMA NewTableIs ==
    ASSUME NEW c \in Nat \ {0}
    PROVE  /\ NewTable(c) \in Tables(c) /\ Occupied(NewTable(c)) = {}
           /\ NewTable(c).length = 0 /\ Counted(NewTable(c)) /\ Reached(NewTable(c))
<1>1. NewTable(c) \in Tables(c) /\ NewTable(c).length = 0
      /\ \A i \in 0..(c - 1) : NewTable(c).entries[i] = Unoccupied
  BY DEF NewTable, Tables
<1>2. Occupied(NewTable(c)) = {}
  BY <1>1, TableIs
<1> QED
  BY <1>1, <1>2, FS_EmptySet DEF Counted, Reached

\* A full table has as many entries as its capacity.
LEMMA NotFull ==
    ASSUME NEW c \in Nat \ {0}, NEW t \in Tables(c), Cardinality(Occupied(t)) < c
    PROVE  Occupied(t) # 0..(c - 1)
BY FS_Interval

\* One step of Rehash, and the equation of its recursion.
Step(t, n, m) ==
    IF t.entries[n - 1] = Unoccupied THEN m
    ELSE Store(m, t.entries[n - 1].key, t.entries[n - 1].value)

RehashEquation(t, f) ==
    f = [n \in 0..t.capacity |-> IF n = 0 THEN NewTable(2 * t.capacity) ELSE Step(t, n, f[n - 1])]

LEMMA RehashIs ==
    ASSUME hash \in [Keys -> Hashes], NEW c \in Nat \ {0}, NEW t \in Tables(c)
    PROVE  \E f \in [0..c -> Tables(2 * c)] :
              /\ f[0] = NewTable(2 * c) /\ \A n \in 1..c : f[n] = Step(t, n, f[n - 1])
              /\ Rehash(t) = f[c]
<1> DEFINE T == Tables(2 * c)
           s == [p \in (1..c) \X T |-> Step(t, p[1], p[2])]
           F == CHOOSE f : RehashEquation(t, f)
<1>1. Rehash(t) = F[t.capacity] /\ t.capacity = c
  BY TableIs DEF Rehash, RehashEquation, Step
<1>2. 2 * c \in Nat \ {0}
  OBVIOUS
<1>3. NewTable(2 * c) \in T
  BY <1>2, NewTableIs
<1>4. ASSUME NEW n \in 1..c, NEW m \in T PROVE Step(t, n, m) \in T
  <2>1. CASE t.entries[n - 1] = Unoccupied
    BY <2>1 DEF Step
  <2>2. CASE t.entries[n - 1] # Unoccupied
    <3>1. n - 1 \in 0..(c - 1)
      OBVIOUS
    <3>2. t.entries[n - 1].key \in Keys /\ t.entries[n - 1].value \in Keys \cup Values
      BY <2>2, <3>1, TableIs DEF Stored
    <3> QED
      BY <1>2, <2>2, <3>2, StoreType DEF Step
  <2> QED
    BY <2>1, <2>2
<1> HIDE DEF T
<1>5. s \in [(1..c) \X T -> T] /\ \A n \in 1..c, m \in T : s[<<n, m>>] = Step(t, n, m)
  BY <1>4
<1> HIDE DEF s
<1>6. PICK g \in [0..c -> T] : g[0] = NewTable(2 * c) /\ \A n \in 1..c : g[n] = s[<<n, g[n - 1]>>]
  <2>1. s \in [(1..c) \X T -> T]
    BY <1>5
  <2> DEFINE a == NewTable(2 * c)
  <2>2. a \in T
    BY <1>3
  <2> HIDE DEF a
  <2>3. \E f : Computed(f, c, T, a, s)
    BY <2>1, <2>2, Recursion
  <2> QED
    BY <2>3 DEF Computed, a
<1>7. \A n \in 1..c : g[n] = Step(t, n, g[n - 1])
  <2> SUFFICES ASSUME NEW n \in 1..c PROVE g[n] = Step(t, n, g[n - 1])
    OBVIOUS
  <2>1. g[n - 1] \in T
    BY <1>6
  <2> QED
    BY <1>5, <1>6, <2>1
<1>8. RehashEquation(t, g)
  <2> DEFINE h == [n \in 0..c |-> IF n = 0 THEN NewTable(2 * c) ELSE Step(t, n, g[n - 1])]
  <2>1. \A n \in 0..c : g[n] = h[n]
    BY <1>6, <1>7
  <2>2. g = h
    BY <1>6, <2>1
  <2> QED
    BY <1>1, <2>2 DEF RehashEquation
<1>9. RehashEquation(t, F)
  BY <1>8
<1> HIDE DEF F
<1>10. /\ F = [n \in 0..c |-> IF n = 0 THEN NewTable(2 * c) ELSE Step(t, n, F[n - 1])]
  BY <1>1, <1>9 DEF RehashEquation
<1>11. F[0] = NewTable(2 * c) /\ \A n \in 1..c : F[n] = Step(t, n, F[n - 1])
  BY <1>10
<1> DEFINE I == {n \in 0..c : F[n] \in T /\ \A m \in 0..n : F[m] \in T}
<1>12. c \in I
  <2>1. 0 \in I
    BY <1>3, <1>11
  <2>2. ASSUME NEW n \in I, n < c PROVE n + 1 \in I
    <3>1. n + 1 \in 1..c /\ n + 1 - 1 = n /\ F[n] \in T
      BY <2>2
    <3>2. F[n + 1] \in T
      BY <1>4, <1>11, <3>1
    <3> QED
      BY <3>1, <3>2
  <2>3. I \in SUBSET (0..c)
    OBVIOUS
  <2> HIDE DEF I
  <2> QED
    BY <2>1, <2>2, <2>3, ReachesEnd
<1>13. F \in [0..c -> T]
  BY <1>10, <1>12
<1> QED
  BY <1>1, <1>11, <1>13 DEF T

\* What m holds when the entries of t below n have been moved to it.
Before(t, n) == {i \in Occupied(t) : i < n}
Distinct(t) == \A i, j \in Occupied(t) : t.entries[i].key = t.entries[j].key => i = j
Moved(t, n, m) ==
    /\ Counted(m) /\ Reached(m) /\ m.length <= Cardinality(Before(t, n))
    /\ \A i \in Before(t, n) : \E j \in Occupied(m) : m.entries[j].key = t.entries[i].key
    /\ \A j \in Occupied(m) : \E i \in Before(t, n) : m.entries[j] = t.entries[i]
    /\ Distinct(t) => m.length = Cardinality(Before(t, n))

LEMMA BeforeIs ==
    ASSUME NEW c \in Nat \ {0}, NEW t \in Tables(c)
    PROVE  /\ Before(t, 0) = {} /\ Before(t, c) = Occupied(t)
           /\ \A n \in 0..c : /\ IsFiniteSet(Before(t, n)) /\ Cardinality(Before(t, n)) \in Nat
                              /\ Cardinality(Before(t, n)) <= c
           /\ \A n \in 1..c : Before(t, n) = Before(t, n - 1) \cup (IF n - 1 \in Occupied(t) THEN {n - 1} ELSE {})
<1>1. Occupied(t) \in SUBSET (0..(c - 1))
  BY TableIs
<1>2. ASSUME NEW n \in 0..c
      PROVE  /\ IsFiniteSet(Before(t, n)) /\ Cardinality(Before(t, n)) \in Nat
             /\ Cardinality(Before(t, n)) <= c
  <2>1. Before(t, n) \in SUBSET (0..(c - 1))
    BY <1>1 DEF Before
  <2>2. IsFiniteSet(0..(c - 1)) /\ Cardinality(0..(c - 1)) = c
    BY FS_Interval
  <2> QED
    BY <2>1, <2>2, FS_Subset, FS_CardinalityType
<1>3. Before(t, 0) = {} /\ Before(t, c) = Occupied(t)
  BY <1>1 DEF Before
<1>4. \A n \in 1..c : Before(t, n) = Before(t, n - 1) \cup (IF n - 1 \in Occupied(t) THEN {n - 1} ELSE {})
  BY <1>1 DEF Before
<1> QED
  BY <1>2, <1>3, <1>4

LEMMA StepMoves ==
    ASSUME hash \in [Keys -> Hashes], NEW c \in Nat \ {0}, NEW t \in Tables(c),
           NEW n \in 1..c, NEW m \in Tables(2 * c), Moved(t, n - 1, m)
    PROVE  Moved(t, n, Step(t, n, m))
<1> DEFINE B == Before(t, n - 1)
           x == t.entries[n - 1]
<1>1. n - 1 \in 0..(c - 1) /\ n - 1 \in 0..c /\ 2 * c \in Nat \ {0}
  OBVIOUS
<1>2. CASE n - 1 \notin Occupied(t)
  <2>1. x = Unoccupied
    BY <1>1, <1>2, TableIs
  <2>2. Step(t, n, m) = m
    BY <2>1 DEF Step
  <2>3. Before(t, n) = B
    <3>1. \A i \in Occupied(t) : i \in Int
      BY TableIs
    <3> QED
      BY <1>2, <3>1 DEF Before
  <2> QED
    BY <2>2, <2>3 DEF Moved
<1>3. CASE n - 1 \in Occupied(t)
  <2> DEFINE k == x.key
             v == x.value
             e == FindEntry(m, k)
             u == Store(m, k, v)
  <2>1. x # Unoccupied /\ k \in Keys /\ v \in Keys \cup Values /\ [key |-> k, value |-> v] = x
    BY <1>1, <1>3, TableIs DEF Stored
  <2>2. Step(t, n, m) = u /\ Before(t, n) = B \cup {n - 1} /\ n - 1 \notin B
    BY <1>1, <1>3, <2>1, BeforeIs DEF Step, Before
  <2>3. /\ Counted(m) /\ Reached(m) /\ m.length <= Cardinality(B) /\ m.length \in Nat
        /\ \A i \in B : \E j \in Occupied(m) : m.entries[j].key = t.entries[i].key
        /\ \A j \in Occupied(m) : \E i \in B : m.entries[j] = t.entries[i]
        /\ Distinct(t) => m.length = Cardinality(B)
    BY <1>1, TableIs DEF Moved
  <2>4. /\ IsFiniteSet(B) /\ Cardinality(B) \in Nat /\ Cardinality(B) <= c
        /\ Cardinality(B \cup {n - 1}) = Cardinality(B) + 1
    BY <1>1, <2>2, BeforeIs, FS_AddElement
  <2>5. Occupied(m) # 0..(2 * c - 1)
    <3>1. Cardinality(Occupied(m)) < 2 * c
      BY <2>3, <2>4 DEF Counted
    <3> QED
      BY <1>1, <3>1, NotFull
  <2> HIDE DEF k, v, e, u
  <2>6. /\ u \in Tables(2 * c) /\ e \in 0..(2 * c - 1) /\ u.entries[e] = x
        /\ \A i \in 0..(2 * c - 1) : i # e => u.entries[i] = m.entries[i]
        /\ u.length = IF e \in Occupied(m) THEN m.length ELSE m.length + 1
    <3>1. PICK d \in Nat \ {0} : d = 2 * c
      BY <1>1
    <3>2. m \in Tables(d) /\ Occupied(m) # 0..(d - 1)
      BY <2>5, <3>1
    <3>3. u = Store(m, k, v) /\ e = FindEntry(m, k) /\ k \in Keys /\ v \in Keys \cup Values
      BY <2>1 DEF u, e
    <3>4. /\ u \in Tables(d) /\ e \in 0..(d - 1) /\ u.entries[e] = [key |-> k, value |-> v]
          /\ \A i \in 0..(d - 1) : i # e => u.entries[i] = m.entries[i]
          /\ u.length = IF e \in Occupied(m) THEN m.length ELSE m.length + 1
      BY <3>2, <3>3, StoreIs
    <3> QED
      BY <2>1, <3>1, <3>4
  <2>7. Occupied(u) = Occupied(m) \cup {e} /\ Counted(u) /\ Reached(u)
    BY <1>1, <2>1, <2>3, <2>5, StoreKeeps DEF u, e
  <2>8. Occupied(m) \in SUBSET (0..(2 * c - 1))
    BY <1>1, TableIs
  <2>9. e \in Occupied(m) => m.entries[e].key = k
    BY <1>1, <2>1, <2>5, EntryFound, TableIs DEF e
  <2>10. u.length <= Cardinality(B \cup {n - 1})
    BY <2>3, <2>4, <2>6
  <2>11. ASSUME NEW i \in B \cup {n - 1} PROVE \E j \in Occupied(u) : u.entries[j].key = t.entries[i].key
    <3>1. CASE i = n - 1
      BY <2>6, <2>7, <3>1
    <3>2. CASE i \in B
      <4>1. PICK j \in Occupied(m) : m.entries[j].key = t.entries[i].key
        BY <2>3, <3>2
      <4>2. CASE j = e
        BY <2>6, <2>7, <2>9, <4>1, <4>2 DEF k
      <4>3. CASE j # e
        BY <2>6, <2>7, <2>8, <4>1, <4>3
      <4> QED
        BY <4>2, <4>3
    <3> QED
      BY <3>1, <3>2
  <2>12. ASSUME NEW j \in Occupied(u) PROVE \E i \in B \cup {n - 1} : u.entries[j] = t.entries[i]
    <3>1. CASE j = e
      BY <2>6, <3>1
    <3>2. CASE j # e
      <4>1. j \in Occupied(m) /\ u.entries[j] = m.entries[j]
        BY <2>6, <2>7, <2>8, <3>2
      <4> QED
        BY <2>3, <4>1
    <3> QED
      BY <3>1, <3>2
  <2>13. ASSUME Distinct(t) PROVE u.length = Cardinality(B \cup {n - 1})
    <3>1. e \notin Occupied(m)
      <4> SUFFICES ASSUME e \in Occupied(m) PROVE FALSE
        OBVIOUS
      <4>1. PICK i \in B : m.entries[e] = t.entries[i]
        BY <2>3
      <4>2. t.entries[i].key = x.key /\ i \in Occupied(t) /\ i # n - 1
        BY <2>2, <2>9, <4>1 DEF k, Before
      <4> QED
        BY <1>3, <2>13, <4>2 DEF Distinct
    <3> QED
      BY <2>3, <2>4, <2>6, <2>13, <3>1
  <2> QED
    BY <2>2, <2>7, <2>10, <2>11, <2>12, <2>13 DEF Moved
<1> QED
  BY <1>2, <1>3

\* Rehash moves every entry, and merges those with one key.
LEMMA RehashKeeps ==
    ASSUME hash \in [Keys -> Hashes], NEW c \in Nat \ {0}, NEW t \in Tables(c)
    PROVE  Rehash(t) \in Tables(2 * c) /\ Moved(t, c, Rehash(t))
<1>1. PICK f \in [0..c -> Tables(2 * c)] :
              /\ f[0] = NewTable(2 * c) /\ \A n \in 1..c : f[n] = Step(t, n, f[n - 1])
              /\ Rehash(t) = f[c]
  BY RehashIs
<1> DEFINE I == {n \in 0..c : Moved(t, n, f[n])}
<1>2. 0 \in I
  <2>1. 2 * c \in Nat \ {0}
    OBVIOUS
  <2> DEFINE m == NewTable(2 * c)
  <2>2. Occupied(m) = {} /\ m.length = 0 /\ Counted(m) /\ Reached(m)
    BY <2>1, NewTableIs
  <2>3. Before(t, 0) = {} /\ Cardinality(Before(t, 0)) = 0
    BY BeforeIs, FS_EmptySet
  <2> HIDE DEF m
  <2>4. Moved(t, 0, m)
    BY <2>2, <2>3 DEF Moved
  <2> QED
    BY <1>1, <2>4 DEF m
<1>3. ASSUME NEW n \in I, n < c PROVE n + 1 \in I
  <2>1. n + 1 \in 1..c /\ n + 1 - 1 = n /\ n \in 0..c /\ Moved(t, n, f[n])
    BY <1>3
  <2>2. f[n] \in Tables(2 * c) /\ f[n + 1] = Step(t, n + 1, f[n])
    BY <1>1, <2>1
  <2>3. Moved(t, n + 1, f[n + 1])
    BY <2>1, <2>2, StepMoves
  <2> QED
    BY <2>1, <2>3
<1>4. I \in SUBSET (0..c) /\ c \in Nat
  OBVIOUS
<1> HIDE DEF I
<1>5. c \in I
  BY <1>2, <1>3, <1>4, ReachesEnd
<1> QED
  BY <1>1, <1>5 DEF I

-----------------------------------------------------------------------------
(* hash_map_set and the delete of an entry.                                *)

\* The table holds what r says: every entry, and no entry for the other keys.
Agrees(t, r) ==
    /\ \A i \in Occupied(t) : r[t.entries[i].key] = t.entries[i].value
    /\ \A k \in Keys : (\A i \in Occupied(t) : t.entries[i].key # k) => r[k] = NoValue

\* r with v for k.
With(r, k, v) == [r EXCEPT ![k] = v]

LEMMA ReachedDistinct == ASSUME NEW t, Reached(t) PROVE Distinct(t)
BY DEF Reached, Distinct

LEMMA StoreAgrees ==
    ASSUME hash \in [Keys -> Hashes], NEW c \in Nat \ {0}, NEW t \in Tables(c), NEW k \in Keys,
           NEW v \in Keys \cup Values, Occupied(t) # 0..(c - 1), Counted(t), Reached(t),
           NEW u, u = Store(t, k, v), NEW r, DOMAIN r = Keys, Agrees(t, r)
    PROVE  Agrees(u, With(r, k, v))
<1> DEFINE e == FindEntry(t, k)
           x == [key |-> k, value |-> v]
           s == With(r, k, v)
<1>1. /\ u \in Tables(c) /\ e \in 0..(c - 1) /\ u.entries[e] = x
      /\ \A i \in 0..(c - 1) : i # e => u.entries[i] = t.entries[i]
      /\ Occupied(u) = Occupied(t) \cup {e}
  BY StoreIs, StoreKeeps
<1>2. x.key = k /\ x.value = v
  OBVIOUS
<1>3. s[k] = v /\ \A j \in Keys : j # k => s[j] = r[j]
  BY DEF With
<1>4. e \in Occupied(t) => t.entries[e].key = k
  BY <1>1, EntryFound, TableIs
<1>5. \A i \in Occupied(t) : i \in 0..(c - 1) /\ t.entries[i].key \in Keys
  BY TableIs
<1>6. \A i \in Occupied(t) : t.entries[i].key = k => i = e
  BY DEF Reached
<1> HIDE DEF e, x, s
<1>7. ASSUME NEW i \in Occupied(u) PROVE s[u.entries[i].key] = u.entries[i].value
  <2>1. CASE i = e
    BY <1>1, <1>2, <1>3, <2>1
  <2>2. CASE i # e
    <3>1. i \in Occupied(t) /\ u.entries[i] = t.entries[i] /\ t.entries[i].key # k
      BY <1>1, <1>5, <1>6, <2>2
    <3> QED
      BY <1>3, <1>5, <3>1 DEF Agrees
  <2> QED
    BY <2>1, <2>2
<1>8. ASSUME NEW j \in Keys, \A i \in Occupied(u) : u.entries[i].key # j PROVE s[j] = NoValue
  <2>1. j # k
    BY <1>1, <1>2, <1>8
  <2>2. ASSUME NEW i \in Occupied(t) PROVE t.entries[i].key # j
    <3>1. CASE i = e
      BY <1>4, <2>1, <3>1
    <3>2. CASE i # e
      BY <1>1, <1>5, <1>8, <3>2
    <3> QED
      BY <3>1, <3>2
  <2> QED
    BY <1>3, <2>1, <2>2 DEF Agrees
<1> QED
  BY <1>7, <1>8 DEF Agrees, s

LEMMA RehashAgrees ==
    ASSUME NEW c \in Nat \ {0}, NEW t \in Tables(c), NEW m, Moved(t, c, m), NEW r, Agrees(t, r)
    PROVE  Agrees(m, r)
<1>1. Before(t, c) = Occupied(t)
  BY BeforeIs
<1>2. ASSUME NEW j \in Occupied(m) PROVE r[m.entries[j].key] = m.entries[j].value
  <2>1. PICK i \in Occupied(t) : m.entries[j] = t.entries[i]
    BY <1>1 DEF Moved
  <2> QED
    BY <2>1 DEF Agrees
<1>3. ASSUME NEW k \in Keys, \A j \in Occupied(m) : m.entries[j].key # k PROVE r[k] = NoValue
  <2>1. ASSUME NEW i \in Occupied(t) PROVE t.entries[i].key # k
    BY <1>1, <1>3 DEF Moved
  <2> QED
    BY <2>1 DEF Agrees
<1> QED
  BY <1>2, <1>3 DEF Agrees

\* At most three quarters of the table are occupied.
Fits(t) == 4 * t.length <= 3 * t.capacity

\* The key found is that of an occupied entry.
LEMMA HasKeyIs ==
    ASSUME hash \in [Keys -> Hashes], NEW c \in Nat \ {0}, NEW t \in Tables(c), NEW k \in Keys,
           Occupied(t) # 0..(c - 1)
    PROVE  /\ HasKey(t, k) <=> FindEntry(t, k) \in Occupied(t)
           /\ HasKey(t, k) => t.entries[FindEntry(t, k)].key = k
BY EntryFound, TableIs DEF HasKey

\* A store in a table with room for it.
LEMMA StoreSets ==
    ASSUME hash \in [Keys -> Hashes], NEW c \in Nat \ {0}, NEW t \in Tables(c), NEW k \in Keys,
           NEW v \in Keys \cup Values, Counted(t), 4 * (t.length + 1) <= 3 * c,
           NEW u, u = Store(t, k, v)
    PROVE  /\ Occupied(t) # 0..(c - 1) /\ u \in Tables(c) /\ Counted(u) /\ Fits(u)
           /\ HasKey(t, k) => u.length = t.length
           /\ Reached(t) => Reached(u)
           /\ \A r : DOMAIN r = Keys /\ Reached(t) /\ Agrees(t, r) => Agrees(u, With(r, k, v))
<1>1. t.length \in Nat /\ t.length < c /\ t.length = Cardinality(Occupied(t))
  BY TableIs DEF Counted
<1>2. Occupied(t) # 0..(c - 1)
  BY <1>1, NotFull
<1>0. PICK e : e = FindEntry(t, k)
  OBVIOUS
<1>3. /\ u \in Tables(c) /\ e \in 0..(c - 1) /\ u.entries[e] = [key |-> k, value |-> v]
      /\ \A i \in 0..(c - 1) : i # e => u.entries[i] = t.entries[i]
      /\ u.length = IF e \in Occupied(t) THEN t.length ELSE t.length + 1
  BY <1>2, <1>0, StoreIs
<1>4. Counted(u) /\ (Reached(t) => Reached(u))
  BY <1>2, StoreKeeps
<1>5. \A r : DOMAIN r = Keys /\ Reached(t) /\ Agrees(t, r) => Agrees(u, With(r, k, v))
  BY <1>2, StoreAgrees
<1>6. HasKey(t, k) => e \in Occupied(t)
  BY <1>2, <1>0, HasKeyIs
<1>7. Fits(u)
  BY <1>1, <1>3, TableIs DEF Fits
<1> QED
  BY <1>2, <1>3, <1>4, <1>5, <1>6, <1>7

LEMMA SetIs ==
    ASSUME hash \in [Keys -> Hashes], NEW c \in Nat \ {0}, NEW t \in Tables(c), NEW k \in Keys,
           NEW v \in Keys \cup Values, Counted(t), Fits(t), NEW enough,
           NEW u, u = HashMapSet(t, k, v, enough), NEW r, DOMAIN r = Keys,
           NEW s, s = IF CanSet(t, enough) THEN With(r, k, v) ELSE r
    PROVE  /\ \E d \in Nat \ {0} : u \in Tables(d)
           /\ Counted(u) /\ Fits(u)
           /\ HasKey(t, k) => u.length <= t.length /\ (Reached(t) => u.length = t.length)
           /\ Reached(t) => Reached(u) /\ (Agrees(t, r) => Agrees(u, s))
<1>1. t.length \in Nat /\ t.capacity = c /\ 4 * t.length <= 3 * c /\ t.length = Cardinality(Occupied(t))
  BY TableIs DEF Fits, Counted
<1>2. CASE ~CanSet(t, enough)
  BY <1>1, <1>2 DEF HashMapSet
<1>3. CASE CanSet(t, enough) /\ ~MustGrow(t)
  <2>1. u = Store(t, k, v) /\ s = With(r, k, v) /\ 4 * (t.length + 1) <= 3 * c
    BY <1>1, <1>3 DEF HashMapSet, MustGrow
  <2>2. /\ u \in Tables(c) /\ Counted(u) /\ Fits(u)
        /\ HasKey(t, k) => u.length = t.length
        /\ Reached(t) => Reached(u)
        /\ Reached(t) /\ Agrees(t, r) => Agrees(u, With(r, k, v))
    BY <2>1, StoreSets
  <2>3. HasKey(t, k) => u.length <= t.length /\ u.length = t.length
    BY <1>1, <2>2
  <2> QED
    BY <2>1, <2>2, <2>3
<1>4. CASE CanSet(t, enough) /\ MustGrow(t)
  <2> DEFINE m == Rehash(t)
             d == 2 * c
  <2>1. u = Store(m, k, v) /\ s = With(r, k, v)
    BY <1>4 DEF HashMapSet
  <2>2. m \in Tables(d) /\ Moved(t, c, m) /\ d \in Nat \ {0} /\ Before(t, c) = Occupied(t)
    BY RehashKeeps, BeforeIs
  <2> HIDE DEF m, d
  <2>3. Counted(m) /\ Reached(m) /\ m.length <= t.length /\ (Distinct(t) => m.length = t.length)
        /\ m.length \in Nat
    BY <1>1, <2>2, TableIs DEF Moved
  <2>4. 4 * (m.length + 1) <= 3 * d
    BY <1>1, <2>3 DEF d
  <2>5. /\ Occupied(m) # 0..(d - 1) /\ u \in Tables(d) /\ Counted(u) /\ Fits(u) /\ Reached(u)
        /\ HasKey(m, k) => u.length = m.length
        /\ Agrees(m, r) => Agrees(u, With(r, k, v))
    BY <2>1, <2>2, <2>3, <2>4, StoreSets
  <2>6. HasKey(t, k) => HasKey(m, k)
    <3> SUFFICES ASSUME HasKey(t, k) PROVE HasKey(m, k)
      OBVIOUS
    <3>1. t.length < c
      BY <1>1
    <3>2. Occupied(t) # 0..(c - 1)
      BY <1>1, <3>1, NotFull
    <3>3. FindEntry(t, k) \in Occupied(t) /\ t.entries[FindEntry(t, k)].key = k
      BY <3>2, HasKeyIs
    <3>4. PICK j \in Occupied(m) : m.entries[j].key = k
      BY <2>2, <3>3 DEF Moved
    <3>5. FindEntry(m, k) \in Occupied(m)
      BY <2>3, <3>4 DEF Reached
    <3> QED
      BY <2>2, <2>5, <3>5, HasKeyIs
  <2>7. Agrees(t, r) => Agrees(m, r)
    BY <2>2, RehashAgrees
  <2>8. Reached(t) => Distinct(t)
    BY ReachedDistinct
  <2> QED
    BY <1>1, <2>1, <2>2, <2>3, <2>5, <2>6, <2>7, <2>8
<1> QED
  BY <1>2, <1>3, <1>4

Without(t, e) == [t EXCEPT !.entries[e] = Unoccupied, !.length = @ - 1]

\* The delete of an entry. When the slot behind it is free, no probe that went on
\* beyond it found anything.
LEMMA DeleteIs ==
    ASSUME hash \in [Keys -> Hashes], NEW c \in Nat \ {0}, NEW t \in Tables(c), NEW k \in Keys,
           Counted(t), Fits(t), HasKey(t, k), NEW e, e = FindEntry(t, k),
           NEW u, u = Without(t, e),
           NEW r, DOMAIN r = Keys
    PROVE  /\ u \in Tables(c) /\ Counted(u) /\ Fits(u)
           /\ Reached(t) /\ t.entries[(e + 1) % c] = Unoccupied =>
                Reached(u) /\ (Agrees(t, r) => Agrees(u, With(r, k, NoValue)))
<1>1. t.length \in Nat /\ t.capacity = c /\ 4 * t.length <= 3 * c /\ t.length = Cardinality(Occupied(t))
  BY TableIs DEF Fits, Counted
<1>2. Occupied(t) # 0..(c - 1)
  <2>1. t.length < c
    BY <1>1
  <2> QED
    BY <1>1, <2>1, NotFull
<1>3. e \in Occupied(t) /\ e \in 0..(c - 1) /\ t.entries[e].key = k
  BY <1>2, HasKeyIs, TableIs
<1>4. Cardinality(Occupied(t) \ {e}) = t.length - 1 /\ t.length - 1 \in Nat
  <2>1. IsFiniteSet(Occupied(t)) /\ Occupied(t) # {}
    BY <1>3, OccupiedFinite
  <2>2. Cardinality(Occupied(t)) # 0 /\ Cardinality(Occupied(t) \ {e}) = Cardinality(Occupied(t)) - 1
    BY <1>3, <2>1, FS_EmptySet, FS_RemoveElement
  <2> QED
    BY <1>1, <2>2
<1> DEFINE l == t.length - 1
           t1 == [t EXCEPT !.entries[e] = Unoccupied]
           t2 == [t1 EXCEPT !.length = l]
<1>5. u = t2
  BY DEF Without
<1>6. l \in Nat
  BY <1>4
<1>7. t1 \in Tables(c) /\ t1.entries[e] = Unoccupied /\ \A i \in 0..(c - 1) : i # e => t1.entries[i] = t.entries[i]
  BY <1>3 DEF Tables
<1> HIDE DEF t1
<1>8. t2 \in Tables(c) /\ t2.entries = t1.entries /\ t2.length = l
  BY <1>6, <1>7 DEF Tables
<1> HIDE DEF t2
<1>9. /\ u \in Tables(c) /\ u.length = t.length - 1 /\ u.entries[e] = Unoccupied
      /\ \A i \in 0..(c - 1) : i # e => u.entries[i] = t.entries[i]
  BY <1>5, <1>7, <1>8
<1>10. Occupied(u) = Occupied(t) \ {e}
  BY <1>9, TableIs
<1>11. Counted(u) /\ Fits(u)
  BY <1>1, <1>4, <1>9, <1>10, TableIs DEF Counted, Fits
<1>12. \A i \in Occupied(t) : i \in 0..(c - 1) /\ t.entries[i].key \in Keys
  BY TableIs
<1>13. ASSUME Reached(t), t.entries[(e + 1) % c] = Unoccupied, NEW i \in Occupied(u)
       PROVE  FindEntry(u, u.entries[i].key) = i
  <2> DEFINE j == t.entries[i].key
  <2>1. i \in Occupied(t) /\ i \in 0..(c - 1) /\ i # e /\ j \in Keys /\ u.entries[i] = t.entries[i]
    BY <1>9, <1>10, <1>12
  <2>2. FindEntry(t, j) = i
    BY <1>13, <2>1 DEF Reached
  <2>3. PICK n \in 0..(c - 1) : FirstHit(t, j, n) /\ i = Probe(t, j, n)
    BY <1>2, <2>1, <2>2, EntryFound
  <2>4. \A m : Probe(u, j, m) = Probe(t, j, m)
    BY <1>9, TableIs DEF Probe
  <2>5. Hit(u, j, n)
    BY <2>1, <2>3, <2>4 DEF Hit
  <2>6. ASSUME NEW m \in 0..(c - 1), m < n PROVE ~Hit(u, j, m)
    <3>1. ~Hit(t, j, m)
      BY <2>3, <2>6, TableIs DEF FirstHit
    <3>2. Probe(t, j, m) \in 0..(c - 1)
      BY <2>1, ProbeInSlots
    <3>3. Probe(t, j, m) # e
      <4> SUFFICES ASSUME Probe(t, j, m) = e PROVE FALSE
        OBVIOUS
      <4>1. m + 1 \in 0..(c - 1) /\ m + 1 < c /\ m + 1 <= n
        BY <2>6
      <4>2. Probe(t, j, m + 1) = (e + 1) % c
        BY <2>1, <4>1, ProbeInSlots
      <4>3. Hit(t, j, m + 1)
        BY <1>13, <4>2 DEF Hit
      <4>4. n <= m + 1
        BY <2>3, <4>1, <4>3, TableIs DEF FirstHit
      <4>5. n = m + 1
        BY <2>3, <4>1, <4>4
      <4> QED
        BY <1>13, <2>1, <2>3, <4>2, <4>5, TableIs
    <3> QED
      BY <1>9, <2>4, <3>1, <3>2, <3>3 DEF Hit
  <2>7. FirstHit(u, j, n)
    BY <1>9, <2>3, <2>5, <2>6, TableIs DEF FirstHit
  <2> QED
    BY <1>9, <2>1, <2>3, <2>4, <2>7, FindFirst
<1>14. ASSUME Reached(t), Agrees(t, r) PROVE Agrees(u, With(r, k, NoValue))
  <2> DEFINE s == With(r, k, NoValue)
  <2>1. s[k] = NoValue /\ \A j \in Keys : j # k => s[j] = r[j]
    BY DEF With
  <2> HIDE DEF s
  <2>2. ASSUME NEW i \in Occupied(u) PROVE s[u.entries[i].key] = u.entries[i].value
    <3>1. i \in Occupied(t) /\ i # e /\ u.entries[i] = t.entries[i] /\ t.entries[i].key \in Keys
      BY <1>9, <1>10, <1>12
    <3>2. t.entries[i].key # k
      BY <1>14, <3>1 DEF Reached
    <3> QED
      BY <1>14, <2>1, <3>1, <3>2 DEF Agrees
  <2>3. ASSUME NEW j \in Keys, \A i \in Occupied(u) : u.entries[i].key # j PROVE s[j] = NoValue
    <3>1. CASE j = k
      BY <2>1, <3>1
    <3>2. CASE j # k
      <4>1. ASSUME NEW i \in Occupied(t) PROVE t.entries[i].key # j
        <5>1. CASE i = e
          BY <1>3, <3>2, <5>1
        <5>2. CASE i # e
          BY <1>9, <1>10, <1>12, <2>3, <5>2
        <5> QED
          BY <5>1, <5>2
      <4> QED
        BY <1>14, <2>1, <3>2, <4>1 DEF Agrees
    <3> QED
      BY <3>1, <3>2
  <2> QED
    BY <2>2, <2>3 DEF Agrees, s
<1> QED
  BY <1>9, <1>11, <1>13, <1>14 DEF Reached

-----------------------------------------------------------------------------
(* The invariant of the table. The hash function is a parameter, as it is  *)
(* the same before and after a step.                                       *)

Find(h, t, k) ==
    LET probe(n) == (h[k] + n) % t.capacity
        hits == {n \in Slots(t) : \/ t.entries[probe(n)] = Unoccupied
                                  \/ t.entries[probe(n)].key = k}
    IN  IF hits = {} THEN NONE ELSE probe(Min(hits))
ReachedBy(h, t) == \A i \in Occupied(t) : Find(h, t, t.entries[i].key) = i

Sane(h, t, n, r, gap) ==
    /\ \E c \in Nat \ {0} : t \in Tables(c)
    /\ Counted(t) /\ Fits(t) /\ n \in Nat /\ t.length <= n /\ DOMAIN r = Keys
    /\ gap = "no" => n = t.length /\ ReachedBy(h, t) /\ Agrees(t, r)
TableInv == hash \in [Keys -> Hashes] /\ Sane(hash, table, size, ref, torn)

LEMMA ReachedIs == ASSUME NEW t PROVE Reached(t) <=> ReachedBy(hash, t)
BY DEF Reached, ReachedBy, FindEntry, Find

\* What the invariant says of the present table.
LEMMA TableInvIs ==
    ASSUME TableInv
    PROVE  /\ hash \in [Keys -> Hashes] /\ \E c \in Nat \ {0} : table \in Tables(c)
           /\ Counted(table) /\ Fits(table) /\ size \in Nat /\ table.length <= size /\ DOMAIN ref = Keys
           /\ torn = "no" => size = table.length /\ Reached(table) /\ Agrees(table, ref)
BY ReachedIs DEF TableInv, Sane

LEMMA TableInvInit == CollectionInit => TableInv
<1> SUFFICES ASSUME CollectionInit PROVE TableInv
  OBVIOUS
<1> DEFINE t == NewTable(InitCapacity)
<1>1. /\ hash \in [Keys -> Hashes] /\ table = t /\ size = 0 /\ DOMAIN ref = Keys
      /\ \A k \in Keys : ref[k] = NoValue
  BY DEF CollectionInit
<1>2. t \in Tables(InitCapacity) /\ Occupied(t) = {} /\ t.length = 0 /\ Counted(t) /\ InitCapacity \in Nat \ {0}
  BY TableAssumption, NewTableIs
<1> HIDE DEF t
<1>3. Fits(t)
  BY <1>2, TableIs DEF Fits
<1>4. ReachedBy(hash, t) /\ Agrees(t, ref)
  BY <1>1, <1>2 DEF ReachedBy, Agrees
<1> QED
  BY <1>1, <1>2, <1>3, <1>4 DEF TableInv, Sane

\* map_set and set_add.
LEMMA SetKeeps ==
    ASSUME TableInv, NEW k \in Keys, NEW v \in Keys \cup Values, NEW enough,
           table' = HashMapSet(table, k, v, enough),
           size' = IF HasKey(table, k) THEN size ELSE table'.length,
           ref' = IF CanSet(table, enough) THEN [ref EXCEPT ![k] = v] ELSE ref,
           UNCHANGED <<hash, torn>>
    PROVE  TableInv'
<1>1. PICK c \in Nat \ {0} : table \in Tables(c)
  BY TableInvIs
<1>2. /\ hash \in [Keys -> Hashes] /\ Counted(table) /\ Fits(table) /\ size \in Nat
      /\ table.length <= size /\ DOMAIN ref = Keys
      /\ torn = "no" => size = table.length /\ Reached(table) /\ Agrees(table, ref)
  BY TableInvIs
<1> DEFINE u == HashMapSet(table, k, v, enough)
           s == IF CanSet(table, enough) THEN With(ref, k, v) ELSE ref
<1>3. /\ \E d \in Nat \ {0} : u \in Tables(d)
      /\ Counted(u) /\ Fits(u)
      /\ HasKey(table, k) => u.length <= table.length /\ (Reached(table) => u.length = table.length)
      /\ Reached(table) => Reached(u) /\ (Agrees(table, ref) => Agrees(u, s))
  BY <1>1, <1>2, SetIs
<1>4. table' = u /\ ref' = s
  BY DEF With
<1>5. DOMAIN s = Keys
  BY <1>2 DEF With
<1> HIDE DEF u, s
<1>6. u.length \in Nat /\ table.length \in Nat
  BY <1>1, <1>3, TableIs
<1> DEFINE n == IF HasKey(table, k) THEN size ELSE u.length
<1>7. size' = n /\ hash' = hash /\ torn' = torn
  BY <1>4
<1>8. n \in Nat /\ u.length <= n /\ (torn = "no" => n = u.length)
  BY <1>2, <1>3, <1>6
<1>9. torn = "no" => ReachedBy(hash, u) /\ Agrees(u, s)
  BY <1>2, <1>3, ReachedIs
<1> HIDE DEF n
<1>10. Sane(hash, u, n, s, torn)
  BY <1>3, <1>5, <1>8, <1>9 DEF Sane
<1> QED
  BY <1>2, <1>4, <1>7, <1>10 DEF TableInv

LEMMA DeleteKeeps == ASSUME TableInv, NEW k \in Keys, Delete(k) PROVE TableInv'
<1>1. PICK c \in Nat \ {0} : table \in Tables(c)
  BY TableInvIs
<1>2. /\ hash \in [Keys -> Hashes] /\ Counted(table) /\ Fits(table)
      /\ DOMAIN ref = Keys /\ table.capacity = c
      /\ torn = "no" => size = table.length /\ Reached(table) /\ Agrees(table, ref)
  BY <1>1, TableInvIs, TableIs
<1> DEFINE e == FindEntry(table, k)
           u == Without(table, e)
           s == With(ref, k, NoValue)
           gap == IF table.entries[(e + 1) % c] # Unoccupied THEN "yes" ELSE torn
<1>3. /\ HasKey(table, k) /\ table' = u /\ torn' = gap /\ size' = u.length /\ ref' = s /\ hash' = hash
  BY <1>2 DEF Delete, Without, With
<1>4. /\ u \in Tables(c) /\ Counted(u) /\ Fits(u)
      /\ Reached(table) /\ table.entries[(e + 1) % c] = Unoccupied =>
           Reached(u) /\ (Agrees(table, ref) => Agrees(u, s))
  BY <1>1, <1>2, <1>3, DeleteIs
<1>5. DOMAIN s = Keys /\ u.length \in Nat
  BY <1>2, <1>4, TableIs DEF With
<1>6. gap = "no" => torn = "no" /\ table.entries[(e + 1) % c] = Unoccupied
  OBVIOUS
<1> HIDE DEF u, s, e, gap
<1>7. gap = "no" => ReachedBy(hash, u) /\ Agrees(u, s)
  BY <1>2, <1>4, <1>6, ReachedIs
<1>8. Sane(hash, u, u.length, s, gap)
  BY <1>4, <1>5, <1>7 DEF Sane
<1> QED
  BY <1>2, <1>3, <1>8 DEF TableInv

LEMMA ClearKeeps == ASSUME TableInv, Clear PROVE TableInv'
<1>1. PICK c \in Nat \ {0} : table \in Tables(c)
  BY TableInvIs
<1> DEFINE u == NewTable(c)
           s == [k \in Keys |-> NoValue]
<1>2. /\ table' = u /\ size' = 0 /\ ref' = s /\ torn' = "no" /\ hash' = hash /\ hash \in [Keys -> Hashes]
  BY <1>1, TableInvIs, TableIs DEF Clear
<1>3. u \in Tables(c) /\ Occupied(u) = {} /\ u.length = 0 /\ Counted(u)
  BY NewTableIs
<1>4. DOMAIN s = Keys /\ \A k \in Keys : s[k] = NoValue
  OBVIOUS
<1> HIDE DEF u, s
<1>5. Fits(u)
  BY <1>3, TableIs DEF Fits
<1>6. ReachedBy(hash, u) /\ Agrees(u, s)
  BY <1>3, <1>4 DEF ReachedBy, Agrees
<1>7. Sane(hash, u, 0, s, "no")
  BY <1>3, <1>4, <1>5, <1>6 DEF Sane
<1> QED
  BY <1>2, <1>7 DEF TableInv

LEMMA TableInvNext == TableInv /\ [CollectionNext]_collectionVars => TableInv'
<1> SUFFICES ASSUME TableInv, [CollectionNext]_collectionVars PROVE TableInv'
  OBVIOUS
<1>1. ASSUME NEW k \in Keys, NEW enough \in BOOLEAN, SetAdd(k, enough) PROVE TableInv'
  BY <1>1, SetKeeps DEF SetAdd
<1>2. ASSUME NEW k \in Keys, NEW enough \in BOOLEAN, NEW v \in Values, MapSet(k, v, enough) PROVE TableInv'
  BY <1>2, SetKeeps DEF MapSet
<1>3. CASE UNCHANGED <<hash, table, size, ref, torn>>
  BY <1>3 DEF TableInv
<1>4. MakeIterator \/ IteratorNext \/ IteratorDone \/ UNCHANGED collectionVars => TableInv'
  BY <1>3 DEF MakeIterator, IteratorNext, IteratorDone, collectionVars
<1> QED
  BY <1>1, <1>2, <1>4, DeleteKeeps, ClearKeeps DEF CollectionNext

LEMMA TableInvImplies == TableInv => CountsRight /\ LookupRight
<1> SUFFICES ASSUME TableInv PROVE CountsRight /\ LookupRight
  OBVIOUS
<1>1. PICK c \in Nat \ {0} : table \in Tables(c)
  BY TableInvIs
<1>2. /\ hash \in [Keys -> Hashes] /\ Counted(table) /\ Fits(table) /\ size \in Nat
      /\ table.length <= size /\ DOMAIN ref = Keys
      /\ torn = "no" => size = table.length /\ Reached(table) /\ Agrees(table, ref)
  BY TableInvIs
<1>3. Occupied(table) # 0..(c - 1)
  <2>1. Cardinality(Occupied(table)) < c
    BY <1>1, <1>2, TableIs DEF Counted, Fits
  <2> QED
    BY <1>1, <2>1, NotFull
<1>4. CountsRight
  BY <1>1, <1>2, <1>3, EntryFound DEF CountsRight, Counted
<1>5. ASSUME torn = "no", NEW k \in Keys PROVE Get(table, k) = ref[k]
  <2> DEFINE e == FindEntry(table, k)
  <2>1. /\ HasKey(table, k) <=> e \in Occupied(table)
        /\ HasKey(table, k) => table.entries[e].key = k
    BY <1>1, <1>2, <1>3, HasKeyIs
  <2>2. CASE HasKey(table, k)
    <3>1. Get(table, k) = table.entries[e].value
      BY <2>2 DEF Get
    <3> QED
      BY <1>2, <1>5, <2>1, <2>2, <3>1 DEF Agrees
  <2>3. CASE ~HasKey(table, k)
    <3>1. \A i \in Occupied(table) : table.entries[i].key # k
      BY <1>2, <1>5, <2>1, <2>3 DEF Reached
    <3> QED
      BY <1>2, <1>5, <2>3, <3>1 DEF Agrees, Get
  <2> QED
    BY <2>2, <2>3
<1> QED
  BY <1>4, <1>5 DEF LookupRight

\* The length of a table is the number of its entries, the arrays made for `size`
\* elements hold every entry, and a probe always ends, for any keys, hash function
\* and capacity and any sequence of operations.
THEOREM CountsRightHolds == CollectionSpec => []CountsRight
BY TableInvInit, TableInvNext, TableInvImplies, PTL DEF CollectionSpec

\* get and has answer what was last set, through collisions, growth and failed
\* growth, until a delete leaves a gap in front of another entry.
THEOREM LookupRightHolds == CollectionSpec => []LookupRight
BY TableInvInit, TableInvNext, TableInvImplies, PTL DEF CollectionSpec

-----------------------------------------------------------------------------
(* Iterators: the keys returned are those of the entries below the index.  *)

IterInv ==
    it # NONE => /\ it \in Nat /\ visited \in Seq(Keys)
                 /\ changed = "no" => InOrder(table, Before(table, it), visited)

\* The index of the next entry, or one at or behind the end of the table.
LEMMA NextIs ==
    ASSUME NEW c \in Nat \ {0}, table \in Tables(c), it \in Nat
    PROVE  /\ NextOccupied \in Nat /\ it <= NextOccupied
           /\ \A i \in Occupied(table) : i >= it => NextOccupied <= i
           /\ NextOccupied < c => NextOccupied \in Occupied(table)
<1> DEFINE top == IF it >= c THEN it ELSE c
           S == {i \in Occupied(table) : i >= it} \cup {top}
<1>1. table.capacity = c /\ Occupied(table) \in SUBSET (0..(c - 1))
  BY TableIs
<1>2. Max({it, c}) = top
  BY DEF Max
<1>3. S \in SUBSET Nat /\ S # {} /\ NextOccupied = Min(S) /\ top \in Nat /\ top >= c /\ top >= it
  BY <1>1, <1>2 DEF NextOccupied
<1>4. \A i \in S : i = top \/ (i \in Occupied(table) /\ i >= it)
  OBVIOUS
<1>5. \A i \in Occupied(table) : i >= it => i \in S
  OBVIOUS
<1> HIDE DEF S, top
<1>6. PICK n \in S : \A k \in S : n <= k
  BY <1>3, Smallest
<1>7. NextOccupied = n
  BY <1>3, <1>6, MinIs
<1>8. n \in Nat /\ it <= n
  BY <1>3, <1>4, <1>6
<1>9. \A i \in Occupied(table) : i >= it => n <= i
  BY <1>5, <1>6
<1>10. n < c => n \in Occupied(table)
  BY <1>3, <1>4, <1>6, <1>8
<1> QED
  BY <1>7, <1>8, <1>9, <1>10

LEMMA IterInvInit == CollectionInit => IterInv
BY DEF CollectionInit, IterInv

LEMMA MakeIteratorKeeps == ASSUME TableInv, MakeIterator PROVE IterInv'
<1>1. PICK c \in Nat \ {0} : table \in Tables(c)
  BY TableInvIs
<1>2. it' = 0 /\ visited' = <<>> /\ table' = table
  BY DEF MakeIterator
<1>3. Before(table, 0) = {} /\ Cardinality({}) = 0
  BY <1>1, BeforeIs, FS_EmptySet
<1>4. InOrder(table, {}, <<>>)
  <2> DEFINE f == [a \in 1..0 |-> 0]
  <2>1. f \in [1..0 -> {}] /\ \A a, b \in 1..0 : a < b => f[a] < f[b]
    OBVIOUS
  <2>2. <<>> = [a \in 1..0 |-> table.entries[f[a]].key]
    OBVIOUS
  <2> HIDE DEF f
  <2> QED
    BY <1>3, <2>1, <2>2 DEF InOrder
<1>5. <<>> \in Seq(Keys)
  OBVIOUS
<1> QED
  BY <1>2, <1>3, <1>4, <1>5 DEF IterInv

LEMMA IteratorNextKeeps == ASSUME TableInv, IterInv, IteratorNext PROVE IterInv'
<1>1. PICK c \in Nat \ {0} : table \in Tables(c)
  BY TableInvIs
<1> DEFINE n == NextOccupied
           x == table.entries[n].key
           B == Before(table, it)
           N == Cardinality(B)
<1>2. /\ it # NONE /\ n < c /\ visited' = Append(visited, x) /\ it' = n + 1
      /\ table' = table /\ changed' = changed
  BY <1>1, TableIs DEF IteratorNext
<1>3. it \in Nat /\ visited \in Seq(Keys) /\ (changed = "no" => InOrder(table, B, visited))
  BY <1>2 DEF IterInv
<1>4. /\ n \in Nat /\ it <= n /\ n \in Occupied(table)
      /\ \A i \in Occupied(table) : i >= it => n <= i
  BY <1>1, <1>2, <1>3, NextIs
<1>5. x \in Keys /\ \A i \in Occupied(table) : i \in Nat
  BY <1>1, <1>4, TableIs
<1>6. visited' \in Seq(Keys)
  BY <1>2, <1>3, <1>5
<1> HIDE DEF n
<1>7. Before(table, n + 1) = B \cup {n} /\ n \notin B /\ \A i \in B : i < n
  <2>1. \A i \in Occupied(table) : i < n + 1 <=> (i < it \/ i = n)
    BY <1>3, <1>4, <1>5
  <2>2. \A i \in Occupied(table) : i < it => i < n
    BY <1>3, <1>4, <1>5
  <2>3. ~(n < it)
    BY <1>3, <1>4
  <2> QED
    BY <1>4, <2>1, <2>2, <2>3 DEF Before
<1>8. IsFiniteSet(B) /\ N \in Nat /\ Cardinality(B \cup {n}) = N + 1
  <2>1. B \in SUBSET Occupied(table)
    BY DEF Before
  <2>2. IsFiniteSet(B)
    BY <1>1, <2>1, OccupiedFinite, FS_Subset
  <2> QED
    BY <1>7, <2>2, FS_AddElement, FS_CardinalityType
<1> HIDE DEF B, N, x
<1>9. ASSUME changed = "no" PROVE InOrder(table, B \cup {n}, Append(visited, x))
  <2>1. PICK f \in [1..N -> B] : /\ \A a, b \in 1..N : a < b => f[a] < f[b]
                                 /\ visited = [a \in 1..N |-> table.entries[f[a]].key]
    BY <1>3, <1>9 DEF InOrder, N
  <2> DEFINE g == [a \in 1..(N + 1) |-> IF a = N + 1 THEN n ELSE f[a]]
             s == Append(visited, x)
  <2>2. g \in [1..(N + 1) -> B \cup {n}]
    BY <1>8, <2>1
  <2>3. ASSUME NEW a \in 1..(N + 1), NEW b \in 1..(N + 1), a < b PROVE g[a] < g[b]
    <3>1. a \in 1..N /\ g[a] = f[a] /\ f[a] \in B
      BY <1>8, <2>1, <2>3
    <3>2. CASE b = N + 1
      BY <1>7, <3>1, <3>2
    <3>3. CASE b # N + 1
      BY <1>8, <2>1, <2>3, <3>1, <3>3
    <3> QED
      BY <3>2, <3>3
  <2>4. Len(visited) = N
    BY <1>3, <1>8, <2>1
  <2>5. s = [a \in 1..(N + 1) |-> table.entries[g[a]].key]
    <3> DEFINE t == [a \in 1..(N + 1) |-> table.entries[g[a]].key]
    <3>1. s \in Seq(Keys) /\ Len(s) = N + 1 /\ s[N + 1] = x /\ \A a \in 1..N : s[a] = visited[a]
      BY <1>3, <1>5, <1>8, <2>4 DEF x
    <3>2. DOMAIN s = 1..(N + 1) /\ s = [a \in DOMAIN s |-> s[a]]
      <4> HIDE DEF s
      <4> QED
        BY <1>8, <3>1
    <3>3. \A a \in 1..(N + 1) : s[a] = t[a]
      <4> SUFFICES ASSUME NEW a \in 1..(N + 1) PROVE s[a] = table.entries[g[a]].key
        OBVIOUS
      <4>1. CASE a = N + 1
        BY <1>8, <3>1, <4>1 DEF x
      <4>2. CASE a # N + 1
        <5>1. a \in 1..N /\ g[a] = f[a]
          BY <1>8, <4>2
        <5> QED
          BY <2>1, <3>1, <5>1
      <4> QED
        BY <4>1, <4>2
    <3> HIDE DEF s, g
    <3> QED
      BY <3>2, <3>3
  <2> HIDE DEF g, s
  <2>6. InOrder(table, B \cup {n}, s)
    BY <1>8, <2>2, <2>3, <2>5 DEF InOrder
  <2> QED
    BY <2>6 DEF s
<1>10. n + 1 \in Nat /\ (changed = "no" => InOrder(table, Before(table, n + 1), Append(visited, x)))
  BY <1>4, <1>7, <1>9
<1> QED
  BY <1>2, <1>6, <1>10 DEF IterInv

LEMMA IteratorDoneKeeps == ASSUME TableInv, IterInv, IteratorDone PROVE IterInv'
<1>1. PICK c \in Nat \ {0} : table \in Tables(c)
  BY TableInvIs
<1>2. it # NONE /\ it' = NextOccupied /\ UNCHANGED <<table, visited, changed>>
  BY DEF IteratorDone
<1>3. it \in Nat
  BY <1>2 DEF IterInv
<1>4. /\ NextOccupied \in Nat /\ it <= NextOccupied
      /\ \A i \in Occupied(table) : i \in Nat /\ (i >= it => NextOccupied <= i)
  BY <1>1, <1>3, NextIs, TableIs
<1>5. Before(table, NextOccupied) = Before(table, it)
  BY <1>3, <1>4 DEF Before
<1> QED
  BY <1>2, <1>4, <1>5 DEF IterInv

LEMMA IterInvNext == TableInv /\ IterInv /\ [CollectionNext]_collectionVars => IterInv'
<1> SUFFICES ASSUME TableInv, IterInv, [CollectionNext]_collectionVars PROVE IterInv'
  OBVIOUS
<1>1. CASE changed' = "yes" /\ UNCHANGED <<it, visited>>
  BY <1>1 DEF IterInv
<1>2. CASE UNCHANGED collectionVars
  BY <1>2 DEF IterInv, collectionVars
<1>3. ASSUME NEW k \in Keys, NEW enough \in BOOLEAN, SetAdd(k, enough) \/ \E v \in Values : MapSet(k, v, enough)
      PROVE  IterInv'
  BY <1>1, <1>3 DEF SetAdd, MapSet
<1>4. ASSUME NEW k \in Keys, Delete(k) PROVE IterInv'
  BY <1>1, <1>4 DEF Delete
<1>5. CASE Clear
  BY <1>1, <1>5 DEF Clear
<1> QED
  BY <1>2, <1>3, <1>4, <1>5, MakeIteratorKeeps, IteratorNextKeeps, IteratorDoneKeeps DEF CollectionNext

LEMMA IterInvImplies == TableInv /\ IterInv => IterationComplete
<1> SUFFICES ASSUME TableInv, IterInv, it >= table.capacity, changed = "no"
             PROVE  InOrder(table, Occupied(table), visited)
  BY DEF IterationComplete
<1>1. PICK c \in Nat \ {0} : table \in Tables(c)
  BY TableInvIs
<1>2. table.capacity = c /\ \A i \in Occupied(table) : i \in 0..(c - 1)
  BY <1>1, TableIs
<1>3. it # NONE
  BY <1>2 DEF NONE
<1>4. it \in Nat /\ InOrder(table, Before(table, it), visited)
  BY <1>3 DEF IterInv
<1>5. Before(table, it) = Occupied(table)
  BY <1>2, <1>4 DEF Before
<1> QED
  BY <1>4, <1>5

\* An iterator that reached the end of a table nobody changed has returned the key of
\* every entry once, in the order of the table, however calls of iterator_next and
\* iterator_done alternated.
THEOREM IterationCompleteHolds == CollectionSpec => []IterationComplete
<1>1. CollectionSpec => [](TableInv /\ IterInv)
  BY TableInvInit, TableInvNext, IterInvInit, IterInvNext, PTL DEF CollectionSpec
<1> QED
  BY <1>1, IterInvImplies, PTL

-----------------------------------------------------------------------------
(* The mounts of the virtual file system.                                  *)

MountRec == [at : VirtualPaths, host : Hosts, ro : BOOLEAN]

Elements(s) == {s[i] : i \in 1..Len(s)}
OnePerPath(s) == \A i, j \in 1..Len(s) : s[i].at = s[j].at => i = j

\* The array s holds the mounts in M, one for each path.
Holds(s, M) ==
    /\ s \in Seq(MountRec)
    /\ OnePerPath(s) /\ M = Elements(s)
    /\ IsFiniteSet(M) /\ Cardinality(M) = Len(s)

\* The least index of a set of indices.
LEMMA FirstIs ==
    ASSUME NEW n \in Nat, NEW I \in SUBSET (1..n), I # {}
    PROVE  Min(I) \in I /\ \A k \in I : Min(I) <= k
<1>1. I \in SUBSET Nat
  OBVIOUS
<1>2. PICK m \in I : \A k \in I : m <= k
  BY <1>1, Smallest
<1>3. Min(I) = m
  BY <1>1, <1>2, MinIs
<1> QED
  BY <1>2, <1>3

LEMMA NoMounts == Holds(<<>>, {})
<1>1. <<>> \in Seq(MountRec) /\ Len(<<>>) = 0 /\ 1..0 = {}
  OBVIOUS
<1>2. IsFiniteSet({}) /\ Cardinality({}) = 0
  BY FS_EmptySet
<1> QED
  BY <1>1, <1>2 DEF Holds, Elements, OnePerPath

LEMMA MountAppended ==
    ASSUME NEW s, NEW M, Holds(s, M), NEW e \in MountRec, \A i \in 1..Len(s) : s[i].at # e.at
    PROVE  Holds(Append(s, e), {m \in M : m.at # e.at} \cup {e})
<1>1. s \in Seq(MountRec) /\ Len(s) \in Nat
  <2>1. s \in Seq(MountRec)
    BY DEF Holds
  <2> QED
    BY <2>1
<1>2. PICK t : t = Append(s, e)
  OBVIOUS
<1>3. /\ t \in Seq(MountRec) /\ Len(t) = Len(s) + 1 /\ t[Len(s) + 1] = e
      /\ \A i \in 1..Len(s) : t[i] = s[i]
  BY <1>1, <1>2
<1>4. /\ 1..Len(t) = 1..Len(s) \cup {Len(s) + 1}
      /\ Len(s) + 1 \notin 1..Len(s)
  BY <1>1, <1>3
<1>5. OnePerPath(t)
  <2> SUFFICES ASSUME NEW i \in 1..Len(t), NEW j \in 1..Len(t), t[i].at = t[j].at PROVE i = j
    BY DEF OnePerPath
  <2>1. \A k, l \in 1..Len(s) : s[k].at = s[l].at => k = l
    BY DEF Holds, OnePerPath
  <2> QED
    BY <1>3, <1>4, <2>1
<1>6. PICK N : N = {m \in M : m.at # e.at} \cup {e}
  OBVIOUS
<1>7. \A m : m \in M <=> \E i \in 1..Len(s) : m = s[i]
  BY DEF Holds, Elements
<1>8. \A m \in M : m.at # e.at
  BY <1>7
<1>9. N = M \cup {e} /\ e \notin M
  BY <1>6, <1>8
<1>10. N = Elements(t)
  <2>1. \A m \in N : \E i \in 1..Len(t) : m = t[i]
    BY <1>3, <1>4, <1>7, <1>9
  <2>2. \A i \in 1..Len(t) : t[i] \in N
    BY <1>3, <1>4, <1>7, <1>9
  <2> QED
    BY <2>1, <2>2 DEF Elements
<1>11. IsFiniteSet(N) /\ Cardinality(N) = Len(t)
  <2>1. IsFiniteSet(M) /\ Cardinality(M) = Len(s)
    BY DEF Holds
  <2>2. IsFiniteSet(M \cup {e}) /\ (e \notin M => Cardinality(M \cup {e}) = Cardinality(M) + 1)
    BY <2>1, FS_AddElement
  <2> QED
    BY <1>3, <1>9, <2>1, <2>2
<1>12. Holds(t, N)
  BY <1>3, <1>5, <1>10, <1>11 DEF Holds
<1> QED
  BY <1>2, <1>6, <1>12

\* The mounts of the other paths.
Others(M, v) == {m \in M : m.at # v}

LEMMA OthersAre ==
    ASSUME NEW s, NEW M, Holds(s, M), NEW k \in 1..Len(s), NEW x, x = s[k], NEW v, x.at = v
    PROVE  /\ Others(M, v) = M \ {x} /\ x \in M
           /\ IsFiniteSet(M \ {x}) /\ Cardinality(M \ {x}) = Len(s) - 1
           /\ \A m : m \in M \ {x} <=> \E i \in 1..Len(s) : i # k /\ m = s[i]
<1>1. /\ \A i, j \in 1..Len(s) : s[i].at = s[j].at => i = j
      /\ \A m : m \in M <=> \E i \in 1..Len(s) : m = s[i]
  BY DEF Holds, OnePerPath, Elements
<1>2. x \in M
  BY <1>1
<1>3. \A i \in 1..Len(s) : (s[i].at = v <=> s[i] = x) /\ (s[i] = x <=> i = k)
  BY <1>1
<1>4. Others(M, v) = M \ {x}
  BY <1>1, <1>3 DEF Others
<1>5. \A m : m \in M \ {x} <=> \E i \in 1..Len(s) : i # k /\ m = s[i]
  BY <1>1, <1>3
<1>6. IsFiniteSet(M) /\ Cardinality(M) = Len(s)
  BY DEF Holds
<1>7. IsFiniteSet(M \ {x}) /\ (x \in M => Cardinality(M \ {x}) = Cardinality(M) - 1)
  BY <1>6, FS_RemoveElement
<1> QED
  BY <1>2, <1>4, <1>5, <1>6, <1>7

LEMMA MountReplaced ==
    ASSUME NEW s, NEW M, Holds(s, M), NEW k \in 1..Len(s), NEW v, s[k].at = v,
           NEW e \in MountRec, e.at = v
    PROVE  Holds(ReplaceAt(s, k, e), Others(M, v) \cup {e})
<1>1. s \in Seq(MountRec) /\ Len(s) \in Nat
  <2>1. s \in Seq(MountRec)
    BY DEF Holds
  <2> QED
    BY <2>1
<1>2. PICK t : t = ReplaceAt(s, k, e)
  OBVIOUS
<1>3. /\ t \in Seq(MountRec) /\ Len(t) = Len(s) /\ t[k] = e
      /\ \A i \in 1..Len(s) : i # k => t[i] = s[i]
  BY <1>1, <1>2 DEF ReplaceAt
<1>5. PICK x : x = s[k]
  OBVIOUS
<1>6. /\ Others(M, v) = M \ {x} /\ x \in M
      /\ IsFiniteSet(M \ {x}) /\ Cardinality(M \ {x}) = Len(s) - 1
      /\ \A m : m \in M \ {x} <=> \E i \in 1..Len(s) : i # k /\ m = s[i]
  BY <1>5, OthersAre
<1>7. \A i, j \in 1..Len(s) : s[i].at = s[j].at => i = j
  BY DEF Holds, OnePerPath
<1>8. OnePerPath(t)
  <2>1. \A i \in 1..Len(s) : t[i].at = s[i].at
    BY <1>3
  <2> QED
    BY <1>3, <1>7, <2>1 DEF OnePerPath
<1>9. PICK N : N = Others(M, v) \cup {e}
  OBVIOUS
<1>10. N = (M \ {x}) \cup {e}
  BY <1>6, <1>9
<1>11. e \notin M \ {x}
  BY <1>6, <1>7
<1>12. N = Elements(t)
  <2>1. \A m \in N : \E i \in 1..Len(t) : m = t[i]
    BY <1>3, <1>6, <1>10
  <2>2. \A i \in 1..Len(t) : t[i] \in N
    BY <1>3, <1>6, <1>10
  <2> QED
    BY <2>1, <2>2 DEF Elements
<1>13. IsFiniteSet(N) /\ Cardinality(N) = Len(t)
  <2>1. PICK P : P = M \ {x}
    OBVIOUS
  <2>2. IsFiniteSet(P) /\ Cardinality(P) = Len(s) - 1 /\ e \notin P
    BY <1>6, <1>11, <2>1
  <2>3. IsFiniteSet(P \cup {e}) /\ (e \notin P => Cardinality(P \cup {e}) = Cardinality(P) + 1)
    BY <2>2, FS_AddElement
  <2> QED
    BY <1>1, <1>3, <1>10, <2>1, <2>2, <2>3
<1>14. Holds(t, N)
  BY <1>3, <1>8, <1>12, <1>13 DEF Holds
<1> QED
  BY <1>2, <1>9, <1>14

LEMMA MountRemoved ==
    ASSUME NEW s, NEW M, Holds(s, M), NEW k \in 1..Len(s), NEW v, s[k].at = v,
           NEW t, t = Front(IF k < Len(s) THEN ReplaceAt(s, k, Last(s)) ELSE s)
    PROVE  Holds(t, {m \in M : m.at # v})
<1>1. s \in Seq(MountRec) /\ Len(s) \in Nat /\ Len(s) >= 1
  <2>1. s \in Seq(MountRec)
    BY DEF Holds
  <2> QED
    BY <2>1
<1>2. PICK u : u = IF k < Len(s) THEN ReplaceAt(s, k, Last(s)) ELSE s
  OBVIOUS
<1>3. /\ u \in Seq(MountRec) /\ Len(u) = Len(s)
      /\ \A i \in 1..Len(s) : i # Len(s) => u[i] = IF i = k THEN s[Len(s)] ELSE s[i]
  <2>1. s[Len(s)] \in MountRec
    BY <1>1
  <2>2. CASE k < Len(s)
    <3>1. u = ReplaceAt(s, k, Last(s)) /\ Last(s) = s[Len(s)]
      BY <1>2, <2>2 DEF Last
    <3> QED
      BY <1>1, <2>1, <3>1 DEF ReplaceAt
  <2>3. CASE ~(k < Len(s))
    BY <1>1, <1>2, <2>3
  <2> QED
    BY <2>2, <2>3
<1>4. t = SubSeq(u, 1, Len(s) - 1)
  BY <1>2, <1>3 DEF Front
<1>5. /\ t \in Seq(MountRec) /\ Len(t) = Len(s) - 1
      /\ \A i \in 1..Len(s) - 1 : t[i] = IF i = k THEN s[Len(s)] ELSE s[i]
  <2>1. PICK n \in Nat : n = Len(s) - 1
    BY <1>1
  <2>2. \A i \in 1..n : u[i] \in MountRec /\ i \in 1..Len(s) /\ i # Len(s)
    BY <1>1, <1>3, <2>1
  <2>3. /\ SubSeq(u, 1, n) \in Seq(MountRec)
        /\ Len(SubSeq(u, 1, n)) = IF 1 <= n THEN n - 1 + 1 ELSE 0
        /\ \A i \in 1..n - 1 + 1 : SubSeq(u, 1, n)[i] = u[1 + i - 1]
    BY <2>2, SubSeqProperties
  <2>4. t = SubSeq(u, 1, n)
    BY <1>4, <2>1
  <2>5. t \in Seq(MountRec) /\ Len(t) = n /\ \A i \in 1..n : t[i] = u[i]
    <3>1. n - 1 + 1 = n /\ \A i \in 1..n : 1 + i - 1 = i
      OBVIOUS
    <3>2. t \in Seq(MountRec) /\ Len(t) = n
      <4>1. n < 1 => n = 0
        OBVIOUS
      <4> QED
        BY <2>3, <2>4, <3>1, <4>1
    <3>3. ASSUME NEW i \in 1..n PROVE t[i] = u[i]
      <4>1. t[i] = u[1 + i - 1]
        BY <2>3, <2>4, <3>1, Zenon
      <4> QED
        BY <3>1, <4>1, Zenon
    <3> QED
      BY <3>2, <3>3
  <2> QED
    BY <1>3, <2>1, <2>2, <2>5
<1>6. PICK x : x = s[k]
  OBVIOUS
<1>7. PICK N : N = Others(M, v)
  OBVIOUS
<1>8. /\ N = M \ {x} /\ x \in M
      /\ IsFiniteSet(M \ {x}) /\ Cardinality(M \ {x}) = Len(s) - 1
      /\ \A m : m \in M \ {x} <=> \E i \in 1..Len(s) : i # k /\ m = s[i]
  BY <1>6, <1>7, OthersAre
<1>9. \A i, j \in 1..Len(s) : s[i].at = s[j].at => i = j
  BY DEF Holds, OnePerPath
<1>10. ASSUME NEW i \in 1..Len(t)
       PROVE  \E j \in 1..Len(s) : j # k /\ t[i] = s[j] /\ j = IF i = k THEN Len(s) ELSE i
  BY <1>1, <1>5
<1>11. OnePerPath(t)
  <2> SUFFICES ASSUME NEW i \in 1..Len(t), NEW j \in 1..Len(t), t[i].at = t[j].at PROVE i = j
    BY DEF OnePerPath
  <2>1. PICK y \in 1..Len(s) : t[i] = s[y] /\ y = IF i = k THEN Len(s) ELSE i
    BY <1>10
  <2>2. PICK z \in 1..Len(s) : t[j] = s[z] /\ z = IF j = k THEN Len(s) ELSE j
    BY <1>10
  <2>3. y = z
    BY <1>9, <2>1, <2>2
  <2> QED
    BY <1>1, <1>5, <2>1, <2>2, <2>3
<1>12. N = Elements(t)
  <2>1. ASSUME NEW m \in N PROVE \E i \in 1..Len(t) : m = t[i]
    <3>1. PICK j \in 1..Len(s) : j # k /\ m = s[j]
      BY <1>8, <2>1
    <3>2. CASE j = Len(s)
      <4>1. k \in 1..Len(s) - 1
        BY <1>1, <3>1, <3>2
      <4>2. t[k] = s[Len(s)]
        BY <1>5, <4>1
      <4> QED
        BY <1>5, <3>1, <3>2, <4>1, <4>2
    <3>3. CASE j # Len(s)
      <4>1. j \in 1..Len(s) - 1
        BY <1>1, <3>1, <3>3
      <4>2. t[j] = s[j]
        BY <1>5, <3>1, <4>1
      <4> QED
        BY <1>5, <3>1, <4>1, <4>2
    <3> QED
      BY <3>2, <3>3
  <2>2. \A i \in 1..Len(t) : t[i] \in N
    BY <1>8, <1>10
  <2> QED
    BY <2>1, <2>2 DEF Elements
<1>13. Holds(t, N)
  BY <1>5, <1>8, <1>11, <1>12 DEF Holds
<1> QED
  BY <1>7, <1>13 DEF Others

\* The mounts and the capacity of their array.
MountInv ==
    /\ Holds(mounts, mounted)
    /\ mount_capacity \in Nat /\ Len(mounts) <= mount_capacity /\ mount_capacity <= MaxMounts

LEMMA MountsAre ==
    ASSUME MountInv
    PROVE  /\ mounts \in Seq(MountRec) /\ Len(mounts) \in Nat
           /\ \A i \in 1..Len(mounts) : mounts[i] \in MountRec
           /\ \A i, j \in 1..Len(mounts) : mounts[i].at = mounts[j].at => i = j
           /\ \A m : m \in mounted <=> \E i \in 1..Len(mounts) : m = mounts[i]
<1>1. mounts \in Seq(MountRec)
  BY DEF MountInv, Holds
<1>2. Len(mounts) \in Nat /\ \A i \in 1..Len(mounts) : mounts[i] \in MountRec
  BY <1>1
<1> QED
  BY <1>1, <1>2 DEF MountInv, Holds, OnePerPath, Elements

\* The search for a path in the array.
LEMMA SearchIs ==
    ASSUME MountInv, NEW v
    PROVE  \/ At(v) = 0 /\ \A i \in 1..Len(mounts) : mounts[i].at # v
           \/ At(v) \in 1..Len(mounts) /\ At(v) # 0 /\ mounts[At(v)].at = v
<1> DEFINE I == {i \in 1..Len(mounts) : mounts[i].at = v}
<1>1. At(v) = IF I # {} THEN Min(I) ELSE 0
  BY DEF At, SelectInSeq
<1>2. Len(mounts) \in Nat
  BY MountsAre
<1>3. CASE I = {}
  BY <1>1, <1>3
<1>4. CASE I # {}
  <2>1. I \in SUBSET (1..Len(mounts))
    OBVIOUS
  <2> HIDE DEF I
  <2>2. Min(I) \in I
    BY <1>2, <1>4, <2>1, FirstIs
  <2>3. Min(I) \in 1..Len(mounts) /\ mounts[Min(I)].at = v
    BY <2>2 DEF I
  <2>4. Min(I) # 0
    BY <1>2, <2>3
  <2> QED
    BY <1>1, <1>4, <2>3, <2>4
<1> QED
  BY <1>3, <1>4

\* The array has room for one more after it has grown.
LEMMA GrownIs ==
    ASSUME MountInv
    PROVE  Grown \in Nat /\ Len(mounts) < Grown
<1>1. Len(mounts) \in Nat /\ mount_capacity \in Nat /\ Len(mounts) <= mount_capacity
  BY MountsAre DEF MountInv
<1> QED
  BY <1>1, VfsAssumption DEF Grown

LEMMA MountInvInit == VfsInit => MountInv
<1> SUFFICES ASSUME VfsInit PROVE MountInv
  OBVIOUS
<1>1. Len(<<>>) = 0
  OBVIOUS
<1> QED
  BY <1>1, NoMounts, VfsAssumption DEF VfsInit, MountInv

LEMMA MountStep == ASSUME MountInv, NEW new \in MountRec, Mount(new) PROVE MountInv'
<1>1. Grown \in Nat /\ Len(mounts) < Grown /\ Grown <= MaxMounts /\ Len(mounts) \in Nat
  BY GrownIs, MountsAre DEF Mount
<1>2. Holds(mounts, mounted)
  BY DEF MountInv
<1>3. PICK v : v = new.at
  OBVIOUS
<1>4. mounted' = Others(mounted, v) \cup {new} /\ mount_capacity' = Grown /\ mounts' = Placed(new)
  BY <1>3 DEF Mount, Others
<1>5. CASE At(v) = 0
  <2>1. \A i \in 1..Len(mounts) : mounts[i].at # new.at
    BY <1>1, <1>3, <1>5, SearchIs
  <2>2. Holds(Append(mounts, new), {m \in mounted : m.at # new.at} \cup {new})
    BY <1>2, <2>1, MountAppended
  <2>3. mounts' = Append(mounts, new)
    BY <1>3, <1>4, <1>5 DEF Placed
  <2>4. Holds(mounts', mounted')
    BY <1>3, <1>4, <2>2, <2>3 DEF Others
  <2>5. Len(mounts') = Len(mounts) + 1
    BY <2>3, MountsAre
  <2> QED
    BY <1>1, <1>4, <2>4, <2>5 DEF MountInv
<1>6. CASE At(v) # 0
  <2>1. PICK k \in 1..Len(mounts) : k = At(v) /\ mounts[k].at = v
    BY <1>6, SearchIs
  <2>2. Holds(ReplaceAt(mounts, k, new), Others(mounted, v) \cup {new})
    BY <1>2, <1>3, <2>1, MountReplaced
  <2>3. mounts' = ReplaceAt(mounts, k, new)
    BY <1>3, <1>4, <1>6, <2>1 DEF Placed
  <2>4. Holds(mounts', mounted')
    BY <1>4, <2>2, <2>3
  <2>5. Len(mounts') = Len(mounts)
    BY <2>1, <2>3, MountsAre DEF ReplaceAt
  <2> QED
    BY <1>1, <1>4, <2>4, <2>5 DEF MountInv
<1> QED
  BY <1>5, <1>6

LEMMA UnmountStep == ASSUME MountInv, NEW v, Unmount(v) PROVE MountInv'
<1>1. Holds(mounts, mounted) /\ Len(mounts) \in Nat
  BY MountsAre DEF MountInv
<1>2. PICK k \in 1..Len(mounts) : k = At(v) /\ mounts[k].at = v
  BY SearchIs DEF Unmount
<1>3. PICK t : t = Front(IF k < Len(mounts) THEN ReplaceAt(mounts, k, Last(mounts)) ELSE mounts)
  OBVIOUS
<1>4. mounts' = t /\ mounted' = Others(mounted, v) /\ mount_capacity' = mount_capacity
  BY <1>2, <1>3 DEF Unmount, Removed, Others
<1>5. Holds(t, Others(mounted, v))
  BY <1>1, <1>2, <1>3, MountRemoved DEF Others
<1>6. Len(t) <= Len(mounts)
  <2>1. Cardinality(Others(mounted, v)) = Len(t) /\ Others(mounted, v) \subseteq mounted
    BY <1>5 DEF Holds, Others
  <2>2. IsFiniteSet(mounted) /\ Cardinality(mounted) = Len(mounts)
    BY <1>1 DEF Holds
  <2>3. Cardinality(Others(mounted, v)) <= Cardinality(mounted)
    BY <2>1, <2>2, FS_Subset
  <2> QED
    BY <2>1, <2>2, <2>3
<1>7. Len(t) \in Nat
  <2>1. t \in Seq(MountRec)
    BY <1>5 DEF Holds
  <2> QED
    BY <2>1
<1>8. Holds(mounts', mounted')
  BY <1>4, <1>5
<1> QED
  BY <1>1, <1>4, <1>6, <1>7, <1>8, VfsAssumption DEF MountInv

LEMMA MountInvNext == MountInv /\ [VfsNext]_vfsVars => MountInv'
<1> SUFFICES ASSUME MountInv, [VfsNext]_vfsVars PROVE MountInv'
  OBVIOUS
<1>1. ASSUME NEW v \in VirtualPaths, NEW h \in Hosts, NEW ro \in BOOLEAN,
             Mount([at |-> v, host |-> h, ro |-> ro])
      PROVE  MountInv'
  <2>1. [at |-> v, host |-> h, ro |-> ro] \in MountRec
    BY DEF MountRec
  <2> QED
    BY <1>1, <2>1, MountStep
<1>2. ASSUME NEW v \in VirtualPaths, Unmount(v) PROVE MountInv'
  BY <1>2, UnmountStep
<1>3. CASE MountFails
  <2>1. Grown \in Nat /\ Len(mounts) < Grown /\ Len(mounts) \in Nat
    BY GrownIs, MountsAre
  <2> QED
    BY <1>3, <2>1 DEF MountFails, MountInv
<1>4. CASE VfsCleanup
  <2>1. Len(<<>>) = 0
    OBVIOUS
  <2> QED
    BY <1>4, <2>1, NoMounts, VfsAssumption DEF VfsCleanup, MountInv
<1>5. CASE UNCHANGED vfsVars
  BY <1>5 DEF vfsVars, MountInv
<1> QED
  BY <1>1, <1>2, <1>3, <1>4, <1>5 DEF VfsNext

-----------------------------------------------------------------------------
(* Resolving.                                                              *)

\* The i-th mount covers the path; the length of its own.
Match(i, q) == Covers(mounts[i].at, q)
Long(i) == Length(mounts[i].at)

LEMMA LongIs == ASSUME MountInv PROVE \A i \in 1..Len(mounts) : Long(i) \in Nat
<1> SUFFICES ASSUME NEW i \in 1..Len(mounts) PROVE Long(i) \in Nat
  OBVIOUS
<1>1. mounts[i].at \in [parts : Seq(STRING), slash : BOOLEAN]
  BY MountsAre, VfsAssumption DEF MountRec
<1>2. mounts[i].at.parts \in Seq(STRING)
  BY <1>1
<1>3. PICK n \in Nat : n = Len(mounts[i].at.parts)
  BY <1>2
<1>4. PICK k \in 0..1 : k = IF mounts[i].at.slash THEN 1 ELSE 0
  OBVIOUS
<1>5. Long(i) = 2 * n + k
  BY <1>3, <1>4 DEF Long, Length
<1> QED
  BY <1>5

\* One step of the search for the best mount, and the equation of the search.
BestStep(q, i, b) == IF Match(i, q) /\ (b # 0 => Long(i) > Long(b)) THEN i ELSE b
BestEquation(q, f) ==
    f = [i \in 0..Len(mounts) |-> IF i = 0 THEN 0 ELSE BestStep(q, i, f[i - 1])]

\* b is the best of the first n mounts.
BestOf(q, n, b) ==
    \/ b = 0 /\ \A i \in 1..n : ~Match(i, q)
    \/ b \in 1..n /\ Match(b, q) /\ \A i \in 1..n : Match(i, q) => Long(i) <= Long(b)

LEMMA BestIs == ASSUME MountInv, NEW q PROVE BestOf(q, Len(mounts), BestMount(q))
<1> DEFINE F == CHOOSE f : BestEquation(q, f)
<1>1. BestMount(q) = F[Len(mounts)]
  BY DEF BestMount, BestEquation, BestStep, Match, Long
<1>2. PICK c \in Nat : c = Len(mounts)
  BY MountsAre
<1> DEFINE T == 0..c
           s == [p \in (1..c) \X T |-> BestStep(q, p[1], p[2])]
<1>3. ASSUME NEW n \in 1..c, NEW b \in T PROVE BestStep(q, n, b) \in T
  BY <1>2 DEF BestStep
<1>4. 0 \in T
  BY <1>2
<1> HIDE DEF T
<1>5. s \in [(1..c) \X T -> T] /\ \A n \in 1..c, b \in T : s[<<n, b>>] = BestStep(q, n, b)
  BY <1>3
<1> HIDE DEF s
<1>6. PICK g \in [0..c -> T] : g[0] = 0 /\ \A n \in 1..c : g[n] = s[<<n, g[n - 1]>>]
  <2>1. s \in [(1..c) \X T -> T]
    BY <1>5
  <2> DEFINE a == 0
  <2>2. a \in T
    BY <1>4
  <2> HIDE DEF a
  <2>3. \E f : Computed(f, c, T, a, s)
    BY <2>1, <2>2, Recursion
  <2> QED
    BY <2>3 DEF Computed, a
<1>7. \A n \in 1..c : g[n] = BestStep(q, n, g[n - 1])
  <2> SUFFICES ASSUME NEW n \in 1..c PROVE g[n] = BestStep(q, n, g[n - 1])
    OBVIOUS
  <2>1. g[n - 1] \in T
    BY <1>6
  <2> QED
    BY <1>5, <1>6, <2>1
<1>8. BestEquation(q, g)
  <2> DEFINE h == [n \in 0..c |-> IF n = 0 THEN 0 ELSE BestStep(q, n, g[n - 1])]
  <2>1. \A n \in 0..c : g[n] = h[n]
    BY <1>6, <1>7
  <2>2. g = h
    BY <1>6, <2>1
  <2> QED
    BY <1>2, <2>2 DEF BestEquation
<1>9. BestEquation(q, F)
  BY <1>8
<1> HIDE DEF F
<1>10. F[0] = 0 /\ \A n \in 1..c : F[n] = BestStep(q, n, F[n - 1])
  BY <1>2, <1>9 DEF BestEquation
<1> DEFINE I == {n \in 0..c : BestOf(q, n, F[n])}
<1>11. 0 \in I
  BY <1>10 DEF BestOf
<1>12. ASSUME NEW n \in I, n < c PROVE n + 1 \in I
  <2>1. n \in Nat /\ n + 1 \in 1..c /\ n + 1 - 1 = n /\ BestOf(q, n, F[n])
    BY <1>12
  <2>2. F[n + 1] = BestStep(q, n + 1, F[n])
    BY <1>10, <2>1
  <2>3. PICK b : b = F[n]
    OBVIOUS
  <2>4. \A i \in 1..(n + 1) : i \in 1..n \/ i = n + 1
    BY <2>1
  <2>5. \A i \in 1..(n + 1) : Long(i) \in Nat
    BY <1>2, <2>1, LongIs
  <2>6. CASE b = 0 /\ \A i \in 1..n : ~Match(i, q)
    <3>1. BestStep(q, n + 1, b) = IF Match(n + 1, q) THEN n + 1 ELSE 0
      BY <2>6 DEF BestStep
    <3>2. BestOf(q, n + 1, BestStep(q, n + 1, b))
      <4>1. CASE Match(n + 1, q)
        BY <2>1, <2>4, <2>5, <2>6, <3>1, <4>1 DEF BestOf
      <4>2. CASE ~Match(n + 1, q)
        BY <2>1, <2>4, <2>6, <3>1, <4>2 DEF BestOf
      <4> QED
        BY <4>1, <4>2
    <3> QED
      BY <2>1, <2>2, <2>3, <3>2
  <2>7. CASE b \in 1..n /\ Match(b, q) /\ \A i \in 1..n : Match(i, q) => Long(i) <= Long(b)
    <3>1. b # 0 /\ b \in 1..(n + 1)
      BY <2>1, <2>7
    <3>2. BestOf(q, n + 1, BestStep(q, n + 1, b))
      <4>1. CASE Match(n + 1, q) /\ Long(n + 1) > Long(b)
        <5>1. BestStep(q, n + 1, b) = n + 1
          BY <4>1 DEF BestStep
        <5>2. \A i \in 1..(n + 1) : Match(i, q) => Long(i) <= Long(n + 1)
          <6>1. Long(n + 1) \in Nat /\ Long(b) \in Nat
            BY <2>1, <2>5, <3>1
          <6> QED
            BY <2>4, <2>5, <2>7, <4>1, <6>1
        <5> QED
          BY <2>1, <4>1, <5>1, <5>2 DEF BestOf
      <4>2. CASE ~(Match(n + 1, q) /\ Long(n + 1) > Long(b))
        <5>1. BestStep(q, n + 1, b) = b
          BY <3>1, <4>2 DEF BestStep
        <5>2. \A i \in 1..(n + 1) : Match(i, q) => Long(i) <= Long(b)
          <6>1. Long(n + 1) \in Nat /\ Long(b) \in Nat
            BY <2>1, <2>5, <3>1
          <6> QED
            BY <2>4, <2>7, <4>2, <6>1
        <5> QED
          BY <2>7, <3>1, <5>1, <5>2 DEF BestOf
      <4> QED
        BY <4>1, <4>2
    <3> QED
      BY <2>1, <2>2, <2>3, <3>2
  <2> QED
    BY <2>1, <2>3, <2>6, <2>7 DEF BestOf
<1>13. I \in SUBSET (0..c)
  OBVIOUS
<1> HIDE DEF I
<1>14. c \in I
  BY <1>11, <1>12, <1>13, ReachesEnd
<1> QED
  BY <1>1, <1>2, <1>14 DEF I

\* The first mount the access check comes to.
FirstMatch(q) == SelectInSeq(mounts, LAMBDA m : Covers(m.at, q))

LEMMA FirstMatchIs ==
    ASSUME MountInv, NEW q, NEW hit, hit = FirstMatch(q)
    PROVE  \/ hit = 0 /\ \A i \in 1..Len(mounts) : ~Match(i, q)
           \/ hit \in 1..Len(mounts) /\ hit # 0 /\ Match(hit, q)
<1> DEFINE I == {i \in 1..Len(mounts) : Covers(mounts[i].at, q)}
<1>1. hit = IF I # {} THEN Min(I) ELSE 0
  BY DEF FirstMatch, SelectInSeq
<1>2. Len(mounts) \in Nat
  BY MountsAre
<1>3. CASE I = {}
  BY <1>1, <1>3 DEF Match
<1>4. CASE I # {}
  <2>1. I \in SUBSET (1..Len(mounts))
    OBVIOUS
  <2> HIDE DEF I
  <2>2. Min(I) \in I
    BY <1>2, <1>4, <2>1, FirstIs
  <2>3. Min(I) \in 1..Len(mounts) /\ Covers(mounts[Min(I)].at, q)
    BY <2>2 DEF I
  <2>4. Min(I) # 0
    BY <1>2, <2>3
  <2> QED
    BY <1>1, <1>4, <2>3, <2>4 DEF Match
<1> QED
  BY <1>3, <1>4

\* What is below a mount is part of the path.
LEMMA BelowIs ==
    ASSUME MountInv, NEW k \in 1..Len(mounts), NEW q \in Queries,
           NEW i \in DOMAIN Below(mounts[k], q)
    PROVE  \E j \in DOMAIN q.parts : Below(mounts[k], q)[i] = q.parts[j]
<1>1. mounts[k].at.parts \in Seq(STRING) /\ q.parts \in Seq(STRING)
  BY MountsAre, VfsAssumption DEF MountRec
<1>2. PICK n \in Nat : n = Len(mounts[k].at.parts)
  BY <1>1
<1>3. PICK p \in Seq(STRING) : p = q.parts
  BY <1>1
<1>4. PICK s : s = SubSeq(p, n + 1, Len(p))
  OBVIOUS
<1>5. Below(mounts[k], q) = s
  BY <1>2, <1>3, <1>4 DEF Below
<1>6. Len(p) \in Nat /\ DOMAIN p = 1..Len(p) /\ \A j \in 1..Len(p) : p[j] \in STRING
  OBVIOUS
<1>7. \A j \in n + 1..Len(p) : p[j] \in STRING
  BY <1>6
<1>8. /\ SubSeq(p, n + 1, Len(p)) \in Seq(STRING)
      /\ Len(SubSeq(p, n + 1, Len(p))) = IF n + 1 <= Len(p) THEN Len(p) - (n + 1) + 1 ELSE 0
      /\ \A j \in 1..Len(p) - (n + 1) + 1 : SubSeq(p, n + 1, Len(p))[j] = p[n + 1 + j - 1]
  BY <1>6, <1>7, SubSeqProperties
<1>9. /\ DOMAIN s = 1..Len(s) /\ Len(s) = IF n + 1 <= Len(p) THEN Len(p) - n ELSE 0
      /\ \A j \in 1..Len(p) - n : s[j] = p[n + j]
  <2>1. s \in Seq(STRING)
    BY <1>4, <1>8
  <2>2. Len(s) = IF n + 1 <= Len(p) THEN Len(p) - (n + 1) + 1 ELSE 0
    BY <1>4, <1>8
  <2>3. \A j \in 1..Len(p) - (n + 1) + 1 : s[j] = p[n + 1 + j - 1]
    BY <1>4, <1>8
  <2>4. Len(p) - (n + 1) + 1 = Len(p) - n /\ \A j \in 1..Len(p) - n : n + 1 + j - 1 = n + j
    BY <1>6
  <2>5. \A j \in 1..Len(p) - n : s[j] = p[n + j]
    BY <2>3, <2>4
  <2>6. DOMAIN s = 1..Len(s)
    BY <2>1
  <2>7. Len(s) = IF n + 1 <= Len(p) THEN Len(p) - n ELSE 0
    <3>1. CASE n + 1 <= Len(p)
      <4>1. Len(s) = Len(p) - (n + 1) + 1
        BY <2>2, <3>1
      <4> QED
        BY <2>4, <3>1, <4>1
    <3>2. CASE ~(n + 1 <= Len(p))
      BY <2>2, <3>2
    <3> QED
      BY <3>1, <3>2
  <2> QED
    BY <2>5, <2>6, <2>7
<1>10. \A j \in 1..Len(s) : j \in 1..Len(p) - n /\ n + j \in 1..Len(p)
  <2>1. PICK l \in Nat : l = Len(p)
    BY <1>6
  <2>2. PICK k1 : k1 = Len(s)
    OBVIOUS
  <2>3. k1 = IF n + 1 <= l THEN l - n ELSE 0
    BY <1>9, <2>1, <2>2
  <2>4. \A j \in 1..k1 : j \in 1..l - n /\ n + j \in 1..l
    BY <2>3
  <2> QED
    BY <2>1, <2>2, <2>4
<1>11. PICK j \in 1..Len(s) : j = i
  BY <1>5, <1>9
<1>12. n + j \in DOMAIN q.parts /\ s[j] = q.parts[n + j]
  BY <1>3, <1>6, <1>9, <1>10
<1> QED
  BY <1>5, <1>11, <1>12

LEMMA MountInvImplies == MountInv => MountsResolve
<1> SUFFICES ASSUME MountInv PROVE MountsResolve
  OBVIOUS
<1>1. /\ Len(mounts) <= mount_capacity /\ mount_capacity <= MaxMounts
      /\ ToSet(mounts) = mounted /\ Len(mounts) = Cardinality(mounted)
  <2>1. DOMAIN mounts = 1..Len(mounts)
    BY MountsAre
  <2>2. ToSet(mounts) = mounted
    BY <2>1, MountsAre DEF ToSet
  <2> QED
    BY <2>2 DEF MountInv, Holds
<1>2. ASSUME NEW q \in Queries, NEW above, above = {m \in mounted : Covers(m.at, q)}
      PROVE  /\ ember_vfs_resolve(q) # <<>> =>
                  /\ is_safe(q)
                  /\ \E m \in above :
                       /\ \A n \in above : Length(n.at) <= Length(m.at)
                       /\ ember_vfs_resolve(q) = <<m.host, Below(m, q)>>
             /\ above # {} /\ is_safe(q) /\ ~(\E i \in DOMAIN q.parts : q.parts[i] \in LinksOut) =>
                  ember_vfs_resolve(q) # <<>>
             /\ \A m \in above : above = {m} => ember_vfs_check_access(q, TRUE) = ~m.ro
             /\ above = {} => ~ember_vfs_check_access(q, FALSE)
  <2>1. /\ \A i \in 1..Len(mounts) : Match(i, q) => mounts[i] \in above
        /\ \A m \in above : \E i \in 1..Len(mounts) : m = mounts[i] /\ Match(i, q)
    BY <1>2, MountsAre DEF Match
  <2>2. PICK b : b = BestMount(q)
    OBVIOUS
  <2>3. BestOf(q, Len(mounts), b)
    BY <2>2, BestIs
  <2>4. ember_vfs_resolve(q) =
            IF ~is_safe(q) \/ b = 0 THEN <<>>
            ELSE IF \E i \in DOMAIN Below(mounts[b], q) : Below(mounts[b], q)[i] \in LinksOut THEN <<>>
            ELSE <<mounts[b].host, Below(mounts[b], q)>>
    BY <2>2 DEF ember_vfs_resolve
  <2>5. ASSUME ember_vfs_resolve(q) # <<>>
        PROVE  /\ is_safe(q)
               /\ \E m \in above :
                    /\ \A n \in above : Length(n.at) <= Length(m.at)
                    /\ ember_vfs_resolve(q) = <<m.host, Below(m, q)>>
    <3>1. /\ is_safe(q) /\ b # 0
          /\ ember_vfs_resolve(q) = <<mounts[b].host, Below(mounts[b], q)>>
      BY <2>4, <2>5
    <3>2. /\ b \in 1..Len(mounts) /\ Match(b, q)
          /\ \A i \in 1..Len(mounts) : Match(i, q) => Long(i) <= Long(b)
      BY <2>3, <3>1 DEF BestOf
    <3>3. \A n \in above : Length(n.at) <= Length(mounts[b].at)
      BY <2>1, <3>2 DEF Long
    <3> QED
      BY <2>1, <3>1, <3>2, <3>3
  <2>6. ASSUME above # {}, is_safe(q), ~(\E i \in DOMAIN q.parts : q.parts[i] \in LinksOut)
        PROVE  ember_vfs_resolve(q) # <<>>
    <3>1. b # 0 /\ b \in 1..Len(mounts)
      BY <2>1, <2>3, <2>6 DEF BestOf
    <3>2. ~(\E i \in DOMAIN Below(mounts[b], q) : Below(mounts[b], q)[i] \in LinksOut)
      BY <2>6, <3>1, BelowIs
    <3>3. ember_vfs_resolve(q) = <<mounts[b].host, Below(mounts[b], q)>>
      BY <2>4, <2>6, <3>1, <3>2
    <3> QED
      BY <3>3
  <2>7. PICK hit : hit = FirstMatch(q)
    OBVIOUS
  <2>8. \/ hit = 0 /\ \A i \in 1..Len(mounts) : ~Match(i, q)
        \/ hit \in 1..Len(mounts) /\ hit # 0 /\ Match(hit, q)
    BY <2>7, FirstMatchIs
  <2>9. \A w : ember_vfs_check_access(q, w) <=> hit # 0 /\ ~(w /\ mounts[hit].ro)
    BY <2>7 DEF ember_vfs_check_access, FirstMatch
  <2>10. ASSUME NEW m \in above, above = {m}
         PROVE  ember_vfs_check_access(q, TRUE) = ~m.ro
    <3>1. hit # 0 /\ mounts[hit] = m
      BY <2>1, <2>8, <2>10
    <3> QED
      BY <2>9, <3>1 DEF ember_vfs_check_access
  <2>11. ASSUME above = {} PROVE ~ember_vfs_check_access(q, FALSE)
    <3>1. hit = 0
      BY <2>1, <2>8, <2>11
    <3> QED
      BY <2>9, <3>1
  <2> QED
    BY <2>5, <2>6, <2>10, <2>11
<1> QED
  BY <1>1, <1>2 DEF MountsResolve

\* However mounts were added, replaced, removed and moved within the array, a
\* safe path resolves to the host directory last mounted at the deepest mount
\* point above it, and the access check goes by the mount's flag when only one
\* covers the path; for any paths, hosts and limits.
THEOREM MountsResolveHolds == VfsSpec => []MountsResolve
<1>1. VfsSpec => []MountInv
  BY MountInvInit, MountInvNext, PTL DEF VfsSpec
<1> QED
  BY <1>1, MountInvImplies, PTL

-----------------------------------------------------------------------------
(* The testing framework.                                                  *)

Answers == {"yes", "no"}
SuiteRec == [tests : Seq(Statuses), count : [Statuses -> Nat]]
VerdictRec == [failed : Answers, error : Answers]
Outcomes == {"error", "fail", "pass"}

\* The counters of a suite are those of the verdicts vs.
CountsAre(suite, vs) == \A o \in Outcomes : suite.count[o] = Cardinality(TestsWith(o, vs))

\* A total is positive only with a counter of some suite, and, after a run that
\* went through all suites, with every positive counter.
TestInv ==
    /\ suites \in Seq(SuiteRec) /\ verdicts \in Seq(Seq(VerdictRec))
    /\ Len(verdicts) = Len(suites)
    /\ current \in 0..Len(suites) /\ vm_error \in Answers /\ log \in Answers
    /\ status = IF log = "yes" THEN "fail" ELSE "pass"
    /\ \A s \in 1..Len(suites) : CountsAre(suites[s], verdicts[s])
    /\ totals \in [Statuses -> Nat] /\ runs \in [number : Nat, complete : Answers]
    /\ \A o \in Statuses : totals[o] > 0 => \E s \in 1..Len(suites) : suites[s].count[o] > 0
    /\ runs.complete = "yes" =>
         \A o \in Statuses : \A s \in 1..Len(suites) : suites[s].count[o] > 0 => totals[o] > 0

\* run_all adds up all suites or some at the front.
LEMMA AddedIs ==
    ASSUME NEW c \in Nat, c = Len(suites), DOMAIN suites = 1..c
    PROVE  Added \in 0..c
<1> DEFINE stopping == {i \in DOMAIN suites : Stops(suites[i])}
<1>1. Added = IF stopping = {} THEN c ELSE Min(stopping) - 1
  BY DEF Added
<1>2. stopping \in SUBSET (1..c)
  OBVIOUS
<1> HIDE DEF stopping
<1>3. CASE stopping = {}
  BY <1>1, <1>3
<1>4. CASE stopping # {}
  <2>1. stopping \in SUBSET Nat
    BY <1>2
  <2>2. PICK m \in stopping : \A k \in stopping : m <= k
    BY <1>4, <2>1, Smallest
  <2>3. Min(stopping) = m
    BY <2>1, <2>2, MinIs
  <2>4. m \in 1..c
    BY <1>2
  <2> QED
    BY <1>1, <1>4, <2>3, <2>4
<1> QED
  BY <1>3, <1>4

SumEquation(o, n, f) == f = [i \in 0..n |-> IF i = 0 THEN 0 ELSE f[i - 1] + suites[i].count[o]]

\* The sum is positive exactly when one of the counters added up is.
LEMMA SumIs ==
    ASSUME NEW c \in Nat, Added = c, NEW o \in Statuses,
           \A i \in 1..c : suites[i].count[o] \in Nat
    PROVE  /\ Sums[o] \in Nat
           /\ Sums[o] > 0 <=> \E i \in 1..c : suites[i].count[o] > 0
<1> DEFINE F == CHOOSE f : SumEquation(o, c, f)
           X(i) == suites[i].count[o]
<1>1. Sums[o] = F[c]
  BY DEF Sums, SumEquation
<1> DEFINE s == [p \in (1..c) \X Nat |-> p[2] + X(p[1])]
<1>2. \A i \in 1..c : X(i) \in Nat
  OBVIOUS
<1> HIDE DEF X
<1>3. s \in [(1..c) \X Nat -> Nat] /\ \A n \in 1..c, b \in Nat : s[<<n, b>>] = b + X(n)
  BY <1>2
<1> HIDE DEF s
<1>4. PICK g \in [0..c -> Nat] : g[0] = 0 /\ \A n \in 1..c : g[n] = s[<<n, g[n - 1]>>]
  <2>1. s \in [(1..c) \X Nat -> Nat]
    BY <1>3
  <2> DEFINE a == 0
  <2>2. a \in Nat
    OBVIOUS
  <2> HIDE DEF a
  <2>3. \E f : Computed(f, c, Nat, a, s)
    BY <2>1, <2>2, Recursion
  <2> QED
    BY <2>3 DEF Computed, a
<1>5. \A n \in 1..c : g[n] = g[n - 1] + X(n)
  <2> SUFFICES ASSUME NEW n \in 1..c PROVE g[n] = g[n - 1] + X(n)
    OBVIOUS
  <2>1. g[n - 1] \in Nat
    BY <1>4
  <2> QED
    BY <1>3, <1>4, <2>1
<1>6. SumEquation(o, c, g)
  <2> DEFINE h == [i \in 0..c |-> IF i = 0 THEN 0 ELSE g[i - 1] + X(i)]
  <2>1. \A n \in 0..c : g[n] = h[n]
    BY <1>4, <1>5
  <2>2. g = h
    BY <1>4, <2>1
  <2> QED
    BY <2>2 DEF SumEquation, X
<1>7. SumEquation(o, c, F)
  BY <1>6
<1> HIDE DEF F
<1>8. F[0] = 0 /\ \A n \in 1..c : F[n] = F[n - 1] + X(n)
  BY <1>7 DEF SumEquation, X
<1> DEFINE Right(n) == F[n] \in Nat /\ (F[n] > 0 <=> \E i \in 1..n : X(i) > 0)
           I == {n \in 0..c : Right(n)}
<1>9. 0 \in I
  BY <1>8
<1>10. ASSUME NEW n \in I, n < c PROVE n + 1 \in I
  <2>1. n \in Nat /\ n + 1 \in 1..c /\ n + 1 - 1 = n /\ n + 1 \in 0..c /\ Right(n)
    BY <1>10
  <2>2. F[n + 1] = F[n] + X(n + 1) /\ X(n + 1) \in Nat
    BY <1>2, <1>8, <2>1
  <2>3. \A i : i \in 1..(n + 1) <=> i \in 1..n \/ i = n + 1
    BY <2>1
  <2>4. F[n] \in Nat /\ (F[n] > 0 <=> \E i \in 1..n : X(i) > 0)
    BY <2>1
  <2>5. F[n + 1] \in Nat /\ (F[n + 1] > 0 <=> F[n] > 0 \/ X(n + 1) > 0)
    BY <2>2, <2>4
  <2>6. (\E i \in 1..(n + 1) : X(i) > 0) <=> (\E i \in 1..n : X(i) > 0) \/ X(n + 1) > 0
    BY <2>3
  <2>7. Right(n + 1)
    BY <2>4, <2>5, <2>6
  <2> QED
    BY <2>1, <2>7
<1>11. I \in SUBSET (0..c)
  OBVIOUS
<1> HIDE DEF I
<1>12. c \in I
  BY <1>9, <1>10, <1>11, ReachesEnd
<1>13. Right(c)
  BY <1>12 DEF I
<1> QED
  BY <1>1, <1>13 DEF X

\* One more verdict is counted under its outcome and no other.
LEMMA WithAppended ==
    ASSUME NEW vs \in Seq(VerdictRec), NEW v \in VerdictRec, NEW o
    PROVE  /\ Cardinality(TestsWith(o, vs)) \in Nat
           /\ Cardinality(TestsWith(o, Append(vs, v))) =
                Cardinality(TestsWith(o, vs)) + IF Outcome(v) = o THEN 1 ELSE 0
<1> DEFINE w == Append(vs, v)
<1>1. PICK n \in Nat : n = Len(vs) /\ DOMAIN vs = 1..n
  BY LenProperties
<1>2. DOMAIN w = 1..(n + 1) /\ w[n + 1] = v /\ \A i \in 1..n : w[i] = vs[i]
  BY <1>1, AppendProperties
<1> HIDE DEF w
<1>3. TestsWith(o, vs) \in SUBSET (1..n) /\ n + 1 \notin TestsWith(o, vs)
  BY <1>1 DEF TestsWith
<1>4. IsFiniteSet(TestsWith(o, vs))
  <2>1. IsFiniteSet(1..n)
    BY FS_Interval
  <2> QED
    BY <1>3, <2>1, FS_Subset
<1>5. TestsWith(o, w) = IF Outcome(v) = o THEN TestsWith(o, vs) \cup {n + 1} ELSE TestsWith(o, vs)
  <2>1. \A i : i \in 1..(n + 1) <=> i \in 1..n \/ i = n + 1
    OBVIOUS
  <2> QED
    BY <1>1, <1>2, <2>1 DEF TestsWith
<1>6. Cardinality(TestsWith(o, vs)) \in Nat
  BY <1>4, FS_CardinalityType
<1>7. Cardinality(TestsWith(o, vs) \cup {n + 1}) = Cardinality(TestsWith(o, vs)) + 1
  BY <1>3, <1>4, FS_AddElement
<1> QED
  BY <1>5, <1>6, <1>7 DEF w

LEMMA TestInvInit == TestInit => TestInv
<1> SUFFICES ASSUME TestInit PROVE TestInv
  OBVIOUS
<1>1. suites = <<>> /\ verdicts = <<>> /\ totals = Zero
  BY DEF TestInit
<1>2. suites \in Seq(SuiteRec) /\ verdicts \in Seq(Seq(VerdictRec)) /\ Len(suites) = 0 /\ Len(verdicts) = 0
  BY <1>1
<1>3. totals \in [Statuses -> Nat] /\ \A o \in Statuses : ~(totals[o] > 0)
  BY <1>1 DEF Zero
<1>4. 1..0 = {}
  OBVIOUS
<1> QED
  BY <1>2, <1>3, <1>4 DEF TestInit, TestInv, Answers

LEMMA AddSuiteKeeps == ASSUME TestInv, AddSuite PROVE TestInv'
<1>1. PICK c \in Nat : c = Len(suites) /\ DOMAIN suites = 1..c /\ c = Len(verdicts) /\ DOMAIN verdicts = 1..c
  BY LenProperties DEF TestInv
<1>2. NewSuite \in SuiteRec /\ <<>> \in Seq(VerdictRec) /\ \A o \in Statuses : NewSuite.count[o] = 0
  BY DEF NewSuite, SuiteRec, Zero
<1>3. /\ suites' \in Seq(SuiteRec) /\ Len(suites') = c + 1 /\ suites'[c + 1] = NewSuite
      /\ \A s \in 1..c : suites'[s] = suites[s]
  <2>1. suites \in Seq(SuiteRec) /\ suites' = Append(suites, NewSuite)
    BY DEF TestInv, AddSuite
  <2> QED
    BY <1>1, <1>2, <2>1, AppendProperties
<1>4. /\ verdicts' \in Seq(Seq(VerdictRec)) /\ Len(verdicts') = c + 1 /\ verdicts'[c + 1] = <<>>
      /\ \A s \in 1..c : verdicts'[s] = verdicts[s]
  <2>1. verdicts \in Seq(Seq(VerdictRec)) /\ verdicts' = Append(verdicts, <<>>)
    BY DEF TestInv, AddSuite
  <2> QED
    BY <1>1, <1>2, <2>1, AppendProperties
<1>5. \A s \in 1..(c + 1) : s \in 1..c \/ s = c + 1
  BY <1>1
<1>6. CountsAre(NewSuite, <<>>)
  <2>1. \A o : TestsWith(o, <<>>) = {}
    BY DEF TestsWith
  <2>2. Cardinality({}) = 0
    BY FS_EmptySet
  <2> QED
    BY <1>2, <2>1, <2>2 DEF CountsAre, Outcomes, Statuses
<1>7. \A s \in 1..(c + 1) : CountsAre(suites'[s], verdicts'[s])
  BY <1>1, <1>3, <1>4, <1>5, <1>6 DEF TestInv
<1>8. UNCHANGED <<current, status, vm_error, log, totals, runs>>
  BY DEF AddSuite
<1>9. \A o \in Statuses : totals'[o] > 0 => \E s \in 1..(c + 1) : suites'[s].count[o] > 0
  <2>1. \A s \in 1..c : s \in 1..(c + 1)
    OBVIOUS
  <2> QED
    BY <1>1, <1>3, <1>8, <2>1 DEF TestInv
<1>10. runs'.complete = "yes" =>
         \A o \in Statuses : \A s \in 1..(c + 1) : suites'[s].count[o] > 0 => totals'[o] > 0
  BY <1>1, <1>2, <1>3, <1>5, <1>8 DEF TestInv
<1>11. current' \in 0..(c + 1)
  BY <1>1, <1>8 DEF TestInv
<1> QED
  BY <1>3, <1>4, <1>7, <1>8, <1>9, <1>10, <1>11 DEF TestInv

LEMMA EndTestKeeps == ASSUME TestInv, EndTest PROVE TestInv'
<1>1. PICK c \in Nat : c = Len(suites) /\ DOMAIN suites = 1..c /\ c = Len(verdicts) /\ DOMAIN verdicts = 1..c
  BY LenProperties DEF TestInv
<1>2. PICK k \in 1..c : k = current
  BY <1>1 DEF TestInv, EndTest
<1>3. PICK o1 \in Outcomes : o1 = FinalStatus
  BY DEF FinalStatus, TestInv, Outcomes
<1> DEFINE v == [failed |-> log, error |-> vm_error]
<1>4. v \in VerdictRec /\ Outcome(v) = o1
  BY <1>3 DEF TestInv, VerdictRec, Outcome, FinalStatus, Answers
<1> HIDE DEF v
<1> DEFINE old == suites[k]
           new == WithResult(old, o1)
<1>5. old \in SuiteRec /\ suites \in Seq(SuiteRec) /\ suites \in [1..c -> SuiteRec]
  BY <1>1, LenProperties DEF TestInv
<1>6. suites' = [suites EXCEPT ![k] = new]
  BY <1>2, <1>3, <1>5 DEF EndTest
<1>7. new \in SuiteRec /\ \A o \in Statuses : new.count[o] = old.count[o] + IF o = o1 THEN 1 ELSE 0
  <2>1. o1 \in Statuses
    BY <1>3 DEF Outcomes, Statuses
  <2>2. old.tests \in Seq(Statuses) /\ old.count \in [Statuses -> Nat]
    BY <1>5 DEF SuiteRec
  <2>3. Append(old.tests, o1) \in Seq(Statuses)
    BY <2>1, <2>2, AppendProperties
  <2> QED
    BY <2>1, <2>2, <2>3 DEF SuiteRec, WithResult
<1>8. \A o \in Statuses : old.count[o] \in Nat
  BY <1>5 DEF SuiteRec
<1> HIDE DEF new
<1>9. /\ suites' \in Seq(SuiteRec) /\ Len(suites') = c
      /\ \A s \in 1..c : suites'[s] = IF s = k THEN new ELSE suites[s]
  BY <1>1, <1>5, <1>6, <1>7, ExceptSeq
<1> DEFINE w == Append(verdicts[k], v)
<1>10. verdicts[k] \in Seq(VerdictRec) /\ verdicts \in Seq(Seq(VerdictRec))
  BY <1>1, LenProperties DEF TestInv
<1>11. w \in Seq(VerdictRec)
  BY <1>4, <1>10, AppendProperties
<1>12. verdicts' = [verdicts EXCEPT ![k] = w]
  BY <1>2 DEF EndTest, v
<1> HIDE DEF w
<1>13. /\ verdicts' \in Seq(Seq(VerdictRec)) /\ Len(verdicts') = c
       /\ \A s \in 1..c : verdicts'[s] = IF s = k THEN w ELSE verdicts[s]
  BY <1>1, <1>10, <1>11, <1>12, ExceptSeq
<1>14. CountsAre(new, w)
  <2> SUFFICES ASSUME NEW o \in Outcomes PROVE new.count[o] = Cardinality(TestsWith(o, w))
    BY DEF CountsAre
  <2>1. old.count[o] = Cardinality(TestsWith(o, verdicts[k]))
    BY <1>1 DEF TestInv, CountsAre
  <2>2. Cardinality(TestsWith(o, w)) = Cardinality(TestsWith(o, verdicts[k])) + IF Outcome(v) = o THEN 1 ELSE 0
    BY <1>4, <1>10, WithAppended DEF w
  <2>3. o \in Statuses
    BY DEF Outcomes, Statuses
  <2> QED
    BY <1>4, <1>7, <2>1, <2>2, <2>3
<1>15. \A s \in 1..c : CountsAre(suites'[s], verdicts'[s])
  BY <1>1, <1>9, <1>13, <1>14 DEF TestInv
<1>16. \A o \in Statuses : totals'[o] > 0 => \E s \in 1..c : suites'[s].count[o] > 0
  <2> SUFFICES ASSUME NEW o \in Statuses, totals[o] > 0 PROVE \E s \in 1..c : suites'[s].count[o] > 0
    BY DEF EndTest
  <2>1. PICK s \in 1..c : suites[s].count[o] > 0
    BY <1>1 DEF TestInv
  <2>2. new.count[o] \in Nat /\ (old.count[o] > 0 => new.count[o] > 0)
    BY <1>7, <1>8
  <2> QED
    BY <1>9, <2>1, <2>2
<1>17. /\ current' = 0 /\ status' = "pass" /\ vm_error' = "no" /\ log' = "no" /\ totals' = totals
       /\ runs' = [runs EXCEPT !.complete = "no"]
  BY DEF EndTest
<1>18. runs' \in [number : Nat, complete : Answers] /\ runs'.complete = "no"
  BY <1>17 DEF TestInv, Answers
<1> QED
  BY <1>1, <1>9, <1>13, <1>15, <1>16, <1>17, <1>18 DEF TestInv, Answers

LEMMA RunAllKeeps == ASSUME TestInv, RunAll PROVE TestInv'
<1>1. PICK c \in Nat : c = Len(suites) /\ DOMAIN suites = 1..c
  BY LenProperties DEF TestInv
<1>2. \A s \in 1..c : suites[s] \in SuiteRec
  BY <1>1, LenProperties DEF TestInv
<1>3. \A s \in 1..c : \A o \in Statuses : suites[s].count[o] \in Nat
  BY <1>2 DEF SuiteRec
<1>4. PICK a \in 0..c : a = Added
  BY <1>1, AddedIs
<1>5. ASSUME NEW o \in Statuses
      PROVE  Sums[o] \in Nat /\ (Sums[o] > 0 <=> \E i \in 1..a : suites[i].count[o] > 0)
  <2>1. a \in Nat /\ \A i \in 1..a : i \in 1..c
    OBVIOUS
  <2>2. \A i \in 1..a : suites[i].count[o] \in Nat
    BY <1>3, <2>1
  <2> QED
    BY <1>4, <2>1, <2>2, SumIs
<1>6. totals \in [Statuses -> Nat] /\ totals' = [s \in Statuses |-> totals[s] + Sums[s]]
  BY DEF TestInv, RunAll
<1>7. ASSUME NEW o \in Statuses PROVE totals'[o] \in Nat /\ (totals'[o] > 0 <=> totals[o] > 0 \/ Sums[o] > 0)
  <2>1. totals'[o] = totals[o] + Sums[o] /\ totals[o] \in Nat
    BY <1>6
  <2> QED
    BY <1>5, <2>1
<1>8. totals' \in [Statuses -> Nat]
  BY <1>6, <1>7
<1>9. runs' = [number |-> runs.number + 1, complete |-> IF a = c THEN "yes" ELSE "no"]
  BY <1>1, <1>4 DEF RunAll
<1>10. runs' \in [number : Nat, complete : Answers] /\ (runs'.complete = "yes" => a = c)
  BY <1>9 DEF TestInv, Answers
<1>11. UNCHANGED <<suites, current, status, vm_error, log, verdicts>>
  BY DEF RunAll
<1>12. \A o \in Statuses : totals'[o] > 0 => \E s \in 1..c : suites[s].count[o] > 0
  <2>1. \A i \in 1..a : i \in 1..c
    OBVIOUS
  <2> QED
    BY <1>1, <1>5, <1>7, <2>1 DEF TestInv
<1>13. a = c => \A o \in Statuses : \A s \in 1..c : suites[s].count[o] > 0 => totals'[o] > 0
  BY <1>5, <1>7
<1> QED
  BY <1>1, <1>8, <1>10, <1>11, <1>12, <1>13 DEF TestInv

LEMMA TestInvNext == TestInv /\ [TestNext]_testVars => TestInv'
<1> SUFFICES ASSUME TestInv, [TestNext]_testVars PROVE TestInv'
  OBVIOUS
<1>1. CASE AddSuite
  BY <1>1, AddSuiteKeeps
<1>2. ASSUME NEW s \in DOMAIN suites, BeginTest(s) PROVE TestInv'
  <2>1. s \in 0..Len(suites)
    <3>1. Len(suites) \in Nat /\ DOMAIN suites = 1..Len(suites)
      BY LenProperties DEF TestInv
    <3> QED
      BY <3>1
  <2> QED
    BY <1>2, <2>1 DEF TestInv, BeginTest, Answers
<1>3. CASE AssertFails
  BY <1>3 DEF TestInv, AssertFails, set_test_failure, Answers
<1>4. CASE AssertThrows
  BY <1>4 DEF TestInv, AssertThrows, set_test_failure, Answers
<1>5. CASE TestRaises
  BY <1>5 DEF TestInv, TestRaises, Answers
<1>6. CASE EndTest
  BY <1>6, EndTestKeeps
<1>7. CASE RunAll
  BY <1>7, RunAllKeeps
<1>8. CASE UNCHANGED testVars
  BY <1>8 DEF TestInv, testVars
<1> QED
  BY <1>1, <1>2, <1>3, <1>4, <1>5, <1>6, <1>7, <1>8 DEF TestNext

LEMMA TestInvImplies == TestInv => ResultsCounted
<1> SUFFICES ASSUME TestInv PROVE ResultsCounted
  OBVIOUS
<1>1. PICK c \in Nat : c = Len(suites) /\ DOMAIN suites = 1..c /\ c = Len(verdicts) /\ DOMAIN verdicts = 1..c
  BY LenProperties DEF TestInv
<1>2. \A s \in 1..c : CountsAre(suites[s], verdicts[s])
  BY <1>1 DEF TestInv
<1>3. \A s \in DOMAIN suites : \A o \in {"error", "fail", "pass"} :
          suites[s].count[o] = Cardinality(TestsWith(o, verdicts[s]))
  BY <1>1, <1>2 DEF CountsAre, Outcomes
<1> DEFINE Clean(s) == \A i \in DOMAIN verdicts[s] : verdicts[s][i].failed = "no" /\ verdicts[s][i].error = "no"
<1>4. ASSUME NEW s \in 1..c
      PROVE  Clean(s) <=> ~(suites[s].count["fail"] > 0) /\ ~(suites[s].count["error"] > 0)
  <2>1. verdicts[s] \in Seq(VerdictRec)
    BY <1>1, LenProperties DEF TestInv
  <2>2. PICK n \in Nat : n = Len(verdicts[s]) /\ DOMAIN verdicts[s] = 1..n
    BY <2>1, LenProperties
  <2>3. \A i \in 1..n : verdicts[s][i] \in VerdictRec
    BY <2>1, <2>2, LenProperties
  <2>4. ASSUME NEW o
        PROVE  Cardinality(TestsWith(o, verdicts[s])) > 0 <=> TestsWith(o, verdicts[s]) # {}
    <3>1. IsFiniteSet(TestsWith(o, verdicts[s]))
      <4>1. IsFiniteSet(1..n)
        BY FS_Interval
      <4>2. TestsWith(o, verdicts[s]) \subseteq 1..n
        BY <2>2 DEF TestsWith
      <4> QED
        BY <4>1, <4>2, FS_Subset
    <3>2. /\ Cardinality(TestsWith(o, verdicts[s])) \in Nat
          /\ Cardinality(TestsWith(o, verdicts[s])) = 0 <=> TestsWith(o, verdicts[s]) = {}
      BY <3>1, FS_CardinalityType, FS_EmptySet
    <3> QED
      BY <3>2
  <2>5. Clean(s) <=> TestsWith("fail", verdicts[s]) = {} /\ TestsWith("error", verdicts[s]) = {}
    BY <2>2, <2>3 DEF TestsWith, Outcome, VerdictRec, Answers
  <2> QED
    BY <1>1, <1>3, <2>4, <2>5
<1> HIDE DEF Clean
<1>5. ASSUME runs.complete = "yes" PROVE AllPassed <=> \A s \in 1..c : Clean(s)
  <2>1. "fail" \in Statuses /\ "error" \in Statuses
    BY DEF Statuses
  <2>2. ASSUME NEW o \in Statuses
        PROVE  totals[o] = 0 <=> \A s \in 1..c : ~(suites[s].count[o] > 0)
    <3>1. totals[o] \in Nat
      BY DEF TestInv
    <3>2. totals[o] > 0 <=> \E s \in 1..c : suites[s].count[o] > 0
      BY <1>1, <1>5 DEF TestInv
    <3> QED
      BY <3>1, <3>2
  <2> QED
    BY <1>4, <2>1, <2>2 DEF AllPassed
<1> QED
  BY <1>1, <1>3, <1>5 DEF ResultsCounted, Clean

\* For any numbers of suites, tests and runs and any array growth, the counters
\* of a suite are the numbers of its tests with each outcome, and after a
\* run_all through all suites the report "ALL TESTS PASSED" is printed exactly
\* when in no test an assertion failed or an error was left.
THEOREM ResultsCountedHolds == TestSpec => []ResultsCounted
<1>1. TestSpec => []TestInv
  BY TestInvInit, TestInvNext, PTL DEF TestSpec
<1> QED
  BY <1>1, TestInvImplies, PTL

-----------------------------------------------------------------------------
(* How code is found and loaded.                                           *)

\* An interval from 1 determines its length.
LEMMA SameInterval ==
    \A m, n \in Nat : 1..m = 1..n => m = n
<1> SUFFICES ASSUME NEW m \in Nat, NEW n \in Nat, 1..m = 1..n PROVE m = n
  OBVIOUS
<1>1. (m = 0 \/ m \in 1..m) /\ (n = 0 \/ n \in 1..n)
  OBVIOUS
<1>2. m <= n /\ n <= m
  BY <1>1
<1> QED
  BY <1>2

-----------------------------------------------------------------------------
(* Versions.                                                               *)
Parsed == {t \in Text : Parses(t)}

LEMMA PartsAreNumbers ==
    \A t \in Parsed : Part(t, 1) \in Nat /\ Part(t, 2) \in Nat /\ Part(t, 3) \in Nat /\ Pre(t) \in Nat
<1> SUFFICES ASSUME NEW t \in Parsed
             PROVE  \A k \in 1..3 : Part(t, k) \in Nat /\ Pre(t) \in Nat
  OBVIOUS
<1>1. t \in Text
  BY DEF Parsed
<1>2. PICK n \in 0..3 : t.nums \in [1..n -> Nat]
  BY <1>1 DEF Text
<1>3. t.nums \in Seq(Nat)
  BY <1>2, SeqDef
<1>4. \A k \in 1..Len(t.nums) : t.nums[k] \in Nat
  BY <1>3, ElementOfSeq
<1>5. Pre(t) \in Nat
  BY <1>1 DEF Pre, Text
<1> QED
  BY <1>3, <1>4, <1>5, LenProperties DEF Part

\* The comparison of two versions as one of their numbers and tags.
Lex(a, b, c, p, x, y, z, q) ==
    IF a # x THEN Sign(a - x)
    ELSE IF b # y THEN Sign(b - y)
    ELSE IF c # z THEN Sign(c - z)
    ELSE IF p = 0 /\ q # 0 THEN 1
    ELSE IF p # 0 /\ q = 0 THEN -1
    ELSE Sign(p - q)

Lexed(t, u) == Lex(Part(t, 1), Part(t, 2), Part(t, 3), Pre(t), Part(u, 1), Part(u, 2), Part(u, 3), Pre(u))

LEMMA CompareIsLex == \A t, u \in Parsed : Compare(t, u) = Lexed(t, u)
<1> SUFFICES ASSUME NEW t \in Parsed, NEW u \in Parsed PROVE Compare(t, u) = Lexed(t, u)
  OBVIOUS
<1>1. Parses(t) /\ Parses(u)
  BY DEF Parsed
<1>2. CASE t = u
  <2>1. Lexed(t, u) = Sign(Pre(t) - Pre(u)) /\ Pre(t) - Pre(u) = 0
    BY <1>2, PartsAreNumbers DEF Lexed, Lex
  <2> QED
    BY <1>2, <2>1 DEF Compare, Sign
<1>3. CASE t # u
  BY <1>1, <1>3 DEF Compare, Lexed, Lex
<1> QED
  BY <1>2, <1>3

\* What a next version is made of.
LEMMA Follower ==
    ASSUME NEW a \in Nat, NEW b \in Nat, NEW c \in Nat
    PROVE  LET v == [word |-> 0, nums |-> <<a, b, c>>, pre |-> 0, build |-> 0] IN
           v \in Parsed /\ Part(v, 1) = a /\ Part(v, 2) = b /\ Part(v, 3) = c /\ Pre(v) = 0
<1> DEFINE s == <<a, b, c>>
           v == [word |-> 0, nums |-> s, pre |-> 0, build |-> 0]
<1>1. s \in [1..3 -> Nat] /\ Len(s) = 3 /\ s[1] = a /\ s[2] = b /\ s[3] = c
  OBVIOUS
<1> HIDE DEF s
<1>2. v.word = 0 /\ v.nums = s /\ v.pre = 0 /\ v.build = 0
  OBVIOUS
<1>3. v \in Text
  <2>1. s \in UNION {[1..k -> Nat] : k \in 0..3}
    BY <1>1
  <2> QED
    BY <2>1 DEF Text
<1> HIDE DEF v
<1>4. ~IsWord(v) /\ ~IsLatest(v)
  BY <1>2 DEF IsWord, IsLatest, LATEST
<1>5. Len(v.nums) = 3 /\ v.nums[1] = a /\ v.nums[2] = b /\ v.nums[3] = c
  BY <1>1, <1>2
<1>6. v \in Parsed
  BY <1>3, <1>4, <1>5 DEF Parsed, Parses
<1>7. Part(v, 1) = a /\ Part(v, 2) = b /\ Part(v, 3) = c /\ Pre(v) = 0
  BY <1>2, <1>4, <1>5 DEF Part, Pre
<1> QED
  BY <1>6, <1>7 DEF v, s

LEMMA OrdersAll ==
    ASSUME NEW t \in Parsed, NEW u \in Parsed, NEW v \in Parsed
    PROVE  Orders(t, u, v)
<1>1. Compare(t, u) = Lexed(t, u) /\ Compare(u, t) = Lexed(u, t) /\ Compare(u, v) = Lexed(u, v)
      /\ Compare(t, v) = Lexed(t, v)
  BY CompareIsLex
<1>n. /\ Part(t, 1) \in Nat /\ Part(t, 2) \in Nat /\ Part(t, 3) \in Nat /\ Pre(t) \in Nat
      /\ Part(u, 1) \in Nat /\ Part(u, 2) \in Nat /\ Part(u, 3) \in Nat /\ Pre(u) \in Nat
      /\ Part(v, 1) \in Nat /\ Part(v, 2) \in Nat /\ Part(v, 3) \in Nat /\ Pre(v) \in Nat
  BY PartsAreNumbers
<1>2. Compare(t, u) = -Compare(u, t)
  <2>1. Lexed(t, u) = -Lexed(u, t)
    BY <1>n DEF Lexed, Lex, Sign
  <2> QED
    BY <1>1, <2>1
<1>3. Compare(t, u) <= 0 /\ Compare(u, v) <= 0 => Compare(t, v) <= 0
  <2>1. Lexed(t, u) <= 0 /\ Lexed(u, v) <= 0 => Lexed(t, v) <= 0
    BY <1>n DEF Lexed, Lex, Sign
  <2> QED
    BY <1>1, <2>1
<1>4. ASSUME Pre(t) # 0, u = [t EXCEPT !.pre = 0] PROVE Compare(t, u) < 0
  <2>1. /\ t \in Text /\ u \in Text /\ u.word = t.word /\ u.nums = t.nums /\ u.pre = 0
    BY <1>4 DEF Parsed, Text
  <2>2. Pre(u) = 0 /\ \A k : Part(u, k) = Part(t, k)
    BY <2>1 DEF Pre, Part, IsWord, IsLatest
  <2>3. Lexed(t, u) = -1
    BY <1>4, <2>2 DEF Lexed, Lex
  <2> QED
    BY <1>1, <2>3
<1> QED
  BY <1>2, <1>3, <1>4 DEF Orders

LEMMA RangesAll ==
    ASSUME NEW t \in Parsed, NEW c \in Parsed, Pre(t) = 0, Pre(c) = 0
    PROVE  RangeRight(t, c)
<1> DEFINE caret == [op |-> "^", text |-> c]
           tilde == [op |-> "~", text |-> c]
<1>1. Satisfies(t, caret) <=> CaretHolds(t, c)
  BY DEF Satisfies, Parsed
<1>2. Satisfies(t, tilde) <=> TildeHolds(t, c)
  BY DEF Satisfies, Parsed
<1>3. /\ Part(t, 1) \in Nat /\ Part(t, 2) \in Nat /\ Part(t, 3) \in Nat
      /\ Part(c, 1) \in Nat /\ Part(c, 2) \in Nat /\ Part(c, 3) \in Nat
  BY PartsAreNumbers
<1>4. /\ NextMajor(c) \in Parsed /\ Pre(NextMajor(c)) = 0
      /\ Part(NextMajor(c), 1) = Part(c, 1) + 1 /\ Part(NextMajor(c), 2) = 0 /\ Part(NextMajor(c), 3) = 0
  BY <1>3, Follower DEF NextMajor
<1>5. /\ NextMinor(c) \in Parsed /\ Pre(NextMinor(c)) = 0
      /\ Part(NextMinor(c), 1) = Part(c, 1) /\ Part(NextMinor(c), 2) = Part(c, 2) + 1 /\ Part(NextMinor(c), 3) = 0
  BY <1>3, Follower DEF NextMinor
<1>6. /\ Compare(t, c) = Lexed(t, c) /\ Compare(t, NextMajor(c)) = Lexed(t, NextMajor(c))
      /\ Compare(t, NextMinor(c)) = Lexed(t, NextMinor(c))
  BY <1>4, <1>5, CompareIsLex
<1>7. CaretHolds(t, c) <=> Compare(t, c) >= 0 /\ Compare(t, NextMajor(c)) < 0
  BY <1>3, <1>4, <1>6 DEF CaretHolds, Lexed, Lex, Sign
<1>8. TildeHolds(t, c) <=> Compare(t, c) >= 0 /\ Compare(t, NextMinor(c)) < 0
  BY <1>3, <1>5, <1>6 DEF TildeHolds, Lexed, Lex, Sign
<1> QED
  BY <1>1, <1>2, <1>7, <1>8 DEF RangeRight

\* For any three versions that parse, not only those of the sample: the
\* comparison is a total order that puts pre-releases first, and the caret and
\* tilde ranges of releases are intervals of it.
THEOREM VersionsOrderedHolds == sample \in Parsed \X Parsed \X Parsed => VersionsOrdered
<1> SUFFICES ASSUME sample \in Parsed \X Parsed \X Parsed PROVE VersionsOrdered
  OBVIOUS
<1>1. sample[1] \in Parsed /\ sample[2] \in Parsed /\ sample[3] \in Parsed
  OBVIOUS
<1>2. Orders(sample[1], sample[2], sample[3])
  BY <1>1, OrdersAll
<1>3. Pre(sample[1]) = 0 /\ Pre(sample[2]) = 0 => RangeRight(sample[1], sample[2])
  BY <1>1, RangesAll
<1> QED
  BY <1>2, <1>3 DEF VersionsOrdered

-----------------------------------------------------------------------------
(* The module system.                                                      *)

\* The equation that defines the lists of ListFrom.
Extend(m, c, prefix) ==
    LET following == IF prefix = <<>> THEN c ELSE m.next[Last(prefix)]
    IN  IF following = NULL THEN prefix ELSE Append(prefix, following)

ListEquation(m, c, f) ==
    f = [n \in 0..MaxLoads |-> IF n = 0 THEN <<>> ELSE Extend(m, c, f[n - 1])]

LEMMA ListFromIs ==
    ASSUME NEW m, NEW c
    PROVE  ListFrom(m, c) = (CHOOSE f : ListEquation(m, c, f))[MaxLoads]
BY DEF ListFrom, ListEquation, Extend

\* A list that starts at NULL is empty.
LEMMA ListOfNone ==
    ASSUME NEW m PROVE ListFrom(m, NULL) = <<>>
<1> USE BoundAssumption
<1>1. Extend(m, NULL, <<>>) = <<>>
  BY DEF Extend
<1> DEFINE f == CHOOSE f : ListEquation(m, NULL, f)
           g == [n \in 0..MaxLoads |-> <<>>]
<1>2. ListEquation(m, NULL, g)
  <2>1. \A n \in 0..MaxLoads : n # 0 => g[n - 1] = <<>>
    OBVIOUS
  <2> QED
    BY <1>1, <2>1 DEF ListEquation
<1>3. ListEquation(m, NULL, f)
  BY <1>2
<1> HIDE DEF f
<1> DEFINE I == {n \in 0..MaxLoads : f[n] = <<>>}
<1>4. 0 \in I /\ \A k \in I : k < MaxLoads => k + 1 \in I
  <2>1. \A n \in 0..MaxLoads : f[n] = IF n = 0 THEN <<>> ELSE Extend(m, NULL, f[n - 1])
    BY <1>3 DEF ListEquation
  <2> QED
    BY <1>1, <2>1
<1>5. MaxLoads \in I
  <2> HIDE DEF I
  <2>1. I \in SUBSET (0..MaxLoads)
    BY DEF I
  <2> QED
    BY <1>4, <2>1, ReachesEnd
<1> QED
  BY <1>5, ListFromIs DEF f

\* A context without a successor is a list of its own.
LEMMA ListOfOne ==
    ASSUME NEW m, NEW c \in Contexts, m.next[c] = NULL
    PROVE  ListFrom(m, c) = <<c>>
<1> USE BoundAssumption
<1>0. c # NULL /\ MaxLoads # 0
  BY DEF Contexts, NULL
<1>1. Extend(m, c, <<>>) = <<c>>
  BY <1>0 DEF Extend
<1>2. Extend(m, c, <<c>>) = <<c>>
  <2>1. <<c>> # <<>> /\ Last(<<c>>) = c
    BY DEF Last
  <2> QED
    BY <2>1 DEF Extend
<1> DEFINE f == CHOOSE f : ListEquation(m, c, f)
           g == [n \in 0..MaxLoads |-> IF n = 0 THEN <<>> ELSE <<c>>]
<1>3. ListEquation(m, c, g)
  <2>1. \A n \in 0..MaxLoads : n # 0 => g[n] = Extend(m, c, g[n - 1])
    <3> SUFFICES ASSUME NEW n \in 0..MaxLoads, n # 0 PROVE g[n] = Extend(m, c, g[n - 1])
      OBVIOUS
    <3>1. n - 1 \in 0..MaxLoads
      OBVIOUS
    <3> QED
      BY <1>1, <1>2, <3>1
  <2> QED
    BY <2>1 DEF ListEquation
<1>4. ListEquation(m, c, f)
  BY <1>3
<1> HIDE DEF f
<1> DEFINE I == {n \in 0..MaxLoads : f[n] = IF n = 0 THEN <<>> ELSE <<c>>}
<1>5. 0 \in I /\ \A k \in I : k < MaxLoads => k + 1 \in I
  <2>1. \A n \in 0..MaxLoads : f[n] = IF n = 0 THEN <<>> ELSE Extend(m, c, f[n - 1])
    BY <1>4 DEF ListEquation
  <2>2. 0 \in I
    BY <2>1
  <2>3. ASSUME NEW k \in I, k < MaxLoads PROVE k + 1 \in I
    <3>1. k + 1 \in 0..MaxLoads /\ k + 1 # 0 /\ k + 1 - 1 = k
      BY <2>3
    <3>2. f[k + 1] = Extend(m, c, f[k])
      BY <2>1, <3>1
    <3>3. f[k + 1] = <<c>>
      BY <1>1, <1>2, <3>2
    <3> QED
      BY <3>1, <3>3
  <2> QED
    BY <2>2, <2>3
<1>6. MaxLoads \in I
  <2> HIDE DEF I
  <2>1. I \in SUBSET (0..MaxLoads)
    BY DEF I
  <2> QED
    BY <1>5, <2>1, ReachesEnd
<1> QED
  BY <1>0, <1>6, ListFromIs DEF f

\* What a look-up finds in such lists.
LEMMA FindInOne ==
    ASSUME NEW m, NEW c \in Contexts, m.next[c] = NULL, NEW p
    PROVE  FindIn(m, c, p) = IF m.path[c] = p THEN c ELSE NULL
<1> DEFINE list == ListFrom(m, c)
           places == {i \in 1..Len(list) : m.path[list[i]] = p}
<1>1. Len(list) = 1 /\ list[1] = c
  BY ListOfOne
<1>2. FindIn(m, c, p) = IF places = {} THEN NULL ELSE list[CHOOSE i \in places : \A j \in places : i <= j]
  BY DEF FindIn
<1> HIDE DEF list
<1>3. CASE m.path[c] = p
  <2>1. places = {1}
    BY <1>1, <1>3
  <2>2. (CHOOSE i \in places : \A j \in places : i <= j) = 1
    BY <2>1
  <2> QED
    BY <1>1, <1>2, <1>3, <2>1, <2>2
<1>4. CASE m.path[c] # p
  <2>1. places = {}
    BY <1>1, <1>4
  <2> QED
    BY <1>2, <1>4, <2>1
<1> QED
  BY <1>3, <1>4

LEMMA FindInNone ==
    ASSUME NEW m, NEW p PROVE FindIn(m, NULL, p) = NULL
<1>1. ListFrom(m, NULL) = <<>> /\ Len(<<>>) = 0
  BY ListOfNone, EmptySeq
<1>2. {i \in 1..Len(ListFrom(m, NULL)) : m.path[ListFrom(m, NULL)[i]] = p} = {}
  BY <1>1
<1> QED
  BY <1>2 DEF FindIn

States == {"none", "created", "loading", "loaded", "freed"}
Mems == [registry : 0..MaxLoads, stack : 0..MaxLoads, next : [Contexts -> 0..MaxLoads],
         path : [Contexts -> Paths \cup {<<>>}], state : [Contexts -> States]]

\* The four steps of a load on the lists, by the fields they leave.
LEMMA CreateIs ==
    ASSUME NEW m \in Mems, NEW c \in Contexts, NEW p \in Paths
    PROVE  LET n == CreateContext(m, c, p) IN
           /\ n \in Mems /\ n.registry = c /\ n.stack = m.stack
           /\ n.next = [m.next EXCEPT ![c] = m.registry]
           /\ n.path = [m.path EXCEPT ![c] = p] /\ n.state = [m.state EXCEPT ![c] = "created"]
<1> DEFINE m1 == [m EXCEPT !.path[c] = p]
           m2 == [m1 EXCEPT !.state[c] = "created"]
           m3 == [m2 EXCEPT !.next[c] = m.registry]
           m4 == [m3 EXCEPT !.registry = c]
<1>0. CreateContext(m, c, p) = m4
  BY DEF CreateContext
<1>1. /\ m1 \in Mems /\ m1.registry = m.registry /\ m1.stack = m.stack /\ m1.next = m.next
      /\ m1.path = [m.path EXCEPT ![c] = p] /\ m1.state = m.state
  BY DEF Mems
<1> HIDE DEF m1
<1>2. /\ m2 \in Mems /\ m2.registry = m1.registry /\ m2.stack = m1.stack /\ m2.next = m1.next
      /\ m2.path = m1.path /\ m2.state = [m1.state EXCEPT ![c] = "created"]
  BY <1>1 DEF Mems, States
<1> HIDE DEF m2
<1>3. /\ m3 \in Mems /\ m3.registry = m2.registry /\ m3.stack = m2.stack
      /\ m3.next = [m2.next EXCEPT ![c] = m.registry] /\ m3.path = m2.path /\ m3.state = m2.state
  BY <1>2 DEF Mems
<1> HIDE DEF m3
<1>4. /\ m4 \in Mems /\ m4.registry = c /\ m4.stack = m3.stack
      /\ m4.next = m3.next /\ m4.path = m3.path /\ m4.state = m3.state
  BY <1>3, SMTT(20) DEF Mems, Contexts
<1> HIDE DEF m4
<1> QED
  BY <1>0, <1>1, <1>2, <1>3, <1>4

LEMMA PushIs ==
    ASSUME NEW m \in Mems, NEW c \in Contexts
    PROVE  LET n == PushContext(m, c) IN
           /\ n \in Mems /\ n.registry = m.registry /\ n.stack = c
           /\ n.next = [m.next EXCEPT ![c] = m.stack]
           /\ n.path = m.path /\ n.state = m.state
<1> DEFINE m1 == [m EXCEPT !.next[c] = m.stack]
           m2 == [m1 EXCEPT !.stack = c]
<1>0. PushContext(m, c) = m2
  BY DEF PushContext
<1>1. /\ m1 \in Mems /\ m1.registry = m.registry /\ m1.next = [m.next EXCEPT ![c] = m.stack]
      /\ m1.path = m.path /\ m1.state = m.state
  BY DEF Mems
<1> HIDE DEF m1
<1>2. /\ m2 \in Mems /\ m2.registry = m1.registry /\ m2.stack = c /\ m2.next = m1.next
      /\ m2.path = m1.path /\ m2.state = m1.state
  BY <1>1 DEF Mems, Contexts
<1> HIDE DEF m2
<1> QED
  BY <1>0, <1>1, <1>2

LEMMA MarkIs ==
    ASSUME NEW m \in Mems, NEW p, NEW s \in States, NEW c \in Contexts, GetContext(m, p) = c
    PROVE  LET n == MarkModule(m, p, s) IN
           /\ n \in Mems /\ n.registry = m.registry /\ n.stack = m.stack
           /\ n.next = m.next /\ n.path = m.path /\ n.state = [m.state EXCEPT ![c] = s]
BY DEF MarkModule, Mems

LEMMA PopIs ==
    ASSUME NEW m \in Mems, m.stack \in Contexts
    PROVE  LET n == PopContext(m) IN
           /\ n \in Mems /\ n.registry = m.registry /\ n.stack = m.next[m.stack]
           /\ n.next = [m.next EXCEPT ![m.stack] = NULL]
           /\ n.path = m.path /\ n.state = m.state
<1>c. PICK c \in Contexts : c = m.stack
  OBVIOUS
<1> DEFINE m1 == [m EXCEPT !.stack = m.next[c]]
           m2 == [m1 EXCEPT !.next[c] = NULL]
<1>0. PopContext(m) = m2
  BY <1>c DEF PopContext
<1>1. /\ m1 \in Mems /\ m1.registry = m.registry /\ m1.stack = m.next[c] /\ m1.next = m.next
      /\ m1.path = m.path /\ m1.state = m.state
  BY DEF Mems
<1> HIDE DEF m1
<1>2. /\ m2 \in Mems /\ m2.registry = m1.registry /\ m2.stack = m1.stack
      /\ m2.next = [m1.next EXCEPT ![c] = NULL] /\ m2.path = m1.path /\ m2.state = m1.state
  <2>1. NULL \in 0..MaxLoads
    BY BoundAssumption DEF NULL
  <2> HIDE <1>c
  <2> QED
    BY <1>1, <2>1 DEF Mems
<1> HIDE DEF m2
<1> QED
  BY <1>c, <1>0, <1>1, <1>2

(***************************************************************************)
(* Between loads the stack is empty and no context has a successor: the    *)
(* registry is the context of the last file loaded, or nothing.            *)
(***************************************************************************)
MemInv ==
    /\ mem \in Mems /\ mem.stack = NULL
    /\ \A c \in Contexts : mem.next[c] = NULL /\ mem.state[c] # "loading"
    /\ mem.registry # NULL => mem.state[mem.registry] = "loaded"

LastInv ==
    (last # <<>> /\ last.path[1] # "core" /\ last.result # NoExports) =>
        mem.registry = last.result /\ mem.registry # NULL /\ mem.path[mem.registry] = last.path

FilesInv == loads \in 0..MaxLoads /\ files \subseteq Places \X ModuleNames

ModuleInv == MemInv /\ LastInv /\ FilesInv

LEMMA RegistryIs ==
    ASSUME MemInv
    PROVE  /\ mem.registry # NULL => mem.registry \in Contexts
           /\ \A p : GetContext(mem, p) =
                 IF mem.registry # NULL /\ mem.path[mem.registry] = p THEN mem.registry ELSE NULL
<1>1. mem.registry # NULL => mem.registry \in Contexts
  BY BoundAssumption DEF MemInv, Mems, Contexts, NULL
<1>2. ASSUME NEW p, mem.registry # NULL
      PROVE  GetContext(mem, p) = IF mem.path[mem.registry] = p THEN mem.registry ELSE NULL
  <2>1. mem.registry \in Contexts /\ mem.next[mem.registry] = NULL
    BY <1>1, <1>2 DEF MemInv
  <2> QED
    BY <2>1, FindInOne DEF GetContext
<1>3. ASSUME NEW p, mem.registry = NULL PROVE GetContext(mem, p) = NULL
  BY <1>3, FindInNone DEF GetContext
<1> QED
  BY <1>1, <1>2, <1>3

LEMMA ModuleInvImplies == ModuleInv => ListsSound /\ LastLoadCached
<1> SUFFICES ASSUME ModuleInv PROVE ListsSound /\ LastLoadCached
  OBVIOUS
<1>1. MemInv
  BY DEF ModuleInv
<1>2. LastLoadCached
  BY <1>1, RegistryIs DEF ModuleInv, LastInv, LastLoadCached
<1>3. ListsSound
  <2> DEFINE list == ListFrom(mem, mem.registry)
  <2>1. \/ mem.registry = NULL /\ Len(list) = 0
        \/ Len(list) = 1 /\ list[1] = mem.registry /\ mem.registry # NULL
    <3>1. CASE mem.registry = NULL
      BY <3>1, ListOfNone, EmptySeq
    <3>2. CASE mem.registry # NULL
      <4>1. list = <<mem.registry>>
        BY <1>1, <3>2, RegistryIs, ListOfOne DEF MemInv
      <4> QED
        BY <3>2, <4>1
    <3> QED
      BY <3>1, <3>2
  <2> HIDE DEF list
  <2>2. \A i \in 1..Len(list) : mem.state[list[i]] = "loaded"
    BY <1>1, <2>1 DEF MemInv
  <2>3. \A i, j \in 1..Len(list) : list[i] = list[j] => i = j
    BY <2>1
  <2>4. \A c \in Contexts : mem.next[c] \in 0..MaxLoads /\ mem.path[c] \in Paths \cup {<<>>}
    BY <1>1 DEF MemInv, Mems
  <2> QED
    BY <1>1, <2>2, <2>3, <2>4 DEF ListsSound, MemInv, list
<1> QED
  BY <1>2, <1>3

LEMMA ModuleInvInit == ModuleInit => ModuleInv
<1> SUFFICES ASSUME ModuleInit PROVE ModuleInv
  OBVIOUS
<1>1. NULL \in 0..MaxLoads
  BY BoundAssumption DEF NULL
<1>2. mem \in Mems
  BY <1>1 DEF ModuleInit, Mems, States
<1>3. MemInv
  BY <1>2 DEF ModuleInit, MemInv
<1>4. LastInv /\ FilesInv
  BY BoundAssumption DEF ModuleInit, LastInv, FilesInv
<1> QED
  BY <1>3, <1>4 DEF ModuleInv

\* A load of a file leaves its context alone in the registry.
LEMMA LoadFileIs ==
    ASSUME MemInv, NEW c \in Contexts, NEW p \in Paths
    PROVE  LET n == LoadFile(mem, c, p) IN
           /\ n \in Mems /\ n.registry = c /\ n.stack = NULL /\ n.path[c] = p
           /\ \A d \in Contexts : n.next[d] = NULL /\ n.state[d] = IF d = c THEN "loaded" ELSE mem.state[d]
<1> DEFINE m1 == CreateContext(mem, c, p)
           m2 == PushContext(m1, c)
           m3 == MarkModule(m2, p, "loading")
           m4 == MarkModule(m3, p, "loaded")
           m5 == PopContext(m4)
<1>0. LoadFile(mem, c, p) = m5 /\ mem \in Mems /\ c # NULL
  BY DEF LoadFile, MemInv, Contexts, NULL
<1>1. /\ m1 \in Mems /\ m1.registry = c /\ m1.stack = NULL
      /\ m1.next = [mem.next EXCEPT ![c] = mem.registry]
      /\ m1.path = [mem.path EXCEPT ![c] = p] /\ m1.state = [mem.state EXCEPT ![c] = "created"]
  BY <1>0, CreateIs DEF MemInv
<1> HIDE DEF m1
<1>2. /\ m2 \in Mems /\ m2.registry = c /\ m2.stack = c
      /\ m2.next = [m1.next EXCEPT ![c] = NULL] /\ m2.path = m1.path /\ m2.state = m1.state
  BY <1>1, PushIs
<1> HIDE DEF m2
<1>3. (\A d \in Contexts : m2.next[d] = NULL) /\ m2.path[c] = p
  BY <1>0, <1>1, <1>2 DEF MemInv, Mems
<1>4. GetContext(m2, p) = c
  <2>1. m2.registry = c /\ m2.next[c] = NULL /\ m2.path[c] = p
    BY <1>2, <1>3
  <2> QED
    BY <2>1, FindInOne DEF GetContext
<1>5. /\ m3 \in Mems /\ m3.registry = c /\ m3.stack = c /\ m3.next = m2.next
      /\ m3.path = m2.path /\ m3.state = [m2.state EXCEPT ![c] = "loading"]
  BY <1>2, <1>4, MarkIs DEF States
<1> HIDE DEF m3
<1>6. GetContext(m3, p) = c
  BY <1>3, <1>5, FindInOne DEF GetContext
<1>7. /\ m4 \in Mems /\ m4.registry = c /\ m4.stack = c /\ m4.next = m2.next
      /\ m4.path = m2.path /\ m4.state = [m3.state EXCEPT ![c] = "loaded"]
  BY <1>5, <1>6, MarkIs DEF States
<1> HIDE DEF m4
<1>8. /\ m5 \in Mems /\ m5.registry = c /\ m5.stack = NULL
      /\ m5.next = [m2.next EXCEPT ![c] = NULL] /\ m5.path = m2.path /\ m5.state = m4.state
  BY <1>3, <1>7, PopIs
<1> HIDE DEF m5
<1>9. \A d \in Contexts : m5.next[d] = NULL
  BY <1>2, <1>3, <1>8 DEF Mems
<1>10. \A d \in Contexts : m5.state[d] = IF d = c THEN "loaded" ELSE mem.state[d]
  <2>1. m1.state \in [Contexts -> States] /\ m3.state \in [Contexts -> States] /\ mem.state \in [Contexts -> States]
    BY <1>0, <1>1, <1>5 DEF Mems
  <2> QED
    BY <1>1, <1>2, <1>5, <1>7, <1>8, <2>1
<1> QED
  BY <1>0, <1>3, <1>8, <1>9, <1>10

LEMMA ModuleInvNext == ModuleInv /\ [ModuleNext]_moduleVars => ModuleInv'
<1> SUFFICES ASSUME ModuleInv, [ModuleNext]_moduleVars PROVE ModuleInv'
  OBVIOUS
<1>0. MemInv /\ FilesInv
  BY DEF ModuleInv
<1>r. ASSUME NEW p, NEW x, Returned(p, x)
      PROVE  /\ FilesInv' /\ loads + 1 \in Contexts
             /\ last' # <<>> => last'.path = p /\ last'.result = x
  BY <1>0, <1>r, BoundAssumption DEF Returned, FilesInv, Contexts
<1>1. ASSUME NEW imp \in Imports, NEW d \in Dirs, LoadCached(imp, d) PROVE ModuleInv'
  <2> DEFINE p == Resolve(imp, d)
  <2>1. Cached(p) /\ Returned(p, GetContext(mem, p)) /\ UNCHANGED mem
    BY <1>1 DEF LoadCached
  <2> HIDE DEF p
  <2>2. GetContext(mem, p) = mem.registry /\ mem.registry # NULL /\ mem.path[mem.registry] = p
    BY <1>0, <2>1, RegistryIs DEF Cached
  <2>3. LastInv'
    BY <1>r, <2>1, <2>2 DEF LastInv
  <2> QED
    BY <1>0, <1>r, <2>1, <2>3 DEF ModuleInv, MemInv
<1>2. ASSUME NEW imp \in Imports, NEW d \in Dirs, LoadCore(imp, d) PROVE ModuleInv'
  <2> DEFINE p == Resolve(imp, d)
  <2>1. p[1] = "core" /\ Returned(p, loads + 1) /\ UNCHANGED mem
    BY <1>2 DEF LoadCore
  <2> HIDE DEF p
  <2>2. LastInv'
    BY <1>r, <2>1 DEF LastInv
  <2> QED
    BY <1>0, <1>r, <2>1, <2>2 DEF ModuleInv, MemInv
<1>3. ASSUME NEW imp \in Imports, NEW d \in Dirs, LoadFileModule(imp, d) PROVE ModuleInv'
  <2> DEFINE p == Resolve(imp, d)
             c == loads + 1
  <2>1. p \in files /\ Returned(p, c) /\ mem' = LoadFile(mem, c, p)
    BY <1>3 DEF LoadFileModule
  <2> HIDE DEF p
  <2>2. c \in Contexts /\ c # NULL /\ p \in Paths
    BY <1>0, <1>r, <2>1 DEF FilesInv, Paths, Contexts, NULL
  <2>n. FilesInv' /\ (last' # <<>> => last'.path = p /\ last'.result = c)
    BY <1>r, <2>1
  <2> HIDE DEF c
  <2>3. /\ mem' \in Mems /\ mem'.registry = c /\ mem'.stack = NULL /\ mem'.path[c] = p
        /\ \A e \in Contexts : mem'.next[e] = NULL /\ mem'.state[e] = IF e = c THEN "loaded" ELSE mem.state[e]
    BY <1>0, <2>1, <2>2, LoadFileIs
  <2>4. MemInv'
    BY <1>0, <2>2, <2>3 DEF MemInv
  <2>5. LastInv'
    BY <2>2, <2>3, <2>n DEF LastInv
  <2> QED
    BY <2>4, <2>5, <2>n DEF ModuleInv
<1>4. ASSUME NEW imp \in Imports, NEW d \in Dirs, LoadNothing(imp, d) PROVE ModuleInv'
  <2> DEFINE p == Resolve(imp, d)
  <2>1. Returned(p, NoExports) /\ UNCHANGED mem
    BY <1>4 DEF LoadNothing
  <2> HIDE DEF p
  <2>2. LastInv'
    BY <1>r, <2>1 DEF LastInv
  <2> QED
    BY <1>0, <1>r, <2>1, <2>2 DEF ModuleInv, MemInv
<1>5. CASE Cleanup
  <2> DEFINE freed == [c \in Contexts |->
                         IF c \in ToSet(ListFrom(mem, mem.registry)) THEN "freed" ELSE mem.state[c]]
             m1 == [mem EXCEPT !.registry = NULL]
             m2 == [m1 EXCEPT !.stack = NULL]
             m3 == [m2 EXCEPT !.state = freed]
  <2>0. mem' = m3 /\ last' = <<>> /\ UNCHANGED <<files, loads>>
    BY <1>5 DEF Cleanup
  <2>1. mem \in Mems /\ NULL \in 0..MaxLoads /\ mem.state \in [Contexts -> States]
    BY <1>0, BoundAssumption DEF MemInv, Mems, NULL
  <2>2. freed \in [Contexts -> States] /\ \A c \in Contexts : freed[c] = "freed" \/ freed[c] = mem.state[c]
    BY <2>1 DEF States
  <2> HIDE DEF freed
  <2>3. m1 \in Mems /\ m1.registry = NULL /\ m1.next = mem.next
    BY <2>1 DEF Mems
  <2> HIDE DEF m1
  <2>4. m2 \in Mems /\ m2.registry = NULL /\ m2.stack = NULL /\ m2.next = mem.next
    BY <2>1, <2>3 DEF Mems
  <2> HIDE DEF m2
  <2>5. m3 \in Mems /\ m3.registry = NULL /\ m3.stack = NULL /\ m3.next = mem.next /\ m3.state = freed
    BY <2>2, <2>4 DEF Mems
  <2> HIDE DEF m3
  <2>6. MemInv'
    BY <1>0, <2>0, <2>2, <2>5 DEF MemInv
  <2> QED
    BY <1>0, <2>0, <2>6 DEF ModuleInv, LastInv, FilesInv
<1>6. CASE FileChange
  <2>1. files' \subseteq Places \X ModuleNames /\ UNCHANGED <<mem, last, loads>>
    BY <1>0, <1>6 DEF FileChange, FilesInv
  <2> QED
    BY <1>0, <2>1 DEF ModuleInv, MemInv, LastInv, FilesInv
<1>7. CASE UNCHANGED moduleVars
  BY <1>7 DEF moduleVars, ModuleInv, MemInv, LastInv, FilesInv
<1> QED
  BY <1>1, <1>2, <1>3, <1>4, <1>5, <1>6, <1>7 DEF ModuleNext, Load

LEMMA ModuleListsHold == ModuleSpec => [](ListsSound /\ LastLoadCached)
<1>1. ModuleSpec => []ModuleInv
  BY ModuleInvInit, ModuleInvNext, PTL DEF ModuleSpec
<1> QED
  BY <1>1, ModuleInvImplies, PTL

\* Whatever is loaded, cleaned up or changed on disk, and for any number of loads:
\* between loads nothing is on the stack and the registry is a sound list.
THEOREM ListsSoundHolds == ModuleSpec => []ListsSound
BY ModuleListsHold, PTL

\* The last file that was loaded is in the cache, for any number of loads.
THEOREM LastLoadCachedHolds == ModuleSpec => []LastLoadCached
BY ModuleListsHold, PTL

-----------------------------------------------------------------------------
(* Packages.                                                               *)
Pkgs == [name : Names, version : Versions \cup {"installed"}, path : {"unset", "set"},
         loaded : {"yes", "no"}, handle : Nat]
VmStates == {"live", "freed"}
AllVersions == Versions \cup {"installed"}
Lines == {line \in Names \X AllVersions : KeyRead(line[1]) \in Names}

NamesDiffer(s) == \A i, j \in 1..Len(s) : s[i].name = s[j].name => i = j

\* A package structure whose VM is alive.
Alive(p) == HasVm(p) /\ p.handle \in 1..Len(vms) /\ vms[p.handle] = "live"

PackageTypes ==
    /\ vms \in Seq(VmStates) /\ reg \in Seq(Pkgs) /\ deps \in Seq(Pkgs) /\ at \in Nat
    /\ file # <<>> => file[2] \in Seq(Lines)

\* No two entries of the registry have one name or one VM, and none a dead VM.
RegistryInv ==
    /\ NamesDiffer(reg)
    /\ \A i \in 1..Len(reg) : HasVm(reg[i]) => Alive(reg[i])
    /\ \A i, j \in 1..Len(reg) : HasVm(reg[i]) /\ HasVm(reg[j]) /\ reg[i].handle = reg[j].handle => i = j

\* The dependencies before the one being installed, or all after the last one.
Done(i) == at = 0 \/ i < at

\* While all has gone well, those installed so far are as InstallTruthful says.
InstallInv ==
    /\ NamesDiffer(deps)
    /\ result = "loading" => file # <<>>
    /\ result = "ok" =>
         /\ \A i \in 1..Len(deps) : Done(i) => Alive(deps[i]) /\ \E j \in 1..Len(reg) : reg[j] = deps[i]
         /\ \A i, j \in 1..Len(deps) : Done(i) /\ Done(j) /\ deps[i].handle = deps[j].handle => i = j

PackageInv == PackageTypes /\ RegistryInv /\ InstallInv

LEMMA PackageInvImplies == PackageInv => VmsFreedOnce /\ InstallTruthful
<1> SUFFICES ASSUME PackageInv PROVE VmsFreedOnce /\ InstallTruthful
  OBVIOUS
<1>1. \A h \in 1..Len(vms) : vms[h] \in VmStates
  BY ElementOfSeq DEF PackageInv, PackageTypes
<1>2. VmsFreedOnce
  BY <1>1 DEF VmsFreedOnce, VmStates, PackageInv, RegistryInv, Alive
<1>3. InstallTruthful
  BY DEF InstallTruthful, PackageInv, InstallInv, Alive, Done, Idle
<1> QED
  BY <1>2, <1>3

LEMMA PackageInvInit == PackageInit => PackageInv
<1> SUFFICES ASSUME PackageInit PROVE PackageInv
  OBVIOUS
<1>1. /\ vms \in Seq(VmStates) /\ reg \in Seq(Pkgs) /\ deps \in Seq(Pkgs)
      /\ Len(reg) = 0 /\ Len(deps) = 0
  BY EmptySeq DEF PackageInit
<1>2. 1..Len(reg) = {} /\ 1..Len(deps) = {}
  BY <1>1
<1> QED
  BY <1>1, <1>2 DEF PackageInit, PackageInv, PackageTypes, RegistryInv, InstallInv, NamesDiffer

\* What ember_package_load leaves: the VMs that were there are untouched, and a
\* success has made one more, which the structure now holds.
LEMMA LoadsIs ==
    ASSUME vms \in Seq(VmStates), NEW p \in Pkgs, NEW r \in Loads(p)
    PROVE  /\ r.pkg \in Pkgs /\ r.pkg.name = p.name
           /\ r.vms \in Seq(VmStates) /\ Len(vms) <= Len(r.vms) /\ Len(vms) \in Nat /\ Len(r.vms) \in Nat
           /\ \A h \in 1..Len(vms) : r.vms[h] = vms[h]
           /\ r.ok => /\ r.pkg.loaded = "yes" /\ r.pkg.handle = Len(vms) + 1
                      /\ Len(r.vms) = Len(vms) + 1 /\ r.vms[Len(vms) + 1] = "live"
           /\ ~r.ok => r.pkg.loaded = p.loaded /\ r.pkg.handle = p.handle
<1>1. PICK o \in Downloads(p.name), e \in BOOLEAN : r = Evaluated(Located(p, o), e)
  BY DEF Loads
<1> DEFINE l == Located(p, o)
<1>2. /\ l.pkg \in Pkgs /\ l.pkg.name = p.name
      /\ l.pkg.loaded = p.loaded /\ l.pkg.handle = p.handle
  BY DEF Located, Downloaded, Pkgs
<1> HIDE DEF l
<1> DEFINE good == Opens(l) /\ l.disk[l.pkg.name] # "bad" /\ e
<1>3. /\ r.ok = good
      /\ r.vms = IF ~Opens(l) THEN vms ELSE Append(vms, IF good THEN "live" ELSE "freed")
      /\ r.pkg = IF good THEN [l.pkg EXCEPT !.loaded = "yes", !.handle = Len(vms) + 1] ELSE l.pkg
  BY <1>1 DEF Evaluated, BeforeLoad, l
<1>4. good => Opens(l)
  OBVIOUS
<1> HIDE DEF good
<1>5. Len(vms) \in Nat
  BY LenProperties
<1>6. CASE good
  <2>1. /\ r.vms = Append(vms, "live") /\ r.ok
        /\ r.pkg = [l.pkg EXCEPT !.loaded = "yes", !.handle = Len(vms) + 1]
    BY <1>3, <1>4, <1>6
  <2>2. /\ r.pkg \in Pkgs /\ r.pkg.name = p.name
        /\ r.pkg.loaded = "yes" /\ r.pkg.handle = Len(vms) + 1
    <3> DEFINE q == [l.pkg EXCEPT !.loaded = "yes"]
    <3>1. q \in Pkgs /\ q.name = p.name /\ q.loaded = "yes"
      BY <1>2 DEF Pkgs
    <3>2. r.pkg = [q EXCEPT !.handle = Len(vms) + 1]
      BY <2>1
    <3> HIDE DEF q
    <3> QED
      BY <1>5, <3>1, <3>2 DEF Pkgs
  <2>3. /\ r.vms \in Seq(VmStates) /\ Len(r.vms) = Len(vms) + 1 /\ r.vms[Len(vms) + 1] = "live"
        /\ \A h \in 1..Len(vms) : r.vms[h] = vms[h]
    BY <2>1, AppendProperties DEF VmStates
  <2> QED
    BY <1>5, <2>1, <2>2, <2>3
<1>7. CASE ~good
  <2>1. r.pkg = l.pkg /\ ~r.ok
    BY <1>3, <1>7
  <2>2. r.vms = vms \/ r.vms = Append(vms, "freed")
    BY <1>3, <1>7
  <2>3. /\ r.vms \in Seq(VmStates) /\ (Len(r.vms) = Len(vms) \/ Len(r.vms) = Len(vms) + 1)
        /\ \A h \in 1..Len(vms) : r.vms[h] = vms[h]
    BY <2>2, AppendProperties DEF VmStates
  <2> QED
    BY <1>2, <1>5, <2>1, <2>3
<1> QED
  BY <1>6, <1>7

\* The sequence t is r with p added, or in the place of the entry of its name.
ListAdded(r, p, t) ==
    /\ t \in Seq(Pkgs) /\ NamesDiffer(t)
    /\ \E k \in 1..Len(t) : t[k] = p
    /\ \A i \in 1..Len(t) : t[i] = p \/ (i \in 1..Len(r) /\ t[i] = r[i] /\ r[i].name # p.name)
    /\ \A i \in 1..Len(r) : r[i].name # p.name => i \in 1..Len(t) /\ t[i] = r[i]

LEMMA RegistryAddIs ==
    \A r \in Seq(Pkgs), p \in Pkgs : NamesDiffer(r) => ListAdded(r, p, RegistryAdd(r, p))
<1> SUFFICES ASSUME NEW r \in Seq(Pkgs), NamesDiffer(r), NEW p \in Pkgs,
                    NEW t, t = RegistryAdd(r, p)
             PROVE  ListAdded(r, p, t)
  OBVIOUS
<1>0. Len(r) \in Nat /\ \A i \in 1..Len(r) : r[i] \in Pkgs
  BY LenProperties, ElementOfSeq
<1>1. CASE \E i \in 1..Len(r) : r[i].name = p.name
  <2> DEFINE u == [i \in 1..Len(r) |-> IF r[i].name = p.name THEN p ELSE r[i]]
  <2>1. t = u
    BY <1>1 DEF RegistryAdd
  <2>2. u \in [1..Len(r) -> Pkgs]
    BY <1>0
  <2>3. t \in Seq(Pkgs) /\ DOMAIN t = 1..Len(r)
    BY <1>0, <2>1, <2>2, SeqDef
  <2>4. Len(t) = Len(r)
    <3>1. DOMAIN t = 1..Len(t) /\ Len(t) \in Nat
      BY <2>3, LenProperties
    <3>2. 1..Len(t) = 1..Len(r)
      BY <2>3, <3>1
    <3> QED
      BY <1>0, <3>1, <3>2, SameInterval
  <2>5. \A i \in 1..Len(r) : t[i] = IF r[i].name = p.name THEN p ELSE r[i]
    BY <2>1
  <2> HIDE DEF u
  <2> QED
    BY <1>1, <2>3, <2>4, <2>5 DEF NamesDiffer, ListAdded
<1>2. CASE ~ \E i \in 1..Len(r) : r[i].name = p.name
  <2>1. t = Append(r, p)
    BY <1>2 DEF RegistryAdd
  <2>2. /\ t \in Seq(Pkgs) /\ Len(t) = Len(r) + 1
        /\ \A i \in 1..Len(r) : t[i] = r[i]
        /\ t[Len(r) + 1] = p
    BY <2>1, AppendProperties
  <2>3. /\ \A i \in 1..Len(t) : i \in 1..Len(r) \/ i = Len(r) + 1
        /\ \A i \in 1..Len(r) : i \in 1..Len(t)
        /\ Len(r) + 1 \in 1..Len(t)
    BY <1>0, <2>2
  <2>4. NamesDiffer(t)
    BY <1>2, <2>2, <2>3 DEF NamesDiffer
  <2> QED
    BY <1>2, <2>2, <2>3, <2>4 DEF ListAdded
<1> QED
  BY <1>1, <1>2

LEMMA WithDependencyIs ==
    ASSUME NEW r \in Seq(Pkgs), NamesDiffer(r), NEW n \in Names, NEW v \in AllVersions,
           NEW t, t = WithDependency(r, n, v)
    PROVE  t \in Seq(Pkgs) /\ NamesDiffer(t)
<1>0. Len(r) \in Nat /\ \A i \in 1..Len(r) : r[i] \in Pkgs
  BY LenProperties, ElementOfSeq
<1>1. CASE \E i \in 1..Len(r) : r[i].name = n
  <2> DEFINE u == [i \in 1..Len(r) |-> IF r[i].name = n THEN [r[i] EXCEPT !.version = v] ELSE r[i]]
  <2>1. t = u
    BY <1>1 DEF WithDependency
  <2>2. \A i \in 1..Len(r) : u[i] \in Pkgs /\ u[i].name = r[i].name
    <3> TAKE i \in 1..Len(r)
    <3>1. r[i] \in Pkgs /\ u[i] = IF r[i].name = n THEN [r[i] EXCEPT !.version = v] ELSE r[i]
      BY <1>0
    <3> QED
      BY <3>1 DEF Pkgs, AllVersions
  <2>3. u \in [1..Len(r) -> Pkgs]
    <3>1. DOMAIN u = 1..Len(r) /\ u = [i \in 1..Len(r) |-> u[i]]
      OBVIOUS
    <3> HIDE DEF u
    <3> QED
      BY <2>2, <3>1
  <2>4. t \in Seq(Pkgs) /\ DOMAIN t = 1..Len(r)
    BY <1>0, <2>1, <2>3, SeqDef
  <2>5. Len(t) = Len(r)
    <3>1. DOMAIN t = 1..Len(t) /\ Len(t) \in Nat
      BY <2>4, LenProperties
    <3>2. 1..Len(t) = 1..Len(r)
      BY <2>4, <3>1
    <3> QED
      BY <1>0, <3>1, <3>2, SameInterval
  <2> HIDE DEF u
  <2> QED
    BY <2>1, <2>2, <2>4, <2>5 DEF NamesDiffer
<1>2. CASE ~ \E i \in 1..Len(r) : r[i].name = n
  <2> DEFINE p == Discover(n, v)
  <2>1. t = Append(r, p)
    BY <1>2 DEF WithDependency
  <2>2. p \in Pkgs /\ p.name = n
    BY DEF Discover, Pkgs, NoVm, AllVersions
  <2> HIDE DEF p
  <2>3. /\ t \in Seq(Pkgs) /\ Len(t) = Len(r) + 1
        /\ \A i \in 1..Len(r) : t[i] = r[i]
        /\ t[Len(r) + 1] = p
    BY <2>1, <2>2, AppendProperties
  <2>4. \A i \in 1..Len(t) : i \in 1..Len(r) \/ i = Len(r) + 1
    BY <1>0, <2>3
  <2>5. NamesDiffer(t)
    BY <1>2, <2>2, <2>3, <2>4 DEF NamesDiffer
  <2> QED
    BY <2>3, <2>5
<1> QED
  BY <1>1, <1>2

\* The registry stays sound when a package with a new VM, or with none, is added.
LEMMA RegistryAddKeeps ==
    ASSUME PackageInv, NEW p \in Pkgs, reg' = RegistryAdd(reg, p),
           Len(vms) <= Len(vms'), Len(vms) \in Nat, Len(vms') \in Nat,
           \A h \in 1..Len(vms) : vms'[h] = vms[h],
           HasVm(p) => p.handle \in 1..Len(vms') /\ p.handle > Len(vms) /\ vms'[p.handle] = "live"
    PROVE  reg' \in Seq(Pkgs) /\ RegistryInv'
<1>1. /\ reg' \in Seq(Pkgs) /\ NamesDiffer(reg')
      /\ \A i \in 1..Len(reg') : reg'[i] = p \/ (i \in 1..Len(reg) /\ reg'[i] = reg[i] /\ reg[i].name # p.name)
  <2>1. reg \in Seq(Pkgs) /\ NamesDiffer(reg)
    BY DEF PackageInv, PackageTypes, RegistryInv
  <2> QED
    <3>1. ListAdded(reg, p, RegistryAdd(reg, p))
      BY <2>1, RegistryAddIs
    <3>2. ListAdded(reg, p, reg')
      BY <3>1
    <3> QED
      BY <3>2 DEF ListAdded
<1>2. \A i \in 1..Len(reg) : HasVm(reg[i]) => reg[i].handle \in 1..Len(vms) /\ vms[reg[i].handle] = "live"
  BY DEF PackageInv, RegistryInv, Alive
<1>3. \A h \in 1..Len(vms) : h \in 1..Len(vms') /\ ~(h > Len(vms))
  OBVIOUS
<1>4. \A i \in 1..Len(reg') :
        HasVm(reg'[i]) => reg'[i].handle \in 1..Len(vms') /\ vms'[reg'[i].handle] = "live"
  BY <1>1, <1>2, <1>3
<1>5. ASSUME NEW i \in 1..Len(reg'), NEW j \in 1..Len(reg'),
             HasVm(reg'[i]), HasVm(reg'[j]), reg'[i].handle = reg'[j].handle
      PROVE  i = j
  <2>1. CASE reg'[i] = p /\ reg'[j] = p
    BY <1>1, <2>1 DEF NamesDiffer
  <2>2. CASE reg'[i] # p /\ reg'[j] # p
    BY <1>1, <1>5, <2>2 DEF PackageInv, RegistryInv
  <2>3. CASE reg'[i] = p /\ reg'[j] # p
    BY <1>1, <1>2, <1>3, <1>5, <2>3
  <2>4. CASE reg'[i] # p /\ reg'[j] = p
    BY <1>1, <1>2, <1>3, <1>5, <2>4
  <2> QED
    BY <2>1, <2>2, <2>3, <2>4
<1> QED
  BY <1>1, <1>4, <1>5 DEF RegistryInv, Alive

\* Operations that leave the VMs, the registry and the project alone.
LEMMA QuietKeeps ==
    ASSUME PackageInv, UNCHANGED <<vms, reg, deps, file>>, at' \in Nat,
           result' \notin {"ok", "loading"}
    PROVE  PackageInv'
BY DEF PackageInv, PackageTypes, RegistryInv, InstallInv, NamesDiffer, Alive

\* Operations that change only the VMs and the registry.
LEMMA RegistryKeeps ==
    ASSUME PackageInv, vms' \in Seq(VmStates), reg' \in Seq(Pkgs), RegistryInv',
           UNCHANGED <<deps, file, at>>, result' \notin {"ok", "loading"}
    PROVE  PackageInv'
BY DEF PackageInv, PackageTypes, InstallInv, NamesDiffer

\* Operations that change only the dependencies.
LEMMA DependenciesKeep ==
    ASSUME PackageInv, UNCHANGED <<vms, reg>>, deps' \in Seq(Pkgs), NamesDiffer(deps'), at' \in Nat,
           file' # <<>> => file'[2] \in Seq(Lines),
           result' # "ok", result' = "loading" => file' # <<>>
    PROVE  PackageInv'
BY DEF PackageInv, PackageTypes, RegistryInv, InstallInv, NamesDiffer, Alive

LEMMA EmptyRegistry ==
    ASSUME reg' = <<>> PROVE reg' \in Seq(Pkgs) /\ RegistryInv'
<1>1. reg' \in Seq(Pkgs) /\ Len(reg') = 0
  BY EmptySeq
<1>2. 1..Len(reg') = {}
  BY <1>1
<1> QED
  BY <1>1, <1>2 DEF RegistryInv, NamesDiffer

\* An entry of the registry is loaded again, or stays as it is.
LEMMA ReplaceKeeps ==
    ASSUME PackageInv, NEW i \in 1..Len(reg), NEW q \in Pkgs, q.name = reg[i].name,
           reg' = [reg EXCEPT ![i] = q],
           Len(vms) <= Len(vms'), Len(vms) \in Nat, Len(vms') \in Nat,
           \A h \in 1..Len(vms) : vms'[h] = vms[h],
           HasVm(q) => q.handle \in 1..Len(vms') /\ q.handle > Len(vms) /\ vms'[q.handle] = "live"
    PROVE  reg' \in Seq(Pkgs) /\ RegistryInv'
<1>1. /\ reg' \in Seq(Pkgs) /\ Len(reg') = Len(reg)
      /\ \A j \in 1..Len(reg) : reg'[j] = IF j = i THEN q ELSE reg[j]
  <2>1. reg \in Seq(Pkgs)
    BY DEF PackageInv, PackageTypes
  <2> QED
    BY <2>1, ExceptSeq
<1>2. \A j \in 1..Len(reg) : HasVm(reg[j]) => reg[j].handle \in 1..Len(vms) /\ vms[reg[j].handle] = "live"
  BY DEF PackageInv, RegistryInv, Alive
<1>3. \A h \in 1..Len(vms) : h \in 1..Len(vms') /\ ~(h > Len(vms))
  OBVIOUS
<1>4. NamesDiffer(reg')
  BY <1>1 DEF PackageInv, RegistryInv, NamesDiffer
<1>5. \A j \in 1..Len(reg') :
        HasVm(reg'[j]) => reg'[j].handle \in 1..Len(vms') /\ vms'[reg'[j].handle] = "live"
  BY <1>1, <1>2, <1>3
<1>6. ASSUME NEW j \in 1..Len(reg'), NEW k \in 1..Len(reg'),
             HasVm(reg'[j]), HasVm(reg'[k]), reg'[j].handle = reg'[k].handle
      PROVE  j = k
  <2>1. CASE j # i /\ k # i
    BY <1>1, <1>6, <2>1 DEF PackageInv, RegistryInv
  <2>2. CASE j = i /\ k # i
    BY <1>1, <1>2, <1>3, <1>6, <2>2
  <2>3. CASE j # i /\ k = i
    BY <1>1, <1>2, <1>3, <1>6, <2>3
  <2> QED
    BY <2>1, <2>2, <2>3
<1> QED
  BY <1>1, <1>4, <1>5, <1>6 DEF RegistryInv, Alive

\* ember_package_unload frees the VM of its own entry and of no other.
LEMMA UnloadKeeps ==
    ASSUME PackageInv, NEW i \in 1..Len(reg), Unload(i)
    PROVE  PackageInv'
<1>1. /\ vms' = IF HasVm(reg[i]) THEN Freed(vms, reg[i].handle) ELSE vms
      /\ reg' = [reg EXCEPT ![i] = Unloaded(reg[i])]
      /\ UNCHANGED <<deps, file, at>> /\ result' \notin {"ok", "loading"}
  BY DEF Unload
<1>2. vms \in Seq(VmStates) /\ reg \in Seq(Pkgs) /\ reg[i] \in Pkgs
  BY ElementOfSeq DEF PackageInv, PackageTypes
<1> DEFINE q == Unloaded(reg[i])
<1>3. q \in Pkgs /\ q.name = reg[i].name /\ ~HasVm(q)
  <2> DEFINE u == [reg[i] EXCEPT !.loaded = "no"]
             h == IF HasVm(reg[i]) THEN NoVm ELSE reg[i].handle
  <2>1. u \in Pkgs /\ u.name = reg[i].name /\ u.loaded = "no"
    BY <1>2 DEF Pkgs
  <2>2. h \in Nat
    BY <1>2 DEF Pkgs, NoVm
  <2>3. q = [u EXCEPT !.handle = h]
    <3>1. u.handle = reg[i].handle
      BY <1>2 DEF Pkgs
    <3> QED
      BY <3>1 DEF Unloaded
  <2> HIDE DEF u, h, q
  <2>4. q \in Pkgs /\ q.name = u.name /\ q.loaded = u.loaded
    BY <2>1, <2>2, <2>3 DEF Pkgs
  <2> QED
    BY <2>1, <2>4 DEF HasVm
<1> HIDE DEF q
<1>4. /\ reg' \in Seq(Pkgs) /\ Len(reg') = Len(reg)
      /\ \A j \in 1..Len(reg) : reg'[j] = IF j = i THEN q ELSE reg[j]
  BY <1>1, <1>2, <1>3, ExceptSeq DEF q
<1>5. /\ vms' \in Seq(VmStates) /\ Len(vms') = Len(vms)
      /\ \A h \in 1..Len(vms) : vms'[h] = vms[h] \/ (HasVm(reg[i]) /\ h = reg[i].handle)
  <2>1. CASE ~HasVm(reg[i])
    BY <1>1, <1>2, <2>1
  <2>2. CASE HasVm(reg[i])
    <3> DEFINE k == reg[i].handle
    <3>1. k \in 1..Len(vms) /\ vms[k] = "live"
      BY <2>2 DEF PackageInv, RegistryInv, Alive
    <3>2. vms' = [vms EXCEPT ![k] = "freed"]
      BY <1>1, <2>2, <3>1 DEF Freed
    <3> HIDE DEF k
    <3>3. /\ vms' \in Seq(VmStates) /\ Len(vms') = Len(vms)
          /\ \A h \in 1..Len(vms) : vms'[h] = IF h = k THEN "freed" ELSE vms[h]
      BY <1>2, <3>1, <3>2, ExceptSeq DEF VmStates
    <3> QED
      BY <2>2, <3>3 DEF k
  <2> QED
    BY <2>1, <2>2
<1>6. RegistryInv'
  <2>1. NamesDiffer(reg')
    BY <1>3, <1>4 DEF PackageInv, RegistryInv, NamesDiffer
  <2>2. ASSUME NEW j \in 1..Len(reg'), HasVm(reg'[j])
        PROVE  reg'[j].handle \in 1..Len(vms') /\ vms'[reg'[j].handle] = "live"
    <3>1. j # i /\ j \in 1..Len(reg) /\ reg'[j] = reg[j] /\ HasVm(reg[j])
      BY <1>3, <1>4, <2>2
    <3>2. reg[j].handle \in 1..Len(vms) /\ vms[reg[j].handle] = "live"
      BY <3>1 DEF PackageInv, RegistryInv, Alive
    <3>3. ~(HasVm(reg[i]) /\ reg[j].handle = reg[i].handle)
      BY <3>1 DEF PackageInv, RegistryInv
    <3> QED
      BY <1>5, <3>1, <3>2, <3>3
  <2>3. \A j, k \in 1..Len(reg') : HasVm(reg'[j]) /\ HasVm(reg'[k]) /\ reg'[j].handle = reg'[k].handle => j = k
    BY <1>3, <1>4 DEF PackageInv, RegistryInv
  <2> QED
    BY <2>1, <2>2, <2>3 DEF RegistryInv, Alive
<1> QED
  BY <1>1, <1>4, <1>5, <1>6, RegistryKeeps

\* Clean-up frees the VMs of the registry, each of one entry.
LEMMA CleanupKeeps == PackageInv /\ SystemCleanup => PackageInv'
<1> SUFFICES ASSUME PackageInv, SystemCleanup PROVE PackageInv'
  OBVIOUS
<1> DEFINE owners(h) == {i \in 1..Len(reg) : HasVm(reg[i]) /\ reg[i].handle = h}
           after == [h \in 1..Len(vms) |->
                       IF owners(h) = {} THEN vms[h]
                       ELSE IF vms[h] = "live" /\ \A i, j \in owners(h) : i = j THEN "freed" ELSE "twice"]
<1>1. vms' = after /\ reg' = <<>> /\ UNCHANGED <<deps, file, at>> /\ result' \notin {"ok", "loading"}
  BY DEF SystemCleanup
<1>2. vms \in Seq(VmStates) /\ Len(vms) \in Nat /\ \A h \in 1..Len(vms) : vms[h] \in VmStates
  BY ElementOfSeq, LenProperties DEF PackageInv, PackageTypes
<1>3. ASSUME NEW h \in 1..Len(vms) PROVE after[h] \in VmStates
  <2>1. CASE owners(h) = {}
    BY <1>2, <2>1
  <2>2. CASE owners(h) # {}
    <3>1. vms[h] = "live"
      BY <2>2 DEF PackageInv, RegistryInv, Alive
    <3>2. \A i, j \in owners(h) : i = j
      BY DEF PackageInv, RegistryInv
    <3> QED
      BY <2>2, <3>1, <3>2 DEF VmStates
  <2> QED
    BY <2>1, <2>2
<1>4. after \in [1..Len(vms) -> VmStates]
  <2>1. after = [h \in 1..Len(vms) |-> after[h]]
    OBVIOUS
  <2> HIDE DEF after
  <2> QED
    BY <1>3, <2>1
<1>5. vms' \in Seq(VmStates)
  BY <1>1, <1>2, <1>4, SeqDef
<1> QED
  BY <1>1, <1>5, EmptyRegistry, RegistryKeeps

LEMMA ImportKeeps ==
    ASSUME PackageInv, NEW i \in 1..Len(reg), ImportIntoVm(i)
    PROVE  PackageInv'
<1>1. UNCHANGED <<deps, file, at>> /\ result' \notin {"ok", "loading"}
  BY DEF ImportIntoVm
<1>2. vms \in Seq(VmStates) /\ reg \in Seq(Pkgs) /\ reg[i] \in Pkgs
  BY ElementOfSeq DEF PackageInv, PackageTypes
<1>3. CASE reg[i].loaded = "yes"
  <2> DEFINE same == [disk |-> disk, vms |-> vms, ok |-> TRUE, pkg |-> reg[i]]
  <2>0. PICK r \in {same} : vms' = r.vms /\ reg' = [reg EXCEPT ![i] = r.pkg]
    BY <1>3 DEF ImportIntoVm
  <2>s. r = same /\ same.vms = vms /\ same.pkg = reg[i]
    OBVIOUS
  <2> HIDE DEF same
  <2>1. vms' = vms /\ reg' = [reg EXCEPT ![i] = reg[i]]
    BY <2>0, <2>s
  <2>2. reg' = reg
    BY <1>2, <2>1
  <2> QED
    BY <1>1, <2>1, <2>2, QuietKeeps DEF PackageInv, PackageTypes
<1>4. CASE reg[i].loaded # "yes"
  <2>1. PICK r \in Loads(reg[i]) : vms' = r.vms /\ reg' = [reg EXCEPT ![i] = r.pkg]
    BY <1>4 DEF ImportIntoVm
  <2>2. /\ r.pkg \in Pkgs /\ r.pkg.name = reg[i].name
        /\ r.vms \in Seq(VmStates) /\ Len(vms) <= Len(r.vms) /\ Len(vms) \in Nat /\ Len(r.vms) \in Nat
        /\ \A h \in 1..Len(vms) : r.vms[h] = vms[h]
        /\ r.ok => /\ r.pkg.loaded = "yes" /\ r.pkg.handle = Len(vms) + 1
                   /\ Len(r.vms) = Len(vms) + 1 /\ r.vms[Len(vms) + 1] = "live"
        /\ ~r.ok => r.pkg.loaded = reg[i].loaded /\ r.pkg.handle = reg[i].handle
    BY <1>2, LoadsIs
  <2>3. PICK q : q = r.pkg
    OBVIOUS
  <2>4. HasVm(q) => q.handle \in 1..Len(vms') /\ q.handle > Len(vms) /\ vms'[q.handle] = "live"
    BY <1>4, <2>1, <2>2, <2>3 DEF HasVm
  <2>5. /\ q \in Pkgs /\ q.name = reg[i].name /\ reg' = [reg EXCEPT ![i] = q]
        /\ Len(vms) <= Len(vms') /\ Len(vms) \in Nat /\ Len(vms') \in Nat
        /\ \A h \in 1..Len(vms) : vms'[h] = vms[h]
        /\ vms' \in Seq(VmStates)
    BY <2>1, <2>2, <2>3
  <2>6. reg' \in Seq(Pkgs) /\ RegistryInv'
    BY <2>4, <2>5, ReplaceKeeps
  <2> QED
    BY <1>1, <2>5, <2>6, RegistryKeeps
<1> QED
  BY <1>3, <1>4

\* What a package added to the registry after a load must satisfy.
LEMMA LoadedIsFresh ==
    ASSUME PackageInv, NEW p \in Pkgs, NEW r \in Loads(p), r.ok, vms' = r.vms,
           reg' = RegistryAdd(reg, r.pkg)
    PROVE  reg' \in Seq(Pkgs) /\ RegistryInv'
<1>1. vms \in Seq(VmStates)
  BY DEF PackageInv, PackageTypes
<1>2. /\ r.pkg \in Pkgs /\ Len(vms) \in Nat /\ Len(r.vms) \in Nat
      /\ \A h \in 1..Len(vms) : r.vms[h] = vms[h]
      /\ r.pkg.handle = Len(vms) + 1
      /\ Len(r.vms) = Len(vms) + 1 /\ r.vms[Len(vms) + 1] = "live"
  BY <1>1, LoadsIs
<1>3. PICK q : q = r.pkg
  OBVIOUS
<1>4. /\ q \in Pkgs /\ reg' = RegistryAdd(reg, q) /\ Len(vms) <= Len(vms')
      /\ Len(vms) \in Nat /\ Len(vms') \in Nat /\ \A h \in 1..Len(vms) : vms'[h] = vms[h]
      /\ q.handle \in 1..Len(vms') /\ q.handle > Len(vms) /\ vms'[q.handle] = "live"
  BY <1>2, <1>3
<1> QED
  BY <1>4, RegistryAddKeeps

\* A load that fails leaves the registry sound.
LEMMA LongerVmsKeep ==
    ASSUME PackageInv, UNCHANGED reg, Len(vms) <= Len(vms'), Len(vms) \in Nat, Len(vms') \in Nat,
           \A h \in 1..Len(vms) : vms'[h] = vms[h]
    PROVE  reg' \in Seq(Pkgs) /\ RegistryInv'
BY DEF PackageInv, PackageTypes, RegistryInv, NamesDiffer, Alive

LEMMA ImportStatementKeeps ==
    ASSUME PackageInv, NEW n \in Names, NEW v \in Versions, ImportStatement(n, v)
    PROVE  PackageInv'
<1>1. UNCHANGED <<deps, file, at>> /\ result' \notin {"ok", "loading"}
  BY DEF ImportStatement
<1> DEFINE p == Discover(n, v)
<1>2. vms \in Seq(VmStates) /\ p \in Pkgs
  BY DEF PackageInv, PackageTypes, Discover, Pkgs, NoVm
<1>3. PICK r \in Loads(p) : /\ vms' = r.vms
                            /\ reg' = IF r.ok /\ on = "yes" THEN RegistryAdd(reg, r.pkg) ELSE reg
  BY DEF ImportStatement
<1> HIDE DEF p
<1>4. /\ r.vms \in Seq(VmStates) /\ Len(vms) <= Len(r.vms) /\ Len(vms) \in Nat /\ Len(r.vms) \in Nat
      /\ \A h \in 1..Len(vms) : r.vms[h] = vms[h]
  BY <1>2, LoadsIs
<1>5. reg' \in Seq(Pkgs) /\ RegistryInv'
  <2>1. CASE r.ok /\ on = "yes"
    BY <1>2, <1>3, <2>1, LoadedIsFresh
  <2>2. CASE ~(r.ok /\ on = "yes")
    BY <1>3, <1>4, <2>2, LongerVmsKeep
  <2> QED
    BY <2>1, <2>2
<1>6. vms' \in Seq(VmStates)
  BY <1>3, <1>4
<1> QED
  BY <1>1, <1>5, <1>6, RegistryKeeps

LEMMA InstallLibraryKeeps ==
    ASSUME PackageInv, NEW n \in Names, InstallLibrary(n)
    PROVE  PackageInv'
<1> DEFINE p == [name |-> n, version |-> "installed", path |-> "set", loaded |-> "no", handle |-> NoVm]
<1>1. /\ UNCHANGED <<vms, deps, file, at>> /\ result' \notin {"ok", "loading"}
      /\ reg' = RegistryAdd(reg, p) \/ UNCHANGED reg
  BY DEF InstallLibrary
<1>2. p \in Pkgs /\ ~HasVm(p)
  BY DEF Pkgs, HasVm, NoVm
<1> HIDE DEF p
<1>3. vms' \in Seq(VmStates) /\ Len(vms) \in Nat
  BY <1>1, LenProperties DEF PackageInv, PackageTypes
<1>4. CASE reg' = RegistryAdd(reg, p)
  <2>1. reg' \in Seq(Pkgs) /\ RegistryInv'
    BY <1>1, <1>2, <1>3, <1>4, RegistryAddKeeps
  <2> QED
    BY <1>1, <1>3, <2>1, RegistryKeeps
<1>5. CASE UNCHANGED reg
  BY <1>1, <1>5, QuietKeeps DEF PackageInv, PackageTypes
<1> QED
  BY <1>1, <1>4, <1>5

LEMMA SaveKeeps == PackageInv /\ SaveProject => PackageInv'
<1> SUFFICES ASSUME PackageInv, SaveProject PROVE PackageInv'
  OBVIOUS
<1> DEFINE lines == [i \in 1..Len(deps) |-> <<deps[i].name, deps[i].version>>]
<1>1. /\ \A i \in 1..Len(deps) : KeyRead(deps[i].name) \in Names
      /\ file' = <<project, lines>>
      /\ UNCHANGED <<reg, deps, vms, at>> /\ result' \notin {"ok", "loading"}
  BY DEF SaveProject
<1>2. Len(deps) \in Nat /\ \A i \in 1..Len(deps) : deps[i] \in Pkgs
  BY LenProperties, ElementOfSeq DEF PackageInv, PackageTypes
<1>3. \A i \in 1..Len(deps) : <<deps[i].name, deps[i].version>> \in Lines
  BY <1>1, <1>2 DEF Lines, Pkgs, AllVersions
<1>4. lines \in [1..Len(deps) -> Lines]
  BY <1>3
<1>5. lines \in Seq(Lines)
  BY <1>2, <1>4, SeqDef
<1> HIDE DEF lines
<1>6. file'[2] \in Seq(Lines)
  BY <1>1, <1>5
<1>7. at' \in Nat /\ deps' \in Seq(Pkgs) /\ NamesDiffer(deps')
  BY <1>1 DEF PackageInv, PackageTypes, InstallInv
<1> QED
  BY <1>1, <1>6, <1>7, DependenciesKeep

LEMMA LoadProjectKeeps == PackageInv /\ LoadProject => PackageInv'
<1> SUFFICES ASSUME PackageInv, LoadProject PROVE PackageInv'
  OBVIOUS
<1>1. /\ file # <<>> /\ deps' = <<>> /\ UNCHANGED <<reg, file, vms>>
      /\ at' \in Nat /\ result' \in {"loaded", "loading"}
  BY DEF LoadProject
<1>2. file' # <<>> /\ file'[2] \in Seq(Lines)
  BY <1>1 DEF PackageInv, PackageTypes
<1>3. deps' \in Seq(Pkgs) /\ NamesDiffer(deps')
  <2>1. deps' \in Seq(Pkgs) /\ Len(deps') = 0
    BY <1>1, EmptySeq
  <2>2. 1..Len(deps') = {}
    BY <2>1
  <2> QED
    BY <2>1, <2>2 DEF NamesDiffer
<1>4. result' # "ok"
  BY <1>1
<1> QED
  BY <1>1, <1>2, <1>3, <1>4, DependenciesKeep

LEMMA LoadLineKeeps == PackageInv /\ LoadLine => PackageInv'
<1> SUFFICES ASSUME PackageInv, LoadLine PROVE PackageInv'
  OBVIOUS
<1>1. /\ result = "loading" /\ at \in 1..Len(file[2])
      /\ deps' = WithDependency(deps, KeyRead(file[2][at][1]), file[2][at][2])
      /\ UNCHANGED <<reg, file, vms>>
      /\ at' \in {0, at + 1} /\ result' \in {"loaded", "loading"}
  BY DEF LoadLine
<1>2. file # <<>> /\ file[2] \in Seq(Lines)
  BY <1>1 DEF PackageInv, PackageTypes, InstallInv
<1>3. file[2][at] \in Lines
  BY <1>1, <1>2, ElementOfSeq
<1>4. KeyRead(file[2][at][1]) \in Names /\ file[2][at][2] \in AllVersions
  BY <1>3 DEF Lines
<1>5. deps \in Seq(Pkgs) /\ NamesDiffer(deps) /\ at' \in Nat
  BY <1>1 DEF PackageInv, PackageTypes, InstallInv
<1>6. deps' \in Seq(Pkgs) /\ NamesDiffer(deps')
  BY <1>1, <1>4, <1>5, WithDependencyIs
<1>7. result' # "ok" /\ file' # <<>> /\ file'[2] \in Seq(Lines)
  BY <1>1, <1>2
<1> QED
  BY <1>1, <1>5, <1>6, <1>7, DependenciesKeep

LEMMA AddDependencyKeeps ==
    ASSUME PackageInv, NEW n \in Names, NEW v \in Versions, AddDependency(n, v)
    PROVE  PackageInv'
<1>1. /\ deps' = WithDependency(deps, n, v) /\ UNCHANGED <<reg, file, vms, at>>
      /\ result' \notin {"ok", "loading"}
  BY DEF AddDependency
<1>2. deps \in Seq(Pkgs) /\ NamesDiffer(deps) /\ at' \in Nat /\ v \in AllVersions
  BY <1>1 DEF PackageInv, PackageTypes, InstallInv, AllVersions
<1>3. deps' \in Seq(Pkgs) /\ NamesDiffer(deps')
  BY <1>1, <1>2, WithDependencyIs
<1>4. file' # <<>> => file'[2] \in Seq(Lines)
  BY <1>1 DEF PackageInv, PackageTypes
<1> QED
  BY <1>1, <1>2, <1>3, <1>4, DependenciesKeep

\* The dependency installed now gets a VM and an entry; the names of the others
\* differ, so their entries stay.
LEMMA InstallNextKeeps == PackageInv /\ InstallNext => PackageInv'
<1> SUFFICES ASSUME PackageInv, InstallNext PROVE PackageInv'
  OBVIOUS
<1>1. PICK r \in Loads(deps[at]) :
        /\ vms' = r.vms /\ deps' = [deps EXCEPT ![at] = r.pkg]
        /\ reg' = IF r.ok THEN RegistryAdd(reg, r.pkg) ELSE reg
        /\ result' = IF r.ok THEN result ELSE "failed"
  BY DEF InstallNext, InstallResult
<1>2. /\ result # "loading" /\ at \in 1..Len(deps) /\ UNCHANGED file
      /\ at' = IF at = Len(deps) THEN 0 ELSE at + 1
  BY DEF InstallNext
<1>3. vms \in Seq(VmStates) /\ deps \in Seq(Pkgs) /\ deps[at] \in Pkgs /\ Len(deps) \in Nat
  BY <1>2, ElementOfSeq, LenProperties DEF PackageInv, PackageTypes
<1>4. /\ r.pkg \in Pkgs /\ r.pkg.name = deps[at].name
      /\ r.vms \in Seq(VmStates) /\ Len(vms) <= Len(r.vms) /\ Len(vms) \in Nat /\ Len(r.vms) \in Nat
      /\ \A h \in 1..Len(vms) : r.vms[h] = vms[h]
      /\ r.ok => /\ r.pkg.loaded = "yes" /\ r.pkg.handle = Len(vms) + 1
                 /\ Len(r.vms) = Len(vms) + 1 /\ r.vms[Len(vms) + 1] = "live"
  BY <1>3, LoadsIs
<1>5. PICK q \in Pkgs : q = r.pkg
  BY <1>4
<1>6. /\ deps' \in Seq(Pkgs) /\ Len(deps') = Len(deps)
      /\ \A i \in 1..Len(deps) : deps'[i] = IF i = at THEN q ELSE deps[i]
  <2>1. deps' = [deps EXCEPT ![at] = q]
    BY <1>1, <1>5
  <2> QED
    BY <1>2, <1>3, <2>1, ExceptSeq
<1>7. NamesDiffer(deps')
  BY <1>4, <1>5, <1>6 DEF PackageInv, InstallInv, NamesDiffer
<1>8. reg' \in Seq(Pkgs) /\ RegistryInv'
  <2>1. CASE r.ok
    BY <1>1, <1>3, <2>1, LoadedIsFresh
  <2>2. CASE ~r.ok
    BY <1>1, <1>4, <2>2, LongerVmsKeep
  <2> QED
    BY <2>1, <2>2
<1>9. PackageTypes'
  <2>1. vms' \in Seq(VmStates)
    BY <1>1, <1>4
  <2>2. at' \in Nat
    BY <1>2, <1>3
  <2>3. file' # <<>> => file'[2] \in Seq(Lines)
    BY <1>2 DEF PackageInv, PackageTypes
  <2> QED
    BY <1>6, <1>8, <2>1, <2>2, <2>3 DEF PackageTypes
<1>10. ASSUME result' = "ok"
       PROVE  /\ \A i \in 1..Len(deps') : Done(i)' => Alive(deps[i])' /\ \E j \in 1..Len(reg') : reg'[j] = deps'[i]
              /\ \A i, j \in 1..Len(deps') : Done(i)' /\ Done(j)' /\ deps'[i].handle = deps'[j].handle => i = j
  <2>1. r.ok /\ result = "ok"
    BY <1>1, <1>10
  <2>2. ListAdded(reg, q, reg')
    <3>1. reg \in Seq(Pkgs) /\ NamesDiffer(reg)
      BY DEF PackageInv, PackageTypes, RegistryInv
    <3>2. ListAdded(reg, q, RegistryAdd(reg, q))
      BY <3>1, RegistryAddIs
    <3> QED
      BY <1>1, <1>5, <2>1, <3>2
  <2>3. /\ q.loaded = "yes" /\ q.handle = Len(vms) + 1 /\ q.name = deps[at].name
        /\ Len(vms') = Len(vms) + 1 /\ vms'[Len(vms) + 1] = "live"
        /\ \A h \in 1..Len(vms) : vms'[h] = vms[h] /\ h \in 1..Len(vms')
    BY <1>1, <1>4, <1>5, <2>1
  <2>4. HasVm(q) /\ q.handle \in 1..Len(vms') /\ vms'[q.handle] = "live" /\ q.handle \notin 1..Len(vms)
    BY <1>4, <2>3 DEF HasVm, NoVm
  <2>5. \A i \in 1..Len(deps') : Done(i)' => i \in 1..Len(deps) /\ (i = at \/ (i # at /\ Done(i)))
    BY <1>2, <1>3, <1>6 DEF Done
  <2>6. \A i \in 1..Len(deps) : Done(i) => /\ HasVm(deps[i]) /\ deps[i].handle \in 1..Len(vms)
                                           /\ vms[deps[i].handle] = "live"
                                           /\ \E j \in 1..Len(reg) : reg[j] = deps[i]
    BY <2>1 DEF PackageInv, InstallInv, Alive
  <2>7. ASSUME NEW i \in 1..Len(deps'), Done(i)'
        PROVE  Alive(deps[i])' /\ \E j \in 1..Len(reg') : reg'[j] = deps'[i]
    <3>1. CASE i = at
      <4>1. deps'[i] = q
        BY <1>6, <3>1
      <4> QED
        BY <2>2, <2>4, <4>1 DEF Alive, ListAdded
    <3>2. CASE i # at /\ Done(i)
      <4>1. deps'[i] = deps[i] /\ i \in 1..Len(deps)
        BY <1>6, <3>2
      <4>2. PICK j \in 1..Len(reg) : reg[j] = deps[i]
        BY <2>6, <3>2, <4>1
      <4>3. deps[i].name # q.name
        BY <1>2, <2>3, <3>2, <4>1 DEF PackageInv, InstallInv, NamesDiffer
      <4>4. j \in 1..Len(reg') /\ reg'[j] = deps[i]
        BY <2>2, <4>2, <4>3 DEF ListAdded
      <4>5. HasVm(deps[i]) /\ deps[i].handle \in 1..Len(vms') /\ vms'[deps[i].handle] = "live"
        BY <2>3, <2>6, <3>2, <4>1
      <4> QED
        BY <4>1, <4>4, <4>5 DEF Alive
    <3> QED
      BY <2>5, <2>7, <3>1, <3>2
  <2>8. ASSUME NEW i \in 1..Len(deps'), NEW j \in 1..Len(deps'), Done(i)', Done(j)',
               deps'[i].handle = deps'[j].handle
        PROVE  i = j
    <3>1. /\ i \in 1..Len(deps) /\ (i = at \/ (i # at /\ Done(i)))
          /\ j \in 1..Len(deps) /\ (j = at \/ (j # at /\ Done(j)))
      BY <2>5, <2>8
    <3>2. CASE i # at /\ j # at
      BY <1>6, <2>1, <2>8, <3>1, <3>2 DEF PackageInv, InstallInv
    <3>3. CASE i = at /\ j # at
      BY <1>6, <2>4, <2>6, <2>8, <3>1, <3>3
    <3>4. CASE i # at /\ j = at
      BY <1>6, <2>4, <2>6, <2>8, <3>1, <3>4
    <3> QED
      BY <3>2, <3>3, <3>4
  <2> QED
    BY <2>7, <2>8
<1>11. result' # "loading"
  BY <1>1, <1>2
<1>12. InstallInv'
  BY <1>7, <1>10, <1>11 DEF InstallInv
<1> QED
  BY <1>8, <1>9, <1>12 DEF PackageInv

LEMMA PackageInvNext == PackageInv /\ [PackageNext]_packageVars => PackageInv'
<1> SUFFICES ASSUME PackageInv, [PackageNext]_packageVars PROVE PackageInv'
  OBVIOUS
<1>n. \A n \in Bases \X {0} : n \in Names
  BY PackageBounds DEF Names
<1>t. at \in Nat /\ vms \in Seq(VmStates) /\ deps \in Seq(Pkgs) /\ NamesDiffer(deps)
  BY DEF PackageInv, PackageTypes, InstallInv
<1>1. CASE SystemInit
  <2>1. reg' = <<>> /\ UNCHANGED <<vms, deps, file, at>> /\ result' \notin {"ok", "loading"}
    BY <1>1 DEF SystemInit
  <2> QED
    BY <1>t, <2>1, EmptyRegistry, RegistryKeeps
<1>2. CASE NewProject
  <2>1. deps' = <<>> /\ UNCHANGED <<vms, reg, file, at>> /\ result' \notin {"ok", "loading"}
    BY <1>2 DEF NewProject
  <2>2. deps' \in Seq(Pkgs) /\ Len(deps') = 0
    BY <2>1, EmptySeq
  <2>3. NamesDiffer(deps')
    <3>1. 1..Len(deps') = {}
      BY <2>2
    <3> QED
      BY <3>1 DEF NamesDiffer
  <2>4. at' \in Nat /\ (file' # <<>> => file'[2] \in Seq(Lines))
    BY <2>1 DEF PackageInv, PackageTypes
  <2> QED
    BY <2>1, <2>2, <2>3, <2>4, DependenciesKeep
<1>3. CASE InstallStart
  <2>1. at' = 1 /\ result' = "ok" /\ UNCHANGED <<vms, reg, deps, file>>
    BY <1>3 DEF InstallStart
  <2>2. \A i \in 1..Len(deps') : ~Done(i)'
    BY <2>1 DEF Done
  <2> QED
    BY <2>1, <2>2 DEF PackageInv, PackageTypes, RegistryInv, InstallInv, NamesDiffer, Alive
<1>4. ASSUME NEW i \in 1..Len(reg), Publish(i) PROVE PackageInv'
  <2>1. UNCHANGED <<vms, reg, deps, file, at>> /\ result' \notin {"ok", "loading"}
    BY <1>4 DEF Publish
  <2> QED
    BY <1>t, <2>1, QuietKeeps
<1>5. ASSUME NEW n \in Names, InstallLibraryFails(n) \/ Fetch(n) PROVE PackageInv'
  <2>1. UNCHANGED <<vms, reg, deps, file, at>> /\ result' \notin {"ok", "loading"}
    BY <1>5 DEF InstallLibraryFails, Fetch
  <2> QED
    BY <1>t, <2>1, QuietKeeps
<1>6. CASE UNCHANGED packageVars
  BY <1>6 DEF packageVars, PackageInv, PackageTypes, RegistryInv, InstallInv, NamesDiffer, Alive, Done
<1>7. CASE SystemCleanup \/ SaveProject \/ LoadProject \/ LoadLine \/ InstallNext
  BY <1>7, CleanupKeeps, SaveKeeps, LoadProjectKeeps, LoadLineKeeps, InstallNextKeeps
<1>8. ASSUME NEW i \in 1..Len(reg), Unload(i) \/ ImportIntoVm(i) PROVE PackageInv'
  BY <1>8, UnloadKeeps, ImportKeeps
<1>9. ASSUME NEW n \in Names, NEW v \in Versions, ImportStatement(n, v) \/ AddDependency(n, v) PROVE PackageInv'
  BY <1>9, ImportStatementKeeps, AddDependencyKeeps
<1>10. ASSUME NEW n \in Names, InstallLibrary(n) PROVE PackageInv'
  BY <1>10, InstallLibraryKeeps
<1> QED
  BY <1>n, <1>1, <1>2, <1>3, <1>4, <1>5, <1>6, <1>7, <1>8, <1>9, <1>10 DEF PackageNext

LEMMA PackageInvariance == PackageSpec => []PackageInv
BY PackageInvInit, PackageInvNext, PTL DEF PackageSpec

\* However packages are installed, imported, unloaded and cleaned up, and for any
\* number of them, no package VM is freed twice and no entry of the registry has
\* a VM that is gone.
THEOREM VmsFreedOnceHolds == PackageSpec => []VmsFreedOnce
BY PackageInvariance, PackageInvImplies, PTL

\* When ember_project_install_dependencies returns true, each of any number of
\* dependencies has a living VM of its own and is in the registry.
THEOREM InstallTruthfulHolds == PackageSpec => []InstallTruthful
BY PackageInvariance, PackageInvImplies, PTL
=============================================================================
