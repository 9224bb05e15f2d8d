---------------------------- MODULE Collections ----------------------------
(***************************************************************************)
(* Maps and sets of the language, from src/runtime/value/value.c: an open- *)
(* addressing hash table with linear probing, the Map and Set objects on   *)
(* top of it, and the iterators over them.                                 *)
(*                                                                         *)
(* The interpreter runs one operation at a time, so each is one step.      *)
(* hash_value is an arbitrary function of the keys, fixed in the initial   *)
(* state.  A Set stores every element as its own value.  Left out: garbage *)
(* collection, and the iterator over [key, value] pairs, which visits the  *)
(* same entries as the iterator over keys.                                 *)
(***************************************************************************)
EXTENDS Integers, Sequences, FiniteSets, FiniteSetsExt

CONSTANTS
    Keys,           \* the keys of maps and elements of sets
    Values,         \* the values of maps
    Hashes,         \* the values of hash_value
    InitCapacity,   \* capacity of a new table
    CapacityLimit   \* INT_MAX / 2: a table of this capacity is not enlarged

ASSUME TableAssumption ==
    /\ InitCapacity \in Nat \ {0} /\ CapacityLimit \in Nat
    /\ Hashes \subseteq Nat

NONE == -1                          \* a null entry pointer
NoValue == "nil"
Unoccupied == <<>>

VARIABLES
    kind,       \* "map" or "set"
    hash,       \* hash_value of every key
    table,      \* entries, capacity and length of the hash map
    size,       \* map->size or set->size
    it,         \* index of the iterator over the collection, NONE without one
    visited,    \* the keys it has returned
    changed,    \* history: was the collection modified since it was made?
    ref,        \* history: what the collection should hold
    torn        \* history: did a delete open a gap inside a run of entries?

collectionVars == <<kind, hash, table, size, it, visited, changed, ref, torn>>

-----------------------------------------------------------------------------
(* The hash table: t is a record of capacity, entries and length.          *)

Slots(t) == 0..(t.capacity - 1)
Occupied(t) == {i \in Slots(t) : t.entries[i] # Unoccupied}

\* allocate_hash_map
NewTable(c) == [capacity |-> c, length |-> 0, entries |-> [i \in 0..(c - 1) |-> Unoccupied]]

\* Variant for sensitivity checks: the probe does not look at the keys.
FindEntryFirstFree(t, k) ==
    LET probe(n) == (hash[k] + n) % t.capacity
        hits == {n \in Slots(t) : t.entries[probe(n)] = Unoccupied}
    IN  IF hits = {} THEN NONE ELSE probe(Min(hits))

\* find_entry: the first entry of the probe sequence that is unoccupied or has
\* the key.
FindEntry(t, k) ==
    LET probe(n) == (hash[k] + n) % t.capacity
        hits == {n \in Slots(t) : \/ t.entries[probe(n)] = Unoccupied
                                  \/ t.entries[probe(n)].key = k}
    IN  IF hits = {} THEN NONE ELSE probe(Min(hits))

\* hash_map_has_key and hash_map_get
HasKey(t, k) == FindEntry(t, k) # NONE /\ t.entries[FindEntry(t, k)] # Unoccupied
Get(t, k) == IF HasKey(t, k) THEN t.entries[FindEntry(t, k)].value ELSE NoValue

\* Variant: every store counts as a new key.
StoreCounting(t, k, v) ==
    LET e == FindEntry(t, k) IN
        IF e = NONE THEN t
        ELSE [t EXCEPT !.entries[e] = [key |-> k, value |-> v], !.length = @ + 1]

\* The second half of hash_map_set.
Store(t, k, v) ==
    LET e == FindEntry(t, k) IN
        IF e = NONE THEN t
        ELSE [t EXCEPT !.entries[e] = [key |-> k, value |-> v],
                       !.length = IF t.entries[e] = Unoccupied THEN @ + 1 ELSE @]

\* The entries of t stored anew, in their order, in a table of twice the capacity.
Rehash(t) ==
    LET moved[n \in 0..t.capacity] ==
            IF n = 0 THEN NewTable(2 * t.capacity)
            ELSE IF t.entries[n - 1] = Unoccupied THEN moved[n - 1]
            ELSE Store(moved[n - 1], t.entries[n - 1].key, t.entries[n - 1].value)
    IN  moved[t.capacity]

\* The load factor would exceed 0.75.
MustGrow(t) == 4 * (t.length + 1) > 3 * t.capacity

\* Can hash_map_set go on?  mem: does malloc succeed?
CanSet(t, mem) == ~MustGrow(t) \/ (t.capacity < CapacityLimit /\ mem)

\* hash_map_set, which leaves the table alone when it cannot grow.
HashMapSet(t, k, v, mem) ==
    IF ~CanSet(t, mem) THEN t
    ELSE Store(IF MustGrow(t) THEN Rehash(t) ELSE t, k, v)

-----------------------------------------------------------------------------
(* Map and Set.                                                            *)

CollectionInit ==
    /\ kind \in {"map", "set"}
    /\ hash \in [Keys -> Hashes]
    /\ table = NewTable(InitCapacity) /\ size = 0
    /\ it = NONE /\ visited = <<>> /\ changed = "no"
    /\ ref = [k \in Keys |-> NoValue]
    /\ torn = "no"

\* map_set
MapSet(k, v, mem) ==
    /\ kind = "map"
    /\ table' = HashMapSet(table, k, v, mem)
    /\ size' = IF HasKey(table, k) THEN size ELSE table'.length
    /\ ref' = IF CanSet(table, mem) THEN [ref EXCEPT ![k] = v] ELSE ref
    /\ changed' = "yes"
    /\ UNCHANGED <<kind, hash, it, visited, torn>>

\* set_add, of an element that is not there; otherwise nothing happens.
SetAdd(k, mem) ==
    /\ kind = "set"
    /\ ~HasKey(table, k)
    /\ table' = HashMapSet(table, k, k, mem)
    /\ size' = table'.length
    /\ ref' = IF CanSet(table, mem) THEN [ref EXCEPT ![k] = k] ELSE ref
    /\ changed' = "yes"
    /\ UNCHANGED <<kind, hash, it, visited, torn>>

\* map_delete and set_delete, of a key that is found; otherwise nothing happens.
\* The entry becomes unoccupied and no other entry moves.
Delete(k) ==
    /\ HasKey(table, k)
    /\ LET e == FindEntry(table, k) IN
        /\ table' = [table EXCEPT !.entries[e] = Unoccupied, !.length = @ - 1]
        /\ torn' = IF table.entries[(e + 1) % table.capacity] # Unoccupied THEN "yes" ELSE torn
    /\ size' = table'.length
    /\ ref' = [ref EXCEPT ![k] = NoValue]
    /\ changed' = "yes"
    /\ UNCHANGED <<kind, hash, it, visited>>

\* map_clear and set_clear
Clear ==
    /\ table' = NewTable(table.capacity) /\ size' = 0
    /\ ref' = [k \in Keys |-> NoValue]
    /\ torn' = "no" /\ changed' = "yes"
    /\ UNCHANGED <<kind, hash, it, visited>>

-----------------------------------------------------------------------------
(* Iterators.                                                              *)

\* ember_make_iterator; the capacity and length it copies are not used again.
MakeIterator ==
    /\ it' = 0 /\ visited' = <<>> /\ changed' = "no"
    /\ UNCHANGED <<kind, hash, table, size, ref, torn>>

\* The index of the entry the iterator returns next, or the end of the table.
NextOccupied == Min({i \in Occupied(table) : i >= it} \cup {Max({it, table.capacity})})

\* iterator_next returns an entry ...
IteratorNext ==
    /\ it # NONE /\ NextOccupied < table.capacity
    /\ visited' = Append(visited, table.entries[NextOccupied].key)
    /\ it' = NextOccupied + 1
    /\ UNCHANGED <<kind, hash, table, size, changed, ref, torn>>

\* Variant: the index is not taken back.
IteratorDoneAdvancing ==
    /\ it # NONE
    /\ it' = IF NextOccupied < table.capacity THEN NextOccupied + 1 ELSE NextOccupied
    /\ UNCHANGED <<kind, hash, table, size, visited, changed, ref, torn>>

\* ... and iterator_done moves to that entry, or to the end like iterator_next.
IteratorDone ==
    /\ it # NONE
    /\ it' = NextOccupied
    /\ UNCHANGED <<kind, hash, table, size, visited, changed, ref, torn>>

CollectionNext ==
    \/ \E k \in Keys, mem \in BOOLEAN :
          SetAdd(k, mem) \/ \E v \in Values : MapSet(k, v, mem)
    \/ \E k \in Keys : Delete(k)
    \/ Clear \/ MakeIterator \/ IteratorNext \/ IteratorDone

CollectionSpec == CollectionInit /\ [][CollectionNext]_collectionVars

-----------------------------------------------------------------------------
(* Properties.                                                             *)

\* The length is the number of occupied entries, and the arrays that map_keys,
\* map_values, map_entries and set_to_array allocate for `size` elements hold
\* every entry they copy, whatever deletes and rehashing of duplicates did. With
\* it, an entry is found for every key, so that no store is lost ("Should never
\* happen if capacity > length").
CountsRight ==
    /\ table.length = Cardinality(Occupied(table))
    /\ table.length <= size
    /\ torn = "no" => size = table.length
    /\ \A k \in Keys : FindEntry(table, k) # NONE

\* get and has answer what was last set, through probing, growth and failed
\* growth, as long as no delete has opened a gap in front of another entry.
LookupRight == torn = "no" => \A k \in Keys : Get(table, k) = ref[k]

\* keys is the sequence of the keys of the entries at the indices S, by index.
InOrder(t, S, keys) ==
    LET n == Cardinality(S) IN
    \E f \in [1..n -> S] :
        /\ \A a, b \in 1..n : a < b => f[a] < f[b]
        /\ keys = [a \in 1..n |-> t.entries[f[a]].key]

\* An iterator that reached its end returned every entry once and in order, when
\* the collection was left alone meanwhile; iterator_done may be called in between.
IterationComplete ==
    it >= table.capacity /\ changed = "no" => InOrder(table, Occupied(table), visited)

\* "Map should not contain deleted key": a key that was deleted and not set again
\* is not found.
DeletedGone == \A k \in Keys : ref[k] = NoValue => ~HasKey(table, k)
=============================================================================
