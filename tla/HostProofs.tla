----------------------------- MODULE HostProofs -----------------------------
(***************************************************************************)
(* Proofs about the embedding interface: the VM pool of the API and its    *)
(* imports and calls, for every configuration, number of VMs and modules,  *)
(* and for any depth of nesting.                                           *)
(***************************************************************************)
EXTENDS SecureVmPool, EmbeddingApi, BytecodeCache, SequenceTheorems, FiniteSetTheorems, TLAPS

(***************************************************************************)
(* The VM pool. What PoolOwned needs besides itself: only VMs in the hands *)
(* of callers are soiled, so a VM that leaves them is clean; and the types *)
(* of the counters, the configuration and the slots.                       *)
(***************************************************************************)
SecureTypes ==
    /\ initialized \in BOOLEAN
    /\ config \in [1..3 -> 1..MaxConfig]
    /\ slots \in Seq(Vms \cup {NULL})
    /\ allocation_count \in Nat /\ granted \in Nat
    /\ out \subseteq Vms /\ live \subseteq Vms /\ soiled \subseteq out

\* PoolOwned in terms of single slots.
SlotsOwned ==
    /\ \A i, j \in 1..Len(slots) : slots[i] = slots[j] /\ slots[i] # NULL => i = j
    /\ \A i \in 1..Len(slots) : slots[i] # NULL => slots[i] \in live /\ slots[i] \notin out
    /\ out \subseteq live
    /\ \A vm \in live : vm \in out \/ \E i \in 1..Len(slots) : slots[i] = vm
    /\ initialized => granted <= allocation_count /\ allocation_count <= config[3]
    /\ Len(slots) = IF initialized THEN config[1] ELSE 0

SecureInv == SecureTypes /\ SlotsOwned

LEMMA IntervalLength ==
    \A m, n \in Nat : 1..m = 1..n => m = n
<1> SUFFICES ASSUME NEW m \in Nat, NEW n \in Nat, 1..m = 1..n PROVE m = n
  OBVIOUS
<1>1. m <= n
  <2>1. m = 0 \/ m \in 1..m
    OBVIOUS
  <2> QED
    BY <2>1
<1>2. n <= m
  <2>1. n = 0 \/ n \in 1..n
    OBVIOUS
  <2> QED
    BY <2>1
<1> QED
  BY <1>1, <1>2

LEMMA SecureInvImplies == SecureInv => PoolOwned
<1> SUFFICES ASSUME SecureInv PROVE PoolOwned
  OBVIOUS
<1>1. DOMAIN slots = 1..Len(slots)
  BY LenProperties DEF SecureInv, SecureTypes
<1>2. \A vm : vm \in Pooled <=> vm # NULL /\ \E i \in 1..Len(slots) : slots[i] = vm
  BY <1>1 DEF Pooled
<1>3. NULL \notin live
  BY SecureConfigs DEF SecureInv, SecureTypes, SlotsOwned
<1>4. live = Pooled \cup out
  BY <1>2, <1>3 DEF SecureInv, SlotsOwned
<1>5. Pooled \cap (out \cup soiled) = {}
  BY <1>2 DEF SecureInv, SlotsOwned, SecureTypes
<1> QED
  BY <1>1, <1>4, <1>5 DEF SecureInv, SlotsOwned, PoolOwned

LEMMA SecureInvInit == SecureInit => SecureInv
<1> SUFFICES ASSUME SecureInit PROVE SecureInv
  OBVIOUS
<1>1. slots \in Seq(Vms \cup {NULL}) /\ Len(slots) = 0
  BY EmptySeq DEF SecureInit
<1>2. SecureTypes
  BY <1>1, SecureConfigs DEF SecureInit, SecureTypes
<1>3. 1..Len(slots) = {}
  BY <1>1
<1>4. SlotsOwned
  BY <1>1, <1>3 DEF SecureInit, SlotsOwned
<1> QED
  BY <1>2, <1>4 DEF SecureInv

\* After a cleanup or a new start only the VMs in callers' hands exist.
LEMMA EmptiedOwned ==
    ASSUME SecureInv, NEW size \in Nat, Emptied(size), UNCHANGED out
    PROVE  /\ slots' \in Seq(Vms \cup {NULL}) /\ Len(slots') = size
           /\ \A i \in 1..size : slots'[i] = NULL
           /\ live' = out /\ soiled' \subseteq out
           /\ allocation_count' = 0 /\ granted' = 0
<1>1. /\ slots' \in Seq(Vms \cup {NULL}) /\ Len(slots') = size
      /\ \A i \in 1..size : slots'[i] = NULL
  <2>1. slots' = [i \in 1..size |-> NULL]
    BY DEF Emptied
  <2>2. slots' \in [1..size -> Vms \cup {NULL}]
    BY <2>1
  <2>3. slots' \in Seq(Vms \cup {NULL})
    BY <2>2, SeqDef
  <2>4. DOMAIN slots' = 1..Len(slots') /\ Len(slots') \in Nat
    BY <2>3, LenProperties
  <2>5. 1..Len(slots') = 1..size
    BY <2>1, <2>4
  <2>6. Len(slots') = size
    BY <2>4, <2>5, IntervalLength
  <2> QED
    BY <2>1, <2>3, <2>6
<1>2. live' = out
  <2>1. PoolOwned
    BY SecureInvImplies
  <2> QED
    BY <2>1 DEF PoolOwned, Emptied
<1> QED
  BY <1>1, <1>2 DEF Emptied

LEMMA SecureInvNext == SecureInv /\ [SecureNext]_secureVars => SecureInv'
<1> SUFFICES ASSUME SecureInv, [SecureNext]_secureVars PROVE SecureInv'
  OBVIOUS
<1> USE SecureConfigs
<1> DEFINE S == Vms \cup {NULL}
<1>a. /\ slots \in Seq(S) /\ DOMAIN slots = 1..Len(slots) /\ Len(slots) \in Nat
      /\ \A i \in 1..Len(slots) : slots[i] \in S
  BY LenProperties, ElementOfSeq DEF SecureInv, SecureTypes
<1>b. config[1] \in Nat /\ config[3] \in Nat
  BY DEF SecureInv, SecureTypes
<1>1. ASSUME NEW c \in Configs, PoolInit(c) PROVE SecureInv'
  <2> DEFINE e == apply_secure_defaults(c)
  <2>1. e \in [1..3 -> 1..MaxConfig]
    BY <1>1 DEF PoolInit, validate_pool_config, apply_secure_defaults
  <2>2. UNCHANGED out
    BY <1>1 DEF PoolInit
  <2> HIDE DEF e
  <2>3. CASE initialized' = TRUE /\ config' = e /\ Emptied(e[1])
    <3>1. e[1] \in Nat /\ e[3] \in Nat /\ 0 <= e[3]
      BY <2>1
    <3>2. /\ slots' \in Seq(Vms \cup {NULL}) /\ Len(slots') = e[1]
          /\ \A i \in 1..e[1] : slots'[i] = NULL
          /\ live' = out /\ soiled' \subseteq out
          /\ allocation_count' = 0 /\ granted' = 0
      BY <2>2, <2>3, <3>1, EmptiedOwned
    <3> QED
      BY <2>1, <2>2, <2>3, <3>1, <3>2 DEF SecureInv, SecureTypes, SlotsOwned
  <2>4. CASE initialized' = FALSE /\ UNCHANGED config /\ Emptied(0)
    <3>1. /\ slots' \in Seq(Vms \cup {NULL}) /\ Len(slots') = 0
          /\ \A i \in 1..0 : slots'[i] = NULL
          /\ live' = out /\ soiled' \subseteq out
          /\ allocation_count' = 0 /\ granted' = 0
      BY <2>2, <2>4, EmptiedOwned
    <3> QED
      BY <2>2, <2>4, <3>1 DEF SecureInv, SecureTypes, SlotsOwned
  <2>5. CASE /\ ~initialized /\ initialized' = FALSE /\ UNCHANGED config
             /\ UNCHANGED <<slots, pool_size, allocation_count, elapsed, granted, soiled, live>>
    BY <2>2, <2>5 DEF SecureInv, SecureTypes, SlotsOwned
  <2> QED
    BY <1>1, <2>3, <2>4, <2>5 DEF PoolInit, e
<1>2. CASE PoolCleanup
  <2>1. initialized' = FALSE /\ Emptied(0) /\ UNCHANGED <<config, out>>
    BY <1>2 DEF PoolCleanup
  <2>2. /\ slots' \in Seq(Vms \cup {NULL}) /\ Len(slots') = 0
        /\ \A i \in 1..0 : slots'[i] = NULL
        /\ live' = out /\ soiled' \subseteq out
        /\ allocation_count' = 0 /\ granted' = 0
    BY <2>1, EmptiedOwned
  <2> QED
    BY <2>1, <2>2 DEF SecureInv, SecureTypes, SlotsOwned
<1>c. ASSUME initialized, ~RateLimited, CountCall, NEW n \in 0..1, Grant(n)
      PROVE  /\ allocation_count' \in Nat /\ granted' \in Nat
             /\ granted' <= allocation_count' /\ allocation_count' <= config[3]
  BY <1>b, <1>c DEF RateLimited, CountCall, Grant, SecureInv, SecureTypes, SlotsOwned
<1>3. CASE GetPooled
  <2>1. PICK i \in FirstWith(IsVm) : /\ slots' = [slots EXCEPT ![i] = NULL]
                                     /\ out' = out \cup {slots[i]} /\ soiled' = soiled \ {slots[i]}
    BY <1>3 DEF GetPooled
  <2>2. i \in 1..Len(slots) /\ slots[i] # NULL
    BY <1>a DEF FirstWith, IsVm
  <2>3. /\ slots' \in Seq(S) /\ Len(slots') = Len(slots)
        /\ \A j \in 1..Len(slots) : slots'[j] = IF j = i THEN NULL ELSE slots[j]
    BY <1>a, <2>1, <2>2, ExceptSeq
  <2>4. /\ initialized /\ UNCHANGED <<initialized, config, live>>
        /\ allocation_count' \in Nat /\ granted' \in Nat
        /\ granted' <= allocation_count' /\ allocation_count' <= config[3]
    BY <1>3, <1>c DEF GetPooled
  <2>5. SecureTypes'
    BY <1>a, <2>1, <2>2, <2>3, <2>4 DEF SecureInv, SecureTypes
  <2>6. SlotsOwned'
    <3>1. \A j, k \in 1..Len(slots) : slots'[j] = slots'[k] /\ slots'[j] # NULL => j = k
      BY <2>3 DEF SecureInv, SlotsOwned
    <3>2. \A j \in 1..Len(slots) : slots'[j] # NULL => slots'[j] \in live' /\ slots'[j] \notin out'
      BY <2>1, <2>2, <2>3, <2>4, SMTT(20) DEF SecureInv, SlotsOwned
    <3>3. out' \subseteq live'
      BY <2>1, <2>2, <2>4 DEF SecureInv, SlotsOwned
    <3>4. \A vm \in live' : vm \in out' \/ \E j \in 1..Len(slots) : slots'[j] = vm
      BY <2>1, <2>2, <2>3, <2>4 DEF SecureInv, SlotsOwned
    <3> QED
      BY <2>3, <2>4, <3>1, <3>2, <3>3, <3>4 DEF SecureInv, SlotsOwned
  <2> QED
    BY <2>5, <2>6 DEF SecureInv
<1>4. CASE GetNew
  <2>1. PICK vm \in Vms \ live : out' = out \cup {vm} /\ live' = live \cup {vm}
    BY <1>4 DEF GetNew
  <2>4. /\ initialized /\ UNCHANGED <<initialized, config, slots, soiled>>
        /\ allocation_count' \in Nat /\ granted' \in Nat
        /\ granted' <= allocation_count' /\ allocation_count' <= config[3]
    BY <1>4, <1>c DEF GetNew
  <2> QED
    BY <1>a, <2>1, <2>4 DEF SecureInv, SecureTypes, SlotsOwned
<1>5. CASE GetNothing
  <2>4. /\ initialized /\ UNCHANGED <<initialized, config, slots, out, soiled, live>>
        /\ allocation_count' \in Nat /\ granted' \in Nat
        /\ granted' <= allocation_count' /\ allocation_count' <= config[3]
    BY <1>5, <1>c DEF GetNothing
  <2> QED
    BY <2>4 DEF SecureInv, SecureTypes, SlotsOwned
<1>6. CASE Tick
  BY <1>6 DEF Tick, SecureInv, SecureTypes, SlotsOwned
<1>7. ASSUME NEW vm \in out, Use(vm) PROVE SecureInv'
  BY <1>7 DEF Use, SecureInv, SecureTypes, SlotsOwned
<1>8. ASSUME NEW vm \in out, PoolRelease(vm) PROVE SecureInv'
  <2>1. /\ out' = out \ {vm} /\ soiled' = soiled \ {vm}
        /\ UNCHANGED <<initialized, config, allocation_count, granted>>
    BY <1>8 DEF PoolRelease
  <2>2. vm \in Vms /\ vm # NULL /\ vm \in live /\ \A j \in 1..Len(slots) : slots[j] # vm
    BY DEF SecureInv, SecureTypes, SlotsOwned
  <2>3. ASSUME NEW i \in ReturnSlot, slots' = [slots EXCEPT ![i] = vm], UNCHANGED live
        PROVE  SecureInv'
    <3>1. i \in 1..Len(slots) /\ slots[i] = NULL
      BY <1>a DEF ReturnSlot, FirstWith, IsNull
    <3>2. /\ slots' \in Seq(S) /\ Len(slots') = Len(slots)
          /\ \A j \in 1..Len(slots) : slots'[j] = IF j = i THEN vm ELSE slots[j]
      BY <1>a, <2>2, <2>3, <3>1, ExceptSeq
    <3>3. SecureTypes'
      BY <2>1, <2>3, <3>2 DEF SecureInv, SecureTypes
    <3>4. \A j, k \in 1..Len(slots) : slots'[j] = slots'[k] /\ slots'[j] # NULL => j = k
      BY <2>2, <3>2 DEF SecureInv, SlotsOwned
    <3>5. \A j \in 1..Len(slots) : slots'[j] # NULL => slots'[j] \in live' /\ slots'[j] \notin out'
      BY <2>1, <2>2, <2>3, <3>2 DEF SecureInv, SlotsOwned
    <3>6. \A v \in live' : v \in out' \/ \E j \in 1..Len(slots) : slots'[j] = v
      BY <2>1, <2>3, <3>1, <3>2 DEF SecureInv, SecureTypes, SlotsOwned
    <3>7. SlotsOwned'
      BY <2>1, <2>3, <3>2, <3>4, <3>5, <3>6 DEF SecureInv, SlotsOwned
    <3> QED
      BY <3>3, <3>7 DEF SecureInv
  <2>4. CASE live' = live \ {vm} /\ UNCHANGED slots
    BY <2>1, <2>2, <2>4 DEF SecureInv, SecureTypes, SlotsOwned
  <2> QED
    BY <1>8, <2>3, <2>4 DEF PoolRelease
<1>9. CASE UNCHANGED secureVars
  BY <1>9 DEF secureVars, SecureInv, SecureTypes, SlotsOwned
<1> QED
  BY <1>1, <1>2, <1>3, <1>4, <1>5, <1>6, <1>7, <1>8, <1>9 DEF SecureNext

\* The pool of the API keeps every VM in one slot or in one caller's hands,
\* gives out only clean ones and keeps to its rate limit, for every number of
\* VMs, every configuration that passes the validation and any wrap of
\* secure_pool_size.
THEOREM PoolOwnedHolds == SecureSpec => []PoolOwned
<1>1. SecureSpec => []SecureInv
  BY SecureInvInit, SecureInvNext, PTL DEF SecureSpec
<1> QED
  BY <1>1, SecureInvImplies, PTL

(***************************************************************************)
(* Imports and calls. A module's place in vm->modules and its mark are     *)
(* taken as functions of the table, so that a step is a change of one mark.*)
(* Which file a module comes from plays no part, so the entries are a      *)
(* sequence of any records.                                                *)
(***************************************************************************)
IsSeq(s) == \E S : s \in Seq(S)
OneEach(s) == \A i, j \in 1..Len(s) : s[i].name = s[j].name => i = j
PlaceOf(s, m) == SelectInSeq(s, LAMBDA e : e.name = m)
MarkOf(s, m) == IF PlaceOf(s, m) = 0 THEN NOT_LOADED ELSE s[PlaceOf(s, m)].is_loaded

LEMMA SeqBasics ==
    ASSUME NEW s, IsSeq(s)
    PROVE  Len(s) \in Nat /\ DOMAIN s = 1..Len(s)
BY LenProperties DEF IsSeq

LEMMA AppendAny ==
    ASSUME NEW s, IsSeq(s), NEW e
    PROVE  /\ IsSeq(Append(s, e)) /\ Len(Append(s, e)) = Len(s) + 1
           /\ \A i \in 1..Len(s) : Append(s, e)[i] = s[i]
           /\ Append(s, e)[Len(s) + 1] = e
<1>1. PICK S : s \in Seq(S)
  BY DEF IsSeq
<1>2. s \in Seq(S \cup {e})
  BY <1>1, SeqMonotonic
<1> QED
  BY <1>2, AppendProperties DEF IsSeq

Put(s, i, e) == [s EXCEPT ![i] = e]

LEMMA PutAny ==
    ASSUME NEW s, IsSeq(s), NEW i \in 1..Len(s), NEW e
    PROVE  /\ IsSeq(Put(s, i, e)) /\ Len(Put(s, i, e)) = Len(s)
           /\ \A j \in 1..Len(s) : Put(s, i, e)[j] = IF j = i THEN e ELSE s[j]
<1>1. PICK S : s \in Seq(S)
  BY DEF IsSeq
<1>2. s \in Seq(S \cup {e})
  BY <1>1, SeqMonotonic
<1> QED
  BY <1>2, ExceptSeq DEF IsSeq, Put

\* PlaceOf finds the entry of a module when there is one.
LEMMA AtFinds ==
    ASSUME NEW s, IsSeq(s), OneEach(s), NEW m
    PROVE  \/ /\ PlaceOf(s, m) = 0 /\ \A i \in 1..Len(s) : s[i].name # m
           \/ PlaceOf(s, m) \in 1..Len(s) /\ PlaceOf(s, m) # 0 /\ s[PlaceOf(s, m)].name = m
<1> DEFINE I == {i \in 1..Len(s) : s[i].name = m}
<1>1. PlaceOf(s, m) = IF I # {} THEN Min(I) ELSE 0
  BY DEF PlaceOf, SelectInSeq
<1>2. Len(s) \in Nat
  BY SeqBasics
<1>3. CASE I = {}
  BY <1>1, <1>3
<1>4. CASE I # {}
  <2>1. PICK i \in I : TRUE
    BY <1>4
  <2>2. I = {i}
    BY <2>1 DEF OneEach
  <2>3. i \in Nat /\ i # 0
    BY <1>2, <2>1
  <2>4. Min(I) = i
    BY <2>2, <2>3 DEF Min
  <2> QED
    BY <1>1, <1>4, <2>1, <2>3, <2>4
<1> QED
  BY <1>3, <1>4

\* It is the only one.
LEMMA AtIs ==
    ASSUME NEW s, IsSeq(s), OneEach(s), NEW i \in 1..Len(s)
    PROVE  PlaceOf(s, s[i].name) = i
BY AtFinds DEF OneEach

\* The table after a mark, whichever of the two ways it was set.
LEMMA MarkAppends ==
    ASSUME NEW s, IsSeq(s), OneEach(s), NEW m, PlaceOf(s, m) = 0,
           NEW e, e.name = m
    PROVE  LET t == Append(s, e) IN
           /\ IsSeq(t) /\ OneEach(t) /\ Len(t) = Len(s) + 1
           /\ MarkOf(t, m) = e.is_loaded
           /\ \A x : x # m => MarkOf(t, x) = MarkOf(s, x)
<1> DEFINE t == Append(s, e)
<1>1. /\ IsSeq(t) /\ Len(t) = Len(s) + 1 /\ Len(s) \in Nat
      /\ \A i \in 1..Len(s) : t[i] = s[i]
      /\ t[Len(s) + 1] = e
  BY AppendAny, SeqBasics
<1> HIDE DEF t
<1>2. \A i \in 1..Len(s) : s[i].name # m
  BY AtFinds
<1>3. OneEach(t)
  <2> SUFFICES ASSUME NEW i \in 1..Len(t), NEW j \in 1..Len(t), t[i].name = t[j].name PROVE i = j
    BY DEF OneEach
  <2>1. (i \in 1..Len(s) \/ i = Len(s) + 1) /\ (j \in 1..Len(s) \/ j = Len(s) + 1)
    BY <1>1
  <2> QED
    BY <1>1, <1>2, <2>1 DEF OneEach
<1>4. Len(t) \in 1..Len(t) /\ t[Len(t)].name = m /\ Len(t) # 0 /\ t[Len(t)] = e
  BY <1>1
<1>5. PlaceOf(t, m) = Len(t)
  BY <1>1, <1>3, <1>4, AtIs
<1>6. MarkOf(t, m) = e.is_loaded
  BY <1>4, <1>5 DEF MarkOf
<1>7. ASSUME NEW x, x # m PROVE MarkOf(t, x) = MarkOf(s, x)
  <2>1. CASE PlaceOf(s, x) = 0
    <3>1. \A i \in 1..Len(s) : s[i].name # x
      BY <2>1, AtFinds
    <3>2. \A i \in 1..Len(t) : t[i].name # x
      <4> TAKE i \in 1..Len(t)
      <4>1. i \in 1..Len(s) \/ i = Len(s) + 1
        BY <1>1
      <4> QED
        BY <1>1, <1>7, <3>1, <4>1
    <3>3. PlaceOf(t, x) = 0
      BY <1>1, <1>3, <3>2, AtFinds
    <3> QED
      BY <2>1, <3>3 DEF MarkOf
  <2>2. CASE PlaceOf(s, x) # 0
    <3> DEFINE i == PlaceOf(s, x)
    <3>1. i \in 1..Len(s) /\ s[i].name = x
      BY <2>2, AtFinds
    <3> HIDE DEF i
    <3>2. i \in 1..Len(t) /\ t[i] = s[i]
      BY <1>1, <3>1
    <3>3. PlaceOf(t, x) = i
      BY <1>1, <1>3, <3>1, <3>2, AtIs
    <3> QED
      BY <2>2, <3>2, <3>3 DEF MarkOf, i
  <2> QED
    BY <2>1, <2>2
<1> QED
  BY <1>1, <1>3, <1>6, <1>7 DEF t

LEMMA MarkReplaces ==
    ASSUME NEW s, IsSeq(s), OneEach(s), NEW m, NEW k \in 1..Len(s), s[k].name = m,
           NEW e, e.name = m, NEW t, IsSeq(t), Len(t) = Len(s),
           \A j \in 1..Len(s) : t[j] = IF j = k THEN e ELSE s[j]
    PROVE  /\ OneEach(t)
           /\ MarkOf(t, m) = e.is_loaded
           /\ \A x : x # m => MarkOf(t, x) = MarkOf(s, x)
<1>0. PlaceOf(s, m) = k /\ k # 0
  BY AtIs, SeqBasics
<1>2. \A j \in 1..Len(s) : t[j].name = s[j].name
  OBVIOUS
<1>3. OneEach(t)
  BY <1>2 DEF OneEach
<1>4. \A x : PlaceOf(t, x) = PlaceOf(s, x)
  <2> TAKE x
  <2>1. CASE PlaceOf(s, x) = 0
    <3>1. \A j \in 1..Len(t) : t[j].name # x
      BY <1>2, <2>1, AtFinds
    <3> QED
      BY <1>3, <2>1, <3>1, AtFinds
  <2>2. CASE PlaceOf(s, x) # 0
    <3> DEFINE i == PlaceOf(s, x)
    <3>1. i \in 1..Len(s) /\ s[i].name = x
      BY <2>2, AtFinds
    <3> HIDE DEF i
    <3>2. i \in 1..Len(t) /\ t[i].name = x
      BY <1>2, <3>1
    <3>3. PlaceOf(t, x) = i
      BY <1>3, <3>2, AtIs
    <3> QED
      BY <3>3 DEF i
  <2> QED
    BY <2>1, <2>2
<1>5. MarkOf(t, m) = e.is_loaded
  BY <1>0, <1>4 DEF MarkOf
<1>6. ASSUME NEW x, x # m PROVE MarkOf(t, x) = MarkOf(s, x)
  <2>1. CASE PlaceOf(s, x) = 0
    BY <1>4, <2>1 DEF MarkOf
  <2>2. CASE PlaceOf(s, x) # 0
    <3>1. PlaceOf(s, x) \in 1..Len(s) /\ PlaceOf(s, x) # k
      BY <1>0, <1>6, <2>2, AtFinds
    <3> QED
      BY <1>4, <2>2, <3>1 DEF MarkOf
  <2> QED
    BY <2>1, <2>2
<1> QED
  BY <1>3, <1>5, <1>6

\* Every entry has a name and a mark.
HasKeys(s) == \A i \in 1..Len(s) : "name" \in DOMAIN s[i] /\ "is_loaded" \in DOMAIN s[i]

Table(s) == IsSeq(s) /\ OneEach(s) /\ HasKeys(s)

LEMMA MarkedTable ==
    ASSUME Table(entries), NEW m, NEW path, NEW mark, entries' = Marked(m, path, mark)
    PROVE  /\ Table(entries') /\ MarkOf(entries', m) = mark
           /\ \A x : x # m => MarkOf(entries', x) = MarkOf(entries, x)
           /\ Len(entries') = IF PlaceOf(entries, m) = 0 THEN Len(entries) + 1 ELSE Len(entries)
<1>0. IsSeq(entries) /\ OneEach(entries) /\ HasKeys(entries) /\ Index(m) = PlaceOf(entries, m)
  BY DEF Table, Index, PlaceOf
<1>1. CASE PlaceOf(entries, m) = 0
  <2> DEFINE e == [name |-> m, path |-> path, is_loaded |-> mark]
  <2>1. entries' = Append(entries, e)
    BY <1>0, <1>1 DEF Marked
  <2>2. e.name = m /\ e.is_loaded = mark /\ "name" \in DOMAIN e /\ "is_loaded" \in DOMAIN e
    OBVIOUS
  <2> HIDE DEF e
  <2>3. /\ IsSeq(entries') /\ OneEach(entries') /\ Len(entries') = Len(entries) + 1
        /\ MarkOf(entries', m) = mark
        /\ \A x : x # m => MarkOf(entries', x) = MarkOf(entries, x)
    BY <1>0, <1>1, <2>1, <2>2, MarkAppends
  <2>4. HasKeys(entries')
    <3>1. /\ \A i \in 1..Len(entries) : entries'[i] = entries[i]
          /\ entries'[Len(entries) + 1] = e /\ Len(entries) \in Nat
      BY <1>0, <2>1, AppendAny, SeqBasics
    <3> SUFFICES ASSUME NEW i \in 1..Len(entries')
                 PROVE  "name" \in DOMAIN entries'[i] /\ "is_loaded" \in DOMAIN entries'[i]
      BY DEF HasKeys
    <3>2. i \in 1..Len(entries) \/ i = Len(entries) + 1
      BY <2>3, <3>1
    <3> QED
      BY <1>0, <2>2, <3>1, <3>2 DEF HasKeys
  <2> QED
    BY <1>1, <2>3, <2>4 DEF Table
<1>2. CASE PlaceOf(entries, m) # 0
  <2> DEFINE k == PlaceOf(entries, m)
             e == [entries[k] EXCEPT !.path = path, !.is_loaded = mark]
  <2>1. entries' = Put(entries, k, e)
    BY <1>0, <1>2 DEF Marked, Put
  <2>2. k \in 1..Len(entries) /\ entries[k].name = m
    BY <1>0, <1>2, AtFinds
  <2>3. "name" \in DOMAIN entries[k] /\ "is_loaded" \in DOMAIN entries[k]
    BY <1>0, <2>2 DEF HasKeys
  <2>4. e.name = m /\ e.is_loaded = mark /\ "name" \in DOMAIN e /\ "is_loaded" \in DOMAIN e
    BY <2>2, <2>3
  <2> HIDE DEF e, k
  <2>a. /\ IsSeq(entries') /\ Len(entries') = Len(entries)
        /\ \A j \in 1..Len(entries) : entries'[j] = IF j = k THEN e ELSE entries[j]
    BY <1>0, <2>1, <2>2, PutAny
  <2>5. /\ OneEach(entries') /\ MarkOf(entries', m) = mark
        /\ \A x : x # m => MarkOf(entries', x) = MarkOf(entries, x)
    BY <1>0, <2>2, <2>4, <2>a, MarkReplaces
  <2>6. HasKeys(entries')
    BY <1>0, <2>4, <2>a DEF HasKeys
  <2> QED
    BY <1>2, <2>5, <2>6, <2>a DEF Table
<1> QED
  BY <1>1, <1>2

Programs == ModuleNames \cup {Main, "function"}
Frames == [import : ModuleNames \cup {CALL}, chunk : Programs, locals : 0..MaxLocals]

(***************************************************************************)
(* The inductive invariant. A module is marked as loading exactly when it  *)
(* is on the stack, a module is on the stack once, and the bottom of the   *)
(* stack keeps the state of the outermost program.                         *)
(***************************************************************************)
TableInv == Table(entries) /\ Len(entries) <= MaxModules

StackInv ==
    /\ frames \in Seq(Frames) /\ chunk \in Programs /\ locals \in 0..MaxLocals
    /\ \A i, j \in 1..Len(frames) : frames[i].import = frames[j].import /\ frames[i].import # CALL => i = j
    /\ \A m \in ModuleNames :
         MarkOf(entries, m) = LOADING <=> \E i \in 1..Len(frames) : frames[i].import = m

EvaluatedInv ==
    /\ evaluated \in [ModuleNames -> Nat]
    /\ \A m \in ModuleNames : evaluated[m] = IF MarkOf(entries, m) = LOADED THEN 1 ELSE 0

BottomInv ==
    IF Len(frames) = 0 THEN chunk = Main /\ locals = base
                       ELSE frames[1].chunk = Main /\ frames[1].locals = base

ApiInv == TableInv /\ StackInv /\ EvaluatedInv /\ BottomInv

LEMMA ApiInvImplies == ApiInv => ImportsRight
<1> SUFFICES ASSUME ApiInv PROVE ImportsRight
  OBVIOUS
<1>1. /\ DOMAIN frames = 1..Len(frames) /\ Len(frames) \in Nat
      /\ DOMAIN entries = 1..Len(entries)
  BY LenProperties, SeqBasics DEF ApiInv, StackInv, TableInv, Table
<1>2. \A m : is_loaded(m) = MarkOf(entries, m)
  BY DEF is_loaded, Index, MarkOf, PlaceOf
<1>3. ASSUME NEW m \in ModuleNames
      PROVE  Cardinality({i \in DOMAIN frames : frames[i].import = m}) = IF is_loaded(m) = LOADING THEN 1 ELSE 0
  <2> DEFINE I == {i \in DOMAIN frames : frames[i].import = m}
  <2>1. CASE is_loaded(m) = LOADING
    <3>1. PICK i \in 1..Len(frames) : frames[i].import = m
      BY <1>2, <2>1 DEF ApiInv, StackInv
    <3>2. I = {i}
      BY <1>1, <3>1, ApiAssumption DEF ApiInv, StackInv
    <3> QED
      BY <2>1, <3>2, FS_Singleton
  <2>2. CASE is_loaded(m) # LOADING
    <3>1. I = {}
      BY <1>1, <1>2, <2>2 DEF ApiInv, StackInv
    <3> QED
      BY <2>2, <3>1, FS_EmptySet
  <2> QED
    BY <2>1, <2>2
<1>4. \A m \in ModuleNames : evaluated[m] = IF is_loaded(m) = LOADED THEN 1 ELSE 0
  BY <1>2 DEF ApiInv, EvaluatedInv
<1>5. \A i, j \in DOMAIN entries : entries[i].name = entries[j].name => i = j
  BY <1>1 DEF ApiInv, TableInv, Table, OneEach
<1>6. Len(entries) <= MaxModules /\ locals <= MaxLocals
  BY ApiAssumption DEF ApiInv, TableInv, StackInv
<1>7. frames = <<>> => chunk = Main /\ locals = base
  BY EmptySeq DEF ApiInv, BottomInv
<1> QED
  BY <1>3, <1>4, <1>5, <1>6, <1>7 DEF ImportsRight

LEMMA ApiInvInit == ApiInit => ApiInv
<1> SUFFICES ASSUME ApiInit PROVE ApiInv
  OBVIOUS
<1>1. entries = <<>> /\ frames = <<>>
  BY DEF ApiInit
<1>2. IsSeq(entries) /\ Len(entries) = 0 /\ 1..Len(entries) = {}
  BY <1>1, EmptySeq DEF IsSeq
<1>3. frames \in Seq(Frames) /\ Len(frames) = 0 /\ 1..Len(frames) = {}
  BY <1>1, EmptySeq
<1>4. TableInv
  BY <1>2, ApiAssumption DEF TableInv, Table, OneEach, HasKeys
<1>5. \A m : MarkOf(entries, m) = NOT_LOADED
  BY <1>2, <1>4, AtFinds DEF MarkOf, TableInv, Table
<1>6. StackInv
  BY <1>3, <1>5, ApiAssumption DEF ApiInit, StackInv, LOADING, NOT_LOADED, Programs
<1>7. EvaluatedInv
  BY <1>5 DEF ApiInit, EvaluatedInv, NOT_LOADED, LOADED
<1>8. BottomInv
  BY <1>3 DEF ApiInit, BottomInv
<1> QED
  BY <1>4, <1>6, <1>7, <1>8 DEF ApiInv

\* A call of either kind puts one frame on the stack.
LEMMA EnterFrame ==
    ASSUME ApiInv, NEW f \in Frames, NEW program, NEW n, Enter(f, program, n)
    PROVE  /\ frames' \in Seq(Frames) /\ Len(frames') = Len(frames) + 1 /\ Len(frames) \in Nat
           /\ \A i \in 1..Len(frames) : frames'[i] = frames[i]
           /\ frames'[Len(frames) + 1] = f
           /\ \A i \in 1..Len(frames') : i \in 1..Len(frames) \/ i = Len(frames) + 1
           /\ chunk' = program /\ locals' = n
<1>1. frames \in Seq(Frames) /\ frames' = Append(frames, f)
  BY DEF ApiInv, StackInv, Enter
<1>2. Len(frames) \in Nat
  BY <1>1, LenProperties
<1>3. /\ frames' \in Seq(Frames) /\ Len(frames') = Len(frames) + 1
      /\ \A i \in 1..Len(frames) : frames'[i] = frames[i]
      /\ frames'[Len(frames) + 1] = f
  BY <1>1, AppendProperties
<1> QED
  BY <1>2, <1>3 DEF Enter

\* The bottom of the stack stays what it was, or is the new frame.
LEMMA EnterBottom ==
    ASSUME ApiInv, UNCHANGED base, NEW k, NEW program, NEW n,
           [import |-> k, chunk |-> chunk, locals |-> locals] \in Frames,
           Enter([import |-> k, chunk |-> chunk, locals |-> locals], program, n)
    PROVE  BottomInv'
<1> DEFINE f == [import |-> k, chunk |-> chunk, locals |-> locals]
<1>1. f.chunk = chunk /\ f.locals = locals
  OBVIOUS
<1> HIDE DEF f
<1>2. /\ Len(frames') = Len(frames) + 1 /\ Len(frames) \in Nat
      /\ \A i \in 1..Len(frames) : frames'[i] = frames[i]
      /\ frames'[Len(frames) + 1] = f
  BY EnterFrame DEF f
<1>3. CASE Len(frames) = 0
  BY <1>1, <1>2, <1>3 DEF ApiInv, BottomInv
<1>4. CASE Len(frames) # 0
  <2>1. 1 \in 1..Len(frames) /\ Len(frames') # 0
    BY <1>2, <1>4
  <2> QED
    BY <1>2, <1>4, <2>1 DEF ApiInv, BottomInv
<1> QED
  BY <1>3, <1>4

\* A return takes the top frame off and puts its chunk and locals back.
LEMMA RestoreFrame ==
    ASSUME ApiInv, frames # <<>>, Restore, UNCHANGED base
    PROVE  /\ frames' \in Seq(Frames) /\ Len(frames') = Len(frames) - 1
           /\ Len(frames) \in 1..Len(frames) /\ Len(frames) \in Nat
           /\ Last(frames) = frames[Len(frames)] /\ Last(frames) \in Frames
           /\ \A i \in 1..Len(frames') : i \in 1..Len(frames) /\ i # Len(frames) /\ frames'[i] = frames[i]
           /\ \A i \in 1..Len(frames) : i \in 1..Len(frames') \/ i = Len(frames)
           /\ chunk' \in Programs /\ locals' \in 0..MaxLocals
           /\ BottomInv'
<1>1. frames \in Seq(Frames) /\ Len(frames) \in Nat /\ Len(frames) # 0
  BY EmptySeq DEF ApiInv, StackInv
<1>2. \A i \in 1..Len(frames) : frames[i] \in Frames
  BY <1>1, ElementOfSeq
<1>3. Len(frames) \in 1..Len(frames)
  BY <1>1
<1>4. /\ chunk' = frames[Len(frames)].chunk /\ locals' = frames[Len(frames)].locals
      /\ frames' = SubSeq(frames, 1, Len(frames) - 1)
  BY DEF Restore, Last, Front
<1>5. /\ frames' \in Seq(Frames) /\ Len(frames') = Len(frames) - 1
      /\ \A i \in 1..(Len(frames) - 1) : frames'[i] = frames[i]
  <2>1. \A i \in 1..(Len(frames) - 1) : frames[i] \in Frames
    BY <1>1, <1>2
  <2>2. /\ frames' \in Seq(Frames)
        /\ Len(frames') = IF 1 <= Len(frames) - 1 THEN Len(frames) - 1 - 1 + 1 ELSE 0
        /\ \A i \in 1..(Len(frames) - 1 - 1 + 1) : frames'[i] = frames[1 + i - 1]
    BY <1>1, <1>4, <2>1, SubSeqProperties
  <2>3. Len(frames) - 1 - 1 + 1 = Len(frames) - 1 /\ \A i \in 1..(Len(frames) - 1) : 1 + i - 1 = i
    BY <1>1
  <2>4. Len(frames') = Len(frames) - 1
    <3>1. \A n \in Nat \ {0} : n - 1 = IF 1 <= n - 1 THEN n - 1 - 1 + 1 ELSE 0
      OBVIOUS
    <3> QED
      BY ONLY <1>1, <2>2, <3>1
  <2>5. \A i \in 1..(Len(frames) - 1) : frames'[i] = frames[i]
    BY <2>2, <2>3
  <2> QED
    BY <2>2, <2>4, <2>5
<1>6. chunk' \in Programs /\ locals' \in 0..MaxLocals
  BY <1>2, <1>3, <1>4 DEF Frames
<1>7. BottomInv'
  <2>1. CASE Len(frames) = 1
    BY <1>4, <1>5, <2>1 DEF ApiInv, BottomInv
  <2>2. CASE Len(frames) # 1
    <3>1. Len(frames') # 0 /\ 1 \in 1..(Len(frames) - 1)
      BY <1>1, <1>5, <2>2
    <3> QED
      BY <1>1, <1>5, <3>1 DEF ApiInv, BottomInv
  <2> QED
    BY <2>1, <2>2
<1>8. \A i \in 1..Len(frames') : i \in 1..Len(frames) /\ i # Len(frames) /\ frames'[i] = frames[i]
  BY <1>1, <1>5
<1>9. \A i \in 1..Len(frames) : i \in 1..Len(frames') \/ i = Len(frames)
  BY <1>1, <1>5
<1> QED
  BY <1>1, <1>2, <1>3, <1>5, <1>6, <1>7, <1>8, <1>9 DEF Last

LEMMA ApiInvNext == ApiInv /\ [ApiNext]_apiVars => ApiInv'
<1> SUFFICES ASSUME ApiInv, [ApiNext]_apiVars PROVE ApiInv'
  OBVIOUS
<1> USE ApiAssumption
<1>m. LOADING # NOT_LOADED /\ LOADING # LOADED /\ NOT_LOADED # LOADED
  BY DEF LOADING, NOT_LOADED, LOADED
<1>t. Table(entries) /\ \A m : is_loaded(m) = MarkOf(entries, m)
  BY DEF ApiInv, TableInv, is_loaded, Index, MarkOf, PlaceOf
<1>l. Len(entries) \in Nat
  BY <1>t, SeqBasics DEF Table
<1>1. ASSUME NEW m \in ModuleNames, BeginImport(m) PROVE ApiInv'
  <2> DEFINE path == ember_resolve_module_path_vm(m)
             f == [import |-> m, chunk |-> chunk, locals |-> locals]
  <2>1. /\ entries' = Marked(m, path, LOADING) /\ Enter(f, m, 0) /\ Len(entries) < MaxModules
        /\ MarkOf(entries, m) = NOT_LOADED /\ UNCHANGED <<base, evaluated>>
    BY <1>1, <1>t DEF BeginImport, MayLoad
  <2> HIDE DEF path
  <2>2. f \in Frames /\ f.import = m
    BY DEF Frames, ApiInv, StackInv
  <2>3. BottomInv'
    BY <2>1, <2>2, EnterBottom
  <2> HIDE DEF f
  <2>4. /\ frames' \in Seq(Frames) /\ Len(frames') = Len(frames) + 1 /\ Len(frames) \in Nat
        /\ \A i \in 1..Len(frames) : frames'[i] = frames[i]
        /\ frames'[Len(frames) + 1] = f
        /\ \A i \in 1..Len(frames') : i \in 1..Len(frames) \/ i = Len(frames) + 1
        /\ chunk' = m /\ locals' = 0
    BY <2>1, <2>2, EnterFrame
  <2>5. /\ Table(entries') /\ MarkOf(entries', m) = LOADING
        /\ \A x : x # m => MarkOf(entries', x) = MarkOf(entries, x)
        /\ Len(entries') = IF PlaceOf(entries, m) = 0 THEN Len(entries) + 1 ELSE Len(entries)
    BY <1>t, <2>1, MarkedTable
  <2>6. TableInv'
    BY <1>l, <2>1, <2>5 DEF TableInv
  <2>7. \A i \in 1..Len(frames) : frames[i].import # m
    BY <1>m, <2>1 DEF ApiInv, StackInv
  <2>8. StackInv'
    <3>1. chunk' \in Programs /\ locals' \in 0..MaxLocals
      BY <2>4 DEF Programs
    <3>2. \A i, j \in 1..Len(frames') : frames'[i].import = frames'[j].import /\ frames'[i].import # CALL => i = j
      <4> TAKE i, j \in 1..Len(frames')
      <4>1. (i \in 1..Len(frames) \/ i = Len(frames) + 1) /\ (j \in 1..Len(frames) \/ j = Len(frames) + 1)
        BY <2>4
      <4> QED
        BY <2>2, <2>4, <2>7, <4>1 DEF ApiInv, StackInv
    <3>3. ASSUME NEW x \in ModuleNames
          PROVE  MarkOf(entries', x) = LOADING <=> \E i \in 1..Len(frames') : frames'[i].import = x
      <4>1. CASE x = m
        <5>1. Len(frames) + 1 \in 1..Len(frames')
          BY <2>4
        <5> QED
          BY <2>2, <2>4, <2>5, <4>1, <5>1
      <4>2. CASE x # m
        <5>1. (\E i \in 1..Len(frames') : frames'[i].import = x) <=> (\E i \in 1..Len(frames) : frames[i].import = x)
          <6>1. \A i \in 1..Len(frames) : i \in 1..Len(frames')
            BY <2>4
          <6> QED
            BY <2>2, <2>4, <4>2, <6>1
        <5> QED
          BY <2>5, <4>2, <5>1 DEF ApiInv, StackInv
      <4> QED
        BY <4>1, <4>2
    <3> QED
      BY <2>4, <3>1, <3>2, <3>3 DEF StackInv
  <2>9. EvaluatedInv'
    BY <1>m, <2>1, <2>5 DEF ApiInv, EvaluatedInv
  <2> QED
    BY <2>3, <2>6, <2>8, <2>9 DEF ApiInv
<1>2. ASSUME NEW m \in ModuleNames, ImportUnreadable(m) PROVE ApiInv'
  <2> DEFINE path == ember_resolve_module_path_vm(m)
  <2>1. /\ entries' = Marked(m, path, NOT_LOADED) /\ Len(entries) < MaxModules
        /\ MarkOf(entries, m) = NOT_LOADED /\ UNCHANGED <<frames, chunk, locals, base, evaluated>>
    BY <1>2, <1>t DEF ImportUnreadable, MayLoad, AfterFailure
  <2> HIDE DEF path
  <2>2. /\ Table(entries') /\ MarkOf(entries', m) = NOT_LOADED
        /\ \A x : x # m => MarkOf(entries', x) = MarkOf(entries, x)
        /\ Len(entries') = IF PlaceOf(entries, m) = 0 THEN Len(entries) + 1 ELSE Len(entries)
    BY <1>t, <2>1, MarkedTable
  <2>3. TableInv'
    BY <1>l, <2>1, <2>2 DEF TableInv
  <2>4. \A x : MarkOf(entries', x) = MarkOf(entries, x)
    BY <2>1, <2>2
  <2> QED
    BY <2>1, <2>3, <2>4 DEF ApiInv, StackInv, EvaluatedInv, BottomInv
<1>3. CASE EndImport
  <2> DEFINE m == Last(frames).import
  <2>1. frames # <<>> /\ m # CALL /\ Restore /\ UNCHANGED base
    BY <1>3 DEF EndImport
  <2>2. PICK mark : /\ entries' = Marked(m, entries[Index(m)].path, mark)
                    /\ \/ mark = LOADED /\ evaluated' = [evaluated EXCEPT ![m] = @ + 1]
                       \/ mark = NOT_LOADED /\ UNCHANGED evaluated
    BY <1>3 DEF EndImport, AfterFailure
  <2>3. /\ frames' \in Seq(Frames) /\ Len(frames') = Len(frames) - 1
        /\ Len(frames) \in 1..Len(frames) /\ Len(frames) \in Nat
        /\ Last(frames) = frames[Len(frames)] /\ Last(frames) \in Frames
        /\ \A i \in 1..Len(frames') : i \in 1..Len(frames) /\ i # Len(frames) /\ frames'[i] = frames[i]
        /\ \A i \in 1..Len(frames) : i \in 1..Len(frames') \/ i = Len(frames)
        /\ chunk' \in Programs /\ locals' \in 0..MaxLocals
        /\ BottomInv'
    BY <2>1, RestoreFrame
  <2>4. m \in ModuleNames /\ frames[Len(frames)].import = m
    BY <2>1, <2>3 DEF Frames
  <2>5. PICK name \in ModuleNames : name = m
    BY <2>4
  <2>6. /\ frames[Len(frames)].import = name
        /\ entries' = Marked(name, entries[Index(name)].path, mark)
        /\ \/ mark = LOADED /\ evaluated' = [evaluated EXCEPT ![name] = @ + 1]
           \/ mark = NOT_LOADED /\ UNCHANGED evaluated
    BY <2>2, <2>4, <2>5
  <2> HIDE DEF m
  <2>7. MarkOf(entries, name) = LOADING
    BY <2>3, <2>6 DEF ApiInv, StackInv
  <2>8. PlaceOf(entries, name) # 0
    BY <1>m, <2>7 DEF MarkOf
  <2>9. /\ Table(entries') /\ MarkOf(entries', name) = mark
        /\ \A x : x # name => MarkOf(entries', x) = MarkOf(entries, x)
        /\ Len(entries') = Len(entries)
    BY <1>t, <2>6, <2>8, MarkedTable
  <2>10. TableInv'
    BY <2>9 DEF ApiInv, TableInv
  <2>11. \A i \in 1..Len(frames') : frames'[i].import # name
    BY <2>3, <2>4, <2>5, <2>6, ZenonT(40) DEF ApiInv, StackInv
  <2>12. StackInv'
    <3>1. \A i, j \in 1..Len(frames') : frames'[i].import = frames'[j].import /\ frames'[i].import # CALL => i = j
      <4>1. \A i, j \in 1..Len(frames) : frames[i].import = frames[j].import /\ frames[i].import # CALL => i = j
        BY DEF ApiInv, StackInv
      <4>2. \A i \in 1..Len(frames') : i \in 1..Len(frames) /\ frames'[i] = frames[i]
        BY <2>3
      <4> QED
        BY <4>1, <4>2, Zenon
    <3>2. ASSUME NEW x \in ModuleNames
          PROVE  MarkOf(entries', x) = LOADING <=> \E i \in 1..Len(frames') : frames'[i].import = x
      <4>1. CASE x = name
        BY <1>m, <2>6, <2>9, <2>11, <4>1
      <4>2. CASE x # name
        <5>1. (\E i \in 1..Len(frames') : frames'[i].import = x) <=> (\E i \in 1..Len(frames) : frames[i].import = x)
          BY <2>3, <2>6, <4>2
        <5> QED
          BY <2>9, <4>2, <5>1 DEF ApiInv, StackInv
      <4> QED
        BY <4>1, <4>2
    <3> QED
      BY <2>3, <3>1, <3>2 DEF StackInv
  <2>13. EvaluatedInv'
    <3>1. evaluated[name] = 0
      BY <1>m, <2>7 DEF ApiInv, EvaluatedInv
    <3>2. CASE mark = LOADED /\ evaluated' = [evaluated EXCEPT ![name] = @ + 1]
      BY <2>9, <3>1, <3>2 DEF ApiInv, EvaluatedInv
    <3>3. CASE mark = NOT_LOADED /\ UNCHANGED evaluated
      BY <1>m, <2>9, <3>1, <3>3 DEF ApiInv, EvaluatedInv
    <3> QED
      BY <2>6, <3>2, <3>3
  <2> QED
    BY <2>3, <2>10, <2>12, <2>13 DEF ApiInv
<1>4. CASE BeginCall
  <2> DEFINE f == [import |-> CALL, chunk |-> chunk, locals |-> locals]
  <2>1. PICK argc \in 0..MaxArgs :
          Enter(f, "function", IF locals + argc > MaxLocals THEN MaxLocals ELSE locals + argc)
    BY <1>4 DEF BeginCall
  <2>2. UNCHANGED <<entries, base, evaluated>>
    BY <1>4 DEF BeginCall
  <2>3. PICK n \in 0..MaxLocals : Enter(f, "function", n)
    <3>1. locals \in 0..MaxLocals
      BY DEF ApiInv, StackInv
    <3>2. (IF locals + argc > MaxLocals THEN MaxLocals ELSE locals + argc) \in 0..MaxLocals
      BY <3>1
    <3> QED
      BY <2>1, <3>2
  <2>4. f \in Frames /\ f.import = CALL
    BY DEF Frames, ApiInv, StackInv
  <2>5. BottomInv'
    BY <2>2, <2>3, <2>4, EnterBottom
  <2> HIDE DEF f
  <2>6. /\ frames' \in Seq(Frames) /\ Len(frames') = Len(frames) + 1 /\ Len(frames) \in Nat
        /\ \A i \in 1..Len(frames) : frames'[i] = frames[i]
        /\ frames'[Len(frames) + 1] = f
        /\ \A i \in 1..Len(frames') : i \in 1..Len(frames) \/ i = Len(frames) + 1
        /\ chunk' = "function" /\ locals' = n
    BY <2>3, <2>4, EnterFrame
  <2>7. \A i, j \in 1..Len(frames') : frames'[i].import = frames'[j].import /\ frames'[i].import # CALL => i = j
    <3> TAKE i, j \in 1..Len(frames')
    <3>1. (i \in 1..Len(frames) \/ i = Len(frames) + 1) /\ (j \in 1..Len(frames) \/ j = Len(frames) + 1)
      BY <2>6
    <3> QED
      BY <2>4, <2>6, <3>1 DEF ApiInv, StackInv
  <2>8. \A x \in ModuleNames :
          (\E i \in 1..Len(frames') : frames'[i].import = x) <=> (\E i \in 1..Len(frames) : frames[i].import = x)
    <3>1. \A i \in 1..Len(frames) : i \in 1..Len(frames')
      BY <2>6
    <3> QED
      BY <2>4, <2>6, <3>1
  <2>9. StackInv'
    BY <2>2, <2>6, <2>7, <2>8 DEF ApiInv, StackInv, Programs
  <2>10. TableInv' /\ EvaluatedInv'
    BY <2>2 DEF ApiInv, TableInv, EvaluatedInv
  <2> QED
    BY <2>5, <2>9, <2>10 DEF ApiInv
<1>5. CASE EndCall
  <2>1. /\ frames # <<>> /\ Last(frames).import = CALL /\ Restore
        /\ UNCHANGED <<entries, base, evaluated>>
    BY <1>5 DEF EndCall
  <2>2. /\ frames' \in Seq(Frames) /\ Len(frames') = Len(frames) - 1
        /\ Last(frames) = frames[Len(frames)]
        /\ \A i \in 1..Len(frames') : i \in 1..Len(frames) /\ frames'[i] = frames[i]
        /\ \A i \in 1..Len(frames) : i \in 1..Len(frames') \/ i = Len(frames)
        /\ chunk' \in Programs /\ locals' \in 0..MaxLocals
        /\ BottomInv'
    BY <2>1, RestoreFrame
  <2>3. \A x \in ModuleNames :
          (\E i \in 1..Len(frames') : frames'[i].import = x) <=> (\E i \in 1..Len(frames) : frames[i].import = x)
    BY <2>1, <2>2
  <2>4. StackInv'
    BY <2>1, <2>2, <2>3 DEF ApiInv, StackInv
  <2>5. TableInv' /\ EvaluatedInv'
    BY <2>1 DEF ApiInv, TableInv, EvaluatedInv
  <2> QED
    BY <2>2, <2>4, <2>5 DEF ApiInv
<1>6. CASE Declare
  <2>1. /\ locals < MaxLocals /\ locals' = locals + 1
        /\ base' = IF frames = <<>> THEN base + 1 ELSE base
        /\ UNCHANGED <<entries, frames, chunk, evaluated>>
    BY <1>6 DEF Declare
  <2>2. StackInv'
    <3>1. locals' \in 0..MaxLocals
      BY <2>1 DEF ApiInv, StackInv
    <3> QED
      BY <2>1, <3>1 DEF ApiInv, StackInv
  <2>3. BottomInv'
    <3>1. frames = <<>> <=> Len(frames) = 0
      BY EmptySeq DEF ApiInv, StackInv
    <3> QED
      BY <2>1, <3>1 DEF ApiInv, BottomInv
  <2> QED
    BY <2>1, <2>2, <2>3 DEF ApiInv, TableInv, EvaluatedInv
<1>7. CASE UNCHANGED <<entries, frames, chunk, locals, base, evaluated>>
  BY <1>7 DEF ApiInv, TableInv, StackInv, EvaluatedInv, BottomInv
<1>8. ASSUME NEW p \in CustomPaths, AddModulePath(p) PROVE ApiInv'
  BY <1>7, <1>8 DEF AddModulePath
<1>9. ASSUME NEW m \in ModuleNames, NEW place \in Places, FileMoves(m, place) PROVE ApiInv'
  BY <1>7, <1>9 DEF FileMoves
<1>10. CASE UNCHANGED apiVars
  BY <1>7, <1>10 DEF apiVars
<1> QED
  BY <1>1, <1>2, <1>3, <1>4, <1>5, <1>6, <1>8, <1>9, <1>10 DEF ApiNext

\* However imports and calls nest, fail and repeat, a module that is being
\* loaded is on the stack once, no module's code runs to its end twice, and the
\* outermost program gets its chunk and its locals back.
THEOREM ImportsRightHolds == ApiSpec => []ImportsRight
<1>1. ApiSpec => []ApiInv
  BY ApiInvInit, ApiInvNext, PTL DEF ApiSpec
<1> QED
  BY <1>1, ApiInvImplies, PTL

-----------------------------------------------------------------------------
(* The bytecode cache. *)

CacheEntry == [path : Nat, old : BOOLEAN]

BucketSet == 1..Buckets

\* The places of the entries of the chains c.
PlacesIn(c) == UNION {{b} \X DOMAIN c[b] : b \in BucketSet}

\* Every entry is in its bucket, and the only one of its script.
Bucketed(c) ==
    \A b \in BucketSet : \A i, j \in DOMAIN c[b] :
        /\ cache_hash_function(c[b][i].path) = b
        /\ c[b][i].path = c[b][j].path => i = j

\* The chains c hold n entries in all.
ChainsSound(c, n) ==
    /\ c \in [BucketSet -> Seq(CacheEntry)]
    /\ IsFiniteSet(PlacesIn(c)) /\ n = Cardinality(PlacesIn(c))
    /\ Bucketed(c)

\* Entries that are older than their script are of scripts in S.
OnlyOld(c, S) ==
    \A b \in BucketSet : \A i \in DOMAIN c[b] :
        c[b][i].old /\ c[b][i].path \in Names \ OtherNames => c[b][i].path \in S

\* The bucket h is the script's own.
Home(p, h) == h = cache_hash_function(p)

\* The script has an entry in the chain of bucket h.
Listed(c, h, p) == \E i \in DOMAIN c[h] : c[h][i].path = p

LEMMA BucketOf == \A p \in Nat : cache_hash_function(p) \in BucketSet
  BY CacheAssumption DEF cache_hash_function, BucketSet

LEMMA NoChains ==
    /\ ChainsSound([b \in 1..Buckets |-> <<>>], 0)
    /\ \A S : OnlyOld([b \in 1..Buckets |-> <<>>], S)
<1> DEFINE c == [b \in BucketSet |-> <<>>]
<1>1. \A b \in BucketSet : c[b] = <<>> /\ DOMAIN c[b] = {}
  OBVIOUS
<1>2. c \in [BucketSet -> Seq(CacheEntry)]
  OBVIOUS
<1>3. PlacesIn(c) = {}
  BY <1>1 DEF PlacesIn
<1>4. IsFiniteSet(PlacesIn(c)) /\ Cardinality(PlacesIn(c)) = 0
  BY <1>3, FS_EmptySet
<1>5. Bucketed(c) /\ \A S : OnlyOld(c, S)
  BY <1>1 DEF Bucketed, OnlyOld
<1> QED
  BY <1>2, <1>4, <1>5 DEF ChainsSound, BucketSet

\* Chains with the same paths in the same places.
LEMMA SamePlaces ==
    ASSUME NEW c, NEW d, NEW n, ChainsSound(c, n),
           d \in [BucketSet -> Seq(CacheEntry)],
           \A b \in BucketSet : DOMAIN d[b] = DOMAIN c[b] /\ \A i \in DOMAIN c[b] : d[b][i].path = c[b][i].path
    PROVE  ChainsSound(d, n)
<1>1. PlacesIn(d) = PlacesIn(c)
  BY DEF PlacesIn
<1>2. Bucketed(d)
  BY DEF Bucketed, ChainsSound
<1> QED
  BY <1>1, <1>2 DEF ChainsSound

\* Entries are marked in place.
LEMMA MarkedChain ==
    ASSUME NEW s \in Seq(CacheEntry), NEW t \in [DOMAIN s -> CacheEntry]
    PROVE  t \in Seq(CacheEntry) /\ DOMAIN t = DOMAIN s
<1>1. DOMAIN s = 1..Len(s) /\ Len(s) \in Nat
  OBVIOUS
<1> QED
  BY <1>1

\* One place more in the chain of bucket h.
LEMMA PlaceAdded ==
    ASSUME NEW c, NEW d, NEW h \in BucketSet, NEW k, k \notin DOMAIN c[h], DOMAIN d[h] = DOMAIN c[h] \cup {k},
           \A b \in BucketSet : b # h => d[b] = c[b]
    PROVE  PlacesIn(d) = PlacesIn(c) \cup {<<h, k>>} /\ <<h, k>> \notin PlacesIn(c)
  BY DEF PlacesIn

NewEntry(p) == [path |-> p, old |-> FALSE]

\* The sequence s with e before it.
Prepended(e, s) == <<e>> \o s

\* The chains c with the chain of bucket h replaced.
Replaced(c, h, s) == [c EXCEPT ![h] = s]

LEMMA ReplacedIs ==
    ASSUME NEW c \in [BucketSet -> Seq(CacheEntry)], NEW h \in BucketSet, NEW s \in Seq(CacheEntry)
    PROVE  /\ Replaced(c, h, s) \in [BucketSet -> Seq(CacheEntry)] /\ Replaced(c, h, s)[h] = s
           /\ \A b \in BucketSet : b # h => Replaced(c, h, s)[b] = c[b]
  BY DEF Replaced

\* A new entry goes to the head of its chain.
LEMMA EntryAdded ==
    ASSUME NEW c, NEW n, ChainsSound(c, n), NEW p \in Nat, NEW h, Home(p, h), ~Listed(c, h, p),
           NEW d, d = Replaced(c, h, Prepended(NewEntry(p), c[h]))
    PROVE  /\ ChainsSound(d, n + 1)
           /\ \A S : OnlyOld(c, S) => OnlyOld(d, S)
<1>0. PICK e : e = NewEntry(p)
  OBVIOUS
<1>1. /\ c \in [BucketSet -> Seq(CacheEntry)] /\ h \in BucketSet
      /\ e \in CacheEntry /\ e.path = p /\ e.old = FALSE
  BY <1>0, BucketOf DEF ChainsSound, Home, NewEntry, CacheEntry
<1>2. PICK s \in Seq(CacheEntry) : s = c[h]
  BY <1>1
<1>3. PICK t : t = <<e>> \o s
  OBVIOUS
<1>4. /\ <<e>> \in Seq(CacheEntry) /\ Len(<<e>>) = 1 /\ <<e>>[1] = e
  BY <1>1
<1>5. /\ t \in Seq(CacheEntry) /\ Len(t) = 1 + Len(s)
      /\ \A i \in 1..1 + Len(s) : t[i] = IF i <= 1 THEN <<e>>[i] ELSE s[i - 1]
  BY <1>3, <1>4, ConcatProperties
<1>6. /\ d \in [BucketSet -> Seq(CacheEntry)] /\ d[h] = t
      /\ \A b \in BucketSet : b # h => d[b] = c[b]
  <2>1. d = Replaced(c, h, t)
    BY <1>0, <1>2, <1>3 DEF Prepended
  <2> QED
    BY <1>1, <1>5, <2>1, ReplacedIs
<1>7. /\ Len(s) \in Nat /\ DOMAIN s = 1..Len(s) /\ DOMAIN t = 1..Len(s) + 1
      /\ t[1] = e /\ \A i \in 1..Len(s) : t[i + 1] = s[i]
      /\ \A i \in DOMAIN t : i = 1 \/ (i - 1 \in DOMAIN s /\ t[i] = s[i - 1])
  <2>1. Len(s) \in Nat /\ DOMAIN s = 1..Len(s) /\ DOMAIN t = 1..Len(t)
    BY <1>5
  <2>2. DOMAIN t = 1..Len(s) + 1
    BY <1>5, <2>1
  <2>3. t[1] = e
    <3>1. 1 \in 1..1 + Len(s) /\ 1 <= 1
      BY <2>1
    <3>2. t[1] = <<e>>[1]
      BY <1>5, <3>1
    <3> QED
      BY <1>4, <3>2
  <2>4. \A i \in 1..Len(s) : i + 1 \in 1..1 + Len(s) /\ ~(i + 1 <= 1) /\ (i + 1) - 1 = i
    BY <2>1
  <2>5. \A i \in 1..Len(s) : t[i + 1] = s[i]
    BY <1>5, <2>4
  <2>6. \A i \in 1..Len(s) + 1 : i = 1 \/ (i - 1 \in 1..Len(s) /\ ~(i <= 1) /\ i \in 1..1 + Len(s))
    BY <2>1
  <2>7. \A i \in DOMAIN t : i = 1 \/ (i - 1 \in DOMAIN s /\ t[i] = s[i - 1])
    BY <1>5, <2>1, <2>2, <2>6
  <2> QED
    BY <2>1, <2>2, <2>3, <2>5, <2>7
<1>8. Bucketed(d)
  <2>1. ASSUME NEW b \in BucketSet, NEW i \in DOMAIN d[b], NEW j \in DOMAIN d[b]
        PROVE  /\ cache_hash_function(d[b][i].path) = b
               /\ d[b][i].path = d[b][j].path => i = j
    <3>1. CASE b # h
      BY <1>6, <2>1, <3>1 DEF ChainsSound, Bucketed
    <3>2. CASE b = h
      <4>1. \A k, l \in DOMAIN s : /\ cache_hash_function(s[k].path) = h /\ s[k].path # p
                                   /\ s[k].path = s[l].path => k = l
        BY <1>1, <1>2 DEF ChainsSound, Bucketed, Listed
      <4>2. i \in DOMAIN t /\ j \in DOMAIN t /\ d[b] = t
        BY <1>6, <2>1, <3>2
      <4>3. cache_hash_function(t[i].path) = h
        BY <1>1, <1>7, <4>1, <4>2 DEF Home
      <4>4. t[i].path = t[j].path => i = j
        <5>1. CASE i = 1 \/ j = 1
          BY <1>1, <1>7, <4>1, <4>2, <5>1
        <5>2. CASE i # 1 /\ j # 1
          <6>1. t[i] = s[i - 1] /\ t[j] = s[j - 1] /\ i - 1 \in DOMAIN s /\ j - 1 \in DOMAIN s
            BY <1>7, <4>2, <5>2
          <6>2. t[i].path = t[j].path => i - 1 = j - 1
            BY <4>1, <6>1
          <6> QED
            BY <1>7, <4>2, <6>2
        <5> QED
          BY <5>1, <5>2
      <4> QED
        BY <3>2, <4>2, <4>3, <4>4
    <3> QED
      BY <3>1, <3>2
  <2> QED
    BY <2>1 DEF Bucketed
<1>9. PlacesIn(d) = PlacesIn(c) \cup {<<h, Len(s) + 1>>} /\ <<h, Len(s) + 1>> \notin PlacesIn(c)
  <2>1. DOMAIN t = DOMAIN s \cup {Len(s) + 1} /\ Len(s) + 1 \notin DOMAIN s
    BY <1>7
  <2>2. DOMAIN d[h] = DOMAIN c[h] \cup {Len(s) + 1} /\ Len(s) + 1 \notin DOMAIN c[h]
    BY <1>2, <1>6, <2>1
  <2> QED
    <3>1. PICK k : k = Len(s) + 1
      OBVIOUS
    <3>2. DOMAIN d[h] = DOMAIN c[h] \cup {k} /\ k \notin DOMAIN c[h]
      BY <2>2, <3>1
    <3>3. h \in BucketSet /\ \A b \in BucketSet : b # h => d[b] = c[b]
      BY <1>1, <1>6
    <3>4. PlacesIn(d) = PlacesIn(c) \cup {<<h, k>>} /\ <<h, k>> \notin PlacesIn(c)
      BY <3>2, <3>3, PlaceAdded, SMTT(20)
    <3> QED
      BY <3>1, <3>4
<1>10. IsFiniteSet(PlacesIn(d)) /\ Cardinality(PlacesIn(d)) = n + 1
  <2>1. IsFiniteSet(PlacesIn(c)) /\ n = Cardinality(PlacesIn(c))
    BY DEF ChainsSound
  <2>2. PICK x : x = <<h, Len(s) + 1>>
    OBVIOUS
  <2>3. /\ IsFiniteSet(PlacesIn(c) \cup {x})
        /\ x \notin PlacesIn(c) => Cardinality(PlacesIn(c) \cup {x}) = Cardinality(PlacesIn(c)) + 1
    BY <2>1, FS_AddElement
  <2> QED
    BY <1>9, <2>1, <2>2, <2>3
<1>11. ASSUME NEW S, OnlyOld(c, S) PROVE OnlyOld(d, S)
  <2>1. ASSUME NEW b \in BucketSet, NEW i \in DOMAIN d[b],
               d[b][i].old, d[b][i].path \in Names \ OtherNames
        PROVE  d[b][i].path \in S
    <3>1. CASE b # h
      BY <1>6, <1>11, <2>1, <3>1 DEF OnlyOld
    <3>2. CASE b = h
      <4>1. i \in DOMAIN t /\ d[b][i] = t[i] /\ i # 1
        BY <1>1, <1>6, <1>7, <2>1, <3>2
      <4>2. i - 1 \in DOMAIN c[h] /\ d[b][i] = c[h][i - 1]
        BY <1>2, <1>7, <4>1
      <4> QED
        BY <1>1, <1>11, <2>1, <4>2 DEF OnlyOld
    <3> QED
      BY <3>1, <3>2
  <2> QED
    BY <2>1 DEF OnlyOld
<1> QED
  BY <1>6, <1>8, <1>10, <1>11 DEF ChainsSound

\* The entry of a chain with this path is taken out, the later ones move up.
LEMMA ChainUnlinked ==
    ASSUME NEW s \in Seq(CacheEntry), NEW p, NEW k \in 1..Len(s), s[k].path = p,
           \A i \in 1..Len(s) : s[i].path = p => i = k,
           NEW t, t = Unlinked(s, p)
    PROVE  /\ t \in Seq(CacheEntry) /\ Len(t) = Len(s) - 1
           /\ \A i \in 1..Len(s) - 1 : t[i] = s[IF i < k THEN i ELSE i + 1]
<1>1. /\ Len(s) \in Nat /\ DOMAIN s = 1..Len(s) /\ k \in Int /\ k >= 1 /\ k <= Len(s)
      /\ \A i \in 1..Len(s) : s[i] \in CacheEntry
  OBVIOUS
<1>2. SelectInSeq(s, LAMBDA e : e.path = p) = k
  <2> DEFINE I == {i \in 1..Len(s) : s[i].path = p}
  <2>1. I = {k}
    OBVIOUS
  <2>2. SelectInSeq(s, LAMBDA e : e.path = p) = IF I # {} THEN Min(I) ELSE 0
    BY DEF SelectInSeq
  <2>3. Min({k}) = k
    BY <1>1 DEF Min
  <2> HIDE DEF I
  <2> QED
    BY <2>1, <2>2, <2>3
<1>3. t = SubSeq(s, 1, k - 1) \o SubSeq(s, k + 1, Len(s))
  BY <1>1, <1>2 DEF Unlinked, RemoveAt
<1>4. PICK a : a = SubSeq(s, 1, k - 1)
  OBVIOUS
<1>5. PICK z : z = SubSeq(s, k + 1, Len(s))
  OBVIOUS
<1>6. /\ a \in Seq(CacheEntry) /\ Len(a) = k - 1 /\ \A i \in 1..k - 1 : a[i] = s[i]
  <2>1. \A i \in 1..k - 1 : s[i] \in CacheEntry
    BY <1>1
  <2>2. /\ SubSeq(s, 1, k - 1) \in Seq(CacheEntry)
        /\ Len(SubSeq(s, 1, k - 1)) = IF 1 <= k - 1 THEN k - 1 - 1 + 1 ELSE 0
        /\ \A i \in 1..k - 1 - 1 + 1 : SubSeq(s, 1, k - 1)[i] = s[1 + i - 1]
    BY <1>1, <2>1, SubSeqProperties
  <2> QED
    BY <1>1, <1>4, <2>2
<1>7. /\ z \in Seq(CacheEntry) /\ Len(z) = Len(s) - k /\ \A i \in 1..Len(s) - k : z[i] = s[k + i]
  <2>1. \A i \in k + 1..Len(s) : s[i] \in CacheEntry
    BY <1>1
  <2>2. /\ SubSeq(s, k + 1, Len(s)) \in Seq(CacheEntry)
        /\ Len(SubSeq(s, k + 1, Len(s))) = IF k + 1 <= Len(s) THEN Len(s) - (k + 1) + 1 ELSE 0
        /\ \A i \in 1..Len(s) - (k + 1) + 1 : SubSeq(s, k + 1, Len(s))[i] = s[k + 1 + i - 1]
    BY <1>1, <2>1, SubSeqProperties
  <2> QED
    BY <1>1, <1>5, <2>2
<1>8. /\ t \in Seq(CacheEntry) /\ Len(t) = Len(a) + Len(z)
      /\ \A i \in 1..Len(a) + Len(z) : t[i] = IF i <= Len(a) THEN a[i] ELSE z[i - Len(a)]
  <2>1. a \in Seq(CacheEntry) /\ z \in Seq(CacheEntry)
    BY <1>6, <1>7
  <2>2. PICK u : u = a \o z
    OBVIOUS
  <2>3. /\ u \in Seq(CacheEntry) /\ Len(u) = Len(a) + Len(z)
        /\ \A i \in 1..Len(a) + Len(z) : u[i] = IF i <= Len(a) THEN a[i] ELSE z[i - Len(a)]
    BY <2>1, <2>2, ConcatProperties
  <2>4. t = u
    BY <1>3, <1>4, <1>5, <2>2
  <2> QED
    BY <2>3, <2>4
<1>9. ASSUME NEW i \in 1..Len(s) - 1 PROVE t[i] = s[IF i < k THEN i ELSE i + 1]
  <2>1. i \in 1..Len(a) + Len(z)
    BY <1>1, <1>6, <1>7
  <2>2. CASE i < k
    BY <1>1, <1>6, <1>8, <2>1, <2>2
  <2>3. CASE ~(i < k)
    <3>1. i - (k - 1) \in 1..Len(s) - k /\ k + (i - (k - 1)) = i + 1 /\ ~(i <= k - 1)
      BY <1>1, <2>3
    <3>2. t[i] = z[i - (k - 1)]
      BY <1>6, <1>8, <2>1, <3>1
    <3> QED
      BY <1>7, <2>3, <3>1, <3>2
  <2> QED
    BY <2>2, <2>3
<1> QED
  BY <1>1, <1>6, <1>7, <1>8, <1>9

\* invalidate_cache, whether the script is cached or not.
LEMMA EntryRemoved ==
    ASSUME NEW c, NEW n, ChainsSound(c, n), NEW p \in Nat, NEW h, Home(p, h),
           NEW d, d = Replaced(c, h, Unlinked(c[h], p))
    PROVE  /\ ChainsSound(d, IF Listed(c, h, p) THEN n - 1 ELSE n)
           /\ \A S : OnlyOld(c, S) => OnlyOld(d, S \ {p})
<1>1. /\ c \in [BucketSet -> Seq(CacheEntry)] /\ h \in BucketSet /\ Bucketed(c)
      /\ IsFiniteSet(PlacesIn(c)) /\ n = Cardinality(PlacesIn(c))
  BY BucketOf DEF ChainsSound, Home
<1>2. PICK s \in Seq(CacheEntry) : s = c[h]
  BY <1>1
<1>3. CASE ~Listed(c, h, p)
  <2>1. Unlinked(c[h], p) = c[h]
    BY <1>3 DEF Unlinked, Listed
  <2>2. d = c
    BY <1>1, <2>1 DEF Replaced
  <2>3. \A b \in BucketSet : \A i \in DOMAIN c[b] : c[b][i].path # p
    BY <1>1, <1>3 DEF Bucketed, Home, Listed
  <2> QED
    BY <1>3, <2>2, <2>3 DEF OnlyOld
<1>4. CASE Listed(c, h, p)
  <2>1. PICK k \in 1..Len(s) : s[k].path = p
    BY <1>2, <1>4 DEF Listed
  <2>2. \A i, j \in 1..Len(s) : /\ cache_hash_function(s[i].path) = h
                                /\ s[i].path = s[j].path => i = j
    BY <1>1, <1>2 DEF Bucketed
  <2>3. PICK t : t = Unlinked(s, p)
    OBVIOUS
  <2>4. /\ t \in Seq(CacheEntry) /\ Len(t) = Len(s) - 1
        /\ \A i \in 1..Len(s) - 1 : t[i] = s[IF i < k THEN i ELSE i + 1]
    <3>1. \A i \in 1..Len(s) : s[i].path = p => i = k
      BY <2>1, <2>2
    <3> QED
      BY <2>1, <2>3, <3>1, ChainUnlinked
  <2>5. /\ d \in [BucketSet -> Seq(CacheEntry)] /\ d[h] = t
        /\ \A b \in BucketSet : b # h => d[b] = c[b]
    <3>1. d = Replaced(c, h, t)
      BY <1>2, <2>3
    <3> QED
      <4>1. t \in Seq(CacheEntry)
        BY <2>4
      <4> QED
        BY <1>1, <3>1, <4>1, ReplacedIs
  <2>6. /\ Len(s) \in Nat /\ DOMAIN s = 1..Len(s) /\ DOMAIN t = 1..Len(s) - 1
    BY <2>4
  <2>7. ASSUME NEW i \in DOMAIN t
        PROVE  \E j \in DOMAIN s : /\ t[i] = s[j] /\ j # k
                                   /\ j = IF i < k THEN i ELSE i + 1
    <3>1. (IF i < k THEN i ELSE i + 1) \in DOMAIN s /\ (IF i < k THEN i ELSE i + 1) # k
      BY <2>6
    <3> QED
      BY <2>4, <2>6, <3>1
  <2>8. \A i \in DOMAIN t : cache_hash_function(t[i].path) = h /\ t[i].path # p
    BY <2>1, <2>2, <2>6, <2>7
  <2>9. \A i, j \in DOMAIN t : t[i].path = t[j].path => i = j
    <3>1. SUFFICES ASSUME NEW i \in DOMAIN t, NEW j \in DOMAIN t, t[i].path = t[j].path PROVE i = j
      OBVIOUS
    <3>2. PICK x \in DOMAIN s : t[i] = s[x] /\ x = IF i < k THEN i ELSE i + 1
      BY <2>7
    <3>3. PICK y \in DOMAIN s : t[j] = s[y] /\ y = IF j < k THEN j ELSE j + 1
      BY <2>7
    <3>4. x = y
      BY <2>2, <2>6, <3>1, <3>2, <3>3
    <3> QED
      BY <2>6, <3>2, <3>3, <3>4
  <2>10. Bucketed(d)
    <3>1. \A b \in BucketSet : b # h =>
              \A i, j \in DOMAIN d[b] : /\ cache_hash_function(d[b][i].path) = b
                                        /\ d[b][i].path = d[b][j].path => i = j
      BY <1>1, <2>5 DEF Bucketed
    <3> QED
      BY <2>5, <2>8, <2>9, <3>1 DEF Bucketed
  <2>11. PlacesIn(d) = PlacesIn(c) \ {<<h, Len(s)>>} /\ <<h, Len(s)>> \in PlacesIn(c)
    <3>1. DOMAIN t = DOMAIN s \ {Len(s)} /\ Len(s) \in DOMAIN s
      BY <2>1, <2>6
    <3>2. DOMAIN d[h] = DOMAIN c[h] \ {Len(s)} /\ Len(s) \in DOMAIN c[h]
      BY <1>2, <2>5, <3>1
    <3> QED
      <4>1. PICK m : m = Len(s)
        OBVIOUS
      <4>2. DOMAIN d[h] = DOMAIN c[h] \ {m} /\ m \in DOMAIN c[h]
        BY <3>2, <4>1
      <4>3. h \in BucketSet /\ \A b \in BucketSet : b # h => d[b] = c[b]
        BY <1>1, <2>5
      <4>4. PlacesIn(d) = PlacesIn(c) \ {<<h, m>>} /\ <<h, m>> \in PlacesIn(c)
        BY <4>2, <4>3 DEF PlacesIn
      <4> QED
        BY <4>1, <4>4
  <2>12. IsFiniteSet(PlacesIn(d)) /\ Cardinality(PlacesIn(d)) = n - 1
    <3>1. PICK x : x = <<h, Len(s)>>
      OBVIOUS
    <3>2. /\ IsFiniteSet(PlacesIn(c) \ {x})
          /\ x \in PlacesIn(c) => Cardinality(PlacesIn(c) \ {x}) = Cardinality(PlacesIn(c)) - 1
      BY <1>1, FS_RemoveElement
    <3> QED
      BY <1>1, <2>11, <3>1, <3>2
  <2>13. ASSUME NEW S, OnlyOld(c, S) PROVE OnlyOld(d, S \ {p})
    <3>1. ASSUME NEW b \in BucketSet, NEW i \in DOMAIN d[b],
                 d[b][i].old, d[b][i].path \in Names \ OtherNames
          PROVE  d[b][i].path \in S \ {p}
      <4>1. CASE b # h
        <5>1. d[b][i].path \in S
          BY <2>5, <2>13, <3>1, <4>1 DEF OnlyOld
        <5>2. cache_hash_function(d[b][i].path) = b
          BY <2>10, <3>1 DEF Bucketed
        <5> QED
          BY <4>1, <5>1, <5>2 DEF Home
      <4>2. CASE b = h
        <5>1. i \in DOMAIN t /\ d[b] = t
          BY <2>5, <3>1, <4>2
        <5>2. PICK j \in DOMAIN s : t[i] = s[j]
          BY <2>7, <5>1
        <5>3. s[j].old /\ s[j].path \in Names \ OtherNames
          BY <3>1, <5>1, <5>2
        <5>4. s[j].path \in S
          BY <1>1, <1>2, <2>13, <5>3 DEF OnlyOld
        <5> QED
          BY <2>8, <5>1, <5>2, <5>4
      <4> QED
        BY <4>1, <4>2
    <3> QED
      BY <3>1 DEF OnlyOld
  <2> QED
    BY <1>4, <2>5, <2>10, <2>12, <2>13 DEF ChainsSound
<1> QED
  BY <1>3, <1>4

LEMMA CountIsNatural == \A c, n : ChainsSound(c, n) => n \in Nat
  BY FS_CardinalityType DEF ChainsSound

\* The control of the hot reload: who is alive in which step of the host.
ReloadInv ==
    /\ hot \in BOOLEAN /\ watch = IF hot THEN "open" ELSE "closed"
    /\ pending \subseteq Names /\ batch \subseteq Names
    /\ monitor # "work" => batch = {}
    /\ hot => host = "idle"
    /\ host = "idle" /\ ~hot => monitor = "none"
    /\ host \in {"clear", "freed"} => monitor = "none"

\* What is old and watched is still to be handled.
StaleInv ==
    monitor \notin {"none", "gone"} /\ watch = "open" => OnlyOld(chains, pending \cup batch)

CacheInv ==
    /\ ChainsSound(chains, cached_scripts) /\ cached_scripts <= MaxCached
    /\ host = "freed" => cached_scripts = 0
    /\ ReloadInv /\ StaleInv

LEMMA CacheInvImplies == CacheInv => CacheSound
<1> SUFFICES ASSUME CacheInv PROVE CacheSound
  OBVIOUS
<1>1. cached_scripts = Cardinality(Cached)
  BY DEF CacheInv, ChainsSound, PlacesIn, Cached, BucketSet
<1>2. \A b \in 1..Buckets : \A i, j \in DOMAIN chains[b] :
         /\ cache_hash_function(chains[b][i].path) = b
         /\ chains[b][i].path = chains[b][j].path => i = j
  BY DEF CacheInv, ChainsSound, Bucketed, BucketSet
<1>3. host = "freed" => monitor = "none" /\ cached_scripts = 0
  BY DEF CacheInv, ReloadInv
<1>4. monitor \notin {"none", "gone"} /\ watch = "open" =>
         \A b \in 1..Buckets : \A i \in DOMAIN chains[b] :
             chains[b][i].old /\ chains[b][i].path \in Names \ OtherNames =>
                 chains[b][i].path \in pending \cup batch
  BY DEF CacheInv, StaleInv, OnlyOld, BucketSet
<1> QED
  BY <1>1, <1>2, <1>3, <1>4 DEF CacheInv, CacheSound

LEMMA CacheInvInit == BytecodeInit => CacheInv
<1> SUFFICES ASSUME BytecodeInit PROVE CacheInv
  OBVIOUS
<1>1. ChainsSound(chains, cached_scripts) /\ cached_scripts = 0 /\ StaleInv
  BY NoChains DEF BytecodeInit, StaleInv
<1>2. ReloadInv
  BY DEF BytecodeInit, ReloadInv
<1> QED
  BY <1>1, <1>2, CacheAssumption DEF CacheInv

\* Steps of the cache alone: the entries that are old stay the same or become fewer.
LEMMA CacheStep ==
    ASSUME CacheInv, UNCHANGED reloadVars,
           ChainsSound(chains', cached_scripts'), cached_scripts' <= MaxCached,
           host = "freed" => cached_scripts' = 0,
           \A S : OnlyOld(chains, S) => OnlyOld(chains', S)
    PROVE  CacheInv'
<1>1. ReloadInv'
  BY DEF CacheInv, ReloadInv, reloadVars
<1>2. StaleInv'
  BY DEF CacheInv, StaleInv, reloadVars
<1>3. host' = host
  BY DEF reloadVars
<1> QED
  BY <1>1, <1>2, <1>3 DEF CacheInv

\* Steps that leave the cache alone.
LEMMA ReloadStep ==
    ASSUME CacheInv, UNCHANGED cacheVars, ReloadInv', StaleInv',
           host' = "freed" => cached_scripts = 0
    PROVE  CacheInv'
  BY DEF CacheInv, cacheVars

LEMMA FewerOld ==
    ASSUME NEW c, NEW S, NEW T, OnlyOld(c, S), S \subseteq T
    PROVE  OnlyOld(c, T)
  BY DEF OnlyOld

LEMMA CacheBytecodeStep == ASSUME CacheInv, NEW p \in Nat, CacheBytecode(p) PROVE CacheInv'
<1>1. ChainsSound(chains, cached_scripts) /\ cached_scripts \in Nat /\ cached_scripts < MaxCached
  BY CountIsNatural DEF CacheInv, CacheBytecode
<1>2. PICK h \in BucketSet : Home(p, h)
  BY BucketOf DEF Home
<1>3. chains \in [BucketSet -> Seq(CacheEntry)]
  BY <1>1 DEF ChainsSound
<1>4. CASE lookup_bytecode(p)
  <2>1. chains' = Updated(p) /\ cached_scripts' = cached_scripts
    BY <1>4 DEF CacheBytecode
  <2>2. PICK s \in Seq(CacheEntry) : s = chains[h]
    BY <1>3
  <2>3. PICK t : t = [i \in DOMAIN s |-> IF s[i].path = p THEN [s[i] EXCEPT !.old = FALSE] ELSE s[i]]
    OBVIOUS
  <2>4. chains' = [chains EXCEPT ![h] = t]
    BY <1>2, <2>1, <2>2, <2>3 DEF Home, Updated
  <2>5. \A i \in DOMAIN s : s[i] \in CacheEntry
    OBVIOUS
  <2>6. /\ t \in [DOMAIN s -> CacheEntry]
        /\ \A i \in DOMAIN s : t[i].path = s[i].path /\ (t[i] = s[i] \/ t[i].old = FALSE)
    BY <2>3, <2>5 DEF CacheEntry
  <2>7. t \in Seq(CacheEntry) /\ DOMAIN t = DOMAIN s
    BY <2>6, MarkedChain
  <2>8. \A i \in DOMAIN s : t[i].path = s[i].path /\ (t[i] = s[i] \/ t[i].old = FALSE)
    BY <2>6
  <2>9. /\ chains' \in [BucketSet -> Seq(CacheEntry)] /\ chains'[h] = t
        /\ \A b \in BucketSet : b # h => chains'[b] = chains[b]
    BY <1>2, <1>3, <2>4, <2>7
  <2>10. ChainsSound(chains', cached_scripts)
    <3>1. \A b \in BucketSet : DOMAIN chains'[b] = DOMAIN chains[b]
                                /\ \A i \in DOMAIN chains[b] : chains'[b][i].path = chains[b][i].path
      BY <2>2, <2>7, <2>8, <2>9
    <3> QED
      BY <1>1, <2>9, <3>1, SamePlaces
  <2>11. \A S : OnlyOld(chains, S) => OnlyOld(chains', S)
    <3>1. \A b \in BucketSet : DOMAIN chains'[b] = DOMAIN chains[b]
              /\ \A i \in DOMAIN chains[b] : chains'[b][i] = chains[b][i] \/ chains'[b][i].old = FALSE
      BY <2>2, <2>7, <2>8, <2>9
    <3> QED
      BY <3>1 DEF OnlyOld
  <2>12. UNCHANGED reloadVars /\ host # "freed"
    BY DEF CacheBytecode
  <2>13. cached_scripts' <= MaxCached
    BY <2>1 DEF CacheInv
  <2> QED
    BY <2>1, <2>10, <2>11, <2>12, <2>13, CacheStep
<1>5. CASE ~lookup_bytecode(p)
  <2>1. chains' = WithEntry(p) /\ cached_scripts' = cached_scripts + 1
    BY <1>5 DEF CacheBytecode
  <2>2. PICK d : d = chains'
    OBVIOUS
  <2>3. d = Replaced(chains, h, Prepended(NewEntry(p), chains[h]))
    BY <1>2, <2>1, <2>2 DEF Home, WithEntry, Replaced, Prepended, NewEntry
  <2>4. ~Listed(chains, h, p)
    BY <1>2, <1>5 DEF Home, Listed, lookup_bytecode
  <2>5. ChainsSound(d, cached_scripts + 1) /\ \A S : OnlyOld(chains, S) => OnlyOld(d, S)
    BY <1>1, <1>2, <2>3, <2>4, EntryAdded
  <2>6. UNCHANGED reloadVars /\ host # "freed"
    BY DEF CacheBytecode
  <2>7. cached_scripts' <= MaxCached
    BY <1>1, <2>1, CacheAssumption
  <2> QED
    BY <2>1, <2>2, <2>5, <2>6, <2>7, CacheStep
<1> QED
  BY <1>4, <1>5

LEMMA InvalidateStep ==
    ASSUME CacheInv, NEW p \in Nat, invalidate_cache(p)
    PROVE  /\ ChainsSound(chains', cached_scripts') /\ cached_scripts' <= MaxCached
           /\ \A S : OnlyOld(chains, S) => OnlyOld(chains', S \ {p})
<1>1. ChainsSound(chains, cached_scripts) /\ cached_scripts \in Nat /\ cached_scripts <= MaxCached
  BY CountIsNatural DEF CacheInv
<1>2. PICK h \in BucketSet : Home(p, h)
  BY BucketOf DEF Home
<1>3. PICK d : d = Replaced(chains, h, Unlinked(chains[h], p))
  OBVIOUS
<1>4. chains' = d
  BY <1>2, <1>3 DEF Home, invalidate_cache, Replaced
<1>5. cached_scripts' = IF Listed(chains, h, p) THEN cached_scripts - 1 ELSE cached_scripts
  BY <1>2 DEF Home, Listed, invalidate_cache, lookup_bytecode
<1>6. /\ ChainsSound(d, IF Listed(chains, h, p) THEN cached_scripts - 1 ELSE cached_scripts)
      /\ \A S : OnlyOld(chains, S) => OnlyOld(d, S \ {p})
  BY <1>1, <1>2, <1>3, EntryRemoved
<1>7. cached_scripts' <= MaxCached
  BY <1>1, <1>5, CacheAssumption
<1> QED
  BY <1>4, <1>5, <1>6, <1>7

\* A file changes: its entry, if it has one, is old from now on, and its name is queued.
LEMMA FileChangesStep == ASSUME CacheInv, NEW n \in Names, FileChanges(n) PROVE CacheInv'
<1>1. /\ ChainsSound(chains, cached_scripts) /\ chains \in [BucketSet -> Seq(CacheEntry)]
      /\ cached_scripts' = cached_scripts
  BY DEF CacheInv, ChainsSound, FileChanges
<1>2. chains' = [b \in BucketSet |-> [i \in DOMAIN chains[b] |->
                    IF chains[b][i].path = n THEN [chains[b][i] EXCEPT !.old = TRUE] ELSE chains[b][i]]]
  BY DEF FileChanges, BucketSet
<1>3. ASSUME NEW b \in BucketSet
      PROVE  /\ chains'[b] \in Seq(CacheEntry) /\ DOMAIN chains'[b] = DOMAIN chains[b]
             /\ \A i \in DOMAIN chains[b] :
                  chains'[b][i].path = chains[b][i].path /\ (chains'[b][i] = chains[b][i] \/ chains[b][i].path = n)
  <2>1. PICK s \in Seq(CacheEntry) : s = chains[b]
    BY <1>1
  <2>2. PICK t : t = [i \in DOMAIN s |-> IF s[i].path = n THEN [s[i] EXCEPT !.old = TRUE] ELSE s[i]]
    OBVIOUS
  <2>3. chains'[b] = t
    BY <1>2, <2>1, <2>2
  <2>4. \A i \in DOMAIN s : s[i] \in CacheEntry
    OBVIOUS
  <2>5. /\ t \in [DOMAIN s -> CacheEntry]
        /\ \A i \in DOMAIN s : t[i].path = s[i].path /\ (t[i] = s[i] \/ s[i].path = n)
    BY <2>2, <2>4 DEF CacheEntry
  <2>6. t \in Seq(CacheEntry) /\ DOMAIN t = DOMAIN s
    BY <2>5, MarkedChain
  <2> QED
    BY <2>1, <2>3, <2>5, <2>6
<1>4. chains' \in [BucketSet -> Seq(CacheEntry)]
  BY <1>2, <1>3
<1>5. ChainsSound(chains', cached_scripts)
  BY <1>1, <1>3, <1>4, SamePlaces
<1>6. \A S : OnlyOld(chains, S) => OnlyOld(chains', S \cup {n})
  BY <1>3 DEF OnlyOld
<1>7. StaleInv'
  <2>1. SUFFICES ASSUME monitor' \notin {"none", "gone"}, watch' = "open"
                 PROVE  OnlyOld(chains', pending' \cup batch')
    BY DEF StaleInv
  <2>2. OnlyOld(chains, pending \cup batch)
    BY <2>1 DEF CacheInv, StaleInv, FileChanges
  <2>3. OnlyOld(chains', (pending \cup batch) \cup {n})
    BY <1>6, <2>2
  <2>4. (pending \cup batch) \cup {n} = pending' \cup batch'
    BY DEF FileChanges
  <2> QED
    BY <2>3, <2>4
<1>8. ReloadInv'
  BY DEF CacheInv, ReloadInv, FileChanges
<1>9. host' = host
  BY DEF FileChanges
<1> QED
  BY <1>1, <1>5, <1>7, <1>8, <1>9 DEF CacheInv

\* A new watch begins with bytecode that is taken to be current.
LEMMA EnableStep == ASSUME CacheInv, EnableHotReload PROVE CacheInv'
<1>1. /\ ChainsSound(chains, cached_scripts) /\ chains \in [BucketSet -> Seq(CacheEntry)]
      /\ cached_scripts' = cached_scripts
  BY DEF CacheInv, ChainsSound, EnableHotReload
<1>2. chains' = [b \in BucketSet |-> [i \in DOMAIN chains[b] |-> [chains[b][i] EXCEPT !.old = FALSE]]]
  BY DEF EnableHotReload, BucketSet
<1>3. ASSUME NEW b \in BucketSet
      PROVE  /\ chains'[b] \in Seq(CacheEntry) /\ DOMAIN chains'[b] = DOMAIN chains[b]
             /\ \A i \in DOMAIN chains[b] : chains'[b][i].path = chains[b][i].path /\ chains'[b][i].old = FALSE
  <2>1. PICK s \in Seq(CacheEntry) : s = chains[b]
    BY <1>1
  <2>2. PICK t : t = [i \in DOMAIN s |-> [s[i] EXCEPT !.old = FALSE]]
    OBVIOUS
  <2>3. chains'[b] = t
    BY <1>2, <2>1, <2>2
  <2>4. \A i \in DOMAIN s : s[i] \in CacheEntry
    OBVIOUS
  <2>5. /\ t \in [DOMAIN s -> CacheEntry]
        /\ \A i \in DOMAIN s : t[i].path = s[i].path /\ t[i].old = FALSE
    BY <2>2, <2>4 DEF CacheEntry
  <2>6. t \in Seq(CacheEntry) /\ DOMAIN t = DOMAIN s
    BY <2>5, MarkedChain
  <2> QED
    BY <2>1, <2>3, <2>5, <2>6
<1>4. chains' \in [BucketSet -> Seq(CacheEntry)]
  BY <1>2, <1>3
<1>5. ChainsSound(chains', cached_scripts)
  <2>1. \A b \in BucketSet : DOMAIN chains'[b] = DOMAIN chains[b]
                             /\ \A i \in DOMAIN chains[b] : chains'[b][i].path = chains[b][i].path
    BY <1>3
  <2> QED
    BY <1>1, <1>4, <2>1, SamePlaces
<1>6. \A S : OnlyOld(chains', S)
  BY <1>3 DEF OnlyOld
<1>7. StaleInv'
  BY <1>6 DEF StaleInv
<1>8. ReloadInv'
  BY DEF CacheInv, ReloadInv, EnableHotReload
<1>9. host' = host
  BY DEF EnableHotReload
<1> QED
  BY <1>1, <1>5, <1>7, <1>8, <1>9 DEF CacheInv

LEMMA CacheInvNext == CacheInv /\ [BytecodeNext]_bytecodeVars => CacheInv'
<1> SUFFICES ASSUME CacheInv, [BytecodeNext]_bytecodeVars PROVE CacheInv'
  OBVIOUS
<1>1. ASSUME NEW p \in Scripts, CacheBytecode(p) PROVE CacheInv'
  <2>1. p \in Nat
    BY CacheAssumption
  <2> QED
    BY <1>1, <2>1, CacheBytecodeStep
<1>2. ASSUME NEW p \in Scripts, InvalidateCache(p) PROVE CacheInv'
  <2>1. p \in Nat /\ invalidate_cache(p) /\ UNCHANGED reloadVars /\ host # "freed"
    BY <1>2, CacheAssumption DEF InvalidateCache
  <2>2. /\ ChainsSound(chains', cached_scripts') /\ cached_scripts' <= MaxCached
        /\ \A S : OnlyOld(chains, S) => OnlyOld(chains', S \ {p})
    BY <2>1, InvalidateStep
  <2>3. \A S : OnlyOld(chains, S) => OnlyOld(chains', S)
    BY <2>2, FewerOld
  <2> QED
    BY <2>1, <2>2, <2>3, CacheStep
<1>3. CASE ClearCache
  <2>1. UNCHANGED reloadVars /\ host = "idle" /\ cached_scripts' = 0
    BY <1>3 DEF ClearCache, clear_cache
  <2>2. ChainsSound(chains', 0) /\ \A S : OnlyOld(chains', S)
    BY <1>3, NoChains DEF ClearCache, clear_cache
  <2> QED
    BY <2>1, <2>2, CacheStep, CacheAssumption
<1>4. ASSUME NEW n \in Names, FileChanges(n) PROVE CacheInv'
  BY <1>4, FileChangesStep
<1>5. CASE EnableHotReload
  BY <1>5, EnableStep
<1>6. CASE DisableHotReload
  <2>1. ReloadInv' /\ StaleInv' /\ UNCHANGED cacheVars /\ host' # "freed"
    BY <1>6 DEF DisableHotReload, Disabled, CacheInv, ReloadInv, StaleInv
  <2> QED
    BY <2>1, ReloadStep
<1>7. CASE Join
  <2>1. ReloadInv' /\ StaleInv' /\ UNCHANGED cacheVars /\ host' # "freed"
    BY <1>7 DEF Join, CacheInv, ReloadInv, StaleInv
  <2> QED
    BY <2>1, ReloadStep
<1>8. CASE Shutdown
  <2>1. ReloadInv' /\ StaleInv' /\ UNCHANGED cacheVars /\ host' # "freed"
    BY <1>8 DEF Shutdown, CacheInv, ReloadInv, StaleInv, cacheVars
  <2> QED
    BY <2>1, ReloadStep
<1>9. CASE Destroy
  <2>1. ReloadInv' /\ StaleInv' /\ UNCHANGED cacheVars /\ host' # "freed"
    BY <1>9 DEF Destroy, Disabled, CacheInv, ReloadInv, StaleInv, cacheVars
  <2> QED
    BY <2>1, ReloadStep
<1>10. CASE FreeCache
  <2>1. ChainsSound(chains', 0) /\ cached_scripts' = 0
    BY <1>10, NoChains DEF FreeCache, clear_cache
  <2>2. ReloadInv' /\ StaleInv'
    BY <1>10 DEF FreeCache, CacheInv, ReloadInv, StaleInv
  <2> QED
    BY <2>1, <2>2, CacheAssumption DEF CacheInv
<1>11. CASE MonitorTest
  <2>1. ReloadInv' /\ StaleInv' /\ UNCHANGED cacheVars /\ host' = host
    BY <1>11 DEF MonitorTest, MonitorVars, CacheInv, ReloadInv, StaleInv, cacheVars
  <2> QED
    BY <2>1, ReloadStep DEF CacheInv
<1>12. CASE MonitorRead
  <2>1. ReloadInv'
    BY <1>12 DEF MonitorRead, ReadFailed, CacheInv, ReloadInv
  <2>2. pending' \cup batch' = pending \cup batch
    BY <1>12 DEF MonitorRead, CacheInv, ReloadInv
  <2>3. StaleInv'
    BY <1>12, <2>2 DEF MonitorRead, CacheInv, StaleInv, cacheVars
  <2>4. UNCHANGED cacheVars /\ host' = host
    BY <1>12 DEF MonitorRead
  <2> QED
    BY <2>1, <2>3, <2>4, ReloadStep DEF CacheInv
<1>13. CASE MonitorEvent
  <2>1. PICK n \in batch : /\ batch' = batch \ {n} /\ monitor = "work" /\ monitor' = "work"
                           /\ IF n \in OtherNames THEN UNCHANGED cacheVars ELSE invalidate_cache(n)
                           /\ UNCHANGED <<pending, hot, watch, host, shutting, changes>>
    BY <1>13 DEF MonitorEvent, MonitorVars
  <2>2. n \in Names /\ n \in Nat /\ host # "freed"
    BY <2>1, CacheAssumption DEF CacheInv, ReloadInv
  <2>3. ReloadInv'
    BY <2>1 DEF CacheInv, ReloadInv
  <2>4. CASE n \in OtherNames
    <3>1. UNCHANGED cacheVars
      BY <2>1, <2>4
    <3>2. \A S : OnlyOld(chains, S) => OnlyOld(chains, S \ {n})
      BY <2>4 DEF OnlyOld
    <3>3. StaleInv'
      <4>1. SUFFICES ASSUME watch = "open" PROVE OnlyOld(chains, pending \cup (batch \ {n}))
        BY <2>1, <3>1 DEF StaleInv, cacheVars
      <4>2. OnlyOld(chains, (pending \cup batch) \ {n})
        BY <2>1, <3>2, <4>1 DEF CacheInv, StaleInv
      <4> QED
        BY <4>2, FewerOld
    <3> QED
      BY <2>1, <2>2, <2>3, <3>1, <3>3, ReloadStep
  <2>5. CASE n \notin OtherNames
    <3>1. /\ ChainsSound(chains', cached_scripts') /\ cached_scripts' <= MaxCached
          /\ \A S : OnlyOld(chains, S) => OnlyOld(chains', S \ {n})
      BY <2>1, <2>2, <2>5, InvalidateStep
    <3>2. StaleInv'
      <4>1. SUFFICES ASSUME watch = "open" PROVE OnlyOld(chains', pending \cup (batch \ {n}))
        BY <2>1 DEF StaleInv
      <4>2. OnlyOld(chains', (pending \cup batch) \ {n})
        BY <2>1, <3>1, <4>1 DEF CacheInv, StaleInv
      <4> QED
        BY <4>2, FewerOld
    <3> QED
      BY <2>1, <2>2, <2>3, <3>1, <3>2 DEF CacheInv
  <2> QED
    BY <2>4, <2>5
<1>14. CASE MonitorNext
  <2>1. ReloadInv' /\ StaleInv' /\ UNCHANGED cacheVars /\ host' = host
    BY <1>14 DEF MonitorNext, MonitorVars, CacheInv, ReloadInv, StaleInv, cacheVars
  <2> QED
    BY <2>1, ReloadStep DEF CacheInv
<1>15. CASE MonitorInterrupted
  <2>1. ReloadInv' /\ StaleInv' /\ UNCHANGED cacheVars /\ host' = host
    BY <1>15 DEF MonitorInterrupted, MonitorVars, CacheInv, ReloadInv, StaleInv, cacheVars
  <2> QED
    BY <2>1, ReloadStep DEF CacheInv
<1>16. CASE UNCHANGED bytecodeVars
  BY <1>16 DEF bytecodeVars, cacheVars, reloadVars, CacheInv, ReloadInv, StaleInv
<1> QED
  BY <1>1, <1>2, <1>3, <1>4, <1>5, <1>6, <1>7, <1>8, <1>9, <1>10, <1>11, <1>12, <1>13, <1>14, <1>15, <1>16
     DEF BytecodeNext, Monitor

\* However callers, the host and the monitor interleave, the count agrees with
\* the chains, no script is cached twice, the monitor is gone before the cache
\* is freed, and no invalidation inotify has queued is lost.
THEOREM CacheSoundHolds == BytecodeSpec => []CacheSound
<1>1. BytecodeSpec => []CacheInv
  BY CacheInvInit, CacheInvNext, PTL DEF BytecodeSpec
<1> QED
  BY <1>1, CacheInvImplies, PTL
=============================================================================
