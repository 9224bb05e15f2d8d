----------------------- MODULE WorkStealingPoolProofs -----------------------
(***************************************************************************)
(* Proofs about WorkStealingPool, for every number of workers and tasks,   *)
(* every size of the queues and every setting of the configuration.        *)
(***************************************************************************)
EXTENDS WorkStealingPool, SequenceTheorems, FiniteSetTheorems, TLAPS

\* The places of a submission while it has global_mutex.
Holding == {"choose", "push", "fallback"}

Jobs == {w \in Workers : job[w] # NoTask}
Accepted == {k \in Tasks : spc[k] = "accepted"}
Refused == {k \in Tasks : spc[k] = "rejected"}
Examined == {k \in Tasks : spc[k] \notin {"new", "lock"}}

\* The types, but for the bounds of the counters, which follow from CountInv.
Types ==
    /\ phase \in {"created", "started", "shutdown", "joined", "destroyed"}
    /\ mutex \in {FREE, BALANCER} \cup Tasks
    /\ count \in 0..InitThreads
    /\ deque \in [Workers -> Seq(Tasks)] /\ global \in Seq(Tasks)
    /\ wpc \in [Workers -> {"absent", "loop", "steal", "idle", "execute", "exited"}]
    /\ job \in [Workers -> Tasks \cup {NoTask}]
    /\ spc \in [Tasks -> {"new", "lock", "choose", "push", "fallback", "accepted", "rejected"}]
    /\ best \in [Tasks -> Workers]
    /\ submitted \in Nat /\ rejected \in Nat /\ completed \in Nat

\* global_mutex belongs to the submission that is between its test and its push.
LockInv ==
    /\ \A k \in Tasks : spc[k] \in Holding <=> mutex = k
    /\ \A k \in Tasks : spc[k] = "push" => best[k] < count
    /\ phase = "destroyed" => mutex = FREE /\ \A k \in Tasks : spc[k] # "lock"
    /\ phase = "created" => count = 0 /\ \A k \in Tasks : spc[k] = "new"

\* A worker has a task while it executes one; only workers that were started run, and
\* none does after the joins.
WorkerInv ==
    /\ \A w \in Workers : /\ wpc[w] = "execute" <=> job[w] # NoTask
                          /\ w >= count => wpc[w] = "absent"
    /\ WaitOnShutdown /\ phase \in {"joined", "destroyed"}
          => \A w \in Workers : wpc[w] \in {"absent", "exited"}

\* There is room for the task of the submission that has the lock.
PendingInv ==
    /\ IsFiniteSet(Waiting)
    /\ Pending <= MaxPending /\ (mutex \in Tasks => Pending < MaxPending)
    /\ \A w \in Workers : w >= count => deque[w] = <<>>

\* Every accepted task is counted in one place; destruction loses those that wait.
CountInv ==
    /\ completed + Pending + Cardinality(Jobs) <= Cardinality(Accepted)
    /\ phase # "destroyed" => completed + Pending + Cardinality(Jobs) = Cardinality(Accepted)
    /\ submitted <= Cardinality(Examined) /\ rejected <= Cardinality(Refused)

\* What is in a queue or is executed was accepted.
QueueInv == \A k \in Tasks : Queued(k) \/ Taken(k) => spc[k] = "accepted"

IndInv == Types /\ LockInv /\ WorkerInv /\ PendingInv /\ CountInv /\ QueueInv

USE PoolAssumption DEF Tasks, Workers, NoTask, FREE, BALANCER, GLOBAL

-----------------------------------------------------------------------------
(* Sequences.                                                              *)

\* What the push, the pop and the steal of a deque make of it.
LEMMA AppendFacts ==
    ASSUME NEW s \in Seq(Tasks), NEW k \in Tasks
    PROVE  /\ Append(s, k) \in Seq(Tasks) /\ DOMAIN Append(s, k) = 1..(Len(s) + 1)
           /\ ToSet(Append(s, k)) = ToSet(s) \cup {k}
  <1>1. /\ Append(s, k) \in Seq(Tasks) /\ Len(Append(s, k)) = Len(s) + 1 /\ Len(s) \in Nat
        /\ \A i \in 1..Len(s) : Append(s, k)[i] = s[i]
        /\ Append(s, k)[Len(s) + 1] = k
    BY AppendProperties, LenProperties
  <1>2. DOMAIN Append(s, k) = 1..(Len(s) + 1) /\ DOMAIN s = 1..Len(s)
    BY <1>1, LenProperties
  <1>3. \A i \in 1..(Len(s) + 1) : i \in 1..Len(s) \/ i = Len(s) + 1
    BY <1>1
  <1>4. \A i \in 1..Len(s) : i \in 1..(Len(s) + 1)
    BY <1>1
  <1>5. Len(s) + 1 \in 1..(Len(s) + 1)
    BY <1>1
  <1> QED
    BY <1>1, <1>2, <1>3, <1>4, <1>5 DEF ToSet

LEMMA LastFacts ==
    ASSUME NEW s \in Seq(Tasks), s # <<>>
    PROVE  /\ Len(s) \in Nat \ {0}
           /\ Front(s) \in Seq(Tasks) /\ DOMAIN Front(s) = 1..(Len(s) - 1)
           /\ ToSet(Front(s)) \subseteq ToSet(s) /\ Last(s) \in ToSet(s) /\ Last(s) \in Tasks
  <1>1. Len(s) \in Nat \ {0} /\ DOMAIN s = 1..Len(s) /\ s \in [1..Len(s) -> Tasks]
    BY EmptySeq, LenProperties
  <1>2. \A i \in 1..(Len(s) - 1) : s[i] \in Tasks /\ i \in 1..Len(s)
    BY <1>1
  <1>3. Len(s) - 1 \in Int /\ 1 \in Int
    BY <1>1
  <1>4. /\ Front(s) \in Seq(Tasks)
        /\ Len(Front(s)) = IF 1 <= Len(s) - 1 THEN (Len(s) - 1) - 1 + 1 ELSE 0
        /\ \A i \in 1..((Len(s) - 1) - 1 + 1) : Front(s)[i] = s[1 + i - 1]
    BY <1>2, <1>3, SubSeqProperties DEF Front
  <1>5. Len(Front(s)) = Len(s) - 1 /\ \A i \in 1..(Len(s) - 1) : Front(s)[i] = s[i]
    <2>1. \A n \in Nat \ {0} : /\ (IF 1 <= n - 1 THEN (n - 1) - 1 + 1 ELSE 0) = n - 1
                              /\ (n - 1) - 1 + 1 = n - 1
      OBVIOUS
    <2>2. \A n \in Nat : \A i \in 1..n : 1 + i - 1 = i
      OBVIOUS
    <2>3. Len(s) - 1 \in Nat
      BY <1>1
    <2> QED
      BY ONLY <1>1, <1>4, <2>1, <2>2, <2>3
  <1>6. DOMAIN Front(s) = 1..(Len(s) - 1)
    BY <1>4, <1>5, LenProperties
  <1>7. Len(s) \in 1..Len(s) /\ s[Len(s)] \in Tasks
    BY <1>1
  <1> QED
    BY <1>1, <1>2, <1>4, <1>5, <1>6, <1>7 DEF ToSet, Last

LEMMA HeadFacts ==
    ASSUME NEW s \in Seq(Tasks), s # <<>>
    PROVE  /\ Len(s) \in Nat \ {0}
           /\ Tail(s) \in Seq(Tasks) /\ DOMAIN Tail(s) = 1..(Len(s) - 1)
           /\ ToSet(Tail(s)) \subseteq ToSet(s) /\ Head(s) \in ToSet(s) /\ Head(s) \in Tasks
  <1>1. Len(s) \in Nat \ {0} /\ DOMAIN s = 1..Len(s)
    BY EmptySeq, LenProperties
  <1>2. /\ Head(s) \in Tasks /\ Tail(s) \in Seq(Tasks) /\ Len(Tail(s)) = Len(s) - 1
        /\ \A i \in 1..Len(Tail(s)) : Tail(s)[i] = s[i + 1]
    BY HeadTailProperties
  <1>3. DOMAIN Tail(s) = 1..(Len(s) - 1)
    BY <1>2, LenProperties
  <1>4. \A i \in 1..(Len(s) - 1) : i + 1 \in 1..Len(s)
    BY <1>1
  <1>5. Head(s) = s[1] /\ 1 \in 1..Len(s)
    BY <1>1
  <1> QED
    BY <1>1, <1>2, <1>3, <1>4, <1>5 DEF ToSet

-----------------------------------------------------------------------------
(* The tasks that wait.                                                    *)

LEMMA IntervalFacts ==
    ASSUME NEW n \in Nat
    PROVE  /\ \A i : i \in 1..(n + 1) <=> i \in 1..n \/ i = n + 1
           /\ n + 1 \notin 1..n
           /\ n # 0 => n \in 1..n /\ \A i : i \in 1..(n - 1) <=> i \in 1..n /\ i # n
  OBVIOUS

LEMMA PairIn == ASSUME NEW p, NEW D, NEW x PROVE x \in {p} \X D <=> \E i \in D : x = <<p, i>>
  OBVIOUS

\* A place is a queue and an index in it.
LEMMA WaitingMember ==
    \A x : x \in Waiting <=>
        \E p \in {GLOBAL} \cup Started : \E i \in DOMAIN Queue(p) : x = <<p, i>>
  <1>1. \A x : x \in Waiting <=> \E p \in {GLOBAL} \cup Started : x \in {p} \X DOMAIN Queue(p)
    BY Zenon DEF Waiting
  <1> QED
    BY <1>1, PairIn

LEMMA WaitingMemberNext ==
    \A x : x \in Waiting' <=>
        \E p \in {GLOBAL} \cup Started' : \E i \in DOMAIN (Queue(p)') : x = <<p, i>>
  <1>1. \A x : x \in Waiting' <=>
            \E p \in {GLOBAL} \cup Started' : x \in {p} \X DOMAIN (Queue(p)')
    BY Zenon DEF Waiting
  <1> QED
    BY <1>1, PairIn

\* A queue that grows by one task adds one to those that wait.
LEMMA PendingGrows ==
    ASSUME NEW q \in {GLOBAL} \cup Started, NEW n \in Nat, UNCHANGED count,
           DOMAIN Queue(q) = 1..n, DOMAIN (Queue(q)') = 1..(n + 1),
           \A p \in {GLOBAL} \cup Started : p # q => DOMAIN (Queue(p)') = DOMAIN Queue(p),
           IsFiniteSet(Waiting)
    PROVE  IsFiniteSet(Waiting)' /\ Pending' = Pending + 1
  <1>1. Started' = Started
    BY DEF Started
  <1>2. \A i : i \in 1..(n + 1) <=> i \in 1..n \/ i = n + 1
    OBVIOUS
  <1>3. n + 1 \notin 1..n
    OBVIOUS
  <1>4. Waiting' = Waiting \cup {<<q, n + 1>>} /\ <<q, n + 1>> \notin Waiting
    BY <1>1, <1>2, <1>3, WaitingMember, WaitingMemberNext
  <1> QED
    BY <1>4, FS_AddElement DEF Pending

\* A queue that shrinks by one task takes one from those that wait.
LEMMA PendingShrinks ==
    ASSUME NEW q \in {GLOBAL} \cup Started, NEW n \in Nat \ {0}, UNCHANGED count,
           DOMAIN Queue(q) = 1..n, DOMAIN (Queue(q)') = 1..(n - 1),
           \A p \in {GLOBAL} \cup Started : p # q => DOMAIN (Queue(p)') = DOMAIN Queue(p),
           IsFiniteSet(Waiting)
    PROVE  IsFiniteSet(Waiting)' /\ Pending' = Pending - 1
  <1>1. Started' = Started
    BY DEF Started
  <1>2. \A i : i \in 1..(n - 1) <=> i \in 1..n /\ i # n
    OBVIOUS
  <1>3. n \in 1..n
    OBVIOUS
  <1>4. Waiting' = Waiting \ {<<q, n>>} /\ <<q, n>> \in Waiting
    BY <1>1, <1>2, <1>3, WaitingMember, WaitingMemberNext
  <1> QED
    BY <1>4, FS_RemoveElement DEF Pending

\* The queues of workers that were not started count for nothing.
LEMMA PendingSame ==
    ASSUME UNCHANGED <<count, deque, global>> PROVE Waiting' = Waiting /\ Pending' = Pending
  BY DEF Waiting, Pending, Started, Queue

LEMMA PendingType == ASSUME IsFiniteSet(Waiting) PROVE Pending \in Nat
  BY FS_CardinalityType DEF Pending

-----------------------------------------------------------------------------
(* The other sets that are counted.                                        *)

LEMMA CountedFinite ==
    /\ IsFiniteSet(Tasks) /\ Cardinality(Tasks) = NumTasks
    /\ IsFiniteSet(Jobs) /\ IsFiniteSet(Accepted) /\ IsFiniteSet(Refused) /\ IsFiniteSet(Examined)
    /\ Cardinality(Jobs) \in Nat /\ Cardinality(Accepted) \in 0..NumTasks
    /\ Cardinality(Refused) \in 0..NumTasks /\ Cardinality(Examined) \in 0..NumTasks
  <1>1. IsFiniteSet(Tasks) /\ Cardinality(Tasks) = NumTasks /\ IsFiniteSet(Workers)
    BY FS_Interval
  <1>2. /\ Jobs \in SUBSET Workers /\ Accepted \in SUBSET Tasks
        /\ Refused \in SUBSET Tasks /\ Examined \in SUBSET Tasks
    BY DEF Jobs, Accepted, Refused, Examined
  <1> HIDE DEF Tasks, Workers
  <1>3. /\ IsFiniteSet(Jobs) /\ IsFiniteSet(Accepted) /\ IsFiniteSet(Refused) /\ IsFiniteSet(Examined)
        /\ Cardinality(Accepted) <= NumTasks /\ Cardinality(Refused) <= NumTasks
        /\ Cardinality(Examined) <= NumTasks
    BY <1>1, <1>2, FS_Subset
  <1>4. /\ Cardinality(Jobs) \in Nat /\ Cardinality(Accepted) \in Nat
        /\ Cardinality(Refused) \in Nat /\ Cardinality(Examined) \in Nat
    BY <1>3, FS_CardinalityType
  <1> QED
    BY <1>1, <1>3, <1>4

\* What a step of a submission does to the sets of submissions.
LEMMA SubmitCounted ==
    ASSUME Types, NEW k \in Tasks, NEW p \in {"lock", "choose", "push", "fallback", "accepted", "rejected"},
           spc[k] \in {"new", "lock", "choose", "push", "fallback"}, p = "lock" => spc[k] = "new",
           spc' = [spc EXCEPT ![k] = p]
    PROVE  /\ Cardinality(Accepted') = Cardinality(Accepted) + (IF p = "accepted" THEN 1 ELSE 0)
           /\ Cardinality(Refused') = Cardinality(Refused) + (IF p = "rejected" THEN 1 ELSE 0)
           /\ Cardinality(Examined') = Cardinality(Examined)
                 + (IF spc[k] \in {"new", "lock"} /\ p # "lock" THEN 1 ELSE 0)
  <1>1. spc'[k] = p /\ \A j \in Tasks : j # k => spc'[j] = spc[j]
    BY DEF Types
  <1>2. Accepted' = (IF p = "accepted" THEN Accepted \cup {k} ELSE Accepted) /\ k \notin Accepted
    BY <1>1 DEF Accepted
  <1>3. Refused' = (IF p = "rejected" THEN Refused \cup {k} ELSE Refused) /\ k \notin Refused
    BY <1>1 DEF Refused
  <1>4. /\ Examined' = (IF p # "lock" THEN Examined \cup {k} ELSE Examined)
        /\ k \in Examined <=> spc[k] \notin {"new", "lock"}
    BY <1>1 DEF Examined
  <1>5. /\ Cardinality(Accepted) \in Nat /\ Cardinality(Refused) \in Nat
        /\ Cardinality(Examined) \in Nat
    BY CountedFinite
  <1>6. /\ Cardinality(Accepted \cup {k}) = Cardinality(Accepted) + 1
        /\ Cardinality(Refused \cup {k}) = Cardinality(Refused) + 1
        /\ Cardinality(Examined \cup {k}) = IF k \in Examined THEN Cardinality(Examined)
                                                             ELSE Cardinality(Examined) + 1
    BY <1>2, <1>3, CountedFinite, FS_AddElement
  <1> QED
    BY <1>2, <1>3, <1>4, <1>5, <1>6

\* A worker takes a task, or is done with it.
LEMMA TakeCounted ==
    ASSUME Types, NEW w \in Workers, NEW k \in Tasks, job[w] = NoTask, job' = [job EXCEPT ![w] = k]
    PROVE  Cardinality(Jobs') = Cardinality(Jobs) + 1
  <1>1. Jobs' = Jobs \cup {w} /\ w \notin Jobs
    <2>1. job'[w] = k /\ \A u \in Workers : u # w => job'[u] = job[u]
      BY DEF Types
    <2>2. k # NoTask
      BY DEF Tasks, NoTask
    <2> QED
      BY <2>1, <2>2 DEF Jobs
  <1> QED
    BY <1>1, CountedFinite, FS_AddElement

LEMMA CompleteCounted ==
    ASSUME Types, NEW w \in Workers, job[w] # NoTask, job' = [job EXCEPT ![w] = NoTask]
    PROVE  Cardinality(Jobs') = Cardinality(Jobs) - 1
  <1>1. Jobs' = Jobs \ {w} /\ w \in Jobs
    BY DEF Jobs, Types
  <1> QED
    BY <1>1, CountedFinite, FS_RemoveElement

-----------------------------------------------------------------------------
(* The effect of the steps on what waits.                                  *)

\* A worker that was started is a worker, and its queue is its deque.
LEMMA StartedFacts ==
    ASSUME Types
    PROVE  /\ Started \subseteq Workers /\ \A w \in Workers : w \in Started <=> w < count
           /\ GLOBAL \notin Workers /\ Queue(GLOBAL) = global
           /\ \A w \in Workers : Queue(w) = deque[w] /\ Queue(w)' = deque'[w]
           /\ Queue(GLOBAL)' = global'
           /\ DOMAIN global = 1..Len(global) /\ Len(global) \in Nat
           /\ \A w \in Workers : DOMAIN deque[w] = 1..Len(deque[w]) /\ Len(deque[w]) \in Nat
  <1>1. /\ Started \subseteq Workers /\ \A w \in Workers : w \in Started <=> w < count
        /\ GLOBAL \notin Workers
    BY DEF Types, Started
  <1>2. /\ Queue(GLOBAL) = global /\ Queue(GLOBAL)' = global'
        /\ \A w \in Workers : Queue(w) = deque[w] /\ Queue(w)' = deque'[w]
    BY <1>1 DEF Queue
  <1>3. DOMAIN global = 1..Len(global) /\ Len(global) \in Nat
    BY LenProperties DEF Types
  <1>4. ASSUME NEW w \in Workers PROVE DOMAIN deque[w] = 1..Len(deque[w]) /\ Len(deque[w]) \in Nat
    <2>1. deque[w] \in Seq(Tasks)
      BY DEF Types
    <2> QED
      BY <2>1, LenProperties
  <1> QED
    BY <1>1, <1>2, <1>3, <1>4

\* A push onto the deque of a started worker.
LEMMA PendingPush ==
    ASSUME Types, IsFiniteSet(Waiting), NEW w \in Started, NEW s \in Seq(Tasks),
           DOMAIN s = 1..(Len(deque[w]) + 1),
           deque' = [deque EXCEPT ![w] = s], UNCHANGED <<count, global>>
    PROVE  IsFiniteSet(Waiting)' /\ Pending' = Pending + 1
  <1>1. w \in Workers /\ Len(deque[w]) \in Nat
    BY StartedFacts
  <1>2. deque'[w] = s /\ \A p \in Workers : p # w => deque'[p] = deque[p]
    BY <1>1 DEF Types
  <1>3. /\ DOMAIN Queue(w) = 1..Len(deque[w]) /\ DOMAIN (Queue(w)') = 1..(Len(deque[w]) + 1)
        /\ \A p \in {GLOBAL} \cup Started : p # w => DOMAIN (Queue(p)') = DOMAIN Queue(p)
    <2>1. DOMAIN Queue(w) = 1..Len(deque[w]) /\ DOMAIN (Queue(w)') = 1..(Len(deque[w]) + 1)
      BY <1>1, <1>2, StartedFacts
    <2>2. ASSUME NEW p \in Started, p # w PROVE DOMAIN (Queue(p)') = DOMAIN Queue(p)
      BY <1>1, <1>2, <2>2, StartedFacts
    <2>3. DOMAIN (Queue(GLOBAL)') = DOMAIN Queue(GLOBAL)
      BY DEF Queue
    <2> QED
      BY <2>1, <2>2, <2>3
  <1> QED
    BY <1>1, <1>3, PendingGrows

\* A task is taken from the deque of a started worker.
LEMMA PendingPop ==
    ASSUME Types, IsFiniteSet(Waiting), NEW w \in Started, NEW s \in Seq(Tasks),
           Len(deque[w]) # 0, DOMAIN s = 1..(Len(deque[w]) - 1),
           deque' = [deque EXCEPT ![w] = s], UNCHANGED <<count, global>>
    PROVE  IsFiniteSet(Waiting)' /\ Pending' = Pending - 1
  <1>1. w \in Workers /\ Len(deque[w]) \in Nat \ {0}
    BY StartedFacts
  <1>2. deque'[w] = s /\ \A p \in Workers : p # w => deque'[p] = deque[p]
    BY <1>1 DEF Types
  <1>3. /\ DOMAIN Queue(w) = 1..Len(deque[w]) /\ DOMAIN (Queue(w)') = 1..(Len(deque[w]) - 1)
        /\ \A p \in {GLOBAL} \cup Started : p # w => DOMAIN (Queue(p)') = DOMAIN Queue(p)
    <2>1. DOMAIN Queue(w) = 1..Len(deque[w]) /\ DOMAIN (Queue(w)') = 1..(Len(deque[w]) - 1)
      BY <1>1, <1>2, StartedFacts
    <2>2. ASSUME NEW p \in Started, p # w PROVE DOMAIN (Queue(p)') = DOMAIN Queue(p)
      BY <1>1, <1>2, <2>2, StartedFacts
    <2>3. DOMAIN (Queue(GLOBAL)') = DOMAIN Queue(GLOBAL)
      BY DEF Queue
    <2> QED
      BY <2>1, <2>2, <2>3
  <1> QED
    BY <1>1, <1>3, PendingShrinks

\* A push onto the global queue.
LEMMA PendingPushGlobal ==
    ASSUME Types, IsFiniteSet(Waiting), NEW s \in Seq(Tasks),
           DOMAIN s = 1..(Len(global) + 1), global' = s, UNCHANGED <<count, deque>>
    PROVE  IsFiniteSet(Waiting)' /\ Pending' = Pending + 1
  <1>1. Len(global) \in Nat
    BY StartedFacts
  <1>2. DOMAIN Queue(GLOBAL) = 1..Len(global) /\ DOMAIN (Queue(GLOBAL)') = 1..(Len(global) + 1)
    BY StartedFacts
  <1>3. ASSUME NEW p \in Started PROVE DOMAIN (Queue(p)') = DOMAIN Queue(p)
    BY StartedFacts
  <1> QED
    BY <1>1, <1>2, <1>3, PendingGrows

\* A task goes from the global queue to a deque.
LEMMA PendingMove ==
    ASSUME Types, IsFiniteSet(Waiting), NEW w \in Started, NEW s \in Seq(Tasks), NEW g \in Seq(Tasks),
           Len(global) # 0, DOMAIN g = 1..(Len(global) - 1), DOMAIN s = 1..(Len(deque[w]) + 1),
           deque' = [deque EXCEPT ![w] = s], global' = g, UNCHANGED count
    PROVE  IsFiniteSet(Waiting)' /\ Pending' = Pending
  <1> DEFINE n == Len(global)
             m == Len(deque[w])
  <1>1. w \in Workers /\ m \in Nat /\ n \in Nat \ {0} /\ w # GLOBAL
    BY StartedFacts
  <1>2. deque'[w] = s /\ \A p \in Workers : p # w => deque'[p] = deque[p]
    BY <1>1 DEF Types
  <1>3. /\ DOMAIN Queue(w) = 1..m /\ DOMAIN (Queue(w)') = 1..(m + 1)
        /\ DOMAIN Queue(GLOBAL) = 1..n /\ DOMAIN (Queue(GLOBAL)') = 1..(n - 1)
    BY <1>1, <1>2, StartedFacts
  <1>4. ASSUME NEW p \in Started, p # w PROVE DOMAIN (Queue(p)') = DOMAIN Queue(p)
    BY <1>2, <1>4, StartedFacts
  <1>5. Started' = Started
    BY DEF Started
  <1> HIDE DEF n, m
  <1>6. /\ \A i : i \in 1..(m + 1) <=> i \in 1..m \/ i = m + 1
        /\ \A i : i \in 1..(n - 1) <=> i \in 1..n /\ i # n
        /\ m + 1 \notin 1..m /\ n \in 1..n
    BY <1>1, IntervalFacts
  <1> DEFINE old == <<GLOBAL, n>>
             new == <<w, m + 1>>
  <1> HIDE DEF GLOBAL
  <1>7. Waiting' = (Waiting \ {old}) \cup {new}
    <2>1. ASSUME NEW x \in Waiting' PROVE x \in (Waiting \ {old}) \cup {new}
      <3>1. PICK p \in {GLOBAL} \cup Started : \E i \in DOMAIN (Queue(p)') : x = <<p, i>>
        BY <1>5, <2>1, WaitingMemberNext
      <3>2. PICK i \in DOMAIN (Queue(p)') : x = <<p, i>>
        BY <3>1
      <3>3. CASE p = w
        BY <1>1, <1>3, <1>6, <3>2, <3>3, WaitingMember
      <3>4. CASE p = GLOBAL
        BY <1>1, <1>3, <1>6, <3>2, <3>4, WaitingMember
      <3>5. CASE p \in Started /\ p # w
        <4>1. p # GLOBAL
          BY <3>5, StartedFacts
        <4> QED
          BY <1>4, <3>2, <3>5, <4>1, WaitingMember
      <3> QED
        BY <3>3, <3>4, <3>5
    <2>2. ASSUME NEW x \in Waiting, x # old PROVE x \in Waiting'
      <3>1. PICK p \in {GLOBAL} \cup Started : \E i \in DOMAIN Queue(p) : x = <<p, i>>
        BY <2>2, WaitingMember
      <3>2. PICK i \in DOMAIN Queue(p) : x = <<p, i>>
        BY <3>1
      <3>3. i \in DOMAIN (Queue(p)')
        BY <1>3, <1>4, <1>6, <2>2, <3>2
      <3> QED
        BY <1>5, <3>2, <3>3, WaitingMemberNext
    <2>3. new \in Waiting'
      BY <1>3, <1>5, <1>6, WaitingMemberNext
    <2> HIDE DEF old, new
    <2> QED
      BY <2>1, <2>2, <2>3
  <1>8. old \in Waiting /\ new \notin Waiting
    BY <1>1, <1>3, <1>6, WaitingMember, SMTT(20)
  <1> HIDE DEF old, new
  <1>9. /\ IsFiniteSet(Waiting \ {old})
        /\ Cardinality(Waiting \ {old}) = Cardinality(Waiting) - 1
    BY <1>8, FS_RemoveElement
  <1>10. /\ IsFiniteSet((Waiting \ {old}) \cup {new})
         /\ Cardinality((Waiting \ {old}) \cup {new}) = Cardinality(Waiting \ {old}) + 1
    BY <1>8, <1>9, FS_AddElement
  <1>11. Cardinality(Waiting) \in Nat
    BY FS_CardinalityType
  <1> QED
    BY <1>7, <1>9, <1>10, <1>11 DEF Pending

-----------------------------------------------------------------------------
(* The types, the lock and the workers.                                    *)

LEMMA TypesStep == ASSUME IndInv, [Next]_vars PROVE Types'
  <1> USE DEF Types, queues, workerVars, submitVars, stats
  <1>1. Types /\ LockInv
    BY DEF IndInv
  <1>2. CASE UNCHANGED vars
    BY <1>1, <1>2 DEF vars
  <1>3. CASE Start \/ Shutdown \/ Join \/ BalanceBegin \/ BalanceEnd
    BY <1>1, <1>3 DEF Start, Shutdown, Join, BalanceBegin, BalanceEnd
  <1>4. CASE Destroy
    <2>1. <<>> \in Seq(Tasks)
      BY EmptySeq
    <2> QED
      BY <1>1, <1>4, <2>1 DEF Destroy
  <1>5. CASE BalanceMove
    <2>1. global # <<>> /\ global' = Front(global)
          /\ \E w \in Started : deque' = [deque EXCEPT ![w] = Append(@, Last(global))]
      BY <1>5 DEF BalanceMove
    <2>2. Front(global) \in Seq(Tasks) /\ Last(global) \in Tasks
      BY <1>1, <2>1, LastFacts
    <2>3. \A w \in Started : w \in Workers /\ deque[w] \in Seq(Tasks)
      BY <1>1, StartedFacts
    <2>4. \A w \in Started : Append(deque[w], Last(global)) \in Seq(Tasks)
      BY <2>2, <2>3, AppendFacts
    <2>5. deque' \in [Workers -> Seq(Tasks)]
      BY <1>1, <2>1, <2>4
    <2> QED
      BY <1>1, <1>5, <2>1, <2>2, <2>5 DEF BalanceMove
  <1>6. ASSUME NEW w \in Workers,
               \/ WorkerStop(w) \/ WorkerEmpty(w) \/ WorkerGiveUp(w) \/ WorkerIdleExit(w)
               \/ WorkerRetry(w) \/ WorkerComplete(w)
        PROVE  Types'
    <2>1. CASE WorkerComplete(w)
      <3>1. completed + 1 \in Nat
        BY <1>1
      <3>2. job' \in [Workers -> Tasks \cup {NoTask}]
        BY <1>1, <2>1 DEF WorkerComplete
      <3> QED
        BY <1>1, <2>1, <3>1, <3>2 DEF WorkerComplete
    <2>2. CASE WorkerStop(w) \/ WorkerEmpty(w) \/ WorkerGiveUp(w) \/ WorkerIdleExit(w) \/ WorkerRetry(w)
      BY <1>1, <2>2 DEF WorkerStop, WorkerEmpty, WorkerGiveUp, WorkerIdleExit, WorkerRetry
    <2> QED
      BY <1>6, <2>1, <2>2
  <1>7. ASSUME NEW w \in Workers, WorkerPop(w) PROVE Types'
    <2>1. deque[w] \in Seq(Tasks) /\ deque[w] # <<>>
      BY <1>1, <1>7 DEF WorkerPop
    <2>2. Front(deque[w]) \in Seq(Tasks) /\ Last(deque[w]) \in Tasks
      BY <2>1, LastFacts
    <2> QED
      BY <1>1, <1>7, <2>2 DEF WorkerPop, Take
  <1>8. ASSUME NEW w \in Workers, WorkerSteal(w) PROVE Types'
    <2>1. PICK v \in Started : /\ deque[v] # <<>> /\ Take(w, Head(deque[v]))
                               /\ deque' = [deque EXCEPT ![v] = Tail(@)]
      BY <1>8 DEF WorkerSteal
    <2>2. v \in Workers /\ deque[v] \in Seq(Tasks)
      BY <1>1, StartedFacts
    <2>3. Tail(deque[v]) \in Seq(Tasks) /\ Head(deque[v]) \in Tasks
      BY <2>1, <2>2, HeadFacts
    <2>4. /\ deque' \in [Workers -> Seq(Tasks)] /\ job' \in [Workers -> Tasks \cup {NoTask}]
          /\ wpc' \in [Workers -> {"absent", "loop", "steal", "idle", "execute", "exited"}]
      BY <1>1, <2>1, <2>2, <2>3 DEF Take
    <2> QED
      BY <1>1, <1>8, <2>4 DEF WorkerSteal
  <1>9. ASSUME NEW k \in Tasks, SubmitCheck(k) \/ SubmitReject(k) \/ SubmitAdmit(k) PROVE Types'
    <2>1. rejected + 1 \in Nat /\ submitted + 1 \in Nat
      BY <1>1
    <2>2. \E p \in {"lock", "choose", "rejected"} : spc' = [spc EXCEPT ![k] = p]
      BY <1>9 DEF SubmitCheck, SubmitReject, SubmitAdmit
    <2>3. spc' \in [Tasks -> {"new", "lock", "choose", "push", "fallback", "accepted", "rejected"}]
      BY <1>1, <2>2
    <2>4. /\ UNCHANGED <<phase, count, deque, global, wpc, job, best, completed>>
          /\ mutex' \in {mutex, k} /\ submitted' \in {submitted, submitted + 1}
          /\ rejected' \in {rejected, rejected + 1}
      BY <1>9 DEF SubmitCheck, SubmitReject, SubmitAdmit
    <2> QED
      BY <1>1, <2>1, <2>3, <2>4
  <1>10. ASSUME NEW k \in Tasks, SubmitChoose(k) PROVE Types'
    <2>1. Started \subseteq Workers
      BY <1>1, StartedFacts
    <2> QED
      BY <1>1, <1>10, <2>1 DEF SubmitChoose
  <1>11. ASSUME NEW k \in Tasks, SubmitPush(k) PROVE Types'
    <2>1. best[k] \in Workers /\ deque[best[k]] \in Seq(Tasks)
      BY <1>1
    <2>2. Append(deque[best[k]], k) \in Seq(Tasks)
      BY <2>1, AppendFacts
    <2> QED
      BY <1>1, <1>11, <2>1, <2>2 DEF SubmitPush
  <1>12. ASSUME NEW k \in Tasks, SubmitFallback(k) PROVE Types'
    <2>1. Append(global, k) \in Seq(Tasks)
      BY <1>1, AppendFacts
    <2>2. rejected + 1 \in Nat
      BY <1>1
    <2>3. /\ UNCHANGED <<phase, count, deque, wpc, job, best, submitted, completed>> /\ mutex' = FREE
          /\ global' \in {global, Append(global, k)} /\ rejected' \in {rejected, rejected + 1}
          /\ \E p \in {"accepted", "rejected"} : spc' = [spc EXCEPT ![k] = p]
      BY <1>12 DEF SubmitFallback
    <2>4. spc' \in [Tasks -> {"new", "lock", "choose", "push", "fallback", "accepted", "rejected"}]
      BY <1>1, <2>3
    <2> QED
      BY <1>1, <2>1, <2>2, <2>3, <2>4
  <1> QED
    BY <1>2, <1>3, <1>4, <1>5, <1>6, <1>7, <1>8, <1>9, <1>10, <1>11, <1>12
       DEF Next, Worker, Submitter, Balancer

LEMMA LockStep == ASSUME IndInv, [Next]_vars PROVE LockInv'
  <1> USE DEF queues, workerVars, submitVars, stats, Holding
  <1>1. Types /\ LockInv
    BY DEF IndInv
  <1>2. ASSUME UNCHANGED <<phase, mutex, count, spc, best>> PROVE LockInv'
    BY <1>1, <1>2 DEF LockInv
  <1>3. CASE UNCHANGED vars
    BY <1>2, <1>3 DEF vars
  <1>4. CASE Start
    BY <1>1, <1>4 DEF Start, LockInv, Types
  <1>5. CASE Shutdown \/ Join \/ Destroy
    BY <1>1, <1>5 DEF Shutdown, Join, Destroy, LockInv
  <1>6. CASE Balancer
    <2>1. /\ UNCHANGED <<phase, count, spc, best>>
          /\ \/ phase # "destroyed" /\ mutex = FREE /\ mutex' = BALANCER
             \/ mutex = BALANCER /\ mutex' \in {FREE, BALANCER}
      BY <1>6 DEF Balancer, BalanceBegin, BalanceMove, BalanceEnd
    <2> QED
      BY <1>1, <2>1 DEF LockInv
  <1>7. ASSUME NEW w \in Workers, Worker(w) PROVE LockInv'
    BY <1>2, <1>7 DEF Worker, WorkerStop, WorkerPop, WorkerEmpty, WorkerSteal, WorkerGiveUp,
                      WorkerIdleExit, WorkerRetry, WorkerComplete
  <1>8. ASSUME NEW k \in Tasks, SubmitCheck(k) \/ SubmitReject(k) PROVE LockInv'
    BY <1>1, <1>8, ZenonT(40) DEF SubmitCheck, SubmitReject, LockInv, Types, IsShutdown
  <1>9. ASSUME NEW k \in Tasks, SubmitAdmit(k) PROVE LockInv'
    <2>1. /\ phase # "destroyed" /\ spc[k] = "lock" /\ mutex = FREE /\ mutex' = k
          /\ UNCHANGED <<phase, count, best>> /\ spc' = [spc EXCEPT ![k] = "choose"]
      BY <1>9 DEF SubmitAdmit
    <2>2. spc'[k] = "choose" /\ \A j \in Tasks : j # k => spc'[j] = spc[j]
      BY <1>1, <2>1 DEF Types
    <2>3. phase # "created"
      BY <1>1, <2>1 DEF LockInv
    <2> QED
      BY <1>1, <2>1, <2>2, <2>3 DEF LockInv
  <1>10. ASSUME NEW k \in Tasks, SubmitChoose(k) PROVE LockInv'
    <2>1. spc[k] = "choose" /\ UNCHANGED <<phase, mutex, count>> /\ mutex = k
      BY <1>1, <1>10 DEF SubmitChoose, LockInv
    <2>2. \/ spc' = [spc EXCEPT ![k] = "fallback"] /\ UNCHANGED best
          \/ /\ spc' = [spc EXCEPT ![k] = "push"]
             /\ \E w \in Started : best' = [best EXCEPT ![k] = w]
      BY <1>10 DEF SubmitChoose
    <2>3. \A w \in Started : w < count
      BY <1>1, StartedFacts DEF Started, Types
    <2> QED
      BY <1>1, <2>1, <2>2, <2>3 DEF LockInv, Types
  <1>11. ASSUME NEW k \in Tasks, SubmitPush(k) \/ SubmitFallback(k) PROVE LockInv'
    <2>1. spc[k] \in Holding /\ UNCHANGED <<phase, count, best>> /\ mutex = k
      BY <1>1, <1>11 DEF SubmitPush, SubmitFallback, LockInv
    <2>2. \/ mutex' = FREE /\ \E p \in {"accepted", "rejected"} : spc' = [spc EXCEPT ![k] = p]
          \/ UNCHANGED mutex /\ spc' = [spc EXCEPT ![k] = "fallback"]
      BY <1>11 DEF SubmitPush, SubmitFallback
    <2>3. /\ \A j \in Tasks : j # k => spc'[j] = spc[j]
          /\ \/ mutex' = FREE /\ spc'[k] \in {"accepted", "rejected"}
             \/ UNCHANGED mutex /\ spc'[k] = "fallback"
      BY <1>1, <2>2 DEF Types
    <2>4. phase # "created" /\ phase # "destroyed"
      BY <1>1, <2>1 DEF LockInv
    <2> QED
      BY <1>1, <2>1, <2>3, <2>4 DEF LockInv
  <1> QED
    BY <1>3, <1>4, <1>5, <1>6, <1>7, <1>8, <1>9, <1>10, <1>11 DEF Next, Submitter

LEMMA WorkerStep == ASSUME IndInv, [Next]_vars PROVE WorkerInv'
  <1> USE DEF queues, workerVars, submitVars, stats
  <1>1. Types /\ LockInv /\ WorkerInv
    BY DEF IndInv
  <1>2. ASSUME UNCHANGED <<phase, count, wpc, job>> PROVE WorkerInv'
    BY <1>1, <1>2 DEF WorkerInv
  <1>3. CASE UNCHANGED vars
    BY <1>2, <1>3 DEF vars
  <1>4. CASE Start
    <2>1. /\ phase = "created" /\ phase' = "started" /\ count = 0 /\ UNCHANGED job
          /\ \E n \in 0..InitThreads :
                count' = n /\ wpc' = [w \in Workers |-> IF w < n THEN "loop" ELSE "absent"]
      BY <1>1, <1>4 DEF Start, LockInv
    <2>2. \A w \in Workers : job[w] = NoTask
      BY <1>1, <2>1 DEF WorkerInv
    <2> QED
      BY <2>1, <2>2 DEF WorkerInv
  <1>5. CASE Shutdown \/ Join
    <2>1. /\ UNCHANGED <<count, wpc, job>>
          /\ \/ phase' = "shutdown"
             \/ phase' = "joined" /\ (WaitOnShutdown => \A w \in Started : wpc[w] = "exited")
      BY <1>5 DEF Shutdown, Join
    <2>2. \A w \in Workers : w \in Started \/ w >= count
      BY <1>1 DEF Started, Types
    <2> QED
      BY <1>1, <2>1, <2>2 DEF WorkerInv
  <1>6. CASE Destroy
    BY <1>1, <1>6 DEF Destroy, WorkerInv
  <1>7. CASE Balancer
    BY <1>2, <1>7 DEF Balancer, BalanceBegin, BalanceMove, BalanceEnd
  <1>8. ASSUME NEW w \in Workers, Worker(w) PROVE WorkerInv'
    <2>1. UNCHANGED <<phase, count>> /\ wpc[w] \in {"loop", "steal", "idle", "execute"}
      BY <1>8 DEF Worker, WorkerStop, WorkerPop, WorkerEmpty, WorkerSteal, WorkerGiveUp,
                  WorkerIdleExit, WorkerRetry, WorkerComplete
    <2>2. \/ /\ UNCHANGED job /\ wpc[w] # "execute"
             /\ \E p \in {"loop", "steal", "idle", "exited"} : wpc' = [wpc EXCEPT ![w] = p]
          \/ \E k \in Tasks : job' = [job EXCEPT ![w] = k] /\ wpc' = [wpc EXCEPT ![w] = "execute"]
          \/ job' = [job EXCEPT ![w] = NoTask] /\ wpc' = [wpc EXCEPT ![w] = "loop"]
      <3>1. ASSUME NEW v \in Workers, deque[v] # <<>>
            PROVE  Head(deque[v]) \in Tasks /\ Last(deque[v]) \in Tasks
        <4>1. deque[v] \in Seq(Tasks)
          BY <1>1 DEF Types
        <4> QED
          BY <3>1, <4>1, HeadFacts, LastFacts
      <3>2. CASE WorkerPop(w)
        BY <3>1, <3>2 DEF WorkerPop, Take
      <3>3. CASE WorkerSteal(w)
        BY <1>1, <3>1, <3>3, StartedFacts DEF WorkerSteal, Take
      <3>4. CASE WorkerComplete(w)
        BY <3>4 DEF WorkerComplete
      <3>5. CASE WorkerStop(w) \/ WorkerEmpty(w) \/ WorkerGiveUp(w) \/ WorkerIdleExit(w) \/ WorkerRetry(w)
        BY <3>5 DEF WorkerStop, WorkerEmpty, WorkerGiveUp, WorkerIdleExit, WorkerRetry
      <3> QED
        BY <1>8, <3>2, <3>3, <3>4, <3>5 DEF Worker
    <2>3. w < count
      <3>1. ~(w >= count)
        BY <1>1, <2>1 DEF WorkerInv
      <3>2. w \in Int /\ count \in Int
        BY <1>1 DEF Types
      <3> QED
        BY <3>1, <3>2
    <2>4. \A v \in Workers : v # w => wpc'[v] = wpc[v] /\ job'[v] = job[v]
      BY <1>1, <2>2 DEF Types
    <2>5. wpc'[w] = "execute" <=> job'[w] # NoTask
      BY <1>1, <2>2 DEF Types, WorkerInv
    <2>6. ~(WaitOnShutdown /\ phase \in {"joined", "destroyed"})
      BY <1>1, <2>1 DEF WorkerInv
    <2>7. \A v \in Workers : v >= count => v # w
      BY <1>1, <2>3 DEF Types
    <2> QED
      BY <1>1, <2>1, <2>4, <2>5, <2>6, <2>7 DEF WorkerInv
  <1>9. ASSUME NEW k \in Tasks, SubmitCheck(k) \/ Submitter(k) PROVE WorkerInv'
    BY <1>2, <1>9 DEF SubmitCheck, Submitter, SubmitReject, SubmitAdmit, SubmitChoose, SubmitPush,
                      SubmitFallback
  <1> QED
    BY <1>3, <1>4, <1>5, <1>6, <1>7, <1>8, <1>9 DEF Next

-----------------------------------------------------------------------------
(* The counts.                                                             *)

Counted == PendingInv /\ CountInv /\ QueueInv

\* The numbers that are compared.
LEMMA Numbers ==
    ASSUME IndInv
    PROVE  /\ Pending \in Nat /\ Cardinality(Jobs) \in Nat /\ Cardinality(Accepted) \in Nat
           /\ Cardinality(Refused) \in Nat /\ Cardinality(Examined) \in Nat
           /\ completed \in Nat /\ submitted \in Nat /\ rejected \in Nat /\ MaxPending \in Nat
  BY PendingType, CountedFinite DEF IndInv, PendingInv, Types

\* Steps that move nothing.
LEMMA QuietCounted ==
    ASSUME IndInv, UNCHANGED <<count, deque, global, job, spc, submitted, rejected, completed>>,
           phase = "destroyed" => phase' = "destroyed", mutex' \in Tasks => mutex' = mutex
    PROVE  Counted'
  <1>1. Waiting' = Waiting /\ Pending' = Pending
    BY PendingSame
  <1>2. Jobs' = Jobs /\ Accepted' = Accepted /\ Refused' = Refused /\ Examined' = Examined
    BY DEF Jobs, Accepted, Refused, Examined
  <1>3. PendingInv' /\ CountInv'
    BY <1>1, <1>2 DEF IndInv, PendingInv, CountInv
  <1>4. QueueInv'
    BY DEF IndInv, QueueInv, Queued, Taken
  <1> QED
    BY <1>3, <1>4 DEF Counted

\* The deques of the workers that start are empty.
LEMMA StartCounted == ASSUME IndInv, Start PROVE Counted'
  <1>1. /\ phase = "created" /\ phase' = "started" /\ count = 0 /\ count' \in 0..InitThreads
        /\ UNCHANGED <<mutex, deque, global, job, spc, submitted, rejected, completed>>
    BY DEF IndInv, LockInv, Start, queues, submitVars, stats
  <1>2. \A w \in Workers : deque[w] = <<>>
    BY <1>1 DEF IndInv, PendingInv
  <1>3. Waiting' = Waiting
    <2>1. \A w \in Workers : DOMAIN deque[w] = {}
      BY <1>2
    <2>2. Types /\ Types'
      BY TypesStep DEF IndInv, Next
    <2>3. /\ \A w \in Started : w \in Workers
          /\ \A w \in Started' : w \in Workers
      <3>1. count \in 0..InitThreads /\ count' \in 0..InitThreads
        BY <1>1
      <3>2. \A n \in 0..InitThreads : 0..(n - 1) \subseteq Workers
        OBVIOUS
      <3> QED
        BY <3>1, <3>2 DEF Started
    <2>4. /\ \A p \in {GLOBAL} \cup Workers : Queue(p)' = Queue(p)
          /\ \A p \in Workers : DOMAIN Queue(p) = {}
      BY <1>1, <2>1, <2>2, StartedFacts DEF Queue
    <2>5. \A x : x \in Waiting <=> \E i \in DOMAIN Queue(GLOBAL) : x = <<GLOBAL, i>>
      BY <2>3, <2>4, WaitingMember
    <2>6. \A x : x \in Waiting' <=> \E i \in DOMAIN Queue(GLOBAL) : x = <<GLOBAL, i>>
      BY <2>3, <2>4, WaitingMemberNext
    <2> QED
      BY <2>5, <2>6
  <1>4. Jobs' = Jobs /\ Accepted' = Accepted /\ Refused' = Refused /\ Examined' = Examined
    BY <1>1 DEF Jobs, Accepted, Refused, Examined
  <1>5. PendingInv' /\ CountInv'
    BY <1>1, <1>2, <1>3, <1>4 DEF IndInv, PendingInv, CountInv, Pending
  <1>6. QueueInv'
    BY <1>1 DEF IndInv, QueueInv, Queued, Taken
  <1> QED
    BY <1>5, <1>6 DEF Counted

\* The steps of a submission that push nothing.
LEMMA SubmitQuietCounted ==
    ASSUME IndInv, NEW k \in Tasks, SubmitCheck(k) \/ SubmitReject(k) \/ SubmitAdmit(k) \/ SubmitChoose(k)
    PROVE  Counted'
  <1> USE DEF queues, workerVars, submitVars, stats
  <1>1. Types
    BY DEF IndInv
  <1>2. PICK p \in {"lock", "choose", "push", "fallback", "rejected"} :
            /\ spc' = [spc EXCEPT ![k] = p]
            /\ submitted' = submitted + (IF p = "choose" THEN 1 ELSE 0)
            /\ rejected' \in {rejected, rejected + (IF p = "rejected" THEN 1 ELSE 0)}
            /\ p = "lock" => spc[k] = "new"
            /\ p \in {"choose", "rejected"} => spc[k] \in {"new", "lock"}
            /\ p \in {"push", "fallback"} => spc[k] = "choose"
    <2>0. submitted + 0 = submitted /\ rejected + 0 = rejected
      BY <1>1 DEF Types
    <2>1. CASE SubmitCheck(k)
      BY <2>0, <2>1 DEF SubmitCheck
    <2>2. CASE SubmitReject(k)
      BY <2>0, <2>2 DEF SubmitReject
    <2>3. CASE SubmitAdmit(k)
      BY <2>0, <2>3 DEF SubmitAdmit
    <2>4. CASE SubmitChoose(k)
      BY <2>0, <2>4 DEF SubmitChoose
    <2> QED
      BY <2>1, <2>2, <2>3, <2>4
  <1>3. /\ UNCHANGED <<phase, count, deque, global, job, completed>>
        /\ mutex' = mutex \/ (mutex' = k /\ Pending < MaxPending)
    BY DEF SubmitCheck, SubmitReject, SubmitAdmit, SubmitChoose
  <1>4. spc[k] \in {"new", "lock", "choose"}
    BY <1>2
  <1>5. /\ Cardinality(Accepted') = Cardinality(Accepted) + 0
        /\ Cardinality(Refused') = Cardinality(Refused) + (IF p = "rejected" THEN 1 ELSE 0)
        /\ Cardinality(Examined') = Cardinality(Examined)
              + (IF spc[k] \in {"new", "lock"} /\ p # "lock" THEN 1 ELSE 0)
    BY <1>1, <1>2, <1>4, SubmitCounted
  <1>6. Waiting' = Waiting /\ Pending' = Pending /\ Jobs' = Jobs
    BY <1>3, PendingSame DEF Jobs
  <1>7. PendingInv'
    BY <1>3, <1>6 DEF IndInv, PendingInv
  <1>8. CountInv'
    <2>1. /\ completed' + Pending' + Cardinality(Jobs') = completed + Pending + Cardinality(Jobs)
          /\ Cardinality(Accepted') = Cardinality(Accepted)
      BY <1>3, <1>5, <1>6, Numbers
    <2>2. submitted' <= Cardinality(Examined')
      BY <1>2, <1>5, Numbers DEF IndInv, CountInv
    <2>3. rejected' <= Cardinality(Refused')
      BY <1>2, <1>5, Numbers DEF IndInv, CountInv
    <2> QED
      BY <1>3, <2>1, <2>2, <2>3 DEF IndInv, CountInv
  <1>9. QueueInv'
    <2>1. \A j \in Tasks : spc[j] = "accepted" => spc'[j] = "accepted"
      BY <1>1, <1>2, <1>4 DEF Types
    <2> QED
      BY <1>3, <2>1 DEF IndInv, QueueInv, Queued, Taken
  <1> QED
    BY <1>7, <1>8, <1>9 DEF Counted

\* A task that is accepted is in one queue more.
LEMMA AcceptCounted ==
    ASSUME IndInv, NEW k \in Tasks, spc[k] \in Holding, spc' = [spc EXCEPT ![k] = "accepted"],
           mutex' = FREE, UNCHANGED <<phase, count, job, submitted, rejected, completed>>,
           IsFiniteSet(Waiting)', Pending' = Pending + 1,
           \A w \in Workers : w >= count => deque'[w] = <<>>,
           \A j \in Tasks : Queued(j)' => Queued(j) \/ j = k
    PROVE  Counted'
  <1>1. mutex = k /\ Pending < MaxPending /\ Types
    BY DEF IndInv, LockInv, PendingInv
  <1>2. /\ Cardinality(Accepted') = Cardinality(Accepted) + 1
        /\ Cardinality(Refused') = Cardinality(Refused) + 0
        /\ Cardinality(Examined') = Cardinality(Examined) + 0
    BY <1>1, SubmitCounted DEF Holding
  <1>3. Jobs' = Jobs
    BY DEF Jobs
  <1>4. Pending' <= MaxPending /\ mutex' \notin Tasks
    BY <1>1, Numbers
  <1>5. PendingInv'
    BY <1>4 DEF PendingInv
  <1>6. CountInv'
    BY <1>2, <1>3, Numbers DEF IndInv, CountInv
  <1>7. QueueInv'
    <2>1. spc'[k] = "accepted" /\ \A j \in Tasks : spc[j] = "accepted" => spc'[j] = "accepted"
      BY <1>1 DEF Types
    <2>2. \A j \in Tasks : Taken(j)' => Taken(j)
      BY DEF Taken
    <2> QED
      BY <2>1, <2>2 DEF IndInv, QueueInv
  <1> QED
    BY <1>5, <1>6, <1>7 DEF Counted

\* The push does not fit: the submission goes on, or is refused after all.
LEMMA NoRoomCounted ==
    ASSUME IndInv, NEW k \in Tasks, spc[k] \in Holding, NEW p \in {"fallback", "rejected"},
           spc' = [spc EXCEPT ![k] = p], mutex' \in {FREE, mutex},
           UNCHANGED <<phase, count, deque, global, job, submitted, completed>>,
           rejected' = rejected + (IF p = "rejected" THEN 1 ELSE 0)
    PROVE  Counted'
  <1>1. Types
    BY DEF IndInv
  <1>2. /\ Cardinality(Accepted') = Cardinality(Accepted) + 0
        /\ Cardinality(Refused') = Cardinality(Refused) + (IF p = "rejected" THEN 1 ELSE 0)
        /\ Cardinality(Examined') = Cardinality(Examined) + 0
    BY <1>1, SubmitCounted DEF Holding
  <1>3. Waiting' = Waiting /\ Pending' = Pending /\ Jobs' = Jobs
    BY PendingSame DEF Jobs
  <1>4. PendingInv'
    BY <1>3 DEF IndInv, PendingInv
  <1>5. CountInv'
    BY <1>2, <1>3, Numbers DEF IndInv, CountInv
  <1>6. QueueInv'
    <2>1. \A j \in Tasks : spc[j] = "accepted" => spc'[j] = "accepted"
      BY <1>1 DEF Types, Holding
    <2> QED
      BY <2>1 DEF IndInv, QueueInv, Queued, Taken
  <1> QED
    BY <1>4, <1>5, <1>6 DEF Counted

LEMMA PushCounted == ASSUME IndInv, NEW k \in Tasks, SubmitPush(k) PROVE Counted'
  <1> USE DEF queues, workerVars, submitVars, stats
  <1>1. Types /\ IsFiniteSet(Waiting)
    BY DEF IndInv, PendingInv
  <1>2. PICK w \in Started : w = best[k]
    BY <1>1, StartedFacts DEF SubmitPush, IndInv, LockInv, Types
  <1>3. CASE Len(deque[w]) < DequeLimit
    <2>1. /\ deque' = [deque EXCEPT ![w] = Append(deque[w], k)] /\ mutex' = FREE
          /\ spc' = [spc EXCEPT ![k] = "accepted"] /\ spc[k] \in Holding
          /\ UNCHANGED <<phase, count, global, job, submitted, rejected, completed>>
      BY <1>2, <1>3 DEF SubmitPush, Holding
    <2>2. w \in Workers /\ deque[w] \in Seq(Tasks)
      BY <1>1, StartedFacts DEF Types
    <2>3. /\ Append(deque[w], k) \in Seq(Tasks) /\ DOMAIN Append(deque[w], k) = 1..(Len(deque[w]) + 1)
          /\ ToSet(Append(deque[w], k)) = ToSet(deque[w]) \cup {k}
      BY <2>2, AppendFacts
    <2>4. IsFiniteSet(Waiting)' /\ Pending' = Pending + 1
      BY <1>1, <2>1, <2>3, PendingPush
    <2>5. deque'[w] = Append(deque[w], k) /\ \A v \in Workers : v # w => deque'[v] = deque[v]
      BY <1>1, <2>1, <2>2 DEF Types
    <2>6. \A v \in Workers : v >= count => deque'[v] = <<>>
      <3>1. \A v \in Workers : v >= count => v # w
        BY <1>1 DEF Types, Started
      <3> QED
        BY <2>5, <3>1 DEF IndInv, PendingInv
    <2>7. \A j \in Tasks : Queued(j)' => Queued(j) \/ j = k
      BY <2>1, <2>2, <2>3, <2>5 DEF Queued
    <2> QED
      BY <2>1, <2>4, <2>6, <2>7, AcceptCounted
  <1>4. CASE ~(Len(deque[w]) < DequeLimit)
    <2>1. /\ spc' = [spc EXCEPT ![k] = "fallback"] /\ spc[k] \in Holding
          /\ UNCHANGED <<phase, mutex, count, deque, global, job, submitted, rejected, completed>>
      BY <1>2, <1>4 DEF SubmitPush, Holding
    <2>2. rejected' = rejected + (IF "fallback" = "rejected" THEN 1 ELSE 0)
      BY <2>1, Numbers
    <2> QED
      BY <2>1, <2>2, NoRoomCounted
  <1> QED
    BY <1>3, <1>4

LEMMA FallbackCounted == ASSUME IndInv, NEW k \in Tasks, SubmitFallback(k) PROVE Counted'
  <1> USE DEF queues, workerVars, submitVars, stats
  <1>1. Types /\ IsFiniteSet(Waiting)
    BY DEF IndInv, PendingInv
  <1>2. CASE Len(global) < GlobalLimit
    <2>1. /\ global' = Append(global, k) /\ mutex' = FREE
          /\ spc' = [spc EXCEPT ![k] = "accepted"] /\ spc[k] \in Holding
          /\ UNCHANGED <<phase, count, deque, job, submitted, rejected, completed>>
      BY <1>2 DEF SubmitFallback, Holding
    <2>2. /\ Append(global, k) \in Seq(Tasks) /\ DOMAIN Append(global, k) = 1..(Len(global) + 1)
          /\ ToSet(Append(global, k)) = ToSet(global) \cup {k}
      BY <1>1, AppendFacts DEF Types
    <2>3. IsFiniteSet(Waiting)' /\ Pending' = Pending + 1
      BY <1>1, <2>1, <2>2, PendingPushGlobal
    <2>4. \A j \in Tasks : Queued(j)' => Queued(j) \/ j = k
      BY <2>1, <2>2 DEF Queued
    <2>5. \A w \in Workers : w >= count => deque'[w] = <<>>
      BY <2>1 DEF IndInv, PendingInv
    <2> QED
      BY <2>1, <2>3, <2>4, <2>5, AcceptCounted
  <1>3. CASE ~(Len(global) < GlobalLimit)
    <2>1. /\ spc' = [spc EXCEPT ![k] = "rejected"] /\ spc[k] \in Holding /\ mutex' = FREE
          /\ rejected' = rejected + 1
          /\ UNCHANGED <<phase, count, deque, global, job, submitted, completed>>
      BY <1>3 DEF SubmitFallback, Holding
    <2>2. rejected' = rejected + (IF "rejected" = "rejected" THEN 1 ELSE 0)
      BY <2>1
    <2> QED
      BY <2>1, <2>2, NoRoomCounted
  <1> QED
    BY <1>2, <1>3

\* A worker takes a task out of a deque.
LEMMA TakenCounted ==
    ASSUME IndInv, NEW w \in Workers, wpc[w] # "execute", NEW v \in Started, NEW k \in ToSet(deque[v]),
           k \in Tasks, job' = [job EXCEPT ![w] = k], NEW s \in Seq(Tasks), ToSet(s) \subseteq ToSet(deque[v]),
           Len(deque[v]) # 0, DOMAIN s = 1..(Len(deque[v]) - 1), deque' = [deque EXCEPT ![v] = s],
           UNCHANGED <<phase, mutex, count, global, spc, submitted, rejected, completed>>
    PROVE  Counted'
  <1>1. Types /\ IsFiniteSet(Waiting) /\ job[w] = NoTask /\ v \in Workers
    BY StartedFacts DEF IndInv, PendingInv, WorkerInv
  <1>2. IsFiniteSet(Waiting)' /\ Pending' = Pending - 1
    BY <1>1, PendingPop
  <1>3. Cardinality(Jobs') = Cardinality(Jobs) + 1
    BY <1>1, TakeCounted
  <1>4. Accepted' = Accepted /\ Refused' = Refused /\ Examined' = Examined
    BY DEF Accepted, Refused, Examined
  <1>5. deque'[v] = s /\ \A u \in Workers : u # v => deque'[u] = deque[u]
    BY <1>1 DEF Types
  <1>6. PendingInv'
    <2>1. Pending' <= MaxPending /\ (mutex' \in Tasks => Pending' < MaxPending)
      BY <1>2, Numbers DEF IndInv, PendingInv
    <2>2. \A u \in Workers : u >= count => u # v
      BY <1>1 DEF Types, Started
    <2> QED
      BY <1>2, <1>5, <2>1, <2>2 DEF IndInv, PendingInv
  <1>7. CountInv'
    <2>1. completed' + Pending' + Cardinality(Jobs') = completed + Pending + Cardinality(Jobs)
      BY <1>2, <1>3, Numbers
    <2> QED
      BY <1>4, <2>1 DEF IndInv, CountInv
  <1>8. QueueInv'
    <2>1. \A j \in Tasks : Queued(j)' => Queued(j)
      BY <1>1, <1>5 DEF Queued
    <2>2. Queued(k)
      BY <1>1 DEF Queued
    <2>3. \A j \in Tasks : Taken(j)' => Taken(j) \/ j = k
      BY <1>1 DEF Taken, Types
    <2> QED
      BY <2>1, <2>2, <2>3 DEF IndInv, QueueInv
  <1> QED
    BY <1>6, <1>7, <1>8 DEF Counted

LEMMA WorkerCounted == ASSUME IndInv, NEW w \in Workers, Worker(w) PROVE Counted'
  <1> USE DEF queues, workerVars, submitVars, stats
  <1>1. Types
    BY DEF IndInv
  <1>2. CASE WorkerStop(w) \/ WorkerEmpty(w) \/ WorkerGiveUp(w) \/ WorkerIdleExit(w) \/ WorkerRetry(w)
    BY <1>2, QuietCounted DEF WorkerStop, WorkerEmpty, WorkerGiveUp, WorkerIdleExit, WorkerRetry
  <1>3. CASE WorkerPop(w)
    <2>1. deque[w] \in Seq(Tasks) /\ deque[w] # <<>> /\ wpc[w] = "loop"
      BY <1>1, <1>3 DEF WorkerPop, Types
    <2>2. w \in Started
      <3>1. ~(w >= count)
        BY <2>1 DEF IndInv, PendingInv
      <3> QED
        BY <1>1, <3>1 DEF Started, Types
    <2>3. /\ Len(deque[w]) # 0
          /\ Front(deque[w]) \in Seq(Tasks) /\ DOMAIN Front(deque[w]) = 1..(Len(deque[w]) - 1)
          /\ ToSet(Front(deque[w])) \subseteq ToSet(deque[w])
          /\ Last(deque[w]) \in ToSet(deque[w]) /\ Last(deque[w]) \in Tasks
      BY <2>1, LastFacts
    <2>4. /\ job' = [job EXCEPT ![w] = Last(deque[w])] /\ deque' = [deque EXCEPT ![w] = Front(deque[w])]
          /\ UNCHANGED <<phase, mutex, count, global, spc, submitted, rejected, completed>>
      BY <1>3 DEF WorkerPop, Take
    <2> QED
      BY <2>1, <2>2, <2>3, <2>4, TakenCounted
  <1>4. CASE WorkerSteal(w)
    <2>1. PICK v \in Started : /\ deque[v] # <<>> /\ Take(w, Head(deque[v]))
                               /\ deque' = [deque EXCEPT ![v] = Tail(deque[v])]
      BY <1>4 DEF WorkerSteal
    <2>2. deque[v] \in Seq(Tasks) /\ wpc[w] = "steal"
      BY <1>1, <1>4, StartedFacts DEF Types, WorkerSteal
    <2>3. /\ Len(deque[v]) # 0
          /\ Tail(deque[v]) \in Seq(Tasks) /\ DOMAIN Tail(deque[v]) = 1..(Len(deque[v]) - 1)
          /\ ToSet(Tail(deque[v])) \subseteq ToSet(deque[v])
          /\ Head(deque[v]) \in ToSet(deque[v]) /\ Head(deque[v]) \in Tasks
      BY <2>1, <2>2, HeadFacts
    <2>4. /\ job' = [job EXCEPT ![w] = Head(deque[v])]
          /\ UNCHANGED <<phase, mutex, count, global, spc, submitted, rejected, completed>>
      BY <1>4, <2>1 DEF WorkerSteal, Take
    <2> QED
      BY <2>1, <2>2, <2>3, <2>4, TakenCounted
  <1>5. CASE WorkerComplete(w)
    <2>1. /\ completed' = completed + 1 /\ job' = [job EXCEPT ![w] = NoTask] /\ job[w] # NoTask
          /\ UNCHANGED <<phase, mutex, count, deque, global, spc, submitted, rejected>>
      BY <1>5 DEF WorkerComplete, IndInv, WorkerInv
    <2>2. Cardinality(Jobs') = Cardinality(Jobs) - 1
      BY <1>1, <2>1, CompleteCounted
    <2>3. Accepted' = Accepted /\ Refused' = Refused /\ Examined' = Examined
      BY <2>1 DEF Accepted, Refused, Examined
    <2>4. Waiting' = Waiting /\ Pending' = Pending
      BY <2>1, PendingSame
    <2>5. PendingInv'
      BY <2>1, <2>4 DEF IndInv, PendingInv
    <2>6. CountInv'
      BY <2>1, <2>2, <2>3, <2>4, Numbers DEF IndInv, CountInv
    <2>7. QueueInv'
      <3>1. \A j \in Tasks : Taken(j)' => Taken(j)
        BY <1>1, <2>1 DEF Taken, Types
      <3> QED
        BY <2>1, <3>1 DEF IndInv, QueueInv, Queued
    <2> QED
      BY <2>5, <2>6, <2>7 DEF Counted
  <1> QED
    BY <1>2, <1>3, <1>4, <1>5 DEF Worker

\* The balancer moves a task from one queue to another.
LEMMA MoveCounted == ASSUME IndInv, BalanceMove PROVE Counted'
  <1> USE DEF queues, workerVars, submitVars, stats
  <1>1. Types /\ IsFiniteSet(Waiting)
    BY DEF IndInv, PendingInv
  <1>2. PICK w \in Started : deque' = [deque EXCEPT ![w] = Append(deque[w], Last(global))]
    BY DEF BalanceMove
  <1>3. /\ global # <<>> /\ global' = Front(global) /\ mutex = BALANCER
        /\ UNCHANGED <<phase, mutex, count, job, spc, submitted, rejected, completed>>
    BY DEF BalanceMove
  <1>4. /\ Len(global) # 0
        /\ Front(global) \in Seq(Tasks) /\ DOMAIN Front(global) = 1..(Len(global) - 1)
        /\ ToSet(Front(global)) \subseteq ToSet(global)
        /\ Last(global) \in ToSet(global) /\ Last(global) \in Tasks
    BY <1>1, <1>3, LastFacts DEF Types
  <1>5. w \in Workers /\ deque[w] \in Seq(Tasks)
    BY <1>1, StartedFacts DEF Types
  <1>6. /\ Append(deque[w], Last(global)) \in Seq(Tasks)
        /\ DOMAIN Append(deque[w], Last(global)) = 1..(Len(deque[w]) + 1)
        /\ ToSet(Append(deque[w], Last(global))) = ToSet(deque[w]) \cup {Last(global)}
    BY <1>4, <1>5, AppendFacts
  <1>7. IsFiniteSet(Waiting)' /\ Pending' = Pending
    BY <1>1, <1>2, <1>3, <1>4, <1>6, PendingMove
  <1>8. /\ deque'[w] = Append(deque[w], Last(global))
        /\ \A v \in Workers : v # w => deque'[v] = deque[v]
    BY <1>1, <1>2, <1>5 DEF Types
  <1>9. PendingInv'
    <2>1. \A v \in Workers : v >= count => v # w
      BY <1>1 DEF Types, Started
    <2> QED
      BY <1>3, <1>7, <1>8, <2>1 DEF IndInv, PendingInv
  <1>10. CountInv'
    <2>1. Jobs' = Jobs /\ Accepted' = Accepted /\ Refused' = Refused /\ Examined' = Examined
      BY <1>3 DEF Jobs, Accepted, Refused, Examined
    <2> QED
      BY <1>3, <1>7, <2>1 DEF IndInv, CountInv
  <1>11. QueueInv'
    <2>1. ASSUME NEW j \in Tasks, Queued(j)' PROVE Queued(j)
      <3>1. CASE j \in ToSet(global')
        BY <1>3, <1>4, <3>1 DEF Queued
      <3>2. ASSUME NEW v \in Workers, j \in ToSet(deque'[v]) PROVE Queued(j)
        <4>1. CASE v = w
          <5>1. j \in ToSet(deque[w]) \cup {Last(global)}
            BY ONLY <1>6, <1>8, <3>2, <4>1
          <5>2. j \in ToSet(deque[w]) \/ j \in ToSet(global)
            BY ONLY <1>4, <5>1
          <5> QED
            BY <1>5, <5>2 DEF Queued
        <4>2. CASE v # w
          BY <1>8, <3>2, <4>2 DEF Queued
        <4> QED
          BY <4>1, <4>2
      <3>3. j \in ToSet(global') \/ \E v \in Workers : j \in ToSet(deque'[v])
        BY <2>1 DEF Queued
      <3> QED
        BY <3>1, <3>2, <3>3
    <2>2. \A j \in Tasks : Taken(j)' => Taken(j)
      BY <1>3 DEF Taken
    <2> QED
      BY <1>3, <2>1, <2>2 DEF IndInv, QueueInv
  <1> QED
    BY <1>9, <1>10, <1>11 DEF Counted

\* destroy frees what waits.
LEMMA DestroyCounted == ASSUME IndInv, Destroy PROVE Counted'
  <1>1. /\ deque' = [w \in Workers |-> <<>>] /\ global' = <<>> /\ phase' = "destroyed" /\ mutex = FREE
        /\ UNCHANGED <<mutex, count, job, spc, submitted, rejected, completed>>
    BY DEF Destroy, workerVars, submitVars, stats
  <1>2. Waiting' = {}
    <2>1. Started' \subseteq Workers
      BY TypesStep DEF Next, Types, Started
    <2>2. \A p \in {GLOBAL} \cup Started' : DOMAIN (Queue(p)') = {}
      BY <1>1, <2>1 DEF Queue
    <2> QED
      BY <2>2, WaitingMemberNext
  <1>3. Pending' = 0 /\ IsFiniteSet(Waiting)'
    BY <1>2, FS_EmptySet DEF Pending
  <1>4. Jobs' = Jobs /\ Accepted' = Accepted /\ Refused' = Refused /\ Examined' = Examined
    BY <1>1 DEF Jobs, Accepted, Refused, Examined
  <1>5. PendingInv'
    BY <1>1, <1>3 DEF PendingInv
  <1>6. CountInv'
    BY <1>1, <1>3, <1>4, Numbers DEF IndInv, CountInv
  <1>7. QueueInv'
    BY <1>1 DEF IndInv, QueueInv, Queued, Taken, ToSet
  <1> QED
    BY <1>5, <1>6, <1>7 DEF Counted

LEMMA IndInvStep == ASSUME IndInv, [Next]_vars PROVE IndInv'
  <1> USE DEF queues, workerVars, submitVars, stats
  <1>1. Types' /\ LockInv' /\ WorkerInv'
    BY TypesStep, LockStep, WorkerStep
  <1>2. ASSUME UNCHANGED vars PROVE Counted'
    BY <1>2, QuietCounted DEF vars
  <1>3. ASSUME Shutdown \/ Join PROVE Counted'
    BY <1>3, QuietCounted DEF Shutdown, Join
  <1>4. ASSUME BalanceBegin \/ BalanceEnd PROVE Counted'
    BY <1>4, QuietCounted DEF BalanceBegin, BalanceEnd
  <1>5. Counted'
    BY <1>2, <1>3, <1>4, StartCounted, SubmitQuietCounted, PushCounted, FallbackCounted,
       WorkerCounted, MoveCounted, DestroyCounted DEF Next, Balancer, Submitter
  <1> QED
    BY <1>1, <1>5 DEF IndInv, Counted

LEMMA InitInv == ASSUME Init PROVE IndInv
  <1>1. <<>> \in Seq(Tasks)
    BY EmptySeq
  <1>2. Types
    BY <1>1 DEF Init, Types
  <1>3. LockInv /\ WorkerInv
    BY DEF Init, LockInv, WorkerInv, Holding
  <1>4. Waiting = {}
    <2>1. \A p \in {GLOBAL} \cup Started : DOMAIN Queue(p) = {}
      BY <1>2, StartedFacts DEF Init, Queue
    <2> QED
      BY <2>1, WaitingMember
  <1>5. IsFiniteSet(Waiting) /\ Pending = 0
    BY <1>4, FS_EmptySet DEF Pending
  <1>6. Jobs = {}
    BY DEF Init, Jobs
  <1>7. Cardinality(Jobs) = 0
    BY <1>6, FS_EmptySet
  <1>8. Accepted = {}
    BY DEF Init, Accepted
  <1>9. Cardinality(Accepted) = 0
    BY <1>8, FS_EmptySet
  <1>10. PendingInv /\ CountInv
    BY <1>5, <1>7, <1>9, CountedFinite DEF Init, PendingInv, CountInv
  <1>11. QueueInv
    BY DEF Init, QueueInv, Queued, Taken, ToSet
  <1> QED
    BY <1>2, <1>3, <1>10, <1>11 DEF IndInv

\* The invariant of the pool is inductive.
THEOREM Invariance == Spec => []IndInv
  BY InitInv, IndInvStep, PTL DEF Spec

\* The pool neither loses nor repeats a task, and its statistics add up, for any
\* number of workers, tasks and submitters and any size of the queues.
THEOREM TasksConservedHolds == Spec => []TasksConserved
  <1>1. ASSUME IndInv PROVE TasksConserved
    <2>1. submitted \in 0..NumTasks /\ rejected \in 0..NumTasks /\ completed \in 0..NumTasks
      BY <1>1, CountedFinite, Numbers DEF IndInv, CountInv
    <2>2. TypeOK
      BY <1>1, <2>1 DEF TypeOK, Types, IndInv
    <2> QED
      BY <1>1, <2>2 DEF TasksConserved, IndInv, CountInv, QueueInv, Jobs, Accepted
  <1> QED
    BY <1>1, Invariance, PTL

\* The tasks waiting never exceed max_pending_tasks, whatever the workers and the
\* balancer do while a submission decides.
THEOREM BackPressureHolds == Spec => []BackPressure
  <1>1. IndInv => BackPressure
    BY DEF IndInv, PendingInv, BackPressure
  <1> QED
    BY <1>1, Invariance, PTL

\* Once a shutdown that waits has returned, no task is executed and none will be.
THEOREM QuietAfterJoinHolds == ASSUME WaitOnShutdown PROVE Spec => []QuietAfterJoin
  <1>1. IndInv => QuietAfterJoin
    BY DEF IndInv, WorkerInv, QuietAfterJoin
  <1> QED
    BY <1>1, Invariance, PTL
=============================================================================
