--------------------------- MODULE CompilerProofs ---------------------------
(***************************************************************************)
(* Proofs about StatementCompiler, for every limit of the compiler, every  *)
(* length of its statements and conditions, and programs of any size.      *)
(* First the nesting of statements and their contexts (Safe), then, on top *)
(* of it, where each jump is recorded and where it lands (JumpInv).        *)
(***************************************************************************)
EXTENDS StatementCompiler, SequenceTheorems, FiniteSetTheorems, TLAPS

\* Induction up to a number, for a set: with n outside of I, adding 1 would be an
\* injection of the finite set I into itself that misses 0.
LEMMA ReachesEnd ==
    ASSUME NEW n \in Nat, NEW I \in SUBSET (0..n), 0 \in I,
           \A k \in I : k < n => k + 1 \in I
    PROVE  n \in I
<1> SUFFICES ASSUME n \notin I PROVE FALSE
  OBVIOUS
<1> DEFINE f == [k \in I |-> k + 1]
<1>1. \A k \in I : k \in Nat /\ k < n
  OBVIOUS
<1>2. f \in Injection(I, I)
  <2>1. f \in [I -> I]
    BY <1>1
  <2>2. \A a, b \in I : f[a] = f[b] => a = b
    BY <1>1
  <2> QED
    BY <2>1, <2>2 DEF Injection, IsInjective
<1>3. IsFiniteSet(I)
  <2>1. IsFiniteSet(0..n)
    BY FS_Interval
  <2> QED
    BY <2>1, FS_Subset
<1>4. f \in Surjection(I, I)
  BY <1>2, <1>3, FS_Injection
<1>5. PICK k \in I : f[k] = 0
  BY <1>4 DEF Surjection
<1> QED
  BY <1>1, <1>5

-----------------------------------------------------------------------------
(* The statement parsers: contexts.                                        *)

ContextKinds == LoopKinds \cup {"switch"}
Flavours == {"plain fn", "async", "generator", "method"}
Frame ==
    [kind : {"while", "do"}, id : Ids, ctx : Nat, start : Nat]
    \cup [kind : {"for"}, id : Ids, ctx : Nat, start : Nat, inc : {"none", "known", "dropped"}]
    \cup [kind : {"switch"}, id : Ids, ctx : Nat]
    \cup [kind : {"if", "else", "class"}, id : Ids]
    \cup [kind : {"try"}, id : Ids, part : {"try", "catch", "finally"}]
    \cup [kind : {"fn"}, id : Ids, flavour : Flavours, async : {0, 1}, generator : {0, 1}]
LoopContext == [breaks : Seq(Nat), continues : Seq(Nat), id : Nat]

\* Statements are numbered as they begin, and all of them nest.
FrameInv ==
    /\ made \in 0..MaxStatements
    /\ frames \in Seq(Frame)
    /\ \A i \in 1..Len(frames) : frames[i].id <= made
    /\ \A i, j \in 1..Len(frames) : i < j => frames[i].id < frames[j].id
    /\ panic \in {"yes", "no"} /\ (panic = "yes" => errors # {})

\* The frames that hold a context, in the order of their contexts; each context
\* belongs to its frame, and without an error every context in use to a frame.
ContextInv ==
    /\ loop_stack \in [0..MaxDepth - 1 -> LoopContext]
    /\ loop_depth \in Nat /\ (panic = "no" => loop_depth <= MaxDepth)
    /\ \A i \in Open(ContextKinds) : /\ frames[i].ctx < loop_depth /\ frames[i].ctx < MaxDepth
                                     /\ loop_stack[frames[i].ctx].id = frames[i].id
    /\ \A i, j \in Open(ContextKinds) : i < j => frames[i].ctx < frames[j].ctx
    /\ errors = {} => /\ \A d \in 0..loop_depth - 1 : \E i \in Open(ContextKinds) : frames[i].ctx = d
                      /\ loop_depth = Cardinality(Open(ContextKinds))

TryInv ==
    /\ exception_depth \in Int
    /\ errors = {} => exception_depth = Cardinality(Open({"try"}))

\* The flag as the frames up to n say it is.
Flag(n, flavour) ==
    IF \E i \in 1..n : frames[i].kind = "fn" /\ frames[i].flavour = flavour THEN 1 ELSE 0

FlagInv ==
    /\ async = Flag(Len(frames), "async") /\ generator = Flag(Len(frames), "generator")
    /\ \A i \in 1..Len(frames) : frames[i].kind = "fn" =>
         /\ frames[i].async = Flag(i - 1, "async")
         /\ frames[i].generator = Flag(i - 1, "generator")

\* Each kind of frame has its fields.
LEMMA FrameFields ==
    ASSUME NEW f \in Frame
    PROVE  /\ f.id \in Ids /\ f.id \in Nat
           /\ f.kind \in {"while", "do", "for", "switch", "if", "else", "class", "try", "fn"}
           /\ f.kind \in ContextKinds => f.ctx \in Nat
           /\ f.kind \in LoopKinds => f.start \in Nat
           /\ f.kind = "for" => f.inc \in {"none", "known", "dropped"}
           /\ f.kind = "try" => f.part \in {"try", "catch", "finally"}
           /\ f.kind = "fn" => f.flavour \in Flavours /\ f.async \in {0, 1} /\ f.generator \in {0, 1}
<1> USE DEF ContextKinds, LoopKinds
<1>1. Ids \subseteq Nat
  BY StatementAssumption DEF Ids
<1>2. CASE f \in [kind : {"while", "do"}, id : Ids, ctx : Nat, start : Nat]
  BY <1>1, <1>2
<1>3. CASE f \in [kind : {"for"}, id : Ids, ctx : Nat, start : Nat, inc : {"none", "known", "dropped"}]
  BY <1>1, <1>3
<1>4. CASE f \in [kind : {"switch"}, id : Ids, ctx : Nat]
  BY <1>1, <1>4
<1>5. CASE f \in [kind : {"if", "else", "class"}, id : Ids]
  BY <1>1, <1>5
<1>6. CASE f \in [kind : {"try"}, id : Ids, part : {"try", "catch", "finally"}]
  BY <1>1, <1>6
<1>7. CASE f \in [kind : {"fn"}, id : Ids, flavour : Flavours, async : {0, 1}, generator : {0, 1}]
  BY <1>1, <1>7
<1> QED
  BY <1>2, <1>3, <1>4, <1>5, <1>6, <1>7 DEF Frame

\* What a step does to the frames.
Grows(f) == f \in Frame /\ frames' = Append(frames, f)
Shrinks == frames # <<>> /\ frames' = Front(frames)
Relabels(f) == f \in Frame /\ frames # <<>> /\ frames' = Append(Front(frames), f)

LEMMA FrontIs ==
    ASSUME NEW s \in Seq(Frame), s # <<>>
    PROVE  /\ Len(s) \in Nat \ {0} /\ Last(s) = s[Len(s)] /\ Last(s) \in Frame
           /\ Front(s) \in Seq(Frame) /\ Len(Front(s)) = Len(s) - 1
           /\ \A i \in 1..(Len(s) - 1) : Front(s)[i] = s[i]
<1>1. Len(s) \in Nat \ {0} /\ s \in [1..Len(s) -> Frame]
  BY EmptySeq, LenProperties
<1>2. PICK n \in Nat \ {0} : n = Len(s)
  BY <1>1
<1>3. \A i \in 1..(n - 1) : s[i] \in Frame
  BY <1>1, <1>2
<1>4. Front(s) = SubSeq(s, 1, n - 1)
  BY <1>2 DEF Front
<1>5. n - 1 \in Int /\ 1 \in Int
  BY <1>2
<1>6. /\ SubSeq(s, 1, n - 1) \in Seq(Frame)
      /\ Len(SubSeq(s, 1, n - 1)) = IF 1 <= n - 1 THEN n - 1 - 1 + 1 ELSE 0
      /\ \A i \in 1..(n - 1 - 1 + 1) : SubSeq(s, 1, n - 1)[i] = s[1 + i - 1]
  BY <1>3, <1>5, SubSeqProperties
<1>7. Len(SubSeq(s, 1, n - 1)) = n - 1 /\ \A i \in 1..(n - 1) : SubSeq(s, 1, n - 1)[i] = s[i]
  BY <1>2, <1>6
<1>8. n \in 1..n /\ s[n] \in Frame
  BY <1>1, <1>2
<1> QED
  BY <1>1, <1>2, <1>4, <1>6, <1>7, <1>8 DEF Last

LEMMA FramesAre ==
    ASSUME frames \in Seq(Frame)
    PROVE  /\ Len(frames) \in Nat /\ DOMAIN frames = 1..Len(frames)
           /\ \A i \in 1..Len(frames) : frames[i] \in Frame
           /\ frames # <<>> => /\ Len(frames) \in Nat \ {0} /\ Len(frames) \in 1..Len(frames)
                               /\ Top = frames[Len(frames)] /\ Top \in Frame
<1>1. Len(frames) \in Nat /\ DOMAIN frames = 1..Len(frames) /\ \A i \in 1..Len(frames) : frames[i] \in Frame
  BY LenProperties
<1>2. ASSUME frames # <<>>
      PROVE  Len(frames) \in Nat \ {0} /\ Top = frames[Len(frames)] /\ Top \in Frame
  BY <1>2, FrontIs DEF Top
<1> QED
  BY <1>1, <1>2

LEMMA GrownIs ==
    ASSUME frames \in Seq(Frame), NEW f, Grows(f), NEW n, n = Len(frames)
    PROVE  /\ n \in Nat /\ frames' \in Seq(Frame) /\ Len(frames') = n + 1 /\ DOMAIN frames' = 1..(n + 1)
           /\ frames'[n + 1] = f /\ \A i \in 1..n : frames'[i] = frames[i]
<1>1. Len(frames) \in Nat
  BY LenProperties
<1>2. /\ frames' \in Seq(Frame) /\ Len(frames') = n + 1
      /\ frames'[n + 1] = f /\ \A i \in 1..n : frames'[i] = frames[i]
  BY AppendProperties DEF Grows
<1>3. DOMAIN frames' = 1..Len(frames')
  BY <1>2, LenProperties
<1> QED
  BY <1>1, <1>2, <1>3

LEMMA ShrunkIs ==
    ASSUME frames \in Seq(Frame), Shrinks, NEW n, n = Len(frames)
    PROVE  /\ n \in Nat \ {0} /\ Top = frames[n] /\ Top \in Frame
           /\ frames' \in Seq(Frame) /\ Len(frames') = n - 1 /\ DOMAIN frames' = 1..(n - 1)
           /\ \A i \in 1..(n - 1) : frames'[i] = frames[i]
<1>1. frames # <<>> /\ frames' = Front(frames)
  BY DEF Shrinks
<1>2. /\ n \in Nat \ {0} /\ Top = frames[n] /\ Top \in Frame
      /\ frames' \in Seq(Frame) /\ Len(frames') = n - 1
      /\ \A i \in 1..(n - 1) : frames'[i] = frames[i]
  BY <1>1, FrontIs DEF Top
<1>3. DOMAIN frames' = 1..Len(frames')
  BY <1>2, LenProperties
<1> QED
  BY <1>2, <1>3

LEMMA RelabelledIs ==
    ASSUME frames \in Seq(Frame), NEW f, Relabels(f), NEW n, n = Len(frames)
    PROVE  /\ n \in Nat \ {0} /\ Top = frames[n] /\ Top \in Frame
           /\ frames' \in Seq(Frame) /\ Len(frames') = n /\ DOMAIN frames' = 1..n
           /\ frames'[n] = f /\ \A i \in 1..(n - 1) : frames'[i] = frames[i]
<1>1. frames # <<>> /\ frames' = Append(Front(frames), f) /\ f \in Frame
  BY DEF Relabels
<1> DEFINE s == Front(frames)
<1>2. /\ n \in Nat \ {0} /\ Top = frames[n] /\ Top \in Frame
      /\ s \in Seq(Frame) /\ Len(s) = n - 1
      /\ \A i \in 1..(n - 1) : s[i] = frames[i]
  BY <1>1, FrontIs DEF Top
<1> HIDE DEF s
<1>3. /\ frames' \in Seq(Frame) /\ Len(frames') = Len(s) + 1
      /\ frames'[Len(s) + 1] = f /\ \A i \in 1..Len(s) : frames'[i] = s[i]
  BY <1>1, <1>2, AppendProperties DEF s
<1>4. DOMAIN frames' = 1..Len(frames')
  BY <1>3, LenProperties
<1>5. Len(s) + 1 = n
  BY <1>2
<1> QED
  BY <1>2, <1>3, <1>4, <1>5

-----------------------------------------------------------------------------
LEMMA OpenFinite ==
    ASSUME frames \in Seq(Frame), NEW K
    PROVE  Open(K) \in SUBSET (1..Len(frames)) /\ IsFiniteSet(Open(K)) /\ Cardinality(Open(K)) \in Nat
<1>1. Len(frames) \in Nat /\ DOMAIN frames = 1..Len(frames)
  BY LenProperties
<1>2. IsFiniteSet(1..Len(frames))
  BY <1>1, FS_Interval
<1>3. Open(K) \in SUBSET (1..Len(frames))
  BY <1>1 DEF Open
<1>4. IsFiniteSet(Open(K))
  BY <1>2, <1>3, FS_Subset
<1> QED
  BY <1>3, <1>4, FS_CardinalityType

LEMMA OpenGrown ==
    ASSUME frames \in Seq(Frame), NEW f, Grows(f), NEW K
    PROVE  /\ Open(K)' = IF f.kind \in K THEN Open(K) \cup {Len(frames) + 1} ELSE Open(K)
           /\ Cardinality(Open(K)') = Cardinality(Open(K)) + IF f.kind \in K THEN 1 ELSE 0
<1>1. PICK n : n = Len(frames)
  OBVIOUS
<1>2. /\ n \in Nat /\ DOMAIN frames = 1..n /\ DOMAIN frames' = 1..(n + 1) /\ frames'[n + 1] = f
      /\ \A i \in 1..n : frames'[i] = frames[i]
  BY <1>1, GrownIs, LenProperties
<1>3. \A i : i \in 1..(n + 1) <=> i \in 1..n \/ i = n + 1
  BY <1>2
<1>4. n + 1 \notin 1..n
  BY <1>2
<1>5. Open(K)' = IF f.kind \in K THEN Open(K) \cup {n + 1} ELSE Open(K)
  BY <1>2, <1>3, <1>4 DEF Open
<1>6. Open(K) \in SUBSET (1..n) /\ IsFiniteSet(Open(K)) /\ Cardinality(Open(K)) \in Nat
  BY <1>1, OpenFinite
<1>7. Cardinality(Open(K) \cup {n + 1}) = Cardinality(Open(K)) + 1
  BY <1>4, <1>6, FS_AddElement
<1> QED
  BY <1>1, <1>5, <1>6, <1>7

LEMMA OpenShrunk ==
    ASSUME frames \in Seq(Frame), Shrinks, NEW K
    PROVE  /\ Open(K)' = Open(K) \ {Len(frames)}
           /\ Len(frames) \in Open(K) <=> Top.kind \in K
           /\ Cardinality(Open(K)') = Cardinality(Open(K)) - IF Top.kind \in K THEN 1 ELSE 0
<1>1. PICK n : n = Len(frames)
  OBVIOUS
<1>2. /\ n \in Nat \ {0} /\ DOMAIN frames = 1..n /\ DOMAIN frames' = 1..(n - 1) /\ Top = frames[n]
      /\ \A i \in 1..(n - 1) : frames'[i] = frames[i]
  BY <1>1, ShrunkIs, LenProperties
<1>3. \A i : i \in 1..n <=> i \in 1..(n - 1) \/ i = n
  BY <1>2
<1>4. n \notin 1..(n - 1)
  BY <1>2
<1>5. Open(K)' = Open(K) \ {n}
  BY <1>2, <1>3, <1>4 DEF Open
<1>6. n \in Open(K) <=> Top.kind \in K
  BY <1>2, <1>3 DEF Open
<1>7. IsFiniteSet(Open(K)) /\ Cardinality(Open(K)) \in Nat
  BY OpenFinite
<1>8. CASE Top.kind \in K
  <2>1. Cardinality(Open(K) \ {n}) = Cardinality(Open(K)) - 1
    BY <1>6, <1>7, <1>8, FS_RemoveElement
  <2> QED
    BY <1>1, <1>5, <1>6, <1>8, <2>1
<1>9. CASE Top.kind \notin K
  <2>1. Open(K)' = Open(K)
    BY <1>5, <1>6, <1>9
  <2>2. Cardinality(Open(K)') = Cardinality(Open(K)) - 0
    BY <1>7, <2>1
  <2> QED
    BY <1>1, <1>5, <1>6, <1>9, <2>2
<1> QED
  BY <1>8, <1>9

LEMMA OpenRelabelled ==
    ASSUME frames \in Seq(Frame), NEW f, Relabels(f), NEW K, f.kind \in K <=> Top.kind \in K
    PROVE  Open(K)' = Open(K)
<1>1. PICK n : n = Len(frames)
  OBVIOUS
<1>2. /\ n \in Nat \ {0} /\ DOMAIN frames = 1..n /\ DOMAIN frames' = 1..n /\ Top = frames[n] /\ frames'[n] = f
      /\ \A i \in 1..(n - 1) : frames'[i] = frames[i]
  BY <1>1, RelabelledIs, LenProperties
<1>3. \A i : i \in 1..n <=> i \in 1..(n - 1) \/ i = n
  BY <1>2
<1> QED
  BY <1>2, <1>3 DEF Open

-----------------------------------------------------------------------------
\* What a step is to the statement frames and contexts: it enters a statement,
\* leaves one, goes to the next part of one, or stays in it.
ErrorsKept ==
    /\ errors \subseteq errors' /\ panic' \in {"yes", "no"}
    /\ panic' = "yes" => panic = "yes" \/ errors' # {}
    /\ panic = "yes" => panic' = "yes"
SameContexts ==
    /\ loop_depth' = loop_depth /\ loop_stack' \in [0..MaxDepth - 1 -> LoopContext]
    /\ \A d \in 0..MaxDepth - 1 : loop_stack'[d].id = loop_stack[d].id

Entered(f) ==
    /\ Grows(f) /\ f.id = Now /\ made < MaxStatements /\ made' = Now /\ ErrorsKept
    /\ \/ f.kind \notin ContextKinds /\ SameContexts
       \/ /\ f.kind \in ContextKinds /\ f.ctx = loop_depth /\ loop_depth < MaxDepth
          /\ loop_depth' = loop_depth + 1
          /\ \E c \in LoopContext : c.id = Now /\ loop_stack' = [loop_stack EXCEPT ![loop_depth] = c]
    /\ exception_depth' = exception_depth + IF f.kind = "try" THEN 1 ELSE 0
    /\ f.kind = "fn" => f.async = async /\ f.generator = generator
    /\ async' = IF f.kind = "fn" /\ f.flavour = "async" THEN 1 ELSE async
    /\ generator' = IF f.kind = "fn" /\ f.flavour = "generator" THEN 1 ELSE generator

Left ==
    /\ Shrinks /\ made' = made /\ ErrorsKept /\ loop_stack' = loop_stack
    /\ \/ Top.kind \notin ContextKinds /\ loop_depth' = loop_depth
       \/ Top.kind \in ContextKinds /\ loop_depth' = loop_depth /\ errors' # {}
       \/ Top.kind \in ContextKinds /\ loop_depth' = loop_depth - 1
    /\ exception_depth' \in Int
    /\ errors' = {} => exception_depth' = exception_depth - IF Top.kind = "try" THEN 1 ELSE 0
    /\ async' = IF Top.kind = "fn" /\ Top.flavour = "async" THEN Top.async ELSE async
    /\ generator' = IF Top.kind = "fn" /\ Top.flavour = "generator" THEN Top.generator ELSE generator

PartKinds == {"if", "else", "try"}
Continued(f) ==
    /\ Relabels(f) /\ f.id = Top.id /\ made' = made /\ ErrorsKept /\ SameContexts
    /\ {f.kind, Top.kind} \subseteq PartKinds /\ (f.kind = "try" <=> Top.kind = "try")
    /\ UNCHANGED <<exception_depth, async, generator>>

Stayed ==
    /\ frames' = frames /\ made' \in {made, Now} /\ made' <= MaxStatements /\ ErrorsKept
    /\ \/ SameContexts
       \/ loop_depth' = loop_depth + 1 /\ loop_stack' = loop_stack /\ panic' = "yes" /\ errors' # {}
    /\ UNCHANGED <<exception_depth, async, generator>>

Nesting == Stayed \/ Left \/ (\E f : Entered(f)) \/ (\E f : Continued(f))

NestInv == FrameInv /\ ContextInv /\ TryInv /\ FlagInv

LEMMA KindSets ==
    /\ ContextKinds = {"while", "do", "for", "switch"} /\ LoopKinds = {"while", "do", "for"}
    /\ \A k \in PartKinds : k \notin ContextKinds /\ k # "fn"
BY DEF ContextKinds, LoopKinds, PartKinds

LEMMA NumbersAre ==
    MaxStatements \in Nat /\ MaxDepth \in Nat /\ MaxOffset \in Nat /\ Ids = 1..MaxStatements
BY StatementAssumption DEF Ids

LEMMA FrameStep == ASSUME FrameInv, Nesting PROVE FrameInv'
<1> DEFINE n == Len(frames)
<1>1. frames \in Seq(Frame) /\ made \in Nat /\ made <= MaxStatements /\ n \in Nat
  BY LenProperties, NumbersAre DEF FrameInv
<1>2. \A i \in 1..n : frames[i].id \in Nat /\ frames[i].id <= made
  BY <1>1, FramesAre, FrameFields DEF FrameInv
<1>3. \A i, j \in 1..n : i < j => frames[i].id < frames[j].id
  BY DEF FrameInv
<1>4. ErrorsKept
  BY DEF Nesting, Stayed, Left, Entered, Continued
<1>5. panic' \in {"yes", "no"} /\ (panic' = "yes" => errors' # {})
  BY <1>4 DEF ErrorsKept, FrameInv
<1> HIDE DEF n
<1>6. CASE Stayed
  <2>1. frames' = frames /\ made' \in {made, made + 1} /\ made' <= MaxStatements
    BY <1>6 DEF Stayed, Now
  <2>2. made' \in 0..MaxStatements /\ \A i \in 1..n : frames[i].id <= made'
    BY <1>1, <1>2, <2>1, NumbersAre
  <2> QED
    BY <1>1, <1>3, <1>5, <2>1, <2>2 DEF FrameInv, n
<1>7. CASE Left
  <2>1. Shrinks /\ made' = made
    BY <1>7 DEF Left
  <2>2. /\ n \in Nat \ {0} /\ frames' \in Seq(Frame) /\ Len(frames') = n - 1
        /\ \A i \in 1..(n - 1) : frames'[i] = frames[i]
    BY <1>1, <2>1, ShrunkIs DEF n
  <2>3. \A i \in 1..(n - 1) : i \in 1..n
    BY <2>2
  <2> QED
    BY <1>2, <1>3, <1>5, <2>1, <2>2, <2>3 DEF FrameInv
<1>8. ASSUME NEW f, Entered(f) PROVE FrameInv'
  <2>1. Grows(f) /\ f.id = made + 1 /\ made' = made + 1 /\ made < MaxStatements
    BY <1>8 DEF Entered, Now
  <2>2. /\ frames' \in Seq(Frame) /\ Len(frames') = n + 1 /\ frames'[n + 1] = f
        /\ \A i \in 1..n : frames'[i] = frames[i]
    BY <1>1, <2>1, GrownIs DEF n
  <2>3. \A i \in 1..(n + 1) : i \in 1..n \/ i = n + 1
    BY <1>1
  <2>4. made' \in 0..MaxStatements
    BY <1>1, <2>1, NumbersAre
  <2>5. \A i \in 1..(n + 1) : frames'[i].id \in Nat /\ frames'[i].id <= made'
    BY <1>1, <1>2, <2>1, <2>2, <2>3
  <2>6. ASSUME NEW i \in 1..(n + 1), NEW j \in 1..(n + 1), i < j PROVE frames'[i].id < frames'[j].id
    <3>1. i \in 1..n
      BY <1>1, <2>6
    <3>2. CASE j \in 1..n
      BY <1>3, <2>2, <2>6, <3>1, <3>2
    <3>3. CASE j = n + 1
      <4>1. frames'[i].id = frames[i].id /\ frames'[j].id = made + 1
        BY <2>1, <2>2, <3>1, <3>3
      <4> QED
        BY <1>1, <1>2, <3>1, <4>1
    <3> QED
      BY <2>3, <3>2, <3>3
  <2> QED
    BY <1>5, <2>2, <2>4, <2>5, <2>6 DEF FrameInv
<1>9. ASSUME NEW f, Continued(f) PROVE FrameInv'
  <2>1. Relabels(f) /\ f.id = Top.id /\ made' = made
    BY <1>9 DEF Continued
  <2>2. /\ n \in Nat \ {0} /\ Top = frames[n] /\ frames' \in Seq(Frame) /\ Len(frames') = n /\ frames'[n] = f
        /\ \A i \in 1..(n - 1) : frames'[i] = frames[i]
    BY <1>1, <2>1, RelabelledIs DEF n
  <2>3. \A i \in 1..n : i \in 1..(n - 1) \/ i = n
    BY <2>2
  <2>4. \A i \in 1..n : frames'[i].id = frames[i].id
    BY <2>1, <2>2, <2>3
  <2> QED
    BY <1>2, <1>3, <1>5, <2>1, <2>2, <2>4 DEF FrameInv
<1> QED
  BY <1>6, <1>7, <1>8, <1>9 DEF Nesting

LEMMA ContextStep == ASSUME FrameInv, ContextInv, Nesting PROVE ContextInv'
<1> DEFINE n == Len(frames)
           O == Open(ContextKinds)
<1>1. /\ frames \in Seq(Frame) /\ n \in Nat /\ O \in SUBSET (1..n)
      /\ MaxDepth \in Nat /\ loop_stack \in [0..MaxDepth - 1 -> LoopContext] /\ loop_depth \in Nat
      /\ Cardinality(O) \in Nat
  BY LenProperties, NumbersAre, OpenFinite DEF FrameInv, ContextInv
<1>2. \A i \in O : /\ frames[i].ctx \in Nat /\ frames[i].ctx < loop_depth /\ frames[i].ctx < MaxDepth
                   /\ loop_stack[frames[i].ctx].id = frames[i].id
  <2>1. \A i \in O : frames[i] \in Frame /\ frames[i].kind \in ContextKinds
    BY <1>1, FramesAre DEF Open
  <2> QED
    BY <2>1, FrameFields DEF ContextInv
<1>3. \A i, j \in O : i < j => frames[i].ctx < frames[j].ctx
  BY DEF ContextInv
<1>4. errors = {} => /\ \A d \in 0..loop_depth - 1 : \E i \in O : frames[i].ctx = d
                     /\ loop_depth = Cardinality(O)
  BY DEF ContextInv
<1>5. ErrorsKept
  BY DEF Nesting, Stayed, Left, Entered, Continued
<1>6. (panic' = "no" => panic = "no" /\ loop_depth <= MaxDepth) /\ (errors' = {} => errors = {})
  BY <1>5 DEF ErrorsKept, FrameInv, ContextInv
<1>7. ASSUME O' = O, \A i \in O : frames'[i] = frames[i], SameContexts PROVE ContextInv'
  <2>1. loop_depth' = loop_depth /\ loop_stack' \in [0..MaxDepth - 1 -> LoopContext]
    BY <1>7 DEF SameContexts
  <2>2. \A i \in O : loop_stack'[frames[i].ctx].id = frames[i].id
    <3>1. \A i \in O : frames[i].ctx \in 0..MaxDepth - 1
      BY <1>1, <1>2
    <3> QED
      BY <1>2, <1>7, <3>1 DEF SameContexts
  <2> HIDE DEF O
  <2>3. ContextInv' <=>
          /\ loop_stack' \in [0..MaxDepth - 1 -> LoopContext]
          /\ loop_depth' \in Nat /\ (panic' = "no" => loop_depth' <= MaxDepth)
          /\ \A i \in O' : /\ frames'[i].ctx < loop_depth' /\ frames'[i].ctx < MaxDepth
                           /\ loop_stack'[frames'[i].ctx].id = frames'[i].id
          /\ \A i, j \in O' : i < j => frames'[i].ctx < frames'[j].ctx
          /\ errors' = {} => /\ \A d \in 0..loop_depth' - 1 : \E i \in O' : frames'[i].ctx = d
                             /\ loop_depth' = Cardinality(O')
    BY DEF ContextInv, O
  <2> QED
    BY <1>1, <1>2, <1>3, <1>4, <1>6, <1>7, <2>1, <2>2, <2>3
<1> HIDE DEF n
<1>8. CASE Stayed
  <2>1. frames' = frames
    BY <1>8 DEF Stayed
  <2>2. O' = O
    BY <2>1 DEF Open
  <2>3. CASE SameContexts
    BY <1>7, <2>1, <2>2, <2>3
  <2>4. CASE loop_depth' = loop_depth + 1 /\ loop_stack' = loop_stack /\ panic' = "yes" /\ errors' # {}
    <3> HIDE DEF O
    <3>1. /\ loop_depth' \in Nat /\ loop_stack' \in [0..MaxDepth - 1 -> LoopContext]
          /\ \A i \in O' : frames'[i].ctx < loop_depth' /\ frames'[i].ctx < MaxDepth
      BY <1>1, <1>2, <2>1, <2>2, <2>4
    <3>2. /\ \A i \in O' : loop_stack'[frames'[i].ctx].id = frames'[i].id
          /\ \A i, j \in O' : i < j => frames'[i].ctx < frames'[j].ctx
      BY <1>2, <1>3, <2>1, <2>2, <2>4
    <3> QED
      BY <2>4, <3>1, <3>2 DEF ContextInv, O
  <2> QED
    BY <1>8, <2>3, <2>4 DEF Stayed
<1>9. CASE Left
  <2>1. Shrinks /\ loop_stack' = loop_stack
    BY <1>9 DEF Left
  <2>2. /\ n \in Nat \ {0} /\ Top = frames[n] /\ \A i \in 1..(n - 1) : frames'[i] = frames[i]
        /\ O' = O \ {n} /\ (n \in O <=> Top.kind \in ContextKinds)
        /\ Cardinality(O') = Cardinality(O) - IF Top.kind \in ContextKinds THEN 1 ELSE 0
    BY <1>1, <2>1, ShrunkIs, OpenShrunk DEF n
  <2>3. \A i \in O' : i \in O /\ i \in 1..(n - 1) /\ i < n /\ frames'[i] = frames[i]
    <3>1. \A i \in 1..n : i # n => i \in 1..(n - 1) /\ i < n
      BY <1>1
    <3> HIDE DEF O
    <3> QED
      BY <1>1, <2>2, <3>1
  <2> HIDE DEF O
  <2>4. CASE Top.kind \notin ContextKinds
    <3>1. loop_depth' = loop_depth /\ O' = O
      BY <1>9, <2>2, <2>4 DEF Left
    <3>2. SameContexts
      BY <1>1, <2>1, <3>1 DEF SameContexts
    <3> QED
      BY <1>7, <2>3, <3>1, <3>2
  <2>5. CASE Top.kind \in ContextKinds
    <3>1. n \in O
      BY <2>2, <2>5
    <3>2. \A i \in O' : frames[i].ctx < frames[n].ctx
      BY <1>3, <2>3, <3>1
    <3>3. \A i \in O' : /\ frames'[i].ctx \in Nat /\ frames'[i].ctx < loop_depth - 1 /\ frames'[i].ctx < MaxDepth
                        /\ loop_stack'[frames'[i].ctx].id = frames'[i].id
      <4> SUFFICES ASSUME NEW i \in O'
                   PROVE  /\ frames'[i].ctx \in Nat /\ frames'[i].ctx < loop_depth - 1 /\ frames'[i].ctx < MaxDepth
                          /\ loop_stack'[frames'[i].ctx].id = frames'[i].id
        OBVIOUS
      <4>1. i \in O /\ frames'[i] = frames[i] /\ frames[i].ctx < frames[n].ctx
        BY <2>3, <3>2
      <4>2. frames[i].ctx \in Nat /\ frames[n].ctx \in Nat /\ frames[n].ctx < loop_depth /\ frames[i].ctx < MaxDepth
        BY <1>2, <3>1, <4>1
      <4>3. loop_depth \in Nat
        BY <1>1
      <4>4. frames[i].ctx < loop_depth - 1
        BY <4>1, <4>2, <4>3
      <4>5. loop_stack[frames[i].ctx].id = frames[i].id
        BY <1>2, <4>1
      <4> QED
        BY <2>1, <4>1, <4>2, <4>4, <4>5
    <3>4. \A i, j \in O' : i < j => frames'[i].ctx < frames'[j].ctx
      BY <1>3, <2>3
    <3>5. CASE loop_depth' = loop_depth /\ errors' # {}
      <4>1. \A i \in O' : frames'[i].ctx < loop_depth'
        BY <1>1, <3>3, <3>5
      <4> QED
        BY <1>1, <1>6, <2>1, <3>3, <3>4, <3>5, <4>1 DEF ContextInv, O
    <3>6. CASE loop_depth' = loop_depth - 1
      <4>1. loop_depth' \in Nat /\ (panic' = "no" => loop_depth' <= MaxDepth)
        BY <1>1, <1>2, <1>6, <3>1, <3>6
      <4>2. ASSUME errors' = {}
            PROVE  /\ \A d \in 0..loop_depth' - 1 : \E i \in O' : frames'[i].ctx = d
                   /\ loop_depth' = Cardinality(O')
        <5>1. errors = {} /\ loop_depth = Cardinality(O) /\ loop_depth' = Cardinality(O')
          BY <1>1, <1>4, <1>6, <2>2, <2>5, <3>6, <4>2
        <5>2. frames[n].ctx = loop_depth - 1
          <6>1. loop_depth - 1 \in 0..loop_depth - 1
            BY <1>1, <1>2, <3>1
          <6>2. PICK i \in O : frames[i].ctx = loop_depth - 1
            BY <1>4, <5>1, <6>1
          <6>3. i = n \/ i \in O'
            BY <2>2
          <6>4. i \notin O'
            BY <1>1, <1>2, <2>3, <3>3, <6>2
          <6> QED
            BY <6>2, <6>3, <6>4
        <5>3. ASSUME NEW d \in 0..loop_depth' - 1 PROVE \E i \in O' : frames'[i].ctx = d
          <6>1. d \in 0..loop_depth - 1 /\ d # loop_depth - 1
            BY <1>1, <3>6, <4>1
          <6>2. PICK i \in O : frames[i].ctx = d
            BY <1>4, <5>1, <6>1
          <6>3. i \in O'
            BY <2>2, <5>2, <6>1, <6>2
          <6> QED
            BY <2>3, <6>2, <6>3
        <5> QED
          BY <5>1, <5>3
      <4>3. \A i \in O' : frames'[i].ctx < loop_depth'
        BY <3>3, <3>6
      <4> QED
        BY <1>1, <2>1, <3>3, <3>4, <4>1, <4>2, <4>3 DEF ContextInv, O
    <3> QED
      BY <1>9, <2>5, <3>5, <3>6 DEF Left
  <2> QED
    BY <2>4, <2>5
<1>10. ASSUME NEW f, Entered(f) PROVE ContextInv'
  <2>1. Grows(f)
    BY <1>10 DEF Entered
  <2>2. /\ frames'[n + 1] = f /\ \A i \in 1..n : frames'[i] = frames[i]
        /\ O' = IF f.kind \in ContextKinds THEN O \cup {n + 1} ELSE O
        /\ Cardinality(O') = Cardinality(O) + IF f.kind \in ContextKinds THEN 1 ELSE 0
    BY <1>1, <2>1, GrownIs, OpenGrown DEF n
  <2>3. \A i \in O : i \in 1..n /\ i < n + 1 /\ frames'[i] = frames[i]
    <3>1. \A i \in 1..n : i < n + 1
      BY <1>1
    <3> HIDE DEF O
    <3> QED
      BY <1>1, <2>2, <3>1
  <2> HIDE DEF O
  <2>4. CASE f.kind \notin ContextKinds
    <3>1. O' = O /\ SameContexts
      BY <1>10, <2>2, <2>4 DEF Entered
    <3> QED
      BY <1>7, <2>3, <3>1
  <2>5. CASE f.kind \in ContextKinds
    <3>1. /\ f.ctx = loop_depth /\ loop_depth < MaxDepth /\ loop_depth' = loop_depth + 1 /\ f.id = Now
          /\ \E c \in LoopContext : c.id = Now /\ loop_stack' = [loop_stack EXCEPT ![loop_depth] = c]
      BY <1>10, <2>5 DEF Entered
    <3>2. PICK c \in LoopContext : c.id = Now /\ loop_stack' = [loop_stack EXCEPT ![loop_depth] = c]
      BY <3>1
    <3>3. loop_depth \in 0..MaxDepth - 1
      BY <1>1, <3>1
    <3>4. /\ loop_stack' \in [0..MaxDepth - 1 -> LoopContext] /\ loop_stack'[loop_depth].id = f.id
          /\ \A d \in 0..MaxDepth - 1 : d # loop_depth => loop_stack'[d] = loop_stack[d]
      BY <1>1, <3>1, <3>2, <3>3
    <3>5. O' = O \cup {n + 1} /\ Cardinality(O') = Cardinality(O) + 1
      BY <2>2, <2>5
    <3>6. \A i \in O' : /\ frames'[i].ctx < loop_depth' /\ frames'[i].ctx < MaxDepth
                        /\ loop_stack'[frames'[i].ctx].id = frames'[i].id
      <4>1. ASSUME NEW i \in O PROVE /\ frames'[i].ctx < loop_depth' /\ frames'[i].ctx < MaxDepth
                                     /\ loop_stack'[frames'[i].ctx].id = frames'[i].id
        <5>1. frames[i].ctx \in 0..MaxDepth - 1 /\ frames[i].ctx # loop_depth /\ frames[i].ctx < loop_depth + 1
          BY <1>1, <1>2
        <5> QED
          BY <1>2, <2>3, <3>1, <3>4, <5>1
      <4>2. /\ f.ctx < loop_depth' /\ f.ctx < MaxDepth /\ loop_stack'[f.ctx].id = f.id
        BY <1>1, <3>1, <3>4
      <4> QED
        BY <2>2, <3>5, <4>1, <4>2
    <3>7. ASSUME NEW i \in O', NEW j \in O', i < j PROVE frames'[i].ctx < frames'[j].ctx
      <4>1. i \in O
        BY <1>1, <2>3, <3>5, <3>7
      <4>2. CASE j \in O
        BY <1>3, <2>3, <3>7, <4>1, <4>2
      <4>3. CASE j = n + 1
        BY <1>2, <2>2, <2>3, <3>1, <4>1, <4>3
      <4> QED
        BY <3>5, <4>2, <4>3
    <3>8. ASSUME errors' = {}
          PROVE  /\ \A d \in 0..loop_depth' - 1 : \E i \in O' : frames'[i].ctx = d
                 /\ loop_depth' = Cardinality(O')
      <4>1. errors = {} /\ loop_depth = Cardinality(O)
        BY <1>4, <1>6, <3>8
      <4>2. ASSUME NEW d \in 0..loop_depth' - 1 PROVE \E i \in O' : frames'[i].ctx = d
        <5>1. d \in 0..loop_depth - 1 \/ d = loop_depth
          BY <1>1, <3>1
        <5>2. CASE d = loop_depth
          BY <2>2, <3>1, <3>5, <5>2
        <5>3. CASE d \in 0..loop_depth - 1
          BY <1>4, <2>3, <3>5, <4>1, <5>3
        <5> QED
          BY <5>1, <5>2, <5>3
      <4> QED
        BY <3>1, <3>5, <4>1, <4>2
    <3>9. loop_depth' \in Nat /\ (panic' = "no" => loop_depth' <= MaxDepth)
      BY <1>1, <3>1
    <3> QED
      BY <3>4, <3>6, <3>7, <3>8, <3>9 DEF ContextInv, O
  <2> QED
    BY <2>4, <2>5
<1>11. ASSUME NEW f, Continued(f) PROVE ContextInv'
  <2>1. Relabels(f) /\ SameContexts /\ f.kind \notin ContextKinds /\ Top.kind \notin ContextKinds
    BY <1>11, KindSets DEF Continued
  <2>2. /\ Top = frames[n] /\ \A i \in 1..(n - 1) : frames'[i] = frames[i] /\ n \in Nat \ {0}
        /\ O' = O
    BY <1>1, <2>1, RelabelledIs, OpenRelabelled DEF n
  <2>3. n \notin O
    BY <2>1, <2>2 DEF Open
  <2>4. \A i \in O : frames'[i] = frames[i]
    <3>1. \A i \in 1..n : i # n => i \in 1..(n - 1)
      BY <1>1
    <3> HIDE DEF O
    <3> QED
      BY <1>1, <2>2, <2>3, <3>1
  <2> QED
    BY <1>7, <2>1, <2>2, <2>4
<1> QED
  BY <1>8, <1>9, <1>10, <1>11 DEF Nesting

LEMMA TryStep == ASSUME FrameInv, TryInv, Nesting PROVE TryInv'
<1> DEFINE K == {"try"}
<1>1. frames \in Seq(Frame) /\ exception_depth \in Int /\ Cardinality(Open(K)) \in Nat
  BY OpenFinite DEF FrameInv, TryInv
<1>2. errors = {} => exception_depth = Cardinality(Open(K))
  BY DEF TryInv
<1>3. errors' = {} => errors = {}
  BY DEF Nesting, Stayed, Left, Entered, Continued, ErrorsKept
<1>4. CASE Stayed
  <2>1. Open(K)' = Open(K) /\ exception_depth' = exception_depth
    BY <1>4 DEF Stayed, Open
  <2> QED
    BY <1>1, <1>2, <1>3, <2>1 DEF TryInv
<1>5. CASE Left
  <2>1. Cardinality(Open(K)') = Cardinality(Open(K)) - IF Top.kind \in K THEN 1 ELSE 0
    BY <1>1, <1>5, OpenShrunk DEF Left
  <2>2. /\ exception_depth' \in Int
        /\ errors' = {} => exception_depth' = exception_depth - IF Top.kind \in K THEN 1 ELSE 0
    BY <1>5 DEF Left
  <2> HIDE DEF K
  <2>3. errors' = {} => exception_depth' = Cardinality(Open(K)')
    BY <1>1, <1>2, <1>3, <2>1, <2>2
  <2> QED
    BY <2>2, <2>3 DEF TryInv, K
<1>6. ASSUME NEW f, Entered(f) PROVE TryInv'
  <2>1. Cardinality(Open(K)') = Cardinality(Open(K)) + IF f.kind \in K THEN 1 ELSE 0
    BY <1>1, <1>6, OpenGrown DEF Entered
  <2>2. exception_depth' = exception_depth + IF f.kind \in K THEN 1 ELSE 0
    BY <1>6 DEF Entered
  <2> HIDE DEF K
  <2>3. exception_depth' \in Int /\ (errors' = {} => exception_depth' = Cardinality(Open(K)'))
    BY <1>1, <1>2, <1>3, <2>1, <2>2
  <2> QED
    BY <2>3 DEF TryInv, K
<1>7. ASSUME NEW f, Continued(f) PROVE TryInv'
  <2>1. Relabels(f) /\ (f.kind \in K <=> Top.kind \in K) /\ exception_depth' = exception_depth
    BY <1>7 DEF Continued
  <2> HIDE DEF K
  <2>2. Open(K)' = Open(K)
    BY <1>1, <2>1, OpenRelabelled
  <2> QED
    BY <1>1, <1>2, <1>3, <2>1, <2>2 DEF TryInv, K
<1> QED
  BY <1>4, <1>5, <1>6, <1>7 DEF Nesting

\* The flag depends only on the frames up to n; one more frame sets it or not.
LEMMA FlagIs ==
    ASSUME NEW n \in Nat, NEW flavour
    PROVE  /\ Flag(n, flavour) \in {0, 1}
           /\ (\A i \in 1..n : frames'[i] = frames[i]) => Flag(n, flavour)' = Flag(n, flavour)
           /\ n # 0 => Flag(n, flavour) = IF frames[n].kind = "fn" /\ frames[n].flavour = flavour
                                          THEN 1 ELSE Flag(n - 1, flavour)
<1>1. n # 0 => \A i : i \in 1..n <=> i \in 1..(n - 1) \/ i = n
  OBVIOUS
<1>2. n # 0 => Flag(n, flavour) = IF frames[n].kind = "fn" /\ frames[n].flavour = flavour
                                  THEN 1 ELSE Flag(n - 1, flavour)
  BY <1>1 DEF Flag
<1> QED
  BY <1>2 DEF Flag

SavedFlags(n) ==
    \A i \in 1..n : frames[i].kind = "fn" =>
        /\ frames[i].async = Flag(i - 1, "async")
        /\ frames[i].generator = Flag(i - 1, "generator")

LEMMA SavedFlagsKept ==
    ASSUME NEW n \in Nat, \A i \in 1..n : frames'[i] = frames[i], SavedFlags(n)
    PROVE  SavedFlags(n)'
<1> SUFFICES ASSUME NEW i \in 1..n, frames[i].kind = "fn"
             PROVE  /\ frames'[i].async = Flag(i - 1, "async")'
                    /\ frames'[i].generator = Flag(i - 1, "generator")'
  BY DEF SavedFlags
<1>1. i - 1 \in Nat /\ \A k \in 1..(i - 1) : frames'[k] = frames[k]
  OBVIOUS
<1>2. /\ Flag(i - 1, "async")' = Flag(i - 1, "async")
      /\ Flag(i - 1, "generator")' = Flag(i - 1, "generator")
  BY <1>1, FlagIs
<1> QED
  BY <1>2 DEF SavedFlags

LEMMA FlagStep == ASSUME FrameInv, FlagInv, Nesting PROVE FlagInv'
<1>0. PICK n : n = Len(frames)
  OBVIOUS
<1>1. frames \in Seq(Frame) /\ n \in Nat
  BY <1>0, LenProperties DEF FrameInv
<1>2. async = Flag(n, "async") /\ generator = Flag(n, "generator") /\ SavedFlags(n)
  BY <1>0 DEF FlagInv, SavedFlags
<1>3. CASE Stayed
  <2>1. frames' = frames /\ async' = async /\ generator' = generator
    BY <1>3 DEF Stayed
  <2> QED
    BY <2>1 DEF FlagInv, Flag
<1>4. CASE Left
  <2>1. Shrinks
    BY <1>4 DEF Left
  <2>2. /\ n \in Nat \ {0} /\ Top = frames[n] /\ Len(frames') = n - 1
        /\ \A i \in 1..(n - 1) : frames'[i] = frames[i]
    BY <1>0, <1>1, <2>1, ShrunkIs
  <2>3. n - 1 \in Nat /\ n \in 1..n /\ \A i \in 1..(n - 1) : i \in 1..n
    BY <2>2
  <2>4. /\ Flag(n - 1, "async")' = Flag(n - 1, "async")
        /\ Flag(n - 1, "generator")' = Flag(n - 1, "generator")
    BY <2>2, <2>3, FlagIs
  <2>5. /\ Flag(n, "async") = IF Top.kind = "fn" /\ Top.flavour = "async" THEN 1 ELSE Flag(n - 1, "async")
        /\ Flag(n, "generator") = IF Top.kind = "fn" /\ Top.flavour = "generator" THEN 1 ELSE Flag(n - 1, "generator")
    BY <2>2, FlagIs
  <2>6. Top.kind = "fn" => Top.async = Flag(n - 1, "async") /\ Top.generator = Flag(n - 1, "generator")
    BY <1>2, <2>2, <2>3 DEF SavedFlags
  <2>7. async' = Flag(n - 1, "async")' /\ generator' = Flag(n - 1, "generator")'
    BY <1>2, <1>4, <2>4, <2>5, <2>6 DEF Left
  <2>8. SavedFlags(n - 1)
    BY <1>2, <2>3 DEF SavedFlags
  <2>9. SavedFlags(n - 1)'
    BY <2>2, <2>3, <2>8, SavedFlagsKept
  <2> QED
    BY <2>2, <2>7, <2>9 DEF FlagInv, SavedFlags
<1>5. ASSUME NEW f, Entered(f) PROVE FlagInv'
  <2>1. Grows(f)
    BY <1>5 DEF Entered
  <2>2. Len(frames') = n + 1 /\ frames'[n + 1] = f /\ \A i \in 1..n : frames'[i] = frames[i]
    BY <1>0, <1>1, <2>1, GrownIs
  <2>3. Flag(n, "async")' = Flag(n, "async") /\ Flag(n, "generator")' = Flag(n, "generator")
    BY <1>1, <2>2, FlagIs
  <2>4. n + 1 \in Nat /\ n + 1 # 0 /\ n + 1 - 1 = n
    BY <1>1
  <2>5. ASSUME NEW flavour
        PROVE  Flag(n + 1, flavour)' = IF f.kind = "fn" /\ f.flavour = flavour THEN 1 ELSE Flag(n, flavour)'
    <3>1. \A i : i \in 1..(n + 1) <=> i \in 1..n \/ i = n + 1
      BY <1>1
    <3> QED
      BY <2>2, <3>1 DEF Flag
  <2>6. async' = Flag(n + 1, "async")' /\ generator' = Flag(n + 1, "generator")'
    BY <1>2, <1>5, <2>3, <2>5 DEF Entered
  <2>7. SavedFlags(n)'
    BY <1>1, <1>2, <2>2, SavedFlagsKept
  <2>8. f.kind = "fn" => f.async = Flag(n, "async")' /\ f.generator = Flag(n, "generator")'
    BY <1>2, <1>5, <2>3 DEF Entered
  <2>9. SavedFlags(n + 1)'
    <3> SUFFICES ASSUME NEW i \in 1..(n + 1), frames'[i].kind = "fn"
                 PROVE  /\ frames'[i].async = Flag(i - 1, "async")'
                        /\ frames'[i].generator = Flag(i - 1, "generator")'
      BY DEF SavedFlags
    <3>1. CASE i \in 1..n
      BY <2>7, <3>1 DEF SavedFlags
    <3>2. CASE i = n + 1
      <4>1. i - 1 = n /\ frames'[i] = f
        BY <1>1, <2>2, <3>2
      <4> QED
        BY <2>8, <4>1
    <3> QED
      BY <1>1, <3>1, <3>2
  <2> QED
    BY <2>2, <2>6, <2>9 DEF FlagInv, SavedFlags
<1>6. ASSUME NEW f, Continued(f) PROVE FlagInv'
  <2>1. Relabels(f) /\ f.kind # "fn" /\ Top.kind # "fn" /\ async' = async /\ generator' = generator
    BY <1>6, KindSets DEF Continued
  <2>2. /\ n \in Nat \ {0} /\ Top = frames[n] /\ Len(frames') = n /\ frames'[n] = f
        /\ \A i \in 1..(n - 1) : frames'[i] = frames[i]
    BY <1>0, <1>1, <2>1, RelabelledIs
  <2>3. n - 1 \in Nat /\ \A i : i \in 1..n <=> i \in 1..(n - 1) \/ i = n
    BY <2>2
  <2>4. ASSUME NEW flavour PROVE Flag(n, flavour)' = Flag(n, flavour)
    BY <2>1, <2>2, <2>3 DEF Flag
  <2>5. SavedFlags(n - 1)
    BY <1>2, <2>3 DEF SavedFlags
  <2>6. SavedFlags(n - 1)'
    BY <2>2, <2>3, <2>5, SavedFlagsKept
  <2>7. SavedFlags(n)'
    BY <2>1, <2>2, <2>3, <2>6 DEF SavedFlags
  <2> QED
    BY <1>2, <2>1, <2>2, <2>4, <2>7 DEF FlagInv, SavedFlags
<1> QED
  BY <1>3, <1>4, <1>5, <1>6 DEF Nesting

LEMMA NestStep == ASSUME NestInv, Nesting PROVE NestInv'
BY FrameStep, ContextStep, TryStep, FlagStep DEF NestInv

LEMMA NestInvInit == StatementInit => NestInv
<1> SUFFICES ASSUME StatementInit PROVE NestInv
  OBVIOUS
<1>1. frames = <<>> /\ frames \in Seq(Frame) /\ Len(frames) = 0 /\ DOMAIN frames = {}
  BY DEF StatementInit
<1>2. \A K : Open(K) = {}
  BY <1>1 DEF Open
<1>3. Cardinality({}) = 0
  BY FS_EmptySet
<1>4. FrameInv
  BY <1>1, NumbersAre DEF FrameInv, StatementInit
<1>5. loop_stack \in [0..MaxDepth - 1 -> LoopContext]
  BY DEF StatementInit, NoContext, LoopContext
<1>6. ContextInv
  <2>1. 0..0 - 1 = {}
    OBVIOUS
  <2>2. loop_depth = 0 /\ errors = {}
    BY DEF StatementInit
  <2>3. Open(ContextKinds) = {} /\ MaxDepth \in Nat
    BY <1>2, NumbersAre
  <2> QED
    BY <1>3, <1>5, <2>1, <2>2, <2>3 DEF ContextInv
<1>7. TryInv
  BY <1>2, <1>3 DEF TryInv, StatementInit
<1>8. FlagInv
  BY <1>1 DEF FlagInv, Flag, StatementInit
<1> QED
  BY <1>4, <1>6, <1>7, <1>8 DEF NestInv

LEMMA NestInvImplies == NestInv => ContextsBalanced
<1> SUFFICES ASSUME NestInv PROVE ContextsBalanced
  OBVIOUS
<1>1. frames \in Seq(Frame) /\ DOMAIN frames = 1..Len(frames)
  BY LenProperties DEF NestInv, FrameInv
<1>2. /\ async = IF HasFlavour("async") THEN 1 ELSE 0
      /\ generator = IF HasFlavour("generator") THEN 1 ELSE 0
  BY <1>1 DEF NestInv, FlagInv, Flag, HasFlavour, FunctionFrames
<1> QED
  BY <1>2 DEF NestInv, ContextInv, TryInv, ContextsBalanced, ContextKinds

-----------------------------------------------------------------------------
\* What a step writes: bytes at the ends of chunks.
Chunks == {0} \cup Ids
Written == count' \in [Chunks -> Nat] /\ \A c \in Chunks : count[c] <= count'[c]
CountInv == count \in [Chunks -> Nat]

LEMMA LargestIs ==
    ASSUME NEW n \in Nat, NEW S \in SUBSET (1..n), S # {}
    PROVE  Max(S) \in S /\ \A y \in S : y <= Max(S)
<1>1. \E x \in S : \A y \in S : x >= y
  <2> SUFFICES ASSUME ~\E x \in S : \A y \in S : x >= y PROVE FALSE
    OBVIOUS
  <2>0. ASSUME NEW x \in S PROVE \E y \in S : x < y
    <3>1. PICK y \in S : ~(x >= y)
      OBVIOUS
    <3>2. x \in Int /\ y \in Int
      OBVIOUS
    <3> QED
      BY <3>1, <3>2
  <2> DEFINE I == {k \in 0..n : \E y \in S : k < y}
  <2>1. 0 \in I
    <3>1. PICK y \in S : TRUE
      OBVIOUS
    <3>2. y \in 1..n /\ 0 \in 0..n
      OBVIOUS
    <3>3. 0 < y
      BY <3>2
    <3> QED
      BY <3>2, <3>3
  <2>2. ASSUME NEW k \in I, k < n PROVE k + 1 \in I
    <3>1. PICK y \in S : k < y
      OBVIOUS
    <3>2. k \in Nat /\ y \in Nat
      OBVIOUS
    <3>3. CASE y = k + 1
      <4>1. PICK z \in S : y < z
        BY <2>0
      <4> QED
        BY <2>2, <3>2, <3>3, <4>1
    <3>4. CASE y # k + 1
      BY <2>2, <3>1, <3>2, <3>4
    <3> QED
      BY <3>3, <3>4
  <2>3. I \in SUBSET (0..n)
    OBVIOUS
  <2> HIDE DEF I
  <2>4. n \in I
    BY <2>1, <2>2, <2>3, ReachesEnd
  <2>5. PICK y \in S : n < y
    BY <2>4 DEF I
  <2> QED
    BY <2>5
<1>2. Max(S) \in S /\ \A y \in S : Max(S) >= y
  BY <1>1 DEF Max
<1> QED
  BY <1>2

LEMMA InnermostIdIs ==
    ASSUME FrameInv, NEW S \in SUBSET (1..Len(frames))
    PROVE  /\ InnermostId(S) \in Chunks
           /\ S # {} => /\ Max(S) \in S /\ (\A y \in S : y <= Max(S))
                        /\ InnermostId(S) = frames[Max(S)].id /\ InnermostId(S) # 0
<1>1. Len(frames) \in Nat
  BY LenProperties DEF FrameInv
<1>2. S # {} => Max(S) \in S /\ (\A y \in S : y <= Max(S))
  BY <1>1, LargestIs
<1>3. \A i \in 1..Len(frames) : frames[i].id \in Ids
  BY FramesAre, FrameFields DEF FrameInv
<1>4. 0 \notin Ids
  BY NumbersAre
<1> QED
  BY <1>2, <1>3, <1>4 DEF InnermostId, Chunks

LEMMA ChunkIs == ASSUME FrameInv, CountInv PROVE Chunk \in Chunks /\ Here \in Nat /\ Here = count[Chunk]
<1>1. FunctionFrames \in SUBSET (1..Len(frames))
  BY LenProperties DEF FrameInv, FunctionFrames
<1>2. Chunk \in Chunks
  BY <1>1, InnermostIdIs DEF Chunk
<1> QED
  BY <1>2 DEF CountInv, Here

LEMMA Wrote ==
    ASSUME CountInv, NEW c \in Chunks, NEW v \in Nat, count[c] <= v, count' = [count EXCEPT ![c] = v]
    PROVE  Written
BY DEF Written, CountInv

LEMMA WroteNothing == ASSUME CountInv, count' = count PROVE Written
BY DEF Written, CountInv

LEMMA WroteBytes ==
    ASSUME FrameInv, CountInv, NEW k \in Nat, count' = [count EXCEPT ![Chunk] = @ + k]
    PROVE  Written
<1>1. Chunk \in Chunks /\ Here \in Nat /\ Here = count[Chunk]
  BY ChunkIs
<1>2. Here + k \in Nat /\ Here <= Here + k
  BY <1>1
<1>3. count' = [count EXCEPT ![Chunk] = Here + k]
  BY <1>1
<1> QED
  BY <1>1, <1>2, <1>3, Wrote

LEMMA Quiet ==
    ASSUME FrameInv, errors' = errors, panic' = panic
    PROVE  ErrorsKept
BY DEF ErrorsKept, FrameInv

LEMMA Reported ==
    ASSUME FrameInv, NEW e, Report(e), panic' \in {panic, "yes"}
    PROVE  ErrorsKept /\ errors' # {}
BY DEF ErrorsKept, FrameInv, Report

\* A new statement has a new number.
LEMMA BeginsIs ==
    ASSUME FrameInv, RoomLeft
    PROVE  made < MaxStatements /\ Now = made + 1 /\ Now \in Ids /\ Now \in Nat /\ Now <= MaxStatements
<1>1. made < MaxStatements
  BY StatementAssumption DEF RoomLeft, FrameInv
<1> QED
  BY <1>1, NumbersAre DEF FrameInv, Now

LEMMA UnchangedContexts == ASSUME ContextInv, UNCHANGED <<loop_stack, loop_depth>> PROVE SameContexts
BY DEF ContextInv, SameContexts

LEMMA GiveUpStays ==
    ASSUME NestInv, NEW e, GiveUp(e), RoomLeft, made' = Now,
           \/ loop_depth' = loop_depth
           \/ loop_depth' = loop_depth + 1 /\ panic' = "yes",
           UNCHANGED <<exception_depth, async, generator>>
    PROVE  Stayed
<1>1. ErrorsKept /\ errors' # {} /\ panic' = "yes" /\ frames' = frames /\ loop_stack' = loop_stack
  BY Reported DEF GiveUp, NestInv
<1>2. made' <= MaxStatements
  BY BeginsIs DEF NestInv
<1>3. loop_depth' = loop_depth => SameContexts
  BY <1>1, UnchangedContexts DEF NestInv
<1> QED
  BY <1>1, <1>2, <1>3 DEF Stayed

\* A loop or a switch enters with a context of its own.
LEMMA ContextEnters ==
    ASSUME NestInv, NEW f \in Frame, f.kind \in ContextKinds, f.id = Now, f.ctx = loop_depth,
           loop_depth < MaxDepth, loop_depth' = loop_depth + 1, RoomLeft, made' = Now, Push(f),
           NEW c \in LoopContext, c.id = Now, loop_stack' = [loop_stack EXCEPT ![loop_depth] = c],
           UNCHANGED <<exception_depth, async, generator>>
    PROVE  Entered(f)
<1>1. Grows(f) /\ ErrorsKept /\ made < MaxStatements
  BY Quiet, BeginsIs DEF Push, Grows, NestInv
<1>2. f.kind # "fn" /\ f.kind # "try" /\ exception_depth \in Int
  BY KindSets DEF NestInv, TryInv
<1>3. exception_depth' = exception_depth + IF f.kind = "try" THEN 1 ELSE 0
  BY <1>2
<1>4. \E d \in LoopContext : d.id = Now /\ loop_stack' = [loop_stack EXCEPT ![loop_depth] = d]
  OBVIOUS
<1> QED
  BY <1>1, <1>2, <1>3, <1>4 DEF Entered

\* Any other statement enters with the contexts as they are.
LEMMA OtherEnters ==
    ASSUME NestInv, NEW f \in Frame, f.kind \notin ContextKinds, f.kind # "fn", f.id = Now,
           RoomLeft, made' = Now, Push(f), UNCHANGED <<loop_stack, loop_depth, async, generator>>,
           exception_depth' = exception_depth + IF f.kind = "try" THEN 1 ELSE 0
    PROVE  Entered(f)
<1>1. Grows(f) /\ ErrorsKept /\ made < MaxStatements /\ SameContexts
  BY Quiet, BeginsIs, UnchangedContexts DEF Push, Grows, NestInv
<1> QED
  BY <1>1 DEF Entered

LEMMA Leaves ==
    ASSUME NestInv, frames # <<>>, Top.kind # "fn", Pop, ErrorsKept,
           \/ Top.kind \notin ContextKinds /\ loop_depth' = loop_depth
           \/ Top.kind \in ContextKinds /\ loop_depth' = loop_depth /\ errors' # {}
           \/ Top.kind \in ContextKinds /\ loop_depth' = loop_depth - 1,
           UNCHANGED <<made, loop_stack, async, generator>>,
           \/ Top.kind # "try" /\ exception_depth' = exception_depth
           \/ Top.kind = "try" /\ exception_depth' = exception_depth - 1
           \/ exception_depth' = exception_depth /\ errors' # {}
    PROVE  Left
<1>1. Shrinks /\ exception_depth \in Int
  BY DEF Pop, Shrinks, NestInv, TryInv
<1> QED
  BY <1>1 DEF Left

-----------------------------------------------------------------------------
\* Every action is one of these steps.
Safe == NestInv /\ CountInv
Kept == Nesting /\ Written

LEMMA FreshContextIs == ASSUME FrameInv, RoomLeft PROVE FreshContext \in LoopContext /\ FreshContext.id = Now
<1>1. <<>> \in Seq(Nat) /\ Now \in Nat
  BY BeginsIs
<1>2. FreshContext = [breaks |-> <<>>, continues |-> <<>>, id |-> Now]
  BY DEF FreshContext, NoContext
<1> QED
  BY <1>1, <1>2 DEF LoopContext

LEMMA StartsHere == ASSUME Safe PROVE Chunk \in Chunks /\ Here \in Nat /\ Here = count[Chunk]
BY ChunkIs DEF Safe, NestInv

LEMMA WroteUpTo ==
    ASSUME Safe, NEW v \in Nat, Here <= v, count' = [count EXCEPT ![Chunk] = v]
    PROVE  Written
BY StartsHere, Wrote DEF Safe

LEMMA PlainKept == ASSUME Safe, NEW n \in Nat, Plain(n) PROVE Kept
<1>1. RoomLeft /\ ErrorsKept /\ SameContexts
  BY Quiet, UnchangedContexts DEF Plain, CanBegin, Safe, NestInv
<1>2. made' <= MaxStatements
  BY <1>1, BeginsIs DEF Plain, Safe, NestInv
<1>3. Stayed
  BY <1>1, <1>2 DEF Plain, Stayed
<1>4. Written
  BY WroteBytes DEF Plain, Safe, NestInv
<1> QED
  BY <1>3, <1>4 DEF Kept, Nesting

LEMMA ExportKept == ASSUME Safe, Export PROVE Kept
<1>1. RoomLeft /\ ErrorsKept /\ SameContexts
  BY Reported, UnchangedContexts DEF Export, CanBegin, Safe, NestInv
<1>2. made' <= MaxStatements
  BY <1>1, BeginsIs DEF Export, Safe, NestInv
<1>3. Stayed
  BY <1>1, <1>2 DEF Export, Stayed
<1>4. Written
  BY WroteNothing DEF Export, Safe
<1> QED
  BY <1>3, <1>4 DEF Kept, Nesting

\* Recording a jump in a context leaves the context to its statement.
LEMMA Noted ==
    ASSUME ContextInv, NEW d \in 0..MaxDepth - 1, NEW list \in {"breaks", "continues"}, NEW a \in Nat,
           loop_stack' = [loop_stack EXCEPT ![d][list] = Append(@, a)], loop_depth' = loop_depth
    PROVE  SameContexts
<1>1. PICK c \in LoopContext : c = loop_stack[d]
  BY DEF ContextInv
<1>2. loop_stack' = [loop_stack EXCEPT ![d] = [c EXCEPT ![list] = Append(c[list], a)]]
  BY <1>1
<1>3. c[list] \in Seq(Nat)
  BY DEF LoopContext
<1>4. Append(c[list], a) \in Seq(Nat)
  BY <1>3, AppendProperties
<1>5. [c EXCEPT ![list] = Append(c[list], a)] \in LoopContext /\ [c EXCEPT ![list] = Append(c[list], a)].id = c.id
  BY <1>4 DEF LoopContext
<1> HIDE DEF LoopContext
<1> QED
  BY <1>1, <1>2, <1>5 DEF SameContexts, ContextInv

LEMMA LeaveKept ==
    ASSUME Safe, NEW kind, NEW list \in {"breaks", "continues"}, NEW owners, Leave(kind, list, owners)
    PROVE  Kept
<1>1. RoomLeft /\ panic = "no" /\ made' = Now
  BY DEF Leave, CanBegin
<1>0. loop_depth \in Nat /\ loop_depth <= MaxDepth /\ MaxDepth \in Nat
  BY <1>1, NumbersAre DEF Safe, NestInv, ContextInv
<1>2. made' <= MaxStatements
  BY <1>1, BeginsIs DEF Safe, NestInv
<1>3. CASE loop_depth <= 0 /\ Report("outside") /\ UNCHANGED <<count, jumps, loop_stack>>
  <2>1. ErrorsKept /\ SameContexts
    BY <1>3, Reported, UnchangedContexts DEF Leave, Safe, NestInv
  <2>2. Stayed
    BY <1>1, <1>2, <2>1 DEF Leave, Stayed
  <2> QED
    BY <1>3, <2>2, WroteNothing DEF Kept, Nesting, Safe
<1>4. CASE ~(loop_depth <= 0 /\ Report("outside") /\ UNCHANGED <<count, jumps, loop_stack>>)
  <2> DEFINE room == Len(loop_stack[loop_depth - 1][list]) < MaxJumps
  <2>0. loop_depth > 0
    BY <1>4 DEF Leave
  <2>1. /\ count' = [count EXCEPT ![Chunk] = @ + 2]
        /\ loop_stack' = IF room THEN [loop_stack EXCEPT ![loop_depth - 1][list] = Append(@, Here + 1)]
                         ELSE loop_stack
        /\ IF room THEN UNCHANGED errors ELSE Report("too many")
    BY <1>4 DEF Leave
  <2> HIDE DEF room
  <2>2. loop_depth - 1 \in 0..MaxDepth - 1
    BY <1>0, <2>0
  <2>3. Here + 1 \in Nat
    BY StartsHere
  <2>4. loop_depth' = loop_depth /\ panic' = panic
    BY DEF Leave
  <2>5. SameContexts
    <3>1. CASE room
      BY <2>1, <2>2, <2>3, <2>4, <3>1, Noted DEF Safe, NestInv
    <3>2. CASE ~room
      BY <2>1, <2>4, <3>2, UnchangedContexts DEF Safe, NestInv
    <3> QED
      BY <3>1, <3>2
  <2>6. ErrorsKept
    BY <2>1, <2>4, Quiet, Reported DEF Safe, NestInv
  <2>7. Stayed
    BY <1>1, <1>2, <2>5, <2>6 DEF Leave, Stayed
  <2>8. Written
    BY <2>1, WroteBytes DEF Safe, NestInv
  <2> QED
    BY <2>7, <2>8 DEF Kept, Nesting
<1> QED
  BY <1>3, <1>4

LEMMA BeginWhileKept == ASSUME Safe, NEW n \in Nat, BeginWhile(n) PROVE Kept
<1>1. RoomLeft /\ made' = Now /\ UNCHANGED <<exception_depth, async, generator>>
  BY DEF BeginWhile, CanBegin
<1>2. CASE GiveUp("depth") /\ UNCHANGED loop_depth
  <2>1. Stayed
    BY <1>1, <1>2, GiveUpStays DEF Safe
  <2> QED
    BY <1>2, <2>1, WroteNothing DEF Kept, Nesting, Safe, GiveUp
<1>3. CASE ~(GiveUp("depth") /\ UNCHANGED loop_depth)
  <2> DEFINE f == [kind |-> "while", id |-> Now, ctx |-> loop_depth, start |-> Here]
  <2>1. /\ loop_depth < MaxDepth /\ Push(f) /\ loop_stack' = [loop_stack EXCEPT ![loop_depth] = FreshContext]
        /\ loop_depth' = loop_depth + 1 /\ count' = [count EXCEPT ![Chunk] = @ + n + 2]
    BY <1>3 DEF BeginWhile
  <2>2. f \in Frame /\ f.kind \in ContextKinds /\ f.id = Now /\ f.ctx = loop_depth
    BY <1>1, BeginsIs, StartsHere, KindSets DEF Frame, Safe, NestInv, ContextInv
  <2> HIDE DEF f
  <2>3. Entered(f)
    BY <1>1, <2>1, <2>2, FreshContextIs, ContextEnters DEF Safe, NestInv
  <2>4. Written
    <3>1. Here + n + 2 \in Nat /\ Here <= Here + n + 2
      BY StartsHere
    <3>2. count' = [count EXCEPT ![Chunk] = Here + n + 2]
      BY <2>1, StartsHere
    <3> QED
      BY <3>1, <3>2, WroteUpTo
  <2> QED
    BY <2>3, <2>4 DEF Kept, Nesting
<1> QED
  BY <1>2, <1>3

LEMMA BeginDoKept == ASSUME Safe, BeginDo PROVE Kept
<1>1. RoomLeft /\ made' = Now /\ UNCHANGED <<exception_depth, async, generator>>
  BY DEF BeginDo, CanBegin
<1>2. CASE GiveUp("depth") /\ UNCHANGED loop_depth
  <2>1. Stayed
    BY <1>1, <1>2, GiveUpStays DEF Safe
  <2> QED
    BY <1>2, <2>1, WroteNothing DEF Kept, Nesting, Safe, GiveUp
<1>3. CASE ~(GiveUp("depth") /\ UNCHANGED loop_depth)
  <2> DEFINE f == [kind |-> "do", id |-> Now, ctx |-> loop_depth, start |-> Here]
  <2>1. /\ loop_depth < MaxDepth /\ Push(f) /\ loop_stack' = [loop_stack EXCEPT ![loop_depth] = FreshContext]
        /\ loop_depth' = loop_depth + 1 /\ count' = count
    BY <1>3 DEF BeginDo
  <2>2. f \in Frame /\ f.kind \in ContextKinds /\ f.id = Now /\ f.ctx = loop_depth
    BY <1>1, BeginsIs, StartsHere, KindSets DEF Frame, Safe, NestInv, ContextInv
  <2> HIDE DEF f
  <2>3. Entered(f)
    BY <1>1, <2>1, <2>2, FreshContextIs, ContextEnters DEF Safe, NestInv
  <2> QED
    BY <2>1, <2>3, WroteNothing DEF Kept, Nesting, Safe
<1> QED
  BY <1>2, <1>3

LEMMA BeginForKept ==
    ASSUME Safe, NEW n \in Nat, NEW inc \in {"none", "known", "dropped"}, BeginFor(0, n, inc)
    PROVE  Kept
<1>1. RoomLeft /\ made' = Now /\ loop_depth' = loop_depth + 1 /\ UNCHANGED <<exception_depth, async, generator>>
  BY DEF BeginFor, CanBegin
<1>2. CASE GiveUp("depth")
  <2>1. Stayed
    BY <1>1, <1>2, GiveUpStays DEF Safe, GiveUp
  <2> QED
    BY <1>2, <2>1, WroteNothing DEF Kept, Nesting, Safe, GiveUp
<1>3. CASE ~GiveUp("depth")
  <2> DEFINE f == [kind |-> "for", id |-> Now, ctx |-> loop_depth, start |-> Here + 0, inc |-> inc]
             k == Here + 0 + n + (IF n = 0 THEN 0 ELSE 2)
  <2>1. /\ loop_depth' <= MaxDepth /\ Push(f) /\ loop_stack' = [loop_stack EXCEPT ![loop_depth] = FreshContext]
        /\ count' = [count EXCEPT ![Chunk] = @ + 0 + n + (IF n = 0 THEN 0 ELSE 2)]
    BY <1>3 DEF BeginFor
  <2>2. f \in Frame /\ f.kind \in ContextKinds /\ f.id = Now /\ f.ctx = loop_depth
    BY <1>1, BeginsIs, StartsHere, KindSets DEF Frame, Safe, NestInv, ContextInv
  <2>3. loop_depth < MaxDepth
    BY <1>1, <2>1, NumbersAre DEF Safe, NestInv, ContextInv
  <2>4. k \in Nat /\ Here <= k
    BY StartsHere
  <2>7. count' = [count EXCEPT ![Chunk] = k]
    BY <2>1, StartsHere
  <2> HIDE DEF f, k
  <2>5. Entered(f)
    BY <1>1, <2>1, <2>2, <2>3, FreshContextIs, ContextEnters DEF Safe, NestInv
  <2>6. Written
    BY <2>4, <2>7, WroteUpTo
  <2> QED
    BY <2>5, <2>6 DEF Kept, Nesting
<1> QED
  BY <1>2, <1>3

LEMMA BeginSwitchKept == ASSUME Safe, NEW n \in Nat, BeginSwitch(n) PROVE Kept
<1>1. /\ RoomLeft /\ made' = Now /\ UNCHANGED <<exception_depth, async, generator>>
      /\ count' = [count EXCEPT ![Chunk] = @ + n]
  BY DEF BeginSwitch, CanBegin
<1>2. Written
  BY <1>1, WroteBytes DEF Safe, NestInv
<1>3. CASE Report("depth") /\ panic' = "yes" /\ UNCHANGED <<frames, loop_stack, loop_depth>>
  <2>1. ErrorsKept /\ SameContexts
    BY <1>3, Reported, UnchangedContexts DEF Safe, NestInv
  <2>2. made' <= MaxStatements
    BY <1>1, BeginsIs DEF Safe, NestInv
  <2>3. Stayed
    BY <1>1, <1>3, <2>1, <2>2 DEF Stayed
  <2> QED
    BY <1>2, <2>3 DEF Kept, Nesting
<1>4. CASE ~(Report("depth") /\ panic' = "yes" /\ UNCHANGED <<frames, loop_stack, loop_depth>>)
  <2> DEFINE f == [kind |-> "switch", id |-> Now, ctx |-> loop_depth]
             c == [loop_stack[loop_depth] EXCEPT !.breaks = <<>>, !.id = Now]
  <2>1. /\ loop_depth < MaxDepth /\ Push(f) /\ loop_depth' = loop_depth + 1
        /\ loop_stack' = [loop_stack EXCEPT ![loop_depth] = [@ EXCEPT !.breaks = <<>>, !.id = Now]]
    BY <1>4 DEF BeginSwitch
  <2>2. f \in Frame /\ f.kind \in ContextKinds /\ f.id = Now /\ f.ctx = loop_depth
    BY <1>1, BeginsIs, KindSets DEF Frame, Safe, NestInv, ContextInv
  <2>3. loop_depth \in 0..MaxDepth - 1 /\ loop_stack \in [0..MaxDepth - 1 -> LoopContext]
    BY <2>1, NumbersAre DEF Safe, NestInv, ContextInv
  <2>4. loop_stack[loop_depth] \in LoopContext /\ Now \in Nat
    BY <1>1, <2>3, BeginsIs DEF Safe, NestInv
  <2>5. c \in LoopContext /\ c.id = Now
    <3>1. PICK b \in LoopContext : b = loop_stack[loop_depth]
      BY <2>4
    <3>2. <<>> \in Seq(Nat)
      OBVIOUS
    <3> QED
      BY <2>4, <3>1, <3>2 DEF LoopContext
  <2>6. loop_stack' = [loop_stack EXCEPT ![loop_depth] = c]
    BY <2>1, <2>3
  <2> HIDE DEF f, c
  <2>7. Entered(f)
    BY <1>1, <2>1, <2>2, <2>5, <2>6, ContextEnters DEF Safe, NestInv
  <2> QED
    BY <1>2, <2>7 DEF Kept, Nesting
<1> QED
  BY <1>3, <1>4

LEMMA BeginIfKept == ASSUME Safe, NEW n \in Nat, BeginIf(n) PROVE Kept
<1> DEFINE f == [kind |-> "if", id |-> Now]
<1>1. /\ RoomLeft /\ made' = Now /\ UNCHANGED <<exception_depth, loop_stack, loop_depth, async, generator>>
      /\ count' = [count EXCEPT ![Chunk] = @ + n + 2] /\ Push(f)
  BY DEF BeginIf, CanBegin
<1>2. f \in Frame /\ f.kind \notin ContextKinds /\ f.kind # "fn" /\ f.kind # "try" /\ f.id = Now
  BY <1>1, BeginsIs, KindSets DEF Frame, Safe, NestInv
<1>3. exception_depth' = exception_depth + IF f.kind = "try" THEN 1 ELSE 0
  BY <1>1, <1>2 DEF Safe, NestInv, TryInv
<1> HIDE DEF f
<1>4. Entered(f)
  BY <1>1, <1>2, <1>3, OtherEnters DEF Safe
<1>5. Here + n + 2 \in Nat /\ Here <= Here + n + 2
  BY StartsHere
<1>6. count' = [count EXCEPT ![Chunk] = Here + n + 2]
  BY <1>1, StartsHere
<1>7. Written
  BY <1>5, <1>6, WroteUpTo
<1> QED
  BY <1>4, <1>7 DEF Kept, Nesting

LEMMA BeginClassKept == ASSUME Safe, NEW n \in Nat, BeginClass(n) PROVE Kept
<1> DEFINE f == [kind |-> "class", id |-> Now]
<1>1. /\ RoomLeft /\ made' = Now /\ UNCHANGED <<exception_depth, loop_stack, loop_depth, async, generator>>
      /\ count' = [count EXCEPT ![Chunk] = @ + n] /\ Push(f)
  BY DEF BeginClass, CanBegin
<1>2. f \in Frame /\ f.kind \notin ContextKinds /\ f.kind # "fn" /\ f.kind # "try" /\ f.id = Now
  BY <1>1, BeginsIs, KindSets DEF Frame, Safe, NestInv
<1>3. exception_depth' = exception_depth + IF f.kind = "try" THEN 1 ELSE 0
  BY <1>1, <1>2 DEF Safe, NestInv, TryInv
<1> HIDE DEF f
<1>4. Entered(f)
  BY <1>1, <1>2, <1>3, OtherEnters DEF Safe
<1>5. Written
  BY <1>1, WroteBytes DEF Safe, NestInv
<1> QED
  BY <1>4, <1>5 DEF Kept, Nesting

LEMMA BeginTryKept == ASSUME Safe, BeginTry PROVE Kept
<1>1. RoomLeft /\ made' = Now /\ UNCHANGED <<loop_depth, async, generator>>
  BY DEF BeginTry, CanBegin
<1>2. CASE GiveUp("depth") /\ UNCHANGED exception_depth
  <2>1. Stayed
    BY <1>1, <1>2, GiveUpStays DEF Safe
  <2> QED
    BY <1>2, <2>1, WroteNothing DEF Kept, Nesting, Safe, GiveUp
<1>3. CASE ~(GiveUp("depth") /\ UNCHANGED exception_depth)
  <2> DEFINE f == [kind |-> "try", id |-> Now, part |-> "try"]
  <2>1. /\ Push(f) /\ exception_depth' = exception_depth + 1 /\ UNCHANGED loop_stack
        /\ count' = [count EXCEPT ![Chunk] = @ + 2]
    BY <1>3 DEF BeginTry
  <2>2. f \in Frame /\ f.kind \notin ContextKinds /\ f.kind = "try" /\ f.id = Now
    BY <1>1, BeginsIs, KindSets DEF Frame, Safe, NestInv
  <2> HIDE DEF f
  <2>3. Entered(f)
    BY <1>1, <2>1, <2>2, OtherEnters DEF Safe
  <2>4. Written
    BY <2>1, WroteBytes DEF Safe, NestInv
  <2> QED
    BY <2>3, <2>4 DEF Kept, Nesting
<1> QED
  BY <1>2, <1>3

LEMMA BeginBodyKept ==
    ASSUME Safe, NEW flavour \in Flavours, BeginBody(flavour),
           async' = IF flavour = "async" THEN 1 ELSE async,
           generator' = IF flavour = "generator" THEN 1 ELSE generator
    PROVE  Kept
<1> DEFINE f == [kind |-> "fn", id |-> Now, flavour |-> flavour, async |-> async, generator |-> generator]
<1>1. RoomLeft /\ made' = Now /\ UNCHANGED <<exception_depth, loop_stack, loop_depth, count>> /\ Push(f)
  BY DEF BeginBody
<1>2. async \in {0, 1} /\ generator \in {0, 1}
  BY DEF Safe, NestInv, FlagInv, Flag
<1>3. f \in Frame /\ f.kind \notin ContextKinds /\ f.kind = "fn" /\ f.kind # "try" /\ f.id = Now
  BY <1>1, <1>2, BeginsIs, KindSets DEF Frame, Safe, NestInv
<1>4. f.async = async /\ f.generator = generator /\ f.flavour = flavour
  OBVIOUS
<1>5. exception_depth' = exception_depth + IF f.kind = "try" THEN 1 ELSE 0
  BY <1>1, <1>3 DEF Safe, NestInv, TryInv
<1> HIDE DEF f
<1>6. Grows(f) /\ ErrorsKept /\ made < MaxStatements /\ SameContexts
  BY <1>1, <1>3, Quiet, BeginsIs, UnchangedContexts DEF Push, Grows, Safe, NestInv
<1>7. Entered(f)
  BY <1>1, <1>3, <1>4, <1>5, <1>6 DEF Entered
<1> QED
  BY <1>1, <1>7, WroteNothing DEF Kept, Nesting, Safe

-----------------------------------------------------------------------------
\* Where a statement ends.
LEMMA TopIs ==
    ASSUME Safe, frames # <<>>
    PROVE  /\ Top \in Frame /\ Top.id \in Ids /\ Len(frames) \in Nat \ {0} /\ Top = frames[Len(frames)]
           /\ Top.kind \in LoopKinds => Top.start \in Nat
BY FramesAre, FrameFields DEF Safe, NestInv, FrameInv

LEMMA TriesAre == ASSUME Safe PROVE exception_depth \in Int
BY DEF Safe, NestInv, TryInv

LEMMA EndWhileKept == ASSUME Safe, EndWhile PROVE Kept
<1>1. /\ frames # <<>> /\ Top.kind = "while" /\ Pop /\ count' = [count EXCEPT ![Chunk] = Here + 2]
      /\ UNCHANGED <<made, loop_stack, exception_depth, async, generator, panic>>
      /\ \/ Report("exit") /\ loop_depth' = loop_depth
         \/ loop_depth' = loop_depth - 1 /\ (Report("continue") \/ UNCHANGED errors)
  BY DEF EndWhile, Innermost, ContextClosed
<1>2. Here + 2 \in Nat /\ Here <= Here + 2
  BY StartsHere
<1>3. Written
  BY <1>1, <1>2, WroteUpTo
<1>4. ErrorsKept /\ (Report("exit") => errors' # {})
  BY <1>1, Quiet, Reported DEF Safe, NestInv
<1>5. Left
  BY <1>1, <1>4, KindSets, Leaves DEF Safe
<1> QED
  BY <1>3, <1>5 DEF Kept, Nesting

LEMMA EndDoKept == ASSUME Safe, NEW n \in Nat, EndDo(n) PROVE Kept
<1>1. /\ frames # <<>> /\ Top.kind = "do" /\ Pop /\ count' = [count EXCEPT ![Chunk] = Here + n + 4]
      /\ UNCHANGED <<made, loop_stack, exception_depth, async, generator, panic>>
      /\ loop_depth' = loop_depth - 1 /\ (Report("continue") \/ UNCHANGED errors)
  BY DEF EndDo, Innermost, ContextClosed
<1>2. Here + n + 4 \in Nat /\ Here <= Here + n + 4
  BY StartsHere
<1>3. Written
  BY <1>1, <1>2, WroteUpTo
<1>4. ErrorsKept
  BY <1>1, Quiet, Reported DEF Safe, NestInv
<1>5. Left
  BY <1>1, <1>4, KindSets, Leaves DEF Safe
<1> QED
  BY <1>3, <1>5 DEF Kept, Nesting

LEMMA EndForKept == ASSUME Safe, EndFor PROVE Kept
<1> DEFINE end == Here + IncrementLength(Top.inc) + 2
<1>1. /\ frames # <<>> /\ Top.kind = "for" /\ Pop /\ count' = [count EXCEPT ![Chunk] = end]
      /\ UNCHANGED <<made, loop_stack, exception_depth, async, generator, panic>>
      /\ loop_depth' = loop_depth - 1 /\ (Report("continue") \/ UNCHANGED errors)
  BY DEF EndFor, Innermost, ContextClosed
<1>2. end \in Nat /\ Here <= end
  BY StartsHere DEF IncrementLength
<1> HIDE DEF end
<1>3. Written
  BY <1>1, <1>2, WroteUpTo
<1>4. ErrorsKept
  BY <1>1, Quiet, Reported DEF Safe, NestInv
<1>5. Left
  BY <1>1, <1>4, KindSets, Leaves DEF Safe
<1> QED
  BY <1>3, <1>5 DEF Kept, Nesting

LEMMA EndSwitchKept == ASSUME Safe, EndSwitch PROVE Kept
<1>1. /\ frames # <<>> /\ Top.kind = "switch" /\ Pop /\ count' = [count EXCEPT ![Chunk] = Here + 1]
      /\ UNCHANGED <<made, loop_stack, exception_depth, async, generator, panic>>
      /\ loop_depth' = loop_depth - 1 /\ (Report("switch") \/ UNCHANGED errors)
  BY DEF EndSwitch, Innermost, ContextClosed
<1>2. Here + 1 \in Nat /\ Here <= Here + 1
  BY StartsHere
<1>3. Written
  BY <1>1, <1>2, WroteUpTo
<1>4. ErrorsKept
  BY <1>1, Quiet, Reported DEF Safe, NestInv
<1>5. Left
  BY <1>1, <1>4, KindSets, Leaves DEF Safe
<1> QED
  BY <1>3, <1>5 DEF Kept, Nesting

LEMMA EndThenKept == ASSUME Safe, NEW hasElse \in {"yes", "no"}, EndThen(hasElse) PROVE Kept
<1> DEFINE f == [kind |-> "else", id |-> Top.id]
<1>1. /\ frames # <<>> /\ Top.kind = "if" /\ panic = "no" /\ count' = [count EXCEPT ![Chunk] = Here + 2]
      /\ UNCHANGED <<made, loop_stack, loop_depth, exception_depth, async, generator>>
      /\ \/ Report("if") /\ Pop /\ panic' \in {"yes", "no"}
         \/ UNCHANGED <<errors, panic>> /\ frames' = Front(frames)
         \/ UNCHANGED <<errors, panic>> /\ frames' = Append(Front(frames), f)
  BY DEF EndThen, Innermost
<1>2. Here + 2 \in Nat /\ Here <= Here + 2
  BY StartsHere
<1>3. Written
  BY <1>1, <1>2, WroteUpTo
<1>4. ErrorsKept
  BY <1>1, Quiet, Reported DEF Safe, NestInv
<1>5. CASE Pop
  <2>1. Left
    BY <1>1, <1>4, <1>5, KindSets, Leaves DEF Safe
  <2> QED
    BY <1>3, <2>1 DEF Kept, Nesting
<1>6. CASE ~Pop
  <2>1. f \in Frame /\ f.kind = "else" /\ f.id = Top.id
    BY <1>1, TopIs DEF Frame
  <2>2. frames' = Append(Front(frames), f)
    BY <1>1, <1>6 DEF Pop
  <2> HIDE DEF f
  <2>3. Relabels(f) /\ SameContexts
    BY <1>1, <2>1, <2>2, UnchangedContexts DEF Relabels, Safe, NestInv
  <2>4. Continued(f)
    BY <1>1, <1>4, <2>1, <2>3 DEF Continued, PartKinds
  <2> QED
    BY <1>3, <2>4 DEF Kept, Nesting
<1> QED
  BY <1>5, <1>6

LEMMA EndElseKept == ASSUME Safe, EndElse PROVE Kept
<1>1. /\ frames # <<>> /\ Top.kind = "else" /\ Pop /\ UNCHANGED count
      /\ UNCHANGED <<made, loop_stack, loop_depth, exception_depth, async, generator, panic>>
      /\ Report("else") \/ UNCHANGED errors
  BY DEF EndElse, Innermost
<1>2. ErrorsKept
  BY <1>1, Quiet, Reported DEF Safe, NestInv
<1>3. Left
  BY <1>1, <1>2, KindSets, Leaves DEF Safe
<1> QED
  BY <1>1, <1>3, WroteNothing DEF Kept, Nesting, Safe

LEMMA CaseKept == ASSUME Safe, NEW n \in Nat, Case(n) PROVE Kept
<1>1. /\ UNCHANGED <<made, frames, loop_stack, loop_depth, exception_depth, async, generator>>
      /\ \/ Report("cases") /\ panic' = "yes" /\ UNCHANGED count
         \/ UNCHANGED <<errors, panic>> /\ count' = [count EXCEPT ![Chunk] = @ + n + 2]
  BY DEF Case
<1>2. ErrorsKept /\ SameContexts
  BY <1>1, Quiet, Reported, UnchangedContexts DEF Safe, NestInv
<1>3. made' <= MaxStatements /\ made' \in {made, Now}
  BY <1>1, NumbersAre DEF Safe, NestInv, FrameInv
<1>4. Stayed
  BY <1>1, <1>2, <1>3 DEF Stayed
<1>5. CASE UNCHANGED count
  BY <1>4, <1>5, WroteNothing DEF Kept, Nesting, Safe
<1>6. CASE count' = [count EXCEPT ![Chunk] = @ + n + 2]
  <2>1. Here + n + 2 \in Nat /\ Here <= Here + n + 2
    BY StartsHere
  <2>2. count' = [count EXCEPT ![Chunk] = Here + n + 2]
    BY <1>6, StartsHere
  <2>3. Written
    BY <2>1, <2>2, WroteUpTo
  <2> QED
    BY <1>4, <2>3 DEF Kept, Nesting
<1> QED
  BY <1>1, <1>5, <1>6

LEMMA DefaultKept == ASSUME Safe, Default PROVE Kept
<1>1. UNCHANGED <<made, frames, count, loop_stack, loop_depth, exception_depth, async, generator, errors, panic>>
  BY DEF Default
<1>2. ErrorsKept /\ SameContexts
  BY <1>1, Quiet, UnchangedContexts DEF Safe, NestInv
<1>3. made' <= MaxStatements /\ made' \in {made, Now}
  BY <1>1, NumbersAre DEF Safe, NestInv, FrameInv
<1>4. Stayed
  BY <1>1, <1>2, <1>3 DEF Stayed
<1> QED
  BY <1>1, <1>4, WroteNothing DEF Kept, Nesting, Safe

LEMMA NextPartKept ==
    ASSUME Safe, NEW from, NEW part \in {"catch", "finally"}, NEW bytes \in Nat, NextPart(from, part, bytes)
    PROVE  Kept
<1> DEFINE f == [kind |-> "try", id |-> Top.id, part |-> part]
<1>1. /\ frames # <<>> /\ Top.kind = "try" /\ count' = [count EXCEPT ![Chunk] = @ + 1 + bytes]
      /\ frames' = Append(Front(frames), f)
      /\ UNCHANGED <<made, loop_stack, loop_depth, exception_depth, async, generator, errors, panic>>
  BY DEF NextPart, Innermost
<1>2. Here + 1 + bytes \in Nat /\ Here <= Here + 1 + bytes
  BY StartsHere
<1>3. count' = [count EXCEPT ![Chunk] = Here + 1 + bytes]
  BY <1>1, StartsHere
<1>4. Written
  BY <1>2, <1>3, WroteUpTo
<1>5. f \in Frame /\ f.kind = "try" /\ f.id = Top.id
  BY <1>1, TopIs DEF Frame
<1> HIDE DEF f
<1>6. Relabels(f) /\ SameContexts /\ ErrorsKept
  BY <1>1, <1>5, Quiet, UnchangedContexts DEF Relabels, Safe, NestInv
<1>7. Continued(f)
  BY <1>1, <1>5, <1>6 DEF Continued, PartKinds
<1> QED
  BY <1>4, <1>7 DEF Kept, Nesting

LEMMA EndTryKept == ASSUME Safe, EndTry PROVE Kept
<1>1. /\ frames # <<>> /\ Top.kind = "try" /\ Pop /\ count' = [count EXCEPT ![Chunk] = @ + 1]
      /\ exception_depth' = exception_depth - 1
      /\ UNCHANGED <<made, loop_stack, loop_depth, async, generator, panic>>
      /\ Report("try alone") \/ UNCHANGED errors
  BY DEF EndTry, Innermost
<1>2. ErrorsKept
  BY <1>1, Quiet, Reported DEF Safe, NestInv
<1>3. Left
  BY <1>1, <1>2, KindSets, Leaves DEF Safe
<1>4. Written
  BY <1>1, WroteBytes DEF Safe, NestInv
<1> QED
  BY <1>3, <1>4 DEF Kept, Nesting

LEMMA EndClassKept == ASSUME Safe, EndClass PROVE Kept
<1>1. /\ frames # <<>> /\ Top.kind = "class" /\ Pop /\ count' = [count EXCEPT ![Chunk] = @ + 3]
      /\ UNCHANGED <<made, loop_stack, loop_depth, exception_depth, async, generator, errors, panic>>
  BY DEF EndClass, Innermost
<1>2. ErrorsKept
  BY <1>1, Quiet DEF Safe, NestInv
<1>3. Left
  BY <1>1, <1>2, KindSets, Leaves DEF Safe
<1>4. Written
  BY <1>1, WroteBytes DEF Safe, NestInv
<1> QED
  BY <1>3, <1>4 DEF Kept, Nesting

LEMMA EndBodyKept ==
    ASSUME Safe, NEW flavour \in Flavours, NEW bytes \in Nat, EndBody(flavour, bytes),
           async' = IF flavour = "async" THEN Top.async ELSE async,
           generator' = IF flavour = "generator" THEN Top.generator ELSE generator
    PROVE  Kept
<1> DEFINE outer == InnermostId(FunctionFrames \ {Len(frames)})
<1>1. /\ frames # <<>> /\ Top.kind = "fn" /\ Top.flavour = flavour /\ Pop
      /\ UNCHANGED <<made, loop_stack, loop_depth, exception_depth, errors, panic>>
      /\ count' = [count EXCEPT ![Chunk] = @ + 1, ![outer] = count[outer] + bytes]
  BY DEF EndBody, Innermost
<1>2. outer \in Chunks
  <2>1. FunctionFrames \ {Len(frames)} \in SUBSET (1..Len(frames))
    BY FramesAre DEF FunctionFrames, Safe, NestInv, FrameInv
  <2> QED
    BY <2>1, InnermostIdIs DEF Safe, NestInv
<1> HIDE DEF outer
<1>3. Written
  <2>1. Chunk \in Chunks /\ count \in [Chunks -> Nat]
    BY StartsHere DEF Safe, CountInv
  <2>2. PICK m : m = [count EXCEPT ![Chunk] = @ + 1]
    OBVIOUS
  <2>3. m \in [Chunks -> Nat] /\ \A c \in Chunks : count[c] <= m[c]
    BY <2>1, <2>2
  <2>4. count' = [m EXCEPT ![outer] = count[outer] + bytes]
    BY <1>1, <2>2
  <2>5. count' \in [Chunks -> Nat] /\ \A c \in Chunks : count[c] <= count'[c]
    BY <1>2, <2>1, <2>3, <2>4
  <2> QED
    BY <2>5 DEF Written
<1>4. ErrorsKept /\ Shrinks
  BY <1>1, Quiet DEF Safe, NestInv, Shrinks, Pop
<1>5. Top.kind \notin ContextKinds /\ Top.kind # "try"
  BY <1>1, KindSets
<1>6. exception_depth' = exception_depth - IF Top.kind = "try" THEN 1 ELSE 0
  BY <1>1, <1>5, TriesAre
<1>7. Left
  BY <1>1, <1>4, <1>5, <1>6, TriesAre DEF Left
<1> QED
  BY <1>3, <1>7 DEF Kept, Nesting

LEMMA MissingSeparatorKept == ASSUME Safe, MissingSeparator PROVE Kept
<1>1. /\ UNCHANGED <<made, frames, count, loop_stack, loop_depth, exception_depth, async, generator>>
      /\ Report("separator") /\ panic' = "yes"
  BY DEF MissingSeparator
<1>2. ErrorsKept /\ SameContexts
  BY <1>1, Reported, UnchangedContexts DEF Safe, NestInv
<1>3. made' <= MaxStatements /\ made' \in {made, Now}
  BY <1>1, NumbersAre DEF Safe, NestInv, FrameInv
<1>4. Stayed
  BY <1>1, <1>2, <1>3 DEF Stayed
<1> QED
  BY <1>1, <1>4, WroteNothing DEF Kept, Nesting, Safe

LEMMA ReturnEarlyKept == ASSUME Safe, ReturnEarly PROVE Kept
<1>1. /\ UNCHANGED <<made, count, loop_stack, loop_depth, exception_depth, async, generator, errors, panic>>
      /\ panic = "yes" /\ frames # <<>> /\ Top.kind \in PartKinds /\ Pop
  BY DEF ReturnEarly, PartKinds
<1>2. ErrorsKept /\ errors' # {}
  BY <1>1, Quiet DEF Safe, NestInv, FrameInv
<1>3. Left
  BY <1>1, <1>2, KindSets, Leaves DEF Safe
<1> QED
  BY <1>1, <1>3, WroteNothing DEF Kept, Nesting, Safe

LEMMA SafeNext == ASSUME Safe, [StatementNext]_statementVars PROVE Safe'
<1>1. ASSUME Kept PROVE Safe'
  BY <1>1, NestStep DEF Safe, Kept, Written, CountInv
<1>2. Lengths \subseteq Nat /\ Conditions \subseteq Nat /\ {0} \cup Conditions \subseteq Nat /\ {2, 4} \subseteq Nat
  BY StatementAssumption
<1>3. ASSUME NEW n \in Lengths, Plain(n) PROVE Kept
  BY <1>2, <1>3, PlainKept
<1>4. ASSUME NEW n \in Conditions,
             BeginWhile(n) \/ EndDo(n) \/ BeginIf(n) \/ BeginSwitch(n) \/ Case(n)
      PROVE  Kept
  BY <1>2, <1>4, BeginWhileKept, EndDoKept, BeginIfKept, BeginSwitchKept, CaseKept
<1>5. ASSUME NEW n \in {0} \cup Conditions, NEW inc \in {"none", "known", "dropped"}, BeginFor(0, n, inc)
      PROVE  Kept
  BY <1>2, <1>5, BeginForKept
<1>6. ASSUME Export \/ BreakStatement \/ ContinueStatement \/ BeginDo PROVE Kept
  BY <1>6, ExportKept, LeaveKept, BeginDoKept DEF BreakStatement, ContinueStatement
<1>7. ASSUME EndWhile \/ EndFor \/ EndElse \/ Default \/ EndSwitch PROVE Kept
  BY <1>7, EndWhileKept, EndForKept, EndElseKept, DefaultKept, EndSwitchKept
<1>8. ASSUME NEW e \in {"yes", "no"}, EndThen(e) PROVE Kept
  BY <1>8, EndThenKept
<1>9. ASSUME BeginTry \/ EndTry \/ EndClass \/ MissingSeparator \/ ReturnEarly PROVE Kept
  BY <1>9, BeginTryKept, EndTryKept, EndClassKept, MissingSeparatorKept, ReturnEarlyKept
<1>10. ASSUME Catch \/ Finally PROVE Kept
  BY <1>10, NextPartKept DEF Catch, Finally
<1>11. ASSUME BeginFunction \/ BeginAsync \/ BeginGenerator \/ BeginMethod PROVE Kept
  BY <1>11, BeginBodyKept DEF BeginFunction, BeginAsync, BeginGenerator, BeginMethod, Flavours
<1>12. ASSUME EndFunction \/ EndAsync \/ EndGenerator \/ EndMethod PROVE Kept
  BY <1>12, EndBodyKept DEF EndFunction, EndAsync, EndGenerator, EndMethod, Flavours
<1>13. ASSUME NEW n \in {2, 4}, BeginClass(n) PROVE Kept
  BY <1>2, <1>13, BeginClassKept
<1>14. CASE UNCHANGED statementVars
  <2>1. UNCHANGED <<made, frames, count, loop_stack, loop_depth, exception_depth, async, generator, errors, panic>>
    BY <1>14 DEF statementVars
  <2>2. ErrorsKept /\ SameContexts
    BY <2>1, Quiet, UnchangedContexts DEF Safe, NestInv
  <2>3. made' <= MaxStatements /\ made' \in {made, Now}
    BY <2>1, NumbersAre DEF Safe, NestInv, FrameInv
  <2>4. Stayed
    BY <2>1, <2>2, <2>3 DEF Stayed
  <2> QED
    BY <1>1, <2>1, <2>4, WroteNothing DEF Kept, Nesting, Safe
<1> QED
  BY <1>1, <1>3, <1>4, <1>5, <1>6, <1>7, <1>8, <1>9, <1>10, <1>11, <1>12, <1>13, <1>14 DEF StatementNext

LEMMA SafeInit == StatementInit => Safe
<1> SUFFICES ASSUME StatementInit PROVE Safe
  OBVIOUS
<1>1. CountInv
  BY DEF StatementInit, CountInv, Chunks
<1> QED
  BY <1>1, NestInvInit DEF Safe

\* However statements nest, and whatever errors are reported, each loop and switch
\* being parsed keeps its context in loop_stack; without an error the loop and
\* exception contexts in use, in_async_function and in_generator_function are what
\* the statements being parsed make them.
THEOREM ContextsBalancedHolds == StatementSpec => []ContextsBalanced
<1>1. StatementInit => Safe
  BY SafeInit
<1>2. Safe /\ [StatementNext]_statementVars => Safe'
  BY SafeNext
<1>3. Safe => ContextsBalanced
  BY NestInvImplies DEF Safe
<1> QED
  BY <1>1, <1>2, <1>3, PTL DEF StatementSpec

-----------------------------------------------------------------------------
(* The statement parsers: jumps.                                           *)

JumpKinds == {"exit", "break", "continue", "then", "else", "loop", "case"}
Ops == {"jump", "break", "continue", "loop"}
JumpRec ==
    [chunk : Chunks, at : Nat, kind : JumpKinds, op : Ops, owner : Chunks, ctx : Nat, operand : Nat]
PlaceRec ==
    [of : {"none"} \cup ContextKinds, start : Int, cont : Int, end : Int, popped : Int, tests : Seq(Int),
     bodies : Seq(Int), default : Int]

\* The functions around frame n, and the chunk of the statement in it.
FunctionsUpTo(n) == {i \in 1..n : frames[i].kind = "fn"}
ChunkAt(n) == InnermostId(FunctionsUpTo(n))

\* No two operands in the same byte, and all of them in bytes already written.
OneEach(J) == \A j, k \in J : j.chunk = k.chunk /\ j.at = k.at => j = k
InCode(J) == \A j \in J : j.at < count[j.chunk] /\ j.owner <= made
StartsInv == \A i \in Open(LoopKinds) : frames[i].start <= count[ChunkAt(i)]
CodeInv ==
    /\ jumps \in SUBSET JumpRec /\ place \in [Ids -> PlaceRec]
    /\ OneEach(jumps) /\ InCode(jumps) /\ StartsInv

BreaksOf(i) == loop_stack[frames[i].ctx].breaks
ContinuesOf(i) == loop_stack[frames[i].ctx].continues

\* A jump of the statement in frame i: recorded where its end will look for it.
Pending(j, i) ==
    LET kind == frames[i].kind IN
    /\ j.chunk = ChunkAt(i) /\ j.kind # "loop"
    /\ j.kind \in {"break", "continue"} => j.op = j.kind
    /\ j.kind \notin {"break", "continue"} => j.op = "jump"
    /\ j.kind = "exit" => kind \in {"while", "for"}
    /\ j.kind = "break" => kind \in ContextKinds /\ j.ctx = j.owner /\ Contains(BreaksOf(i), j.at)
    /\ j.kind = "continue" => kind \in LoopKinds /\ (j.ctx = j.owner => Contains(ContinuesOf(i), j.at))
    /\ j.kind = "then" => kind = "if" \/ (kind = "else" /\ Target(j) = place[j.owner].cont)
    /\ j.kind = "else" => kind = "else"
    /\ j.kind = "case" => kind = "switch"

Landed(j) == Recorded(j) /\ ~(Unchecked(j) /\ Far(j)) => Target(j) = Meant(j)
Placed(j) ==
    \/ \E i \in 1..Len(frames) : frames[i].id = j.owner /\ Pending(j, i)
    \/ (\A i \in 1..Len(frames) : frames[i].id # j.owner) /\ Landed(j)

\* What the context of frame i has recorded are jumps of its statement, and the
\* exit of a while comes before its breaks.
BreakAt(i, a) ==
    \E j \in jumps : j.chunk = ChunkAt(i) /\ j.at = a /\ j.kind = "break" /\ j.owner = frames[i].id
ContinueAt(i, a) ==
    \E j \in jumps : /\ j.chunk = ChunkAt(i) /\ j.at = a
                     /\ j.kind = "continue" /\ j.owner = frames[i].id /\ j.ctx = j.owner
ExitFirst(i) ==
    \E e \in jumps : /\ e.chunk = ChunkAt(i) /\ e.kind = "exit" /\ e.owner = frames[i].id
                     /\ \A b \in jumps : b.kind = "break" /\ b.owner = e.owner => e.at < b.at
Lists(i) ==
    /\ \A a \in Nat : Contains(BreaksOf(i), a) => BreakAt(i, a)
    /\ frames[i].kind \in LoopKinds => \A a \in Nat : Contains(ContinuesOf(i), a) => ContinueAt(i, a)
    /\ frames[i].kind = "while" => ExitFirst(i)

NoStray == \A j \in jumps : j.owner # 0
ListsInv == \A i \in Open(ContextKinds) : Lists(i)
OwnersInv == \A j \in jumps : Placed(j)
Clean == errors = {} /\ NoStray

JumpInv == CodeInv /\ (Clean => ListsInv /\ OwnersInv)

-----------------------------------------------------------------------------
LEMMA ChunkAtSame ==
    ASSUME NEW m \in Nat, \A i \in 1..m : frames'[i] = frames[i]
    PROVE  ChunkAt(m)' = ChunkAt(m)
<1>1. FunctionsUpTo(m)' = FunctionsUpTo(m)
  BY DEF FunctionsUpTo
<1>2. PICK S : S = FunctionsUpTo(m)
  OBVIOUS
<1>3. S \in SUBSET (1..m) /\ FunctionsUpTo(m)' = S
  BY <1>1, <1>2 DEF FunctionsUpTo
<1>4. CASE S = {}
  BY <1>2, <1>3, <1>4 DEF ChunkAt, InnermostId
<1>5. CASE S # {}
  <2>1. Max(S) \in 1..m
    BY <1>3, <1>5, LargestIs
  <2> QED
    BY <1>2, <1>3, <1>5, <2>1 DEF ChunkAt, InnermostId
<1> QED
  BY <1>4, <1>5

\* Frames of other statements do not change the chunk.
LEMMA ChunkAtOver ==
    ASSUME NEW m \in Nat, NEW n \in Nat, m <= n, \A k \in m + 1..n : frames[k].kind # "fn"
    PROVE  ChunkAt(n) = ChunkAt(m)
<1>1. \A k : k \in 1..n <=> k \in 1..m \/ k \in m + 1..n
  OBVIOUS
<1>2. FunctionsUpTo(n) = FunctionsUpTo(m)
  BY <1>1 DEF FunctionsUpTo
<1> QED
  BY <1>2 DEF ChunkAt

LEMMA ChunkAtTop == ASSUME FrameInv PROVE Chunk = ChunkAt(Len(frames))
<1>1. FunctionFrames = FunctionsUpTo(Len(frames))
  BY FramesAre DEF FrameInv, FunctionFrames, FunctionsUpTo
<1> QED
  BY <1>1 DEF Chunk, ChunkAt

LEMMA ChunkAtIs == ASSUME FrameInv, NEW m \in 0..Len(frames) PROVE ChunkAt(m) \in Chunks
<1>1. FunctionsUpTo(m) \in SUBSET (1..Len(frames))
  BY LenProperties DEF FunctionsUpTo, FrameInv
<1> QED
  BY <1>1, InnermostIdIs DEF ChunkAt

LEMMA IdsDistinct ==
    ASSUME FrameInv
    PROVE  \A i, j \in 1..Len(frames) : frames[i].id = frames[j].id => i = j
<1>1. \A i \in 1..Len(frames) : frames[i].id \in Nat
  BY FramesAre, FrameFields DEF FrameInv
<1>2. \A i, j \in 1..Len(frames) : i < j => frames[i].id < frames[j].id
  BY DEF FrameInv
<1>3. \A i, j \in 1..Len(frames) : i = j \/ i < j \/ j < i
  OBVIOUS
<1> QED
  BY <1>1, <1>2, <1>3

\* The first m frames stay; a frame after them is entered or a part of a statement.
Retains(m) ==
    /\ m \in Nat /\ m <= Len(frames) /\ m <= Len(frames')
    /\ \A i \in 1..m : frames'[i] = frames[i]

LEMMA Retained ==
    ASSUME Safe, Nesting
    PROVE  \E m : /\ Retains(m)
                  /\ \A i \in m + 1..Len(frames') : \/ m = Len(frames) /\ i = m + 1 /\ Entered(frames'[i])
                                                    \/ frames'[i].kind \in PartKinds
<1>1. PICK n : n = Len(frames)
  OBVIOUS
<1>2. n \in Nat /\ frames \in Seq(Frame)
  BY <1>1, LenProperties DEF Safe, NestInv, FrameInv
<1>3. CASE Stayed
  <2>1. Retains(n) /\ n + 1..Len(frames') = {}
    BY <1>1, <1>2, <1>3 DEF Stayed, Retains
  <2> QED
    BY <2>1
<1>4. CASE Left
  <2>1. Retains(n - 1) /\ Len(frames') = n - 1
    BY <1>1, <1>2, <1>4, ShrunkIs DEF Left, Retains
  <2>2. (n - 1) + 1..Len(frames') = {}
    BY <1>2, <2>1
  <2> QED
    BY <2>1, <2>2
<1>5. ASSUME NEW f, Entered(f)
      PROVE  Retains(n) /\ \A i \in n + 1..Len(frames') : i = n + 1 /\ Entered(frames'[i])
  <2>1. Grows(f)
    BY <1>5 DEF Entered
  <2>2. Len(frames') = n + 1 /\ frames'[n + 1] = f /\ \A i \in 1..n : frames'[i] = frames[i]
    BY <1>1, <1>2, <2>1, GrownIs
  <2>3. \A i \in n + 1..Len(frames') : i = n + 1
    BY <1>2, <2>2
  <2>4. Retains(n)
    BY <1>1, <1>2, <2>2 DEF Retains
  <2> QED
    BY <1>5, <2>2, <2>3, <2>4
<1>6. ASSUME NEW f, Continued(f)
      PROVE  Retains(n - 1) /\ \A i \in (n - 1) + 1..Len(frames') : frames'[i].kind \in PartKinds
  <2>1. Relabels(f) /\ f.kind \in PartKinds
    BY <1>6 DEF Continued
  <2>2. /\ n \in Nat \ {0} /\ Len(frames') = n /\ frames'[n] = f
        /\ \A i \in 1..(n - 1) : frames'[i] = frames[i]
    BY <1>1, <1>2, <2>1, RelabelledIs
  <2>3. \A i \in (n - 1) + 1..Len(frames') : i = n
    BY <2>2
  <2>4. Retains(n - 1)
    BY <1>1, <2>2 DEF Retains
  <2> QED
    BY <2>1, <2>2, <2>3, <2>4
<1> QED
  BY <1>1, <1>3, <1>4, <1>5, <1>6 DEF Nesting

LEMMA KeptSafe == ASSUME Safe, Kept PROVE Safe'
BY NestStep DEF Safe, Kept, Written, CountInv

LEMMA StartsStep ==
    ASSUME Safe, StartsInv, Kept,
           \A f : Entered(f) /\ f.kind \in LoopKinds => f.start <= count'[Chunk]
    PROVE  StartsInv'
<1>0. Safe'
  BY KeptSafe
<1>1. PICK m : /\ Retains(m)
               /\ \A i \in m + 1..Len(frames') : \/ m = Len(frames) /\ i = m + 1 /\ Entered(frames'[i])
                                                 \/ frames'[i].kind \in PartKinds
  BY Retained DEF Kept
<1>2. PICK n : n = Len(frames)
  OBVIOUS
<1>3. PICK l : l = Len(frames')
  OBVIOUS
<1>4. /\ n \in Nat /\ l \in Nat /\ DOMAIN frames = 1..n /\ DOMAIN frames' = 1..l
      /\ m \in Nat /\ m <= n /\ m <= l /\ \A i \in 1..m : frames'[i] = frames[i]
  BY <1>0, <1>1, <1>2, <1>3, LenProperties DEF Safe, NestInv, FrameInv, Retains
<1> SUFFICES ASSUME NEW i \in 1..l, frames'[i].kind \in LoopKinds
             PROVE  frames'[i].start <= count'[ChunkAt(i)']
  BY <1>4 DEF StartsInv, Open
<1>5. CASE i \in 1..m
  <2>1. i \in 1..n /\ frames'[i] = frames[i] /\ i \in Nat /\ \A k \in 1..i : frames'[k] = frames[k]
    BY <1>4, <1>5
  <2>2. ChunkAt(i)' = ChunkAt(i)
    BY <2>1, ChunkAtSame
  <2>3. ChunkAt(i) \in Chunks
    <3>1. i \in 0..Len(frames)
      BY <1>2, <1>4, <2>1
    <3> QED
      BY <3>1, ChunkAtIs DEF Safe, NestInv
  <2>4. frames[i].start <= count[ChunkAt(i)]
    BY <1>4, <2>1 DEF StartsInv, Open
  <2>5. frames[i].start \in Nat
    BY <1>2, <2>1, FramesAre, FrameFields DEF Safe, NestInv, FrameInv
  <2>6. count[ChunkAt(i)] \in Nat /\ count'[ChunkAt(i)] \in Nat /\ count[ChunkAt(i)] <= count'[ChunkAt(i)]
    BY <2>3 DEF Safe, CountInv, Kept, Written
  <2> QED
    BY <2>1, <2>2, <2>4, <2>5, <2>6
<1>6. CASE i \notin 1..m
  <2>1. i \in m + 1..Len(frames')
    BY <1>3, <1>4, <1>6
  <2>2. frames'[i].kind \notin PartKinds /\ frames'[i].kind # "fn"
    BY KindSets DEF PartKinds
  <2>3. m = n /\ i = n + 1 /\ Entered(frames'[i])
    BY <1>1, <1>2, <2>1, <2>2
  <2>4. frames'[i].start <= count'[Chunk]
    BY <2>3
  <2>5. ChunkAt(i)' = ChunkAt(n)'
    <3>1. \A k \in n + 1..i : frames'[k].kind # "fn"
      BY <1>4, <2>2, <2>3
    <3>2. n \in Nat /\ i \in Nat /\ n <= i
      BY <1>4, <2>3
    <3>3. \A k : k \in 1..i <=> k \in 1..n \/ k \in n + 1..i
      BY <3>2
    <3>4. FunctionsUpTo(i)' = FunctionsUpTo(n)'
      BY <3>1, <3>3 DEF FunctionsUpTo
    <3> QED
      BY <3>4 DEF ChunkAt
  <2>6. ChunkAt(n)' = ChunkAt(n)
    BY <1>4, <2>3, ChunkAtSame
  <2>7. Chunk = ChunkAt(n)
    BY <1>2, ChunkAtTop DEF Safe, NestInv
  <2> QED
    BY <2>4, <2>5, <2>6, <2>7
<1> QED
  BY <1>5, <1>6

-----------------------------------------------------------------------------
\* A step that is about the jumps of one statement only, a, whose frame, if any,
\* comes after the first m.
Alone(a, m) ==
    /\ a \in Ids /\ Retains(m)
    /\ \A i \in m + 1..Len(frames) : frames[i].id = a
    /\ \A i \in m + 1..Len(frames') : frames'[i].id = a
    /\ \A i \in 1..m : frames[i].id # a
    /\ \A j \in jumps \cup jumps' : j.owner # a => j \in jumps /\ j \in jumps'
    /\ \A x \in Ids : x # a => place'[x] = place[x]
    /\ \A i \in 1..m : frames[i].kind \in ContextKinds => loop_stack'[frames[i].ctx] = loop_stack[frames[i].ctx]

LEMMA ListsKept ==
    ASSUME NEW i \in Nat, \A k \in 1..i : frames'[k] = frames[k], i # 0,
           loop_stack'[frames[i].ctx] = loop_stack[frames[i].ctx],
           \A j \in jumps \cup jumps' : j.owner = frames[i].id => j \in jumps /\ j \in jumps',
           Lists(i)
    PROVE  Lists(i)'
<1>1. frames'[i] = frames[i] /\ ChunkAt(i)' = ChunkAt(i)
  BY ChunkAtSame
<1>2. BreaksOf(i)' = BreaksOf(i) /\ ContinuesOf(i)' = ContinuesOf(i)
  BY <1>1 DEF BreaksOf, ContinuesOf
<1>3. ASSUME NEW x, BreakAt(i, x) PROVE BreakAt(i, x)'
  BY <1>1, <1>3 DEF BreakAt
<1>4. ASSUME NEW x, ContinueAt(i, x) PROVE ContinueAt(i, x)'
  BY <1>1, <1>4 DEF ContinueAt
<1>5. ASSUME ExitFirst(i) PROVE ExitFirst(i)'
  <2>1. PICK e \in jumps : /\ e.chunk = ChunkAt(i) /\ e.kind = "exit" /\ e.owner = frames[i].id
                           /\ \A b \in jumps : b.kind = "break" /\ b.owner = e.owner => e.at < b.at
    BY <1>5 DEF ExitFirst
  <2>2. e \in jumps'
    BY <2>1
  <2>3. \A b \in jumps' : b.kind = "break" /\ b.owner = e.owner => e.at < b.at
    BY <2>1
  <2> QED
    BY <1>1, <2>1, <2>2, <2>3 DEF ExitFirst
<1>6. /\ \A x \in Nat : Contains(BreaksOf(i), x) => BreakAt(i, x)
      /\ frames[i].kind \in LoopKinds => \A x \in Nat : Contains(ContinuesOf(i), x) => ContinueAt(i, x)
      /\ frames[i].kind = "while" => ExitFirst(i)
  BY DEF Lists
<1>7. \A x \in Nat : Contains(BreaksOf(i)', x) => BreakAt(i, x)'
  BY <1>2, <1>3, <1>6
<1>8. frames'[i].kind \in LoopKinds => \A x \in Nat : Contains(ContinuesOf(i)', x) => ContinueAt(i, x)'
  BY <1>1, <1>2, <1>4, <1>6
<1>9. frames'[i].kind = "while" => ExitFirst(i)'
  BY <1>1, <1>5, <1>6
<1> QED
  BY <1>7, <1>8, <1>9 DEF Lists, Contains

LEMMA LandedKept ==
    ASSUME NEW j, place'[j.owner] = place[j.owner], Landed(j)
    PROVE  Landed(j)'
<1>1. Meant(j)' = Meant(j)
  BY DEF Meant
<1>2. (Unchecked(j) <=> Unchecked(j)') /\ (Far(j) <=> Far(j)')
  BY <1>1 DEF Unchecked, Far
<1> QED
  BY <1>1, <1>2 DEF Landed

LEMMA PendingKept ==
    ASSUME NEW j, NEW i \in Nat, i # 0, \A k \in 1..i : frames'[k] = frames[k],
           frames[i].kind \in ContextKinds => loop_stack'[frames[i].ctx] = loop_stack[frames[i].ctx],
           place'[j.owner] = place[j.owner], Pending(j, i)
    PROVE  Pending(j, i)'
<1>1. frames'[i] = frames[i] /\ ChunkAt(i)' = ChunkAt(i)
  BY ChunkAtSame
<1>2. frames[i].kind \in ContextKinds => BreaksOf(i)' = BreaksOf(i) /\ ContinuesOf(i)' = ContinuesOf(i)
  BY <1>1 DEF BreaksOf, ContinuesOf
<1>3. LoopKinds \subseteq ContextKinds
  BY KindSets
<1> QED
  BY <1>1, <1>2, <1>3 DEF Pending

LEMMA AloneStep ==
    ASSUME Safe, Safe', JumpInv, CodeInv', errors \subseteq errors', NEW a, NEW m, Alone(a, m),
           Clean' /\ Clean /\ ListsInv /\ OwnersInv =>
             /\ \A i \in m + 1..Len(frames') : frames'[i].kind \in ContextKinds => Lists(i)'
             /\ \A j \in jumps' : j.owner = a => Placed(j)'
    PROVE  JumpInv'
<1> SUFFICES ASSUME Clean' PROVE ListsInv' /\ OwnersInv'
  BY DEF JumpInv
<1>1. /\ a \in Ids /\ m \in Nat /\ m <= Len(frames) /\ m <= Len(frames')
      /\ \A i \in 1..m : frames'[i] = frames[i] /\ frames[i].id # a
      /\ \A i \in m + 1..Len(frames) : frames[i].id = a
      /\ \A i \in m + 1..Len(frames') : frames'[i].id = a
  BY DEF Alone, Retains
<1>2. /\ \A j \in jumps \cup jumps' : j.owner # a => j \in jumps /\ j \in jumps'
      /\ \A x \in Ids : x # a => place'[x] = place[x]
      /\ \A i \in 1..m : frames[i].kind \in ContextKinds => loop_stack'[frames[i].ctx] = loop_stack[frames[i].ctx]
  BY DEF Alone
<1>3. Clean
  <2>1. errors = {}
    BY DEF Clean
  <2>2. a # 0
    BY <1>1, NumbersAre
  <2> QED
    BY <1>2, <2>1, <2>2 DEF Clean, NoStray
<1>4. ListsInv /\ OwnersInv
  BY <1>3 DEF JumpInv
<1>5. /\ \A i \in m + 1..Len(frames') : frames'[i].kind \in ContextKinds => Lists(i)'
      /\ \A j \in jumps' : j.owner = a => Placed(j)'
  BY <1>3, <1>4
<1>6. /\ Len(frames) \in Nat /\ Len(frames') \in Nat
      /\ DOMAIN frames = 1..Len(frames) /\ DOMAIN frames' = 1..Len(frames')
  BY LenProperties DEF Safe, NestInv, FrameInv
<1>7. ListsInv'
  <2> SUFFICES ASSUME NEW i \in 1..Len(frames'), frames'[i].kind \in ContextKinds PROVE Lists(i)'
    BY <1>6 DEF ListsInv, Open
  <2>1. CASE i \in 1..m
    <3>1. i \in Nat /\ i # 0 /\ i \in 1..Len(frames) /\ \A k \in 1..i : frames'[k] = frames[k]
      BY <1>1, <1>6, <2>1
    <3>2. frames[i].kind \in ContextKinds /\ frames[i].id # a
      BY <1>1, <2>1
    <3>3. Lists(i)
      BY <1>4, <1>6, <3>1, <3>2 DEF ListsInv, Open
    <3>4. loop_stack'[frames[i].ctx] = loop_stack[frames[i].ctx]
      BY <1>2, <2>1, <3>2
    <3>5. \A j \in jumps \cup jumps' : j.owner = frames[i].id => j \in jumps /\ j \in jumps'
      BY <1>2, <3>2
    <3> QED
      BY <3>1, <3>3, <3>4, <3>5, ListsKept
  <2>2. CASE i \notin 1..m
    <3>1. i \in m + 1..Len(frames')
      BY <1>1, <1>6, <2>2
    <3> QED
      BY <1>5, <3>1
  <2> QED
    BY <2>1, <2>2
<1>8. OwnersInv'
  <2> SUFFICES ASSUME NEW j \in jumps', j.owner # a PROVE Placed(j)'
    BY <1>5 DEF OwnersInv
  <2>1. j \in jumps /\ j.owner \in Ids
    BY <1>2 DEF Clean, NoStray, CodeInv, JumpRec, Chunks
  <2>2. place'[j.owner] = place[j.owner] /\ Placed(j)
    BY <1>2, <1>4, <2>1 DEF OwnersInv
  <2>3. CASE \E i \in 1..Len(frames) : frames[i].id = j.owner /\ Pending(j, i)
    <3>1. PICK i \in 1..Len(frames) : frames[i].id = j.owner /\ Pending(j, i)
      BY <2>3
    <3>2. i \in 1..m
      <4>1. i \notin m + 1..Len(frames)
        BY <1>1, <3>1
      <4> QED
        BY <1>1, <1>6, <4>1
    <3>3. /\ i \in Nat /\ i # 0 /\ i \in 1..Len(frames') /\ \A k \in 1..i : frames'[k] = frames[k]
          /\ frames'[i].id = j.owner
      BY <1>1, <1>6, <3>1, <3>2
    <3>4. Pending(j, i)'
      BY <1>2, <2>2, <3>1, <3>2, <3>3, PendingKept
    <3> QED
      BY <3>3, <3>4 DEF Placed
  <2>4. CASE (\A i \in 1..Len(frames) : frames[i].id # j.owner) /\ Landed(j)
    <3>1. Landed(j)'
      BY <2>2, <2>4, LandedKept
    <3>2. ASSUME NEW i \in 1..Len(frames') PROVE frames'[i].id # j.owner
      <4>1. CASE i \in 1..m
        BY <1>1, <1>6, <2>4, <4>1
      <4>2. CASE i \notin 1..m
        <5>1. i \in m + 1..Len(frames')
          BY <1>1, <1>6, <4>2
        <5> QED
          BY <1>1, <5>1
      <4> QED
        BY <4>1, <4>2
    <3> QED
      BY <3>1, <3>2 DEF Placed
  <2> QED
    BY <2>2, <2>3, <2>4 DEF Placed
<1> QED
  BY <1>7, <1>8

-----------------------------------------------------------------------------
\* Jumps N written at the end of a chunk.
Adds(N) ==
    /\ jumps' = jumps \cup N /\ N \in SUBSET JumpRec /\ OneEach(N)
    /\ \A j \in N : count[j.chunk] <= j.at /\ j.at < count'[j.chunk] /\ j.owner <= made'

LEMMA MadeGrows == ASSUME Safe, Nesting PROVE made \in Nat /\ made' \in Nat /\ made <= made'
<1>1. made \in Nat
  BY NumbersAre DEF Safe, NestInv, FrameInv
<1>2. made' \in {made, made + 1}
  BY DEF Nesting, Stayed, Left, Entered, Continued, Now
<1> QED
  BY <1>1, <1>2

LEMMA RecIs ==
    ASSUME NEW j \in JumpRec
    PROVE  /\ j.chunk \in Chunks /\ j.at \in Nat /\ j.owner \in Chunks /\ j.owner \in Nat
           /\ j.ctx \in Nat /\ j.operand \in Nat /\ j.kind \in JumpKinds /\ j.op \in Ops
<1>1. Chunks \subseteq Nat
  BY NumbersAre DEF Chunks
<1> QED
  BY <1>1 DEF JumpRec

LEMMA OldInCode ==
    ASSUME Safe, CodeInv, Kept
    PROVE  \A j \in jumps : j.at < count'[j.chunk] /\ j.owner <= made' /\ j.at < count[j.chunk]
<1> SUFFICES ASSUME NEW j \in jumps PROVE j.at < count'[j.chunk] /\ j.owner <= made' /\ j.at < count[j.chunk]
  OBVIOUS
<1>1. /\ j.chunk \in Chunks /\ j.at \in Nat /\ j.owner \in Nat
      /\ j.at < count[j.chunk] /\ j.owner <= made
  BY RecIs DEF CodeInv, InCode
<1>2. count[j.chunk] \in Nat /\ count'[j.chunk] \in Nat /\ count[j.chunk] <= count'[j.chunk]
  BY <1>1 DEF Safe, CountInv, Kept, Written
<1> QED
  BY <1>1, <1>2, MadeGrows DEF Kept

LEMMA AddedCode ==
    ASSUME Safe, CodeInv, Kept, NEW N, Adds(N), place' \in [Ids -> PlaceRec],
           \A f : Entered(f) /\ f.kind \in LoopKinds => f.start <= count'[Chunk]
    PROVE  CodeInv'
<1>1. jumps' \in SUBSET JumpRec
  BY DEF Adds, CodeInv
<1>2. \A j \in jumps : j.at < count'[j.chunk] /\ j.owner <= made' /\ j.at < count[j.chunk]
  BY OldInCode
<1>3. InCode(jumps)'
  BY <1>2 DEF InCode, Adds
<1>4. OneEach(jumps')
  <2> SUFFICES ASSUME NEW j \in jumps', NEW k \in jumps', j.chunk = k.chunk, j.at = k.at PROVE j = k
    BY DEF OneEach
  <2>1. j.at \in Nat /\ k.at \in Nat /\ count[j.chunk] \in Nat
    BY <1>1, RecIs DEF Safe, CountInv
  <2>2. CASE j \in jumps /\ k \in jumps
    BY <2>2 DEF CodeInv, OneEach
  <2>3. CASE j \in N /\ k \in N
    BY <2>3 DEF Adds, OneEach
  <2>4. CASE j \in jumps /\ k \in N
    BY <1>2, <2>1, <2>4 DEF Adds
  <2>5. CASE j \in N /\ k \in jumps
    BY <1>2, <2>1, <2>5 DEF Adds
  <2> QED
    BY <2>2, <2>3, <2>4, <2>5 DEF Adds
<1>5. StartsInv'
  BY StartsStep DEF CodeInv
<1> QED
  BY <1>1, <1>3, <1>4, <1>5 DEF CodeInv, OneEach

LEMMA AddsNone == ASSUME jumps' = jumps PROVE Adds({})
BY DEF Adds, OneEach

\* A step that only reports an error.
LEMMA ErrorStep ==
    ASSUME Safe, JumpInv, Kept, jumps' = jumps, place' = place, errors' # {},
           \A f : ~Entered(f)
    PROVE  JumpInv'
BY AddsNone, AddedCode DEF JumpInv, Clean, CodeInv

\* The frames of a step of the innermost statement.
TopOnly ==
    /\ frames # <<>> /\ loop_stack' = loop_stack
    /\ \/ frames' = frames
       \/ frames' = Front(frames)
       \/ \E f \in Frame : f.id = Top.id /\ frames' = Append(Front(frames), f)
    /\ \A j \in jumps \cup jumps' : j.owner # Top.id => j \in jumps /\ j \in jumps'
    /\ \A x \in Ids : x # Top.id => place'[x] = place[x]

LEMMA TopAlone ==
    ASSUME Safe, TopOnly, NEW n, n = Len(frames)
    PROVE  Alone(Top.id, n - 1) /\ n \in Nat \ {0} /\ Top = frames[n] /\ Len(frames') \in {n - 1, n}
<1>1. frames \in Seq(Frame) /\ frames # <<>>
  BY DEF Safe, NestInv, FrameInv, TopOnly
<1>2. n \in Nat \ {0} /\ Top = frames[n] /\ Top.id \in Ids
  BY <1>1, FramesAre, FrameFields
<1>3. \A i \in 1..(n - 1) : frames[i].id # Top.id
  <2>1. \A i \in 1..(n - 1) : i \in 1..n /\ n \in 1..n /\ i # n
    BY <1>2
  <2> QED
    BY <1>2, <2>1, IdsDistinct DEF Safe, NestInv
<1>4. \A i \in (n - 1) + 1..n : frames[i].id = Top.id
  <2>1. \A i \in (n - 1) + 1..n : i = n
    BY <1>2
  <2> QED
    BY <1>2, <2>1
<1>5. /\ Len(frames') \in {n - 1, n} /\ Retains(n - 1)
      /\ \A i \in (n - 1) + 1..Len(frames') : frames'[i].id = Top.id
  <2>1. CASE frames' = frames
    <3>1. Retains(n - 1)
      BY <1>2, <2>1 DEF Retains
    <3> QED
      BY <1>2, <1>4, <2>1, <3>1
  <2>2. CASE frames' = Front(frames)
    <3>1. Shrinks
      BY <1>1, <2>2 DEF Shrinks
    <3>2. Len(frames') = n - 1 /\ \A i \in 1..(n - 1) : frames'[i] = frames[i]
      BY <1>1, <3>1, ShrunkIs
    <3>3. Retains(n - 1) /\ (n - 1) + 1..Len(frames') = {}
      BY <1>2, <3>2 DEF Retains
    <3> QED
      BY <3>2, <3>3
  <2>3. ASSUME NEW f \in Frame, f.id = Top.id, frames' = Append(Front(frames), f)
        PROVE  /\ Len(frames') \in {n - 1, n} /\ Retains(n - 1)
               /\ \A i \in (n - 1) + 1..Len(frames') : frames'[i].id = Top.id
    <3>1. Relabels(f)
      BY <1>1, <2>3 DEF Relabels
    <3>2. Len(frames') = n /\ frames'[n] = f /\ \A i \in 1..(n - 1) : frames'[i] = frames[i]
      BY <1>1, <3>1, RelabelledIs
    <3>3. Retains(n - 1) /\ \A i \in (n - 1) + 1..Len(frames') : i = n
      BY <1>2, <3>2 DEF Retains
    <3> QED
      BY <2>3, <3>2, <3>3
  <2> QED
    BY <2>1, <2>2, <2>3 DEF TopOnly
<1> QED
  BY <1>2, <1>3, <1>4, <1>5 DEF Alone, TopOnly

\* The jumps of the innermost statement are pending in its frame.
LEMMA TopPending ==
    ASSUME Safe, CodeInv, OwnersInv, frames # <<>>, NEW j \in jumps, j.owner = Top.id
    PROVE  Pending(j, Len(frames))
<1>1. Len(frames) \in 1..Len(frames) /\ Top = frames[Len(frames)]
  BY FramesAre DEF Safe, NestInv, FrameInv
<1>2. Placed(j)
  BY DEF OwnersInv
<1>3. PICK i \in 1..Len(frames) : frames[i].id = j.owner /\ Pending(j, i)
  BY <1>1, <1>2 DEF Placed
<1>4. i = Len(frames)
  BY <1>1, <1>3, IdsDistinct DEF Safe, NestInv
<1> QED
  BY <1>3, <1>4

\* Statements without jumps.
LEMMA NoJumps ==
    ASSUME Safe, CodeInv, OwnersInv, frames # <<>>, Top.kind \in {"fn", "class", "try"}
    PROVE  \A j \in jumps : j.owner # Top.id
<1> SUFFICES ASSUME NEW j \in jumps, j.owner = Top.id PROVE FALSE
  OBVIOUS
<1>1. Pending(j, Len(frames)) /\ Top = frames[Len(frames)]
  BY TopPending, FramesAre DEF Safe, NestInv, FrameInv
<1>2. j.kind \in JumpKinds
  BY RecIs DEF CodeInv
<1> QED
  BY <1>1, <1>2, KindSets DEF Pending, JumpKinds

LEMMA OtherStep ==
    ASSUME Safe, JumpInv, Kept, TopOnly, jumps' = jumps, place' = place,
           Top.kind \in {"fn", "class", "try"}, frames' = Front(frames) \/ \E f : Continued(f),
           \A f : ~Entered(f)
    PROVE  JumpInv'
<1>1. PICK n : n = Len(frames)
  OBVIOUS
<1>2. Alone(Top.id, n - 1) /\ n \in Nat \ {0} /\ Top = frames[n] /\ Len(frames') \in {n - 1, n}
  BY <1>1, TopAlone
<1>3. Safe' /\ CodeInv' /\ errors \subseteq errors'
  <2>1. CodeInv'
    BY AddsNone, AddedCode DEF JumpInv, CodeInv
  <2>2. ErrorsKept
    BY DEF Kept, Nesting, Stayed, Left, Entered, Continued
  <2> QED
    BY <2>1, <2>2, KeptSafe DEF ErrorsKept
<1>4. \A i \in (n - 1) + 1..Len(frames') : frames'[i].kind \notin ContextKinds
  <2>1. CASE frames' = Front(frames)
    <3>1. Len(frames') = n - 1
      BY <1>1, <2>1, FrontIs DEF Safe, NestInv, FrameInv, TopOnly
    <3> QED
      BY <1>2, <3>1
  <2>2. ASSUME NEW f, Continued(f) PROVE \A i \in (n - 1) + 1..Len(frames') : frames'[i].kind \notin ContextKinds
    <3>1. Len(frames') = n /\ frames'[n] = f /\ f.kind \in PartKinds
      BY <1>1, <2>2, RelabelledIs DEF Continued, Safe, NestInv, FrameInv
    <3>2. \A i \in (n - 1) + 1..Len(frames') : i = n
      BY <1>2, <3>1
    <3> QED
      BY <3>1, <3>2, KindSets
  <2> QED
    BY <2>1, <2>2
<1>5. Clean /\ OwnersInv => \A j \in jumps' : j.owner # Top.id
  BY NoJumps DEF JumpInv, TopOnly
<1> QED
  BY <1>2, <1>3, <1>4, <1>5, AloneStep

-----------------------------------------------------------------------------
LEMMA NotEntered ==
    ASSUME Safe, made' = made \/ frames' = frames
    PROVE  \A f : ~Entered(f)
<1> SUFFICES ASSUME NEW f, Entered(f) PROVE FALSE
  OBVIOUS
<1>1. made \in Nat /\ made' = made + 1 /\ Grows(f)
  BY NumbersAre DEF Safe, NestInv, FrameInv, Entered, Now
<1>2. Len(frames) \in Nat /\ Len(frames') = Len(frames) + 1
  BY <1>1, GrownIs DEF Safe, NestInv, FrameInv
<1> QED
  BY <1>1, <1>2

LEMMA EnteredIs ==
    ASSUME Safe, NEW f, Entered(f), NEW n, n = Len(frames)
    PROVE  /\ n \in Nat /\ Len(frames') = n + 1 /\ frames'[n + 1] = f /\ Retains(n)
           /\ f.id = Now /\ Now = made + 1 /\ made \in Nat /\ Now \in Ids /\ made' = Now
           /\ f.kind # "fn" => ChunkAt(n + 1)' = Chunk
           /\ \A g : Entered(g) => g = f
<1>1. Grows(f) /\ f.id = Now /\ made < MaxStatements /\ made' = Now /\ f \in Frame
  BY DEF Entered, Grows
<1>2. made \in Nat /\ Now \in Ids /\ Now = made + 1
  BY <1>1, NumbersAre DEF Safe, NestInv, FrameInv, Now
<1>3. /\ n \in Nat /\ Len(frames') = n + 1 /\ frames'[n + 1] = f /\ \A i \in 1..n : frames'[i] = frames[i]
  BY <1>1, GrownIs DEF Safe, NestInv, FrameInv
<1>4. Retains(n)
  BY <1>3 DEF Retains
<1>5. ASSUME f.kind # "fn" PROVE ChunkAt(n + 1)' = Chunk
  <2>1. \A k : k \in 1..(n + 1) <=> k \in 1..n \/ k = n + 1
    BY <1>3
  <2>2. FunctionsUpTo(n + 1)' = FunctionsUpTo(n)'
    BY <1>3, <1>5, <2>1 DEF FunctionsUpTo
  <2>3. ChunkAt(n + 1)' = ChunkAt(n)'
    BY <2>2 DEF ChunkAt
  <2>4. ChunkAt(n)' = ChunkAt(n)
    BY <1>3, ChunkAtSame
  <2>5. Chunk = ChunkAt(n)
    BY ChunkAtTop DEF Safe, NestInv
  <2> QED
    BY <2>3, <2>4, <2>5
<1>6. ASSUME NEW g, Entered(g) PROVE g = f
  <2>1. Grows(g)
    BY <1>6 DEF Entered
  <2>2. frames'[n + 1] = g
    BY <2>1, GrownIs DEF Safe, NestInv, FrameInv
  <2> QED
    BY <1>3, <2>2
<1> QED
  BY <1>1, <1>2, <1>3, <1>4, <1>5, <1>6

\* A statement begins, with or without a jump of its own.
EnteredJump(f, N) ==
    /\ \A e \in N : /\ e.chunk = Chunk /\ e.owner = Now /\ e.op = "jump"
                    /\ \/ e.kind = "exit" /\ f.kind \in {"while", "for"}
                       \/ e.kind = "then" /\ f.kind = "if"
    /\ f.kind = "while" => \E e \in N : TRUE

LEMMA EnteredStep ==
    ASSUME Safe, JumpInv, Kept, NEW f, Entered(f), NEW N, Adds(N), EnteredJump(f, N), place' = place,
           f.kind \notin ContextKinds => loop_stack' = loop_stack,
           f.kind \in ContextKinds => loop_stack'[loop_depth].breaks = <<>>,
           f.kind \in LoopKinds => /\ loop_stack'[loop_depth].continues = <<>>
                                   /\ f.start <= count'[Chunk]
    PROVE  JumpInv'
<1>1. PICK n : n = Len(frames)
  OBVIOUS
<1>2. /\ n \in Nat /\ Len(frames') = n + 1 /\ frames'[n + 1] = f /\ Retains(n)
      /\ f.id = Now /\ Now = made + 1 /\ made \in Nat /\ Now \in Ids /\ made' = Now
      /\ f.kind # "fn" => ChunkAt(n + 1)' = Chunk
      /\ \A g : Entered(g) => g = f
  BY <1>1, EnteredIs
<1>3. CodeInv'
  BY <1>2, AddedCode DEF JumpInv, CodeInv
<1>4. \A j \in jumps : j.owner # Now
  <2>1. \A j \in jumps : j.owner \in Nat /\ j.owner <= made
    BY RecIs DEF JumpInv, CodeInv, InCode
  <2> QED
    BY <1>2, <2>1
<1>5. \A i \in 1..n : frames[i].id # Now
  <2>1. \A i \in 1..n : frames[i].id \in Nat /\ frames[i].id <= made
    BY <1>1, FramesAre, FrameFields DEF Safe, NestInv, FrameInv
  <2> QED
    BY <1>2, <2>1
<1>6. \A i \in n + 1..Len(frames') : i = n + 1
  BY <1>2
<1>7. Alone(Now, n)
  <2>1. \A i \in 1..n : frames[i].kind \in ContextKinds => loop_stack'[frames[i].ctx] = loop_stack[frames[i].ctx]
    <3>1. CASE f.kind \notin ContextKinds
      BY <3>1
    <3>2. CASE f.kind \in ContextKinds
      <4> SUFFICES ASSUME NEW i \in 1..n, frames[i].kind \in ContextKinds
                   PROVE  loop_stack'[frames[i].ctx] = loop_stack[frames[i].ctx]
        OBVIOUS
      <4>1. i \in Open(ContextKinds) /\ frames[i] \in Frame
        BY <1>1, FramesAre DEF Open, Safe, NestInv, FrameInv
      <4>2. frames[i].ctx \in Nat /\ frames[i].ctx < loop_depth /\ frames[i].ctx < MaxDepth /\ loop_depth \in Nat
        BY <4>1, FrameFields DEF Safe, NestInv, ContextInv
      <4>3. frames[i].ctx \in 0..MaxDepth - 1 /\ frames[i].ctx # loop_depth
        BY <4>2, NumbersAre
      <4>4. PICK c : loop_stack' = [loop_stack EXCEPT ![loop_depth] = c]
        BY <3>2 DEF Entered
      <4>5. loop_stack \in [0..MaxDepth - 1 -> LoopContext]
        BY DEF Safe, NestInv, ContextInv
      <4> QED
        BY <4>3, <4>4, <4>5
    <3> QED
      BY <3>1, <3>2
  <2>2. \A j \in jumps \cup jumps' : j.owner # Now => j \in jumps /\ j \in jumps'
    BY DEF Adds, EnteredJump
  <2>3. n + 1..Len(frames) = {}
    BY <1>1, <1>2
  <2> QED
    BY <1>2, <1>5, <1>6, <2>1, <2>2, <2>3 DEF Alone
<1>8. ASSUME f.kind \in ContextKinds PROVE Lists(n + 1)'
  <2>0. f.ctx = loop_depth /\ f.kind # "fn"
    BY <1>8, KindSets DEF Entered
  <2>1. BreaksOf(n + 1)' = <<>> /\ (f.kind \in LoopKinds => ContinuesOf(n + 1)' = <<>>)
    BY <1>2, <1>8, <2>0 DEF BreaksOf, ContinuesOf
  <2>2. \A x : ~Contains(<<>>, x)
    BY DEF Contains
  <2>3. f.kind = "while" => ExitFirst(n + 1)'
    <3> SUFFICES ASSUME f.kind = "while" PROVE ExitFirst(n + 1)'
      OBVIOUS
    <3>1. PICK e \in N : TRUE
      BY DEF EnteredJump
    <3>2. e \in jumps' /\ e.chunk = Chunk /\ e.kind = "exit" /\ e.owner = Now
      BY <3>1 DEF Adds, EnteredJump
    <3>3. \A b \in jumps' : b.kind = "break" => b.owner # Now
      BY <1>4 DEF Adds, EnteredJump
    <3>4. ChunkAt(n + 1)' = Chunk
      BY <1>2, <2>0
    <3> QED
      BY <1>2, <3>2, <3>3, <3>4 DEF ExitFirst
  <2> QED
    BY <1>2, <2>1, <2>2, <2>3 DEF Lists
<1>9. ASSUME NEW j \in jumps', j.owner = Now PROVE Placed(j)'
  <2>1. j \in N
    BY <1>4, <1>9 DEF Adds
  <2>2. /\ j.chunk = Chunk /\ j.owner = Now /\ j.op = "jump"
        /\ \/ j.kind = "exit" /\ f.kind \in {"while", "for"}
           \/ j.kind = "then" /\ f.kind = "if"
    BY <2>1 DEF EnteredJump
  <2>3. ChunkAt(n + 1)' = Chunk
    BY <1>2, <2>2
  <2>4. Pending(j, n + 1)'
    BY <1>2, <2>2, <2>3 DEF Pending
  <2>5. n + 1 \in 1..Len(frames') /\ frames'[n + 1].id = j.owner
    BY <1>2, <2>2
  <2> QED
    BY <2>4, <2>5 DEF Placed
<1>10. Safe' /\ errors \subseteq errors'
  BY KeptSafe DEF Entered, ErrorsKept
<1> QED
  BY <1>2, <1>3, <1>6, <1>7, <1>8, <1>9, <1>10, AloneStep

LEMMA PlainStep ==
    ASSUME Safe, JumpInv, Kept, RoomLeft, frames' = frames, jumps' = jumps, place' = place,
           loop_stack' = loop_stack
    PROVE  JumpInv'
<1>1. PICK n : n = Len(frames)
  OBVIOUS
<1>2. n \in Nat /\ Now \in Ids /\ Now = made + 1 /\ made \in Nat
  BY <1>1, BeginsIs, LenProperties, NumbersAre DEF Safe, NestInv, FrameInv
<1>3. CodeInv'
  BY AddsNone, NotEntered, AddedCode DEF JumpInv, CodeInv
<1>4. \A j \in jumps : j.owner # Now
  <2>1. \A j \in jumps : j.owner \in Nat /\ j.owner <= made
    BY RecIs DEF JumpInv, CodeInv, InCode
  <2> QED
    BY <1>2, <2>1
<1>5. \A i \in 1..n : frames[i].id # Now
  <2>1. \A i \in 1..n : frames[i].id \in Nat /\ frames[i].id <= made
    BY <1>1, FramesAre, FrameFields DEF Safe, NestInv, FrameInv
  <2> QED
    BY <1>2, <2>1
<1>6. n + 1..Len(frames) = {} /\ Retains(n)
  BY <1>1, <1>2 DEF Retains
<1>7. Alone(Now, n)
  BY <1>2, <1>5, <1>6 DEF Alone
<1>8. Safe' /\ errors \subseteq errors'
  BY KeptSafe DEF Kept, Nesting, Stayed, Left, Entered, Continued, ErrorsKept
<1> QED
  BY <1>3, <1>4, <1>6, <1>7, <1>8, AloneStep

-----------------------------------------------------------------------------
\* Statements that begin.
LEMMA PushEntered ==
    ASSUME Safe, Kept, NEW f, Push(f), made' = Now
    PROVE  Entered(f)
<1>1. frames' = Append(frames, f) /\ made \in Nat /\ made' = made + 1 /\ frames \in Seq(Frame) /\ Len(frames) \in Nat
  BY NumbersAre, LenProperties DEF Push, Safe, NestInv, FrameInv, Now
<1>2. ~Left /\ \A g : ~Continued(g)
  BY <1>1 DEF Left, Continued
<1>3. ~Stayed
  <2>1. Len(Append(frames, f)) = Len(frames) + 1
    BY <1>1
  <2>2. Append(frames, f) # frames
    BY <1>1, <2>1
  <2> QED
    BY <1>1, <2>2 DEF Stayed
<1>4. PICK g : Entered(g)
  BY <1>2, <1>3 DEF Kept, Nesting
<1>5. frames' = Append(frames, g)
  BY <1>4 DEF Entered, Grows
<1>6. f = g
  <2>1. PICK T : T = Frame \cup {f, g}
    OBVIOUS
  <2>2. frames \in Seq(T) /\ f \in T /\ g \in T
    BY <1>1, <2>1
  <2>3. Append(frames, f)[Len(frames) + 1] = f /\ Append(frames, g)[Len(frames) + 1] = g
    BY <2>2, AppendProperties
  <2> QED
    BY <1>1, <1>5, <2>3
<1> QED
  BY <1>4, <1>6

LEMMA PlainJumps == ASSUME Safe, JumpInv, NEW n \in Nat, Plain(n) PROVE JumpInv'
<1>1. RoomLeft /\ frames' = frames /\ jumps' = jumps /\ place' = place /\ loop_stack' = loop_stack
  BY DEF Plain, CanBegin
<1> QED
  BY <1>1, PlainKept, PlainStep

LEMMA ExportJumps == ASSUME Safe, JumpInv, Export PROVE JumpInv'
<1>1. jumps' = jumps /\ place' = place /\ frames' = frames /\ errors' # {}
  BY DEF Export, Report
<1> QED
  BY <1>1, ExportKept, NotEntered, ErrorStep

LEMMA MissingSeparatorJumps == ASSUME Safe, JumpInv, MissingSeparator PROVE JumpInv'
<1>1. jumps' = jumps /\ place' = place /\ frames' = frames /\ errors' # {}
  BY DEF MissingSeparator, Report
<1> QED
  BY <1>1, MissingSeparatorKept, NotEntered, ErrorStep

LEMMA ReturnEarlyJumps == ASSUME Safe, JumpInv, ReturnEarly PROVE JumpInv'
<1>1. jumps' = jumps /\ place' = place /\ made' = made /\ errors' # {}
  BY DEF ReturnEarly, Safe, NestInv, FrameInv
<1> QED
  BY <1>1, ReturnEarlyKept, NotEntered, ErrorStep

LEMMA GiveUpJumps ==
    ASSUME Safe, JumpInv, Kept, NEW e, GiveUp(e), place' = place
    PROVE  JumpInv'
<1>1. jumps' = jumps /\ frames' = frames /\ errors' # {}
  BY DEF GiveUp, Report
<1> QED
  BY <1>1, NotEntered, ErrorStep

\* A new jump of a statement.
LEMMA AddsOne ==
    ASSUME Safe, NEW j \in JumpRec, jumps' = jumps \cup {j}, j.chunk = Chunk, Here <= j.at,
           j.at < count'[Chunk], j.owner <= made'
    PROVE  Adds({j})
BY StartsHere DEF Adds, OneEach

LEMMA NowIs == ASSUME Safe, RoomLeft PROVE Now \in Chunks /\ Now \in Nat /\ Now \in Ids /\ Now <= Now
BY BeginsIs DEF Safe, NestInv, Chunks

LEMMA CountIs ==
    ASSUME Safe, NEW v, count' = [count EXCEPT ![Chunk] = v]
    PROVE  count'[Chunk] = v
BY StartsHere DEF Safe, CountInv

LEMMA ContextIs ==
    ASSUME Safe, loop_depth < MaxDepth, NEW c, loop_stack' = [loop_stack EXCEPT ![loop_depth] = c]
    PROVE  loop_stack'[loop_depth] = c
<1>1. loop_depth \in 0..MaxDepth - 1
  BY NumbersAre DEF Safe, NestInv, ContextInv
<1> QED
  BY <1>1 DEF Safe, NestInv, ContextInv

LEMMA BeginWhileJumps == ASSUME Safe, JumpInv, NEW n \in Nat, BeginWhile(n) PROVE JumpInv'
<1>0. Kept /\ RoomLeft /\ made' = Now /\ place' = place
  BY BeginWhileKept DEF BeginWhile, CanBegin
<1>1. CASE GiveUp("depth")
  BY <1>0, <1>1, GiveUpJumps
<1>2. CASE ~GiveUp("depth")
  <2> DEFINE f == [kind |-> "while", id |-> Now, ctx |-> loop_depth, start |-> Here]
             j == Jump(Here + n + 1, "exit", "jump", Now, Now)
  <2>1. /\ loop_depth < MaxDepth /\ Push(f) /\ loop_stack' = [loop_stack EXCEPT ![loop_depth] = FreshContext]
        /\ count' = [count EXCEPT ![Chunk] = @ + n + 2] /\ jumps' = jumps \cup {j}
    BY <1>2 DEF BeginWhile
  <2>2. f.kind = "while" /\ f.start = Here
    OBVIOUS
  <2>3. Here \in Nat /\ Here + n + 1 \in Nat
    BY StartsHere
  <2>4a. count' = [count EXCEPT ![Chunk] = Here + n + 2]
    BY <2>1, StartsHere
  <2>4. count'[Chunk] = Here + n + 2
    BY <2>4a, CountIs
  <2>5. /\ j \in JumpRec /\ j.chunk = Chunk /\ j.at = Here + n + 1 /\ j.kind = "exit" /\ j.op = "jump" /\ j.owner = Now
    BY <1>0, <2>3, NowIs, StartsHere DEF Jump, JumpRec, JumpKinds, Ops
  <2>6. loop_stack'[loop_depth].breaks = <<>> /\ loop_stack'[loop_depth].continues = <<>>
    BY <2>1, ContextIs DEF FreshContext, NoContext
  <2> HIDE DEF f, j
  <2>7. Entered(f)
    BY <1>0, <2>1, PushEntered
  <2>8. Adds({j})
    <3>1. Here <= j.at /\ j.at < count'[Chunk] /\ j.owner <= made'
      BY <1>0, <2>3, <2>4, <2>5, NowIs
    <3> QED
      BY <2>1, <2>5, <3>1, AddsOne
  <2>9. EnteredJump(f, {j})
    BY <2>2, <2>5 DEF EnteredJump
  <2>10. f.start <= count'[Chunk]
    BY <2>2, <2>3, <2>4
  <2> QED
    BY <1>0, <2>2, <2>6, <2>7, <2>8, <2>9, <2>10, KindSets, EnteredStep
<1> QED
  BY <1>1, <1>2

LEMMA BeginDoJumps == ASSUME Safe, JumpInv, BeginDo PROVE JumpInv'
<1>0. Kept /\ RoomLeft /\ made' = Now /\ place' = place
  BY BeginDoKept DEF BeginDo, CanBegin
<1>1. CASE GiveUp("depth")
  BY <1>0, <1>1, GiveUpJumps
<1>2. CASE ~GiveUp("depth")
  <2> DEFINE f == [kind |-> "do", id |-> Now, ctx |-> loop_depth, start |-> Here]
  <2>1. /\ loop_depth < MaxDepth /\ Push(f) /\ loop_stack' = [loop_stack EXCEPT ![loop_depth] = FreshContext]
        /\ count' = count /\ jumps' = jumps
    BY <1>2 DEF BeginDo
  <2>2. f.kind = "do" /\ f.start = Here
    OBVIOUS
  <2>3. loop_stack'[loop_depth].breaks = <<>> /\ loop_stack'[loop_depth].continues = <<>>
    BY <2>1, ContextIs DEF FreshContext, NoContext
  <2> HIDE DEF f
  <2>4. Entered(f)
    BY <1>0, <2>1, PushEntered
  <2>5. Adds({}) /\ EnteredJump(f, {})
    BY <2>1, <2>2, AddsNone DEF EnteredJump
  <2>6. f.start <= count'[Chunk]
    BY <2>1, <2>2, StartsHere
  <2> QED
    BY <1>0, <2>2, <2>3, <2>4, <2>5, <2>6, KindSets, EnteredStep
<1> QED
  BY <1>1, <1>2

LEMMA BeginForJumps ==
    ASSUME Safe, JumpInv, NEW n \in Nat, NEW inc \in {"none", "known", "dropped"}, BeginFor(0, n, inc)
    PROVE  JumpInv'
<1>0. Kept /\ RoomLeft /\ made' = Now /\ place' = place /\ loop_depth' = loop_depth + 1
  BY BeginForKept DEF BeginFor, CanBegin
<1>1. CASE GiveUp("depth")
  BY <1>0, <1>1, GiveUpJumps
<1>2. CASE ~GiveUp("depth")
  <2> DEFINE f == [kind |-> "for", id |-> Now, ctx |-> loop_depth, start |-> Here + 0, inc |-> inc]
             j == Jump(Here + 0 + n + 1, "exit", "jump", Now, Now)
             end == Here + 0 + n + (IF n = 0 THEN 0 ELSE 2)
  <2>1. /\ loop_depth' <= MaxDepth /\ Push(f) /\ loop_stack' = [loop_stack EXCEPT ![loop_depth] = FreshContext]
        /\ count' = [count EXCEPT ![Chunk] = @ + 0 + n + (IF n = 0 THEN 0 ELSE 2)]
        /\ jumps' = IF n = 0 THEN jumps ELSE jumps \cup {j}
    BY <1>2 DEF BeginFor
  <2>2. f.kind = "for" /\ f.start = Here + 0
    OBVIOUS
  <2>3. Here \in Nat /\ Here + 0 + n + 1 \in Nat
    BY StartsHere
  <2>4a. count' = [count EXCEPT ![Chunk] = end]
    BY <2>1, StartsHere
  <2>4. count'[Chunk] = end
    BY <2>4a, CountIs
  <2>5. /\ j \in JumpRec /\ j.chunk = Chunk /\ j.at = Here + 0 + n + 1 /\ j.kind = "exit" /\ j.op = "jump"
        /\ j.owner = Now
    BY <1>0, <2>3, NowIs, StartsHere DEF Jump, JumpRec, JumpKinds, Ops
  <2>6. loop_stack'[loop_depth].breaks = <<>> /\ loop_stack'[loop_depth].continues = <<>>
    <3>1. loop_depth < MaxDepth
      BY <1>0, <2>1, NumbersAre DEF Safe, NestInv, ContextInv
    <3> QED
      BY <2>1, <3>1, ContextIs DEF FreshContext, NoContext
  <2>7. f.start <= count'[Chunk] /\ (n # 0 => Here <= Here + 0 + n + 1 /\ Here + 0 + n + 1 < count'[Chunk])
    BY <2>2, <2>3, <2>4
  <2> HIDE DEF f, j, end
  <2>8. Entered(f)
    BY <1>0, <2>1, PushEntered
  <2>9. CASE n = 0
    <3>1. Adds({}) /\ EnteredJump(f, {})
      BY <2>1, <2>2, <2>9, AddsNone DEF EnteredJump
    <3> QED
      BY <1>0, <2>2, <2>6, <2>7, <2>8, <3>1, KindSets, EnteredStep
  <2>10. CASE n # 0
    <3>1. Here <= j.at /\ j.at < count'[Chunk] /\ j.owner <= made'
      BY <1>0, <2>5, <2>7, <2>10, NowIs
    <3>2. Adds({j})
      BY <2>1, <2>5, <2>10, <3>1, AddsOne
    <3>3. EnteredJump(f, {j})
      BY <2>2, <2>5 DEF EnteredJump
    <3> QED
      BY <1>0, <2>2, <2>6, <2>7, <2>8, <3>2, <3>3, KindSets, EnteredStep
  <2> QED
    BY <2>9, <2>10
<1> QED
  BY <1>1, <1>2

LEMMA BeginSwitchJumps == ASSUME Safe, JumpInv, NEW n \in Nat, BeginSwitch(n) PROVE JumpInv'
<1>0. Kept /\ RoomLeft /\ made' = Now /\ place' = place /\ jumps' = jumps
  BY BeginSwitchKept DEF BeginSwitch, CanBegin
<1>1. CASE Report("depth") /\ UNCHANGED frames
  <2>1. errors' # {} /\ frames' = frames
    BY <1>1 DEF Report
  <2> QED
    BY <1>0, <2>1, NotEntered, ErrorStep
<1>2. CASE ~(Report("depth") /\ UNCHANGED frames)
  <2> DEFINE f == [kind |-> "switch", id |-> Now, ctx |-> loop_depth]
             c == [loop_stack[loop_depth] EXCEPT !.breaks = <<>>, !.id = Now]
  <2>1. /\ loop_depth < MaxDepth /\ Push(f)
        /\ loop_stack' = [loop_stack EXCEPT ![loop_depth] = c]
    BY <1>2 DEF BeginSwitch
  <2>2. f.kind = "switch" /\ c.breaks = <<>>
    <3>1. loop_depth \in 0..MaxDepth - 1 /\ loop_stack \in [0..MaxDepth - 1 -> LoopContext]
      BY <2>1, NumbersAre DEF Safe, NestInv, ContextInv
    <3>2. PICK b \in LoopContext : b = loop_stack[loop_depth]
      BY <3>1
    <3> QED
      BY <3>2 DEF LoopContext
  <2> HIDE DEF f, c
  <2>3. loop_stack'[loop_depth].breaks = <<>>
    BY <2>1, <2>2, ContextIs
  <2>4. Entered(f)
    BY <1>0, <2>1, PushEntered
  <2>5. Adds({}) /\ EnteredJump(f, {})
    BY <1>0, <2>2, AddsNone DEF EnteredJump
  <2> QED
    BY <1>0, <2>2, <2>3, <2>4, <2>5, KindSets, EnteredStep
<1> QED
  BY <1>1, <1>2

LEMMA BeginIfJumps == ASSUME Safe, JumpInv, NEW n \in Nat, BeginIf(n) PROVE JumpInv'
<1> DEFINE f == [kind |-> "if", id |-> Now]
           j == Jump(Here + n + 1, "then", "jump", Now, Now)
<1>0. Kept /\ RoomLeft /\ made' = Now /\ place' = place /\ loop_stack' = loop_stack
  BY BeginIfKept DEF BeginIf, CanBegin
<1>1. Push(f) /\ count' = [count EXCEPT ![Chunk] = @ + n + 2] /\ jumps' = jumps \cup {j}
  BY DEF BeginIf
<1>2. f.kind = "if"
  OBVIOUS
<1>3. Here \in Nat /\ Here + n + 1 \in Nat
  BY StartsHere
<1>4a. count' = [count EXCEPT ![Chunk] = Here + n + 2]
  BY <1>1, StartsHere
<1>4. count'[Chunk] = Here + n + 2
  BY <1>4a, CountIs
<1>5. /\ j \in JumpRec /\ j.chunk = Chunk /\ j.at = Here + n + 1 /\ j.kind = "then" /\ j.op = "jump" /\ j.owner = Now
  BY <1>0, <1>3, NowIs, StartsHere DEF Jump, JumpRec, JumpKinds, Ops
<1> HIDE DEF f, j
<1>6. Entered(f)
  BY <1>0, <1>1, PushEntered
<1>7. Here <= j.at /\ j.at < count'[Chunk] /\ j.owner <= made'
  BY <1>0, <1>3, <1>4, <1>5, NowIs
<1>8. Adds({j})
  BY <1>1, <1>5, <1>7, AddsOne
<1>9. EnteredJump(f, {j})
  BY <1>2, <1>5 DEF EnteredJump
<1> QED
  BY <1>0, <1>2, <1>6, <1>8, <1>9, KindSets, EnteredStep

\* Statements without a jump or a context.
LEMMA OtherBegins ==
    ASSUME Safe, JumpInv, Kept, NEW f, Push(f), made' = Now, f.kind \in {"fn", "class", "try"},
           jumps' = jumps, place' = place, loop_stack' = loop_stack
    PROVE  JumpInv'
<1>1. Entered(f)
  BY PushEntered
<1>2. Adds({}) /\ EnteredJump(f, {})
  BY AddsNone DEF EnteredJump
<1> QED
  BY <1>1, <1>2, KindSets, EnteredStep

LEMMA BeginTryJumps == ASSUME Safe, JumpInv, BeginTry PROVE JumpInv'
<1>0. Kept /\ made' = Now /\ place' = place
  BY BeginTryKept DEF BeginTry
<1>1. CASE GiveUp("depth")
  BY <1>0, <1>1, GiveUpJumps
<1>2. CASE ~GiveUp("depth")
  <2> DEFINE f == [kind |-> "try", id |-> Now, part |-> "try"]
  <2>1. Push(f) /\ jumps' = jumps /\ loop_stack' = loop_stack /\ f.kind = "try"
    BY <1>2 DEF BeginTry
  <2> HIDE DEF f
  <2> QED
    BY <1>0, <2>1, OtherBegins
<1> QED
  BY <1>1, <1>2

LEMMA BeginClassJumps == ASSUME Safe, JumpInv, NEW n \in Nat, BeginClass(n) PROVE JumpInv'
<1> DEFINE f == [kind |-> "class", id |-> Now]
<1>1. /\ Kept /\ made' = Now /\ place' = place /\ jumps' = jumps /\ loop_stack' = loop_stack
      /\ Push(f) /\ f.kind = "class"
  BY BeginClassKept DEF BeginClass
<1> HIDE DEF f
<1> QED
  BY <1>1, OtherBegins

LEMMA BeginBodyJumps ==
    ASSUME Safe, JumpInv, Kept, NEW flavour, BeginBody(flavour)
    PROVE  JumpInv'
<1> DEFINE f == [kind |-> "fn", id |-> Now, flavour |-> flavour, async |-> async, generator |-> generator]
<1>1. /\ made' = Now /\ place' = place /\ jumps' = jumps /\ loop_stack' = loop_stack
      /\ Push(f) /\ f.kind = "fn"
  BY DEF BeginBody
<1> HIDE DEF f
<1> QED
  BY <1>1, OtherBegins

\* Statements without jumps that end or go on.
LEMMA OtherEnds ==
    ASSUME Safe, JumpInv, Kept, Pop, frames # <<>>, Top.kind \in {"fn", "class", "try"}, made' = made,
           jumps' = jumps, place' = place, loop_stack' = loop_stack
    PROVE  JumpInv'
<1>1. TopOnly
  BY DEF TopOnly, Pop
<1> QED
  BY <1>1, NotEntered, OtherStep DEF Pop

LEMMA EndTryJumps == ASSUME Safe, JumpInv, EndTry PROVE JumpInv'
<1>1. /\ Pop /\ frames # <<>> /\ Top.kind = "try" /\ made' = made /\ jumps' = jumps /\ place' = place
      /\ loop_stack' = loop_stack
  BY DEF EndTry, Innermost
<1> QED
  BY <1>1, EndTryKept, OtherEnds

LEMMA EndClassJumps == ASSUME Safe, JumpInv, EndClass PROVE JumpInv'
<1>1. /\ Pop /\ frames # <<>> /\ Top.kind = "class" /\ made' = made /\ jumps' = jumps /\ place' = place
      /\ loop_stack' = loop_stack
  BY DEF EndClass, Innermost
<1> QED
  BY <1>1, EndClassKept, OtherEnds

LEMMA EndBodyJumps ==
    ASSUME Safe, JumpInv, Kept, NEW flavour, NEW bytes, EndBody(flavour, bytes)
    PROVE  JumpInv'
<1>1. /\ Pop /\ frames # <<>> /\ Top.kind = "fn" /\ made' = made /\ jumps' = jumps /\ place' = place
      /\ loop_stack' = loop_stack
  BY DEF EndBody, Innermost
<1> QED
  BY <1>1, OtherEnds

LEMMA NextPartJumps ==
    ASSUME Safe, JumpInv, NEW from, NEW part \in {"catch", "finally"}, NEW bytes \in Nat, NextPart(from, part, bytes)
    PROVE  JumpInv'
<1> DEFINE f == [kind |-> "try", id |-> Top.id, part |-> part]
<1>1. /\ frames # <<>> /\ Top.kind = "try" /\ frames' = Append(Front(frames), f)
      /\ made' = made /\ jumps' = jumps /\ place' = place /\ UNCHANGED <<errors, panic>>
      /\ loop_stack' = loop_stack /\ UNCHANGED <<loop_depth, exception_depth, async, generator>>
  BY DEF NextPart, Innermost
<1>2. f \in Frame /\ f.kind = "try" /\ f.id = Top.id
  BY <1>1, TopIs DEF Frame
<1> HIDE DEF f
<1>3. Continued(f)
  BY <1>1, <1>2, Quiet, UnchangedContexts DEF Continued, Relabels, PartKinds, Safe, NestInv
<1>4. TopOnly
  BY <1>1, <1>2 DEF TopOnly
<1> QED
  BY <1>1, <1>3, <1>4, NextPartKept, NotEntered, OtherStep

-----------------------------------------------------------------------------
\* The cases of a switch.
LEMMA SwitchStep ==
    ASSUME Safe, JumpInv, Kept, frames' = frames, loop_stack' = loop_stack, frames # <<>>, Top.kind = "switch",
           NEW N, Adds(N),
           \A e \in N : e.chunk = Chunk /\ e.owner = Top.id /\ e.op = "jump" /\ e.kind = "case",
           place' \in [Ids -> PlaceRec], \A x \in Ids : x # Top.id => place'[x] = place[x]
    PROVE  JumpInv'
<1>1. PICK n : n = Len(frames)
  OBVIOUS
<1>2. TopOnly
  BY DEF TopOnly, Adds
<1>3. Alone(Top.id, n - 1) /\ n \in Nat \ {0} /\ Top = frames[n]
  BY <1>1, <1>2, TopAlone
<1>4. CodeInv'
  BY NotEntered, AddedCode DEF JumpInv
<1>5. Safe' /\ errors \subseteq errors'
  BY KeptSafe DEF Kept, Nesting, Stayed, Left, Entered, Continued, ErrorsKept
<1>6. ChunkAt(n)' = ChunkAt(n) /\ ChunkAt(n) = Chunk
  BY <1>1, <1>3, ChunkAtSame, ChunkAtTop DEF Safe, NestInv
<1>7. BreaksOf(n)' = BreaksOf(n) /\ ContinuesOf(n)' = ContinuesOf(n)
  BY DEF BreaksOf, ContinuesOf
<1>8. ASSUME ListsInv PROVE Lists(n)'
  <2>1. Lists(n)
    BY <1>1, <1>3, <1>8, FramesAre, KindSets DEF ListsInv, Open, Safe, NestInv, FrameInv
  <2>2. \A x \in Nat : Contains(BreaksOf(n)', x) => BreakAt(n, x)
    BY <1>7, <2>1 DEF Lists
  <2>3. ASSUME NEW x, BreakAt(n, x) PROVE BreakAt(n, x)'
    BY <1>6, <2>3 DEF BreakAt, Adds
  <2>4. frames'[n].kind = "switch" /\ "switch" \notin LoopKinds
    BY <1>3, KindSets
  <2> QED
    BY <2>2, <2>3, <2>4 DEF Lists, Contains
<1>9. ASSUME OwnersInv, NEW j \in jumps', j.owner = Top.id PROVE Placed(j)'
  <2>1. Pending(j, n)'
    <3>1. CASE j \in jumps
      <4>1. Pending(j, n)
        BY <1>1, <1>9, <3>1, TopPending DEF JumpInv
      <4> QED
        BY <1>3, <1>6, <1>7, <4>1 DEF Pending
    <3>2. CASE j \in N
      BY <1>3, <1>6, <3>2 DEF Pending
    <3> QED
      BY <3>1, <3>2 DEF Adds
  <2>2. n \in 1..Len(frames') /\ frames'[n].id = j.owner
    BY <1>1, <1>3, <1>9
  <2> QED
    BY <2>1, <2>2 DEF Placed
<1>10. \A i \in (n - 1) + 1..Len(frames') : i = n
  BY <1>1, <1>3
<1> QED
  BY <1>3, <1>4, <1>5, <1>8, <1>9, <1>10, AloneStep

LEMMA PlaceOf == ASSUME Safe, CodeInv, frames # <<>> PROVE Top.id \in Ids /\ place[Top.id] \in PlaceRec
BY TopIs DEF CodeInv

LEMMA CaseJumps == ASSUME Safe, JumpInv, NEW n \in Nat, Case(n) PROVE JumpInv'
<1>0. /\ frames # <<>> /\ Top.kind = "switch" /\ frames' = frames /\ loop_stack' = loop_stack /\ made' = made
      /\ Kept
  BY CaseKept DEF Case, Innermost
<1>1. CASE Report("cases") /\ UNCHANGED <<jumps, place>>
  <2>1. errors' # {} /\ jumps' = jumps /\ place' = place
    BY <1>1 DEF Report
  <2> QED
    BY <1>0, <2>1, NotEntered, ErrorStep
<1>2. CASE ~(Report("cases") /\ UNCHANGED <<jumps, place>>)
  <2> DEFINE j == Jump(Here + n + 1, "case", "jump", Top.id, Cases + 1)
             p == place[Top.id]
             q == [p EXCEPT !.tests = Append(p.tests, Here), !.bodies = Append(p.bodies, Here + n + 2)]
  <2>1. /\ count' = [count EXCEPT ![Chunk] = @ + n + 2] /\ jumps' = jumps \cup {j}
        /\ place' = [place EXCEPT ![Top.id] = q]
    BY <1>2 DEF Case
  <2>2. Here \in Nat /\ Here + n + 1 \in Nat /\ Here + n + 2 \in Nat
    BY StartsHere
  <2>3. count' = [count EXCEPT ![Chunk] = Here + n + 2]
    BY <2>1, StartsHere
  <2>4. count'[Chunk] = Here + n + 2
    BY <2>3, CountIs
  <2>5. Top.id \in Ids /\ p \in PlaceRec /\ place \in [Ids -> PlaceRec]
    BY <1>0, PlaceOf DEF JumpInv, CodeInv
  <2>6. Cases + 1 \in Nat
    <3>1. p.tests \in Seq(Int)
      BY <2>5 DEF PlaceRec
    <3>2. Len(p.tests) \in Nat
      BY <3>1, LenProperties
    <3> QED
      BY <3>2 DEF Cases
  <2>7. q \in PlaceRec
    <3>1. p.tests \in Seq(Int) /\ p.bodies \in Seq(Int) /\ Here \in Int /\ Here + n + 2 \in Int
      BY <2>2, <2>5 DEF PlaceRec
    <3>2. Append(p.tests, Here) \in Seq(Int) /\ Append(p.bodies, Here + n + 2) \in Seq(Int)
      BY <3>1, AppendProperties
    <3> HIDE DEF p
    <3> QED
      BY <2>5, <3>2 DEF PlaceRec
  <2>8. /\ j \in JumpRec /\ j.chunk = Chunk /\ j.at = Here + n + 1 /\ j.kind = "case" /\ j.op = "jump"
        /\ j.owner = Top.id
    BY <2>2, <2>5, <2>6, StartsHere DEF Jump, JumpRec, JumpKinds, Ops, Chunks
  <2> HIDE DEF j, q
  <2>9. place' \in [Ids -> PlaceRec] /\ \A x \in Ids : x # Top.id => place'[x] = place[x]
    BY <2>1, <2>5, <2>7
  <2>10. Adds({j})
    <3>1. Top.id <= made
      BY <1>0, TopIs DEF Safe, NestInv, FrameInv
    <3>2. Here <= j.at /\ j.at < count'[Chunk] /\ j.owner <= made'
      BY <1>0, <2>2, <2>4, <2>8, <3>1
    <3> QED
      BY <2>1, <2>8, <3>2, AddsOne
  <2> QED
    BY <1>0, <2>8, <2>9, <2>10, SwitchStep
<1> QED
  BY <1>1, <1>2

LEMMA DefaultJumps == ASSUME Safe, JumpInv, Default PROVE JumpInv'
<1> DEFINE p == place[Top.id]
           q == [p EXCEPT !.default = Here]
<1>1. /\ frames # <<>> /\ Top.kind = "switch" /\ frames' = frames /\ loop_stack' = loop_stack /\ jumps' = jumps
      /\ Kept /\ place' = [place EXCEPT ![Top.id] = q]
  BY DefaultKept DEF Default, Innermost
<1>2. Top.id \in Ids /\ p \in PlaceRec /\ place \in [Ids -> PlaceRec]
  BY <1>1, PlaceOf DEF JumpInv, CodeInv
<1>3. q \in PlaceRec
  <2>1. Here \in Int
    BY StartsHere
  <2> HIDE DEF p
  <2> QED
    BY <1>2, <2>1 DEF PlaceRec
<1> HIDE DEF q
<1>4. place' \in [Ids -> PlaceRec] /\ \A x \in Ids : x # Top.id => place'[x] = place[x]
  BY <1>1, <1>2, <1>3
<1> QED
  BY <1>1, <1>4, AddsNone, SwitchStep

-----------------------------------------------------------------------------
\* break and continue.
LEMMA AppendContains ==
    ASSUME NEW s \in Seq(Nat), NEW a \in Nat
    PROVE  \A x : Contains(Append(s, a), x) <=> Contains(s, x) \/ x = a
<1>1. Len(s) \in Nat
  BY LenProperties
<1>2. PICK n \in Nat : n = Len(s)
  BY <1>1
<1>3. /\ Len(Append(s, a)) = n + 1 /\ Append(s, a)[n + 1] = a
      /\ \A i \in 1..n : Append(s, a)[i] = s[i]
  BY <1>2, AppendProperties
<1>4. \A i : i \in 1..(n + 1) <=> i \in 1..n \/ i = n + 1
  BY <1>2
<1> QED
  BY <1>2, <1>3, <1>4 DEF Contains

LEMMA PendingMore ==
    ASSUME frames' = frames, place' = place, NEW j, NEW p \in Nat,
           frames[p].kind \in ContextKinds =>
             \A x : /\ Contains(BreaksOf(p), x) => Contains(BreaksOf(p)', x)
                    /\ Contains(ContinuesOf(p), x) => Contains(ContinuesOf(p)', x),
           Pending(j, p)
    PROVE  Pending(j, p)'
<1>1. ChunkAt(p)' = ChunkAt(p)
  BY ChunkAtSame
<1>2. LoopKinds \subseteq ContextKinds
  BY KindSets
<1> DEFINE b == BreaksOf(p)'
           c == ContinuesOf(p)'
<1>3. frames[p].kind \in ContextKinds =>
        /\ Contains(BreaksOf(p), j.at) => Contains(b, j.at)
        /\ Contains(ContinuesOf(p), j.at) => Contains(c, j.at)
  OBVIOUS
<1>4. Pending(j, p)' <=>
        /\ j.chunk = ChunkAt(p)' /\ j.kind # "loop"
        /\ j.kind \in {"break", "continue"} => j.op = j.kind
        /\ j.kind \notin {"break", "continue"} => j.op = "jump"
        /\ j.kind = "exit" => frames'[p].kind \in {"while", "for"}
        /\ j.kind = "break" => frames'[p].kind \in ContextKinds /\ j.ctx = j.owner /\ Contains(b, j.at)
        /\ j.kind = "continue" => frames'[p].kind \in LoopKinds /\ (j.ctx = j.owner => Contains(c, j.at))
        /\ j.kind = "then" => frames'[p].kind = "if" \/ (frames'[p].kind = "else" /\ Target(j) = place'[j.owner].cont)
        /\ j.kind = "else" => frames'[p].kind = "else"
        /\ j.kind = "case" => frames'[p].kind = "switch"
  BY DEF Pending, Contains
<1> HIDE DEF b, c
<1> QED
  BY <1>1, <1>2, <1>3, <1>4 DEF Pending

\* Where break and continue are recorded.
LEMMA InnermostContext ==
    ASSUME Safe, errors = {}, loop_depth > 0
    PROVE  \E i \in Open(ContextKinds) :
             /\ frames[i].ctx = loop_depth - 1 /\ loop_stack[loop_depth - 1].id = frames[i].id
             /\ \A k \in Open(ContextKinds) : k <= i /\ (k # i => frames[k].ctx # loop_depth - 1)
<1>1. loop_depth \in Nat /\ loop_depth - 1 \in 0..loop_depth - 1
  BY DEF Safe, NestInv, ContextInv
<1>2. PICK i \in Open(ContextKinds) : frames[i].ctx = loop_depth - 1
  BY <1>1 DEF Safe, NestInv, ContextInv
<1>3. \A k \in Open(ContextKinds) : k \in Nat /\ frames[k].ctx \in Nat /\ frames[k].ctx < loop_depth
  <2>1. \A k \in Open(ContextKinds) : k \in 1..Len(frames) /\ frames[k] \in Frame /\ frames[k].kind \in ContextKinds
    BY FramesAre DEF Open, Safe, NestInv, FrameInv
  <2> QED
    BY <2>1, FrameFields DEF Safe, NestInv, ContextInv
<1>4. \A k, l \in Open(ContextKinds) : k < l => frames[k].ctx < frames[l].ctx
  BY DEF Safe, NestInv, ContextInv
<1>5. ASSUME NEW k \in Open(ContextKinds) PROVE k <= i /\ (k # i => frames[k].ctx # loop_depth - 1)
  <2>1. k \in Nat /\ i \in Nat /\ frames[k].ctx \in Nat /\ frames[k].ctx < loop_depth /\ frames[i].ctx \in Nat
    BY <1>2, <1>3
  <2>2. ~(i < k)
    BY <1>1, <1>2, <1>4, <2>1
  <2>3. k < i => frames[k].ctx < frames[i].ctx
    BY <1>2, <1>4
  <2> QED
    BY <1>1, <1>2, <2>1, <2>2, <2>3
<1>6. loop_stack[loop_depth - 1].id = frames[i].id
  BY <1>2 DEF Safe, NestInv, ContextInv
<1> QED
  BY <1>2, <1>5, <1>6

LEMMA OwnerIs ==
    ASSUME Safe, NEW K \in {ContextKinds, LoopKinds}
    PROVE  /\ OwnerOf(K) \in Chunks /\ OwnerOf(K) <= made
           /\ OwnerOf(K) # 0 =>
                \E o \in Open(K) : /\ frames[o].id = OwnerOf(K) /\ ChunkAt(o) = Chunk
                                   /\ \A i \in Open(K) : o <= i => i = o
                                   /\ \A i \in Open(ContextKinds) : o <= i => ChunkAt(i) = Chunk
<1>1. PICK n : n = Len(frames)
  OBVIOUS
<1>2. n \in Nat /\ DOMAIN frames = 1..n
  BY <1>1, FramesAre DEF Safe, NestInv, FrameInv
<1>3. PICK S : S = Enclosing(K)
  OBVIOUS
<1>4. S \in SUBSET (1..n) /\ OwnerOf(K) = InnermostId(S)
  BY <1>2, <1>3 DEF Enclosing, OwnerOf
<1>5. InnermostId(S) \in Chunks /\ (S # {} => /\ Max(S) \in S /\ (\A y \in S : y <= Max(S))
                                              /\ InnermostId(S) = frames[Max(S)].id)
  BY <1>1, <1>4, InnermostIdIs DEF Safe, NestInv
<1>6. OwnerOf(K) <= made
  <2>1. CASE S = {}
    BY <1>4, <2>1, NumbersAre DEF InnermostId, Safe, NestInv, FrameInv
  <2>2. CASE S # {}
    BY <1>1, <1>4, <1>5, <2>2 DEF Safe, NestInv, FrameInv
  <2> QED
    BY <2>1, <2>2
<1>7. ASSUME OwnerOf(K) # 0
      PROVE  \E o \in Open(K) : /\ frames[o].id = OwnerOf(K) /\ ChunkAt(o) = Chunk
                                /\ \A i \in Open(K) : o <= i => i = o
                                /\ \A i \in Open(ContextKinds) : o <= i => ChunkAt(i) = Chunk
  <2>1. S # {}
    BY <1>4, <1>7 DEF InnermostId
  <2>2. PICK o : o = Max(S)
    OBVIOUS
  <2>3. o \in S /\ (\A y \in S : y <= o) /\ OwnerOf(K) = frames[o].id
    BY <1>4, <1>5, <2>1, <2>2
  <2>4. o \in 1..n /\ o \in Open(K) /\ \A f \in 1..n : frames[f].kind = "fn" => f < o
    BY <1>2, <1>3, <2>3 DEF Enclosing, Open, FunctionFrames
  <2>5. ASSUME NEW i \in 1..n, o <= i PROVE ChunkAt(i) = Chunk
    <3>1. \A k \in i + 1..n : frames[k].kind # "fn"
      BY <1>2, <2>4, <2>5
    <3>2. ChunkAt(n) = ChunkAt(i)
      BY <1>2, <2>5, <3>1, ChunkAtOver
    <3> QED
      BY <1>1, <3>2, ChunkAtTop DEF Safe, NestInv
  <2>6. ASSUME NEW i \in Open(K), o <= i PROVE i = o
    <3>1. i \in 1..n /\ frames[i].kind \in K
      BY <1>2 DEF Open
    <3>2. \A f \in FunctionFrames : f < i
      BY <1>2, <2>4, <2>6, <3>1 DEF FunctionFrames
    <3>3. i \in S
      BY <1>2, <1>3, <3>1, <3>2 DEF Enclosing
    <3> QED
      BY <2>3, <2>4, <2>6, <3>1, <3>3
  <2>7. Open(ContextKinds) \in SUBSET (1..n)
    BY <1>2 DEF Open
  <2>8. o <= o
    BY <2>4
  <2> QED
    BY <2>3, <2>4, <2>5, <2>6, <2>7, <2>8
<1> QED
  BY <1>4, <1>5, <1>6, <1>7

LEMMA LeaveStep ==
    ASSUME Safe, JumpInv, Clean, CodeInv', Clean', frames' = frames, place' = place, loop_depth > 0,
           loop_depth <= MaxDepth,
           NEW kind, NEW list, NEW K, NEW a \in Nat, NEW j,
           \/ kind = "break" /\ list = "breaks" /\ K = ContextKinds
           \/ kind = "continue" /\ list = "continues" /\ K = LoopKinds,
           loop_stack' = [loop_stack EXCEPT ![loop_depth - 1][list] = Append(@, a)],
           jumps' = jumps \cup {j}, Here < a,
           j.chunk = Chunk, j.at = a, j.kind = kind, j.op = kind, j.owner = OwnerOf(K),
           j.ctx = loop_stack[loop_depth - 1].id
    PROVE  ListsInv' /\ OwnersInv'
<1>1. ListsInv /\ OwnersInv /\ CodeInv /\ errors = {}
  BY DEF JumpInv, Clean
<1>2. PICK i \in Open(ContextKinds) :
             /\ frames[i].ctx = loop_depth - 1 /\ loop_stack[loop_depth - 1].id = frames[i].id
             /\ \A k \in Open(ContextKinds) : k <= i /\ (k # i => frames[k].ctx # loop_depth - 1)
  BY <1>1, InnermostContext
<1>3. OwnerOf(K) # 0
  BY DEF Clean, NoStray
<1>4. PICK o \in Open(K) : /\ frames[o].id = OwnerOf(K) /\ ChunkAt(o) = Chunk
                           /\ \A k \in Open(K) : o <= k => k = o
                           /\ \A k \in Open(ContextKinds) : o <= k => ChunkAt(k) = Chunk
  BY <1>3, OwnerIs
<1>5. PICK n : n = Len(frames)
  OBVIOUS
<1>6. n \in Nat /\ DOMAIN frames = 1..n
  BY <1>5, FramesAre DEF Safe, NestInv, FrameInv
<1>7. LoopKinds \subseteq ContextKinds /\ K \subseteq ContextKinds
  BY KindSets
<1>8. /\ o \in 1..n /\ i \in 1..n /\ o \in Open(ContextKinds) /\ frames[o].kind \in K
      /\ frames[i].kind \in ContextKinds
  BY <1>2, <1>4, <1>6, <1>7 DEF Open
<1>9. o <= i /\ ChunkAt(i) = Chunk /\ (frames[i].kind \in K => i = o)
  BY <1>2, <1>4, <1>6, <1>8 DEF Open
<1>10. j.ctx = j.owner => i = o
  BY <1>2, <1>4, <1>5, <1>8, IdsDistinct DEF Safe, NestInv
<1>11. \A p \in 1..n : ChunkAt(p)' = ChunkAt(p)
  BY ChunkAtSame
\* The lists: one more entry in one of them.
<1>12. /\ loop_depth - 1 \in 0..MaxDepth - 1 /\ loop_stack \in [0..MaxDepth - 1 -> LoopContext]
  BY NumbersAre DEF Safe, NestInv, ContextInv
<1>13. PICK c \in LoopContext : c = loop_stack[loop_depth - 1]
  BY <1>12
<1>14. c.breaks \in Seq(Nat) /\ c.continues \in Seq(Nat)
  BY DEF LoopContext
<1>15. loop_stack'[loop_depth - 1] = [c EXCEPT ![list] = Append(c[list], a)]
  BY <1>12, <1>13
<1>16. /\ kind = "break" => /\ loop_stack'[loop_depth - 1].breaks = Append(c.breaks, a)
                            /\ loop_stack'[loop_depth - 1].continues = c.continues
       /\ kind = "continue" => /\ loop_stack'[loop_depth - 1].breaks = c.breaks
                               /\ loop_stack'[loop_depth - 1].continues = Append(c.continues, a)
  BY <1>15 DEF LoopContext
<1>17. BreaksOf(i) = c.breaks /\ ContinuesOf(i) = c.continues
  BY <1>2, <1>13 DEF BreaksOf, ContinuesOf
<1>18. /\ \A x : Contains(BreaksOf(i)', x) <=> Contains(BreaksOf(i), x) \/ (kind = "break" /\ x = a)
       /\ \A x : Contains(ContinuesOf(i)', x) <=> Contains(ContinuesOf(i), x) \/ (kind = "continue" /\ x = a)
  <2>1. BreaksOf(i)' = loop_stack'[loop_depth - 1].breaks /\ ContinuesOf(i)' = loop_stack'[loop_depth - 1].continues
    BY <1>2 DEF BreaksOf, ContinuesOf
  <2>2. /\ \A x : Contains(Append(c.breaks, a), x) <=> Contains(c.breaks, x) \/ x = a
        /\ \A x : Contains(Append(c.continues, a), x) <=> Contains(c.continues, x) \/ x = a
    BY <1>14, AppendContains
  <2>3. CASE kind = "break"
    <3>1. BreaksOf(i)' = Append(c.breaks, a) /\ ContinuesOf(i)' = c.continues
      BY <1>16, <2>1, <2>3
    <3> QED
      BY <1>17, <2>2, <2>3, <3>1
  <2>4. CASE kind = "continue"
    <3>1. BreaksOf(i)' = c.breaks /\ ContinuesOf(i)' = Append(c.continues, a)
      BY <1>16, <2>1, <2>4
    <3> QED
      BY <1>17, <2>2, <2>4, <3>1
  <2> QED
    BY <2>3, <2>4
<1>19. \A p \in Open(ContextKinds) : p # i => BreaksOf(p)' = BreaksOf(p) /\ ContinuesOf(p)' = ContinuesOf(p)
  <2> SUFFICES ASSUME NEW p \in Open(ContextKinds), p # i
               PROVE  BreaksOf(p)' = BreaksOf(p) /\ ContinuesOf(p)' = ContinuesOf(p)
    OBVIOUS
  <2>1. frames[p].ctx # loop_depth - 1
    BY <1>2
  <2>2. frames[p].ctx \in 0..MaxDepth - 1
    <3>1. frames[p] \in Frame /\ frames[p].kind \in ContextKinds
      BY <1>5, <1>6, FramesAre DEF Open, Safe, NestInv, FrameInv
    <3>2. frames[p].ctx \in Nat /\ frames[p].ctx < MaxDepth
      BY <3>1, FrameFields DEF Safe, NestInv, ContextInv
    <3> QED
      BY <3>2, NumbersAre
  <2>3. loop_stack'[frames[p].ctx] = loop_stack[frames[p].ctx]
    BY <1>12, <2>1, <2>2
  <2> QED
    BY <2>3 DEF BreaksOf, ContinuesOf
<1> HIDE DEF Contains
<1>20. OwnersInv'
  <2>1. ASSUME NEW k \in jumps PROVE Placed(k)'
    <3>1. Placed(k)
      BY <1>1 DEF OwnersInv
    <3>2. CASE \E p \in 1..Len(frames) : frames[p].id = k.owner /\ Pending(k, p)
      <4>1. PICK p \in 1..Len(frames) : frames[p].id = k.owner /\ Pending(k, p)
        BY <3>2
      <4>2. p \in Nat /\ (frames[p].kind \in ContextKinds => p \in Open(ContextKinds))
        BY <1>5, <1>6, <4>1 DEF Open
      <4>3. frames[p].kind \in ContextKinds =>
             \A x : /\ Contains(BreaksOf(p), x) => Contains(BreaksOf(p)', x)
                    /\ Contains(ContinuesOf(p), x) => Contains(ContinuesOf(p)', x)
        <5>1. CASE p = i
          BY <1>18, <5>1
        <5>2. CASE p # i
          BY <1>19, <4>2, <5>2
        <5> QED
          BY <5>1, <5>2
      <4>4. Pending(k, p)'
        BY <4>1, <4>2, <4>3, PendingMore
      <4> QED
        BY <4>1, <4>4 DEF Placed
    <3>3. CASE (\A p \in 1..Len(frames) : frames[p].id # k.owner) /\ Landed(k)
      <4>1. Landed(k)'
        BY <3>3, LandedKept
      <4> QED
        BY <3>3, <4>1 DEF Placed
    <3> QED
      BY <3>1, <3>2, <3>3 DEF Placed
  <2>2. Placed(j)'
    <3>1. Pending(j, o)'
      <4>1. j.chunk = ChunkAt(o)'
        BY <1>4, <1>8, <1>11
      <4>2. ASSUME kind = "break" PROVE j.ctx = j.owner /\ Contains(BreaksOf(o)', a)
        <5>1. i = o
          BY <1>8, <1>9, <4>2
        <5> QED
          BY <1>2, <1>4, <1>18, <4>2, <5>1
      <4>3. ASSUME kind = "continue", j.ctx = j.owner PROVE Contains(ContinuesOf(o)', a)
        BY <1>10, <1>18, <4>3
      <4>4. kind = "break" => frames'[o].kind \in ContextKinds
        BY <1>7, <1>8
      <4>5. kind = "continue" => frames'[o].kind \in LoopKinds
        BY <1>8
      <4> QED
        BY <4>1, <4>2, <4>3, <4>4, <4>5 DEF Pending
    <3>2. o \in 1..Len(frames') /\ frames'[o].id = j.owner
      BY <1>4, <1>5, <1>8
    <3> QED
      BY <3>1, <3>2 DEF Placed
  <2> QED
    BY <2>1, <2>2 DEF OwnersInv
<1>21. ASSUME NEW p \in Open(ContextKinds) PROVE Lists(p)'
  <2>0. p \in 1..n /\ ChunkAt(p)' = ChunkAt(p) /\ Lists(p)
    BY <1>1, <1>6, <1>11 DEF ListsInv, Open
  <2>1. \A x : BreakAt(p, x) => BreakAt(p, x)'
    BY <2>0 DEF BreakAt
  <2>2. \A x : ContinueAt(p, x) => ContinueAt(p, x)'
    BY <2>0 DEF ContinueAt
  <2>3. ASSUME frames[p].kind = "while" PROVE ExitFirst(p)'
    <3>1. PICK e \in jumps : /\ e.chunk = ChunkAt(p) /\ e.kind = "exit" /\ e.owner = frames[p].id
                             /\ \A b \in jumps : b.kind = "break" /\ b.owner = e.owner => e.at < b.at
      BY <2>0, <2>3 DEF Lists, ExitFirst
    <3>2. j.owner = e.owner => e.at < j.at
      <4> SUFFICES ASSUME j.owner = e.owner PROVE e.at < j.at
        OBVIOUS
      <4>1. p = o
        BY <1>4, <1>5, <1>8, <2>0, <3>1, IdsDistinct DEF Safe, NestInv
      <4>2. e.chunk = Chunk
        BY <1>4, <3>1, <4>1
      <4>3. e.at \in Nat /\ e.at < Here /\ Here \in Nat
        BY <1>1, <3>1, <4>2, RecIs, StartsHere DEF CodeInv, InCode
      <4> QED
        BY <4>3
    <3>3. \A b \in jumps' : b.kind = "break" /\ b.owner = e.owner => e.at < b.at
      BY <3>1, <3>2
    <3> QED
      BY <2>0, <3>1, <3>3 DEF ExitFirst
  <2>4. CASE p # i
    <3>1. BreaksOf(p)' = BreaksOf(p) /\ ContinuesOf(p)' = ContinuesOf(p)
      BY <1>19, <2>4
    <3>2. \A x \in Nat : Contains(BreaksOf(p)', x) => BreakAt(p, x)'
      BY <2>0, <2>1, <3>1 DEF Lists
    <3>3. frames[p].kind \in LoopKinds => \A x \in Nat : Contains(ContinuesOf(p)', x) => ContinueAt(p, x)'
      BY <2>0, <2>2, <3>1 DEF Lists
    <3> QED
      BY <2>3, <3>2, <3>3 DEF Lists, Contains
  <2>5. CASE p = i
    <3>1. kind = "break" => BreakAt(p, a)'
      <4>1. kind = "break" => i = o
        BY <1>8, <1>9
      <4> QED
        BY <1>4, <1>9, <2>0, <2>5, <4>1 DEF BreakAt
    <3>2. kind = "continue" /\ frames[p].kind \in LoopKinds => ContinueAt(p, a)'
      <4>1. kind = "continue" /\ frames[p].kind \in LoopKinds => i = o
        BY <1>9, <2>5
      <4> QED
        BY <1>2, <1>4, <1>9, <2>0, <2>5, <4>1 DEF ContinueAt
    <3>3. \A x \in Nat : Contains(BreaksOf(p)', x) => BreakAt(p, x)'
      BY <1>18, <2>0, <2>1, <2>5, <3>1 DEF Lists
    <3>4. frames[p].kind \in LoopKinds => \A x \in Nat : Contains(ContinuesOf(p)', x) => ContinueAt(p, x)'
      BY <1>18, <2>0, <2>2, <2>5, <3>2 DEF Lists
    <3> QED
      BY <2>3, <3>3, <3>4 DEF Lists, Contains
  <2> QED
    BY <2>4, <2>5
<1>22. ListsInv'
  BY <1>21 DEF ListsInv, Open
<1> QED
  BY <1>20, <1>22

LEMMA LeaveJumps ==
    ASSUME Safe, JumpInv, NEW kind, NEW list, NEW K, Leave(kind, list, K),
           \/ kind = "break" /\ list = "breaks" /\ K = ContextKinds
           \/ kind = "continue" /\ list = "continues" /\ K = LoopKinds
    PROVE  JumpInv'
<1>1. Kept /\ frames' = frames /\ place' = place /\ panic = "no" /\ made' = Now /\ RoomLeft
  BY LeaveKept DEF Leave, CanBegin
<1>2. loop_depth \in Nat /\ loop_depth <= MaxDepth /\ MaxDepth \in Nat
  BY <1>1, NumbersAre DEF Safe, NestInv, ContextInv
<1>3. CASE Report("outside") /\ UNCHANGED jumps
  <2>1. errors' # {} /\ jumps' = jumps
    BY <1>3 DEF Report
  <2> QED
    BY <1>1, <2>1, NotEntered, ErrorStep
<1>4. CASE ~(Report("outside") /\ UNCHANGED jumps)
  <2> DEFINE a == Here + 1
             j == Jump(a, kind, kind, OwnerOf(K), loop_stack[loop_depth - 1].id)
             room == Len(loop_stack[loop_depth - 1][list]) < MaxJumps
  <2>0. loop_depth > 0
    BY <1>4 DEF Leave
  <2>1. /\ count' = [count EXCEPT ![Chunk] = @ + 2]
        /\ jumps' = jumps \cup {j}
        /\ loop_stack' = IF room THEN [loop_stack EXCEPT ![loop_depth - 1][list] = Append(@, a)]
                         ELSE loop_stack
        /\ IF room THEN UNCHANGED errors ELSE Report("too many")
    BY <1>4 DEF Leave
  <2>2. Here \in Nat /\ a \in Nat /\ Here < a
    BY StartsHere
  <2>3. count' = [count EXCEPT ![Chunk] = Here + 2]
    BY <2>1, StartsHere
  <2>4. count'[Chunk] = Here + 2
    BY <2>3, CountIs
  <2>5. loop_stack[loop_depth - 1].id \in Nat
    <3>1. loop_depth - 1 \in 0..MaxDepth - 1
      BY <1>2, <2>0
    <3>2. loop_stack[loop_depth - 1] \in LoopContext
      BY <3>1 DEF Safe, NestInv, ContextInv
    <3> QED
      BY <3>2 DEF LoopContext
  <2>6. OwnerOf(K) \in Chunks /\ OwnerOf(K) <= made
    BY OwnerIs
  <2>7. kind \in JumpKinds /\ kind \in Ops /\ Chunk \in Chunks
    BY StartsHere DEF JumpKinds, Ops
  <2>8. /\ j \in JumpRec /\ j.chunk = Chunk /\ j.at = a /\ j.kind = kind /\ j.op = kind
        /\ j.owner = OwnerOf(K) /\ j.ctx = loop_stack[loop_depth - 1].id
    <3> HIDE DEF a
    <3> QED
      BY <2>2, <2>5, <2>6, <2>7 DEF Jump, JumpRec
  <2>9. Here <= a /\ a < count'[Chunk]
    BY <2>2, <2>4
  <2> HIDE DEF j, room, a
  <2>10. Adds({j})
    <3>1. OwnerOf(K) <= made'
      <4>1. Chunks \subseteq Nat
        BY NumbersAre DEF Chunks
      <4>2. made \in Nat /\ made' \in Nat /\ made <= made'
        BY <1>1, MadeGrows DEF Kept
      <4>3. OwnerOf(K) \in Nat /\ OwnerOf(K) <= made
        BY <2>6, <4>1
      <4> HIDE DEF OwnerOf
      <4> QED
        BY <4>2, <4>3
    <3> QED
      BY <2>1, <2>8, <2>9, <3>1, AddsOne
  <2>11. CodeInv'
    BY <1>1, <2>10, NotEntered, AddedCode DEF JumpInv, CodeInv
  <2>12. ASSUME Clean' PROVE ListsInv' /\ OwnersInv'
    <3>1. room /\ errors = {}
      BY <2>1, <2>12 DEF Clean, Report
    <3>2. Clean
      BY <2>1, <2>12, <3>1 DEF Clean, NoStray
    <3>3. loop_stack' = [loop_stack EXCEPT ![loop_depth - 1][list] = Append(@, a)] /\ jumps' = jumps \cup {j}
      BY <2>1, <3>1
    <3> QED
      BY <1>1, <1>2, <2>0, <2>2, <2>8, <2>11, <2>12, <3>2, <3>3, LeaveStep
  <2> QED
    BY <2>11, <2>12 DEF JumpInv
<1> QED
  BY <1>3, <1>4

-----------------------------------------------------------------------------
(* Patching.                                                               *)

SameJump(k, j) ==
    k.chunk = j.chunk /\ k.at = j.at /\ k.kind = j.kind /\ k.owner = j.owner /\ k.ctx = j.ctx
Offsets(offset) == \A j \in DOMAIN offset : offset[j] \in Int
\* What becomes of jump j.
Fate(k, j, offset) ==
    /\ SameJump(k, j) /\ k.op = j.op
    /\ j \in DOMAIN offset => k.operand = Byte(offset[j])
    /\ j \notin DOMAIN offset => k = j
\* The jumps K are those of J with other operands.
Based(K, J) ==
    /\ K \in SUBSET JumpRec /\ (OneEach(J) => OneEach(K))
    /\ \A k \in K : \E j \in J : SameJump(k, j)
    /\ \A j \in J : \E k \in K : SameJump(k, j)

LEMMA ByteIs ==
    ASSUME NEW n \in Int
    PROVE  Byte(n) \in Nat /\ (0 <= n /\ n <= MaxOffset => Byte(n) = n)
<1>1. MaxOffset \in Nat /\ MaxOffset + 1 \in Nat \ {0}
  BY NumbersAre
<1> QED
  BY <1>1 DEF Byte

LEMMA PatchIs ==
    ASSUME NEW J \in SUBSET JumpRec, NEW offset, Offsets(offset)
    PROVE  /\ \A k \in Patch(J, offset) : \E j \in J : Fate(k, j, offset)
           /\ \A j \in J : j \notin DOMAIN offset => j \in Patch(J, offset)
           /\ Based(Patch(J, offset), J)
<1> DEFINE A(j) == IF j \in DOMAIN offset THEN [j EXCEPT !.operand = Byte(offset[j])] ELSE j
<1>1. Patch(J, offset) = {A(j) : j \in J}
  BY DEF Patch
<1>2. ASSUME NEW j \in J PROVE A(j) \in JumpRec /\ Fate(A(j), j, offset)
  <2>1. CASE j \in DOMAIN offset
    <3>1. Byte(offset[j]) \in Nat
      BY <2>1, ByteIs DEF Offsets
    <3>2. PICK b \in Nat : b = Byte(offset[j])
      BY <3>1
    <3>3. A(j) = [j EXCEPT !.operand = b]
      BY <2>1, <3>2
    <3>4. j \in JumpRec
      OBVIOUS
    <3>5. /\ [j EXCEPT !.operand = b] \in JumpRec /\ [j EXCEPT !.operand = b].operand = b
          /\ SameJump([j EXCEPT !.operand = b], j) /\ [j EXCEPT !.operand = b].op = j.op
      BY <3>4 DEF JumpRec, SameJump
    <3> HIDE DEF A
    <3> QED
      BY <2>1, <3>2, <3>3, <3>5 DEF Fate
  <2>2. CASE j \notin DOMAIN offset
    BY <2>2 DEF Fate, SameJump
  <2> QED
    BY <2>1, <2>2
<1>3. \A j \in J : j \notin DOMAIN offset => A(j) = j
  OBVIOUS
<1> HIDE DEF A
<1>4. \A j \in J : j \notin DOMAIN offset => j \in Patch(J, offset)
  BY <1>1, <1>3
<1>5. \A k \in Patch(J, offset) : \E j \in J : Fate(k, j, offset)
  BY <1>1, <1>2
<1>6. ASSUME OneEach(J) PROVE OneEach(Patch(J, offset))
  <2> SUFFICES ASSUME NEW i \in J, NEW j \in J, A(i).chunk = A(j).chunk, A(i).at = A(j).at PROVE A(i) = A(j)
    BY <1>1 DEF OneEach
  <2>1. i.chunk = j.chunk /\ i.at = j.at
    BY <1>2 DEF Fate, SameJump
  <2>2. i = j
    BY <1>6, <2>1 DEF OneEach
  <2> QED
    BY <2>2
<1>7. \A j \in J : \E k \in Patch(J, offset) : SameJump(k, j)
  BY <1>1, <1>2 DEF Fate
<1> QED
  BY <1>1, <1>2, <1>4, <1>5, <1>6, <1>7 DEF Based, Fate

LEMMA BasedOn ==
    ASSUME NEW K, NEW J, NEW I, Based(K, J), Based(J, I)
    PROVE  Based(K, I)
BY DEF Based, SameJump

LEMMA ForwardIs ==
    ASSUME NEW P \in SUBSET JumpRec, NEW t \in Int
    PROVE  /\ DOMAIN Forward(P, t) = P /\ Offsets(Forward(P, t))
           /\ \A j \in P : Forward(P, t)[j] = t - j.at - 1 /\ t - j.at - 1 \in Int
<1>1. \A j \in P : j.at \in Int
  BY RecIs
<1>2. \A j \in P : t - j.at - 1 \in Int
  BY <1>1
<1> QED
  BY <1>2 DEF Forward, Offsets

LEMMA BackwardIs ==
    ASSUME NEW P \in SUBSET JumpRec, NEW t \in Int
    PROVE  /\ DOMAIN Backward(P, t) = P /\ Offsets(Backward(P, t))
           /\ \A j \in P : Backward(P, t)[j] = j.at + 1 - t /\ j.at + 1 - t \in Int
<1>1. \A j \in P : j.at \in Int
  BY RecIs
<1>2. \A j \in P : j.at + 1 - t \in Int
  BY <1>1
<1> QED
  BY <1>2 DEF Backward, Offsets

LEMMA FittingIs ==
    ASSUME NEW offset, Offsets(offset)
    PROVE  /\ DOMAIN Fitting(offset) = {j \in DOMAIN offset : Fits(offset[j])} /\ Offsets(Fitting(offset))
           /\ \A j \in DOMAIN Fitting(offset) : Fitting(offset)[j] = offset[j]
           /\ ~Misfit(offset) => \A j \in DOMAIN offset : Fits(offset[j])
<1>1. DOMAIN Fitting(offset) = {j \in DOMAIN offset : Fits(offset[j])}
  BY DEF Fitting
<1>2. \A j \in DOMAIN Fitting(offset) : Fitting(offset)[j] = offset[j]
  BY DEF Fitting
<1>3. Offsets(Fitting(offset))
  BY <1>1, <1>2 DEF Offsets
<1>4. ~Misfit(offset) => \A j \in DOMAIN offset : Fits(offset[j])
  BY <1>1 DEF Misfit
<1> QED
  BY <1>1, <1>2, <1>3, <1>4

LEMMA ExactByte == ASSUME NEW n \in Int, Fits(n) PROVE Byte(n) = n
BY ByteIs DEF Fits

-----------------------------------------------------------------------------
\* The end of a loop.
MarkedBreaks(J) ==
    \A j \in J : j.chunk = Chunk /\ Contains(loop_stack[Top.ctx].breaks, j.at) =>
                    j.kind = "break" /\ j.owner = Top.id
MarkedContinues(J) ==
    \A j \in J : j.chunk = Chunk /\ Contains(loop_stack[Top.ctx].continues, j.at) =>
                    j.kind = "continue" /\ j.owner = Top.id

LEMMA MarkedIs ==
    ASSUME Safe, CodeInv, ListsInv, frames # <<>>, Top.kind \in ContextKinds,
           NEW N \in SUBSET JumpRec, \A j \in N : j.chunk = Chunk /\ Here <= j.at
    PROVE  MarkedBreaks(jumps \cup N) /\ (Top.kind \in LoopKinds => MarkedContinues(jumps \cup N))
<1>1. PICK n : n = Len(frames)
  OBVIOUS
<1>2. n \in 1..n /\ Top = frames[n] /\ DOMAIN frames = 1..n
  BY <1>1, FramesAre DEF Safe, NestInv, FrameInv
<1>3. Chunk = ChunkAt(n)
  BY <1>1, ChunkAtTop DEF Safe, NestInv
<1>4. Lists(n)
  BY <1>2 DEF ListsInv, Open
<1>5. \A b \in jumps : b.chunk = Chunk => b.at \in Nat /\ b.at < Here /\ Here \in Nat
  BY RecIs, StartsHere DEF CodeInv, InCode
<1>6. ASSUME NEW j \in jumps \cup N, j.chunk = Chunk, NEW b \in jumps, b.chunk = Chunk, b.at = j.at PROVE j = b
  <2>1. CASE j \in jumps
    BY <1>6, <2>1 DEF CodeInv, OneEach
  <2>2. CASE j \in N
    BY <1>5, <1>6, <2>2
  <2> QED
    BY <2>1, <2>2
<1>7. \A j \in jumps \cup N : j.at \in Nat
  BY RecIs DEF CodeInv
<1>8. MarkedBreaks(jumps \cup N)
  <2> SUFFICES ASSUME NEW j \in jumps \cup N, j.chunk = Chunk, Contains(BreaksOf(n), j.at)
               PROVE  j.kind = "break" /\ j.owner = Top.id
    BY <1>2 DEF MarkedBreaks, BreaksOf
  <2>1. BreakAt(n, j.at)
    BY <1>4, <1>7 DEF Lists
  <2> QED
    BY <1>2, <1>3, <1>6, <2>1 DEF BreakAt
<1>9. ASSUME Top.kind \in LoopKinds PROVE MarkedContinues(jumps \cup N)
  <2> SUFFICES ASSUME NEW j \in jumps \cup N, j.chunk = Chunk, Contains(ContinuesOf(n), j.at)
               PROVE  j.kind = "continue" /\ j.owner = Top.id
    BY <1>2 DEF MarkedContinues, ContinuesOf
  <2>1. ContinueAt(n, j.at)
    BY <1>2, <1>4, <1>7, <1>9 DEF Lists
  <2> QED
    BY <1>2, <1>3, <1>6, <2>1 DEF ContinueAt
<1> QED
  BY <1>8, <1>9

LEMMA ExitFates ==
    ASSUME NEW J \in SUBSET JumpRec, NEW end \in Int, NEW E, E = ExitPatched(J, Top, end)
    PROVE  /\ Based(E, J)
           /\ \A j \in J : j.owner # Top.id => j \in E
           /\ \A e \in E : \E j \in J :
                /\ SameJump(e, j) /\ e.op = j.op
                /\ j.kind = "exit" /\ j.chunk = Chunk /\ j.owner = Top.id => e.operand = Byte(end - j.at - 1)
                /\ ~(j.kind = "exit" /\ j.chunk = Chunk /\ j.owner = Top.id) => e = j
<1> DEFINE P == JumpsOf(J, "exit", Top.id)
           o == Forward(P, end)
<1>1. P \in SUBSET JumpRec /\ \A j \in J : j \in P <=> j.chunk = Chunk /\ j.kind = "exit" /\ j.owner = Top.id
  BY DEF JumpsOf
<1> HIDE DEF P
<1>2. DOMAIN o = P /\ Offsets(o) /\ \A j \in P : o[j] = end - j.at - 1
  BY <1>1, ForwardIs
<1>3. E = Patch(J, o)
  BY DEF ExitPatched, P
<1> HIDE DEF o
<1>4. /\ \A k \in E : \E j \in J : Fate(k, j, o)
      /\ \A j \in J : j \notin DOMAIN o => j \in E
      /\ Based(E, J)
  BY <1>2, <1>3, PatchIs
<1> QED
  BY <1>1, <1>2, <1>4 DEF Fate

\* The breaks listed in the context of the loop or switch, all patched forward.
LEMMA BreakFates ==
    ASSUME NEW J \in SUBSET JumpRec, NEW end \in Int, NEW B, B = Patch(J, Forward(Listed(J, Top, "breaks"), end))
    PROVE  /\ Based(B, J)
           /\ \A j \in J : ~(j.chunk = Chunk /\ Contains(loop_stack[Top.ctx].breaks, j.at)) => j \in B
           /\ \A b \in B : \E j \in J :
                /\ SameJump(b, j) /\ b.op = j.op
                /\ j.chunk = Chunk /\ Contains(loop_stack[Top.ctx].breaks, j.at) => b.operand = Byte(end - j.at - 1)
                /\ ~(j.chunk = Chunk /\ Contains(loop_stack[Top.ctx].breaks, j.at)) => b = j
<1> DEFINE P == Listed(J, Top, "breaks")
           o == Forward(P, end)
<1>1. /\ P \in SUBSET JumpRec
      /\ \A j \in J : j \in P <=> j.chunk = Chunk /\ Contains(loop_stack[Top.ctx].breaks, j.at)
  BY DEF Listed
<1> HIDE DEF P
<1>2. DOMAIN o = P /\ Offsets(o) /\ \A j \in P : o[j] = end - j.at - 1
  BY <1>1, ForwardIs
<1>3. B = Patch(J, o)
  BY DEF P
<1> HIDE DEF o
<1>4. /\ \A k \in B : \E j \in J : Fate(k, j, o)
      /\ \A j \in J : j \notin DOMAIN o => j \in B
      /\ Based(B, J)
  BY <1>2, <1>3, PatchIs
<1> QED
  BY <1>1, <1>2, <1>4 DEF Fate

LEMMA ContinueFates ==
    ASSUME NEW J \in SUBSET JumpRec, NEW cont \in Int,
           NEW C, C = Patch(J, Fitting(Backward(Listed(J, Top, "continues"), cont)))
    PROVE  /\ Based(C, J)
           /\ \A j \in J : ~(j.chunk = Chunk /\ Contains(loop_stack[Top.ctx].continues, j.at)) => j \in C
           /\ \A c \in C : \E j \in J :
                /\ SameJump(c, j) /\ c.op = j.op
                /\ /\ j.chunk = Chunk /\ Contains(loop_stack[Top.ctx].continues, j.at)
                   /\ Fits(j.at + 1 - cont)
                   => c.operand = Byte(j.at + 1 - cont)
                /\ ~(j.chunk = Chunk /\ Contains(loop_stack[Top.ctx].continues, j.at)) => c = j
<1> DEFINE P == Listed(J, Top, "continues")
           b == Backward(P, cont)
           o == Fitting(b)
<1>1. /\ P \in SUBSET JumpRec
      /\ \A j \in J : j \in P <=> j.chunk = Chunk /\ Contains(loop_stack[Top.ctx].continues, j.at)
  BY DEF Listed
<1> HIDE DEF P
<1>2. DOMAIN b = P /\ Offsets(b) /\ \A j \in P : b[j] = j.at + 1 - cont
  BY <1>1, BackwardIs
<1> HIDE DEF b
<1>3. DOMAIN o = {j \in P : Fits(b[j])} /\ Offsets(o) /\ \A j \in DOMAIN o : o[j] = b[j]
  BY <1>2, FittingIs
<1>4. C = Patch(J, o)
  BY DEF b, P
<1> HIDE DEF o
<1>5. /\ \A k \in C : \E j \in J : Fate(k, j, o)
      /\ \A j \in J : j \notin DOMAIN o => j \in C
      /\ Based(C, J)
  BY <1>3, <1>4, PatchIs
<1>6. \A j \in J : ~(j.chunk = Chunk /\ Contains(loop_stack[Top.ctx].continues, j.at)) => j \notin DOMAIN o
  BY <1>1, <1>3
<1>7. \A j \in J : /\ j.chunk = Chunk /\ Contains(loop_stack[Top.ctx].continues, j.at)
                   /\ Fits(j.at + 1 - cont)
                   => j \in DOMAIN o /\ o[j] = j.at + 1 - cont
  BY <1>1, <1>2, <1>3
<1> QED
  BY <1>5, <1>6, <1>7 DEF Fate

-----------------------------------------------------------------------------
\* The innermost statement patches its jumps, and those it adds, N.
LEMMA PatchedCode ==
    ASSUME Safe, CodeInv, Kept, made' = made, NEW N \in SUBSET JumpRec, OneEach(N),
           \A j \in N : j.chunk = Chunk /\ Here <= j.at /\ j.at < count'[Chunk] /\ j.owner <= made,
           Based(jumps', jumps \cup N), place' \in [Ids -> PlaceRec]
    PROVE  CodeInv'
<1>1. \A j \in jumps : j.at < count'[j.chunk] /\ j.owner <= made' /\ j.at < count[j.chunk]
  BY OldInCode
<1>2. \A j \in jumps \cup N : j.at \in Nat /\ j.at < count'[j.chunk] /\ j.owner <= made'
  BY <1>1, RecIs DEF CodeInv
<1>3. Here \in Nat /\ Here = count[Chunk]
  BY StartsHere
<1>4. \A i \in jumps, j \in N : ~(i.chunk = j.chunk /\ i.at = j.at)
  BY <1>1, <1>2, <1>3
<1>5. OneEach(jumps \cup N)
  BY <1>4 DEF OneEach, CodeInv
<1>6. jumps' \in SUBSET JumpRec /\ OneEach(jumps')
  BY <1>5 DEF Based
<1>7. InCode(jumps)'
  BY <1>2 DEF InCode, Based, SameJump
<1>8. StartsInv'
  BY NotEntered, StartsStep DEF CodeInv
<1> QED
  BY <1>6, <1>7, <1>8 DEF CodeInv, OneEach

LEMMA PatchStep ==
    ASSUME Safe, JumpInv, Kept, frames # <<>>, made' = made, loop_stack' = loop_stack,
           \/ frames' = Front(frames)
           \/ \E f \in Frame : f.id = Top.id /\ f.kind = "else" /\ frames' = Append(Front(frames), f),
           place' \in [Ids -> PlaceRec], \A x \in Ids : x # Top.id => place'[x] = place[x],
           NEW N \in SUBSET JumpRec, OneEach(N),
           \A j \in N : j.chunk = Chunk /\ Here <= j.at /\ j.at < count'[Chunk] /\ j.owner = Top.id,
           Based(jumps', jumps \cup N),
           Clean' /\ Clean /\ ListsInv /\ OwnersInv =>
             /\ \A j \in jumps : j.owner # Top.id => j \in jumps'
             /\ \A k \in jumps' : k.owner # Top.id => k \in jumps
             /\ \A k \in jumps' : k.owner = Top.id => Placed(k)'
    PROVE  JumpInv'
<1>1. Safe' /\ CodeInv
  BY KeptSafe DEF JumpInv
<1>2. Top.id <= made
  BY FramesAre DEF Safe, NestInv, FrameInv
<1>3. CodeInv'
  BY <1>1, <1>2, PatchedCode
<1>4. errors \subseteq errors'
  BY DEF Kept, Nesting, Stayed, Left, Entered, Continued, ErrorsKept
<1>5. Clean' => Clean
  BY <1>4 DEF Clean, NoStray, Based, SameJump
<1>6. CASE Clean'
  <2>1. Clean /\ ListsInv /\ OwnersInv
    BY <1>5, <1>6 DEF JumpInv
  <2>2. TopOnly
    <3>1. \A j \in jumps \cup jumps' : j.owner # Top.id => j \in jumps /\ j \in jumps'
      BY <1>6, <2>1
    <3> QED
      BY <3>1 DEF TopOnly
  <2>3. PICK n : n = Len(frames)
    OBVIOUS
  <2>4. Alone(Top.id, n - 1) /\ n \in Nat \ {0} /\ Len(frames') \in {n - 1, n}
    BY <2>2, <2>3, TopAlone
  <2>5. ASSUME NEW i \in (n - 1) + 1..Len(frames') PROVE frames'[i].kind \notin ContextKinds
    <3>1. i = n /\ Len(frames') = n
      BY <2>4
    <3>2. frames \in Seq(Frame)
      BY DEF Safe, NestInv, FrameInv
    <3>3. CASE frames' = Front(frames)
      BY <2>3, <2>4, <3>1, <3>2, <3>3, ShrunkIs DEF Shrinks
    <3>4. ASSUME NEW f \in Frame, f.kind = "else", frames' = Append(Front(frames), f)
          PROVE  frames'[i].kind \notin ContextKinds
      <4>1. frames'[n] = f
        BY <2>3, <3>2, <3>4, RelabelledIs DEF Relabels
      <4> QED
        BY <3>1, <3>4, <4>1, KindSets
    <3> QED
      BY <3>3, <3>4
  <2> QED
    BY <1>1, <1>3, <1>4, <1>6, <2>1, <2>4, <2>5, AloneStep
<1> QED
  BY <1>3, <1>6 DEF JumpInv

\* The statement ends.
LEMMA EndStep ==
    ASSUME Safe, JumpInv, Kept, frames # <<>>, made' = made, loop_stack' = loop_stack, Pop,
           place' \in [Ids -> PlaceRec], \A x \in Ids : x # Top.id => place'[x] = place[x],
           NEW N \in SUBSET JumpRec, OneEach(N),
           \A j \in N : j.chunk = Chunk /\ Here <= j.at /\ j.at < count'[Chunk] /\ j.owner = Top.id,
           Based(jumps', jumps \cup N),
           Clean' /\ Clean /\ ListsInv /\ OwnersInv =>
             /\ \A j \in jumps : j.owner # Top.id => j \in jumps'
             /\ \A k \in jumps' : k.owner # Top.id => k \in jumps
             /\ \A k \in jumps' : k.owner = Top.id => Landed(k)'
    PROVE  JumpInv'
<1>1. PICK n : n = Len(frames)
  OBVIOUS
<1>2. frames' = Front(frames)
  BY DEF Pop
<1>3. /\ n \in Nat \ {0} /\ Top = frames[n] /\ Len(frames') = n - 1
      /\ \A i \in 1..(n - 1) : frames'[i] = frames[i]
  BY <1>1, <1>2, ShrunkIs DEF Shrinks, Safe, NestInv, FrameInv
<1>4. \A i \in 1..Len(frames') : frames'[i].id # Top.id
  <2>1. \A i \in 1..(n - 1) : i \in 1..n /\ n \in 1..n /\ i # n
    BY <1>3
  <2> QED
    BY <1>1, <1>3, <2>1, IdsDistinct DEF Safe, NestInv
<1>5. \A k : k.owner = Top.id /\ Landed(k)' => Placed(k)'
  BY <1>4 DEF Placed
<1> QED
  BY <1>2, <1>5, PatchStep

-----------------------------------------------------------------------------
\* What the end of a loop makes of jump j: its exit and breaks go to end, its
\* continues to cont, and other statements keep theirs.
EndFate(k, j, cont, end) ==
    /\ SameJump(k, j)
    /\ j.kind # "continue" => k.op = j.op
    /\ j.owner # Top.id \/ j.kind = "loop" => k = j
    /\ j.kind = "exit" /\ j.chunk = Chunk /\ j.owner = Top.id => k.operand = Byte(end - j.at - 1)
    /\ j.kind = "break" /\ j.chunk = Chunk /\ Contains(loop_stack[Top.ctx].breaks, j.at)
         => k.operand = Byte(end - j.at - 1)
    /\ j.kind = "continue" /\ j.op = "continue" /\ j.chunk = Chunk
       /\ Contains(loop_stack[Top.ctx].continues, j.at)
         => Target(k) = cont
\* The jumps the end of a loop writes: OP_LOOP, and for do its exit.
EndJump(j, end) ==
    /\ j.chunk = Chunk /\ Here <= j.at /\ j.at < end /\ j.owner = Top.id
    /\ \/ j.kind = "loop" /\ j.op = "loop" /\ j.operand = Byte(j.at - Top.start + 2)
       \/ j.kind = "exit" /\ j.op = "jump"

LEMMA ForwardLands ==
    ASSUME NEW at \in Nat, NEW end \in Nat, NEW b, at < end, end - at - 1 <= MaxOffset,
           b = Byte(end - at - 1)
    PROVE  at + 1 + b = end
<1>1. end - at - 1 \in Int /\ 0 <= end - at - 1
  OBVIOUS
<1>2. b = end - at - 1
  BY <1>1, ByteIs
<1> QED
  BY <1>1, <1>2

LEMMA LoopLands ==
    ASSUME NEW at \in Nat, NEW start \in Nat, NEW b, start <= at, at - start + 2 <= MaxOffset,
           b = Byte(at - start + 2)
    PROVE  at + 2 - b = start
<1>1. at - start + 2 \in Int /\ 0 <= at - start + 2
  OBVIOUS
<1>2. b = at - start + 2
  BY <1>1, ByteIs
<1> QED
  BY <1>1, <1>2

LEMMA EndedAt ==
    ASSUME Safe, CodeInv, frames # <<>>, Top.kind \in LoopKinds, NEW cont \in Nat, NEW end \in Nat, EndsAt(cont, end)
    PROVE  /\ place' \in [Ids -> PlaceRec] /\ \A x \in Ids : x # Top.id => place'[x] = place[x]
           /\ place'[Top.id].of = Top.kind /\ place'[Top.id].start = Top.start
           /\ place'[Top.id].cont = cont /\ place'[Top.id].end = end
<1>1. Top.id \in Ids /\ place[Top.id] \in PlaceRec /\ place \in [Ids -> PlaceRec] /\ Top.start \in Nat
  BY PlaceOf, TopIs DEF CodeInv
<1>2. Top.kind \in {"none"} \cup ContextKinds
  BY KindSets
<1> DEFINE p == [place[Top.id] EXCEPT !.of = Top.kind, !.start = Top.start, !.cont = cont, !.end = end]
<1>3. place' = [place EXCEPT ![Top.id] = p]
  BY DEF EndsAt
<1>4. Top.start \in Int /\ cont \in Int /\ end \in Int
  BY <1>1
<1>5. PICK q \in PlaceRec, k \in {"none"} \cup ContextKinds, s \in Int : q = place[Top.id] /\ k = Top.kind /\ s = Top.start
  BY <1>1, <1>2, <1>4
<1>6. p = [q EXCEPT !.of = k, !.start = s, !.cont = cont, !.end = end]
  BY <1>5
<1> HIDE DEF p
<1>7. p \in PlaceRec /\ p.of = k /\ p.start = s /\ p.cont = cont /\ p.end = end
  BY <1>4, <1>6 DEF PlaceRec
<1> QED
  BY <1>1, <1>3, <1>5, <1>7

LEMMA LoopEnds ==
    ASSUME Safe, JumpInv, Kept, frames # <<>>, Top.kind \in LoopKinds, made' = made, loop_stack' = loop_stack,
           Pop, NEW cont \in Nat, NEW end \in Nat, EndsAt(cont, end), count'[Chunk] = end, Here <= end,
           NEW N \in SUBSET JumpRec, OneEach(N), \A j \in N : EndJump(j, end),
           Based(jumps', jumps \cup N),
           Clean' /\ Clean /\ ListsInv /\ OwnersInv =>
             /\ \A j \in jumps : j.owner # Top.id => j \in jumps'
             /\ \A k \in jumps' : \E j \in jumps \cup N : EndFate(k, j, cont, end)
             /\ Top.kind = "while" =>
                  \A j \in jumps : j.owner = Top.id /\ j.kind \in {"exit", "break"} => end - j.at - 1 <= MaxOffset,
           Top.kind = "while" => \A j \in N : j.kind = "loop"
    PROVE  JumpInv'
<1>1. CodeInv
  BY DEF JumpInv
<1>2. /\ place' \in [Ids -> PlaceRec] /\ \A x \in Ids : x # Top.id => place'[x] = place[x]
      /\ place'[Top.id].of = Top.kind /\ place'[Top.id].start = Top.start
      /\ place'[Top.id].cont = cont /\ place'[Top.id].end = end
  BY <1>1, EndedAt
<1>3. Here \in Nat /\ Top.start \in Nat /\ Top.start <= Here
  <2>1. PICK n : n = Len(frames)
    OBVIOUS
  <2>2. n \in DOMAIN frames /\ Top = frames[n]
    BY <2>1, FramesAre DEF Safe, NestInv, FrameInv
  <2>3. Chunk = ChunkAt(n)
    BY <2>1, ChunkAtTop DEF Safe, NestInv
  <2> QED
    BY <1>1, <2>2, <2>3, StartsHere, TopIs DEF CodeInv, StartsInv, Open
<1>4. ASSUME Clean', Clean, ListsInv, OwnersInv, NEW k \in jumps', k.owner = Top.id, Recorded(k), ~(Unchecked(k)' /\ Far(k)')
      PROVE  Target(k) = Meant(k)'
  <2>1. PICK j \in jumps \cup N : EndFate(k, j, cont, end)
    BY <1>4
  <2>2. SameJump(k, j) /\ j.owner = Top.id /\ k.at = j.at /\ k.kind = j.kind
    BY <1>4, <2>1 DEF EndFate, SameJump
  <2>3. j \in JumpRec /\ j.at \in Nat /\ Here \in Nat
    BY <1>1, <1>3, RecIs DEF CodeInv
  <2>4. j \in jumps => Pending(j, Len(frames))
    BY <1>1, <1>4, <2>2, TopPending
  <2>5. j.chunk = Chunk /\ j.at < end
    <3>1. CASE j \in N
      BY <3>1 DEF EndJump
    <3>2. CASE j \in jumps
      <4>1. Chunk = ChunkAt(Len(frames))
        BY ChunkAtTop DEF Safe, NestInv
      <4>2. j.chunk = Chunk
        BY <2>4, <3>2, <4>1 DEF Pending
      <4>3. j.at < count'[j.chunk]
        BY <1>1, <3>2, OldInCode
      <4> QED
        BY <4>2, <4>3
    <3> QED
      BY <3>1, <3>2
  <2>6. j.kind \in {"exit", "break"} => end - j.at - 1 <= MaxOffset
    <3>1. CASE Top.kind = "while"
      BY <1>4, <2>2, <3>1
    <3>2. CASE Top.kind \in {"do", "for"}
      <4> SUFFICES ASSUME j.kind \in {"exit", "break"} PROVE end - j.at - 1 <= MaxOffset
        OBVIOUS
      <4>1. Unchecked(k)'
        BY <1>2, <1>4, <2>2, <3>2 DEF Unchecked
      <4>2. Meant(k)' = end /\ k.kind # "loop"
        BY <1>2, <1>4, <2>2 DEF Meant
      <4>3. ~(end - j.at - 1 > MaxOffset)
        BY <1>4, <2>2, <4>1, <4>2 DEF Far
      <4>4. end - j.at - 1 \in Int /\ MaxOffset \in Int
        BY <2>3, NumbersAre
      <4> QED
        BY <4>3, <4>4
    <3> QED
      BY <3>1, <3>2, KindSets
  <2>7. PICK n : n = Len(frames)
    OBVIOUS
  <2>8. Top = frames[n]
    BY <2>7, FramesAre DEF Safe, NestInv, FrameInv
  <2>9. CASE j.kind = "exit"
    <3>1. k.op = "jump"
      <4>1. j.op = "jump"
        BY <2>4, <2>9 DEF Pending, EndJump
      <4> QED
        BY <2>1, <2>9, <4>1 DEF EndFate
    <3>2. k.operand = Byte(end - j.at - 1)
      BY <2>1, <2>2, <2>5, <2>9 DEF EndFate
    <3>3. j.at + 1 + k.operand = end
      BY <2>3, <2>5, <2>6, <2>9, <3>2, ForwardLands
    <3> QED
      BY <1>2, <1>4, <2>2, <2>9, <3>1, <3>3 DEF Target, Meant
  <2>10. CASE j.kind = "break"
    <3>1. j \in jumps
      BY <2>10 DEF EndJump
    <3>2. j.op = "break" /\ Contains(BreaksOf(n), j.at)
      BY <2>4, <2>7, <2>10, <3>1 DEF Pending
    <3>3. k.op = "break" /\ k.operand = Byte(end - j.at - 1)
      BY <2>1, <2>5, <2>8, <2>10, <3>2 DEF EndFate, BreaksOf
    <3>4. j.at + 1 + k.operand = end
      BY <2>3, <2>5, <2>6, <2>10, <3>3, ForwardLands
    <3> QED
      BY <1>2, <1>4, <2>2, <2>10, <3>3, <3>4 DEF Target, Meant
  <2>11. CASE j.kind = "continue"
    <3>1. j \in jumps
      BY <2>11 DEF EndJump
    <3>2. j.ctx = j.owner
      BY <1>4, <2>2, <2>11 DEF Recorded, SameJump
    <3>3. j.op = "continue" /\ Contains(ContinuesOf(n), j.at)
      BY <2>4, <2>7, <2>11, <3>1, <3>2 DEF Pending
    <3>4. Target(k) = cont
      BY <2>1, <2>5, <2>8, <2>11, <3>3 DEF EndFate, ContinuesOf
    <3> QED
      BY <1>2, <1>4, <2>2, <2>11, <3>4 DEF Meant
  <2>12. CASE j.kind = "loop"
    <3>1. j \in N
      BY <2>4, <2>12 DEF Pending
    <3>2. k = j /\ k.op = "loop" /\ k.operand = Byte(j.at - Top.start + 2) /\ Here <= j.at
      BY <2>1, <2>12, <3>1 DEF EndFate, EndJump
    <3>3. Meant(k)' = Top.start
      BY <1>2, <1>4, <2>2, <2>12 DEF Meant
    <3>4. ~(j.at - Top.start + 2 > MaxOffset)
      BY <1>4, <2>2, <2>12, <3>3 DEF Far, Unchecked
    <3>5. Top.start <= j.at /\ j.at - Top.start + 2 <= MaxOffset
      BY <1>3, <2>3, <3>2, <3>4, NumbersAre
    <3>6. j.at + 2 - k.operand = Top.start
      BY <1>3, <2>3, <3>2, <3>5, LoopLands
    <3> QED
      BY <2>2, <3>2, <3>3, <3>6 DEF Target
  <2>13. CASE j.kind \in {"then", "else", "case"}
    <3>1. j \in jumps
      BY <2>13 DEF EndJump
    <3> QED
      BY <2>4, <2>7, <2>8, <2>13, <3>1, KindSets DEF Pending
  <2> QED
    BY <2>3, <2>9, <2>10, <2>11, <2>12, <2>13, RecIs DEF JumpKinds
<1>5. Clean' /\ Clean /\ ListsInv /\ OwnersInv =>
        \A k \in jumps' : IF k.owner = Top.id THEN Landed(k)' ELSE k \in jumps
  <2> SUFFICES ASSUME Clean', Clean, ListsInv, OwnersInv, NEW k \in jumps'
               PROVE  IF k.owner = Top.id THEN Landed(k)' ELSE k \in jumps
    OBVIOUS
  <2>1. CASE k.owner = Top.id
    BY <1>4, <2>1 DEF Landed, Recorded
  <2>2. CASE k.owner # Top.id
    <3>1. PICK j \in jumps \cup N : EndFate(k, j, cont, end)
      OBVIOUS
    <3>2. k = j
      BY <2>2, <3>1 DEF EndFate, SameJump
    <3> QED
      BY <2>2, <3>2 DEF EndJump
  <2> QED
    BY <2>1, <2>2
<1>6. \A j \in N : j.chunk = Chunk /\ Here <= j.at /\ j.at < count'[Chunk] /\ j.owner = Top.id
  BY DEF EndJump
<1> QED
  BY <1>2, <1>5, <1>6, EndStep

LEMMA LoopFates ==
    ASSUME NEW J \in SUBSET JumpRec, NEW cont \in Int, NEW end \in Int,
           NEW R, R = LoopPatched(ExitPatched(J, Top, end), cont, end)
    PROVE  /\ Based(R, J)
           /\ /\ MarkedBreaks(J) /\ MarkedContinues(J)
              /\ ~Misfit(Backward(Listed(J, Top, "continues"), cont))
              => /\ \A j \in J : j.owner # Top.id => j \in R
                 /\ \A k \in R : \E j \in J : EndFate(k, j, cont, end)
<1> DEFINE Breaks(j) == j.chunk = Chunk /\ Contains(loop_stack[Top.ctx].breaks, j.at)
           Continues(j) == j.chunk = Chunk /\ Contains(loop_stack[Top.ctx].continues, j.at)
<1>1. PICK E : E = ExitPatched(J, Top, end)
  OBVIOUS
<1>2. PICK B : B = Patch(E, Forward(Listed(E, Top, "breaks"), end))
  OBVIOUS
<1>3. R = Patch(B, Fitting(Backward(Listed(B, Top, "continues"), cont)))
  BY <1>1, <1>2 DEF LoopPatched
<1>4. /\ Based(E, J)
      /\ \A j \in J : j.owner # Top.id => j \in E
      /\ \A e \in E : \E j \in J :
           /\ SameJump(e, j) /\ e.op = j.op
           /\ j.kind = "exit" /\ j.chunk = Chunk /\ j.owner = Top.id => e.operand = Byte(end - j.at - 1)
           /\ ~(j.kind = "exit" /\ j.chunk = Chunk /\ j.owner = Top.id) => e = j
  BY <1>1, ExitFates
<1>5. E \in SUBSET JumpRec
  BY <1>4 DEF Based
<1>6. /\ Based(B, E)
      /\ \A j \in E : ~Breaks(j) => j \in B
      /\ \A b \in B : \E j \in E : /\ SameJump(b, j) /\ b.op = j.op
                                   /\ Breaks(j) => b.operand = Byte(end - j.at - 1)
                                   /\ ~Breaks(j) => b = j
  BY <1>2, <1>5, BreakFates
<1>7. B \in SUBSET JumpRec
  BY <1>6 DEF Based
<1>8. /\ Based(R, B)
      /\ \A j \in B : ~Continues(j) => j \in R
      /\ \A c \in R : \E j \in B : /\ SameJump(c, j) /\ c.op = j.op
                                   /\ Continues(j) /\ Fits(j.at + 1 - cont) => c.operand = Byte(j.at + 1 - cont)
                                   /\ ~Continues(j) => c = j
  BY <1>3, <1>7, ContinueFates
<1>9. Based(R, J)
  BY <1>4, <1>6, <1>8, BasedOn
<1>10. ASSUME MarkedBreaks(J), MarkedContinues(J), ~Misfit(Backward(Listed(J, Top, "continues"), cont))
       PROVE  /\ \A j \in J : j.owner # Top.id => j \in R
              /\ \A k \in R : \E j \in J : EndFate(k, j, cont, end)
  <2>1. \A j \in J : /\ Breaks(j) => j.kind = "break" /\ j.owner = Top.id
                     /\ Continues(j) => j.kind = "continue" /\ j.owner = Top.id
    BY <1>10 DEF MarkedBreaks, MarkedContinues
  <2>2. \A j \in J : Continues(j) => Fits(j.at + 1 - cont)
    <3>1. PICK P \in SUBSET JumpRec : P = Listed(J, Top, "continues") /\ \A j \in J : Continues(j) => j \in P
      BY DEF Listed
    <3>2. DOMAIN Backward(P, cont) = P /\ Offsets(Backward(P, cont)) /\ \A j \in P : Backward(P, cont)[j] = j.at + 1 - cont
      BY BackwardIs
    <3>3. PICK o : o = Backward(P, cont)
      OBVIOUS
    <3>4. \A j \in P : Fits(o[j])
      BY <1>10, <3>1, <3>2, <3>3, FittingIs
    <3> QED
      BY <3>1, <3>2, <3>3, <3>4
  <2>3. \A j \in J : j.owner # Top.id => j \in R
    BY <1>4, <1>6, <1>8, <2>1
  <2>4. ASSUME NEW k \in R PROVE \E j \in J : EndFate(k, j, cont, end)
    <3>1. PICK b \in B : /\ SameJump(k, b) /\ k.op = b.op
                         /\ Continues(b) /\ Fits(b.at + 1 - cont) => k.operand = Byte(b.at + 1 - cont)
                         /\ ~Continues(b) => k = b
      BY <1>8
    <3>2. PICK e \in E : /\ SameJump(b, e) /\ b.op = e.op
                         /\ Breaks(e) => b.operand = Byte(end - e.at - 1)
                         /\ ~Breaks(e) => b = e
      BY <1>6
    <3>3. PICK j \in J :
            /\ SameJump(e, j) /\ e.op = j.op
            /\ j.kind = "exit" /\ j.chunk = Chunk /\ j.owner = Top.id => e.operand = Byte(end - j.at - 1)
            /\ ~(j.kind = "exit" /\ j.chunk = Chunk /\ j.owner = Top.id) => e = j
      BY <1>4
    <3>4. /\ k.at = j.at /\ b.at = j.at /\ e.at = j.at /\ SameJump(k, j) /\ k.op = j.op
          /\ Breaks(e) <=> Breaks(j)
          /\ Continues(b) <=> Continues(j)
      BY <3>1, <3>2, <3>3 DEF SameJump
    <3>5. Continues(j) => k.operand = Byte(j.at + 1 - cont) /\ Fits(j.at + 1 - cont) /\ ~Breaks(j)
      BY <2>1, <2>2, <3>1, <3>4
    <3>6. ~Continues(j) => k = b
      BY <3>1, <3>4
    <3>7. Breaks(j) => b.operand = Byte(end - j.at - 1) /\ k = b
      BY <2>1, <3>2, <3>4, <3>6
    <3>8. ~Breaks(j) => b = e
      BY <3>2, <3>4
    <3>9. j.owner # Top.id \/ j.kind = "loop" => k = j
      BY <2>1, <3>3, <3>6, <3>8
    <3>10. j.kind = "exit" /\ j.chunk = Chunk /\ j.owner = Top.id => k.operand = Byte(end - j.at - 1)
      BY <2>1, <3>3, <3>6, <3>8
    <3>11. ASSUME j.op = "continue", Continues(j) PROVE Target(k) = cont
      <4>1. j.at \in Nat /\ j.at + 1 - cont \in Int
        BY RecIs
      <4>2. k.operand = j.at + 1 - cont
        BY <3>5, <3>11, <4>1, ExactByte
      <4>3. Target(k) = j.at + 1 - k.operand
        BY <3>4, <3>11 DEF Target
      <4> QED
        BY <4>1, <4>2, <4>3
    <3> HIDE DEF Breaks, Continues
    <3>12. EndFate(k, j, cont, end)
      BY <3>4, <3>7, <3>9, <3>10, <3>11 DEF EndFate, Breaks, Continues
    <3> QED
      BY <3>12
  <2> QED
    BY <2>3, <2>4
<1> QED
  BY <1>9, <1>10

\* OP_LOOP goes behind everything the loop has written.
LEMMA LoopJumpIs ==
    ASSUME Safe, CodeInv, frames # <<>>, Top.kind \in LoopKinds, NEW at \in Nat, NEW end \in Nat,
           Here <= at, at < end
    PROVE  \E l \in JumpRec : /\ EndJump(l, end) /\ l.kind = "loop" /\ l.at = at
                              /\ \A J : WithLoop(J, Top, at) = J \cup {l}
<1> DEFINE b == Byte(at - Top.start + 2)
           l == [Jump(at, "loop", "loop", Top.id, Top.id) EXCEPT !.operand = b]
<1>1. Top.id \in Ids /\ Top.start \in Nat /\ Chunk \in Chunks
  BY TopIs, StartsHere
<1>2. at - Top.start + 2 \in Int
  BY <1>1
<1>3. b \in Nat
  BY <1>2, ByteIs
<1>4. \A J : WithLoop(J, Top, at) = J \cup {l}
  BY DEF WithLoop
<1> HIDE DEF b
<1>5. l = [chunk |-> Chunk, at |-> at, kind |-> "loop", op |-> "loop", owner |-> Top.id, ctx |-> Top.id,
           operand |-> b]
  BY DEF Jump
<1>6. l \in JumpRec
  BY <1>1, <1>3, <1>5, NumbersAre DEF JumpRec, JumpKinds, Ops, Chunks
<1>7. EndJump(l, end) /\ l.kind = "loop" /\ l.at = at
  BY <1>5 DEF EndJump, b
<1> HIDE DEF l
<1> QED
  BY <1>4, <1>6, <1>7

\* Loops without an increment: the continues go back to the start.
LEMMA PlainLoopEnds ==
    ASSUME Safe, JumpInv, Kept, frames # <<>>, Top.kind \in LoopKinds, made' = made, loop_stack' = loop_stack,
           Pop, NEW end \in Nat, EndsAt(Top.start, end), count'[Chunk] = end, Here <= end,
           NEW N \in SUBSET JumpRec, OneEach(N), \A j \in N : EndJump(j, end),
           jumps' = LoopPatched(ExitPatched(jumps \cup N, Top, end), Top.start, end),
           errors' = {} => ~Misfit(Backward(Listed(jumps \cup N, Top, "continues"), Top.start)),
           Clean' /\ Clean /\ ListsInv /\ OwnersInv /\ Top.kind = "while" =>
             \A j \in jumps : j.owner = Top.id /\ j.kind \in {"exit", "break"} => end - j.at - 1 <= MaxOffset,
           Top.kind = "while" => \A j \in N : j.kind = "loop"
    PROVE  JumpInv'
<1>1. PICK J \in SUBSET JumpRec : J = jumps \cup N
  BY DEF JumpInv, CodeInv
<1>2. Top.start \in Nat /\ Top.start \in Int /\ end \in Int
  BY TopIs
<1>3. PICK start \in Nat : start = Top.start
  BY <1>2
<1>4. start \in Int /\ jumps' = LoopPatched(ExitPatched(J, Top, end), start, end)
  BY <1>1, <1>3
<1>5. /\ Based(jumps', J)
      /\ /\ MarkedBreaks(J) /\ MarkedContinues(J)
         /\ ~Misfit(Backward(Listed(J, Top, "continues"), start))
         => /\ \A j \in J : j.owner # Top.id => j \in jumps'
            /\ \A k \in jumps' : \E j \in J : EndFate(k, j, start, end)
  BY <1>2, <1>4, LoopFates
<1>6. ASSUME Clean', Clean, ListsInv, OwnersInv
      PROVE  /\ \A j \in jumps : j.owner # Top.id => j \in jumps'
             /\ \A k \in jumps' : \E j \in jumps \cup N : EndFate(k, j, start, end)
  <2>1. Top.kind \in ContextKinds /\ \A j \in N : j.chunk = Chunk /\ Here <= j.at
    BY KindSets DEF EndJump
  <2>2. MarkedBreaks(J) /\ MarkedContinues(J)
    BY <1>1, <1>6, <2>1, MarkedIs DEF JumpInv
  <2>3. ~Misfit(Backward(Listed(J, Top, "continues"), start))
    BY <1>1, <1>3, <1>6 DEF Clean
  <2> QED
    BY <1>1, <1>5, <2>2, <2>3
<1>7. EndsAt(start, end) /\ Based(jumps', jumps \cup N)
  BY <1>1, <1>3, <1>5
<1> QED
  BY <1>6, <1>7, LoopEnds

\* The exit of a while comes before its breaks: when it fits, they do.
LEMMA ExitCovers ==
    ASSUME Safe, CodeInv, ListsInv, OwnersInv, frames # <<>>, Top.kind = "while", NEW end \in Nat,
           NEW N \in SUBSET JumpRec, ~Misfit(Forward(JumpsOf(jumps \cup N, "exit", Top.id), end))
    PROVE  \A j \in jumps : j.owner = Top.id /\ j.kind \in {"exit", "break"} => end - j.at - 1 <= MaxOffset
<1>1. PICK n : n = Len(frames)
  OBVIOUS
<1>2. n \in DOMAIN frames /\ Top = frames[n]
  BY <1>1, FramesAre DEF Safe, NestInv, FrameInv
<1>3. Chunk = ChunkAt(n)
  BY <1>1, ChunkAtTop DEF Safe, NestInv
<1>4. PICK P \in SUBSET JumpRec :
        /\ P = JumpsOf(jumps \cup N, "exit", Top.id)
        /\ \A j \in jumps : j.chunk = Chunk /\ j.kind = "exit" /\ j.owner = Top.id => j \in P
  BY DEF JumpsOf, CodeInv
<1>5. PICK o : o = Forward(P, end)
  OBVIOUS
<1>6. DOMAIN o = P /\ Offsets(o) /\ \A j \in P : o[j] = end - j.at - 1
  BY <1>5, ForwardIs
<1>7. \A j \in P : Fits(o[j])
  BY <1>4, <1>5, <1>6, FittingIs
<1>8. \A j \in jumps : j.chunk = Chunk /\ j.kind = "exit" /\ j.owner = Top.id => end - j.at - 1 <= MaxOffset
  BY <1>4, <1>6, <1>7 DEF Fits
<1>9. ExitFirst(n)
  BY <1>2, KindSets DEF ListsInv, Open, Lists
<1>10. PICK e \in jumps : /\ e.chunk = Chunk /\ e.kind = "exit" /\ e.owner = Top.id
                          /\ \A b \in jumps : b.kind = "break" /\ b.owner = e.owner => e.at < b.at
  BY <1>2, <1>3, <1>9 DEF ExitFirst
<1> SUFFICES ASSUME NEW j \in jumps, j.owner = Top.id, j.kind \in {"exit", "break"}
             PROVE  end - j.at - 1 <= MaxOffset
  OBVIOUS
<1>11. Pending(j, n)
  BY <1>1, TopPending
<1>12. CASE j.kind = "exit"
  BY <1>3, <1>8, <1>11, <1>12 DEF Pending
<1>13. CASE j.kind = "break"
  <2>1. e.at < j.at /\ end - e.at - 1 <= MaxOffset
    BY <1>8, <1>10, <1>13
  <2>2. e.at \in Nat /\ j.at \in Nat
    BY RecIs DEF CodeInv
  <2> QED
    BY <2>1, <2>2, NumbersAre
<1> QED
  BY <1>12, <1>13

LEMMA BasedSelf == ASSUME NEW J \in SUBSET JumpRec PROVE Based(J, J)
BY DEF Based, SameJump

LEMMA EndWhileJumps == ASSUME Safe, JumpInv, EndWhile PROVE JumpInv'
<1>1. CodeInv /\ Kept
  BY EndWhileKept DEF JumpInv
<1>2. PICK end : end = Here + 2
  OBVIOUS
<1>3. /\ frames # <<>> /\ Top.kind = "while" /\ Pop /\ EndsAt(Top.start, end) /\ made' = made
      /\ loop_stack' = loop_stack /\ count' = [count EXCEPT ![Chunk] = end]
  BY <1>2 DEF EndWhile, Innermost
<1>4. /\ Here \in Nat /\ end \in Nat /\ Here + 1 \in Nat /\ Here <= Here + 1 /\ Here + 1 < end /\ Here <= end
      /\ Top.kind \in LoopKinds /\ count'[Chunk] = end
  <2>1. Here \in Nat
    BY StartsHere
  <2>2. count'[Chunk] = end /\ Top.kind \in LoopKinds
    BY <1>3, CountIs, KindSets
  <2> QED
    BY <1>2, <2>1, <2>2
<1>5. PICK l \in JumpRec : EndJump(l, end) /\ l.kind = "loop" /\ \A J : WithLoop(J, Top, Here + 1) = J \cup {l}
  BY <1>1, <1>3, <1>4, LoopJumpIs
<1>6. PICK J : J = WithLoop(jumps, Top, Here + 1)
  OBVIOUS
<1>7. J = jumps \cup {l} /\ J \in SUBSET JumpRec
  BY <1>1, <1>5, <1>6 DEF CodeInv
<1>8. \/ Report("exit") /\ jumps' = J
      \/ /\ ~Misfit(Forward(JumpsOf(J, "exit", Top.id), end))
         /\ jumps' = LoopPatched(ExitPatched(J, Top, end), Top.start, end)
         /\ Misfit(Backward(Listed(J, Top, "continues"), Top.start)) => Report("continue")
  BY <1>2, <1>6 DEF EndWhile
<1>9. /\ {l} \in SUBSET JumpRec /\ OneEach({l}) /\ (\A j \in {l} : EndJump(j, end)) /\ \A j \in {l} : j.kind = "loop"
  BY <1>5 DEF OneEach
<1>10. CASE Report("exit") /\ jumps' = J
  <2>1. errors' # {}
    BY <1>10 DEF Report
  <2>2. Based(jumps', jumps \cup {l})
    BY <1>7, <1>10, BasedSelf
  <2>3. place' \in [Ids -> PlaceRec] /\ \A x \in Ids : x # Top.id => place'[x] = place[x]
    <3>1. Top.start \in Nat
      BY <1>3, <1>4, TopIs
    <3> QED
      BY <1>1, <1>3, <1>4, <3>1, EndedAt
  <2>4. \A j \in {l} : j.chunk = Chunk /\ Here <= j.at /\ j.at < count'[Chunk] /\ j.owner = Top.id
    BY <1>4, <1>9 DEF EndJump
  <2>5. ~(Clean')
    BY <2>1 DEF Clean
  <2> QED
    BY <1>1, <1>3, <1>9, <2>2, <2>3, <2>4, <2>5, EndStep
<1>11. CASE /\ ~Misfit(Forward(JumpsOf(J, "exit", Top.id), end))
            /\ jumps' = LoopPatched(ExitPatched(J, Top, end), Top.start, end)
            /\ Misfit(Backward(Listed(J, Top, "continues"), Top.start)) => Report("continue")
  <2>1. errors' = {} => ~Misfit(Backward(Listed(jumps \cup {l}, Top, "continues"), Top.start))
    BY <1>7, <1>11 DEF Report
  <2>2. jumps' = LoopPatched(ExitPatched(jumps \cup {l}, Top, end), Top.start, end)
    BY <1>7, <1>11
  <2>3. Clean' /\ Clean /\ ListsInv /\ OwnersInv /\ Top.kind = "while" =>
          \A j \in jumps : j.owner = Top.id /\ j.kind \in {"exit", "break"} => end - j.at - 1 <= MaxOffset
    <3>1. ~Misfit(Forward(JumpsOf(jumps \cup {l}, "exit", Top.id), end))
      BY <1>7, <1>11
    <3> QED
      BY <1>1, <1>3, <1>4, <1>9, <3>1, ExitCovers
  <2> QED
    BY <1>1, <1>3, <1>4, <1>9, <2>1, <2>2, <2>3, PlainLoopEnds
<1> QED
  BY <1>8, <1>10, <1>11

LEMMA EndDoJumps == ASSUME Safe, JumpInv, NEW n \in Nat, EndDo(n) PROVE JumpInv'
<1>1. CodeInv /\ Kept
  BY EndDoKept DEF JumpInv
<1>2. PICK end, at, exit : /\ end = Here + n + 4 /\ at = Here + n + 3
                           /\ exit = Jump(Here + n + 1, "exit", "jump", Top.id, Top.id)
  OBVIOUS
<1>3. /\ frames # <<>> /\ Top.kind = "do" /\ Pop /\ EndsAt(Top.start, end) /\ made' = made
      /\ loop_stack' = loop_stack /\ count' = [count EXCEPT ![Chunk] = end]
  BY <1>2 DEF EndDo, Innermost
<1>4. /\ Here \in Nat /\ end \in Nat /\ at \in Nat /\ Here <= at /\ at < end /\ Here <= end
      /\ Here + n + 1 \in Nat /\ Here <= Here + n + 1 /\ Here + n + 1 < end /\ Here + n + 1 # at
      /\ Top.kind \in LoopKinds /\ count'[Chunk] = end /\ Top.kind # "while"
  <2>1. Here \in Nat
    BY StartsHere
  <2>2. count'[Chunk] = end /\ Top.kind \in LoopKinds /\ Top.kind # "while"
    BY <1>3, CountIs, KindSets
  <2> QED
    BY <1>2, <2>1, <2>2
<1>5. PICK l \in JumpRec : EndJump(l, end) /\ l.at = at /\ \A J : WithLoop(J, Top, at) = J \cup {l}
  BY <1>1, <1>3, <1>4, LoopJumpIs
<1>6. exit \in JumpRec /\ EndJump(exit, end) /\ exit.at = Here + n + 1
  <2>1. Top.id \in Ids /\ Chunk \in Chunks /\ Top.id \in Chunks /\ Top.id \in Nat
    BY <1>3, TopIs, StartsHere, NumbersAre DEF Chunks
  <2>2. exit = [chunk |-> Chunk, at |-> Here + n + 1, kind |-> "exit", op |-> "jump", owner |-> Top.id,
                ctx |-> Top.id, operand |-> 0]
    BY <1>2 DEF Jump
  <2>3. exit \in JumpRec
    BY <1>4, <2>1, <2>2 DEF JumpRec, JumpKinds, Ops
  <2> QED
    BY <1>4, <2>2, <2>3 DEF EndJump
<1>7. PICK N : N = {exit, l}
  OBVIOUS
<1>8. N \in SUBSET JumpRec /\ OneEach(N) /\ \A j \in N : EndJump(j, end)
  BY <1>4, <1>5, <1>6, <1>7 DEF OneEach
<1>9. PICK J : J = WithLoop(jumps \cup {exit}, Top, at)
  OBVIOUS
<1>10. J = jumps \cup N
  BY <1>5, <1>7, <1>9
<1>11. /\ jumps' = LoopPatched(ExitPatched(J, Top, end), Top.start, end)
       /\ Misfit(Backward(Listed(J, Top, "continues"), Top.start)) => Report("continue")
  BY <1>2, <1>9 DEF EndDo
<1>12. /\ jumps' = LoopPatched(ExitPatched(jumps \cup N, Top, end), Top.start, end)
       /\ errors' = {} => ~Misfit(Backward(Listed(jumps \cup N, Top, "continues"), Top.start))
  BY <1>10, <1>11 DEF Report
<1> QED
  BY <1>1, <1>3, <1>4, <1>8, <1>12, PlainLoopEnds

\* With an increment the continues become forward jumps to it.
Redirected(B) == {IF j \in Listed(B, Top, "continues") THEN [j EXCEPT !.op = "jump"] ELSE j : j \in B}

LEMMA RedirectFates ==
    ASSUME NEW B \in SUBSET JumpRec, NEW F, F = Redirected(B)
    PROVE  /\ Based(F, B)
           /\ \A j \in B : ~(j.chunk = Chunk /\ Contains(loop_stack[Top.ctx].continues, j.at)) => j \in F
           /\ \A f \in F : \E j \in B :
                /\ SameJump(f, j) /\ f.operand = j.operand
                /\ j.chunk = Chunk /\ Contains(loop_stack[Top.ctx].continues, j.at) => f.op = "jump"
                /\ ~(j.chunk = Chunk /\ Contains(loop_stack[Top.ctx].continues, j.at)) => f = j
<1> DEFINE Continues(j) == j.chunk = Chunk /\ Contains(loop_stack[Top.ctx].continues, j.at)
<1> DEFINE A(j) == IF j \in Listed(B, Top, "continues") THEN [j EXCEPT !.op = "jump"] ELSE j
<1>1. F = {A(j) : j \in B}
  BY DEF Redirected
<1>2. \A j \in B : j \in Listed(B, Top, "continues") <=> Continues(j)
  BY DEF Listed
<1> HIDE DEF Continues
<1>3. ASSUME NEW j \in B
      PROVE  /\ A(j) \in JumpRec /\ SameJump(A(j), j) /\ A(j).operand = j.operand
             /\ Continues(j) => A(j).op = "jump"
             /\ ~Continues(j) => A(j) = j
  <2>1. j \in JumpRec
    OBVIOUS
  <2>2. /\ [j EXCEPT !.op = "jump"] \in JumpRec /\ SameJump([j EXCEPT !.op = "jump"], j)
        /\ [j EXCEPT !.op = "jump"].operand = j.operand /\ [j EXCEPT !.op = "jump"].op = "jump"
    BY <2>1 DEF JumpRec, SameJump, Ops
  <2>3. CASE Continues(j)
    BY <1>2, <2>2, <2>3
  <2>4. CASE ~Continues(j)
    BY <1>2, <2>1, <2>4 DEF SameJump
  <2> QED
    BY <2>3, <2>4
<1> HIDE DEF A
<1>4. ASSUME OneEach(B) PROVE OneEach(F)
  <2> SUFFICES ASSUME NEW i \in B, NEW j \in B, A(i).chunk = A(j).chunk, A(i).at = A(j).at PROVE A(i) = A(j)
    BY <1>1 DEF OneEach
  <2>1. i.chunk = j.chunk /\ i.at = j.at
    BY <1>3 DEF SameJump
  <2>2. i = j
    BY <1>4, <2>1 DEF OneEach
  <2> QED
    BY <2>2
<1>5. Based(F, B)
  BY <1>1, <1>3, <1>4 DEF Based
<1> QED
  BY <1>1, <1>3, <1>5 DEF Continues

BreaksPatched(E, end) == Patch(E, Forward(Listed(E, Top, "breaks"), end))

ToIncrement(J, inc, end) ==
    Forward(Listed(Redirected(BreaksPatched(ExitPatched(J, Top, end), end)), Top, "continues"), inc)
IncrementPatched(J, inc, end) ==
    Patch(Redirected(BreaksPatched(ExitPatched(J, Top, end), end)), Fitting(ToIncrement(J, inc, end)))

LEMMA IncrementFates ==
    ASSUME NEW J \in SUBSET JumpRec, NEW inc \in Int, NEW end \in Int,
           NEW R, R = IncrementPatched(J, inc, end)
    PROVE  /\ Based(R, J)
           /\ MarkedBreaks(J) /\ MarkedContinues(J) /\ ~Misfit(ToIncrement(J, inc, end))
              => /\ \A j \in J : j.owner # Top.id => j \in R
                 /\ \A k \in R : \E j \in J : EndFate(k, j, inc, end)
<1> DEFINE Breaks(j) == j.chunk = Chunk /\ Contains(loop_stack[Top.ctx].breaks, j.at)
           Continues(j) == j.chunk = Chunk /\ Contains(loop_stack[Top.ctx].continues, j.at)
<1>a. PICK E : E = ExitPatched(J, Top, end)
  OBVIOUS
<1>b. PICK B : B = BreaksPatched(E, end)
  OBVIOUS
<1>c. PICK F : F = Redirected(B)
  OBVIOUS
<1>d. /\ R = Patch(F, Fitting(Forward(Listed(F, Top, "continues"), inc)))
      /\ ToIncrement(J, inc, end) = Forward(Listed(F, Top, "continues"), inc)
  BY <1>a, <1>b, <1>c DEF IncrementPatched, ToIncrement
<1>1. /\ Based(E, J)
      /\ \A j \in J : j.owner # Top.id => j \in E
      /\ \A e \in E : \E j \in J :
           /\ SameJump(e, j) /\ e.op = j.op
           /\ j.kind = "exit" /\ j.chunk = Chunk /\ j.owner = Top.id => e.operand = Byte(end - j.at - 1)
           /\ ~(j.kind = "exit" /\ j.chunk = Chunk /\ j.owner = Top.id) => e = j
  BY <1>a, ExitFates
<1>2. E \in SUBSET JumpRec
  BY <1>1 DEF Based
<1>3. /\ Based(B, E)
      /\ \A j \in E : ~Breaks(j) => j \in B
      /\ \A b \in B : \E j \in E : /\ SameJump(b, j) /\ b.op = j.op
                                   /\ Breaks(j) => b.operand = Byte(end - j.at - 1)
                                   /\ ~Breaks(j) => b = j
  BY <1>2, <1>b, BreakFates DEF BreaksPatched
<1>4. B \in SUBSET JumpRec
  BY <1>3 DEF Based
<1>5. /\ Based(F, B)
      /\ \A j \in B : ~Continues(j) => j \in F
      /\ \A f \in F : \E j \in B : /\ SameJump(f, j) /\ f.operand = j.operand
                                   /\ Continues(j) => f.op = "jump"
                                   /\ ~Continues(j) => f = j
  BY <1>4, <1>c, RedirectFates
<1>6. F \in SUBSET JumpRec
  BY <1>5 DEF Based
<1>7. PICK P \in SUBSET JumpRec : P = Listed(F, Top, "continues") /\ \A j \in F : j \in P <=> Continues(j)
  <2>1. Listed(F, Top, "continues") \in SUBSET JumpRec
    BY <1>6 DEF Listed
  <2>2. \A j \in F : j \in Listed(F, Top, "continues") <=> Continues(j)
    BY DEF Listed
  <2> QED
    BY <2>1, <2>2
<1>8. PICK o : o = Forward(P, inc)
  OBVIOUS
<1>9. DOMAIN o = P /\ Offsets(o) /\ \A j \in P : o[j] = inc - j.at - 1
  BY <1>8, ForwardIs
<1>10. /\ DOMAIN Fitting(o) = {j \in P : Fits(o[j])} /\ Offsets(Fitting(o))
       /\ \A j \in DOMAIN Fitting(o) : Fitting(o)[j] = o[j]
       /\ ~Misfit(o) => \A j \in P : Fits(o[j])
  BY <1>9, FittingIs
<1>11. PICK p : p = Fitting(o)
  OBVIOUS
<1>12. R = Patch(F, p) /\ Offsets(p)
  BY <1>7, <1>8, <1>10, <1>11, <1>d
<1>13. /\ \A k \in R : \E j \in F : Fate(k, j, p)
       /\ \A j \in F : j \notin DOMAIN p => j \in R
       /\ Based(R, F)
  BY <1>6, <1>12, PatchIs
<1>14. Based(R, J)
  BY <1>1, <1>3, <1>5, <1>13, BasedOn
<1>15. ASSUME MarkedBreaks(J), MarkedContinues(J), ~Misfit(Forward(Listed(F, Top, "continues"), inc))
       PROVE  /\ \A j \in J : j.owner # Top.id => j \in R
              /\ \A k \in R : \E j \in J : EndFate(k, j, inc, end)
  <2>1. \A j \in J : /\ Breaks(j) => j.kind = "break" /\ j.owner = Top.id
                     /\ Continues(j) => j.kind = "continue" /\ j.owner = Top.id
    BY <1>15 DEF MarkedBreaks, MarkedContinues
  <2>2. \A j \in F : /\ Continues(j) => j \in DOMAIN p /\ p[j] = inc - j.at - 1 /\ Fits(inc - j.at - 1)
                     /\ ~Continues(j) => j \notin DOMAIN p
    BY <1>7, <1>8, <1>9, <1>10, <1>11, <1>15
  <2>3. \A j \in J : j.owner # Top.id => j \in R
    BY <1>1, <1>3, <1>5, <1>13, <2>1, <2>2
  <2>4. ASSUME NEW k \in R PROVE \E j \in J : EndFate(k, j, inc, end)
    <3>1. PICK f \in F : Fate(k, f, p)
      BY <1>13
    <3>2. PICK b \in B : /\ SameJump(f, b) /\ f.operand = b.operand
                         /\ Continues(b) => f.op = "jump"
                         /\ ~Continues(b) => f = b
      BY <1>5
    <3>3. PICK e \in E : /\ SameJump(b, e) /\ b.op = e.op
                         /\ Breaks(e) => b.operand = Byte(end - e.at - 1)
                         /\ ~Breaks(e) => b = e
      BY <1>3
    <3>4. PICK j \in J :
            /\ SameJump(e, j) /\ e.op = j.op
            /\ j.kind = "exit" /\ j.chunk = Chunk /\ j.owner = Top.id => e.operand = Byte(end - j.at - 1)
            /\ ~(j.kind = "exit" /\ j.chunk = Chunk /\ j.owner = Top.id) => e = j
      BY <1>1
    <3>5. /\ SameJump(k, f) /\ k.op = f.op
          /\ Continues(f) => k.operand = Byte(inc - f.at - 1) /\ Fits(inc - f.at - 1)
          /\ ~Continues(f) => k = f
      BY <2>2, <3>1 DEF Fate
    <3>6. /\ k.at = j.at /\ f.at = j.at /\ b.at = j.at /\ e.at = j.at /\ SameJump(k, j)
          /\ Breaks(e) <=> Breaks(j)
          /\ Continues(b) <=> Continues(j)
          /\ Continues(f) <=> Continues(j)
      BY <3>2, <3>3, <3>4, <3>5 DEF SameJump
    <3>7. ~Continues(j) => k = b
      BY <3>2, <3>5, <3>6
    <3>8. Breaks(j) => b.operand = Byte(end - j.at - 1) /\ k = b
      BY <2>1, <3>3, <3>6, <3>7
    <3>9. ~Breaks(j) => b = e
      BY <3>3, <3>6
    <3>10. j.owner # Top.id \/ j.kind = "loop" => k = j
      BY <2>1, <3>4, <3>7, <3>9
    <3>11. j.kind = "exit" /\ j.chunk = Chunk /\ j.owner = Top.id => k.operand = Byte(end - j.at - 1)
      BY <2>1, <3>4, <3>7, <3>9
    <3>12. j.kind # "continue" => k.op = j.op
      BY <2>1, <3>3, <3>4, <3>7
    <3>13. ASSUME Continues(j) PROVE Target(k) = inc
      <4>1. j.at \in Nat /\ inc - j.at - 1 \in Int
        BY RecIs
      <4>2. k.operand = Byte(inc - j.at - 1) /\ Fits(inc - j.at - 1) /\ k.op = "jump" /\ k.at = j.at
        BY <3>2, <3>5, <3>6, <3>13
      <4>3. k.operand = inc - j.at - 1
        BY <4>1, <4>2, ExactByte
      <4>4. Target(k) = j.at + 1 + k.operand
        BY <4>2 DEF Target
      <4> QED
        BY <4>1, <4>3, <4>4
    <3> HIDE DEF Breaks, Continues
    <3>14. EndFate(k, j, inc, end)
      BY <3>6, <3>8, <3>10, <3>11, <3>12, <3>13 DEF EndFate, Breaks, Continues
    <3> QED
      BY <3>14
  <2> QED
    BY <2>3, <2>4
<1> QED
  BY <1>14, <1>15, <1>d

LEMMA EndForJumps == ASSUME Safe, JumpInv, EndFor PROVE JumpInv'
<1>1. CodeInv /\ Kept
  BY EndForKept DEF JumpInv
<1>2. PICK inc, at, end : inc = Here /\ at = Here + IncrementLength(Top.inc) + 1 /\ end = Here + IncrementLength(Top.inc) + 2
  OBVIOUS
<1>3. /\ frames # <<>> /\ Top.kind = "for" /\ Pop /\ made' = made /\ loop_stack' = loop_stack
      /\ count' = [count EXCEPT ![Chunk] = end]
      /\ EndsAt(IF Top.inc = "none" THEN Top.start ELSE inc, end)
  BY <1>2 DEF EndFor, Innermost
<1>4. /\ Here \in Nat /\ end \in Nat /\ at \in Nat /\ Here <= at /\ at < end /\ Here <= end /\ inc \in Nat /\ inc \in Int /\ end \in Int
      /\ Top.kind \in LoopKinds /\ count'[Chunk] = end /\ Top.kind # "while"
  <2>1. Here \in Nat /\ IncrementLength(Top.inc) \in Nat
    BY StartsHere DEF IncrementLength
  <2>2. count'[Chunk] = end /\ Top.kind \in LoopKinds /\ Top.kind # "while"
    BY <1>3, CountIs, KindSets
  <2> QED
    BY <1>2, <2>1, <2>2
<1>5. PICK l \in JumpRec : EndJump(l, end) /\ l.at = at /\ \A J : WithLoop(J, Top, at) = J \cup {l}
  BY <1>1, <1>3, <1>4, LoopJumpIs
<1>6. PICK J : J = WithLoop(jumps, Top, at)
  OBVIOUS
<1>7. J = jumps \cup {l} /\ J \in SUBSET JumpRec
  BY <1>1, <1>5, <1>6 DEF CodeInv
<1>8. {l} \in SUBSET JumpRec /\ OneEach({l}) /\ \A j \in {l} : EndJump(j, end)
  BY <1>5 DEF OneEach
<1>9. PICK E : E = ExitPatched(J, Top, end)
  OBVIOUS
<1>10. PICK B : B = Patch(E, Forward(Listed(E, Top, "breaks"), end))
  OBVIOUS
<1>11. PICK F : F = Redirected(B)
  OBVIOUS
<1>12. /\ jumps' = IF Top.inc = "none" THEN LoopPatched(E, Top.start, end)
                   ELSE Patch(F, Fitting(Forward(Listed(F, Top, "continues"), inc)))
       /\ IF \/ Top.inc = "none" /\ Misfit(Backward(Listed(J, Top, "continues"), Top.start))
             \/ Top.inc # "none" /\ Misfit(Forward(Listed(F, Top, "continues"), inc))
          THEN Report("continue") ELSE UNCHANGED errors
  BY <1>2, <1>6, <1>9, <1>10, <1>11 DEF EndFor, Redirected
<1>13. CASE Top.inc = "none"
  <2>1. EndsAt(Top.start, end) /\ jumps' = LoopPatched(ExitPatched(jumps \cup {l}, Top, end), Top.start, end)
    BY <1>3, <1>7, <1>9, <1>12, <1>13
  <2>2. errors' = {} => ~Misfit(Backward(Listed(jumps \cup {l}, Top, "continues"), Top.start))
    BY <1>7, <1>12, <1>13 DEF Report
  <2> QED
    BY <1>1, <1>3, <1>4, <1>8, <2>1, <2>2, PlainLoopEnds
<1>14. CASE Top.inc # "none"
  <2>1. EndsAt(inc, end) /\ jumps' = Patch(F, Fitting(Forward(Listed(F, Top, "continues"), inc)))
    BY <1>3, <1>12, <1>14
  <2>2. errors' = {} => ~Misfit(Forward(Listed(F, Top, "continues"), inc))
    BY <1>12, <1>14 DEF Report
  <2>3. /\ Based(jumps', J)
        /\ /\ MarkedBreaks(J) /\ MarkedContinues(J)
           /\ ~Misfit(ToIncrement(J, inc, end))
           => /\ \A j \in J : j.owner # Top.id => j \in jumps'
              /\ \A k \in jumps' : \E j \in J : EndFate(k, j, inc, end)
    <3>1. jumps' = IncrementPatched(J, inc, end)
      BY <1>9, <1>10, <1>11, <2>1 DEF BreaksPatched, IncrementPatched, ToIncrement
    <3>2. inc \in Int /\ end \in Int /\ J \in SUBSET JumpRec
      BY <1>4, <1>7
    <3>3. PICK R : R = jumps'
      OBVIOUS
    <3>4. R = IncrementPatched(J, inc, end)
      BY <3>1, <3>3
    <3>5. Based(R, J)
      BY <3>2, <3>4, IncrementFates
    <3>6. MarkedBreaks(J) /\ MarkedContinues(J) /\ ~Misfit(ToIncrement(J, inc, end))
           => /\ \A j \in J : j.owner # Top.id => j \in R
              /\ \A k \in R : \E j \in J : EndFate(k, j, inc, end)
      BY <3>2, <3>4, IncrementFates
    <3> QED
      BY <3>3, <3>5, <3>6
  <2>4. ASSUME Clean', Clean, ListsInv, OwnersInv
        PROVE  /\ \A j \in jumps : j.owner # Top.id => j \in jumps'
               /\ \A k \in jumps' : \E j \in jumps \cup {l} : EndFate(k, j, inc, end)
    <3>1. Top.kind \in ContextKinds /\ \A j \in {l} : j.chunk = Chunk /\ Here <= j.at
      BY <1>3, <1>8, KindSets DEF EndJump
    <3>2. MarkedBreaks(J) /\ MarkedContinues(J)
      BY <1>1, <1>3, <1>4, <1>7, <1>8, <2>4, <3>1, MarkedIs
    <3>3. ~Misfit(ToIncrement(J, inc, end))
      BY <1>9, <1>10, <1>11, <2>2, <2>4 DEF Clean, ToIncrement, BreaksPatched
    <3> QED
      BY <1>7, <2>3, <3>2, <3>3
  <2>5. Based(jumps', jumps \cup {l})
    BY <1>7, <2>3
  <2> QED
    BY <1>1, <1>3, <1>4, <1>8, <2>1, <2>4, <2>5, LoopEnds
<1> QED
  BY <1>13, <1>14

-----------------------------------------------------------------------------
\* The end of a switch.
CaseOffsets(end) ==
    [j \in JumpsOf(jumps, "case", Top.id) |-> CaseTarget(place[Top.id], j.ctx, end) - j.at - 1]
CasesPatched(end) == Patch(jumps, Fitting(CaseOffsets(end)))

LEMMA CaseTargetIs ==
    ASSUME NEW p \in PlaceRec, NEW i \in Nat, NEW end \in Int
    PROVE  CaseTarget(p, i, end) \in Int
<1>1. p.bodies \in Seq(Int) /\ p.default \in Int
  BY DEF PlaceRec
<1>2. Len(p.bodies) \in Nat /\ \A k \in 1..Len(p.bodies) : p.bodies[k] \in Int
  BY <1>1, LenProperties
<1>3. i + 1 <= Len(p.bodies) => i + 1 \in 1..Len(p.bodies)
  BY <1>2
<1> QED
  BY <1>1, <1>2, <1>3 DEF CaseTarget

LEMMA CaseOffsetsAre ==
    ASSUME Safe, CodeInv, frames # <<>>, NEW end \in Int, NEW o, o = CaseOffsets(end)
    PROVE  /\ DOMAIN o = JumpsOf(jumps, "case", Top.id) /\ Offsets(o)
           /\ \A j \in DOMAIN o : /\ o[j] = CaseTarget(place[Top.id], j.ctx, end) - j.at - 1
                                  /\ CaseTarget(place[Top.id], j.ctx, end) \in Int /\ j.at \in Int
<1>1. place[Top.id] \in PlaceRec
  BY PlaceOf
<1>2. PICK P : P = JumpsOf(jumps, "case", Top.id)
  OBVIOUS
<1>3. \A j \in P : j \in JumpRec
  BY <1>2 DEF JumpsOf, CodeInv
<1>4. \A j \in P : j.ctx \in Nat /\ j.at \in Int
  BY <1>3, RecIs
<1>5. \A j \in P : CaseTarget(place[Top.id], j.ctx, end) \in Int
  BY <1>1, <1>4, CaseTargetIs
<1>6. \A j \in P : CaseTarget(place[Top.id], j.ctx, end) - j.at - 1 \in Int
  BY <1>4, <1>5
<1>7. DOMAIN o = P /\ \A j \in P : o[j] = CaseTarget(place[Top.id], j.ctx, end) - j.at - 1
  BY <1>2 DEF CaseOffsets
<1> QED
  BY <1>2, <1>4, <1>5, <1>6, <1>7 DEF Offsets

LEMMA CaseFates ==
    ASSUME Safe, CodeInv, frames # <<>>, NEW end \in Int, NEW C, C = CasesPatched(end)
    PROVE  /\ Based(C, jumps)
           /\ \A j \in jumps : j.owner # Top.id => j \in C
           /\ \A c \in C : \E j \in jumps :
                /\ SameJump(c, j) /\ c.op = j.op
                /\ ~(j.kind = "case" /\ j.chunk = Chunk /\ j.owner = Top.id) => c = j
                /\ /\ j.kind = "case" /\ j.chunk = Chunk /\ j.owner = Top.id /\ j.op = "jump"
                   /\ ~Misfit(CaseOffsets(end))
                   => Target(c) = CaseTarget(place[Top.id], j.ctx, end)
<1>1. PICK o : o = CaseOffsets(end)
  OBVIOUS
<1>2. /\ DOMAIN o = JumpsOf(jumps, "case", Top.id) /\ Offsets(o)
      /\ \A j \in DOMAIN o : /\ o[j] = CaseTarget(place[Top.id], j.ctx, end) - j.at - 1
                             /\ CaseTarget(place[Top.id], j.ctx, end) \in Int /\ j.at \in Int
  BY <1>1, CaseOffsetsAre
<1>3. \A j \in jumps : j \in DOMAIN o <=> j.chunk = Chunk /\ j.kind = "case" /\ j.owner = Top.id
  BY <1>2 DEF JumpsOf
<1>4. PICK f : f = Fitting(o)
  OBVIOUS
<1>5. /\ DOMAIN f = {j \in DOMAIN o : Fits(o[j])} /\ Offsets(f)
      /\ \A j \in DOMAIN f : f[j] = o[j]
      /\ ~Misfit(o) => \A j \in DOMAIN o : Fits(o[j])
  BY <1>2, <1>4, FittingIs
<1>6. C = Patch(jumps, f) /\ jumps \in SUBSET JumpRec
  BY <1>1, <1>4 DEF CasesPatched, CodeInv
<1>7. /\ \A k \in C : \E j \in jumps : Fate(k, j, f)
      /\ \A j \in jumps : j \notin DOMAIN f => j \in C
      /\ Based(C, jumps)
  BY <1>5, <1>6, PatchIs
<1>8. ASSUME NEW c \in C, NEW j \in jumps, Fate(c, j, f), ~Misfit(o), j \in DOMAIN o, j.op = "jump"
      PROVE  Target(c) = CaseTarget(place[Top.id], j.ctx, end)
  <2>1. Fits(o[j]) /\ j \in DOMAIN f /\ f[j] = o[j] /\ o[j] \in Int
    BY <1>2, <1>5, <1>8 DEF Offsets
  <2>2. c.operand = o[j] /\ c.op = "jump" /\ c.at = j.at
    BY <1>8, <2>1, ExactByte DEF Fate, SameJump
  <2>3. Target(c) = j.at + 1 + o[j]
    BY <2>2 DEF Target
  <2> QED
    BY <1>2, <1>8, <2>3
<1>9. ASSUME NEW c \in C
      PROVE  \E j \in jumps :
                /\ SameJump(c, j) /\ c.op = j.op
                /\ ~(j.kind = "case" /\ j.chunk = Chunk /\ j.owner = Top.id) => c = j
                /\ /\ j.kind = "case" /\ j.chunk = Chunk /\ j.owner = Top.id /\ j.op = "jump"
                   /\ ~Misfit(CaseOffsets(end))
                   => Target(c) = CaseTarget(place[Top.id], j.ctx, end)
  <2>1. PICK j \in jumps : Fate(c, j, f)
    BY <1>7
  <2>2. SameJump(c, j) /\ c.op = j.op /\ (j \notin DOMAIN f => c = j)
    BY <2>1 DEF Fate
  <2>3. ~(j.kind = "case" /\ j.chunk = Chunk /\ j.owner = Top.id) => j \notin DOMAIN f
    BY <1>3, <1>5
  <2>4. /\ j.kind = "case" /\ j.chunk = Chunk /\ j.owner = Top.id /\ j.op = "jump"
        /\ ~Misfit(CaseOffsets(end))
        => Target(c) = CaseTarget(place[Top.id], j.ctx, end)
    BY <1>1, <1>3, <1>8, <2>1
  <2> QED
    BY <2>2, <2>3, <2>4
<1>10. \A j \in jumps : j.owner # Top.id => j \in C
  BY <1>3, <1>5, <1>7
<1> QED
  BY <1>7, <1>9, <1>10

\* The breaks of a switch are compared with the limit.
LEMMA CheckedBreakFates ==
    ASSUME NEW J \in SUBSET JumpRec, NEW end \in Int,
           NEW K, K = Patch(J, Fitting(Forward(Listed(J, Top, "breaks"), end)))
    PROVE  /\ Based(K, J)
           /\ \A j \in J : ~(j.chunk = Chunk /\ Contains(loop_stack[Top.ctx].breaks, j.at)) => j \in K
           /\ \A k \in K : \E j \in J :
                /\ SameJump(k, j) /\ k.op = j.op
                /\ ~(j.chunk = Chunk /\ Contains(loop_stack[Top.ctx].breaks, j.at)) => k = j
                /\ /\ j.chunk = Chunk /\ Contains(loop_stack[Top.ctx].breaks, j.at) /\ j.op = "break"
                   /\ ~Misfit(Forward(Listed(J, Top, "breaks"), end))
                   => Target(k) = end
<1> DEFINE Breaks(j) == j.chunk = Chunk /\ Contains(loop_stack[Top.ctx].breaks, j.at)
<1>1. PICK P : P = Listed(J, Top, "breaks")
  OBVIOUS
<1>2. P \in SUBSET JumpRec /\ \A j \in J : j \in P <=> Breaks(j)
  BY <1>1 DEF Listed
<1>3. PICK o : o = Forward(P, end)
  OBVIOUS
<1>4. DOMAIN o = P /\ Offsets(o) /\ \A j \in P : o[j] = end - j.at - 1
  BY <1>2, <1>3, ForwardIs
<1>5. PICK f : f = Fitting(o)
  OBVIOUS
<1>6. /\ DOMAIN f = {j \in DOMAIN o : Fits(o[j])} /\ Offsets(f)
      /\ \A j \in DOMAIN f : f[j] = o[j]
      /\ ~Misfit(o) => \A j \in DOMAIN o : Fits(o[j])
  BY <1>4, <1>5, FittingIs
<1>7. K = Patch(J, f)
  BY <1>1, <1>3, <1>5
<1>8. /\ \A k \in K : \E j \in J : Fate(k, j, f)
      /\ \A j \in J : j \notin DOMAIN f => j \in K
      /\ Based(K, J)
  BY <1>6, <1>7, PatchIs
<1>9. \A j \in J : ~Breaks(j) => j \notin DOMAIN f
  BY <1>2, <1>4, <1>6
<1>10. ASSUME NEW k \in K, NEW j \in J, Fate(k, j, f), ~Misfit(o), Breaks(j), j.op = "break"
       PROVE  Target(k) = end
  <2>1. j \in DOMAIN f /\ f[j] = end - j.at - 1 /\ Fits(end - j.at - 1)
    BY <1>2, <1>4, <1>6, <1>10
  <2>2. j.at \in Nat /\ end - j.at - 1 \in Int
    BY RecIs
  <2>3. k.operand = end - j.at - 1 /\ k.op = "break" /\ k.at = j.at
    BY <1>10, <2>1, <2>2, ExactByte DEF Fate, SameJump
  <2>4. Target(k) = j.at + 1 + k.operand
    BY <2>3 DEF Target
  <2> QED
    BY <2>2, <2>3, <2>4
<1> HIDE DEF Breaks
<1>11. ASSUME NEW k \in K
       PROVE  \E j \in J : /\ SameJump(k, j) /\ k.op = j.op
                           /\ ~Breaks(j) => k = j
                           /\ Breaks(j) /\ j.op = "break" /\ ~Misfit(o) => Target(k) = end
  <2>1. PICK j \in J : Fate(k, j, f)
    BY <1>8
  <2>2. SameJump(k, j) /\ k.op = j.op /\ (j \notin DOMAIN f => k = j)
    BY <2>1 DEF Fate
  <2> QED
    BY <1>9, <1>10, <2>1, <2>2
<1> QED
  BY <1>1, <1>3, <1>8, <1>9, <1>11 DEF Breaks

LEMMA EndSwitchJumps == ASSUME Safe, JumpInv, EndSwitch PROVE JumpInv'
<1>1. CodeInv /\ Kept
  BY EndSwitchKept DEF JumpInv
<1>2. PICK end : end = Here + 1
  OBVIOUS
<1>3. PICK C : C = CasesPatched(end)
  OBVIOUS
<1>4. /\ frames # <<>> /\ Top.kind = "switch" /\ Pop /\ made' = made /\ loop_stack' = loop_stack
      /\ place' = [place EXCEPT ![Top.id] = [@ EXCEPT !.of = "switch", !.popped = Here, !.end = end]]
      /\ count' = [count EXCEPT ![Chunk] = end]
      /\ jumps' = Patch(C, Fitting(Forward(Listed(C, Top, "breaks"), end)))
      /\ IF Misfit(CaseOffsets(end)) \/ Misfit(Forward(Listed(C, Top, "breaks"), end))
         THEN Report("switch") ELSE UNCHANGED errors
  BY <1>2, <1>3 DEF EndSwitch, Innermost, CasesPatched, CaseOffsets
<1>5. Here \in Nat /\ end \in Nat /\ end \in Int /\ Here \in Int
  <2>1. Here \in Nat
    BY StartsHere
  <2> QED
    BY <1>2, <2>1
<1>6. PICK p, q : p = place[Top.id] /\ q = [p EXCEPT !.of = "switch", !.popped = Here, !.end = end]
  OBVIOUS
<1>7. Top.id \in Ids /\ p \in PlaceRec /\ place \in [Ids -> PlaceRec]
  BY <1>1, <1>4, <1>6, PlaceOf DEF CodeInv
<1>8. PICK h \in Int : h = Here
  BY <1>5
<1>9. q \in PlaceRec /\ q.end = end /\ q.bodies = p.bodies /\ q.default = p.default /\ q.of = "switch"
  <2>1. q = [p EXCEPT !.of = "switch", !.popped = h, !.end = end]
    BY <1>6, <1>8
  <2> QED
    BY <1>5, <1>7, <2>1, KindSets DEF PlaceRec
<1>10. place' = [place EXCEPT ![Top.id] = q]
  BY <1>4, <1>6
<1>11. place' \in [Ids -> PlaceRec] /\ place'[Top.id] = q /\ \A x \in Ids : x # Top.id => place'[x] = place[x]
  BY <1>7, <1>9, <1>10
<1>12. /\ Based(C, jumps)
       /\ \A j \in jumps : j.owner # Top.id => j \in C
       /\ \A c \in C : \E j \in jumps :
            /\ SameJump(c, j) /\ c.op = j.op
            /\ ~(j.kind = "case" /\ j.chunk = Chunk /\ j.owner = Top.id) => c = j
            /\ /\ j.kind = "case" /\ j.chunk = Chunk /\ j.owner = Top.id /\ j.op = "jump"
               /\ ~Misfit(CaseOffsets(end))
               => Target(c) = CaseTarget(p, j.ctx, end)
  BY <1>1, <1>3, <1>4, <1>5, <1>6, CaseFates
<1>13. C \in SUBSET JumpRec
  BY <1>12 DEF Based
<1> DEFINE Breaks(j) == j.chunk = Chunk /\ Contains(loop_stack[Top.ctx].breaks, j.at)
<1>14. PICK K : K = jumps'
  OBVIOUS
<1>15. K = Patch(C, Fitting(Forward(Listed(C, Top, "breaks"), end)))
  BY <1>4, <1>14
<1>16. /\ Based(K, C)
       /\ \A j \in C : ~Breaks(j) => j \in K
       /\ \A k \in K : \E j \in C :
            /\ SameJump(k, j) /\ k.op = j.op
            /\ ~Breaks(j) => k = j
            /\ Breaks(j) /\ j.op = "break" /\ ~Misfit(Forward(Listed(C, Top, "breaks"), end)) => Target(k) = end
  BY <1>5, <1>13, <1>15, CheckedBreakFates
<1>17. Based(jumps', jumps \cup {})
  BY <1>12, <1>14, <1>16, BasedOn
<1>18. ASSUME Clean', Clean, ListsInv, OwnersInv
       PROVE  /\ \A j \in jumps : j.owner # Top.id => j \in jumps'
              /\ \A k \in jumps' : k.owner # Top.id => k \in jumps
              /\ \A k \in jumps' : k.owner = Top.id => Landed(k)'
  <2>1. MarkedBreaks(jumps)
    <3>1. Top.kind \in ContextKinds /\ {} \in SUBSET JumpRec /\ \A j \in {} : j.chunk = Chunk /\ Here <= j.at
      BY <1>4, KindSets
    <3>2. MarkedBreaks(jumps \cup {})
      BY <1>1, <1>4, <1>18, <3>1, MarkedIs
    <3> QED
      BY <3>2
  <2>2. ~Misfit(CaseOffsets(end)) /\ ~Misfit(Forward(Listed(C, Top, "breaks"), end))
    <3>1. ~Report("switch")
      BY <1>18 DEF Clean, Report
    <3> QED
      BY <1>4, <3>1
  <2>3. \A j \in jumps : Breaks(j) => j.kind = "break" /\ j.owner = Top.id
    BY <2>1 DEF MarkedBreaks
  <2>4. ASSUME NEW k \in K
        PROVE  \E j \in jumps :
                 /\ SameJump(k, j) /\ k.op = j.op /\ (j.owner # Top.id => k = j)
                 /\ j.kind = "case" /\ j.chunk = Chunk /\ j.owner = Top.id /\ j.op = "jump"
                    => Target(k) = CaseTarget(p, j.ctx, end)
                 /\ Breaks(j) /\ j.op = "break" => Target(k) = end
    <3>1. PICK c \in C : /\ SameJump(k, c) /\ k.op = c.op
                         /\ ~Breaks(c) => k = c
                         /\ Breaks(c) /\ c.op = "break" => Target(k) = end
      BY <1>16, <2>2
    <3>2. PICK j \in jumps :
            /\ SameJump(c, j) /\ c.op = j.op
            /\ ~(j.kind = "case" /\ j.chunk = Chunk /\ j.owner = Top.id) => c = j
            /\ j.kind = "case" /\ j.chunk = Chunk /\ j.owner = Top.id /\ j.op = "jump"
               => Target(c) = CaseTarget(p, j.ctx, end)
      BY <1>12, <2>2
    <3>3. SameJump(k, j) /\ k.op = j.op /\ (Breaks(c) <=> Breaks(j))
      BY <3>1, <3>2 DEF SameJump
    <3>4. Breaks(j) => j.kind = "break" /\ j.owner = Top.id
      BY <2>3
    <3> HIDE DEF Breaks
    <3> QED
      BY <3>1, <3>2, <3>3, <3>4
  <2>5. \A j \in jumps : j.owner # Top.id => j \in jumps'
    BY <1>12, <1>14, <1>16, <2>3
  <2>6. \A k \in jumps' : k.owner # Top.id => k \in jumps
    BY <1>14, <2>4 DEF SameJump
  <2>7. ASSUME NEW k \in jumps', k.owner = Top.id PROVE Target(k) = Meant(k)'
    <3>1. PICK j \in jumps :
            /\ SameJump(k, j) /\ k.op = j.op /\ (j.owner # Top.id => k = j)
            /\ j.kind = "case" /\ j.chunk = Chunk /\ j.owner = Top.id /\ j.op = "jump"
               => Target(k) = CaseTarget(p, j.ctx, end)
            /\ Breaks(j) /\ j.op = "break" => Target(k) = end
      BY <1>14, <2>4
    <3>2. j.owner = Top.id /\ k.kind = j.kind /\ k.ctx = j.ctx
      BY <2>7, <3>1 DEF SameJump
    <3>3. PICK n : n = Len(frames)
      OBVIOUS
    <3>4. Top = frames[n] /\ Chunk = ChunkAt(n)
      BY <1>4, <3>3, FramesAre, ChunkAtTop DEF Safe, NestInv, FrameInv
    <3>5. Pending(j, n)
      BY <1>1, <1>4, <1>18, <3>2, <3>3, TopPending
    <3>6. j.chunk = Chunk /\ j.kind \in {"break", "case"}
      <4>1. j.kind \in JumpKinds
        BY <1>1, RecIs DEF CodeInv
      <4> QED
        BY <1>4, <3>4, <3>5, <4>1, KindSets DEF Pending, JumpKinds
    <3>7. CASE j.kind = "break"
      <4>1. j.op = "break" /\ Breaks(j)
        BY <3>4, <3>5, <3>6, <3>7 DEF Pending, BreaksOf
      <4>2. Target(k) = end
        BY <3>1, <4>1
      <4> QED
        BY <1>9, <1>11, <2>7, <3>2, <3>7, <4>2 DEF Meant
    <3>8. CASE j.kind = "case"
      <4>1. Target(k) = CaseTarget(p, k.ctx, end)
        BY <3>1, <3>2, <3>5, <3>6, <3>8 DEF Pending
      <4>2. Meant(k)' = CaseTarget(q, k.ctx, end)
        BY <1>9, <1>11, <2>7, <3>2, <3>8 DEF Meant, CaseTarget
      <4> QED
        BY <1>9, <4>1, <4>2 DEF CaseTarget
    <3> QED
      BY <3>6, <3>7, <3>8
  <2> QED
    BY <2>5, <2>6, <2>7 DEF Landed
<1>19. {} \in SUBSET JumpRec /\ OneEach({})
       /\ \A j \in {} : j.chunk = Chunk /\ Here <= j.at /\ j.at < count'[Chunk] /\ j.owner = Top.id
  BY DEF OneEach
<1> QED
  BY <1>1, <1>4, <1>11, <1>17, <1>18, <1>19, EndStep

-----------------------------------------------------------------------------
\* if and else: jumps of one kind, patched forward to end.
PartFated(K, J, kind, end) ==
    /\ Based(K, J)
    /\ \A j \in J : j.owner # Top.id => j \in K
    /\ \A k \in K : \E j \in J :
         /\ SameJump(k, j) /\ k.op = j.op
         /\ ~(j.kind = kind /\ j.chunk = Chunk /\ j.owner = Top.id) => k = j
         /\ j.kind = kind /\ j.chunk = Chunk /\ j.owner = Top.id /\ j.op = "jump" => Target(k) = end

LEMMA PartFates ==
    ASSUME NEW J \in SUBSET JumpRec, NEW end \in Int, NEW kind,
           ~Misfit(Forward(JumpsOf(J, kind, Top.id), end)),
           NEW K, K = Patch(J, Forward(JumpsOf(J, kind, Top.id), end))
    PROVE  PartFated(K, J, kind, end)
<1>1. PICK P : P = JumpsOf(J, kind, Top.id)
  OBVIOUS
<1>2. P \in SUBSET JumpRec /\ \A j \in J : j \in P <=> j.chunk = Chunk /\ j.kind = kind /\ j.owner = Top.id
  BY <1>1 DEF JumpsOf
<1>3. PICK o : o = Forward(P, end)
  OBVIOUS
<1>4. DOMAIN o = P /\ Offsets(o) /\ \A j \in P : o[j] = end - j.at - 1
  BY <1>2, <1>3, ForwardIs
<1>5. \A j \in P : Fits(o[j])
  BY <1>1, <1>3, <1>4, FittingIs
<1>6. /\ \A k \in K : \E j \in J : Fate(k, j, o)
      /\ \A j \in J : j \notin DOMAIN o => j \in K
      /\ Based(K, J)
  BY <1>1, <1>3, <1>4, PatchIs
<1>7. ASSUME NEW k \in K
      PROVE  \E j \in J :
                /\ SameJump(k, j) /\ k.op = j.op
                /\ ~(j.kind = kind /\ j.chunk = Chunk /\ j.owner = Top.id) => k = j
                /\ j.kind = kind /\ j.chunk = Chunk /\ j.owner = Top.id /\ j.op = "jump" => Target(k) = end
  <2>1. PICK j \in J : Fate(k, j, o)
    BY <1>6
  <2>2. SameJump(k, j) /\ k.op = j.op /\ k.at = j.at /\ (j \notin P => k = j)
    BY <1>4, <2>1 DEF Fate, SameJump
  <2>3. ASSUME j \in P, j.op = "jump" PROVE Target(k) = end
    <3>1. j.at \in Nat /\ end - j.at - 1 \in Int
      BY RecIs
    <3>2. Fits(end - j.at - 1) /\ k.operand = Byte(end - j.at - 1)
      BY <1>4, <1>5, <2>1, <2>3 DEF Fate
    <3>3. k.operand = end - j.at - 1
      BY <3>1, <3>2, ExactByte
    <3>4. Target(k) = j.at + 1 + k.operand
      BY <2>2, <2>3 DEF Target
    <3> QED
      BY <3>1, <3>3, <3>4
  <2> QED
    BY <1>2, <2>2, <2>3
<1>8. \A j \in J : j.owner # Top.id => j \in K
  BY <1>2, <1>4, <1>6
<1> QED
  BY <1>6, <1>7, <1>8 DEF PartFated

LEMMA EndElseJumps == ASSUME Safe, JumpInv, EndElse PROVE JumpInv'
<1>1. CodeInv /\ Kept
  BY EndElseKept DEF JumpInv
<1>2. /\ frames # <<>> /\ Top.kind = "else" /\ Pop /\ made' = made /\ loop_stack' = loop_stack
      /\ place' = [place EXCEPT ![Top.id] = [@ EXCEPT !.end = Here]]
      /\ \/ /\ ~Misfit(Forward(JumpsOf(jumps, "else", Top.id), Here))
            /\ jumps' = Patch(jumps, Forward(JumpsOf(jumps, "else", Top.id), Here))
         \/ Report("else") /\ jumps' = jumps
  BY DEF EndElse, Innermost
<1>3. PICK end \in Int : end = Here
  BY StartsHere
<1>4. PICK p, q : p = place[Top.id] /\ q = [p EXCEPT !.end = end]
  OBVIOUS
<1>5. Top.id \in Ids /\ p \in PlaceRec /\ place \in [Ids -> PlaceRec]
  BY <1>1, <1>2, <1>4, PlaceOf DEF CodeInv
<1>6. q \in PlaceRec /\ q.end = end /\ q.cont = p.cont
  BY <1>4, <1>5 DEF PlaceRec
<1>7. place' = [place EXCEPT ![Top.id] = q]
  BY <1>2, <1>3, <1>4
<1>8. place' \in [Ids -> PlaceRec] /\ place'[Top.id] = q /\ \A x \in Ids : x # Top.id => place'[x] = place[x]
  BY <1>5, <1>6, <1>7
<1>9. jumps \in SUBSET JumpRec
  BY <1>1 DEF CodeInv
<1>10. {} \in SUBSET JumpRec /\ OneEach({})
       /\ \A j \in {} : j.chunk = Chunk /\ Here <= j.at /\ j.at < count'[Chunk] /\ j.owner = Top.id
  BY DEF OneEach
<1>11. CASE Report("else") /\ jumps' = jumps
  <2>1. ~(Clean')
    BY <1>11 DEF Report, Clean
  <2>2. Based(jumps', jumps \cup {})
    BY <1>9, <1>11, BasedSelf
  <2> QED
    BY <1>1, <1>2, <1>8, <1>10, <2>1, <2>2, EndStep
<1>12. CASE /\ ~Misfit(Forward(JumpsOf(jumps, "else", Top.id), Here))
            /\ jumps' = Patch(jumps, Forward(JumpsOf(jumps, "else", Top.id), Here))
  <2>1. PICK K : K = jumps'
    OBVIOUS
  <2>2. ~Misfit(Forward(JumpsOf(jumps, "else", Top.id), end)) /\ K = Patch(jumps, Forward(JumpsOf(jumps, "else", Top.id), end))
    BY <1>3, <1>12, <2>1
  <2>3. /\ Based(K, jumps)
        /\ \A j \in jumps : j.owner # Top.id => j \in K
        /\ \A k \in K : \E j \in jumps :
             /\ SameJump(k, j) /\ k.op = j.op
             /\ ~(j.kind = "else" /\ j.chunk = Chunk /\ j.owner = Top.id) => k = j
             /\ j.kind = "else" /\ j.chunk = Chunk /\ j.owner = Top.id /\ j.op = "jump" => Target(k) = end
    <3>1. PartFated(K, jumps, "else", end)
      BY <1>9, <2>2, PartFates
    <3> QED
      BY <3>1 DEF PartFated
  <2>4. Based(jumps', jumps \cup {})
    BY <2>1, <2>3
  <2>5. \A k \in jumps' : k.owner # Top.id => k \in jumps
    BY <2>1, <2>3 DEF SameJump
  <2>6. ASSUME Clean', Clean, ListsInv, OwnersInv, NEW k \in jumps', k.owner = Top.id
        PROVE  Target(k) = Meant(k)'
    <3>1. PICK j \in jumps :
            /\ SameJump(k, j) /\ k.op = j.op
            /\ ~(j.kind = "else" /\ j.chunk = Chunk /\ j.owner = Top.id) => k = j
            /\ j.kind = "else" /\ j.chunk = Chunk /\ j.owner = Top.id /\ j.op = "jump" => Target(k) = end
      BY <2>1, <2>3
    <3>2. j.owner = Top.id /\ k.kind = j.kind
      BY <2>6, <3>1 DEF SameJump
    <3>3. PICK n : n = Len(frames)
      OBVIOUS
    <3>4. Top = frames[n] /\ Chunk = ChunkAt(n)
      BY <1>2, <3>3, FramesAre, ChunkAtTop DEF Safe, NestInv, FrameInv
    <3>5. Pending(j, n)
      BY <1>1, <1>2, <2>6, <3>2, <3>3, TopPending
    <3>6. j.chunk = Chunk /\ j.kind \in {"then", "else"} /\ j.op = "jump"
      <4>1. j.kind \in JumpKinds
        BY <1>1, RecIs DEF CodeInv
      <4> QED
        BY <1>2, <3>4, <3>5, <4>1, KindSets DEF Pending, JumpKinds
    <3>7. CASE j.kind = "else"
      BY <1>6, <1>8, <2>6, <3>1, <3>2, <3>6, <3>7 DEF Meant
    <3>8. CASE j.kind = "then"
      <4>1. k = j
        BY <3>1, <3>8
      <4>2. Target(j) = p.cont
        BY <1>2, <1>4, <3>2, <3>4, <3>5, <3>8 DEF Pending
      <4> QED
        BY <1>6, <1>8, <2>6, <3>8, <4>1, <4>2 DEF Meant
    <3> QED
      BY <3>6, <3>7, <3>8
  <2>7. Clean' /\ Clean /\ ListsInv /\ OwnersInv =>
          /\ \A j \in jumps : j.owner # Top.id => j \in jumps'
          /\ \A k \in jumps' : k.owner # Top.id => k \in jumps
          /\ \A k \in jumps' : k.owner = Top.id => Landed(k)'
    BY <2>1, <2>3, <2>5, <2>6 DEF Landed
  <2> QED
    BY <1>1, <1>2, <1>8, <1>10, <2>4, <2>7, EndStep
<1> QED
  BY <1>2, <1>11, <1>12

\* The chunk is that of the statement around, whatever part of it is in the frame.
LEMMA ChunkOfPart ==
    ASSUME Safe, frames # <<>>, Top.kind # "fn", NEW f, Relabels(f), f.kind # "fn", NEW n, n = Len(frames)
    PROVE  ChunkAt(n)' = Chunk
<1>1. /\ n \in Nat \ {0} /\ Top = frames[n] /\ frames'[n] = f /\ n - 1 \in Nat /\ n - 1 <= n
      /\ \A i \in 1..(n - 1) : frames'[i] = frames[i]
  BY RelabelledIs DEF Safe, NestInv, FrameInv
<1>2. ChunkAt(n - 1)' = ChunkAt(n - 1)
  BY <1>1, ChunkAtSame
<1>3. \A k \in (n - 1) + 1..n : k = n
  BY <1>1
<1>4. ChunkAt(n) = ChunkAt(n - 1)
  BY <1>1, <1>3, ChunkAtOver
<1>5. FunctionsUpTo(n)' = FunctionsUpTo(n - 1)'
  <2>1. \A k : k \in 1..n <=> k \in 1..(n - 1) \/ k = n
    BY <1>1
  <2> QED
    BY <1>1, <2>1 DEF FunctionsUpTo
<1>6. ChunkAt(n)' = ChunkAt(n - 1)'
  BY <1>5 DEF ChunkAt
<1> QED
  BY <1>2, <1>4, <1>6, ChunkAtTop DEF Safe, NestInv

LEMMA EndThenJumps == ASSUME Safe, JumpInv, NEW hasElse \in {"yes", "no"}, EndThen(hasElse) PROVE JumpInv'
<1>1. CodeInv /\ Kept
  BY EndThenKept DEF JumpInv
<1>2. PICK end, e : end = Here + 2 /\ e = Jump(Here + 1, "else", "jump", Top.id, Top.id)
  OBVIOUS
<1>3. PICK J : J = jumps \cup {e}
  OBVIOUS
<1>4. /\ frames # <<>> /\ Top.kind = "if" /\ made' = made /\ loop_stack' = loop_stack
      /\ count' = [count EXCEPT ![Chunk] = end]
      /\ place' = [place EXCEPT ![Top.id] = [@ EXCEPT !.cont = end, !.end = end]]
  BY <1>2 DEF EndThen, Innermost
<1>5. \/ Report("if") /\ Pop /\ jumps' = J
      \/ /\ ~Misfit(Forward(JumpsOf(J, "then", Top.id), end))
         /\ jumps' = Patch(J, Forward(JumpsOf(J, "then", Top.id), end))
         /\ \/ frames' = Append(Front(frames), [kind |-> "else", id |-> Top.id])
            \/ frames' = Front(frames)
  BY <1>2, <1>3 DEF EndThen
<1>6. /\ Here \in Nat /\ end \in Nat /\ end \in Int /\ Here + 1 \in Nat /\ Here <= Here + 1 /\ Here + 1 < end
      /\ (Here + 1) + 1 + 0 = end /\ count'[Chunk] = end
  <2>1. Here \in Nat
    BY StartsHere
  <2>2. count'[Chunk] = end
    BY <1>4, CountIs
  <2> QED
    BY <1>2, <2>1, <2>2
<1>7. Top.id \in Ids /\ Top.id \in Chunks /\ Top.id \in Nat /\ Chunk \in Chunks
  BY <1>4, TopIs, StartsHere, NumbersAre DEF Chunks
<1>8. /\ e \in JumpRec /\ e.chunk = Chunk /\ e.at = Here + 1 /\ e.kind = "else" /\ e.op = "jump" /\ e.owner = Top.id
      /\ e.operand = 0
  <2>1. e = [chunk |-> Chunk, at |-> Here + 1, kind |-> "else", op |-> "jump", owner |-> Top.id, ctx |-> Top.id,
             operand |-> 0]
    BY <1>2 DEF Jump
  <2>2. e \in JumpRec
    BY <1>6, <1>7, <2>1 DEF JumpRec, JumpKinds, Ops
  <2> QED
    BY <2>1, <2>2
<1>9. Target(e) = end
  BY <1>6, <1>8 DEF Target
<1>10. PICK p, q : p = place[Top.id] /\ q = [p EXCEPT !.cont = end, !.end = end]
  OBVIOUS
<1>11. p \in PlaceRec /\ place \in [Ids -> PlaceRec]
  BY <1>1, <1>4, <1>10, PlaceOf DEF CodeInv
<1>12. q \in PlaceRec /\ q.end = end /\ q.cont = end
  BY <1>6, <1>10, <1>11 DEF PlaceRec
<1>13. place' = [place EXCEPT ![Top.id] = q]
  BY <1>4, <1>10
<1>14. place' \in [Ids -> PlaceRec] /\ place'[Top.id] = q /\ \A x \in Ids : x # Top.id => place'[x] = place[x]
  BY <1>7, <1>11, <1>12, <1>13
<1>15. J \in SUBSET JumpRec
  BY <1>1, <1>3, <1>8 DEF CodeInv
<1>16. /\ {e} \in SUBSET JumpRec /\ OneEach({e})
       /\ \A j \in {e} : j.chunk = Chunk /\ Here <= j.at /\ j.at < count'[Chunk] /\ j.owner = Top.id
  BY <1>6, <1>8 DEF OneEach
<1>17. CASE Report("if") /\ Pop /\ jumps' = J
  <2>1. ~(Clean')
    BY <1>17 DEF Report, Clean
  <2>2. Based(jumps', jumps \cup {e})
    BY <1>3, <1>15, <1>17, BasedSelf
  <2> QED
    BY <1>1, <1>4, <1>14, <1>16, <1>17, <2>1, <2>2, EndStep
<1>18. ASSUME ~Misfit(Forward(JumpsOf(J, "then", Top.id), end)),
              jumps' = Patch(J, Forward(JumpsOf(J, "then", Top.id), end))
       PROVE  /\ Based(jumps', jumps \cup {e})
              /\ \A j \in jumps : j.owner # Top.id => j \in jumps'
              /\ \A k \in jumps' : k.owner # Top.id => k \in jumps
              /\ Clean /\ OwnersInv =>
                   \A k \in jumps' : k.owner = Top.id =>
                     k.chunk = Chunk /\ k.kind \in {"then", "else"} /\ k.op = "jump" /\ Target(k) = end
  <2>1. PICK K : K = jumps'
    OBVIOUS
  <2>2. PartFated(K, J, "then", end)
    BY <1>6, <1>15, <1>18, <2>1, PartFates
  <2>3. /\ Based(K, J)
        /\ \A j \in J : j.owner # Top.id => j \in K
        /\ \A k \in K : \E j \in J :
             /\ SameJump(k, j) /\ k.op = j.op
             /\ ~(j.kind = "then" /\ j.chunk = Chunk /\ j.owner = Top.id) => k = j
             /\ j.kind = "then" /\ j.chunk = Chunk /\ j.owner = Top.id /\ j.op = "jump" => Target(k) = end
    BY <2>2 DEF PartFated
  <2>4. \A k \in jumps' : k.owner # Top.id => k \in jumps
    BY <1>3, <1>8, <2>1, <2>3 DEF SameJump
  <2>5. ASSUME Clean, OwnersInv, NEW k \in jumps', k.owner = Top.id
        PROVE  k.chunk = Chunk /\ k.kind \in {"then", "else"} /\ k.op = "jump" /\ Target(k) = end
    <3>1. PICK j \in J :
             /\ SameJump(k, j) /\ k.op = j.op
             /\ ~(j.kind = "then" /\ j.chunk = Chunk /\ j.owner = Top.id) => k = j
             /\ j.kind = "then" /\ j.chunk = Chunk /\ j.owner = Top.id /\ j.op = "jump" => Target(k) = end
      BY <2>1, <2>3
    <3>2. j.owner = Top.id /\ k.kind = j.kind /\ k.chunk = j.chunk
      BY <2>5, <3>1 DEF SameJump
    <3>3. CASE j = e
      BY <1>8, <1>9, <3>1, <3>2, <3>3
    <3>4. CASE j \in jumps
      <4>1. PICK n : n = Len(frames)
        OBVIOUS
      <4>2. Top = frames[n] /\ Chunk = ChunkAt(n)
        BY <1>4, <4>1, FramesAre, ChunkAtTop DEF Safe, NestInv, FrameInv
      <4>3. Pending(j, n)
        BY <1>1, <1>4, <2>5, <3>2, <3>4, <4>1, TopPending
      <4>4. j.kind \in JumpKinds
        BY <1>15, RecIs
      <4>5. j.chunk = Chunk /\ j.kind = "then" /\ j.op = "jump"
        BY <1>4, <4>2, <4>3, <4>4, KindSets DEF Pending, JumpKinds
      <4> QED
        BY <3>1, <3>2, <4>5
    <3> QED
      BY <1>3, <3>3, <3>4
  <2> QED
    BY <1>3, <2>1, <2>3, <2>4, <2>5
<1>19. CASE /\ ~Misfit(Forward(JumpsOf(J, "then", Top.id), end))
            /\ jumps' = Patch(J, Forward(JumpsOf(J, "then", Top.id), end))
            /\ frames' = Front(frames)
  <2>1. /\ Based(jumps', jumps \cup {e})
        /\ \A j \in jumps : j.owner # Top.id => j \in jumps'
        /\ \A k \in jumps' : k.owner # Top.id => k \in jumps
        /\ Clean /\ OwnersInv =>
             \A k \in jumps' : k.owner = Top.id =>
               k.chunk = Chunk /\ k.kind \in {"then", "else"} /\ k.op = "jump" /\ Target(k) = end
    BY <1>18, <1>19
  <2>2. \A k \in jumps' : k.owner = Top.id /\ k.kind \in {"then", "else"} => Meant(k)' = end
    BY <1>12, <1>14 DEF Meant
  <2>3. Clean /\ OwnersInv => \A k \in jumps' : k.owner = Top.id => Landed(k)'
    BY <2>1, <2>2 DEF Landed
  <2>4. Pop
    BY <1>19 DEF Pop
  <2> QED
    BY <1>1, <1>4, <1>14, <1>16, <2>1, <2>3, <2>4, EndStep
<1>20. CASE /\ ~Misfit(Forward(JumpsOf(J, "then", Top.id), end))
            /\ jumps' = Patch(J, Forward(JumpsOf(J, "then", Top.id), end))
            /\ frames' = Append(Front(frames), [kind |-> "else", id |-> Top.id])
  <2>1. /\ Based(jumps', jumps \cup {e})
        /\ \A j \in jumps : j.owner # Top.id => j \in jumps'
        /\ \A k \in jumps' : k.owner # Top.id => k \in jumps
        /\ Clean /\ OwnersInv =>
             \A k \in jumps' : k.owner = Top.id =>
               k.chunk = Chunk /\ k.kind \in {"then", "else"} /\ k.op = "jump" /\ Target(k) = end
    BY <1>18, <1>20
  <2>2. PICK f : f = [kind |-> "else", id |-> Top.id]
    OBVIOUS
  <2>3. f \in Frame /\ f.id = Top.id /\ f.kind = "else"
    BY <1>7, <2>2 DEF Frame
  <2>4. PICK n : n = Len(frames)
    OBVIOUS
  <2>5. Relabels(f)
    BY <1>4, <1>20, <2>2, <2>3 DEF Relabels
  <2>6. n \in Nat \ {0} /\ n \in 1..n /\ Len(frames') = n /\ frames'[n] = f
    BY <2>4, <2>5, RelabelledIs DEF Safe, NestInv, FrameInv
  <2>7. ChunkAt(n)' = Chunk
    BY <1>4, <2>3, <2>4, <2>5, ChunkOfPart
  <2>8. ASSUME Clean, OwnersInv, NEW k \in jumps', k.owner = Top.id PROVE Placed(k)'
    <3>1. k.chunk = Chunk /\ k.kind \in {"then", "else"} /\ k.op = "jump" /\ Target(k) = end
      BY <2>1, <2>8
    <3>2. Pending(k, n)'
      BY <1>12, <1>14, <2>3, <2>6, <2>7, <2>8, <3>1 DEF Pending
    <3>3. n \in 1..Len(frames') /\ frames'[n].id = k.owner
      BY <2>3, <2>6, <2>8
    <3> QED
      BY <3>2, <3>3 DEF Placed
  <2>9. \E g \in Frame : g.id = Top.id /\ g.kind = "else" /\ frames' = Append(Front(frames), g)
    BY <1>20, <2>2, <2>3
  <2> QED
    BY <1>1, <1>4, <1>14, <1>16, <2>1, <2>8, <2>9, PatchStep
<1> QED
  BY <1>5, <1>17, <1>19, <1>20

LEMMA JumpsNext == ASSUME Safe, JumpInv, [StatementNext]_statementVars PROVE JumpInv'
<1>1. Lengths \subseteq Nat /\ Conditions \subseteq Nat /\ {0} \cup Conditions \subseteq Nat /\ {2, 4} \subseteq Nat
  BY StatementAssumption
<1>2. ASSUME NEW n \in Lengths, Plain(n) PROVE JumpInv'
  BY <1>1, <1>2, PlainJumps
<1>3. ASSUME NEW n \in Conditions, BeginWhile(n) \/ BeginIf(n) \/ BeginSwitch(n) PROVE JumpInv'
  BY <1>1, <1>3, BeginWhileJumps, BeginIfJumps, BeginSwitchJumps
<1>4. ASSUME NEW n \in Conditions, EndDo(n) \/ Case(n) PROVE JumpInv'
  BY <1>1, <1>4, EndDoJumps, CaseJumps
<1>5. ASSUME NEW n \in {0} \cup Conditions, NEW inc \in {"none", "known", "dropped"}, BeginFor(0, n, inc)
      PROVE  JumpInv'
  BY <1>1, <1>5, BeginForJumps
<1>6. ASSUME BreakStatement \/ ContinueStatement PROVE JumpInv'
  BY <1>6, LeaveJumps DEF BreakStatement, ContinueStatement, ContextKinds
<1>7. ASSUME Export \/ BeginDo \/ EndWhile \/ EndFor \/ EndElse \/ Default \/ EndSwitch PROVE JumpInv'
  BY <1>7, ExportJumps, BeginDoJumps, EndWhileJumps, EndForJumps, EndElseJumps, DefaultJumps, EndSwitchJumps
<1>8. ASSUME NEW e \in {"yes", "no"}, EndThen(e) PROVE JumpInv'
  BY <1>8, EndThenJumps
<1>9. ASSUME BeginTry \/ EndTry \/ EndClass \/ MissingSeparator \/ ReturnEarly PROVE JumpInv'
  BY <1>9, BeginTryJumps, EndTryJumps, EndClassJumps, MissingSeparatorJumps, ReturnEarlyJumps
<1>10. ASSUME Catch \/ Finally PROVE JumpInv'
  BY <1>10, NextPartJumps DEF Catch, Finally
<1>11. ASSUME BeginFunction \/ BeginAsync \/ BeginGenerator \/ BeginMethod PROVE JumpInv'
  <2>1. Kept
    BY <1>11, BeginBodyKept DEF BeginFunction, BeginAsync, BeginGenerator, BeginMethod, Flavours
  <2> QED
    BY <1>11, <2>1, BeginBodyJumps DEF BeginFunction, BeginAsync, BeginGenerator, BeginMethod
<1>12. ASSUME EndFunction \/ EndAsync \/ EndGenerator \/ EndMethod PROVE JumpInv'
  <2>1. Kept
    BY <1>12, EndBodyKept DEF EndFunction, EndAsync, EndGenerator, EndMethod, Flavours
  <2> QED
    BY <1>12, <2>1, EndBodyJumps DEF EndFunction, EndAsync, EndGenerator, EndMethod
<1>13. ASSUME NEW n \in {2, 4}, BeginClass(n) PROVE JumpInv'
  BY <1>1, <1>13, BeginClassJumps
<1>14. CASE UNCHANGED statementVars
  <2>1. UNCHANGED <<made, frames, count, jumps, loop_stack, errors, place>>
    BY <1>14 DEF statementVars
  <2>2. CodeInv'
    BY <2>1 DEF JumpInv, CodeInv, OneEach, InCode, StartsInv, Open, ChunkAt, InnermostId, FunctionsUpTo
  <2>3. Clean' = Clean /\ ListsInv' = ListsInv
    BY <2>1 DEF Clean, NoStray, ListsInv, Lists, BreakAt, ContinueAt, ExitFirst, BreaksOf, ContinuesOf,
                Open, ChunkAt, InnermostId, FunctionsUpTo
  <2>4. OwnersInv' = OwnersInv
    BY <2>1 DEF OwnersInv, Placed, Pending, Landed, Unchecked, Far, Meant, BreaksOf, ContinuesOf,
                ChunkAt, InnermostId, FunctionsUpTo
  <2> QED
    BY <2>2, <2>3, <2>4 DEF JumpInv
<1>15. CASE StatementNext
  BY <1>2, <1>3, <1>4, <1>5, <1>6, <1>7, <1>8, <1>9, <1>10, <1>11, <1>12, <1>13, <1>15 DEF StatementNext
<1> QED
  BY <1>14, <1>15

LEMMA JumpsInit == StatementInit => JumpInv
<1> SUFFICES ASSUME StatementInit PROVE JumpInv
  OBVIOUS
<1>1. NoPlace \in PlaceRec
  BY DEF NoPlace, PlaceRec
<1>2. place \in [Ids -> PlaceRec]
  BY <1>1 DEF StatementInit
<1>3. jumps = {} /\ frames = <<>> /\ Open(LoopKinds) = {} /\ Open(ContextKinds) = {}
  BY DEF StatementInit, Open
<1> QED
  BY <1>2, <1>3 DEF JumpInv, CodeInv, OneEach, InCode, StartsInv, ListsInv, OwnersInv

\* In a program compiled without an error, and without a break or continue that is
\* in no loop of its function, every jump continues where its statement means it
\* to, whatever statements nest in it, however long they are and however many
\* breaks and continues a context has room for.  As in JumpsLand, the offsets that
\* nobody compares with the limit have to fit, and a continue that a switch inside
\* the loop recorded is not covered.
THEOREM JumpsLandHolds == StatementSpec => []JumpsLand
<1>1. StatementInit => Safe /\ JumpInv
  BY SafeInit, JumpsInit
<1>2. Safe /\ JumpInv /\ [StatementNext]_statementVars => (Safe /\ JumpInv)'
  BY SafeNext, JumpsNext
<1>3. Safe /\ JumpInv => JumpsLand
  <2> SUFFICES ASSUME Safe, JumpInv, Finished, NoStray, NEW j \in jumps PROVE Landed(j)
    BY DEF JumpsLand, NoStray, Landed
  <2>1. frames = <<>> /\ Placed(j)
    BY DEF Finished, JumpInv, Clean, OwnersInv
  <2>2. 1..Len(frames) = {}
    BY <2>1
  <2> QED
    BY <2>1, <2>2 DEF Placed
<1> QED
  BY <1>1, <1>2, <1>3, PTL DEF StatementSpec
=============================================================================
