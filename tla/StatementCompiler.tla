------------------------- MODULE StatementCompiler -------------------------
(***************************************************************************)
(* The statement parsers of frontend/parser/statements.c, which compile a  *)
(* program in one pass: each writes its instructions to the chunk, leaves  *)
(* one-byte placeholders for the jumps it cannot resolve yet, and patches  *)
(* them when the statement ends.  The frames are the C call stack of the   *)
(* recursive descent; a chunk is kept as its length and the operands of    *)
(* its jumps.  compile, error, consume and the chunk writer (src/core) are *)
(* external: an error is recorded and parsing goes on.                     *)
(***************************************************************************)
EXTENDS Integers, Sequences, SequencesExt, FiniteSets

CONSTANTS
    MaxOffset,       \* largest operand, 255 in the code
    MaxDepth,        \* loop contexts and exception contexts, 8 in the code
    MaxJumps,        \* breaks, or continues, of one context, 16 in the code
    MaxCases,        \* cases of a switch, 32 in the code
    Lengths,         \* bytes a plain statement may compile to
    Conditions,      \* bytes a condition or a case value may compile to
    MaxStatements,   \* bound: statements of the program
    MaxRecovering,   \* bound: statements of a program with an error
    Families         \* bound: the sets of statement kinds a program is made of

ASSUME StatementAssumption ==
    /\ {MaxOffset, MaxDepth, MaxJumps, MaxCases, MaxStatements, MaxRecovering} \subseteq Nat
    /\ MaxRecovering <= MaxStatements
    /\ Lengths \cup Conditions \subseteq Nat \ {0}

VARIABLES
    family,      \* the kinds of statement this program uses
    made,        \* statements begun so far; each one has its number
    frames,      \* statements being parsed, innermost last
    count,       \* [chunk -> bytes written]; chunk 0 is the main program
    jumps,       \* jump operands: [chunk, at, kind, owner, ctx, op, operand]
    loop_stack, loop_depth, exception_depth,
    async, generator,          \* in_async_function, in_generator_function
    global_count,
    errors,      \* kinds of error reported
    panic,       \* "yes": a missing separator makes every caller return
    place        \* history: where each statement began, continues and ended

statementVars == <<family, made, frames, count, jumps, loop_stack, loop_depth, exception_depth,
                   async, generator, global_count, errors, panic, place>>

Ids == 1..MaxStatements
NoContext == [breaks |-> <<>>, continues |-> <<>>, id |-> 0]
NoPlace == [of |-> "none", start |-> -1, cont |-> -1, end |-> -1, popped |-> -1, tests |-> <<>>,
            bodies |-> <<>>, default |-> -1]

StatementInit ==
    /\ family \in Families
    /\ made = 0 /\ frames = <<>> /\ jumps = {} /\ errors = {} /\ panic = "no"
    /\ count = [c \in {0} \cup Ids |-> 0]
    /\ loop_stack = [d \in 0..MaxDepth - 1 |-> NoContext]
    /\ loop_depth = 0 /\ exception_depth = 0
    /\ async = 0 /\ generator = 0 /\ global_count = 0
    /\ place = [i \in Ids |-> NoPlace]

Byte(n) == n % (MaxOffset + 1)
\* Variant: no upper limit is tested.
FitsAnyway(n) == n >= 0
\* The test of an offset before it is stored in its byte.
Fits(n) == n >= 0 /\ n <= MaxOffset
Top == Last(frames)
\* The statement of the innermost of the frames in S, or 0.
InnermostId(S) == IF S = {} THEN 0 ELSE frames[Max(S)].id
FunctionFrames == {i \in DOMAIN frames : frames[i].kind = "fn"}
\* The chunk written to: that of the innermost function, or the main one.
Chunk == InnermostId(FunctionFrames)
Here == count[Chunk]
Now == made + 1                          \* number of the statement that begins
Innermost(kind) == frames # <<>> /\ Top.kind = kind
RoomLeft == made < IF errors = {} THEN MaxStatements ELSE MaxRecovering
CanBegin(kind) == kind \in family /\ RoomLeft /\ panic = "no" /\ ~Innermost("class") /\ UNCHANGED family
Report(e) == errors' = errors \cup {e}

\* A jump operand written at byte `at` of the current chunk.
Jump(at, kind, op, owner, ctx) ==
    [chunk |-> Chunk, at |-> at, kind |-> kind, op |-> op, owner |-> owner, ctx |-> ctx,
     operand |-> 0]
\* chunk->code[at] = (uint8_t) offset, for the jumps the function offset is about.
\* A position recorded by a break of another function may also be no jump of this
\* chunk; the byte it then overwrites is not kept here, and JumpsLand excludes it.
Patch(J, offset) ==
    {IF j \in DOMAIN offset THEN [j EXCEPT !.operand = Byte(offset[j])] ELSE j : j \in J}
Forward(P, target) == [j \in P |-> target - j.at - 1]
Backward(P, target) == [j \in P |-> j.at + 1 - target]
Fitting(offset) == [j \in {k \in DOMAIN offset : Fits(offset[k])} |-> offset[j]]
Misfit(offset) == Fitting(offset) # offset
JumpsOf(J, kind, id) == {j \in J : j.chunk = Chunk /\ j.kind = kind /\ j.owner = id}

------------------------------------------------------------------------------
(* Statements without a body, and the dispatch in statement().             *)

\* An expression statement, an assignment, return or throw: bytes, no jump.
\* import_statement writes nothing; export reports an error.
Plain(n) ==
    /\ CanBegin("plain")
    /\ made' = Now
    /\ count' = [count EXCEPT ![Chunk] = @ + n]
    /\ UNCHANGED <<frames, jumps, loop_stack, loop_depth, exception_depth, async, generator,
                   global_count, errors, panic, place>>

Export ==
    /\ CanBegin("export") /\ made' = Now /\ Report("export")
    /\ UNCHANGED <<frames, count, jumps, loop_stack, loop_depth, exception_depth, async, generator,
                   global_count, panic, place>>

\* The loops, or loops and switches, that enclose this point in its function.
Enclosing(kinds) ==
    {i \in DOMAIN frames : /\ frames[i].kind \in kinds
                           /\ \A f \in FunctionFrames : f < i}
OwnerOf(kinds) == InnermostId(Enclosing(kinds))
LoopKinds == {"while", "do", "for"}

\* break_statement and continue_statement: recorded in the innermost context.
Leave(kind, list, owners) ==
    /\ CanBegin(kind) /\ made' = Now
    /\ UNCHANGED <<frames, loop_depth, exception_depth, async, generator, global_count, panic, place>>
    /\ \/ /\ loop_depth <= 0
          /\ Report("outside") /\ UNCHANGED <<count, jumps, loop_stack>>
       \/ /\ loop_depth > 0
          /\ LET ctx == loop_stack[loop_depth - 1]
                 room == Len(ctx[list]) < MaxJumps IN
             /\ count' = [count EXCEPT ![Chunk] = @ + 2]
             /\ jumps' = jumps \cup {Jump(Here + 1, kind, kind, OwnerOf(owners), ctx.id)}
             /\ loop_stack' = IF room
                              THEN [loop_stack EXCEPT ![loop_depth - 1][list] = Append(@, Here + 1)]
                              ELSE loop_stack
             /\ IF room THEN UNCHANGED errors ELSE Report("too many")

BreakStatement == Leave("break", "breaks", LoopKinds \cup {"switch"})
ContinueStatement == Leave("continue", "continues", LoopKinds)

------------------------------------------------------------------------------
(* Loops.                                                                  *)

\* The statement is not parsed any further; its text is left to the callers.
GiveUp(e) == Report(e) /\ panic' = "yes" /\ UNCHANGED <<frames, count, jumps, loop_stack>>
Push(f) == frames' = Append(frames, f) /\ UNCHANGED <<errors, panic>>
FreshContext == [NoContext EXCEPT !.id = Now]

\* while (condition): n bytes of condition, then the exit jump.
BeginWhile(n) ==
    /\ CanBegin("while") /\ made' = Now
    /\ UNCHANGED <<exception_depth, async, generator, global_count, place>>
    /\ \/ loop_depth >= MaxDepth /\ GiveUp("depth") /\ UNCHANGED loop_depth
       \/ /\ loop_depth < MaxDepth
          /\ Push([kind |-> "while", id |-> Now, ctx |-> loop_depth, start |-> Here])
          /\ loop_stack' = [loop_stack EXCEPT ![loop_depth] = FreshContext]
          /\ loop_depth' = loop_depth + 1
          /\ count' = [count EXCEPT ![Chunk] = @ + n + 2]
          /\ jumps' = jumps \cup {Jump(Here + n + 1, "exit", "jump", Now, Now)}

BeginDo ==
    /\ CanBegin("do") /\ made' = Now
    /\ UNCHANGED <<exception_depth, async, generator, global_count, place>>
    /\ \/ loop_depth >= MaxDepth /\ GiveUp("depth") /\ UNCHANGED loop_depth
       \/ /\ loop_depth < MaxDepth
          /\ Push([kind |-> "do", id |-> Now, ctx |-> loop_depth, start |-> Here])
          /\ loop_stack' = [loop_stack EXCEPT ![loop_depth] = FreshContext]
          /\ loop_depth' = loop_depth + 1
          /\ UNCHANGED <<count, jumps>>

\* for (init; condition; increment): i bytes of initialisation, n of condition
\* (0: none, and then no exit jump); inc is the form of the increment.  The
\* depth is raised before it is compared with the limit.  The initialisation only
\* moves the loop, as a statement before it does, so StatementNext takes i = 0.
BeginFor(i, n, inc) ==
    /\ CanBegin("for") /\ made' = Now
    /\ UNCHANGED <<exception_depth, async, generator, global_count, place>>
    /\ loop_depth' = loop_depth + 1
    /\ \/ loop_depth' > MaxDepth /\ GiveUp("depth")
       \/ /\ loop_depth' <= MaxDepth
          /\ Push([kind |-> "for", id |-> Now, ctx |-> loop_depth, start |-> Here + i, inc |-> inc])
          /\ loop_stack' = [loop_stack EXCEPT ![loop_depth] = FreshContext]
          /\ count' = [count EXCEPT ![Chunk] = @ + i + n + (IF n = 0 THEN 0 ELSE 2)]
          /\ jumps' = IF n = 0 THEN jumps
                      ELSE jumps \cup {Jump(Here + i + n + 1, "exit", "jump", Now, Now)}

\* generate_postfix_increment, generate_prefix_increment, generate_compound_assignment
\* and the form "j = j + 1" write eight bytes; any other increment writes none.
IncrementLength(inc) == IF inc = "known" THEN 8 ELSE 0

\* The jumps whose positions the context of f has recorded in list.
Listed(J, f, list) == {j \in J : j.chunk = Chunk /\ Contains(loop_stack[f.ctx][list], j.at)}
ExitPatched(J, f, end) == Patch(J, Forward(JumpsOf(J, "exit", f.id), end))

\* OP_LOOP and its operand, count - loop_start + 2, never compared with the limit.
WithLoop(J, f, at) ==
    J \cup {[Jump(at, "loop", "loop", f.id, f.id) EXCEPT !.operand = Byte(at - f.start + 2)]}

Pop == frames' = Front(frames)
EndsAt(cont, end) ==
    place' = [place EXCEPT ![Top.id] = [@ EXCEPT !.of = Top.kind, !.start = Top.start,
                                                 !.cont = cont, !.end = end]]
\* Variant: the context stays open.
ContextKept == UNCHANGED loop_depth
\* parser->loop_depth--
ContextClosed == loop_depth' = loop_depth - 1
\* Breaks are patched forward without a check, continues backward with one.
LoopPatched(J, cont, end) ==
    LET B == Patch(J, Forward(Listed(J, Top, "breaks"), end))
    IN Patch(B, Fitting(Backward(Listed(B, Top, "continues"), cont)))

EndWhile ==
    /\ Innermost("while")
    /\ LET end == Here + 2
           J == WithLoop(jumps, Top, Here + 1)
           exits == ~Misfit(Forward(JumpsOf(J, "exit", Top.id), end)) IN
       /\ Pop /\ EndsAt(Top.start, end)
       /\ count' = [count EXCEPT ![Chunk] = end]
       /\ \/ /\ ~exits                      \* returns with the context still open
             /\ Report("exit") /\ jumps' = J /\ UNCHANGED loop_depth
          \/ /\ exits
             /\ jumps' = LoopPatched(ExitPatched(J, Top, end), Top.start, end)
             /\ ContextClosed
             /\ IF Misfit(Backward(Listed(J, Top, "continues"), Top.start))
                THEN Report("continue") ELSE UNCHANGED errors
    /\ UNCHANGED <<family, made, loop_stack, exception_depth, async, generator, global_count, panic>>

\* The exit jump of do-while skips OP_LOOP alone, so its check cannot fail.
EndDo(n) ==
    /\ Innermost("do")
    /\ LET end == Here + n + 4
           exit == Jump(Here + n + 1, "exit", "jump", Top.id, Top.id)
           J == WithLoop(jumps \cup {exit}, Top, Here + n + 3) IN
       /\ Pop /\ EndsAt(Top.start, end)
       /\ count' = [count EXCEPT ![Chunk] = end]
       /\ jumps' = LoopPatched(ExitPatched(J, Top, end), Top.start, end)
       /\ ContextClosed
       /\ IF Misfit(Backward(Listed(J, Top, "continues"), Top.start))
          THEN Report("continue") ELSE UNCHANGED errors
    /\ UNCHANGED <<family, made, loop_stack, exception_depth, async, generator, global_count, panic>>

\* With an increment, continue becomes a forward OP_JUMP to it; exit and breaks
\* are patched without a check.
EndFor ==
    /\ Innermost("for")
    /\ LET increment == Here
           loop == Here + IncrementLength(Top.inc)
           end == loop + 2
           J == WithLoop(jumps, Top, loop + 1)
           E == ExitPatched(J, Top, end)
           B == Patch(E, Forward(Listed(E, Top, "breaks"), end))
           F == {IF j \in Listed(B, Top, "continues") THEN [j EXCEPT !.op = "jump"] ELSE j : j \in B}
           ToIncrement == Forward(Listed(F, Top, "continues"), increment) IN
       /\ Pop
       /\ EndsAt(IF Top.inc = "none" THEN Top.start ELSE increment, end)
       /\ count' = [count EXCEPT ![Chunk] = end]
       /\ ContextClosed
       /\ jumps' = IF Top.inc = "none" THEN LoopPatched(E, Top.start, end)
                   ELSE Patch(F, Fitting(ToIncrement))
       /\ IF \/ Top.inc = "none" /\ Misfit(Backward(Listed(J, Top, "continues"), Top.start))
             \/ Top.inc # "none" /\ Misfit(ToIncrement)
          THEN Report("continue") ELSE UNCHANGED errors
    /\ UNCHANGED <<family, made, loop_stack, exception_depth, async, generator, global_count, panic>>

------------------------------------------------------------------------------
(* if and switch.                                                          *)

BeginIf(n) ==
    /\ CanBegin("if") /\ made' = Now
    /\ Push([kind |-> "if", id |-> Now])
    /\ count' = [count EXCEPT ![Chunk] = @ + n + 2]
    /\ jumps' = jumps \cup {Jump(Here + n + 1, "then", "jump", Now, Now)}
    /\ UNCHANGED <<loop_stack, loop_depth, exception_depth, async, generator, global_count, place>>

\* The end of the then part: a jump over the else part is always written.  An
\* if without else ends there; an offset that does not fit ends it unpatched.
EndThen(hasElse) ==
    /\ Innermost("if") /\ panic = "no"
    /\ LET end == Here + 2
           J == jumps \cup {Jump(Here + 1, "else", "jump", Top.id, Top.id)}
           then == Forward(JumpsOf(J, "then", Top.id), end) IN
       /\ count' = [count EXCEPT ![Chunk] = end]
       /\ place' = [place EXCEPT ![Top.id] = [@ EXCEPT !.cont = end, !.end = end]]
       /\ \/ /\ Misfit(then)                  \* an else part is left to the callers
             /\ Report("if") /\ Pop /\ jumps' = J
             /\ panic' = IF hasElse = "yes" THEN "yes" ELSE "no"
          \/ /\ ~Misfit(then)
             /\ jumps' = Patch(J, then)
             /\ frames' = IF hasElse = "yes"
                          THEN Append(Front(frames), [kind |-> "else", id |-> Top.id]) ELSE Front(frames)
             /\ UNCHANGED <<errors, panic>>
    /\ UNCHANGED <<family, made, loop_stack, loop_depth, exception_depth, async, generator, global_count>>

EndElse ==
    /\ Innermost("else") /\ panic = "no"
    /\ LET else == Forward(JumpsOf(jumps, "else", Top.id), Here) IN
       /\ Pop /\ place' = [place EXCEPT ![Top.id] = [@ EXCEPT !.end = Here]]
       /\ IF ~Misfit(else)
          THEN /\ jumps' = Patch(jumps, else)
               /\ UNCHANGED errors
          ELSE Report("else") /\ UNCHANGED jumps
    /\ UNCHANGED <<family, made, count, loop_stack, loop_depth, exception_depth, async, generator,
                   global_count, panic>>
\* switch takes a loop context for its breaks and leaves its continues as they were.
BeginSwitch(n) ==
    /\ CanBegin("switch") /\ made' = Now
    /\ count' = [count EXCEPT ![Chunk] = @ + n]
    /\ UNCHANGED <<jumps, exception_depth, async, generator, global_count, place>>
    /\ \/ /\ loop_depth >= MaxDepth
          /\ Report("depth") /\ panic' = "yes" /\ UNCHANGED <<frames, loop_stack, loop_depth>>
       \/ /\ loop_depth < MaxDepth
          /\ Push([kind |-> "switch", id |-> Now, ctx |-> loop_depth])
          /\ loop_stack' = [loop_stack EXCEPT ![loop_depth] = [@ EXCEPT !.breaks = <<>>, !.id = Now]]
          /\ loop_depth' = loop_depth + 1

Cases == Len(place[Top.id].tests)

\* case value: the comparison jumps when it fails, the body follows.
Case(n) ==
    /\ Innermost("switch") /\ panic = "no"
    /\ place[Top.id].default = -1
    /\ \/ /\ Cases = MaxCases        \* the loop over the cases has ended
          /\ Report("cases") /\ panic' = "yes" /\ UNCHANGED <<count, jumps, place>>
       \/ /\ Cases < MaxCases
          /\ count' = [count EXCEPT ![Chunk] = @ + n + 2]
          /\ jumps' = jumps \cup {Jump(Here + n + 1, "case", "jump", Top.id, Cases + 1)}
          /\ LET p == place[Top.id]
             IN place' = [place EXCEPT ![Top.id] = [p EXCEPT !.tests = Append(p.tests, Here),
                                                             !.bodies = Append(p.bodies, Here + n + 2)]]
          /\ UNCHANGED <<errors, panic>>
    /\ UNCHANGED <<family, made, frames, loop_stack, loop_depth, exception_depth, async, generator, global_count>>

Default ==
    /\ Innermost("switch") /\ panic = "no"
    /\ place[Top.id].default = -1 /\ Cases < MaxCases
    /\ place' = [place EXCEPT ![Top.id] = [@ EXCEPT !.default = Here]]
    /\ UNCHANGED <<family, made, frames, count, jumps, loop_stack, loop_depth, exception_depth, async,
                   generator, global_count, errors, panic>>

\* Where the failed comparison of case i goes, the switch ending at byte end.
CaseTarget(p, i, end) ==
    IF i + 1 <= Len(p.bodies) THEN p.bodies[i + 1] ELSE IF p.default # -1 THEN p.default ELSE end

EndSwitch ==
    /\ Innermost("switch")
    /\ LET end == Here + 1                  \* OP_POP removes the switch value
           p == place[Top.id]
           misses == [j \in JumpsOf(jumps, "case", Top.id) |-> CaseTarget(p, j.ctx, end) - j.at - 1]
           C == Patch(jumps, Fitting(misses))
           breaks == Forward(Listed(C, Top, "breaks"), end) IN
       /\ Pop
       /\ place' = [place EXCEPT ![Top.id] = [@ EXCEPT !.of = "switch", !.popped = Here, !.end = end]]
       /\ count' = [count EXCEPT ![Chunk] = end]
       /\ jumps' = Patch(C, Fitting(breaks))
       /\ ContextClosed
       /\ IF Misfit(misses) \/ Misfit(breaks)
          THEN Report("switch") ELSE UNCHANGED errors
    /\ UNCHANGED <<family, made, loop_stack, exception_depth, async, generator, global_count, panic>>

------------------------------------------------------------------------------
(* try, functions and classes.                                             *)

BeginTry ==
    /\ CanBegin("try") /\ made' = Now
    /\ \/ exception_depth >= MaxDepth /\ GiveUp("depth") /\ UNCHANGED exception_depth
       \/ /\ exception_depth < MaxDepth
          /\ Push([kind |-> "try", id |-> Now, part |-> "try"])
          /\ exception_depth' = exception_depth + 1
          /\ count' = [count EXCEPT ![Chunk] = @ + 2]
          /\ UNCHANGED <<jumps, loop_stack>>
    /\ UNCHANGED <<loop_depth, async, generator, global_count, place>>

\* The part being parsed ends with one byte; catch begins with two, finally with one.
NextPart(from, part, bytes) ==
    /\ Innermost("try") /\ panic = "no" /\ Top.part \in from
    /\ frames' = Append(Front(frames), [kind |-> "try", id |-> Top.id, part |-> part])
    /\ count' = [count EXCEPT ![Chunk] = @ + 1 + bytes]
    /\ UNCHANGED <<family, made, jumps, loop_stack, loop_depth, exception_depth, async, generator,
                   global_count, errors, panic, place>>
Catch == NextPart({"try"}, "catch", 2)
Finally == NextPart({"try", "catch"}, "finally", 1)

EndTry ==
    /\ Innermost("try") /\ panic = "no"
    /\ Pop
    /\ count' = [count EXCEPT ![Chunk] = @ + 1]
    /\ exception_depth' = exception_depth - 1
    /\ IF Top.part = "try" THEN Report("try alone") ELSE UNCHANGED errors
    /\ UNCHANGED <<family, made, jumps, loop_stack, loop_depth, async, generator, global_count, panic, place>>

\* The body of a function goes to a chunk of its own, with the loop and exception
\* contexts as they are.
BeginBody(flavour) ==
    /\ flavour \in family /\ RoomLeft /\ panic = "no"
    /\ flavour = "method" <=> Innermost("class")
    /\ made' = Now
    /\ Push([kind |-> "fn", id |-> Now, flavour |-> flavour, async |-> async, generator |-> generator])
    /\ UNCHANGED <<family, count, jumps, loop_stack, loop_depth, exception_depth, global_count, place>>

BeginFunction == BeginBody("plain fn") /\ UNCHANGED <<async, generator>>
BeginAsync == BeginBody("async") /\ async' = 1 /\ UNCHANGED generator
BeginGenerator == BeginBody("generator") /\ generator' = 1 /\ UNCHANGED async
BeginMethod == BeginBody("method") /\ UNCHANGED <<async, generator>>

\* OP_RETURN ends the body; bytes more go to the chunk around it.
EndBody(flavour, bytes) ==
    /\ Innermost("fn") /\ Top.flavour = flavour
    /\ Pop
    /\ LET outer == InnermostId(FunctionFrames \ {Len(frames)})
       IN count' = [count EXCEPT ![Chunk] = @ + 1, ![outer] = count[outer] + bytes]
    /\ UNCHANGED <<family, made, jumps, loop_stack, loop_depth, exception_depth, errors, panic, place>>

\* A function becomes a global; a method is pushed with its name and defined.
EndFunction ==
    EndBody("plain fn", 0) /\ global_count' = global_count + 1 /\ UNCHANGED <<async, generator>>
EndAsync ==
    /\ EndBody("async", 0) /\ global_count' = global_count + 1
    /\ async' = Top.async /\ UNCHANGED generator
EndGenerator ==
    /\ EndBody("generator", 0) /\ global_count' = global_count + 1
    /\ generator' = Top.generator /\ UNCHANGED async
EndMethod == EndBody("method", 5) /\ UNCHANGED <<async, generator, global_count>>

\* class Name [extends Name]: only methods are compiled inside.
BeginClass(n) ==
    /\ CanBegin("class") /\ made' = Now
    /\ Push([kind |-> "class", id |-> Now])
    /\ count' = [count EXCEPT ![Chunk] = @ + n]
    /\ UNCHANGED <<jumps, loop_stack, loop_depth, exception_depth, async, generator, global_count, place>>
EndClass ==
    /\ Innermost("class")
    /\ Pop /\ count' = [count EXCEPT ![Chunk] = @ + 3]
    /\ UNCHANGED <<family, made, jumps, loop_stack, loop_depth, exception_depth, async, generator,
                   global_count, errors, panic, place>>

\* A statement not followed by a separator: the error makes the statement around
\* it stop.  if and try return at once, the others still write their end.
MissingSeparator ==
    /\ frames # <<>> /\ ~Innermost("class") /\ panic = "no" /\ RoomLeft
    /\ Report("separator") /\ panic' = "yes"
    /\ UNCHANGED <<family, made, frames, count, jumps, loop_stack, loop_depth, exception_depth, async,
                   generator, global_count, place>>
ReturnEarly ==
    /\ panic = "yes" /\ frames # <<>> /\ Top.kind \in {"if", "else", "try"}
    /\ Pop
    /\ UNCHANGED <<family, made, count, jumps, loop_stack, loop_depth, exception_depth, async, generator,
                   global_count, errors, panic, place>>

StatementNext ==
    \/ \E n \in Lengths : Plain(n)
    \/ \E n \in Conditions : \/ BeginWhile(n) \/ EndDo(n) \/ BeginIf(n)
                             \/ BeginSwitch(n) \/ Case(n)
    \/ \E n \in {0} \cup Conditions, inc \in {"none", "known", "dropped"} : BeginFor(0, n, inc)
    \/ Export \/ BreakStatement \/ ContinueStatement \/ BeginDo
    \/ EndWhile \/ EndFor
    \/ \E e \in {"yes", "no"} : EndThen(e)
    \/ EndElse \/ Default \/ EndSwitch
    \/ BeginTry \/ Catch \/ Finally \/ EndTry
    \/ BeginFunction \/ BeginAsync \/ BeginGenerator \/ BeginMethod
    \/ EndFunction \/ EndAsync \/ EndGenerator \/ EndMethod
    \/ (\E n \in {2, 4} : BeginClass(n)) \/ EndClass
    \/ MissingSeparator \/ ReturnEarly
StatementSpec == StatementInit /\ [][StatementNext]_statementVars

------------------------------------------------------------------------------
(* Properties.                                                             *)

Finished == frames = <<>> /\ errors = {}

\* Where the interpreter continues from a jump: forward from the next byte,
\* backward for OP_CONTINUE, and for OP_LOOP one less far.
Target(j) == CASE j.op = "loop" -> j.at + 2 - j.operand
               [] j.op = "continue" -> j.at + 1 - j.operand
               [] OTHER -> j.at + 1 + j.operand
\* Where the statement that owns the jump means it to go.
Meant(j) ==
    LET p == place[j.owner] IN
    CASE j.kind \in {"exit", "break", "else"} -> p.end
      [] j.kind \in {"then", "continue"} -> p.cont
      [] j.kind = "loop" -> p.start
      [] OTHER -> CaseTarget(p, j.ctx, p.end)
\* The jumps whose offset the code does not compare with the limit.
Unchecked(j) ==
    \/ j.kind = "loop"
    \/ j.kind \in {"exit", "break"} /\ place[j.owner].of \in {"do", "for"}
Far(j) == IF j.kind = "loop" THEN j.at - Meant(j) + 2 > MaxOffset
          ELSE Meant(j) - j.at - 1 > MaxOffset
Recorded(j) == j.kind \in {"break", "continue"} => j.ctx = j.owner

\* In a program compiled without an error, every jump continues where its
\* statement means it to: past the loop, at the condition or the increment, at
\* the else part, at the next case.  The offsets the code does not compare with
\* the limit are right when they fit.  Not claimed: programs where a break or
\* continue stands in no loop of its own function and was recorded in another's,
\* and continues that a switch inside their loop recorded.
JumpsLand ==
    Finished /\ (\A j \in jumps : j.owner # 0) =>
        \A j \in jumps :
            Recorded(j) /\ ~(Unchecked(j) /\ Far(j)) => Target(j) = Meant(j)

Open(kinds) == {i \in DOMAIN frames : frames[i].kind \in kinds}
HasFlavour(flavour) == \E i \in FunctionFrames : frames[i].flavour = flavour

\* Each loop and switch being parsed keeps the context it took, also after an
\* error.  Until an error is reported no other loop context is in use, the
\* exception contexts are those of the try statements being parsed, and await and
\* yield are accepted inside an async function or a generator and nowhere else.
ContextsBalanced ==
    LET loops == Open(LoopKinds \cup {"switch"}) IN
    /\ \A i \in loops : /\ frames[i].ctx < loop_depth
                        /\ loop_stack[frames[i].ctx].id = frames[i].id
    /\ errors = {} =>
        /\ loop_depth = Cardinality(loops)
        /\ exception_depth = Cardinality(Open({"try"}))
        /\ async = IF HasFlavour("async") THEN 1 ELSE 0
        /\ generator = IF HasFlavour("generator") THEN 1 ELSE 0

\* A failed case goes to the value of the next case, to be compared with it, and
\* a break of a switch to the instruction that removes the switch value, as the
\* bytecode in ADVANCED_CONTROL_STRUCTURES_IMPLEMENTATION.md shows.
SwitchAsDocumented ==
    Finished /\ (\A j \in jumps : j.owner # 0) => \A j \in jumps :
        LET p == place[j.owner] IN
        /\ j.kind = "case" /\ j.ctx < Len(p.tests) => Target(j) = p.tests[j.ctx + 1]
        /\ j.kind = "break" /\ Recorded(j) /\ p.of = "switch" => Target(j) = p.popped
============================================================================
