---------------------------- MODULE Expressions ----------------------------
(***************************************************************************)
(* The expression parser of frontend/parser/expressions.c and oop.c: a     *)
(* table of prefix and infix rules and a precedence for every token, read  *)
(* by parse_precedence, which emits stack code while it parses.  A name, a *)
(* number or a string is one token.  An instruction is a pair of operation *)
(* and count; the position of a constant in the pool is left out.  An      *)
(* error ends the parse here: what it emits is of no use.                  *)
(***************************************************************************)
EXTENDS Integers, Sequences, SequencesExt

CONSTANTS
    Alphabets,   \* bound: sets of tokens an expression is written with
    MaxTokens    \* bound: tokens of an expression

VARIABLES alphabet, text,
          context      \* "async", "generator" or "plain": the enclosing function
expressionVars == <<alphabet, text, context>>

Tok(i) == IF i <= Len(text) THEN text[i] ELSE "eof"
Start == [at |-> 1, code |-> <<>>, bad |-> "no"]
Advance(s) == [s EXCEPT !.at = @ + 1]
Emit(s, ops) == IF s.bad = "no" THEN [s EXCEPT !.code = @ \o ops] ELSE s
Fail(s, why) == IF s.bad = "no" THEN [s EXCEPT !.bad = why] ELSE s
consume(s, t) == IF s.bad # "no" THEN s
                 ELSE IF Tok(s.at) = t THEN Advance(s) ELSE Fail(s, "expect")
Op(o) == <<<<o, 0>>>>
OpN(o, n) == <<<<o, n>>>>

\* The precedence column of rules[], from PREC_ASSIGNMENT 1 to PREC_CALL 9.
Precedence(t) == CASE t \in {"(", "[", "."} -> 9
                   [] t \in {"++", "await", "yield"} -> 8
                   [] t = "*" -> 7
                   [] t \in {"+", "-"} -> 6
                   [] t = "<" -> 5
                   [] t = "==" -> 4
                   [] t = "&&" -> 3
                   [] t = "||" -> 2
                   [] OTHER -> 0
Binary == {"*", "+", "-", "<", "==", "&&", "||"}

RECURSIVE parse_precedence(_, _), Infixes(_, _), Items(_, _), Entries(_, _)
expression(s) == parse_precedence(1, s)

\* Expressions separated by commas; n counts them.
Items(s, n) ==
    LET e == expression(s)
    IN IF e.bad = "no" /\ Tok(e.at) = "," THEN Items(Advance(e), n + 1)
       ELSE [state |-> e, n |-> n + 1]
\* An optional list up to the closing token: [state, n].
List(s, close) ==
    LET l == IF Tok(s.at) = close THEN [state |-> s, n |-> 0] ELSE Items(s, 0)
    IN [l EXCEPT !.state = consume(@, close)]
\* key : value pairs of a hash map.
Entries(s, n) ==
    LET v == expression(consume(expression(s), ":"))
    IN IF v.bad = "no" /\ Tok(v.at) = "," THEN Entries(Advance(v), n + 1)
       ELSE [state |-> v, n |-> n + 1]

\* A name, and what may follow it: an assignment, a compound one, a postfix
\* increment, a call.  The name of a call is loaded after its arguments.
variable(s) ==
    CASE Tok(s.at) = "=" -> Emit(expression(Advance(s)), Op("set"))
      [] Tok(s.at) = "+=" -> Emit(expression(Emit(Advance(s), Op("get"))), Op("+") \o Op("set"))
      [] Tok(s.at) = "++" ->
            Emit(Advance(s), Op("get") \o Op("get") \o Op("push") \o Op("+") \o Op("set") \o Op("pop"))
      [] Tok(s.at) = "(" -> LET l == List(Advance(s), ")")
                            IN Emit(l.state, Op("get") \o OpN("call", l.n))
      [] OTHER -> Emit(s, Op("get"))

\* Argument lists of methods and constructors: the arguments, the name, OP_INVOKE.
Invoke(s) == LET l == List(Advance(s), ")") IN Emit(l.state, Op("push") \o OpN("invoke", l.n))
new_expression(s) ==
    LET o == Emit(consume(s, "id"), Op("get") \o Op("instance"))
    IN IF o.bad = "no" /\ Tok(o.at) = "(" THEN Invoke(o) ELSE o
dot_expression(s) ==
    LET p == consume(s, "id")
    IN IF p.bad = "no" /\ Tok(p.at) = "(" THEN Invoke(p) ELSE Emit(p, Op("property"))
super_expression(s) == Emit(consume(consume(s, "."), "id"), Op("super"))

array_literal(s) == LET l == List(s, "]") IN Emit(l.state, OpN("array", l.n))
array_index(s) ==
    LET i == consume(expression(s), "]")
    IN IF i.bad = "no" /\ Tok(i.at) = "=" THEN Emit(expression(Advance(i)), Op("array set"))
       ELSE Emit(i, Op("array get"))
hash_map_literal(s) ==
    LET l == IF Tok(s.at) = "}" THEN [state |-> s, n |-> 0] ELSE Entries(s, 0)
    IN Emit(consume(l.state, "}"), OpN("map", l.n))
call(s) == LET l == List(s, ")") IN Emit(l.state, OpN("call", l.n))

unary(s) == Emit(parse_precedence(8, s), Op("push") \o Op("*"))
logical_not_unary(s) == Emit(parse_precedence(8, s), Op("!"))
prefix_increment(s) == Emit(consume(s, "id"), Op("get") \o Op("push") \o Op("+") \o Op("set"))
await_expression(s) ==
    IF context # "async" THEN Fail(s, "await") ELSE Emit(parse_precedence(8, s), Op("await"))
yield_expression(s) ==
    CASE context # "generator" -> Fail(s, "yield")
      [] Tok(s.at) \in {"end", "}"} -> Emit(s, Op("push") \o Op("yield"))
      [] OTHER -> Emit(parse_precedence(1, s), Op("yield"))

\* The prefix column of rules[]; s stands behind the token t.
Prefix(t, s) ==
    CASE t = "lit" -> Emit(s, Op("push"))
      [] t = "istr" -> Emit(s, Op("push") \o Op("interpolate"))
      [] t = "id" -> variable(s)
      [] t = "(" -> consume(expression(s), ")")
      [] t = "-" -> unary(s)
      [] t = "!" -> logical_not_unary(s)
      [] t = "++" -> prefix_increment(s)
      [] t = "[" -> array_literal(s)
      [] t = "{" -> hash_map_literal(s)
      [] t = "new" -> new_expression(s)
      [] t = "this" -> Emit(s, Op("local"))
      [] t = "super" -> super_expression(s)
      [] t = "await" -> await_expression(s)
      [] t = "yield" -> yield_expression(s)
      [] OTHER -> Fail(s, "expect")

\* Variant: the right operand takes operators of the same level.
LeftOperand(t, s) == Emit(parse_precedence(Precedence(t), s), Op(t))
\* binary, logical_and_binary and logical_or_binary parse their right operand one
\* level above their own.
RightOperand(t, s) == Emit(parse_precedence(Precedence(t) + 1, s), Op(t))
\* The infix column; ++, await and yield have a precedence but no infix rule, and
\* the null pointer is called.
Infix(t, s) ==
    CASE t \in Binary -> RightOperand(t, s)
      [] t = "(" -> call(s)
      [] t = "[" -> array_index(s)
      [] t = "." -> dot_expression(s)
      [] OTHER -> Fail(s, "null rule")
Infixes(p, s) ==
    IF s.bad = "no" /\ p <= Precedence(Tok(s.at)) THEN Infixes(p, Infix(Tok(s.at), Advance(s)))
    ELSE s
parse_precedence(p, s) ==
    IF s.bad # "no" THEN s ELSE Infixes(p, Prefix(Tok(s.at), Advance(s)))

ExpressionInit ==
    /\ alphabet \in Alphabets /\ text = <<>>
    /\ context \in {"plain", "async", "generator"}
    /\ context # "plain" => alphabet \cap {"await", "yield"} # {}

Parsed == expression(Start)

\* One more token is written.  A text the parser has left in the
\* middle parses alike however it goes on, and is not extended.
MoreText(t) ==
    /\ t \in alphabet /\ Len(text) < MaxTokens
    /\ text = <<>> \/ Parsed.at > Len(text)
    /\ text' = Append(text, t)
    /\ UNCHANGED <<alphabet, context>>
ExpressionNext == \E t \in alphabet : MoreText(t)

------------------------------------------------------------------------------
(* Properties.                                                             *)

\* What an instruction takes from the stack; each but "pop" leaves one value.
Takes(i) ==
    CASE i[1] \in {"push", "get", "local", "super"} -> 0
      [] i[1] \in {"set", "pop", "!", "property", "instance", "await", "yield", "interpolate"} -> 1
      [] i[1] \in Binary \cup {"array get"} -> 2
      [] i[1] = "array set" -> 3
      [] i[1] = "array" -> i[2]
      [] i[1] = "map" -> 2 * i[2]
      [] i[1] = "call" -> i[2] + 1
      [] i[1] = "invoke" -> i[2] + 2
Leaves(i) == IF i[1] = "pop" THEN 0 ELSE 1
\* The height of the stack after the code, -1 once an operand was missing.
Height(code) ==
    FoldLeft(LAMBDA h, i : IF h < Takes(i) THEN -1 ELSE h - Takes(i) + Leaves(i), 0, code)

\* An expression that parses compiles to code that leaves exactly one value and
\* never takes one that it did not push: a statement would otherwise consume a
\* value of the expression around it, or let the stack grow in a loop.
OneValue == text # <<>> /\ Parsed.bad = "no" => Height(Parsed.code) = 1

\* The reference: the operator applied last is the rightmost of the binary
\* operators outside parentheses that bind weakest.
OperandEnd == {"id", "lit", ")"}
Nested(t, i) == Len(SelectSeq(SubSeq(t, 1, i), LAMBDA c : c = "(")) - Len(SelectSeq(SubSeq(t, 1, i), LAMBDA c : c = ")"))
Splits(t) == {i \in 2..Len(t) - 1 : t[i] \in Binary /\ t[i - 1] \in OperandEnd /\ Nested(t, i) = 0}
Weakest(t) == CHOOSE i \in Splits(t) : \A j \in Splits(t) :
    Precedence(t[i]) < Precedence(t[j]) \/ (Precedence(t[i]) = Precedence(t[j]) /\ j <= i)
RECURSIVE Grouped(_)
Grouped(t) ==
    CASE Splits(t) # {} -> LET i == Weakest(t)
                           IN Grouped(SubSeq(t, 1, i - 1)) \o Grouped(SubSeq(t, i + 1, Len(t))) \o Op(t[i])
      [] t[1] = "-" -> Grouped(Tail(t)) \o Op("push") \o Op("*")
      [] t[1] = "!" -> Grouped(Tail(t)) \o Op("!")
      [] t[1] = "(" -> Grouped(SubSeq(t, 2, Len(t) - 1))
      [] t[1] = "id" -> Op("get")
      [] OTHER -> Op("push")
Arithmetic == \A i \in DOMAIN text :
    /\ text[i] \in OperandEnd \cup Binary \cup {"!", "("}
    /\ text[i] = "(" /\ i > 1 => text[i - 1] \notin OperandEnd
\* Operators group by precedence and to the left, as the precedence levels of
\* parser.h say, whatever the mixture of unary operators and parentheses.
AsGrammar ==
    text # <<>> /\ Arithmetic /\ Parsed.bad = "no" /\ Parsed.at = Len(text) + 1
        => Parsed.code = Grouped(text)

\* The code of an expression computes the value its precedences give, and
\* leaves it alone on the stack.
ExpressionsRight == OneValue /\ AsGrammar
============================================================================
