----------------------------- MODULE MCCompiler -----------------------------
(***************************************************************************)
(* The scanner, the expression parser and the statement parsers on small   *)
(* programs: a behaviour is about one of them, the others stand still.     *)
(***************************************************************************)
EXTENDS StatementCompiler, Expressions, Lexer

VARIABLE about

Chars == {"sp", "nl", "#", "/", "d", "a", ".", "q", "+", "=", "&", "?"}
InQuotes == {"q", "$", "{", "}", "esc", "nl", "a"}
Texts(S, n) == UNION {[1..k -> S] : k \in 0..n}
MCSources ==
    Texts(Chars, 4) \cup {<<"q", "$", "{">> \o t : t \in Texts(InQuotes, 4)} \cup Texts({"a", "b", "d"}, 3)
MCKeywords == {<<"a", "b">>}

NoStatements == family = CHOOSE f \in Families : TRUE
NoExpression == alphabet = (CHOOSE a \in Alphabets : TRUE) /\ context = "plain"

MCInit ==
    /\ StatementInit /\ ExpressionInit /\ LexerInit
    /\ \/ about = "lexer" /\ NoStatements /\ NoExpression
       \/ about = "expressions" /\ NoStatements /\ source = <<>>
       \/ about = "statements" /\ NoExpression /\ source = <<>>
MCNext ==
    /\ UNCHANGED about
    /\ \/ about = "lexer" /\ LexerNext /\ UNCHANGED <<statementVars, expressionVars>>
       \/ about = "expressions" /\ ExpressionNext /\ UNCHANGED <<statementVars, lexerVars>>
       \/ about = "statements" /\ StatementNext /\ UNCHANGED <<lexerVars, expressionVars>>
MCSpec == MCInit /\ [][MCNext]_<<about, statementVars, expressionVars, lexerVars>>
=============================================================================
