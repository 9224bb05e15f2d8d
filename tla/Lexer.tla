------------------------------- MODULE Lexer -------------------------------
(***************************************************************************)
(* The scanner of frontend/lexer/lexer.c.  A source text is a sequence of  *)
(* characters, of which only the ones the scanner tells apart are kept:    *)
(* "sp" a blank, "nl" a newline, "q" a quote, "esc" a backslash, "d" a     *)
(* digit, letters, operator characters, and "?" for any other one.  The    *)
(* text ends in a NUL; reading behind it is "beyond".                      *)
(***************************************************************************)
EXTENDS Integers, Sequences, FiniteSets, FiniteSetsExt

CONSTANTS
    Sources,     \* texts to scan
    Letters,     \* letters, and the underscore
    Keywords     \* the words identifier_type knows, sequences of letters

VARIABLES source, current, line, tokens
lexerVars == <<source, current, line, tokens>>

\* init_scanner
LexerInit == source \in Sources /\ current = 1 /\ line = 1 /\ tokens = <<>>

Char(i) == IF i <= Len(source) THEN source[i] ELSE IF i = Len(source) + 1 THEN "nul" ELSE "beyond"
AtEnd(i) == Char(i) \in {"nul", "beyond"}
\* The first position from i on whose character is not in S.
After(i, S) == Min({j \in i..Len(source) + 2 : Char(j) \notin S})
\* Variant: a comment is looked through for its newline only.
LineEndOnly(i) == Min({j \in i..Len(source) + 2 : Char(j) \in {"nl", "beyond"}})
\* The end of the line of i: its newline, or the end of the text.
LineEnd(i) == Min({j \in i..Len(source) + 2 : Char(j) = "nl" \/ AtEnd(j)})

Digits == {"d"}
Word == Letters \cup Digits
Single == {"(", ")", "{", "}", "[", "]", ",", "%", ":", "@", ";", "."}
\* Characters that form a token with the one after them, and with which ones.
Pairs == [c \in {"+", "-", "*", "/", "=", "!", "<", ">", "&", "|"} |->
            CASE c \in {"+", "-"} -> {c, "="}
              [] c \in {"&", "|"} -> {c}
              [] OTHER -> {"="}]
Alone == DOMAIN Pairs \ {"&", "|"}       \* those that are tokens by themselves

\* skip_whitespace: blanks, and comments up to the newline that ends them.
RECURSIVE skip_whitespace(_)
skip_whitespace(i) ==
    CASE Char(i) = "sp" -> skip_whitespace(i + 1)
      [] Char(i) = "#" -> skip_whitespace(LineEnd(i))
      [] Char(i) = "/" /\ Char(i + 1) = "/" -> skip_whitespace(LineEnd(i + 2))
      [] OTHER -> i

number(i) ==
    LET j == After(i, Digits)
    IN IF Char(j) = "." /\ Char(j + 1) \in Digits THEN After(j + 1, Digits) ELSE j

\* A quoted string inside an interpolation: the position behind it.  A backslash
\* skips the character after it, the final NUL too.
RECURSIVE Quoted(_)
Quoted(i) == CASE AtEnd(i) -> i
               [] Char(i) = "q" -> i + 1
               [] Char(i) = "esc" -> Quoted(i + 2)
               [] OTHER -> Quoted(i + 1)
\* The rest of an interpolation with n braces open.
RECURSIVE Interpolation(_, _)
Interpolation(i, n) ==
    CASE n = 0 \/ AtEnd(i) -> i
      [] Char(i) = "q" -> Interpolation(Quoted(i + 1), n)
      [] Char(i) = "{" -> Interpolation(i + 1, n + 1)
      [] Char(i) = "}" -> Interpolation(i + 1, n - 1)
      [] OTHER -> Interpolation(i + 1, n)
OpensInterpolation(i) == Char(i) = "$" /\ Char(i + 1) = "{"
\* The body of a string: where it stops, and the newlines it counts on the way;
\* those inside an interpolation are not counted.
RECURSIVE StringBody(_, _)
StringBody(i, lines) ==
    CASE AtEnd(i) \/ Char(i) = "q" -> [at |-> i, lines |-> lines]
      [] OpensInterpolation(i) -> StringBody(Interpolation(i + 2, 1), lines)
      [] OTHER -> StringBody(i + 1, lines + IF Char(i) = "nl" THEN 1 ELSE 0)
HasInterpolation(i) ==
    \E k \in i..Len(source) :
        OpensInterpolation(k) /\ \A j \in i..k : Char(j) # "q"

identifier_type(from, to) == IF SubSeq(source, from, to - 1) \in Keywords THEN "keyword" ELSE "word"

\* scan_token: one token, from the next character that is not skipped.
Scan(from) ==
    LET c == Char(from)
        s == StringBody(from + 1, 0)
        Token(kind, to) == [kind |-> kind, from |-> from, to |-> to, lines |-> 0]
    IN CASE c = "nul" -> Token("eof", from)
         [] c \in Digits -> Token("number", number(from))
         [] c \in Letters -> LET to == After(from, Word) IN Token(identifier_type(from, to), to)
         [] c \in Single -> Token("single", from + 1)
         [] c \in DOMAIN Pairs /\ Char(from + 1) \in Pairs[c] -> Token("pair", from + 2)
         [] c \in Alone -> Token("single", from + 1)
         [] c = "nl" -> [Token("newline", from + 1) EXCEPT !.lines = 1]
         [] c = "q" /\ ~AtEnd(s.at) ->
              [Token(IF HasInterpolation(from + 1) THEN "interpolated" ELSE "string", s.at + 1)
                  EXCEPT !.lines = s.lines]
         [] c = "q" -> [Token("error", s.at) EXCEPT !.lines = s.lines]
         [] OTHER -> Token("error", from + 1)

Ended == tokens # <<>> /\ tokens[Len(tokens)].kind = "eof"
ScanToken ==
    /\ ~Ended /\ Char(current) # "beyond"
    /\ LET t == Scan(skip_whitespace(current)) IN
       /\ tokens' = Append(tokens, [t EXCEPT !.lines = line + t.lines])
       /\ current' = t.to
       /\ line' = line + t.lines
    /\ UNCHANGED source
LexerNext == ScanToken

------------------------------------------------------------------------------
(* Properties.                                                             *)

End(k) == IF k = 0 THEN 1 ELSE tokens[k].to
\* A character between two tokens is blank or part of a comment of its line.
Skipped(k, i) ==
    \/ Char(i) = "sp"
    \/ \E j \in End(k - 1)..i :
           /\ Char(j) = "#" \/ (Char(j) = "/" /\ Char(j + 1) = "/" /\ j < tokens[k].from)
           /\ \A m \in j..i : Char(m) # "nl"
Tiled == \A k \in DOMAIN tokens :
    /\ End(k - 1) <= tokens[k].from /\ tokens[k].from <= tokens[k].to
    /\ \A i \in End(k - 1)..tokens[k].from - 1 : Skipped(k, i)
\* Two adjacent tokens could not have been one.
Longest == \A k \in DOMAIN tokens :
    k > 1 /\ tokens[k - 1].to = tokens[k].from =>
        LET a == tokens[k - 1]
            c == Char(tokens[k].from) IN
        /\ a.kind = "single" /\ Char(a.from) \in DOMAIN Pairs => c \notin Pairs[Char(a.from)]
        /\ a.kind \in {"word", "keyword"} => c \notin Word
        /\ a.kind = "number" => c \notin Digits
\* The line of a token is that of its end, newlines inside interpolations apart.
Lines == (\A i \in DOMAIN source : ~OpensInterpolation(i)) =>
    \A k \in DOMAIN tokens :
        tokens[k].lines = 1 + Cardinality({i \in 1..tokens[k].to - 1 : Char(i) = "nl"})
\* Only a backslash at the very end of the text takes the scanner behind it.
Inside == current <= Len(source) + 1 \/ source[Len(source)] = "esc"

\* Every character of a source text belongs to one token, or is blank or
\* comment; no token could have been longer; the lines reported are right; and
\* the scanner stops at the end of the text, which an unterminated string, a
\* comment on the last line or an open interpolation might make it pass.
LexedRight == Tiled /\ Longest /\ Lines /\ Inside
============================================================================
