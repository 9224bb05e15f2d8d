------------------------------- MODULE SemVer -------------------------------
(***************************************************************************)
(* Versions and version constraints of src/runtime/package/package.c:      *)
(* parse_semver, ember_package_version_compare and                         *)
(* ember_package_version_satisfies.                                        *)
(*                                                                         *)
(* The text of a version is kept as what the functions tell apart: either  *)
(* a word ("latest", "local", "installed"), or one to three numbers with   *)
(* a pre-release tag and build metadata.  Words and tags are known by      *)
(* their rank in the order of strcmp; rank 0 is the empty text.            *)
(***************************************************************************)
EXTENDS Integers, Sequences

Text == [word: Nat, nums: UNION {[1..k -> Nat] : k \in 0..3}, pre: Nat, build: Nat]

\* The rank of the word "latest" ("installed" < "latest" < "local").
LATEST == 2

IsWord(t) == t.word # 0
IsLatest(t) == t.word = LATEST

\* parse_semver fails on a word other than "latest" and without a major version.
Parses(t) == IsLatest(t) \/ (~IsWord(t) /\ Len(t.nums) >= 1)

\* The numbers that are not given stay 0, as memset left them.
Part(t, k) == IF IsLatest(t) THEN 999 ELSE IF k <= Len(t.nums) THEN t.nums[k] ELSE 0
Pre(t) == IF IsWord(t) THEN 0 ELSE t.pre

Sign(n) == IF n < 0 THEN -1 ELSE IF n > 0 THEN 1 ELSE 0

\* strcmp of two texts of which one at least does not parse: a text without
\* number begins with '-', '+' or nothing, then come digits, then letters.
TextRank(t) == IF IsWord(t) THEN t.word + 1 ELSE IF t.nums = <<>> THEN 0 ELSE 1
TextOrder(t, u) == Sign(TextRank(t) - TextRank(u))

\* Variant: the pre-release tags are compared like any other text, so that a
\* release, whose tag is empty, comes before its own pre-releases.
ComparePreAsText(t, u) ==
    IF t = u THEN 0
    ELSE IF ~Parses(t) \/ ~Parses(u) THEN TextOrder(t, u)
    ELSE IF Part(t, 1) # Part(u, 1) THEN Sign(Part(t, 1) - Part(u, 1))
    ELSE IF Part(t, 2) # Part(u, 2) THEN Sign(Part(t, 2) - Part(u, 2))
    ELSE IF Part(t, 3) # Part(u, 3) THEN 1
    ELSE Sign(Pre(t) - Pre(u))

(* ember_package_version_compare, up to the sign of its result.            *)
Compare(t, u) ==
    IF t = u THEN 0
    ELSE IF ~Parses(t) \/ ~Parses(u) THEN TextOrder(t, u)
    ELSE IF Part(t, 1) # Part(u, 1) THEN Sign(Part(t, 1) - Part(u, 1))
    ELSE IF Part(t, 2) # Part(u, 2) THEN Sign(Part(t, 2) - Part(u, 2))
    ELSE IF Part(t, 3) # Part(u, 3) THEN Sign(Part(t, 3) - Part(u, 3))
    ELSE IF Pre(t) = 0 /\ Pre(u) # 0 THEN 1
    ELSE IF Pre(t) # 0 /\ Pre(u) = 0 THEN -1
    ELSE Sign(Pre(t) - Pre(u))

\* A constraint is an operator and the text that follows it; "x" stands for a
\* text whose first wildcard follows the numbers of text.
Constraint == [op: {"*", "^", "~", ">=", "<=", ">", "<", "x", ""}, text: Text]

\* ^1.2.3 and ~1.2.3 look at the numbers only.
CaretHolds(t, c) ==
    /\ Part(t, 1) = Part(c, 1)
    /\ \/ Part(t, 2) > Part(c, 2)
       \/ Part(t, 2) = Part(c, 2) /\ Part(t, 3) >= Part(c, 3)

TildeHolds(t, c) ==
    Part(t, 1) = Part(c, 1) /\ Part(t, 2) = Part(c, 2) /\ Part(t, 3) >= Part(c, 3)

\* The text before the wildcard; the numbers it does not give are 0 after
\* parse_semver, and 0 passes the test ">= 0" that should skip them.
WildcardHolds(t, c) == Part(t, 1) = Part(c, 1) /\ Part(t, 2) = Part(c, 2)

(* ember_package_version_satisfies.                                        *)
Satisfies(t, c) ==
    \/ c.op = "*"
    \/ c.op = "" /\ (IsLatest(c.text) \/ t = c.text)
    \/ /\ Parses(t) /\ Parses(c.text)
       /\ \/ c.op = "^" /\ CaretHolds(t, c.text)
          \/ c.op = "~" /\ TildeHolds(t, c.text)
          \/ c.op = ">=" /\ Compare(t, c.text) >= 0
          \/ c.op = "<=" /\ Compare(t, c.text) <= 0
          \/ c.op = ">" /\ Compare(t, c.text) > 0
          \/ c.op = "<" /\ Compare(t, c.text) < 0
          \/ c.op = "x" /\ WildcardHolds(t, c.text)
          \/ c.op = "" /\ \A k \in 1..3 : Part(t, k) = Part(c.text, k)

\* 1.2.0 for 1.1.7 and 2.0.0 for 1.1.7.
NextMinor(t) == [word |-> 0, nums |-> <<Part(t, 1), Part(t, 2) + 1, 0>>, pre |-> 0, build |-> 0]
NextMajor(t) == [word |-> 0, nums |-> <<Part(t, 1) + 1, 0, 0>>, pre |-> 0, build |-> 0]

-----------------------------------------------------------------------------
(* What the operators are meant to be, on versions that parse.             *)

\* Compare is a total order up to what it ignores (numbers left out, build).
Orders(t, u, v) ==
    /\ Compare(t, u) = -Compare(u, t)
    /\ Compare(t, u) <= 0 /\ Compare(u, v) <= 0 => Compare(t, v) <= 0
    /\ Pre(t) # 0 /\ u = [t EXCEPT !.pre = 0] => Compare(t, u) < 0

\* The range a caret or a tilde constraint stands for, among releases.
RangeRight(t, c) ==
    /\ Satisfies(t, [op |-> "^", text |-> c]) <=>
           Compare(t, c) >= 0 /\ Compare(t, NextMajor(c)) < 0
    /\ Satisfies(t, [op |-> "~", text |-> c]) <=>
           Compare(t, c) >= 0 /\ Compare(t, NextMinor(c)) < 0
=============================================================================
