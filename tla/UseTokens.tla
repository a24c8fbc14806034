----------------------------- MODULE UseTokens -----------------------------
(***************************************************************************)
(* Sets of use flag tokens as profile files write them: foo, -foo, * and   *)
(* -*, kept in an unordered_set of strings.                                *)
(***************************************************************************)
CONSTANTS
    Flags,      \* the use flags
    Star        \* the wildcard

ASSUME StarAssumption == Star \notin Flags

\* A token, a minus in front of it kept apart: -foo is [sign |-> "-", flag |-> foo].
Tokens == [sign : {"+", "-"}, flag : Flags \cup {Star}]

Opposite(x) == [sign |-> IF x.sign = "+" THEN "-" ELSE "+", flag |-> x.flag]

On(f)  == [sign |-> "+", flag |-> f]
Off(f) == [sign |-> "-", flag |-> f]

All     == On(Star)
Nothing == Off(Star)

\* A mutant of Insert: the opposite stays.
InsertBeside(set, x) == IF x.flag = Star THEN {x} ELSE set \cup {x}

\* package_use_inserter: what a parsed token does to the set parsed so far.
Insert(set, x) ==
    IF x.flag = Star THEN {x} ELSE (set \ {Opposite(x)}) \cup {x}

\* algo_5_1_helper: what a set says of a flag, when `before' is what the sets
\* consulted earlier say.  A token of the flag itself beats a wildcard.
algo_5_1_helper(set, f, before) ==
    IF On(f) \in set THEN "yes"
    ELSE IF Off(f) \in set THEN "no"
    ELSE IF All \in set THEN "yes"
    ELSE IF Nothing \in set THEN "no"
    ELSE before
=============================================================================
