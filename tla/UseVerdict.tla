----------------------------- MODULE UseVerdict -----------------------------
(***************************************************************************)
(* What the use-style lines of a profile file promise for each package:    *)
(* they are read in order, and the last token that mentions a flag, by its *)
(* name or by a wildcard, decides about it.                                *)
(***************************************************************************)
EXTENDS UseTokens, Naturals

CONSTANT Packages

VARIABLES
    verdict,    \* for each package and flag, what the tokens read so far say
    read,       \* how many tokens have been read
    latest      \* the latest of them, with the packages it applies to

vars == <<verdict, read, latest>>

Says(x) == IF x.sign = "-" THEN "no" ELSE "yes"

Init ==
    /\ verdict = [p \in Packages |-> [f \in Flags |-> "unset"]]
    /\ read = 0
    /\ latest \in [targets : SUBSET Packages, token : Tokens]

Read(t) ==
    /\ read' = read + 1
    /\ latest' = t
    /\ verdict' = [p \in Packages |-> [f \in Flags |->
                    IF p \in t.targets /\ t.token.flag \in {f, Star}
                    THEN Says(t.token)
                    ELSE verdict[p][f]]]

Next == \E t \in [targets : SUBSET Packages, token : Tokens] : Read(t)

Spec == Init /\ [][Next]_vars
=============================================================================
