----------------------------- MODULE RepoCensus -----------------------------
(***************************************************************************)
(* What the parallel scan of a repository promises: ebuilds are found one  *)
(* at a time, in any order, and the comparison with the expected set       *)
(* starts only when all of them are there and nobody adds any more.        *)
(***************************************************************************)
CONSTANT AllEbuilds

VARIABLES ebuilds_found, compared

Init == ebuilds_found = {} /\ compared = FALSE

Find ==
    /\ ~compared
    /\ \E e \in AllEbuilds : ebuilds_found' = ebuilds_found \cup {e}
    /\ UNCHANGED compared

Compare ==
    /\ ebuilds_found = AllEbuilds
    /\ compared' = TRUE
    /\ UNCHANGED ebuilds_found

Next == Find \/ Compare

Spec == Init /\ [][Next]_<<ebuilds_found, compared>>
=============================================================================
