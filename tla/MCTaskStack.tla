---------------------------- MODULE MCTaskStack ----------------------------
(***************************************************************************)
(* Three workers on three categories: one without packages, one with a     *)
(* single package, one with a package of two ebuilds and one of none.      *)
(***************************************************************************)
EXTENDS TaskStack

CONSTANTS w1, w2, w3, full, bare, late, two, one, none, e1, e2, e3

MCWorkers    == <<w1, w2, w3>>
MCCategories == <<late, bare, full>>
MCPackagesOf == 
    [c \in {full, bare, late} |->
        CASE c = full -> <<two, none>>
          [] c = late -> <<one>>
          [] c = bare -> <<>>]
MCEbuildsOf  ==
    [p \in {two, one, none} |->
        CASE p = two  -> <<e1, e2>>
          [] p = one  -> <<e3>>
          [] p = none -> <<>>]
=============================================================================
