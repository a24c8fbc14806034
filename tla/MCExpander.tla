----------------------------- MODULE MCExpander -----------------------------
(***************************************************************************)
(* Two repositories.  The first lists two categories and has a third one;  *)
(* a category has two packages and a directory whose name is no package    *)
(* name and which holds an ebuild.                                         *)
(***************************************************************************)
EXTENDS Expander

CONSTANTS r, s, categories_r, categories_s, c, d, u, a, p, q, odd, v, p1, p2, q1, v1, stray, file, manifest

Listing == [x \in {r, s} |-> IF x = r THEN <<c, d>> ELSE <<a>>]

IndexOf == [x \in {r, s} |-> IF x = r THEN categories_r ELSE categories_s]

Holds == [x \in {r, s, c, d, u, a, p, q, odd, v} |->
    CASE x = r -> {categories_r, c, d, u}
      [] x = s -> {categories_s, a}
      [] x = c -> {p, q, odd, file}
      [] x = u -> {v}
      [] x = p -> {p1, p2, manifest}
      [] x = q -> {q1}
      [] x = v -> {v1}
      [] x = odd -> {stray}
      [] OTHER -> {}]

InOrder == <<r, s>>

Full == {r, s, categories_r, categories_s, c, d, u, a, p, q, odd, v, p1, p2, q1, v1, stray, file, manifest}

\* Everything; without the stray ebuild or its directory; without a package; without a
\* listed category; without the categories file.
MCTrees == {Full, Full \ {stray}, Full \ {odd, stray}, Full \ {odd, stray, q, q1},
            Full \ {odd, stray, d}, Full \ {odd, stray, categories_r}}

\* What exact parts match, whether they exist or not, and what wildcards match.
Wildcard(categories, packages, ebuilds, repo) ==
    [exact_category |-> FALSE, exact_name |-> FALSE, repo |-> repo,
     categories |-> categories, packages |-> packages, ebuilds |-> ebuilds,
     incomparable |-> {}]

Everything == Wildcard({c, d, u, a}, {p, q, v, odd}, {p1, p2, q1, v1, stray}, AnyRepo)

MCAtoms ==
    {Everything,
     Wildcard({c}, {q, odd}, {p2, q1, v1, stray}, r),
     [Everything EXCEPT !.exact_name = TRUE, !.packages = {p}],
     [Everything EXCEPT !.exact_category = TRUE, !.categories = {c}, !.ebuilds = {p1}],
     [Everything EXCEPT !.exact_category = TRUE, !.categories = {u}, !.exact_name = TRUE,
                        !.packages = {v}, !.repo = r],
     [Everything EXCEPT !.packages = {p, q, v}, !.ebuilds = {p2, q1, v1},
                        !.incomparable = {p1}],
     [Everything EXCEPT !.repo = "unknown"]}
=============================================================================
