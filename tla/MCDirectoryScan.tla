-------------------------- MODULE MCDirectoryScan --------------------------
(***************************************************************************)
(* A loop and two more iterators over every directory of at most three     *)
(* entries, of any shape.  Which entry has which name plays no part, so    *)
(* one order stands for all, and neither do the names of streams.          *)
(***************************************************************************)
EXTENDS DirectoryScan, TLC

CONSTANTS a, b, c

MCDirectories == {SubSeq(<<a, b, c>>, 1, n) : n \in 0 .. 3}

MCSymmetry == Permutations(Vars \ {v}) \cup Permutations(Streams)
=============================================================================
