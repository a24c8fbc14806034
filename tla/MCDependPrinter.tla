-------------------------- MODULE MCDependPrinter --------------------------
(***************************************************************************)
(* The iterator, as the printer and any other caller use it, on every tree *)
(* of at most three levels of groups of one or two children, and on every  *)
(* tree of at most two levels of groups of none, one, two or three, with   *)
(* every choice of the groups that have a header.                          *)
(***************************************************************************)
EXTENDS DependRoundTrip, SequencesExt

Leaf == [p \in {} |-> 0]

Graft(n, kids) ==
    LET below == {<<i>> \o g : <<i, g>> \in
                    UNION {{<<i, g>> : g \in DOMAIN kids[i]} : i \in 0 .. n - 1}}
    IN  [p \in below \cup {Root} |->
            IF p = Root THEN n ELSE kids[p[1]][Tail(p)]]

RECURSIVE TreesUpTo(_, _)
TreesUpTo(depth, sizes) ==
    LET kids == {Leaf} \cup (IF depth = 1 THEN {} ELSE TreesUpTo(depth - 1, sizes))
    IN  UNION {{Graft(n, k) : k \in [0 .. n - 1 -> kids]} : n \in sizes}

MCTrees == TreesUpTo(3, 1 .. 2) \cup TreesUpTo(2, 0 .. 3)

\* Pre-order by its recursive definition: a node, then what hangs below it.
RECURSIVE Listing(_, _)
Listing(t, p) ==
    IF IsGroup(t, p)
    THEN FlattenSeq([i \in 1 .. t[p] |->
            LET child == Append(p, i - 1) IN <<child>> \o Listing(t, child)])
    ELSE <<>>

\* Before, by which the cursor and the order of iterators are specified, is
\* the order of that traversal.
ASSUME BeforeIsPreorder ==
    \A t \in MCTrees :
        LET all == Listing(t, Root)
        IN  /\ ToSet(all) = Nodes(t)
            /\ \A i, j \in 1 .. Len(all) : i < j <=> Before(all[i], all[j])
=============================================================================
