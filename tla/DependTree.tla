----------------------------- MODULE DependTree -----------------------------
(***************************************************************************)
(* The abstract syntax tree of a dependency expression (struct GroupExpr   *)
(* of depend.hpp).  A node is named by its path: the sequence of child     *)
(* indices that leads to it from the root, which is what the iterator      *)
(* keeps in index_.  A tree maps the path of every group, the root <<>>    *)
(* included, to the size of its vector `nodes'; a node that is not in the  *)
(* domain holds a leaf (the variant's T, an atom).  The leaves' text and   *)
(* the groups' headers play no part in the shape.  A vector owns its       *)
(* elements, so an expression is finite.                                   *)
(***************************************************************************)
EXTENDS Integers, Sequences, FiniteSets

Path == Seq(Nat)
Root == <<>>

\* The empty path names no Node (the root is a DependExpr, not a Node): it
\* stands for the null pointer.
Null == <<>>

Back(p)    == p[Len(p)]
PopBack(p) == SubSeq(p, 1, Len(p) - 1)

\* AST_at finds a node: every step of the walk is in range of a group's nodes.
AST_at(t, p) ==
    \A k \in 1 .. Len(p) :
        LET group == SubSeq(p, 1, k - 1)
        IN  group \in DOMAIN t /\ p[k] < t[group]

IsTree(t) ==
    /\ DOMAIN t \subseteq Path /\ IsFiniteSet(DOMAIN t)
    /\ Root \in DOMAIN t
    /\ \A g \in DOMAIN t : t[g] \in Nat /\ AST_at(t, g)

Nodes(t) == UNION {{Append(g, i) : i \in 0 .. t[g] - 1} : g \in DOMAIN t}

IsGroup(t, p) == p \in DOMAIN t

-----------------------------------------------------------------------------
(* Pre-order on paths, independent of any tree: a node comes before its    *)
(* descendants and before everything below a later sibling.                *)

IsPrefixOf(p, q) == Len(p) <= Len(q) /\ \A k \in 1 .. Len(p) : p[k] = q[k]

Before(p, q) ==
    \/ IsPrefixOf(p, q) /\ Len(p) < Len(q)
    \/ \E k \in 1 .. Len(p) :
          /\ k <= Len(q)
          /\ p[k] < q[k]
          /\ \A j \in 1 .. k - 1 : p[j] = q[j]

\* The node that pre-order visits last in the subtree of p.
Deepest(t, p) ==
    LET below == {q \in Nodes(t) : IsPrefixOf(p, q)}
    IN  CHOOSE q \in below : \A r \in below \ {q} : Before(r, q)
=============================================================================
