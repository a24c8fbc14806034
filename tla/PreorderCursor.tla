--------------------------- MODULE PreorderCursor ---------------------------
(***************************************************************************)
(* What a DependExpr::Iterator promises: a bidirectional cursor over the   *)
(* nodes of a tree in pre-order.  Each call is one step; going back from   *)
(* the first node stays there.                                             *)
(***************************************************************************)
EXTENDS DependTree

CONSTANT Trees

VARIABLES ast,   \* the tree iterated over
          cur    \* a node, or End

End == <<ast[Root]>>

\* q is the neighbour of p: nothing lies between the two.
Adjacent(p, q) ==
    /\ Before(p, q)
    /\ \A r \in Nodes(ast) : ~(Before(p, r) /\ Before(r, q))

IsFirst(p) == \A r \in Nodes(ast) : ~Before(r, p)

TypeOK == cur \in Nodes(ast) \cup {End}

Init == ast \in Trees /\ (cur = End \/ (cur \in Nodes(ast) /\ IsFirst(cur)))

Forward ==
    /\ cur # End
    /\ cur' \in Nodes(ast) \cup {End} /\ Adjacent(cur, cur')
    /\ UNCHANGED ast

Backward ==
    /\ cur' \in Nodes(ast) /\ Adjacent(cur', cur)
    /\ UNCHANGED ast

Rewind ==
    /\ cur' \in Nodes(ast) \cup {End} /\ (cur' = End \/ IsFirst(cur'))
    /\ UNCHANGED ast

Next == Forward \/ Backward \/ Rewind

Spec == Init /\ [][Next]_<<ast, cur>>
=============================================================================
