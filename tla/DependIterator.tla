--------------------------- MODULE DependIterator ---------------------------
(***************************************************************************)
(* GroupExpr::Iterator of depend.hpp: the pre-order iterator over a        *)
(* dependency expression.  The iterator holds its position twice, as a     *)
(* pointer (node) and as the vector of child indices that leads to it      *)
(* (index_), and every step updates both.  operator++ and operator-- are   *)
(* loops over traverse_downwards, _right, _left and _upwards, each of      *)
(* which ends by calling one of the user's callbacks; a callback sees the  *)
(* iterator in the middle of the call, so one action is one traverse step. *)
(* The caller keeps the contract of an iterator: ++ needs an element to    *)
(* leave, -- a non-empty index_.                                           *)
(***************************************************************************)
EXTENDS DependTree

CONSTANT Trees      \* the expressions iterated over

ASSUME TreesAssumption == \A t \in Trees : IsTree(t)

VARIABLES
    ast,        \* the expression
    node,       \* the node pointed at, or Null
    index,      \* index_
    called,     \* the callback the latest step called, or "none"
    pc          \* where the call in progress stands

vars == <<ast, node, index, called, pc>>

\* "right": in the loop of ++ (243-252); "deep", "deepright": in the outer and
\* the inner loop of -- (264-268).
Locations == {"idle", "right", "deep", "deepright"}
Callbacks == {"none", "downwards", "right", "left", "upwards"}

TypeOK ==
    /\ IsTree(ast)
    /\ node \in Path
    /\ index \in Path
    /\ called \in Callbacks
    /\ pc \in Locations

-----------------------------------------------------------------------------
\* Mutant of AtLast: compares with the size.
AtLastOffByOne(i, size) == size > 0 /\ i >= size

\* index >= nodes.size() - 1, in size_t: an empty vector has no last element
\* and the difference wraps to the largest value.
AtLast(i, size) == size > 0 /\ i >= size - 1

\* The group that holds the current node, by index_ alone, and whether finding
\* it throws (vector::at, std::get).
ParentGroup == IF Len(index) > 1 THEN PopBack(index) ELSE Root
ParentFound ==
    Len(index) > 1 => AST_at(ast, PopBack(index)) /\ IsGroup(ast, PopBack(index))

\* Mutant of AtLastOfRoot: the end of the expression is not told apart.
AtLastOfRootForgotten == FALSE

AtLastOfRoot == Len(index) = 1 /\ AtLast(index[1], ast[Root])

RightEnd ==
    \/ AtLastOfRoot
    \/ ParentFound /\ AtLast(Back(index), ast[ParentGroup])

SetBack(i) == [index EXCEPT ![Len(index)] = i]

\* The four traverse functions when they return true.
traverse_downwards ==
    /\ IsGroup(ast, node) /\ ast[node] # 0
    /\ index' = Append(index, 0)
    /\ node' = Append(node, 0)
    /\ called' = "downwards"

traverse_right ==
    /\ ~RightEnd /\ ParentFound /\ Back(index) + 1 < ast[ParentGroup]
    /\ index' = SetBack(Back(index) + 1)
    /\ node' = Append(ParentGroup, Back(index) + 1)
    /\ called' = "right"

traverse_left ==
    /\ Back(index) >= 1 /\ ParentFound /\ Back(index) - 1 < ast[ParentGroup]
    /\ index' = SetBack(Back(index) - 1)
    /\ node' = Append(ParentGroup, Back(index) - 1)
    /\ called' = "left"

\* Mutant of traverse_upwards: the pointer stays at the child.
traverse_upwardsStale ==
    /\ Len(index) > 1 /\ ParentFound
    /\ UNCHANGED node
    /\ index' = PopBack(index)
    /\ called' = "upwards"

traverse_upwards ==
    /\ Len(index) > 1 /\ ParentFound
    /\ node' = PopBack(index)
    /\ index' = PopBack(index)
    /\ called' = "upwards"

\* ... and when they return false, which changes nothing.
NoneCalled == called' = "none" /\ UNCHANGED <<node, index>>

NoDownwards == ~(IsGroup(ast, node) /\ ast[node] # 0)

\* to_begin and to_end; neither calls a callback.
SetBegin ==
    /\ node'  = IF ast[Root] = 0 THEN Null ELSE <<0>>
    /\ index' = IF ast[Root] = 0 THEN <<>> ELSE <<0>>
    /\ called' = "none"

SetEnd == node' = Null /\ index' = <<ast[Root]>> /\ called' = "none"

-----------------------------------------------------------------------------
\* begin() and end().
Init ==
    /\ ast \in Trees
    /\ \/ node = (IF ast[Root] = 0 THEN Null ELSE <<0>>) /\ index = node
       \/ node = Null /\ index = <<ast[Root]>>
    /\ called = "none"
    /\ pc = "idle"

to_begin == pc = "idle" /\ SetBegin /\ UNCHANGED <<ast, pc>>
to_end   == pc = "idle" /\ SetEnd   /\ UNCHANGED <<ast, pc>>

Increment ==
    /\ pc = "idle" /\ node # Null
    /\ \/ traverse_downwards /\ UNCHANGED pc
       \/ NoDownwards /\ NoneCalled /\ pc' = "right"
    /\ UNCHANGED ast

IncrementRight ==
    /\ pc = "right"
    /\ \/ traverse_right /\ pc' = "idle"
       \/ RightEnd /\ AtLastOfRoot /\ SetEnd /\ pc' = "idle"
       \/ RightEnd /\ ~AtLastOfRoot /\ traverse_upwards /\ UNCHANGED pc
    /\ UNCHANGED ast

Decrement ==
    /\ pc = "idle" /\ index # <<>>
    /\ \/ traverse_left /\ pc' = "deep"
       \/ Back(index) < 1 /\ traverse_upwards /\ UNCHANGED pc
       \/ Back(index) < 1 /\ Len(index) = 1 /\ NoneCalled /\ UNCHANGED pc
    /\ UNCHANGED ast

DecrementDeep ==
    /\ pc = "deep"
    /\ \/ traverse_downwards /\ pc' = "deepright"
       \/ NoDownwards /\ NoneCalled /\ pc' = "idle"
    /\ UNCHANGED ast

\* Mutant of DecrementDeepRight: descends to the first child, not to the last.
DecrementDeepLeft ==
    /\ pc = "deepright"
    /\ NoneCalled /\ pc' = "deep"
    /\ UNCHANGED ast

DecrementDeepRight ==
    /\ pc = "deepright"
    /\ \/ traverse_right /\ UNCHANGED pc
       \/ RightEnd /\ NoneCalled /\ pc' = "deep"
    /\ UNCHANGED ast

\* The next step of the program throws: a lookup out of range, or one of the
\* exceptions marked TODO.  The calls are enabled when nothing throws, so a
\* state with Throws is one where the call in progress does not return.
RightThrows == ~RightEnd /\ ~(ParentFound /\ Back(index) + 1 < ast[ParentGroup])
LeftThrows  ==
    Back(index) >= 1 /\ ~(ParentFound /\ Back(index) - 1 < ast[ParentGroup])

Throws ==
    \/ pc \in {"right", "deepright"} /\ RightThrows
    \/ pc = "right" /\ RightEnd /\ ~AtLastOfRoot /\ ~(Len(index) > 1 /\ ParentFound)
    \/ pc = "idle" /\ index # <<>> /\ LeftThrows
    \/ pc = "idle" /\ index # <<>> /\ Back(index) < 1 /\ ~ParentFound

Step == IncrementRight \/ DecrementDeep \/ DecrementDeepRight

Next == to_begin \/ to_end \/ Increment \/ Decrement \/ Step

\* A call runs to its return: nothing in its loops waits.
Spec == Init /\ [][Next]_vars /\ WF_vars(Step)

-----------------------------------------------------------------------------
\* Mutant of Spaceship: a node and its descendants compare equal.
SpaceshipWithoutLength(p, pnull, q, qnull) ==
    LET common == IF Len(p) < Len(q) THEN Len(p) ELSE Len(q)
        differ == {k \in 1 .. common : p[k] # q[k]}
        first  == CHOOSE k \in differ : \A j \in differ : k <= j
    IN  IF (pnull /\ qnull) \/ differ = {} THEN 0
        ELSE IF p[first] < q[first] THEN -1 ELSE 1

\* operator<=> of two iterators given by their index_: -1, 0 or 1; the null
\* pointers compare equal whatever their index_.
Spaceship(p, pnull, q, qnull) ==
    LET common == IF Len(p) < Len(q) THEN Len(p) ELSE Len(q)
        differ == {k \in 1 .. common : p[k] # q[k]}
        first  == CHOOSE k \in differ : \A j \in differ : k <= j
        Sign(a, b) == IF a < b THEN -1 ELSE IF a > b THEN 1 ELSE 0
    IN  IF pnull /\ qnull THEN 0
        ELSE IF differ # {} THEN Sign(p[first], q[first])
        ELSE Sign(Len(p), Len(q))

-----------------------------------------------------------------------------
\* The pointer and the index vector always name the same node of the tree, in
\* the middle of a call too (a callback reads both); without a node, index_ is
\* that of begin() on an empty expression or of end().
Coherent ==
    IF node = Null
    THEN pc = "idle" /\ (index = <<ast[Root]>> \/ (ast[Root] = 0 /\ index = <<>>))
    ELSE node = index /\ node \in Nodes(ast)

\* No call ends with an exception: both runtime_errors marked TODO (250, 275),
\* the out_of_range of parent_expr, vector::at and std::get are unreachable.
NeverThrows == ~Throws

\* operator<=> orders any two iterators over one expression as pre-order does,
\* with end() after every node: what `iter != end()' and sorted iterators need.
\* The iterator compared is the one the calls have reached, in mid-call too.
OrderIsPreorder ==
    LET end == <<ast[Root]>>
        here == IF node = Null THEN end ELSE node
    IN  \A q \in Nodes(ast) \cup {end} :
            Spaceship(index, node = Null, q, q = end)
                = IF here = q THEN 0 ELSE IF Before(here, q) THEN -1 ELSE 1

\* Every ++ and -- returns.
CallReturns == pc # "idle" ~> pc = "idle"

\* Each call is one step of the pre-order cursor: a ++ takes effect when it
\* returns, a -- when it steps left.
Position ==
    IF pc = "idle" THEN (IF node = Null THEN <<ast[Root]>> ELSE node)
    ELSE IF pc = "deepright" THEN Deepest(ast, PopBack(node))
    ELSE Deepest(ast, node)

Cursor == INSTANCE PreorderCursor WITH cur <- Position

ImplementsCursor == Cursor!Spec
=============================================================================
