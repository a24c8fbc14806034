------------------------ MODULE DependIteratorProofs ------------------------
(***************************************************************************)
(* The iterator over a dependency expression, and the printer that uses    *)
(* it, for every set of finite trees: of any depth, of any arity, empty    *)
(* groups included; that the two implement the cursor in pre-order; and    *)
(* that the parser reads what the printer wrote.                           *)
(***************************************************************************)
EXTENDS DependRoundTrip, SequenceTheorems, FiniteSetTheorems, WellFoundedInduction, TLAPS

-----------------------------------------------------------------------------
(* Paths, trees and pre-order, for every tree.                             *)

\* A path is its parent's path and a last index.
LEMMA PathSplit ==
    ASSUME NEW p \in Path, p # <<>>
    PROVE  /\ PopBack(p) \in Path
           /\ Back(p) \in Nat
           /\ Len(p) \in Nat /\ Len(p) >= 1
           /\ Len(PopBack(p)) = Len(p) - 1
           /\ \A k \in 1 .. Len(p) - 1 : PopBack(p)[k] = p[k]
           /\ p = Append(PopBack(p), Back(p))
<1> DEFINE q == PopBack(p)
<1>1. Len(p) \in Nat /\ Len(p) >= 1 /\ \A k \in 1 .. Len(p) : p[k] \in Nat
  BY EmptySeq, ElementOfSeq DEF Path
<1>2. /\ q \in Path
      /\ Len(q) = Len(p) - 1
      /\ \A k \in 1 .. Len(p) - 1 : q[k] = p[k]
  <2>1. \A k \in 1 .. Len(p) - 1 : p[k] \in Nat
    BY <1>1
  <2>2. Len(p) - 1 \in Int
    BY <1>1
  <2>3. /\ q \in Seq(Nat)
        /\ Len(q) = IF 1 <= Len(p) - 1 THEN (Len(p) - 1) - 1 + 1 ELSE 0
        /\ \A k \in 1 .. (Len(p) - 1) - 1 + 1 : q[k] = p[1 + k - 1]
    BY <2>1, <2>2, SubSeqProperties DEF PopBack
  <2> HIDE DEF q
  <2>4. Len(q) = Len(p) - 1
    <3>1. Len(p) \in Nat /\ Len(p) >= 1
      BY <1>1
    <3>2. Len(q) = IF 1 <= Len(p) - 1 THEN (Len(p) - 1) - 1 + 1 ELSE 0
      BY <2>3
    <3> QED
      BY <3>1, <3>2
  <2>5. \A k \in 1 .. Len(p) - 1 : 1 + k - 1 = k /\ k \in 1 .. (Len(p) - 1) - 1 + 1
    BY <1>1
  <2>6. \A k \in 1 .. Len(p) - 1 : q[k] = p[k]
    BY <2>3, <2>5
  <2> QED
    BY <2>3, <2>4, <2>6 DEF Path
<1>3. Back(p) \in Nat
  BY <1>1 DEF Back
<1>4. p = Append(q, Back(p))
  <2>1. Append(q, Back(p)) \in Seq(Nat) /\ Len(Append(q, Back(p))) = Len(p)
    BY <1>1, <1>2, <1>3 DEF Path
  <2>2. \A k \in 1 .. Len(p) : Append(q, Back(p))[k] = p[k]
    BY <1>1, <1>2, <1>3 DEF Path, Back
  <2> QED
    BY <2>1, <2>2, SeqEqual DEF Path
<1> QED
  BY <1>1, <1>2, <1>3, <1>4

\* The two cases the code tells apart by index_.size().
LEMMA PathLength ==
    ASSUME NEW p \in Path, p # <<>>
    PROVE  Len(p) = 1 \/ Len(p) > 1
<1>1. PICK n \in Nat : n = Len(p) /\ n >= 1
  BY PathSplit
<1>2. n = 1 \/ n > 1
  BY <1>1
<1> QED
  BY <1>1, <1>2

\* A child's path extends its group's path by one index.
LEMMA PathAppend ==
    ASSUME NEW g \in Path, NEW i \in Nat
    PROVE  /\ Append(g, i) \in Path
           /\ Append(g, i) # <<>>
           /\ Len(Append(g, i)) = Len(g) + 1
           /\ \A k \in 1 .. Len(g) : Append(g, i)[k] = g[k]
           /\ Append(g, i)[Len(g) + 1] = i
           /\ Back(Append(g, i)) = i
           /\ PopBack(Append(g, i)) = g
<1> DEFINE p == Append(g, i)
<1>1. /\ p \in Path
      /\ Len(p) = Len(g) + 1
      /\ \A k \in 1 .. Len(g) : p[k] = g[k]
      /\ p[Len(g) + 1] = i
      /\ Len(g) \in Nat
  BY DEF Path
<1>2. p # <<>>
  BY <1>1
<1>3. Back(p) = i
  BY <1>1 DEF Back
<1>4. PopBack(p) = g
  <2>1. /\ PopBack(p) \in Seq(Nat)
        /\ Len(PopBack(p)) = Len(g)
        /\ \A k \in 1 .. Len(g) : PopBack(p)[k] = g[k]
    <3> HIDE DEF p
    <3>1. /\ PopBack(p) \in Path
          /\ Len(PopBack(p)) = Len(p) - 1
          /\ \A k \in 1 .. Len(p) - 1 : PopBack(p)[k] = p[k]
      BY <1>1, <1>2, PathSplit
    <3> QED
      BY <1>1, <3>1 DEF Path
  <2> QED
    BY <2>1, SeqEqual DEF Path
<1> QED
  BY <1>1, <1>2, <1>3, <1>4

\* Assigning to index_.back() replaces the last index.
LEMMA PathSetBack ==
    ASSUME NEW p \in Path, p # <<>>, NEW i \in Nat
    PROVE  [p EXCEPT ![Len(p)] = i] = Append(PopBack(p), i)
<1> DEFINE q == [p EXCEPT ![Len(p)] = i]
           r == Append(PopBack(p), i)
<1>1. /\ PopBack(p) \in Path /\ Len(p) \in Nat /\ Len(p) >= 1
      /\ Len(PopBack(p)) = Len(p) - 1
      /\ \A k \in 1 .. Len(p) - 1 : PopBack(p)[k] = p[k]
  BY PathSplit
<1>2. /\ q \in Seq(Nat) /\ Len(q) = Len(p)
      /\ \A k \in 1 .. Len(p) : q[k] = IF k = Len(p) THEN i ELSE p[k]
  BY <1>1, ExceptSeq DEF Path
<1>3. /\ r \in Seq(Nat) /\ Len(r) = Len(PopBack(p)) + 1
      /\ \A k \in 1 .. Len(PopBack(p)) : r[k] = PopBack(p)[k]
      /\ r[Len(PopBack(p)) + 1] = i
  BY <1>1, PathAppend DEF Path
<1> HIDE DEF q, r
<1>4. PICK n \in Nat : n = Len(p) /\ n >= 1
  BY <1>1
<1>5. /\ Len(q) = n /\ Len(r) = n
      /\ \A k \in 1 .. n : q[k] = IF k = n THEN i ELSE p[k]
      /\ \A k \in 1 .. n - 1 : r[k] = p[k]
      /\ r[n] = i
  BY <1>1, <1>2, <1>3, <1>4
<1>6. \A k \in 1 .. n : k = n \/ k \in 1 .. n - 1
  OBVIOUS
<1>7. \A k \in 1 .. n : q[k] = r[k]
  BY <1>5, <1>6
<1>8. q = r
  BY <1>2, <1>3, <1>5, <1>7, SeqEqual
<1> QED
  BY <1>8 DEF q, r

-----------------------------------------------------------------------------
(* Trees                                                                   *)

\* A node is a child in range of a group of the tree.
LEMMA NodeIsChild ==
    ASSUME NEW t, IsTree(t), NEW p \in Nodes(t)
    PROVE  /\ p \in Path
           /\ p # <<>>
           /\ PopBack(p) \in DOMAIN t
           /\ t[PopBack(p)] \in Nat
           /\ Back(p) \in Nat
           /\ Back(p) < t[PopBack(p)]
<1>1. PICK g \in DOMAIN t : \E i \in 0 .. t[g] - 1 : p = Append(g, i)
  BY DEF Nodes
<1>2. PICK i \in 0 .. t[g] - 1 : p = Append(g, i)
  BY <1>1
<1>3. g \in Path /\ t[g] \in Nat
  BY DEF IsTree
<1>4. i \in Nat /\ i < t[g]
  BY <1>2, <1>3
<1> QED
  BY <1>2, <1>3, <1>4, PathAppend

\* Whatever nodes.at(i) finds in a group is a node of the tree.
LEMMA ChildIsNode ==
    ASSUME NEW t, IsTree(t), NEW g \in DOMAIN t, NEW i \in Nat, i < t[g]
    PROVE  Append(g, i) \in Nodes(t)
<1>1. t[g] \in Nat
  BY DEF IsTree
<1>2. i \in 0 .. t[g] - 1
  BY <1>1
<1> QED
  BY <1>2 DEF Nodes

\* Every group but the root is a node, and AST_at finds it.
LEMMA GroupIsNode ==
    ASSUME NEW t, IsTree(t), NEW g \in DOMAIN t, g # Root
    PROVE  g \in Nodes(t) /\ AST_at(t, g)
<1>1. g \in Path /\ AST_at(t, g) /\ g # <<>>
  BY DEF IsTree, Root
<1>2. Len(g) \in Nat /\ Len(g) >= 1 /\ g = Append(PopBack(g), Back(g)) /\ Back(g) \in Nat
  BY <1>1, PathSplit
<1>3. PopBack(g) \in DOMAIN t /\ Back(g) < t[PopBack(g)]
  <2>1. Len(g) \in 1 .. Len(g)
    BY <1>2
  <2> QED
    BY <1>1, <2>1 DEF AST_at, PopBack, Back
<1> QED
  BY <1>1, <1>2, <1>3, ChildIsNode

\* A node deeper than the first level has a parent that is a node and a group.
LEMMA ParentIsNode ==
    ASSUME NEW t, IsTree(t), NEW p \in Nodes(t), Len(p) > 1
    PROVE  /\ PopBack(p) \in Nodes(t)
           /\ PopBack(p) # Root
           /\ IsGroup(t, PopBack(p))
           /\ AST_at(t, PopBack(p))
<1>1. p \in Path /\ p # <<>> /\ PopBack(p) \in DOMAIN t
  BY NodeIsChild
<1>2. Len(PopBack(p)) = Len(p) - 1 /\ Len(p) \in Nat
  BY <1>1, PathSplit
<1>3. PopBack(p) # Root
  BY <1>2, EmptySeq DEF Root
<1> QED
  BY <1>1, <1>3, GroupIsNode DEF IsGroup

\* A node of the first level hangs below the root.
LEMMA FirstLevel ==
    ASSUME NEW p \in Path, p # <<>>, Len(p) = 1
    PROVE  PopBack(p) = Root /\ Back(p) = p[1] /\ p = <<p[1]>>
<1>1. PopBack(p) \in Path /\ Len(PopBack(p)) = 0
  BY PathSplit
<1>2. PopBack(p) = Root
  BY <1>1, EmptySeq DEF Root, Path
<1>3. Back(p) = p[1]
  BY DEF Back
<1>4. p = Append(<<>>, p[1])
  BY <1>2, <1>3, PathSplit DEF Root
<1> QED
  BY <1>2, <1>3, <1>4

-----------------------------------------------------------------------------

\* The inductive invariant.  Coherent alone does not survive a step: that the
\* parent of a node is found needs the expression to be a tree.
IInv == TypeOK /\ Coherent

-----------------------------------------------------------------------------
(* What a traverse function that returns true makes of a coherent iterator *)

\* The iterator points at a node, by both of its fields.
AtNode == node = index /\ node \in Nodes(ast)

\* The group that index_ leads to is the one the current node hangs below.
LEMMA ParentIsFound ==
    ASSUME IsTree(ast), AtNode
    PROVE  /\ index \in Path /\ index # <<>>
           /\ ParentFound
           /\ ParentGroup = PopBack(index)
           /\ ParentGroup \in DOMAIN ast
           /\ ast[ParentGroup] \in Nat
           /\ Back(index) \in Nat
           /\ Back(index) < ast[ParentGroup]
<1>1. index \in Nodes(ast)
  BY DEF AtNode
<1>2. /\ index \in Path /\ index # <<>>
      /\ PopBack(index) \in DOMAIN ast /\ ast[PopBack(index)] \in Nat
      /\ Back(index) \in Nat /\ Back(index) < ast[PopBack(index)]
  BY <1>1, NodeIsChild
<1>3. Len(index) = 1 \/ Len(index) > 1
  BY <1>2, PathLength
<1>4. CASE Len(index) > 1
  BY <1>1, <1>2, <1>4, ParentIsNode DEF ParentFound, ParentGroup
<1>5. CASE Len(index) = 1
  <2>1. ~(Len(index) > 1)
    BY <1>5
  <2>2. PopBack(index) = Root
    BY <1>2, <1>5, FirstLevel
  <2> QED
    BY <1>2, <2>1, <2>2 DEF ParentFound, ParentGroup
<1> QED
  BY <1>3, <1>4, <1>5

\* A sibling in range of the parent group is a node.
LEMMA SiblingIsNode ==
    ASSUME IsTree(ast), AtNode, NEW i \in Nat, i < ast[ParentGroup]
    PROVE  /\ SetBack(i) = Append(ParentGroup, i)
           /\ SetBack(i) \in Path
           /\ SetBack(i) # Null
           /\ SetBack(i) \in Nodes(ast)
<1>1. /\ index \in Path /\ index # <<>>
      /\ ParentGroup = PopBack(index) /\ ParentGroup \in DOMAIN ast
  BY ParentIsFound
<1>2. SetBack(i) = Append(PopBack(index), i)
  BY <1>1, PathSetBack DEF SetBack
<1>3. PopBack(index) \in Path
  BY <1>1, PathSplit
<1> QED
  BY <1>1, <1>2, <1>3, PathAppend, ChildIsNode DEF Null

\* traverse_downwards arrives at the first child, by both fields.
LEMMA DownwardsKeepsNode ==
    ASSUME IsTree(ast), AtNode, traverse_downwards, UNCHANGED ast
    PROVE  AtNode' /\ node' # Null /\ node' \in Path
<1>1. node \in DOMAIN ast /\ ast[node] \in Nat /\ 0 < ast[node] /\ node \in Path
  BY DEF traverse_downwards, IsGroup, IsTree
<1>2. node' = Append(node, 0) /\ index' = node'
  BY DEF traverse_downwards, AtNode
<1> QED
  BY <1>1, <1>2, ChildIsNode, PathAppend DEF AtNode, Null

\* traverse_right arrives at the next sibling, by both fields.
LEMMA RightKeepsNode ==
    ASSUME IsTree(ast), AtNode, traverse_right, UNCHANGED ast
    PROVE  AtNode' /\ node' # Null /\ node' \in Path
<1>1. Back(index) + 1 \in Nat
  BY ParentIsFound
<1> QED
  BY <1>1, SiblingIsNode DEF traverse_right, AtNode

\* traverse_left arrives at the sibling before, by both fields.
LEMMA LeftKeepsNode ==
    ASSUME IsTree(ast), AtNode, traverse_left, UNCHANGED ast
    PROVE  AtNode' /\ node' # Null /\ node' \in Path
<1>1. Back(index) - 1 \in Nat
  BY ParentIsFound DEF traverse_left
<1> QED
  BY <1>1, SiblingIsNode DEF traverse_left, AtNode

\* traverse_upwards arrives at the group above, by both fields.
LEMMA UpwardsKeepsNode ==
    ASSUME IsTree(ast), AtNode, traverse_upwards, UNCHANGED ast
    PROVE  AtNode' /\ node' # Null /\ node' \in Path
<1>1. index \in Nodes(ast) /\ Len(index) > 1
  BY DEF AtNode, traverse_upwards
<1>2. PopBack(index) \in Nodes(ast) /\ PopBack(index) # Root
  BY <1>1, ParentIsNode
<1> QED
  BY <1>2, NodeIsChild DEF traverse_upwards, AtNode, Null, Root

\* to_begin leaves the iterator at the first node, or nowhere in an empty
\* expression; to_end leaves it nowhere.
LEMMA BeginIsNode ==
    ASSUME IsTree(ast), ast[Root] # 0
    PROVE  <<0>> \in Nodes(ast) /\ <<0>> # Null /\ <<0>> \in Path
<1>1. Root \in DOMAIN ast /\ ast[Root] \in Nat /\ 0 < ast[Root]
  BY DEF IsTree
<1>2. Root \in Path /\ Append(Root, 0) = <<0>>
  BY DEF Root, Path
<1> QED
  <2>1. Append(Root, 0) \in Nodes(ast)
    BY <1>1, ChildIsNode
  <2>2. Append(Root, 0) \in Path /\ Append(Root, 0) # <<>>
    BY <1>2, PathAppend
  <2> QED
    BY <1>2, <2>1, <2>2 DEF Null

\* The index_ of end() is a path.
LEMMA EndIsPath ==
    ASSUME IsTree(ast)
    PROVE  /\ ast[Root] \in Nat
           /\ <<ast[Root]>> \in Path
           /\ Len(<<ast[Root]>>) = 1
           /\ ~(Len(<<ast[Root]>>) > 1)
           /\ Back(<<ast[Root]>>) = ast[Root]
           /\ Null \in Path
<1>1. ast[Root] \in Nat
  BY DEF IsTree
<1> QED
  BY <1>1 DEF Path, Back, Null

\* Stepping left from end() finds the last node of the first level.
LEMMA LeftFromEnd ==
    ASSUME IsTree(ast), index = <<ast[Root]>>, traverse_left, UNCHANGED ast
    PROVE  AtNode' /\ node' # Null /\ node' \in Path
<1>1. /\ ast[Root] \in Nat /\ index \in Path /\ index # <<>>
      /\ Len(index) = 1 /\ ~(Len(index) > 1) /\ Back(index) = ast[Root]
  BY EndIsPath
<1>2. PopBack(index) = Root /\ ParentGroup = Root
  BY <1>1, FirstLevel DEF ParentGroup
<1>3. ast[Root] - 1 \in Nat /\ ast[Root] - 1 < ast[Root]
  BY <1>1 DEF traverse_left
<1>4. Root \in DOMAIN ast /\ Root \in Path
  BY DEF IsTree, Root, Path
<1>5. node' = Append(Root, ast[Root] - 1)
  BY <1>1, <1>2 DEF traverse_left
<1>6. index' = node'
  BY <1>1, <1>2, <1>3, <1>5, PathSetBack DEF traverse_left, SetBack
<1>7. node' \in Nodes(ast) /\ node' \in Path /\ node' # <<>>
  BY <1>3, <1>4, <1>5, ChildIsNode, PathAppend
<1> QED
  BY <1>6, <1>7 DEF AtNode, Null

-----------------------------------------------------------------------------
(* The inductive invariant                                                 *)

\* An iterator at a node satisfies the invariant wherever the call stands.
LEMMA AtNodeIsIInv ==
    ASSUME IsTree(ast), UNCHANGED ast, AtNode', node' # Null, node' \in Path,
           called' \in Callbacks, pc' \in Locations
    PROVE  IInv'
  BY DEF IInv, TypeOK, Coherent, AtNode

\* begin() and end() establish the invariant.
LEMMA InitIInv == Init => IInv
<1> SUFFICES ASSUME Init PROVE IInv
  OBVIOUS
<1>1. IsTree(ast) /\ called \in Callbacks /\ pc \in Locations /\ pc = "idle"
  BY TreesAssumption DEF Init, Callbacks, Locations
<1>2. CASE node = Null /\ index = <<ast[Root]>>
  BY <1>1, <1>2, EndIsPath DEF IInv, TypeOK, Coherent
<1>3. CASE node = (IF ast[Root] = 0 THEN Null ELSE <<0>>) /\ index = node
  <2>1. CASE ast[Root] = 0
    BY <1>1, <1>3, <2>1, EndIsPath DEF IInv, TypeOK, Coherent, Null
  <2>2. CASE ast[Root] # 0
    BY <1>1, <1>3, <2>2, BeginIsNode DEF IInv, TypeOK, Coherent
  <2> QED
    BY <2>1, <2>2
<1> QED
  BY <1>2, <1>3 DEF Init

\* to_end establishes the invariant.
LEMMA EndIInv ==
    ASSUME IsTree(ast), UNCHANGED ast, SetEnd, pc' = "idle"
    PROVE  IInv'
  BY EndIsPath DEF SetEnd, IInv, TypeOK, Coherent, Callbacks, Locations

\* Every traversal step of every call preserves the invariant.
LEMMA NextIInv == IInv /\ [Next]_vars => IInv'
<1> SUFFICES ASSUME IInv, [Next]_vars PROVE IInv'
  OBVIOUS
<1>1. /\ IsTree(ast) /\ called \in Callbacks /\ pc \in Locations
      /\ node \in Path /\ index \in Path
  BY DEF IInv, TypeOK
<1>2. node # Null => AtNode
  BY DEF IInv, Coherent, AtNode
<1>3. pc # "idle" => node # Null
  BY DEF IInv, Coherent
<1>4. /\ \A c \in Callbacks : c \in {"none", "downwards", "right", "left", "upwards"}
      /\ {"none", "downwards", "right", "left", "upwards"} \subseteq Callbacks
      /\ {"idle", "right", "deep", "deepright"} \subseteq Locations
  BY DEF Callbacks, Locations
<1>5. CASE to_begin
  <2>1. pc' = "idle" /\ UNCHANGED ast /\ called' = "none"
    BY <1>5 DEF to_begin, SetBegin
  <2>2. CASE ast[Root] = 0
    BY <1>1, <1>4, <1>5, <2>1, <2>2, EndIsPath
    DEF to_begin, SetBegin, IInv, TypeOK, Coherent, Null
  <2>3. CASE ast[Root] # 0
    <3>1. node' = <<0>> /\ index' = <<0>>
      BY <1>5, <2>3 DEF to_begin, SetBegin
    <3>2. AtNode' /\ node' # Null /\ node' \in Path
      BY <1>1, <2>1, <2>3, <3>1, BeginIsNode DEF AtNode
    <3> QED
      BY <1>1, <1>4, <2>1, <3>2, AtNodeIsIInv
  <2> QED
    BY <2>2, <2>3
<1>6. CASE to_end
  BY <1>1, <1>6, EndIInv DEF to_end
<1>7. CASE Increment
  <2>1. AtNode /\ UNCHANGED ast
    BY <1>2, <1>7 DEF Increment
  <2>2. CASE traverse_downwards /\ UNCHANGED pc
    BY <1>1, <1>4, <2>1, <2>2, DownwardsKeepsNode, AtNodeIsIInv DEF traverse_downwards
  <2>3. CASE NoneCalled /\ pc' = "right"
    BY <1>1, <1>4, <1>7, <2>1, <2>3, AtNodeIsIInv DEF NoneCalled, AtNode, Increment
  <2> QED
    BY <1>7, <2>2, <2>3 DEF Increment
<1>8. CASE IncrementRight
  <2>1. AtNode /\ UNCHANGED ast
    BY <1>2, <1>3, <1>8 DEF IncrementRight
  <2>2. CASE traverse_right /\ pc' = "idle"
    BY <1>1, <1>4, <2>1, <2>2, RightKeepsNode, AtNodeIsIInv DEF traverse_right
  <2>3. CASE SetEnd /\ pc' = "idle"
    BY <1>1, <2>1, <2>3, EndIInv
  <2>4. CASE traverse_upwards /\ UNCHANGED pc
    BY <1>1, <1>4, <2>1, <2>4, UpwardsKeepsNode, AtNodeIsIInv DEF traverse_upwards
  <2> QED
    BY <1>8, <2>2, <2>3, <2>4 DEF IncrementRight
<1>9. CASE Decrement
  <2>1. UNCHANGED ast /\ pc = "idle" /\ index # <<>>
    BY <1>9 DEF Decrement
  <2>2. AtNode \/ (node = Null /\ index = <<ast[Root]>>)
    BY <2>1 DEF IInv, Coherent, AtNode
  <2>3. CASE traverse_left /\ pc' = "deep"
    BY <1>1, <1>4, <2>1, <2>2, <2>3, LeftKeepsNode, LeftFromEnd, AtNodeIsIInv
    DEF traverse_left
  <2>4. CASE traverse_upwards /\ UNCHANGED pc
    <3>1. AtNode
      BY <1>1, <2>2, <2>4, EndIsPath DEF traverse_upwards
    <3> QED
      BY <1>1, <1>4, <2>1, <2>4, <3>1, UpwardsKeepsNode, AtNodeIsIInv
      DEF traverse_upwards
  <2>5. CASE NoneCalled /\ UNCHANGED pc
    BY <1>4, <2>1, <2>5 DEF NoneCalled, IInv, TypeOK, Coherent
  <2> QED
    BY <1>9, <2>3, <2>4, <2>5 DEF Decrement
<1>10. CASE DecrementDeep
  <2>1. AtNode /\ UNCHANGED ast /\ node # Null
    BY <1>2, <1>3, <1>10 DEF DecrementDeep
  <2>2. CASE traverse_downwards /\ pc' = "deepright"
    BY <1>1, <1>4, <2>1, <2>2, DownwardsKeepsNode, AtNodeIsIInv DEF traverse_downwards
  <2>3. CASE NoneCalled /\ pc' = "idle"
    BY <1>1, <1>4, <2>1, <2>3, AtNodeIsIInv DEF NoneCalled, AtNode
  <2> QED
    BY <1>10, <2>2, <2>3 DEF DecrementDeep
<1>11. CASE DecrementDeepRight
  <2>1. AtNode /\ UNCHANGED ast /\ node # Null
    BY <1>2, <1>3, <1>11 DEF DecrementDeepRight
  <2>2. CASE traverse_right /\ UNCHANGED pc
    BY <1>1, <1>4, <2>1, <2>2, RightKeepsNode, AtNodeIsIInv DEF traverse_right
  <2>3. CASE NoneCalled /\ pc' = "deep"
    BY <1>1, <1>4, <2>1, <2>3, AtNodeIsIInv DEF NoneCalled, AtNode
  <2> QED
    BY <1>11, <2>2, <2>3 DEF DecrementDeepRight
<1>12. CASE UNCHANGED vars
  BY <1>12 DEF vars, IInv, TypeOK, Coherent
<1> QED
  BY <1>5, <1>6, <1>7, <1>8, <1>9, <1>10, <1>11, <1>12 DEF Next, Step

\* The inductive invariant holds at every callback and between calls.
THEOREM Invariance == Spec => []IInv
  BY InitIInv, NextIInv, PTL DEF Spec

\* The iterator's fields keep their types and its expression stays a tree.
THEOREM TypeCorrect == Spec => []TypeOK
<1>1. IInv => TypeOK
  BY DEF IInv
<1> QED
  BY <1>1, Invariance, PTL

\* The pointer and index_ name one node of the expression, at every callback
\* and between calls.
THEOREM CoherentAlways == Spec => []Coherent
<1>1. IInv => Coherent
  BY DEF IInv
<1> QED
  BY <1>1, Invariance, PTL
-----------------------------------------------------------------------------
(* No call throws                                                          *)

\* The size_t comparison index >= nodes.size() - 1 has no wrap to fear where
\* the group has a child: if it fails, there is a next sibling.
LEMMA NotAtLast ==
    ASSUME NEW size \in Nat, NEW i \in Nat, i < size, ~AtLast(i, size)
    PROVE  i + 1 < size
  BY DEF AtLast

\* At a node none of the lookups of the next step is out of range.
LEMMA AtNodeDoesNotThrow ==
    ASSUME IsTree(ast), AtNode
    PROVE  /\ ~RightThrows
           /\ ~LeftThrows
           /\ ParentFound
           /\ RightEnd /\ ~AtLastOfRoot => Len(index) > 1
<1>1. /\ index \in Path /\ index # <<>> /\ ParentFound
      /\ ast[ParentGroup] \in Nat /\ Back(index) \in Nat
      /\ Back(index) < ast[ParentGroup]
  BY ParentIsFound
<1>2. ~RightThrows
  BY <1>1, NotAtLast DEF RightThrows, RightEnd
<1>3. ~LeftThrows
  BY <1>1 DEF LeftThrows
<1>4. ASSUME Len(index) = 1 PROVE ~(RightEnd /\ ~AtLastOfRoot)
  <2>1. Back(index) = index[1] /\ ParentGroup = Root
    BY <1>1, <1>4, FirstLevel DEF ParentGroup
  <2> QED
    BY <1>4, <2>1 DEF RightEnd, AtLastOfRoot
<1> QED
  BY <1>1, <1>2, <1>3, <1>4, PathLength

\* The exceptions marked TODO, vector::at and std::get never throw.
THEOREM NeverThrowsAlways == Spec => []NeverThrows
<1>1. IInv => NeverThrows
  <2> SUFFICES ASSUME IInv, Throws PROVE FALSE
    BY DEF NeverThrows
  <2>1. IsTree(ast)
    BY DEF IInv, TypeOK
  <2>2. ~AtNode
    BY <2>1, AtNodeDoesNotThrow DEF Throws
  <2>3. node = Null /\ pc = "idle" /\ index # <<>> /\ index = <<ast[Root]>>
    BY <2>2 DEF IInv, Coherent, AtNode, Throws
  <2>4. /\ ast[Root] \in Nat /\ index \in Path
        /\ Len(index) = 1 /\ ~(Len(index) > 1) /\ Back(index) = ast[Root]
    BY <2>1, <2>3, EndIsPath
  <2>5. ParentFound /\ ParentGroup = Root
    BY <2>3, <2>4, FirstLevel DEF ParentFound, ParentGroup
  <2>6. Back(index) - 1 < ast[ParentGroup]
    BY <2>4, <2>5
  <2> QED
    BY <2>3, <2>5, <2>6 DEF Throws, LeftThrows
<1> QED
  BY <1>1, Invariance, PTL

-----------------------------------------------------------------------------
(* The comparison of iterators                                             *)

\* A set of naturals that is not empty has a least element.
LEMMA Least ==
    ASSUME NEW S, S \subseteq Nat, S # {}
    PROVE  \E m \in S : \A k \in S : m <= k
<1>1. PICK m \in S : \A k \in S : ~(<<k, m>> \in OpToRel(<, Nat))
  BY NatLessThanWellFounded, WFMin
<1>2. \A k \in S : ~(k < m)
  BY <1>1 DEF OpToRel
<1> QED
  BY <1>2

\* The common loop of operator<=> is the order of the nodes: by the first index that
\* differs, and by length where none does.
LEMMA SpaceshipIsBefore ==
    ASSUME NEW p \in Path, NEW q \in Path, NEW pnull \in BOOLEAN, NEW qnull \in BOOLEAN,
           ~(pnull /\ qnull)
    PROVE  Spaceship(p, pnull, q, qnull) = IF p = q THEN 0 ELSE IF Before(p, q) THEN -1 ELSE 1
<1>1. PICK m \in Nat, n \in Nat : m = Len(p) /\ n = Len(q)
  BY DEF Path
<1>2. /\ \A k \in 1 .. m : p[k] \in Nat
      /\ \A k \in 1 .. n : q[k] \in Nat
  BY <1>1 DEF Path
<1>3. PICK common \in Nat : common = IF m < n THEN m ELSE n
  BY <1>1
<1>4. PICK differ : differ = {k \in 1 .. common : p[k] # q[k]}
  OBVIOUS
<1>5. PICK first : first = CHOOSE k \in differ : \A j \in differ : k <= j
  OBVIOUS
<1>6. Spaceship(p, pnull, q, qnull) =
          IF differ # {}
          THEN IF p[first] < q[first] THEN -1 ELSE IF p[first] > q[first] THEN 1 ELSE 0
          ELSE IF m < n THEN -1 ELSE IF m > n THEN 1 ELSE 0
  BY <1>1, <1>3, <1>4, <1>5 DEF Spaceship
<1>7. CASE differ = {}
  <2>1. \A k \in 1 .. m : k <= n => p[k] = q[k]
    BY <1>3, <1>4, <1>7
  <2>2. Before(p, q) <=> m < n
    <3>1. IsPrefixOf(p, q) <=> m <= n
      BY <1>1, <2>1 DEF IsPrefixOf
    <3>2. \A k \in 1 .. m : k <= n => ~(p[k] < q[k])
      BY <1>2, <2>1
    <3> QED
      BY <1>1, <3>1, <3>2 DEF Before
  <2>3. p = q <=> m = n
    <3>1. m = n => p = q
      <4>1. m = n => \A k \in 1 .. m : p[k] = q[k]
        BY <2>1
      <4> QED
        BY <1>1, <4>1, SeqEqual DEF Path
    <3> QED
      BY <1>1, <3>1
  <2> QED
    BY <1>1, <1>6, <1>7, <2>2, <2>3
<1>8. CASE differ # {}
  <2>1. differ \in SUBSET Nat
    BY <1>4
  <2>2. first \in differ /\ \A j \in differ : first <= j
    BY <1>5, <1>8, <2>1, Least
  <2>3. /\ first \in 1 .. m /\ first \in 1 .. n /\ p[first] # q[first]
        /\ p[first] \in Nat /\ q[first] \in Nat
    BY <1>2, <1>3, <1>4, <2>2
  <2>4. \A j \in 1 .. first - 1 : p[j] = q[j]
    <3> SUFFICES ASSUME NEW j \in 1 .. first - 1, p[j] # q[j] PROVE FALSE
      OBVIOUS
    <3>1. first \in 1 .. common
      BY <1>4, <2>2
    <3>2. j \in 1 .. common /\ ~(first <= j)
      BY <3>1, <1>3
    <3> QED
      BY <1>4, <2>2, <3>2
  <2>5. p # q
    BY <2>3
  <2>6. Before(p, q) <=> p[first] < q[first]
    <3>1. ~IsPrefixOf(p, q)
      BY <1>1, <2>3 DEF IsPrefixOf
    <3>2. ASSUME p[first] < q[first] PROVE Before(p, q)
      <4>1. first \in 1 .. Len(p) /\ first <= Len(q)
        BY <1>1, <2>3
      <4> QED
        BY <2>4, <3>2, <4>1 DEF Before
    <3>3. ASSUME NEW k \in 1 .. m, k <= n, p[k] < q[k], \A j \in 1 .. k - 1 : p[j] = q[j]
          PROVE  p[first] < q[first]
      <4>1. CASE k < first
        <5>1. k \in 1 .. first - 1
          BY <2>3, <4>1
        <5>2. p[k] = q[k] /\ p[k] \in Nat
          BY <1>2, <2>4, <5>1
        <5> QED
          BY <3>3, <5>2
      <4>2. CASE first < k
        <5>1. first \in 1 .. k - 1
          BY <2>3, <4>2
        <5> QED
          BY <2>3, <3>3, <5>1
      <4>3. CASE k = first
        BY <3>3, <4>3
      <4> QED
        BY <2>3, <4>1, <4>2, <4>3
    <3> QED
      BY <1>1, <3>1, <3>2, <3>3 DEF Before
  <2> QED
    BY <1>6, <1>8, <2>3, <2>5, <2>6
<1> QED
  BY <1>7, <1>8

\* The first index of a node is in range of the root's nodes.
LEMMA NodeBelowRoot ==
    ASSUME NEW t, IsTree(t), NEW p \in Nodes(t)
    PROVE  /\ p \in Path /\ Len(p) \in Nat /\ Len(p) >= 1
           /\ p[1] \in Nat /\ p[1] < t[Root] /\ t[Root] \in Nat
<1>1. PICK g \in DOMAIN t : \E i \in 0 .. t[g] - 1 : p = Append(g, i)
  BY DEF Nodes
<1>2. PICK i \in 0 .. t[g] - 1 : p = Append(g, i)
  BY <1>1
<1>3. g \in Path /\ t[g] \in Nat /\ AST_at(t, g) /\ t[Root] \in Nat
  BY DEF IsTree
<1>4. i \in Nat /\ i < t[g]
  BY <1>3
<1>5. p \in Path /\ Len(p) = Len(g) + 1 /\ Len(g) \in Nat
  BY <1>2, <1>3, <1>4, PathAppend DEF Path
<1>6. CASE Len(g) = 0
  <2>1. g = Root /\ p[1] = i
    BY <1>2, <1>3, <1>4, <1>6 DEF Path, Root
  <2> QED
    BY <1>3, <1>4, <1>5, <2>1
<1>7. CASE Len(g) # 0
  <2>1. 1 \in 1 .. Len(g) /\ p[1] = g[1] /\ g[1] \in Nat
    BY <1>2, <1>3, <1>4, <1>5, <1>7 DEF Path
  <2>2. SubSeq(g, 1, 1 - 1) = Root
    BY <1>3 DEF Path, Root
  <2>3. g[1] < t[Root]
    BY <1>3, <2>1, <2>2 DEF AST_at
  <2> QED
    BY <1>3, <1>5, <2>1, <2>3
<1> QED
  BY <1>6, <1>7

-----------------------------------------------------------------------------
(* The printer                                                             *)

\* The printer calls the iterator as any caller may.
LEMMA PrinterCalls ==
    /\ PInit => Init
    /\ [PNext]_pvars => [Next]_vars
<1>1. PInit => Init
  BY DEF PInit, Init
<1>2. ASSUME [PNext]_pvars PROVE [Next]_vars
  <2>1. CASE Start \/ Visit \/ Finish
    BY <2>1 DEF Start, Visit, Finish
  <2>2. CASE Advance
    BY <2>2 DEF Advance, Next, Step
  <2>3. CASE Use
    BY <2>3 DEF Use
  <2>4. CASE UNCHANGED pvars
    BY <2>4 DEF pvars
  <2> QED
    BY <1>2, <2>1, <2>2, <2>3, <2>4 DEF PNext, Printing
<1> QED
  BY <1>1, <1>2

\* At the end of the loop the iterator is at no node, and only there.
LEMMA AtEndIsNull ==
    ASSUME IInv
    PROVE  AtEnd <=> node = Null
<1>1. IsTree(ast) /\ index \in Path
  BY DEF IInv, TypeOK
<1>2. PICK end : end = <<ast[Root]>>
  OBVIOUS
<1>3. end \in Path /\ end[1] = ast[Root] /\ ast[Root] \in Nat
  BY <1>1, <1>2, EndIsPath
<1>4. CASE node = Null
  <2>1. Spaceship(index, node = Null, <<ast[Root]>>, TRUE) = 0
    BY <1>4, Zenon DEF Spaceship
  <2>2. AtEnd
    BY <2>1, Zenon DEF AtEnd
  <2> QED
    BY <1>4, <2>2, Zenon
<1>5. CASE node # Null
  <2>1. index \in Nodes(ast)
    BY <1>5 DEF IInv, Coherent
  <2>2. index # end
    BY <1>1, <1>3, <2>1, NodeBelowRoot
  <2>3. Spaceship(index, FALSE, end, TRUE) # 0
    <3>1. FALSE \in BOOLEAN /\ TRUE \in BOOLEAN /\ ~(FALSE /\ TRUE)
      OBVIOUS
    <3>2. Spaceship(index, FALSE, end, TRUE)
            = IF index = end THEN 0 ELSE IF Before(index, end) THEN -1 ELSE 1
      BY <1>1, <1>3, <3>1, SpaceshipIsBefore, Zenon
    <3>3. PICK c : c = Spaceship(index, FALSE, end, TRUE)
      BY Zenon
    <3>4. c = -1 \/ c = 1
      BY <2>2, <3>2, <3>3, Zenon
    <3>5. c # 0
      BY <3>4
    <3> QED
      BY <3>3, <3>5, Zenon
  <2>4. (node = Null) = FALSE
    BY <1>5
  <2>5. ~AtEnd
    BY <1>2, <2>3, <2>4, Zenon DEF AtEnd
  <2> QED
    BY <1>5, <2>5, Zenon
<1> QED
  BY <1>4, <1>5

Tokens ==
    {Space, Open, Close} \cup {Atom(p) : p \in Path} \cup {Header(p) : p \in Path}

\* How the steps of the printer and of the iterator that it moves follow one another.
PInv ==
    /\ headed \subseteq DOMAIN ast /\ out \in Seq(Tokens)
    /\ spacing \in Nat /\ stage \in Stages
    /\ stage = "start" => pc = "idle" /\ (node # Null => Len(index) = 1)
    /\ stage = "loop" => pc = "idle"
    /\ stage = "advance" => node # Null /\ pc \in {"idle", "right"}
    /\ SpacingIsDepth

LEMMA TokensFacts ==
    /\ {Space, Open, Close} \subseteq Tokens
    /\ \A p \in Path : Atom(p) \in Tokens /\ Header(p) \in Tokens
    /\ \A n \in Nat : Spaces(n) \in Seq(Tokens)
    /\ \A x \in Tokens : x.kind \in {"space", "open", "close", "atom", "header"}
<1>1. \A n \in Nat : Spaces(n) \in Seq(Tokens)
  BY DEF Spaces, Tokens
<1>2. \A x \in Tokens : x.kind \in {"space", "open", "close", "atom", "header"}
  BY DEF Tokens, Space, Open, Close, Atom, Header
<1> QED
  BY <1>1, <1>2 DEF Tokens

LEMMA InitPInv == PInit => PInv
<1> SUFFICES ASSUME PInit PROVE PInv
  OBVIOUS
<1>1. /\ headed \subseteq DOMAIN ast /\ out = <<>> /\ spacing = 0 /\ stage = "start"
      /\ node = (IF ast[Root] = 0 THEN Null ELSE <<0>>) /\ index = node /\ pc = "idle"
  BY DEF PInit
<1>2. node # Null => Len(index) = 1
  BY <1>1
<1> QED
  BY <1>1, <1>2 DEF PInv, SpacingIsDepth, Stages

\* The depth of the iterator after each of the steps of operator++.
LEMMA AdvanceDepth ==
    ASSUME IInv, Advance, node # Null, pc \in {"idle", "right"}
    PROVE  \/ /\ called' = "downwards" /\ node' # Null /\ Len(index') = Len(index) + 1
              /\ pc' = "idle"
           \/ /\ called' \in {"none", "right"} /\ node' # Null /\ Len(index') = Len(index)
              /\ pc' \in {"idle", "right"}
           \/ /\ called' = "none" /\ node' = Null /\ Len(index) = 1 /\ pc' = "idle"
           \/ /\ called' = "upwards" /\ node' # Null /\ Len(index') = Len(index) - 1
              /\ Len(index) > 1 /\ pc' = "right"
<1>1. IsTree(ast) /\ AtNode /\ index \in Path /\ UNCHANGED ast
  BY DEF IInv, TypeOK, Coherent, AtNode, Advance, Increment, IncrementRight
<1>2. Len(index) \in Nat /\ Len(index) # 0
  BY <1>1 DEF Path, AtNode, Null
<1>3. CASE pc = "idle"
  <2>1. Increment
    BY <1>3 DEF Advance
  <2>2. CASE traverse_downwards /\ UNCHANGED pc
    <3>1. node' # Null
      BY <1>1, <2>2, DownwardsKeepsNode
    <3>2. Len(index') = Len(index) + 1
      BY <1>1, <2>2 DEF traverse_downwards, Path
    <3> QED
      BY <1>3, <2>2, <3>1, <3>2 DEF traverse_downwards
  <2>3. CASE NoneCalled /\ pc' = "right"
    BY <2>3 DEF NoneCalled
  <2> QED
    BY <2>1, <2>2, <2>3 DEF Increment
<1>4. CASE pc = "right"
  <2>1. IncrementRight
    BY <1>4 DEF Advance
  <2>2. CASE traverse_right /\ pc' = "idle"
    <3>1. node' # Null
      BY <1>1, <2>2, RightKeepsNode
    <3>2. Len(index') = Len(index)
      BY <1>1, <2>2 DEF traverse_right, SetBack, Path
    <3> QED
      BY <2>2, <3>1, <3>2 DEF traverse_right
  <2>3. CASE AtLastOfRoot /\ SetEnd /\ pc' = "idle"
    BY <2>3 DEF SetEnd, AtLastOfRoot
  <2>4. CASE traverse_upwards /\ UNCHANGED pc
    <3>1. node' # Null
      BY <1>1, <2>4, UpwardsKeepsNode
    <3>2. Len(index) > 1 /\ Len(index') = Len(index) - 1
      BY <1>1, <1>2, <2>4, PathSplit DEF traverse_upwards, AtNode, Null
    <3> QED
      BY <1>4, <2>4, <3>1, <3>2 DEF traverse_upwards
  <2> QED
    BY <2>1, <2>2, <2>3, <2>4 DEF IncrementRight
<1> QED
  BY <1>3, <1>4

LEMMA AdvancePInv == ASSUME IInv, PInv, Advance PROVE PInv'
<1>1. /\ stage = "advance" /\ node # Null /\ pc \in {"idle", "right"}
      /\ RunCallback /\ UNCHANGED headed
      /\ stage' = IF pc' = "idle" THEN "loop" ELSE "advance"
      /\ UNCHANGED ast
  BY DEF Advance, PInv, Increment, IncrementRight
<1>2. /\ spacing = Top + Len(index) - 1 /\ spacing \in Nat /\ out \in Seq(Tokens)
      /\ Top \in {0, 1} /\ Top' = Top /\ Len(index) \in Nat
  BY <1>1 DEF PInv, SpacingIsDepth, Top, IInv, TypeOK, Path
<1>3. headed' \subseteq DOMAIN ast' /\ stage' \in Stages
  BY <1>1 DEF PInv, Stages
<1>4. CASE called' = "downwards" /\ node' # Null /\ Len(index') = Len(index) + 1 /\ pc' = "idle"
  <2>1. out' = out \o <<Open, Space>> /\ spacing' = spacing + 1
    BY <1>1, <1>4 DEF RunCallback, OnDownwards
  <2>2. out' \in Seq(Tokens)
    BY <1>2, <2>1, TokensFacts
  <2> QED
    BY <1>1, <1>2, <1>3, <1>4, <2>1, <2>2 DEF PInv, SpacingIsDepth
<1>5. CASE called' \in {"none", "right"} /\ node' # Null /\ Len(index') = Len(index) /\ pc' \in {"idle", "right"}
  <2>1. out' \in {out, Append(out, Space)} /\ spacing' = spacing
    BY <1>1, <1>5 DEF RunCallback, OnRight
  <2>2. out' \in Seq(Tokens)
    <3>1. PICK space \in Tokens : space = Space
      BY TokensFacts
    <3> QED
      BY <1>2, <2>1, <3>1
  <2> QED
    BY <1>1, <1>2, <1>3, <1>5, <2>1, <2>2 DEF PInv, SpacingIsDepth
<1>6. CASE called' = "none" /\ node' = Null /\ Len(index) = 1 /\ pc' = "idle"
  <2>1. out' = out /\ spacing' = spacing
    BY <1>1, <1>6 DEF RunCallback
  <2>2. spacing' = Top' /\ stage' = "loop"
    <3>1. stage' = "loop"
      BY <1>1, <1>6
    <3>2. PICK top \in Nat : top = Top /\ Top' = top
      BY <1>2
    <3>3. spacing = top + 1 - 1
      BY <1>2, <1>6, <3>2
    <3>4. spacing = top
      BY <3>3
    <3> QED
      BY <2>1, <3>1, <3>2, <3>4
  <2>3. spacing' \in Nat /\ out' \in Seq(Tokens)
    BY <1>2, <2>1
  <2> QED
    BY <1>1, <1>3, <1>6, <2>2, <2>3 DEF PInv, SpacingIsDepth
<1>7. CASE called' = "upwards" /\ node' # Null /\ Len(index') = Len(index) - 1 /\ Len(index) > 1 /\ pc' = "right"
  <2>1. out' = out \o <<Space>> \o Spaces(spacing - 1) \o <<Close>> /\ spacing' = spacing - 1
    BY <1>1, <1>7 DEF RunCallback, OnUpwards
  <2>2. spacing - 1 \in Nat
    BY <1>2, <1>7
  <2>3. out' \in Seq(Tokens)
    <3>1. PICK tabs \in Seq(Tokens) : tabs = Spaces(spacing - 1)
      BY <2>2, TokensFacts
    <3>2. Space \in Tokens /\ Close \in Tokens
      BY TokensFacts
    <3> QED
      BY <1>2, <2>1, <3>1, <3>2
  <2> QED
    BY <1>1, <1>2, <1>3, <1>7, <2>1, <2>2, <2>3 DEF PInv, SpacingIsDepth
<1> QED
  BY <1>1, <1>4, <1>5, <1>6, <1>7, AdvanceDepth

LEMMA NextPInv == IInv /\ PInv /\ [PNext]_pvars => PInv'
<1> SUFFICES ASSUME IInv, PInv, [PNext]_pvars PROVE PInv'
  OBVIOUS
<1>1. /\ headed \subseteq DOMAIN ast /\ out \in Seq(Tokens) /\ spacing \in Nat
      /\ IsTree(ast) /\ node \in Path /\ Top \in {0, 1}
  BY DEF PInv, IInv, TypeOK, Top
<1>2. CASE Start
  <2>1. stage = "start" /\ stage' = "loop" /\ UNCHANGED <<ast, node, index, called, pc, headed>>
    BY <1>2 DEF Start, vars
  <2>2. spacing = 0 /\ pc = "idle" /\ (node # Null => Len(index) = 1)
    BY <2>1 DEF PInv, SpacingIsDepth
  <2>3. CASE Root \in headed
    <3>1. out' = <<Header(Root), Space, Open, Space>> /\ spacing' = 1 /\ Top' = 1
      BY <1>2, <2>1, <2>2, <2>3 DEF Start, Top
    <3>2. Root \in Path
      BY DEF Root, Path
    <3>3. out' \in Seq(Tokens)
      BY <3>1, <3>2, TokensFacts
    <3> QED
      BY <1>1, <2>1, <2>2, <3>1, <3>3 DEF PInv, SpacingIsDepth, Stages
  <2>4. CASE Root \notin headed
    <3>1. out' = out /\ spacing' = 0 /\ Top' = 0
      BY <1>2, <2>1, <2>2, <2>4 DEF Start, Top
    <3> QED
      BY <1>1, <2>1, <2>2, <3>1 DEF PInv, SpacingIsDepth, Stages
  <2> QED
    BY <2>3, <2>4
<1>3. CASE Visit
  <2>1. /\ stage = "loop" /\ stage' = "advance"
        /\ UNCHANGED <<ast, node, index, called, pc, headed, spacing>> /\ ~AtEnd
    BY <1>3 DEF Visit, vars
  <2>2. node # Null /\ pc = "idle" /\ spacing = Top + Len(index) - 1 /\ Top' = Top
    BY <2>1, AtEndIsNull DEF PInv, SpacingIsDepth, Top
  <2>3. out' \in Seq(Tokens)
    <3>1. PICK more : /\ more \in {Append(Spaces(spacing), Atom(node)),
                                   Spaces(spacing) \o <<Header(node), Space>>, <<>>}
                      /\ out' = out \o more
      BY <1>3 DEF Visit
    <3>2. more \in Seq(Tokens)
      <4>1. PICK tabs \in Seq(Tokens), atom \in Tokens, header \in Tokens, space \in Tokens :
                tabs = Spaces(spacing) /\ atom = Atom(node) /\ header = Header(node) /\ space = Space
        BY <1>1, TokensFacts
      <4>2. more \in {Append(tabs, atom), tabs \o <<header, space>>, <<>>}
        BY <3>1, <4>1
      <4>3. Append(tabs, atom) \in Seq(Tokens)
        OBVIOUS
      <4>4. <<header, space>> \in Seq(Tokens)
        OBVIOUS
      <4>5. tabs \o <<header, space>> \in Seq(Tokens)
        BY <4>4
      <4>6. <<>> \in Seq(Tokens)
        OBVIOUS
      <4> QED
        BY <4>2, <4>3, <4>5, <4>6
    <3> QED
      BY <1>1, <3>1, <3>2
  <2> QED
    BY <1>1, <2>1, <2>2, <2>3 DEF PInv, SpacingIsDepth, Stages
<1>4. CASE Advance
  BY <1>4, AdvancePInv
<1>5. CASE Finish
  <2>1. /\ stage = "loop" /\ stage' = "done" /\ UNCHANGED <<ast, headed>> /\ AtEnd
    BY <1>5 DEF Finish, vars
  <2>2. node = Null /\ spacing = Top
    BY <2>1, AtEndIsNull DEF PInv, SpacingIsDepth
  <2>3. CASE Root \in headed
    <3>1. spacing = 1
      BY <2>2, <2>3 DEF Top
    <3>2. out' = out \o <<Space>> \o Spaces(0) \o <<Close>> /\ spacing' = 0
      BY <1>5, <2>3, <3>1 DEF Finish, OnUpwards
    <3>3. out' \in Seq(Tokens)
      BY <1>1, <3>2, TokensFacts
    <3> QED
      BY <1>1, <2>1, <3>2, <3>3 DEF PInv, SpacingIsDepth, Stages
  <2>4. CASE Root \notin headed
    <3>1. out' = out /\ spacing' = 0
      BY <1>5, <2>2, <2>4 DEF Finish, Top
    <3> QED
      BY <1>1, <2>1, <3>1 DEF PInv, SpacingIsDepth, Stages
  <2> QED
    BY <2>3, <2>4
<1>6. CASE Use
  <2>1. stage = "done" /\ UNCHANGED <<headed, out, spacing, stage>> /\ UNCHANGED ast
    BY <1>6
    DEF Use, Caller, printer, Next, to_begin, to_end, Increment, Decrement, Step,
        IncrementRight, DecrementDeep, DecrementDeepRight
  <2> QED
    BY <1>1, <2>1 DEF PInv, SpacingIsDepth, Stages
<1>7. CASE UNCHANGED pvars
  <2>1. UNCHANGED <<ast, node, index, called, pc, headed, out, spacing, stage>>
    BY <1>7 DEF pvars, vars, printer
  <2> QED
    BY <1>1, <2>1 DEF PInv, SpacingIsDepth, Top
<1> QED
  BY <1>2, <1>3, <1>4, <1>5, <1>6, <1>7 DEF PNext, Printing

LEMMA PrinterInvariance == PSpec => [](IInv /\ PInv)
<1>1. PInit => IInv /\ PInv
  BY InitPInv, InitIInv, PrinterCalls
<1>2. IInv /\ PInv /\ [PNext]_pvars => (IInv /\ PInv)'
  BY NextPInv, NextIInv, PrinterCalls
<1> QED
  BY <1>1, <1>2, PTL DEF PSpec

\* What the printer keeps has its type: the text is made of tokens, the indentation is
\* the length of a string.
THEOREM PrinterTypeCorrect == PSpec => []PTypeOK
<1>1. IInv /\ PInv => PTypeOK
  <2> SUFFICES ASSUME IInv, PInv PROVE PTypeOK
    OBVIOUS
  <2>1. \A i \in 1 .. Len(out) : out[i] \in Tokens
    BY DEF PInv
  <2>2. \A i \in 1 .. Len(out) : out[i].kind \in {"space", "open", "close", "atom", "header"}
    BY <2>1, TokensFacts
  <2> QED
    BY <2>2 DEF PTypeOK, PInv, IInv
<1> QED
  BY <1>1, PrinterInvariance, PTL

\* The indentation of operator std::string is the depth of the iterator at every callback,
\* whatever the expression: no callback shortens an empty string.
THEOREM SpacingIsDepthAlways == PSpec => []SpacingIsDepth
<1>1. PInv => SpacingIsDepth
  BY DEF PInv
<1> QED
  BY <1>1, PrinterInvariance, PTL

\* An iterator of a position is compared with one of any other node, and with end(), as
\* pre-order has them: in the middle of a call too.
THEOREM OrderIsPreorderAlways == PSpec => []OrderIsPreorder
<1>1. IInv => OrderIsPreorder
  <2> SUFFICES ASSUME IInv PROVE OrderIsPreorder
    OBVIOUS
  <2>1. PICK end, here : end = <<ast[Root]>> /\ here = IF node = Null THEN end ELSE node
    OBVIOUS
  <2>2. PICK nothing \in BOOLEAN : nothing <=> node = Null
    OBVIOUS
  <2>3. IsTree(ast) /\ index \in Path
    BY DEF IInv, TypeOK
  <2>4. end \in Path /\ Len(end) = 1 /\ end[1] = ast[Root] /\ ast[Root] \in Nat
    BY <2>1, <2>3, EndIsPath
  <2>5. \A q \in Nodes(ast) : q \in Path /\ q # end
    BY <2>3, <2>4, NodeBelowRoot
  <2>6. ASSUME NEW q \in Nodes(ast) \cup {end}
        PROVE  Spaceship(index, nothing, q, q = end)
                   = IF here = q THEN 0 ELSE IF Before(here, q) THEN -1 ELSE 1
    <3>1. PICK last \in BOOLEAN : last = (q = end)
      OBVIOUS
    <3>2. q \in Path
      BY <2>4, <2>5
    <3>3. CASE nothing /\ last
      <4>1. Spaceship(index, nothing, q, last) = 0
        BY <3>3 DEF Spaceship
      <4>2. here = q
        BY <2>1, <2>2, <3>1, <3>3
      <4> QED
        BY <3>1, <4>1, <4>2
    <3>4. CASE ~(nothing /\ last)
      <4>1. index = here
        <5>1. CASE ~nothing
          BY <2>1, <2>2, <5>1 DEF IInv, Coherent
        <5>2. CASE nothing
          <6>1. q \in Nodes(ast)
            BY <3>1, <3>4, <5>2
          <6>2. ast[Root] # 0
            BY <2>3, <2>4, <6>1, NodeBelowRoot
          <6> QED
            BY <2>1, <2>2, <5>2, <6>2 DEF IInv, Coherent
        <5> QED
          BY <5>1, <5>2
      <4>2. Spaceship(index, nothing, q, last) = IF index = q THEN 0 ELSE IF Before(index, q) THEN -1 ELSE 1
        BY <2>3, <3>2, <3>4, SpaceshipIsBefore
      <4> QED
        BY <3>1, <4>1, <4>2
    <3> QED
      BY <3>3, <3>4
  <2>7. nothing = (node = Null)
    BY <2>2
  <2> QED
    BY <2>1, <2>6, <2>7 DEF OrderIsPreorder
<1> QED
  BY <1>1, PrinterInvariance, PTL

-----------------------------------------------------------------------------
(* The order of paths                                                      *)

\* Two paths are one, or one leads on from the other, or they part at an index.
LEMMA PathsPart ==
    ASSUME NEW p \in Path, NEW q \in Path
    PROVE  \/ p = q
           \/ IsPrefixOf(p, q) /\ Len(p) < Len(q)
           \/ IsPrefixOf(q, p) /\ Len(q) < Len(p)
           \/ \E k \in 1 .. Len(p) : k <= Len(q) /\ p[k] # q[k] /\ \A j \in 1 .. k - 1 : p[j] = q[j]
<1>1. PICK m \in Nat, n \in Nat : m = Len(p) /\ n = Len(q)
  BY DEF Path
<1>2. PICK differ : differ = {k \in 1 .. m : k <= n /\ p[k] # q[k]}
  OBVIOUS
<1>3. CASE differ = {}
  <2>1. \A k \in 1 .. m : k <= n => p[k] = q[k]
    BY <1>2, <1>3
  <2>2. m <= n => IsPrefixOf(p, q)
    BY <1>1, <2>1 DEF IsPrefixOf
  <2>3. n <= m => IsPrefixOf(q, p)
    BY <1>1, <2>1 DEF IsPrefixOf
  <2>4. m = n => p = q
    <3>1. m = n => \A k \in 1 .. m : p[k] = q[k]
      BY <2>1
    <3> QED
      BY <1>1, <3>1, SeqEqual DEF Path
  <2> QED
    BY <1>1, <2>2, <2>3, <2>4
<1>4. CASE differ # {}
  <2>1. differ \subseteq Nat
    BY <1>2
  <2>2. PICK k \in differ : \A j \in differ : k <= j
    BY <1>4, <2>1, Least
  <2>3. k \in 1 .. m /\ k <= n /\ p[k] # q[k]
    BY <1>2
  <2>4. ASSUME NEW j \in 1 .. k - 1 PROVE p[j] = q[j]
    <3>1. j \in 1 .. m /\ j <= n /\ ~(k <= j)
      BY <1>1, <2>3
    <3> QED
      BY <1>2, <2>2, <3>1
  <2> QED
    BY <1>1, <2>3, <2>4
<1> QED
  BY <1>3, <1>4

\* Pre-order is strict.
LEMMA BeforeIsStrict ==
    ASSUME NEW p \in Path, NEW q \in Path, Before(p, q)
    PROVE  ~Before(q, p) /\ p # q
<1>1. PICK m \in Nat, n \in Nat : m = Len(p) /\ n = Len(q)
  BY DEF Path
<1>2. /\ \A k \in 1 .. m : p[k] \in Nat
      /\ \A k \in 1 .. n : q[k] \in Nat
  BY <1>1 DEF Path
<1>3. CASE m < n /\ \A k \in 1 .. m : p[k] = q[k]
  <2>1. ~IsPrefixOf(q, p)
    BY <1>1, <1>3 DEF IsPrefixOf
  <2>2. ASSUME NEW k \in 1 .. n, k <= m, q[k] < p[k] PROVE FALSE
    BY <1>2, <1>3, <2>2
  <2> QED
    BY <1>1, <1>3, <2>1, <2>2 DEF Before
<1>4. ASSUME NEW k \in 1 .. m, k <= n, p[k] < q[k], \A j \in 1 .. k - 1 : p[j] = q[j]
      PROVE  ~Before(q, p) /\ p # q
  <2>1. k \in 1 .. n /\ p[k] \in Nat /\ q[k] \in Nat
    BY <1>2, <1>4
  <2>2. ~IsPrefixOf(q, p)
    BY <1>1, <1>4, <2>1 DEF IsPrefixOf
  <2>3. ASSUME NEW i \in 1 .. n, i <= m, q[i] < p[i], \A j \in 1 .. i - 1 : q[j] = p[j]
        PROVE  FALSE
    <3>1. p[i] \in Nat /\ q[i] \in Nat
      BY <1>2, <2>3
    <3>2. ~(i < k)
      <4>1. i < k => i \in 1 .. k - 1
        OBVIOUS
      <4> QED
        BY <1>4, <2>3, <3>1, <4>1
    <3>3. ~(k < i)
      <4>1. k < i => k \in 1 .. i - 1
        OBVIOUS
      <4> QED
        BY <1>4, <2>1, <2>3, <4>1
    <3>4. i = k
      BY <3>2, <3>3
    <3> QED
      BY <1>4, <2>1, <2>3, <3>4
  <2> QED
    BY <1>1, <1>4, <2>1, <2>2, <2>3 DEF Before
<1> QED
  BY <1>1, <1>3, <1>4 DEF Before, IsPrefixOf

\* Where two paths part, the smaller index comes first.
LEMMA PartedIsBefore ==
    ASSUME NEW p \in Path, NEW q \in Path, NEW k \in 1 .. Len(p), k <= Len(q),
           p[k] < q[k], \A j \in 1 .. k - 1 : p[j] = q[j]
    PROVE  Before(p, q)
  BY DEF Before

\* Paths that agree up to an index lead through the same group.
LEMMA SameGroup ==
    ASSUME NEW p \in Path, NEW q \in Path, NEW k \in 1 .. Len(p), k <= Len(q),
           \A j \in 1 .. k - 1 : p[j] = q[j]
    PROVE  SubSeq(p, 1, k - 1) = SubSeq(q, 1, k - 1)
<1>1. PICK m \in Nat, n \in Nat : m = Len(p) /\ n = Len(q)
  BY DEF Path
<1>2. /\ \A j \in 1 .. m : p[j] \in Nat
      /\ \A j \in 1 .. n : q[j] \in Nat
  BY <1>1 DEF Path
<1>3. PICK l \in Nat : l = k - 1 /\ l < m /\ l < n
  BY <1>1
<1>4. PICK r, s : r = SubSeq(p, 1, l) /\ s = SubSeq(q, 1, l)
  OBVIOUS
<1>5. r \in Seq(Nat) /\ Len(r) = l /\ \A j \in 1 .. l : r[j] = p[j]
  <2>1. \A j \in 1 .. l : p[j] \in Nat
    BY <1>2, <1>3
  <2> QED
    BY <1>1, <1>3, <1>4, <2>1 DEF Path
<1>6. s \in Seq(Nat) /\ Len(s) = l /\ \A j \in 1 .. l : s[j] = q[j]
  <2>1. \A j \in 1 .. l : q[j] \in Nat
    BY <1>2, <1>3
  <2> QED
    BY <1>1, <1>3, <1>4, <2>1 DEF Path
<1>7. \A j \in 1 .. l : r[j] = s[j]
  BY <1>3, <1>5, <1>6
<1>8. r = s
  BY <1>5, <1>6, <1>7, SeqEqual
<1> QED
  BY <1>3, <1>4, <1>8

\* AST_at finds every node.
LEMMA NodeIsFound ==
    ASSUME NEW t, IsTree(t), NEW p \in Nodes(t), NEW k \in 1 .. Len(p)
    PROVE  /\ SubSeq(p, 1, k - 1) \in DOMAIN t
           /\ t[SubSeq(p, 1, k - 1)] \in Nat
           /\ p[k] \in Nat
           /\ p[k] < t[SubSeq(p, 1, k - 1)]
<1>1. /\ p \in Path /\ p # <<>> /\ PopBack(p) \in DOMAIN t
      /\ Back(p) < t[PopBack(p)]
  BY NodeIsChild
<1>2. PICK g : g = PopBack(p)
  OBVIOUS
<1>3. /\ g \in Path /\ Len(p) \in Nat /\ Len(g) = Len(p) - 1
      /\ \A j \in 1 .. Len(p) - 1 : g[j] = p[j]
  BY <1>1, <1>2, PathSplit
<1>4. p[k] \in Nat /\ \A h \in DOMAIN t : t[h] \in Nat
  BY <1>1, <1>3 DEF Path, IsTree
<1>5. CASE k = Len(p)
  BY <1>1, <1>4, <1>5 DEF PopBack, Back
<1>6. CASE k # Len(p)
  <2>1. k \in 1 .. Len(g) /\ k <= Len(p) /\ \A j \in 1 .. k - 1 : g[j] = p[j]
    BY <1>3, <1>6
  <2>2. SubSeq(g, 1, k - 1) = SubSeq(p, 1, k - 1) /\ g[k] = p[k]
    BY <1>1, <1>3, <2>1, SameGroup
  <2>3. SubSeq(g, 1, k - 1) \in DOMAIN t /\ g[k] < t[SubSeq(g, 1, k - 1)]
    BY <1>1, <1>2, <2>1 DEF IsTree, AST_at
  <2> QED
    BY <1>4, <2>2, <2>3
<1> QED
  BY <1>5, <1>6

-----------------------------------------------------------------------------
(* The node that pre-order visits last below a path                        *)

\* From p to q every index is that of a last child, and nothing hangs below q.
Closes(t, p, q) ==
    /\ q \in Nodes(t) /\ IsPrefixOf(p, q)
    /\ \A k \in 1 .. Len(q) : k > Len(p) => q[k] + 1 = t[SubSeq(q, 1, k - 1)]
    /\ ~(q \in DOMAIN t /\ t[q] # 0)

\* Such a node comes after all the others below p.
LEMMA ClosesIsLast ==
    ASSUME NEW t, IsTree(t), NEW p \in Path, NEW q, Closes(t, p, q),
           NEW r \in Nodes(t), IsPrefixOf(p, r), r # q
    PROVE  Before(r, q)
<1>1. q \in Nodes(t) /\ q \in Path /\ r \in Path
  BY NodeIsChild DEF Closes
<1>2. PICK l \in Nat, m \in Nat, n \in Nat : l = Len(p) /\ m = Len(r) /\ n = Len(q)
  BY <1>1 DEF Path
<1>3. CASE IsPrefixOf(r, q) /\ Len(r) < Len(q)
  BY <1>3 DEF Before
<1>4. CASE IsPrefixOf(q, r) /\ Len(q) < Len(r)
  <2>1. n + 1 \in 1 .. m /\ n + 1 \in 1 .. Len(r) /\ \A j \in 1 .. n : q[j] = r[j]
    BY <1>2, <1>4 DEF IsPrefixOf
  <2>2. PICK g : g = SubSeq(r, 1, n)
    OBVIOUS
  <2>3. n + 1 - 1 = n
    OBVIOUS
  <2>4. g \in DOMAIN t /\ t[g] \in Nat /\ r[n + 1] \in Nat /\ r[n + 1] < t[g]
    BY <2>1, <2>2, <2>3, NodeIsFound
  <2>5. g = q
    <3>1. \A j \in 1 .. n : r[j] \in Nat
      BY <1>1, <1>2, <2>1 DEF Path
    <3>2. g \in Seq(Nat) /\ Len(g) = n /\ \A j \in 1 .. n : g[j] = r[j]
      BY <1>1, <2>2, <3>1 DEF Path
    <3>3. \A j \in 1 .. n : g[j] = q[j]
      BY <2>1, <3>2
    <3> QED
      BY <1>1, <1>2, <3>2, <3>3, SeqEqual DEF Path
  <2> QED
    BY <2>4, <2>5 DEF Closes
<1>5. ASSUME NEW k \in 1 .. Len(r), k <= Len(q), r[k] # q[k], \A j \in 1 .. k - 1 : r[j] = q[j]
      PROVE  Before(r, q)
  <2>1. k \in 1 .. Len(q) /\ k \in 1 .. m /\ k <= n
    BY <1>2, <1>5
  <2>2. ~(k <= l)
    <3>1. k <= l => p[k] = r[k] /\ p[k] = q[k]
      BY <1>2, <2>1 DEF IsPrefixOf, Closes
    <3> QED
      BY <1>5, <3>1
  <2>3. PICK g : g = SubSeq(q, 1, k - 1)
    OBVIOUS
  <2>4. q[k] + 1 = t[g] /\ q[k] \in Nat
    BY <1>1, <1>2, <2>1, <2>2, <2>3, NodeIsFound DEF Closes
  <2>5. SubSeq(r, 1, k - 1) = g
    BY <1>1, <1>5, <2>3, SameGroup
  <2>6. r[k] \in Nat /\ r[k] < t[g]
    BY <2>5, NodeIsFound
  <2>7. r[k] < q[k]
    BY <1>5, <2>4, <2>6
  <2> QED
    BY <1>1, <1>5, <2>7, PartedIsBefore
<1> QED
  BY <1>1, <1>3, <1>4, <1>5, PathsPart

\* A node that closes p is the one the model chooses.
LEMMA ClosesIsDeepest ==
    ASSUME NEW t, IsTree(t), NEW p \in Path, NEW q, Closes(t, p, q)
    PROVE  Deepest(t, p) = q
<1>1. PICK below : below = {r \in Nodes(t) : IsPrefixOf(p, r)}
  OBVIOUS
<1>2. q \in below /\ \A r \in below \ {q} : Before(r, q)
  BY <1>1, ClosesIsLast DEF Closes
<1>3. ASSUME NEW s \in below, \A r \in below \ {s} : Before(r, s)
      PROVE  s = q
  <2>1. s \in Path /\ q \in Path
    BY <1>1, <1>2, NodeIsChild
  <2> QED
    BY <1>2, <1>3, <2>1, BeforeIsStrict
<1>4. Deepest(t, p) = CHOOSE s \in below : \A r \in below \ {s} : Before(r, s)
  BY <1>1 DEF Deepest
<1> QED
  BY <1>2, <1>3, <1>4

\* What closes the last child of a group closes the group.
LEMMA ClosesGroup ==
    ASSUME NEW t, IsTree(t), NEW g \in DOMAIN t, NEW i \in Nat, t[g] = i + 1,
           NEW q, Closes(t, Append(g, i), q)
    PROVE  Closes(t, g, q)
<1>1. g \in Path /\ q \in Path
  BY NodeIsChild DEF IsTree, Closes
<1>2. PICK p : p = Append(g, i)
  OBVIOUS
<1>3. PICK m \in Nat, n \in Nat : m = Len(g) /\ n = Len(q)
  BY <1>1 DEF Path
<1>4. /\ p \in Path /\ Len(p) = m + 1 /\ p[m + 1] = i
      /\ \A k \in 1 .. m : p[k] = g[k]
  BY <1>1, <1>2, <1>3, PathAppend
<1>5. m + 1 <= n /\ \A k \in 1 .. m + 1 : p[k] = q[k]
  BY <1>2, <1>3, <1>4 DEF Closes, IsPrefixOf
<1>6. IsPrefixOf(g, q)
  BY <1>3, <1>4, <1>5 DEF IsPrefixOf
<1>7. q[m + 1] + 1 = t[SubSeq(q, 1, m)]
  <2>1. m + 1 \in 1 .. Len(p) /\ m + 1 <= Len(q) /\ \A j \in 1 .. (m + 1) - 1 : p[j] = q[j]
    BY <1>3, <1>4, <1>5
  <2>2. SubSeq(p, 1, (m + 1) - 1) = SubSeq(q, 1, (m + 1) - 1)
    BY <1>1, <1>4, <2>1, SameGroup
  <2>3. (m + 1) - 1 = m
    OBVIOUS
  <2>4. SubSeq(p, 1, m) = g
    BY <1>1, <1>2, <1>3, <1>4, <2>3, PathAppend DEF PopBack
  <2>5. SubSeq(q, 1, m) = g
    BY <2>2, <2>3, <2>4
  <2>6. m + 1 \in 1 .. m + 1
    OBVIOUS
  <2>7. q[m + 1] = i
    BY <1>4, <1>5, <2>6
  <2> QED
    BY <2>5, <2>7
<1>8. ASSUME NEW k \in 1 .. Len(q), k > Len(g)
      PROVE  q[k] + 1 = t[SubSeq(q, 1, k - 1)]
  <2>1. CASE k = m + 1
    <3>1. k - 1 = m
      BY <2>1
    <3> QED
      BY <1>7, <2>1, <3>1
  <2>2. CASE k # m + 1
    <3>1. k > Len(p)
      BY <1>3, <1>4, <1>8, <2>2
    <3> QED
      BY <1>2, <3>1 DEF Closes
  <2> QED
    BY <2>1, <2>2
<1> QED
  BY <1>6, <1>8 DEF Closes

\* A node without children closes itself.
LEMMA ClosesItself ==
    ASSUME NEW t, IsTree(t), NEW p \in Nodes(t), ~(p \in DOMAIN t /\ t[p] # 0)
    PROVE  Closes(t, p, p)
<1>1. p \in Path
  BY NodeIsChild
<1>2. PICK n \in Nat : n = Len(p)
  BY <1>1 DEF Path
<1> QED
  BY <1>2 DEF Closes, IsPrefixOf

\* The groups of a tree, which are finitely many, are of bounded depth.
LEMMA DepthIsBounded ==
    ASSUME NEW S, IsFiniteSet(S), S \subseteq Path
    PROVE  \E b \in Nat : \A p \in S : Len(p) <= b
<1>1. PICK seq \in Seq(S) : \A p \in S : \E j \in 1 .. Len(seq) : seq[j] = p
  BY DEF IsFiniteSet
<1>2. PICK n \in Nat : n = Len(seq)
  OBVIOUS
<1>3. \A j \in 1 .. n : Len(seq[j]) \in Nat
  BY <1>2 DEF Path
<1> DEFINE Bounds(m, b) == \A j \in 1 .. m : Len(seq[j]) <= b
           Bad == {m \in 0 .. n : ~\E b \in Nat : Bounds(m, b)}
<1>4. ASSUME Bad # {} PROVE FALSE
  <2>1. Bad \subseteq Nat
    OBVIOUS
  <2>2. PICK m \in Bad : \A k \in Bad : m <= k
    BY <1>4, <2>1, Least
  <2>3. m # 0
    <3>1. Bounds(0, 0)
      OBVIOUS
    <3> QED
      BY <3>1
  <2>4. m - 1 \in 0 .. n /\ ~(m <= m - 1) /\ m \in 1 .. n
    BY <2>3
  <2>5. PICK b \in Nat : Bounds(m - 1, b)
    BY <2>2, <2>4
  <2>6. PICK l \in Nat : l = Len(seq[m])
    BY <1>3, <2>4
  <2>7. PICK c \in Nat : c = IF b < l THEN l ELSE b
    OBVIOUS
  <2>8. ASSUME NEW j \in 1 .. m PROVE Len(seq[j]) <= c
    <3>0. m \in Int /\ l <= c /\ b <= c
      BY <2>4, <2>7
    <3>1. CASE j = m
      BY <2>6, <3>0, <3>1
    <3>2. CASE j # m
      <4>1. j \in 1 .. m - 1
        BY <3>0, <3>2
      <4>2. j \in 1 .. n
        BY <2>4
      <4>3. PICK x \in Nat : x = Len(seq[j]) /\ x <= b
        BY <1>3, <2>5, <4>1, <4>2
      <4> HIDE DEF Bad
      <4>4. x <= c
        BY <3>0, <4>3
      <4> QED
        BY <4>3, <4>4
    <3> QED
      BY <3>1, <3>2
  <2>9. Bounds(m, c)
    BY <2>8
  <2> QED
    BY <2>9
<1>5. n \in 0 .. n
  BY <1>2
<1>6. PICK b \in Nat : Bounds(n, b)
  BY <1>4, <1>5
<1> QED
  BY <1>1, <1>2, <1>6

\* Every node has one that closes it.
LEMMA SomeNodeCloses ==
    ASSUME NEW t, IsTree(t), NEW p \in Nodes(t)
    PROVE  \E q : Closes(t, p, q)
<1>1. p \in Path /\ Len(p) \in Nat
  BY NodeIsChild DEF Path
<1>2. PICK b \in Nat : \A g \in DOMAIN t : Len(g) <= b
  BY DepthIsBounded DEF IsTree
<1>3. \A q \in Nodes(t) : Len(q) \in Nat /\ b + 1 - Len(q) \in Nat
  <2> SUFFICES ASSUME NEW q \in Nodes(t) PROVE Len(q) \in Nat /\ b + 1 - Len(q) \in Nat
    OBVIOUS
  <2>1. q \in Path /\ q # <<>> /\ PopBack(q) \in DOMAIN t
    BY NodeIsChild
  <2>2. Len(PopBack(q)) <= b /\ Len(PopBack(q)) = Len(q) - 1 /\ Len(q) \in Nat
    BY <1>2, <2>1, PathSplit
  <2> QED
    BY <2>2
<1> DEFINE Chain == {q \in Nodes(t) :
                        /\ IsPrefixOf(p, q)
                        /\ \A k \in 1 .. Len(q) :
                              k > Len(p) => q[k] + 1 = t[SubSeq(q, 1, k - 1)]}
           Rest == {b + 1 - Len(q) : q \in Chain}
<1>4. p \in Chain
  BY <1>1 DEF IsPrefixOf
<1>5. PICK q \in Chain : \A r \in Chain : b + 1 - Len(q) <= b + 1 - Len(r)
  <2>1. Rest \subseteq Nat /\ Rest # {}
    BY <1>3, <1>4
  <2> HIDE DEF Rest
  <2>2. PICK least \in Rest : \A k \in Rest : least <= k
    BY <2>1, Least
  <2> USE DEF Rest
  <2> QED
    BY <2>2
<1>6. ~(q \in DOMAIN t /\ t[q] # 0)
  <2> SUFFICES ASSUME q \in DOMAIN t, t[q] # 0 PROVE FALSE
    OBVIOUS
  <2>1. q \in Path /\ t[q] \in Nat
    BY DEF IsTree
  <2>2. PICK i \in Nat : t[q] = i + 1
    <3>1. t[q] - 1 \in Nat /\ t[q] = (t[q] - 1) + 1
      BY <2>1
    <3> QED
      BY <3>1
  <2>3. PICK r : r = Append(q, i)
    OBVIOUS
  <2>4. PICK l \in Nat, m \in Nat : l = Len(p) /\ m = Len(q)
    BY <1>1, <1>3
  <2>5. /\ r \in Path /\ Len(r) = m + 1 /\ r[m + 1] = i
        /\ \A k \in 1 .. m : r[k] = q[k]
        /\ PopBack(r) = q
    BY <2>1, <2>3, <2>4, PathAppend
  <2>6. r \in Nodes(t)
    BY <2>2, <2>3, ChildIsNode
  <2>7. IsPrefixOf(p, r)
    <3>1. l <= m /\ \A k \in 1 .. l : p[k] = q[k]
      BY <2>4 DEF IsPrefixOf
    <3> QED
      BY <2>4, <2>5, <3>1 DEF IsPrefixOf
  <2>8. ASSUME NEW k \in 1 .. Len(r), k > Len(p)
        PROVE  r[k] + 1 = t[SubSeq(r, 1, k - 1)]
    <3>1. CASE k = m + 1
      <4>1. k - 1 = Len(r) - 1
        BY <2>5, <3>1
      <4>2. SubSeq(r, 1, k - 1) = q
        BY <2>5, <4>1 DEF PopBack
      <4> QED
        BY <2>2, <2>5, <3>1, <4>2
    <3>2. CASE k # m + 1
      <4>1. k \in 1 .. m /\ k \in 1 .. Len(q) /\ k \in 1 .. Len(r) /\ k <= Len(q)
        BY <2>4, <2>5, <3>2
      <4>2. r[k] = q[k] /\ \A j \in 1 .. k - 1 : r[j] = q[j]
        BY <2>4, <2>5, <4>1
      <4>3. SubSeq(r, 1, k - 1) = SubSeq(q, 1, k - 1)
        BY <2>1, <2>5, <4>1, <4>2, SameGroup
      <4>4. q[k] + 1 = t[SubSeq(q, 1, k - 1)]
        BY <2>8, <4>1
      <4> QED
        BY <4>2, <4>3, <4>4
    <3> QED
      BY <3>1, <3>2
  <2>9. r \in Chain
    BY <2>6, <2>7, <2>8
  <2>10. b + 1 - m <= b + 1 - (m + 1)
    <3>1. b + 1 - Len(q) <= b + 1 - Len(r)
      BY <1>5, <2>9
    <3> QED
      BY <2>4, <2>5, <3>1
  <2> QED
    BY <2>10
<1> QED
  BY <1>6 DEF Closes

\* So the node that Deepest chooses is there, and it closes its node.
LEMMA DeepestCloses ==
    ASSUME NEW t, IsTree(t), NEW p \in Nodes(t)
    PROVE  Closes(t, p, Deepest(t, p))
<1>1. PICK q : Closes(t, p, q)
  BY SomeNodeCloses
<1>2. p \in Path
  BY NodeIsChild
<1>3. Deepest(t, p) = q
  BY <1>1, <1>2, ClosesIsDeepest
<1> QED
  BY <1>1, <1>3

-----------------------------------------------------------------------------
(* Neighbours in pre-order                                                 *)

Neighbours(t, p, q) ==
    Before(p, q) /\ \A r \in Nodes(t) : ~(Before(p, r) /\ Before(r, q))

\* A group is followed by its first child.
LEMMA FirstChildIsNext ==
    ASSUME NEW t, IsTree(t), NEW g \in Path
    PROVE  Neighbours(t, g, Append(g, 0))
<1>1. PICK q : q = Append(g, 0)
  OBVIOUS
<1>2. PICK n \in Nat : n = Len(g)
  BY DEF Path
<1>3. /\ q \in Path /\ Len(q) = n + 1 /\ q[n + 1] = 0
      /\ \A k \in 1 .. n : q[k] = g[k]
  BY <1>1, <1>2, PathAppend
<1>4. Before(g, q)
  BY <1>2, <1>3 DEF Before, IsPrefixOf
<1>5. ASSUME NEW r \in Nodes(t), Before(g, r), Before(r, q)
      PROVE  FALSE
  <2>1. r \in Path
    BY NodeIsChild
  <2>2. PICK m \in Nat : m = Len(r)
    BY <2>1 DEF Path
  <2>3. ~Before(r, g) /\ r # g
    BY <1>5, <2>1, BeforeIsStrict
  <2>4. CASE m < n + 1 /\ \A k \in 1 .. m : r[k] = q[k]
    <3>1. \A k \in 1 .. m : r[k] = g[k]
      BY <1>3, <2>4
    <3>2. m = n => r = g
      BY <1>2, <2>1, <2>2, <3>1, SeqEqual DEF Path
    <3>3. m < n
      BY <2>3, <2>4, <3>2
    <3>4. Before(r, g)
      BY <1>2, <2>2, <3>1, <3>3 DEF Before, IsPrefixOf
    <3> QED
      BY <2>3, <3>4
  <2>5. ASSUME NEW k \in 1 .. m, k <= n + 1, r[k] < q[k], \A j \in 1 .. k - 1 : r[j] = q[j]
        PROVE  FALSE
    <3>1. k # n + 1
      <4>1. r[k] \in Nat
        BY <2>1, <2>2 DEF Path
      <4> QED
        BY <1>3, <2>5, <4>1
    <3>2. k \in 1 .. Len(r) /\ k <= Len(g) /\ r[k] < g[k] /\ \A j \in 1 .. k - 1 : r[j] = g[j]
      BY <1>2, <1>3, <2>2, <2>5, <3>1
    <3> QED
      BY <2>1, <2>3, <3>2, PartedIsBefore
  <2> QED
    BY <1>3, <1>5, <2>2, <2>4, <2>5 DEF Before, IsPrefixOf
<1> QED
  BY <1>1, <1>4, <1>5 DEF Neighbours

\* What closes a node is followed by the node's next sibling, or by the end.
LEMMA SiblingIsNext ==
    ASSUME NEW t, IsTree(t), NEW p \in Nodes(t), NEW d, Closes(t, p, d)
    PROVE  Neighbours(t, d, Append(PopBack(p), Back(p) + 1))
<1>1. PICK q : q = Append(PopBack(p), Back(p) + 1)
  OBVIOUS
<1>2. p \in Path /\ p # <<>> /\ d \in Nodes(t) /\ d \in Path
  BY NodeIsChild DEF Closes
<1>3. PICK n \in Nat : n = Len(p) /\ n >= 1
  BY <1>2, PathSplit
<1>4. /\ PopBack(p) \in Path /\ Len(PopBack(p)) = n - 1 /\ Back(p) \in Nat /\ Back(p) = p[n]
      /\ \A k \in 1 .. n - 1 : PopBack(p)[k] = p[k]
  BY <1>2, <1>3, PathSplit DEF Back
<1>5. /\ q \in Path /\ Len(q) = n /\ q[n] = p[n] + 1 /\ p[n] \in Nat
      /\ \A k \in 1 .. n - 1 : q[k] = p[k]
  <2>1. Back(p) + 1 \in Nat /\ (n - 1) + 1 = n
    BY <1>4
  <2> QED
    BY <1>1, <1>4, <2>1, PathAppend
<1>6. PICK l \in Nat : l = Len(d) /\ n <= l /\ \A k \in 1 .. n : p[k] = d[k]
  BY <1>2, <1>3 DEF Closes, IsPrefixOf, Path
<1>7. Before(d, q)
  <2>1. n \in 1 .. Len(d) /\ n <= Len(q) /\ d[n] < q[n] /\ \A j \in 1 .. n - 1 : d[j] = q[j]
    BY <1>3, <1>5, <1>6
  <2> QED
    BY <1>2, <1>5, <2>1, PartedIsBefore
<1>8. ASSUME NEW r \in Nodes(t), Before(d, r), Before(r, q)
      PROVE  FALSE
  <2>1. r \in Path
    BY NodeIsChild
  <2>2. ~Before(r, d) /\ r # d /\ ~Before(q, r) /\ q # r
    BY <1>2, <1>5, <1>8, <2>1, BeforeIsStrict
  <2>3. ~IsPrefixOf(p, r)
    BY <1>2, <2>2, ClosesIsLast
  <2>4. PICK m \in Nat : m = Len(r)
    BY <2>1 DEF Path
  <2>5. \A k \in 1 .. m : r[k] \in Nat
    BY <2>1, <2>4 DEF Path
  <2>6. ~(IsPrefixOf(d, r) /\ Len(d) < Len(r))
    <3>1. IsPrefixOf(d, r) => IsPrefixOf(p, r)
      BY <1>3, <1>6, <2>4 DEF IsPrefixOf
    <3> QED
      BY <2>3, <3>1
  <2>7. PICK k \in 1 .. l : k <= m /\ d[k] < r[k] /\ \A j \in 1 .. k - 1 : d[j] = r[j]
    BY <1>6, <1>8, <2>4, <2>6 DEF Before
  <2>8. k <= n
    <3>1. k > n => \A j \in 1 .. n : j \in 1 .. k - 1 /\ p[j] = r[j]
      BY <1>6, <2>7
    <3>2. k > n => IsPrefixOf(p, r)
      BY <1>3, <2>4, <2>7, <3>1 DEF IsPrefixOf
    <3> QED
      BY <2>3, <2>7, <3>2
  <2>9. r[k] \in Nat /\ p[k] = d[k] /\ k \in 1 .. n
    BY <1>6, <2>5, <2>7, <2>8
  <2>10. \A j \in 1 .. k - 1 : q[j] = r[j]
    <3> SUFFICES ASSUME NEW j \in 1 .. k - 1 PROVE q[j] = r[j]
      OBVIOUS
    <3>1. j \in 1 .. n - 1 /\ j \in 1 .. n
      BY <2>9
    <3> QED
      BY <1>5, <1>6, <2>7, <3>1
  <2>11. CASE k < n
    <3>1. k \in 1 .. n - 1
      BY <2>9, <2>11
    <3>2. q[k] < r[k]
      BY <1>5, <2>7, <2>9, <3>1
    <3>3. k \in 1 .. Len(q) /\ k <= Len(r)
      BY <1>5, <2>4, <2>7, <2>9
    <3>4. Before(q, r)
      BY <1>5, <2>1, <2>10, <3>2, <3>3, PartedIsBefore
    <3> QED
      BY <2>2, <3>4
  <2>12. CASE k = n
    <3>1. q[n] <= r[n] /\ r[n] \in Nat /\ q[n] \in Nat
      BY <1>5, <2>7, <2>9, <2>12
    <3>2. CASE q[n] < r[n]
      <4>1. n \in 1 .. Len(q) /\ n <= Len(r)
        BY <1>3, <1>5, <2>4, <2>7, <2>12
      <4>2. Before(q, r)
        BY <1>5, <2>1, <2>10, <2>12, <3>2, <4>1, PartedIsBefore
      <4> QED
        BY <2>2, <4>2
    <3>3. CASE q[n] = r[n]
      <4>1. \A j \in 1 .. n : j \in 1 .. k - 1 \/ j = n
        BY <2>12
      <4>2. \A j \in 1 .. n : q[j] = r[j]
        BY <2>10, <3>3, <4>1
      <4>3. IsPrefixOf(q, r)
        BY <1>5, <2>4, <2>7, <2>12, <4>2 DEF IsPrefixOf
      <4>4. n = m => q = r
        BY <1>5, <2>1, <2>4, <4>2, SeqEqual DEF Path
      <4>5. n < m
        BY <2>2, <2>7, <2>12, <4>4
      <4>6. Before(q, r)
        BY <1>5, <2>4, <4>3, <4>5 DEF Before
      <4> QED
        BY <2>2, <4>6
    <3> QED
      BY <3>1, <3>2, <3>3
  <2> QED
    BY <2>8, <2>9, <2>11, <2>12
<1> QED
  BY <1>1, <1>7, <1>8 DEF Neighbours

-----------------------------------------------------------------------------
(* The iterator implements the cursor                                      *)

Ending == <<ast[Root]>>

\* The cursor speaks of the same trees and of the same order.
LEMMA SameTrees ==
    /\ \A p, q : Cursor!Adjacent(p, q) <=> Neighbours(ast, p, q)
    /\ Cursor!Nodes(ast) = Nodes(ast)
    /\ \A p : Cursor!IsFirst(p) <=> \A r \in Nodes(ast) : ~Before(r, p)
    /\ Cursor!End = Ending
<1>1. Cursor!Nodes(ast) = Nodes(ast)
  BY Zenon DEF Cursor!Nodes, Nodes
<1>2. \A p, q : Cursor!Before(p, q) <=> Before(p, q)
  BY Zenon DEF Cursor!Before, Before, Cursor!IsPrefixOf, IsPrefixOf
<1>3. \A p, q : Cursor!Adjacent(p, q) <=> Neighbours(ast, p, q)
  BY <1>1, <1>2, Zenon DEF Cursor!Adjacent, Neighbours
<1>4. \A p : Cursor!IsFirst(p) <=> \A r \in Nodes(ast) : ~Before(r, p)
  BY <1>1, <1>2, Zenon DEF Cursor!IsFirst
<1>5. Cursor!End = Ending
  BY Zenon DEF Cursor!End, Ending, Cursor!Root, Root
<1> QED
  BY <1>1, <1>3, <1>4, <1>5, Zenon

\* Where an iterator that points at a node stands for the cursor.
LEMMA PositionAtNode ==
    ASSUME IsTree(ast), AtNode, node # Null
    PROVE  /\ pc = "idle" => Position = node
           /\ pc \in {"right", "deep"} => Closes(ast, node, Position)
           /\ pc = "deepright" => Position = Deepest(ast, PopBack(node))
<1>1. node \in Nodes(ast)
  BY DEF AtNode
<1>2. Closes(ast, node, Deepest(ast, node))
  BY <1>1, DeepestCloses
<1> QED
  BY <1>2 DEF Position

\* The end is no node.
LEMMA EndingIsNoNode ==
    ASSUME IsTree(ast)
    PROVE  Ending \notin Nodes(ast) /\ Ending \in Path
<1>1. Ending \in Path /\ Ending[1] = ast[Root] /\ ast[Root] \in Nat
  BY EndIsPath DEF Ending
<1> QED
  BY <1>1, NodeBelowRoot

\* The first node of an expression comes before all the others.
LEMMA FirstIsFirst ==
    ASSUME IsTree(ast), NEW r \in Nodes(ast)
    PROVE  ~Before(r, <<0>>)
<1>1. r \in Path /\ Len(r) \in Nat /\ Len(r) >= 1 /\ r[1] \in Nat
  BY NodeBelowRoot
<1>2. PICK p : p = <<0>>
  OBVIOUS
<1>3. Len(p) = 1 /\ p[1] = 0
  BY <1>2
<1>4. ~Before(r, p)
  BY <1>1, <1>3 DEF Before
<1> QED
  BY <1>2, <1>4

\* A step to the neighbour, either way, or to an end is one of the cursor's.
LEMMA CursorSteps ==
    ASSUME IsTree(ast), UNCHANGED ast,
           \/ /\ Position \in Nodes(ast) /\ Position' \in Nodes(ast) \cup {Ending}
              /\ Neighbours(ast, Position, Position')
           \/ /\ Position' \in Nodes(ast)
              /\ Neighbours(ast, Position', Position)
           \/ Position' = Ending
           \/ Position' \in Nodes(ast) /\ Position' = Append(Root, 0)
           \/ Position' = Position
    PROVE  [Cursor!Next]_<<ast, Position>>
<1>1. CASE Position \in Nodes(ast) /\ Position' \in Nodes(ast) \cup {Ending} /\ Neighbours(ast, Position, Position')
  <2>1. Position # Ending
    BY <1>1, EndingIsNoNode
  <2>2. Cursor!Forward
    BY <1>1, <2>1, SameTrees, Zenon DEF Cursor!Forward
  <2> QED
    BY <2>2, Zenon DEF Cursor!Next
<1>2. CASE Position' \in Nodes(ast) /\ Neighbours(ast, Position', Position)
  <2>1. Cursor!Backward
    BY <1>2, SameTrees, Zenon DEF Cursor!Backward
  <2> QED
    BY <2>1, Zenon DEF Cursor!Next
<1>3. CASE Position' = Ending
  <2>1. Cursor!Rewind
    BY <1>3, SameTrees, Zenon DEF Cursor!Rewind
  <2> QED
    BY <2>1, Zenon DEF Cursor!Next
<1>4. CASE Position' \in Nodes(ast) /\ Position' = Append(Root, 0)
  <2>0. Append(Root, 0) = <<0>>
    BY DEF Root
  <2>1. \A r \in Nodes(ast) : ~Before(r, Position')
    BY <1>4, <2>0, FirstIsFirst
  <2>2. Cursor!IsFirst(Position')
    BY <2>1, SameTrees, Zenon
  <2>3. Cursor!Rewind
    BY <1>4, <2>2, SameTrees, Zenon DEF Cursor!Rewind
  <2> QED
    BY <2>3, Zenon DEF Cursor!Next
<1>5. CASE Position' = Position
  BY <1>5
<1> QED
  BY <1>1, <1>2, <1>3, <1>4, <1>5

\* The loops of both operators end at the last node of a group.
LEMMA RightEndIsLast ==
    ASSUME IsTree(ast), AtNode, RightEnd
    PROVE  /\ PopBack(node) \in DOMAIN ast /\ Back(node) \in Nat
           /\ ast[PopBack(node)] = Back(node) + 1
           /\ node = Append(PopBack(node), Back(node))
<1>1. /\ index \in Path /\ index # <<>> /\ node = index
      /\ ParentGroup = PopBack(index) /\ ParentGroup \in DOMAIN ast
      /\ ast[ParentGroup] \in Nat /\ Back(index) \in Nat
      /\ Back(index) < ast[ParentGroup]
  BY ParentIsFound DEF AtNode
<1>2. AtLast(Back(index), ast[ParentGroup])
  <2>1. CASE AtLastOfRoot
    <3>1. PopBack(index) = Root /\ Back(index) = index[1]
      BY <1>1, <2>1, FirstLevel DEF AtLastOfRoot
    <3> QED
      BY <1>1, <2>1, <3>1 DEF AtLastOfRoot
  <2> QED
    BY <2>1 DEF RightEnd
<1>3. ast[ParentGroup] = Back(index) + 1
  BY <1>1, <1>2 DEF AtLast
<1>4. index = Append(PopBack(index), Back(index))
  BY <1>1, PathSplit
<1> QED
  BY <1>1, <1>3, <1>4

\* The step after the last node of a group goes up: the same node closes both.
LEMMA UpwardsCloses ==
    ASSUME IsTree(ast), AtNode, RightEnd, NEW d, Closes(ast, node, d)
    PROVE  Closes(ast, PopBack(node), d)
  BY RightEndIsLast, ClosesGroup

\* Every traversal step of ++ and -- is a step of the cursor, or none.
LEMMA NextIsCursorStep == IInv /\ [Next]_vars => [Cursor!Next]_<<ast, Position>>
<1> SUFFICES ASSUME IInv, [Next]_vars PROVE [Cursor!Next]_<<ast, Position>>
  OBVIOUS
<1>1. IsTree(ast) /\ UNCHANGED ast /\ IInv'
  BY NextIInv DEF IInv, TypeOK, vars, Next, Step, to_begin, to_end, Increment, IncrementRight,
     Decrement, DecrementDeep, DecrementDeepRight
<1>2. node # Null => AtNode /\ node \in Nodes(ast) /\ node \in Path /\ node # <<>> /\ index = node
  BY <1>1, NodeIsChild DEF IInv, Coherent, AtNode
<1>3. node' # Null => AtNode' /\ node' \in Nodes(ast) /\ node' \in Path
  BY <1>1, NodeIsChild DEF IInv, Coherent, AtNode
<1>4. pc # "idle" => node # Null
  BY DEF IInv, Coherent
<1>5. pc' # "idle" => node' # Null
  BY <1>1 DEF IInv, Coherent
<1>6. node = Null /\ pc = "idle" => Position = Ending
  BY DEF Position, Ending
<1>7. node' = Null /\ pc' = "idle" => Position' = Ending
  BY <1>1 DEF Position, Ending
<1>8. node # Null => /\ pc = "idle" => Position = node
                     /\ pc \in {"right", "deep"} => Closes(ast, node, Position)
                     /\ pc = "deepright" => Position = Deepest(ast, PopBack(node))
  BY <1>1, <1>2, PositionAtNode
<1>9. node' # Null => /\ pc' = "idle" => Position' = node'
                      /\ pc' \in {"right", "deep"} => Closes(ast, node', Position')
                      /\ pc' = "deepright" => Position' = Deepest(ast, PopBack(node'))
  <2>1. node' # Null => Closes(ast, node', Deepest(ast, node'))
    BY <1>1, <1>3, DeepestCloses
  <2> QED
    BY <1>1, <2>1 DEF Position
<1>10. \A p \in Path, d \in Nodes(ast), e \in Nodes(ast) :
           Closes(ast, p, d) /\ Closes(ast, p, e) => d = e
  BY <1>1, ClosesIsDeepest
<1>11. \A p, d : Closes(ast, p, d) => d \in Nodes(ast)
  BY DEF Closes
<1> DEFINE Good == [Cursor!Next]_<<ast, Position>>
<1>12. ASSUME to_begin PROVE Good
  <2>1. CASE ast[Root] = 0
    <3>1. node' = Null /\ pc' = "idle"
      BY <1>12, <2>1 DEF to_begin, SetBegin
    <3> QED
      BY <1>1, <1>7, <3>1, CursorSteps
  <2>2. CASE ast[Root] # 0
    <3>1. node' = <<0>> /\ node' # Null /\ pc' = "idle"
      BY <1>12, <2>2, <1>1, BeginIsNode DEF to_begin, SetBegin
    <3>2. Append(Root, 0) = <<0>>
      BY DEF Root
    <3> QED
      BY <1>1, <1>3, <1>9, <3>1, <3>2, CursorSteps
  <2> QED
    BY <2>1, <2>2
<1>13. ASSUME to_end PROVE Good
  <2>1. node' = Null /\ pc' = "idle"
    BY <1>13 DEF to_end, SetEnd
  <2> QED
    BY <1>1, <1>7, <2>1, CursorSteps
<1>14. ASSUME node # Null, pc = "idle", UNCHANGED node, pc' = "right", NoDownwards
       PROVE  Position' = Position
  <2>1. Closes(ast, node, node)
    BY <1>1, <1>2, <1>14, ClosesItself DEF NoDownwards, IsGroup
  <2> QED
    BY <1>2, <1>8, <1>9, <1>10, <1>11, <1>14, <2>1
<1>15. ASSUME Increment PROVE Good
  <2>1. pc = "idle" /\ node # Null /\ Position = node
    BY <1>8, <1>15 DEF Increment
  <2>2. CASE traverse_downwards /\ UNCHANGED pc
    <3>1. node' = Append(node, 0) /\ node' # Null
      BY <1>1, <1>2, <2>1, <2>2, DownwardsKeepsNode DEF traverse_downwards
    <3>2. Position' = node'
      BY <1>9, <2>1, <2>2, <3>1
    <3>3. Neighbours(ast, Position, Position')
      BY <1>1, <1>2, <2>1, <3>1, <3>2, FirstChildIsNext
    <3> QED
      BY <1>1, <1>2, <1>3, <2>1, <3>1, <3>2, <3>3, CursorSteps
  <2>3. CASE NoDownwards /\ NoneCalled /\ pc' = "right"
    <3>1. Position' = Position
      BY <1>14, <2>1, <2>3 DEF NoneCalled
    <3> QED
      BY <1>1, <3>1, CursorSteps
  <2> QED
    BY <1>15, <2>2, <2>3 DEF Increment
<1>16. ASSUME IncrementRight PROVE Good
  <2>1. pc = "right" /\ node # Null /\ Closes(ast, node, Position) /\ Position \in Nodes(ast)
    BY <1>4, <1>8, <1>11, <1>16 DEF IncrementRight
  <2>2. Neighbours(ast, Position, Append(PopBack(node), Back(node) + 1))
    BY <1>1, <1>2, <2>1, SiblingIsNext
  <2>3. ParentGroup = PopBack(node)
    BY <1>1, <1>2, <2>1, ParentIsFound
  <2>4. CASE traverse_right /\ pc' = "idle"
    <3>1. node' = Append(PopBack(node), Back(node) + 1) /\ node' # Null
      BY <1>1, <1>2, <2>1, <2>3, <2>4, RightKeepsNode DEF traverse_right
    <3>2. Position' = node'
      BY <1>9, <2>4, <3>1
    <3> QED
      BY <1>1, <1>3, <2>1, <2>2, <3>1, <3>2, CursorSteps
  <2>5. CASE RightEnd /\ AtLastOfRoot /\ SetEnd /\ pc' = "idle"
    <3>1. Position' = Ending
      BY <1>7, <2>5 DEF SetEnd
    <3>2. Append(PopBack(node), Back(node) + 1) = Ending
      <4>1. PopBack(node) = Root /\ ast[PopBack(node)] = Back(node) + 1
        BY <1>1, <1>2, <2>1, <2>5, FirstLevel, RightEndIsLast DEF AtLastOfRoot
      <4> QED
        BY <4>1 DEF Ending, Root
    <3> QED
      BY <1>1, <2>1, <2>2, <3>1, <3>2, CursorSteps
  <2>6. CASE RightEnd /\ traverse_upwards /\ UNCHANGED pc
    <3>1. node' # Null /\ node' = PopBack(node)
      BY <1>1, <1>2, <2>1, <2>6, UpwardsKeepsNode DEF traverse_upwards
    <3>2. Closes(ast, node', Position)
      BY <1>1, <1>2, <2>1, <2>6, <3>1, UpwardsCloses
    <3>3. Position' = Position
      BY <1>3, <1>9, <1>10, <1>11, <2>1, <2>6, <3>1, <3>2
    <3> QED
      BY <1>1, <3>3, CursorSteps
  <2> QED
    BY <1>16, <2>4, <2>5, <2>6 DEF IncrementRight
<1>17. ASSUME Decrement PROVE Good
  <2>1. pc = "idle" /\ index # <<>>
    BY <1>17 DEF Decrement
  <2>2. \/ node # Null /\ Position = node
        \/ node = Null /\ index = Ending /\ Position = Ending
    BY <1>6, <1>8, <2>1 DEF IInv, Coherent, Ending
  <2>3. CASE traverse_left /\ pc' = "deep"
    <3>1. node' # Null
      BY <1>1, <1>2, <2>2, <2>3, LeftKeepsNode, LeftFromEnd DEF Ending
    <3>2. Closes(ast, node', Position') /\ Position' \in Nodes(ast)
      BY <1>9, <1>11, <2>3, <3>1
    <3>3. index \in Path /\ PopBack(index) \in Path /\ Back(index) \in Nat
          /\ index = Append(PopBack(index), Back(index)) /\ ParentGroup = PopBack(index)
      <4>1. CASE node # Null
        BY <1>1, <1>2, <4>1, ParentIsFound, PathSplit
      <4>2. CASE index = Ending
        <5>1. index \in Path /\ Len(index) = 1 /\ ~(Len(index) > 1)
          BY <1>1, <4>2, EndIsPath DEF Ending
        <5> QED
          BY <2>1, <5>1, FirstLevel, PathSplit DEF ParentGroup
      <4> QED
        BY <2>2, <4>1, <4>2
    <3>4. Back(index) - 1 \in Nat /\ (Back(index) - 1) + 1 = Back(index)
      BY <2>3, <3>3 DEF traverse_left
    <3>5. node' = Append(PopBack(index), Back(index) - 1)
      BY <2>3, <3>3 DEF traverse_left
    <3>6. PopBack(node') = PopBack(index) /\ Back(node') = Back(index) - 1
      BY <3>3, <3>4, <3>5, PathAppend
    <3>7. Append(PopBack(node'), Back(node') + 1) = index
      BY <3>3, <3>4, <3>6
    <3>8. Neighbours(ast, Position', index)
      BY <1>1, <1>3, <3>1, <3>2, <3>7, SiblingIsNext
    <3>9. index = Position
      BY <1>2, <2>2
    <3> QED
      BY <1>1, <3>2, <3>8, <3>9, CursorSteps
  <2>4. CASE Back(index) < 1 /\ traverse_upwards /\ UNCHANGED pc
    <3>1. node # Null
      BY <1>1, <2>2, <2>4, EndIsPath DEF traverse_upwards, Ending
    <3>2. node' # Null /\ node' = PopBack(node)
      BY <1>1, <1>2, <2>4, <3>1, UpwardsKeepsNode DEF traverse_upwards
    <3>3. Position' = PopBack(node) /\ Position = node
      BY <1>9, <2>1, <2>2, <2>4, <3>1, <3>2
    <3>4. PopBack(node) \in Path /\ Back(node) = 0 /\ node = Append(PopBack(node), Back(node))
      BY <1>2, <2>4, <3>1, PathSplit
    <3>5. Neighbours(ast, Position', Position)
      BY <1>1, <3>3, <3>4, FirstChildIsNext
    <3> QED
      BY <1>1, <1>3, <3>2, <3>3, <3>5, CursorSteps
  <2>5. CASE NoneCalled /\ UNCHANGED pc
    <3>1. Position' = Position
      BY <1>1, <2>5 DEF NoneCalled, Position
    <3> QED
      BY <1>1, <3>1, CursorSteps
  <2> QED
    BY <1>17, <2>3, <2>4, <2>5 DEF Decrement
<1>18. ASSUME DecrementDeep PROVE Good
  <2>1. pc = "deep" /\ node # Null /\ Closes(ast, node, Position) /\ Position \in Nodes(ast)
    BY <1>4, <1>8, <1>11, <1>18 DEF DecrementDeep
  <2>2. CASE traverse_downwards /\ pc' = "deepright"
    <3>1. node' = Append(node, 0) /\ node' # Null
      BY <1>1, <1>2, <2>1, <2>2, DownwardsKeepsNode DEF traverse_downwards
    <3>2. PopBack(node') = node
      BY <1>2, <2>1, <3>1, PathAppend
    <3>3. Position' = Deepest(ast, node)
      BY <1>9, <2>2, <3>1, <3>2
    <3>4. Position' = Position
      BY <1>1, <1>2, <2>1, <3>3, ClosesIsDeepest
    <3> QED
      BY <1>1, <3>4, CursorSteps
  <2>3. CASE NoDownwards /\ NoneCalled /\ pc' = "idle"
    <3>1. Closes(ast, node, node)
      BY <1>1, <1>2, <2>1, <2>3, ClosesItself DEF NoDownwards, IsGroup
    <3>2. Position' = node
      BY <1>9, <2>1, <2>3 DEF NoneCalled
    <3>3. Position' = Position
      BY <1>2, <1>10, <2>1, <3>1, <3>2
    <3> QED
      BY <1>1, <3>3, CursorSteps
  <2> QED
    BY <1>18, <2>2, <2>3 DEF DecrementDeep
<1>19. ASSUME DecrementDeepRight PROVE Good
  <2>1. pc = "deepright" /\ node # Null /\ Position = Deepest(ast, PopBack(node))
    BY <1>4, <1>8, <1>19 DEF DecrementDeepRight
  <2>2. CASE traverse_right /\ UNCHANGED pc
    <3>1. /\ ParentGroup = PopBack(node) /\ Back(node) + 1 \in Nat /\ PopBack(node) \in Path
          /\ node' # Null
      BY <1>1, <1>2, <2>1, <2>2, ParentIsFound, PathSplit, RightKeepsNode
    <3>2. node' = Append(PopBack(node), Back(node) + 1)
      BY <1>2, <2>1, <2>2, <3>1 DEF traverse_right
    <3>3. PopBack(node') = PopBack(node)
      BY <3>1, <3>2, PathAppend
    <3>4. Position' = Position
      BY <1>9, <2>1, <2>2, <3>1, <3>3
    <3> QED
      BY <1>1, <3>4, CursorSteps
  <2>3. CASE RightEnd /\ NoneCalled /\ pc' = "deep"
    <3>1. Closes(ast, node, Position') /\ node' = node
      BY <1>9, <2>1, <2>3 DEF NoneCalled
    <3>2. Closes(ast, PopBack(node), Position')
      BY <1>1, <1>2, <2>1, <2>3, <3>1, UpwardsCloses
    <3>3. PopBack(node) \in Path
      BY <1>2, <2>1, PathSplit
    <3>4. Position' = Position
      BY <1>1, <2>1, <3>2, <3>3, ClosesIsDeepest
    <3> QED
      BY <1>1, <3>4, CursorSteps
  <2> QED
    BY <1>19, <2>2, <2>3 DEF DecrementDeepRight
<1>20. ASSUME UNCHANGED vars PROVE Good
  <2>1. Position' = Position
    BY <1>20 DEF vars, Position
  <2> QED
    BY <1>1, <2>1, CursorSteps
<1> QED
  BY <1>12, <1>13, <1>15, <1>16, <1>17, <1>18, <1>19, <1>20 DEF Next, Step

\* begin() and end() are where the cursor starts.
LEMMA InitIsCursorInit == Init => Cursor!Init
<1> SUFFICES ASSUME Init PROVE Cursor!Init
  OBVIOUS
<1>1. IsTree(ast) /\ ast \in Trees /\ pc = "idle"
  BY TreesAssumption DEF Init
<1>2. Position = IF node = Null THEN Ending ELSE node
  BY <1>1 DEF Position, Ending
<1>3. Position = Ending \/ (Position = <<0>> /\ <<0>> \in Nodes(ast))
  <2>1. CASE node = Null
    BY <1>2, <2>1
  <2>2. CASE node # Null
    BY <1>1, <1>2, <2>2, BeginIsNode DEF Init
  <2> QED
    BY <2>1, <2>2
<1>4. CASE Position = Ending
  BY <1>1, <1>4, SameTrees, Zenon DEF Cursor!Init
<1>5. CASE Position = <<0>> /\ <<0>> \in Nodes(ast)
  <2>1. \A r \in Nodes(ast) : ~Before(r, Position)
    BY <1>1, <1>5, FirstIsFirst
  <2>2. Cursor!IsFirst(Position) /\ Position \in Cursor!Nodes(ast)
    BY <1>5, <2>1, SameTrees, Zenon
  <2> QED
    BY <1>1, <2>2, Zenon DEF Cursor!Init
<1> QED
  BY <1>3, <1>4, <1>5

\* Whatever calls the printer and then its caller make, the iterator is a bidirectional
\* cursor over the nodes in pre-order.
THEOREM ImplementsCursorAlways == PSpec => ImplementsCursor
<1>1. PInit => Cursor!Init
  BY PrinterCalls, InitIsCursorInit
<1>2. IInv /\ [PNext]_pvars => [Cursor!Next]_<<ast, Position>>
  BY PrinterCalls, NextIsCursorStep
<1> QED
  BY <1>1, <1>2, PrinterInvariance, PTL DEF PSpec, ImplementsCursor, Cursor!Spec

-----------------------------------------------------------------------------
(* Where the printer has put each node of an expression without empty      *)
(* groups.  A history h holds, besides the expression, the groups whose    *)
(* bracket is open, the nodes that are done, how many nodes of an open     *)
(* group are done, and where the text of a node begins and ends.           *)

History(h) ==
    /\ IsTree(h.ast) /\ \A g \in DOMAIN h.ast : h.ast[g] > 0
    /\ h.count \in [Path -> Nat] /\ h.start \in [Path -> Nat] /\ h.end \in [Path -> Nat]

\* The open groups are nested, each in the node of the outer one that is not done yet;
\* what is done is done with all that it holds.
Nested(h) ==
    /\ Root \in h.open /\ h.open \subseteq DOMAIN h.ast
    /\ h.done \subseteq Nodes(h.ast) /\ h.open \cap h.done = {}
    /\ \A g \in h.open :
          /\ h.count[g] <= h.ast[g]
          /\ \A i \in Nat : Append(g, i) \in h.done <=> i < h.count[g]
          /\ g # Root => PopBack(g) \in h.open /\ Back(g) = h.count[PopBack(g)]
    /\ \A p \in h.done :
          /\ PopBack(p) \in h.open \cup h.done
          /\ p \in DOMAIN h.ast => \A i \in 0 .. h.ast[p] - 1 : Append(p, i) \in h.done

\* Where the text of a group's nodes begins, and where that of a node may begin.
After(h, g) == h.start[g] + (IF g \in h.headed THEN 3 ELSE 1)
From(h, p) ==
    IF Back(p) = 0 THEN After(h, PopBack(p)) ELSE h.end[Append(PopBack(p), Back(p) - 1)]

\* From i to before j, all is white space.
Blank(s, i, j) == \A k \in i .. j - 1 : s[k] = Space

\* White space alone leads to node p at j; there is none before the first node of all.
Leads(h, s, p, j) ==
    /\ 1 <= From(h, p) /\ From(h, p) <= j /\ j <= Len(s) + 1
    /\ Blank(s, From(h, p), j)
    /\ From(h, p) = j => Back(p) = 0 /\ PopBack(p) = Root /\ Root \notin h.headed

\* The header of group g, if it has one, and its bracket are where h says.
Opening(h, s, g) ==
    /\ 1 <= h.start[g] /\ After(h, g) <= Len(s) + 1
    /\ IF g \in h.headed
       THEN /\ s[h.start[g]] = Header(g) /\ s[h.start[g] + 1] = Space
            /\ s[h.start[g] + 2] = Open
       ELSE s[h.start[g]] = Open

\* Where the text of the last node of g ends.
LastEnd(h, g) == h.end[Append(g, h.ast[g] - 1)]

\* White space and the closing bracket follow it.
Closing(h, s, g) ==
    /\ 1 <= LastEnd(h, g) /\ LastEnd(h, g) + 1 < h.end[g] /\ h.end[g] <= Len(s) + 1
    /\ Blank(s, LastEnd(h, g), h.end[g] - 1) /\ s[h.end[g] - 1] = Close

\* All of node p is where h says.
Whole(h, s, p) ==
    IF p \in DOMAIN h.ast THEN Opening(h, s, p) /\ Closing(h, s, p)
    ELSE /\ 1 <= h.start[p] /\ h.start[p] <= Len(s) /\ h.end[p] = h.start[p] + 1
         /\ s[h.start[p]] = Atom(p)

\* What is done is there as a whole, what is open is opened.
Written(h, s) ==
    /\ \A p \in h.done : Leads(h, s, p, h.start[p]) /\ Whole(h, s, p)
    /\ \A g \in h.open : g # Root => Leads(h, s, g, h.start[g]) /\ Opening(h, s, g)
    /\ IF Root \in h.headed THEN h.start[Root] = 1 /\ Opening(h, s, Root)
       ELSE h.start[Root] = 0

\* h is a history of the text s.
Good(h, s) == s \in Seq(Tokens) /\ History(h) /\ Nested(h) /\ Written(h, s)

\* Nothing is open inside g.
Innermost(h, g) == g \in h.open /\ \A p \in h.open : p # Root => PopBack(p) # g

\* The printer is at p.
Current(h, p) == p \in Nodes(h.ast) /\ Innermost(h, PopBack(p))

\* The printer comes to node p; has printed the header of group p; is done with p.
Reached(h, s, p) ==
    Current(h, p) /\ Back(p) = h.count[PopBack(p)] /\ Leads(h, s, p, Len(s) + 1)
Entered(h, s, p) ==
    /\ Current(h, p) /\ Back(p) = h.count[PopBack(p)] /\ Leads(h, s, p, h.start[p])
    /\ p \in DOMAIN h.ast
    /\ IF p \in h.headed
       THEN /\ h.start[p] + 1 = Len(s)
            /\ s[h.start[p]] = Header(p) /\ s[h.start[p] + 1] = Space
       ELSE h.start[p] = Len(s) + 1
Passed(h, s, p) ==
    Current(h, p) /\ Back(p) + 1 = h.count[PopBack(p)] /\ h.end[p] = Len(s) + 1

\* The loop has ended; the topmost bracket is there.
AllPassed(h, s) ==
    h.count[Root] = h.ast[Root] /\ LastEnd(h, Root) = Len(s) + 1
Printed(h, s) ==
    /\ h.count[Root] = h.ast[Root]
    /\ IF Root \in h.headed THEN Closing(h, s, Root) /\ h.end[Root] = Len(s) + 1
       ELSE LastEnd(h, Root) = Len(s) + 1

-----------------------------------------------------------------------------
(* What is written stays                                                   *)

\* Text is only appended, and no node is written twice.
Continues(h, s, k, u) ==
    /\ u \in Seq(Tokens) /\ Len(s) <= Len(u) /\ \A i \in 1 .. Len(s) : u[i] = s[i]
    /\ k.ast = h.ast /\ k.headed = h.headed /\ History(k)
    /\ \A p \in h.open \cup h.done : k.start[p] = h.start[p]
    /\ \A p \in h.done : k.end[p] = h.end[p]

\* What is written before p is done: the bracket of its group, and its elder sibling.
Follows(h, p) ==
    /\ PopBack(p) \in h.open \cup h.done
    /\ Back(p) # 0 => Append(PopBack(p), Back(p) - 1) \in h.done

\* What is written before a node that is done was done before it.
LEMMA DoneFollows ==
    ASSUME NEW h, History(h), Nested(h), NEW p \in h.done
    PROVE  Follows(h, p) /\ p \in Path /\ p # <<>>
<1>1. /\ p \in Nodes(h.ast) /\ IsTree(h.ast) /\ PopBack(p) \in h.open \cup h.done
  BY DEF Nested, History
<1>2. /\ p \in Path /\ p # <<>> /\ p = Append(PopBack(p), Back(p)) /\ Back(p) \in Nat
      /\ PopBack(p) \in DOMAIN h.ast /\ Back(p) < h.ast[PopBack(p)]
      /\ h.ast[PopBack(p)] \in Nat
  BY <1>1, NodeIsChild, PathSplit
<1>3. ASSUME Back(p) # 0
      PROVE  Append(PopBack(p), Back(p) - 1) \in h.done
  <2>1. Back(p) - 1 \in 0 .. h.ast[PopBack(p)] - 1 /\ Back(p) - 1 \in Nat
    BY <1>2, <1>3
  <2>2. CASE PopBack(p) \in h.done
    BY <1>2, <2>1, <2>2 DEF Nested
  <2>3. CASE PopBack(p) \in h.open
    <3>1. Back(p) < h.count[PopBack(p)]
      BY <1>2, <2>3 DEF Nested
    <3>2. h.count[PopBack(p)] \in Nat
      BY <1>1, <1>2, PathSplit DEF History
    <3>3. Back(p) - 1 < h.count[PopBack(p)]
      BY <1>2, <3>1, <3>2
    <3> QED
      BY <2>1, <2>3, <3>3 DEF Nested
  <2> QED
    BY <1>1, <2>2, <2>3
<1> QED
  BY <1>1, <1>2, <1>3 DEF Follows

\* So was what is written before the node the printer is at,
LEMMA CurrentFollows ==
    ASSUME NEW h, History(h), Nested(h), NEW p \in Nodes(h.ast), PopBack(p) \in h.open,
           Back(p) = h.count[PopBack(p)]
    PROVE  Follows(h, p)
<1>1. Back(p) \in Nat
  BY NodeIsChild DEF History
<1>2. ASSUME Back(p) # 0 PROVE Append(PopBack(p), Back(p) - 1) \in h.done
  <2>1. Back(p) - 1 \in Nat /\ Back(p) - 1 < h.count[PopBack(p)]
    BY <1>1, <1>2
  <2> QED
    BY <2>1 DEF Nested
<1> QED
  BY <1>2 DEF Follows

\* and before a group that is open.
LEMMA OpenFollows ==
    ASSUME NEW h, History(h), Nested(h), NEW g \in h.open, g # Root
    PROVE  Follows(h, g) /\ g \in Nodes(h.ast)
<1>1. g \in Nodes(h.ast)
  BY GroupIsNode DEF History, Nested
<1>2. PopBack(g) \in h.open /\ Back(g) = h.count[PopBack(g)]
  BY DEF Nested
<1> QED
  BY <1>1, <1>2, CurrentFollows

\* What is open and what is done are paths.
LEMMA NestedPaths ==
    ASSUME NEW h, History(h), Nested(h)
    PROVE  h.open \subseteq Path /\ h.done \subseteq Path
<1>1. h.open \subseteq Path
  BY DEF Nested, History, IsTree
<1>2. h.done \subseteq Path
  BY NodeIsChild DEF Nested, History
<1> QED
  BY <1>1, <1>2

\* The place where the text of a node may begin is a place.
LEMMA FromIsNat ==
    ASSUME NEW h, History(h), Nested(h), NEW p, Follows(h, p)
    PROVE  From(h, p) \in Nat
<1>1. CASE Back(p) = 0
  <2>1. PopBack(p) \in Path
    BY NestedPaths DEF Follows
  <2>2. h.start[PopBack(p)] \in Nat
    BY <2>1 DEF History
  <2> QED
    BY <1>1, <2>2 DEF From, After
<1>2. CASE Back(p) # 0
  <2>1. Append(PopBack(p), Back(p) - 1) \in Path
    BY <1>2, NestedPaths DEF Follows
  <2> QED
    BY <1>2, <2>1 DEF From, History
<1> QED
  BY <1>1, <1>2

\* What continues a text keeps where a node may begin,
LEMMA FromKept ==
    ASSUME NEW h, NEW s, NEW k, NEW u, Continues(h, s, k, u), NEW p, Follows(h, p)
    PROVE  From(k, p) = From(h, p)
  BY DEF Continues, Follows, From, After

\* the white space that leads to it,
LEMMA LeadsKept ==
    ASSUME NEW h, NEW s, NEW k, NEW u, Good(h, s), Continues(h, s, k, u),
           NEW p, Follows(h, p), NEW j \in Nat, Leads(h, s, p, j)
    PROVE  Leads(k, u, p, j)
<1>1. PICK f : f = From(h, p) /\ f = From(k, p)
  BY FromKept
<1>2. PICK n \in Nat, m \in Nat : n = Len(s) /\ m = Len(u) /\ n <= m
  BY DEF Good, Continues
<1>3. 1 <= f /\ f <= j /\ j <= n + 1
  BY <1>1, <1>2 DEF Leads
<1>4. f \in Nat
  BY <1>1, FromIsNat DEF Good
<1>5. Blank(u, f, j)
  BY <1>1, <1>2, <1>3, <1>4 DEF Leads, Blank, Continues
<1> QED
  BY <1>1, <1>2, <1>3, <1>5 DEF Leads, Continues

\* the header and the bracket of a group,
LEMMA OpeningKept ==
    ASSUME NEW h, NEW s, NEW k, NEW u, Good(h, s), Continues(h, s, k, u),
           NEW g \in h.open \cup h.done, Opening(h, s, g)
    PROVE  Opening(k, u, g)
<1>1. PICK n \in Nat, m \in Nat : n = Len(s) /\ m = Len(u) /\ n <= m
  BY DEF Good, Continues
<1>2. PICK i \in Nat : i = h.start[g] /\ i = k.start[g]
  BY NestedPaths DEF Good, History, Continues
<1>3. After(k, g) = After(h, g) /\ (g \in k.headed <=> g \in h.headed)
  BY <1>2 DEF After, Continues
<1>4. PICK a \in Nat : a = After(h, g) /\ a = (IF g \in h.headed THEN i + 3 ELSE i + 1)
  BY <1>2 DEF After
<1>5. 1 <= i /\ a <= n + 1
  BY <1>1, <1>2, <1>4 DEF Opening
<1>6. \A j \in 1 .. n : u[j] = s[j]
  BY <1>1 DEF Continues
<1>7. CASE g \in h.headed
  <2>1. u[i] = Header(g) /\ u[i + 1] = Space /\ u[i + 2] = Open
    BY <1>2, <1>4, <1>5, <1>6, <1>7 DEF Opening
  <2> QED
    BY <1>1, <1>2, <1>3, <1>4, <1>5, <1>7, <2>1 DEF Opening
<1>8. CASE g \notin h.headed
  <2>1. u[i] = Open
    BY <1>2, <1>4, <1>5, <1>6, <1>8 DEF Opening
  <2> QED
    BY <1>1, <1>2, <1>3, <1>4, <1>5, <1>8, <2>1 DEF Opening
<1> QED
  BY <1>7, <1>8

\* The last node of a group that is done.
LEMMA LastIsDone ==
    ASSUME NEW h, History(h), Nested(h), NEW g \in DOMAIN h.ast,
           g \in h.done \/ (g \in h.open /\ h.count[g] = h.ast[g])
    PROVE  /\ Append(g, h.ast[g] - 1) \in h.done
           /\ h.ast[g] \in Nat /\ h.ast[g] > 0
           /\ LastEnd(h, g) \in Nat
<1>1. h.ast[g] \in Nat /\ h.ast[g] > 0
  BY DEF History, IsTree
<1>2. h.ast[g] - 1 \in 0 .. h.ast[g] - 1 /\ h.ast[g] - 1 \in Nat /\ h.ast[g] - 1 < h.ast[g]
  BY <1>1
<1>3. Append(g, h.ast[g] - 1) \in h.done
  BY <1>2 DEF Nested
<1>4. LastEnd(h, g) \in Nat
  BY <1>3, NestedPaths DEF LastEnd, History
<1> QED
  BY <1>1, <1>3, <1>4

\* its closing bracket,
LEMMA ClosingKept ==
    ASSUME NEW h, NEW s, NEW k, NEW u, Good(h, s), Continues(h, s, k, u),
           NEW g \in DOMAIN h.ast, Closing(h, s, g), k.end[g] = h.end[g],
           g \in h.done \/ (g \in h.open /\ h.count[g] = h.ast[g])
    PROVE  Closing(k, u, g)
<1>1. PICK n \in Nat, m \in Nat : n = Len(s) /\ m = Len(u) /\ n <= m
  BY DEF Good, Continues
<1>2. PICK l \in Nat : l = LastEnd(h, g) /\ l = LastEnd(k, g)
  BY LastIsDone DEF Continues, LastEnd, Good
<1>3. PICK e \in Nat : e = h.end[g] /\ e = k.end[g]
  BY DEF Good, History, IsTree
<1>4. /\ 1 <= l /\ l + 1 < e /\ e <= n + 1
      /\ \A j \in l .. e - 2 : s[j] = Space
      /\ s[e - 1] = Close
  BY <1>1, <1>2, <1>3 DEF Closing, Blank
<1>5. \A j \in 1 .. n : u[j] = s[j]
  BY <1>1 DEF Continues
<1>6. /\ \A j \in l .. e - 2 : u[j] = Space
      /\ u[e - 1] = Close
  BY <1>1, <1>4, <1>5
<1> QED
  BY <1>1, <1>2, <1>3, <1>4, <1>6 DEF Closing, Blank

\* and the node itself.
LEMMA WholeKept ==
    ASSUME NEW h, NEW s, NEW k, NEW u, Good(h, s), Continues(h, s, k, u),
           NEW p \in h.done, Whole(h, s, p)
    PROVE  Whole(k, u, p)
<1>1. CASE p \in DOMAIN h.ast
  <2>1. Opening(k, u, p)
    BY <1>1, OpeningKept DEF Whole
  <2>2. k.end[p] = h.end[p] /\ Closing(h, s, p)
    BY <1>1 DEF Whole, Continues
  <2>3. Closing(k, u, p)
    BY <1>1, <2>2, ClosingKept
  <2> QED
    BY <1>1, <2>1, <2>3 DEF Whole, Continues
<1>2. CASE p \notin DOMAIN h.ast
  <2>1. PICK n \in Nat, m \in Nat : n = Len(s) /\ m = Len(u) /\ n <= m
    BY DEF Good, Continues
  <2>2. PICK i \in Nat : i = h.start[p] /\ i = k.start[p]
    BY NestedPaths DEF Good, History, Continues
  <2>3. 1 <= i /\ i <= n /\ s[i] = Atom(p) /\ h.end[p] = i + 1
    BY <1>2, <2>1, <2>2 DEF Whole
  <2>4. u[i] = Atom(p) /\ k.end[p] = i + 1
    BY <2>1, <2>3 DEF Continues
  <2> QED
    BY <1>2, <2>1, <2>2, <2>3, <2>4 DEF Whole, Continues
<1> QED
  BY <1>1, <1>2

\* What h records of the text s holds of any text that continues it.
LEMMA WrittenKept ==
    ASSUME NEW h, NEW s, NEW k, NEW u, Good(h, s), Continues(h, s, k, u)
    PROVE  /\ \A p \in h.done : Leads(k, u, p, k.start[p]) /\ Whole(k, u, p)
           /\ \A g \in h.open : g # Root => Leads(k, u, g, k.start[g]) /\ Opening(k, u, g)
           /\ IF Root \in k.headed THEN k.start[Root] = 1 /\ Opening(k, u, Root)
              ELSE k.start[Root] = 0
<1>1. ASSUME NEW p \in h.done
      PROVE  Leads(k, u, p, k.start[p]) /\ Whole(k, u, p)
  <2>1. Follows(h, p) /\ h.start[p] \in Nat /\ k.start[p] = h.start[p]
    BY DoneFollows DEF Good, History, Continues
  <2>2. Leads(h, s, p, h.start[p]) /\ Whole(h, s, p)
    BY DEF Good, Written
  <2> QED
    BY <2>1, <2>2, LeadsKept, WholeKept
<1>2. ASSUME NEW g \in h.open, g # Root
      PROVE  Leads(k, u, g, k.start[g]) /\ Opening(k, u, g)
  <2>1. Follows(h, g) /\ h.start[g] \in Nat /\ k.start[g] = h.start[g]
    BY <1>2, OpenFollows, NestedPaths DEF Good, History, Continues
  <2>2. Leads(h, s, g, h.start[g]) /\ Opening(h, s, g)
    BY <1>2 DEF Good, Written
  <2> QED
    BY <2>1, <2>2, LeadsKept, OpeningKept
<1>3. IF Root \in k.headed THEN k.start[Root] = 1 /\ Opening(k, u, Root)
      ELSE k.start[Root] = 0
  <2>1. Root \in h.open /\ k.headed = h.headed /\ k.start[Root] = h.start[Root]
    BY DEF Good, Nested, Continues
  <2>2. IF Root \in h.headed THEN h.start[Root] = 1 /\ Opening(h, s, Root)
        ELSE h.start[Root] = 0
    BY DEF Good, Written
  <2> QED
    BY <2>1, <2>2, OpeningKept
<1> QED
  BY <1>1, <1>2, <1>3

-----------------------------------------------------------------------------
(* What is open and what is done, after each step                          *)

\* The node the printer is at is neither open nor done.
LEMMA CurrentIsNew ==
    ASSUME NEW h, History(h), Nested(h), NEW p, Current(h, p),
           Back(p) = h.count[PopBack(p)]
    PROVE  /\ p \in Path /\ p # <<>> /\ PopBack(p) \in Path /\ PopBack(p) # p
           /\ p = Append(PopBack(p), Back(p))
           /\ Back(p) \in Nat /\ Back(p) < h.ast[PopBack(p)] /\ h.ast[PopBack(p)] \in Nat
           /\ p \notin h.open /\ p \notin h.done /\ PopBack(p) \in h.open
           /\ Follows(h, p)
<1>1. /\ p \in Nodes(h.ast) /\ IsTree(h.ast) /\ PopBack(p) \in h.open
      /\ \A q \in h.open : q # Root => PopBack(q) # PopBack(p)
  BY DEF Current, Innermost, History
<1>2. /\ p \in Path /\ p # <<>> /\ p = Append(PopBack(p), Back(p)) /\ Back(p) \in Nat
      /\ Back(p) < h.ast[PopBack(p)] /\ h.ast[PopBack(p)] \in Nat /\ PopBack(p) \in Path
      /\ Len(PopBack(p)) = Len(p) - 1 /\ Len(p) \in Nat
  BY <1>1, NodeIsChild, PathSplit
<1>3. PopBack(p) # p
  BY <1>2
<1>4. p \notin h.open
  BY <1>1, <1>2 DEF Root
<1>5. p \notin h.done
  <2>1. PICK b \in Nat : b = Back(p) /\ b = h.count[PopBack(p)]
    BY <1>2
  <2>2. Append(PopBack(p), b) \in h.done => b < h.count[PopBack(p)]
    BY <1>1, <2>1 DEF Nested
  <2>3. ~(b < b)
    BY <2>1
  <2> QED
    BY <1>2, <2>1, <2>2, <2>3
<1>6. Follows(h, p)
  BY <1>1, CurrentFollows
<1> QED
  BY <1>1, <1>2, <1>3, <1>4, <1>5, <1>6

\* A node is done: of a leaf nothing was open, a group is closed when its nodes are done.
LEMMA NestedDone ==
    ASSUME NEW h, History(h), Nested(h),
           NEW p \in Nodes(h.ast), p \notin h.done, PopBack(p) \in h.open,
           Back(p) = h.count[PopBack(p)],
           \A q \in h.open \ {p} : q # Root => PopBack(q) # PopBack(p) /\ PopBack(q) # p,
           p \in DOMAIN h.ast => \A i \in 0 .. h.ast[p] - 1 : Append(p, i) \in h.done,
           NEW k, k.ast = h.ast, k.open = h.open \ {p}, k.done = h.done \cup {p},
           k.count = [h.count EXCEPT ![PopBack(p)] = Back(p) + 1]
    PROVE  Nested(k) /\ Current(k, p) /\ Back(p) + 1 = k.count[PopBack(p)]
<1>1. PICK g, b : g = PopBack(p) /\ b = Back(p)
  OBVIOUS
<1>2. /\ IsTree(h.ast) /\ p \in Path /\ p # <<>> /\ p = Append(g, b) /\ b \in Nat
      /\ b < h.ast[g] /\ h.ast[g] \in Nat /\ g \in Path /\ g \in h.open
      /\ Len(g) = Len(p) - 1 /\ Len(p) \in Nat
  BY <1>1, NodeIsChild, PathSplit DEF History
<1>3. g # p /\ g \in k.open
  BY <1>2
<1>4. h.count \in [Path -> Nat] /\ h.count[g] = b /\ h.open \subseteq Path /\ h.done \subseteq Path
  BY <1>1, NestedPaths DEF History
<1>5. k.count[g] = b + 1 /\ \A q \in Path : q # g => k.count[q] = h.count[q]
  BY <1>1, <1>2, <1>4
<1>6. Root \in k.open /\ k.open \subseteq DOMAIN k.ast
  BY <1>2 DEF Nested, Root
<1>7. k.done \subseteq Nodes(k.ast) /\ k.open \cap k.done = {}
  BY DEF Nested
<1>8. ASSUME NEW q \in k.open
      PROVE  /\ k.count[q] <= k.ast[q]
             /\ \A i \in Nat : Append(q, i) \in k.done <=> i < k.count[q]
             /\ q # Root => PopBack(q) \in k.open /\ Back(q) = k.count[PopBack(q)]
  <2>1. /\ q \in h.open /\ q # p /\ q \in Path
        /\ h.count[q] <= h.ast[q]
        /\ \A i \in Nat : Append(q, i) \in h.done <=> i < h.count[q]
        /\ q # Root => PopBack(q) \in h.open /\ Back(q) = h.count[PopBack(q)]
    BY <1>4 DEF Nested
  <2>2. k.count[q] <= k.ast[q]
    <3>1. CASE q = g
      BY <1>2, <1>5, <3>1
    <3>2. CASE q # g
      BY <1>5, <2>1, <3>2
    <3> QED
      BY <3>1, <3>2
  <2>3. ASSUME NEW i \in Nat
        PROVE  Append(q, i) \in k.done <=> i < k.count[q]
    <3>1. Append(q, i) = p <=> q = g /\ i = b
      <4>1. PopBack(Append(q, i)) = q /\ Back(Append(q, i)) = i
        BY <2>1, PathAppend
      <4>2. q = g /\ i = b => Append(q, i) = p
        BY <1>2
      <4> QED
        BY <1>1, <4>1, <4>2
    <3>2. CASE q = g
      <4>1. Append(q, i) \in h.done <=> i < b
        BY <1>4, <2>1, <3>2
      <4> QED
        BY <1>2, <1>5, <3>1, <3>2, <4>1
    <3>3. CASE q # g
      BY <1>5, <2>1, <3>1, <3>3
    <3> QED
      BY <3>2, <3>3
  <2>4. q # Root => PopBack(q) \in k.open /\ Back(q) = k.count[PopBack(q)]
    BY <1>1, <1>4, <1>5, <2>1
  <2> QED
    BY <2>2, <2>3, <2>4
<1>9. ASSUME NEW q \in k.done
      PROVE  /\ PopBack(q) \in k.open \cup k.done
             /\ q \in DOMAIN k.ast => \A i \in 0 .. k.ast[q] - 1 : Append(q, i) \in k.done
  <2>1. CASE q = p
    BY <1>1, <1>3, <2>1
  <2>2. CASE q # p
    BY <2>2 DEF Nested
  <2> QED
    BY <2>1, <2>2
<1>10. Nested(k)
  BY <1>6, <1>7, <1>8, <1>9 DEF Nested
<1>11. Current(k, p)
  BY <1>1, <1>3 DEF Current, Innermost
<1> QED
  BY <1>1, <1>5, <1>10, <1>11

\* The bracket of the group the printer is at is opened.
LEMMA NestedOpen ==
    ASSUME NEW h, History(h), Nested(h), NEW p, Current(h, p), p \in DOMAIN h.ast,
           Back(p) = h.count[PopBack(p)],
           NEW k, k.ast = h.ast, k.open = h.open \cup {p}, k.done = h.done,
           k.count = [h.count EXCEPT ![p] = 0]
    PROVE  /\ Nested(k) /\ Current(k, Append(p, 0)) /\ k.count[p] = 0
           /\ Back(Append(p, 0)) = 0 /\ PopBack(Append(p, 0)) = p
<1>1. PICK g, b : g = PopBack(p) /\ b = Back(p)
  OBVIOUS
<1>2. /\ p \in Path /\ p # <<>> /\ g \in Path /\ g # p /\ b \in Nat
      /\ p \notin h.open /\ p \notin h.done /\ g \in h.open /\ b = h.count[g]
  BY <1>1, CurrentIsNew
<1>3. h.count \in [Path -> Nat] /\ h.open \subseteq Path /\ h.done \subseteq Path
  BY NestedPaths DEF History
<1>4. k.count[p] = 0 /\ \A q \in Path : q # p => k.count[q] = h.count[q]
  BY <1>2, <1>3
<1>5. h.ast[p] \in Nat /\ h.ast[p] > 0 /\ p \in Nodes(h.ast) /\ IsTree(h.ast)
  BY DEF History, IsTree, Current
<1>6. /\ Root \in k.open /\ k.open \subseteq DOMAIN k.ast
      /\ k.done \subseteq Nodes(k.ast) /\ k.open \cap k.done = {}
  BY <1>2 DEF Nested
<1>7. ASSUME NEW q \in k.open
      PROVE  /\ k.count[q] <= k.ast[q]
             /\ \A i \in Nat : Append(q, i) \in k.done <=> i < k.count[q]
             /\ q # Root => PopBack(q) \in k.open /\ Back(q) = k.count[PopBack(q)]
  <2>1. CASE q = p
    <3>1. ASSUME NEW i \in Nat, Append(p, i) \in h.done PROVE FALSE
      <4>1. PopBack(Append(p, i)) = p
        BY <1>2, PathAppend
      <4>2. p \in h.open \cup h.done
        BY <3>1, <4>1 DEF Nested
      <4> QED
        BY <1>2, <4>2
    <3>2. \A i \in Nat : ~(i < 0)
      OBVIOUS
    <3> QED
      BY <1>1, <1>2, <1>4, <1>5, <2>1, <3>1, <3>2
  <2>2. CASE q # p
    <3>1. /\ q \in h.open /\ q \in Path
          /\ h.count[q] <= h.ast[q]
          /\ \A i \in Nat : Append(q, i) \in h.done <=> i < h.count[q]
          /\ q # Root => PopBack(q) \in h.open /\ Back(q) = h.count[PopBack(q)]
      BY <1>3, <2>2 DEF Nested
    <3> QED
      BY <1>2, <1>3, <1>4, <2>2, <3>1
  <2> QED
    BY <2>1, <2>2
<1>8. \A q \in k.done :
          /\ PopBack(q) \in k.open \cup k.done
          /\ q \in DOMAIN k.ast => \A i \in 0 .. k.ast[q] - 1 : Append(q, i) \in k.done
  BY DEF Nested
<1>9. Nested(k)
  BY <1>6, <1>7, <1>8 DEF Nested
<1>10. /\ Append(p, 0) \in Nodes(k.ast)
       /\ PopBack(Append(p, 0)) = p /\ Back(Append(p, 0)) = 0
  BY <1>2, <1>5, ChildIsNode, PathAppend
<1>11. Innermost(k, p)
  <2>1. ASSUME NEW q \in k.open, q # Root PROVE PopBack(q) # p
    <3>1. CASE q = p
      BY <1>1, <1>2, <3>1
    <3>2. CASE q # p
      BY <1>2, <2>1, <3>2 DEF Nested
    <3> QED
      BY <3>1, <3>2
  <2> QED
    BY <2>1 DEF Innermost
<1> QED
  BY <1>4, <1>9, <1>10, <1>11 DEF Current

-----------------------------------------------------------------------------
(* The text after each step                                                *)

\* The tokens of a concatenation.
LEMMA Appended ==
    ASSUME NEW s \in Seq(Tokens), NEW w \in Seq(Tokens)
    PROVE  /\ s \o w \in Seq(Tokens) /\ Len(s \o w) = Len(s) + Len(w)
           /\ Len(s) \in Nat /\ Len(w) \in Nat
           /\ \A i \in 1 .. Len(s) : (s \o w)[i] = s[i]
           /\ \A i \in 1 .. Len(w) : (s \o w)[Len(s) + i] = w[i]
<1>1. /\ s \o w \in Seq(Tokens) /\ Len(s \o w) = Len(s) + Len(w)
      /\ Len(s) \in Nat /\ Len(w) \in Nat
      /\ \A i \in 1 .. Len(s) + Len(w) :
            (s \o w)[i] = IF i <= Len(s) THEN s[i] ELSE w[i - Len(s)]
  BY ConcatProperties
<1>2. PICK n \in Nat, m \in Nat : n = Len(s) /\ m = Len(w)
  BY <1>1
<1>3. \A i \in 1 .. n : i \in 1 .. n + m /\ i <= n
  OBVIOUS
<1>4. \A i \in 1 .. m : n + i \in 1 .. n + m /\ ~(n + i <= n) /\ n + i - n = i
  OBVIOUS
<1> QED
  BY <1>1, <1>2, <1>3, <1>4

\* Blanks, and a token behind them.
LEMMA IndentedText ==
    ASSUME NEW n \in Nat, NEW x \in Tokens
    PROVE  /\ Append(Spaces(n), x) \in Seq(Tokens) /\ Len(Append(Spaces(n), x)) = n + 1
           /\ Append(Spaces(n), x)[n + 1] = x
           /\ \A i \in 1 .. n : Append(Spaces(n), x)[i] = Space
<1>1. PICK t \in Seq(Tokens) : t = Spaces(n)
  BY TokensFacts
<1>2. Len(t) = n /\ \A i \in 1 .. n : t[i] = Space
  BY <1>1 DEF Spaces
<1> QED
  BY <1>1, <1>2

\* More white space leads further.
LEMMA LeadsOn ==
    ASSUME NEW h, History(h), Nested(h), NEW s \in Seq(Tokens), NEW p, Follows(h, p),
           NEW i \in Nat, NEW j \in Nat, Leads(h, s, p, i),
           i <= j, j <= Len(s) + 1, Blank(s, i, j)
    PROVE  Leads(h, s, p, j)
<1>1. PICK f \in Nat : f = From(h, p)
  BY FromIsNat
<1>2. PICK n \in Nat : n = Len(s)
  OBVIOUS
<1>3. Blank(s, f, j)
  BY <1>1, <1>2 DEF Leads, Blank
<1> QED
  BY <1>1, <1>2, <1>3 DEF Leads

\* A record is good for a longer text when it is for what is new.
LEMMA GoodDone ==
    ASSUME NEW h, NEW s, NEW k, NEW u, Good(h, s), Continues(h, s, k, u), Nested(k),
           NEW p, k.open \subseteq h.open, k.done = h.done \cup {p},
           Leads(k, u, p, k.start[p]), Whole(k, u, p)
    PROVE  Good(k, u)
<1>1. /\ \A q \in h.done : Leads(k, u, q, k.start[q]) /\ Whole(k, u, q)
      /\ \A g \in h.open : g # Root => Leads(k, u, g, k.start[g]) /\ Opening(k, u, g)
      /\ IF Root \in k.headed THEN k.start[Root] = 1 /\ Opening(k, u, Root)
         ELSE k.start[Root] = 0
  BY WrittenKept
<1>2. Written(k, u)
  BY <1>1 DEF Written
<1> QED
  BY <1>2 DEF Good, Continues

\* The same where nothing new is open or done.
LEMMA GoodSame ==
    ASSUME NEW h, NEW s, NEW k, NEW u, Good(h, s), Continues(h, s, k, u), Nested(k),
           k.open = h.open, k.done = h.done
    PROVE  Good(k, u)
<1>1. Written(k, u)
  BY WrittenKept DEF Written
<1> QED
  BY <1>1 DEF Good, Continues

\* The text after Visit, at an atom and at a header, after OnDownwards and OnUpwards.
WithAtom(s, n, p)   == s \o Append(Spaces(n), Atom(p))
WithHeader(s, n, p) == s \o (Spaces(n) \o <<Header(p), Space>>)
Indented(s)         == s \o <<Open, Space>>
Unindented(s, n)    == s \o <<Space>> \o Spaces(n) \o <<Close>>

\* An assignment to one point of a function.
LEMMA Updated ==
    ASSUME NEW f \in [Path -> Nat], NEW p \in Path, NEW n \in Nat,
           NEW g, g = [f EXCEPT ![p] = n]
    PROVE  g \in [Path -> Nat] /\ g[p] = n /\ \A q \in Path : q # p => g[q] = f[q]
  OBVIOUS

\* Visit, at an atom.
LEMMA AtomStep ==
    ASSUME NEW h, NEW s, NEW p, Good(h, s), Reached(h, s, p), p \notin DOMAIN h.ast,
           NEW n \in Nat, NEW u, u = WithAtom(s, n, p)
    PROVE  \E k : Good(k, u) /\ Passed(k, u, p) /\ k.ast = h.ast /\ k.headed = h.headed
<1>1. PICK l \in Nat : l = Len(s) /\ s \in Seq(Tokens)
  BY DEF Good
<1>2. /\ Current(h, p) /\ Back(p) = h.count[PopBack(p)] /\ Leads(h, s, p, l + 1)
      /\ History(h) /\ Nested(h)
  BY <1>1 DEF Reached, Good
<1>3. /\ p \in Path /\ PopBack(p) \in Path /\ p \notin h.open /\ p \notin h.done
      /\ PopBack(p) \in h.open /\ Follows(h, p) /\ Back(p) \in Nat /\ p # <<>>
  BY <1>2, CurrentIsNew
<1>4. /\ u \in Seq(Tokens) /\ Len(u) = l + n + 1 /\ u[l + n + 1] = Atom(p)
      /\ \A i \in 1 .. l : u[i] = s[i]
      /\ \A i \in l + 1 .. l + n : u[i] = Space
  <2>0. PICK x \in Tokens : x = Atom(p)
    BY <1>3, TokensFacts
  <2>1. PICK w : w = Append(Spaces(n), x) /\ u = s \o w
    BY <2>0 DEF WithAtom
  <2>2. /\ w \in Seq(Tokens) /\ Len(w) = n + 1 /\ w[n + 1] = Atom(p)
        /\ \A i \in 1 .. n : w[i] = Space
    BY <2>0, <2>1, IndentedText
  <2>3. /\ u \in Seq(Tokens) /\ Len(u) = l + (n + 1)
        /\ \A i \in 1 .. l : u[i] = s[i]
        /\ \A i \in 1 .. n + 1 : u[l + i] = w[i]
    <3>1. /\ s \o w \in Seq(Tokens) /\ Len(s \o w) = Len(s) + Len(w)
          /\ \A i \in 1 .. Len(s) : (s \o w)[i] = s[i]
          /\ \A i \in 1 .. Len(w) : (s \o w)[Len(s) + i] = w[i]
      BY <1>1, <2>2, Appended
    <3> QED
      BY <1>1, <2>1, <2>2, <3>1
  <2>4. \A i \in l + 1 .. l + n : i - l \in 1 .. n /\ l + (i - l) = i /\ i - l \in 1 .. n + 1
    OBVIOUS
  <2>5. n + 1 \in 1 .. n + 1 /\ l + (n + 1) = l + n + 1
    OBVIOUS
  <2> QED
    BY <2>2, <2>3, <2>4, <2>5
<1>5. /\ l + n + 1 \in Nat /\ l + n + 2 \in Nat /\ Back(p) + 1 \in Nat
      /\ h.count \in [Path -> Nat] /\ h.start \in [Path -> Nat] /\ h.end \in [Path -> Nat]
      /\ h.open \subseteq Path /\ h.done \subseteq Path
  <2>1. l + n + 1 \in Nat /\ l + n + 2 \in Nat
    OBVIOUS
  <2>2. Back(p) + 1 \in Nat
    BY <1>3
  <2>3. h.count \in [Path -> Nat] /\ h.start \in [Path -> Nat] /\ h.end \in [Path -> Nat]
    BY <1>2 DEF History
  <2>4. h.open \subseteq Path /\ h.done \subseteq Path
    BY <1>2, NestedPaths
  <2> QED
    BY <2>1, <2>2, <2>3, <2>4
<1>6. PICK count \in [Path -> Nat] : count = [h.count EXCEPT ![PopBack(p)] = Back(p) + 1]
  BY <1>3, <1>5
<1>7. PICK start \in [Path -> Nat] :
        start[p] = l + n + 1 /\ \A q \in Path : q # p => start[q] = h.start[q]
  <2>1. PICK f : f = [h.start EXCEPT ![p] = l + n + 1]
    OBVIOUS
  <2>2. f \in [Path -> Nat] /\ f[p] = l + n + 1 /\ \A q \in Path : q # p => f[q] = h.start[q]
    BY <1>3, <1>5, <2>1, Updated
  <2> QED
    BY <2>2
<1>8. PICK end \in [Path -> Nat] :
        end[p] = l + n + 2 /\ \A q \in Path : q # p => end[q] = h.end[q]
  <2>1. PICK f : f = [h.end EXCEPT ![p] = l + n + 2]
    OBVIOUS
  <2>2. f \in [Path -> Nat] /\ f[p] = l + n + 2 /\ \A q \in Path : q # p => f[q] = h.end[q]
    BY <1>3, <1>5, <2>1, Updated
  <2> QED
    BY <2>2
<1>9. PICK k : /\ k.ast = h.ast /\ k.headed = h.headed
               /\ k.open = h.open /\ k.done = h.done \cup {p}
               /\ k.count = count /\ k.start = start /\ k.end = end
  <2>1. PICK k : k = [ast |-> h.ast, headed |-> h.headed, open |-> h.open,
                      done |-> h.done \cup {p}, count |-> count, start |-> start, end |-> end]
    OBVIOUS
  <2>2. /\ k.ast = h.ast /\ k.headed = h.headed
        /\ k.open = h.open /\ k.done = h.done \cup {p}
        /\ k.count = count /\ k.start = start /\ k.end = end
    BY <2>1
  <2> QED
    BY <2>2
<1>10. Continues(h, s, k, u)
  <2>1. History(k)
    BY <1>2, <1>9 DEF History
  <2>2. /\ \A q \in h.open \cup h.done : k.start[q] = h.start[q]
        /\ \A q \in h.done : k.end[q] = h.end[q]
    BY <1>3, <1>5, <1>7, <1>8, <1>9
  <2>3. l <= l + n + 1
    OBVIOUS
  <2> QED
    BY <1>1, <1>4, <1>9, <2>1, <2>2, <2>3 DEF Continues
<1>11. Nested(k) /\ Current(k, p) /\ Back(p) + 1 = k.count[PopBack(p)]
  <2>1. \A q \in h.open \ {p} : q # Root => PopBack(q) # PopBack(p) /\ PopBack(q) # p
    <3>1. \A q \in h.open : q # Root => PopBack(q) \in h.open
      BY <1>2 DEF Nested
    <3> QED
      BY <1>2, <1>3, <3>1 DEF Current, Innermost
  <2>2. p \in Nodes(h.ast) /\ k.open = h.open \ {p}
    BY <1>2, <1>3, <1>9 DEF Current
  <2>3. k.count = [h.count EXCEPT ![PopBack(p)] = Back(p) + 1]
    BY <1>6, <1>9
  <2>4. p \in DOMAIN h.ast => \A i \in 0 .. h.ast[p] - 1 : Append(p, i) \in h.done
    OBVIOUS
  <2> QED
    BY <1>2, <1>3, <1>9, <2>1, <2>2, <2>3, <2>4, NestedDone
<1>12. Leads(k, u, p, k.start[p])
  <2>1. Leads(k, u, p, l + 1)
    BY <1>2, <1>3, <1>10, LeadsKept
  <2>2. Follows(k, p) /\ History(k)
    BY <1>3, <1>9, <1>10 DEF Follows, Continues
  <2>3. Blank(u, l + 1, l + n + 1)
    <3>1. l + n + 1 - 1 = l + n
      OBVIOUS
    <3> QED
      BY <1>4, <3>1 DEF Blank
  <2>4. l + 1 \in Nat /\ l + 1 <= l + n + 1 /\ l + n + 1 <= l + n + 1 + 1
    OBVIOUS
  <2>5. Leads(k, u, p, l + n + 1)
    BY <1>4, <1>5, <1>11, <2>1, <2>2, <2>3, <2>4, LeadsOn
  <2> QED
    BY <1>7, <1>9, <2>5
<1>13. Whole(k, u, p)
  BY <1>4, <1>7, <1>8, <1>9 DEF Whole
<1>14. Good(k, u)
  <2>1. k.open \subseteq h.open /\ k.done = h.done \cup {p}
    BY <1>9
  <2> QED
    BY <1>10, <1>11, <1>12, <1>13, <2>1, GoodDone
<1>15. Passed(k, u, p)
  BY <1>4, <1>8, <1>9, <1>11 DEF Passed
<1> QED
  BY <1>9, <1>14, <1>15

\* Visit, at a group that has a header.
LEMMA HeaderStep ==
    ASSUME NEW h, NEW s, NEW p, Good(h, s), Reached(h, s, p), p \in DOMAIN h.ast,
           p \in h.headed,
           NEW n \in Nat, NEW u, u = WithHeader(s, n, p)
    PROVE  \E k : Good(k, u) /\ Entered(k, u, p) /\ k.ast = h.ast /\ k.headed = h.headed
<1>1. PICK l \in Nat : l = Len(s) /\ s \in Seq(Tokens)
  BY DEF Good
<1>2. /\ Current(h, p) /\ Back(p) = h.count[PopBack(p)] /\ Leads(h, s, p, l + 1)
      /\ History(h) /\ Nested(h)
  BY <1>1 DEF Reached, Good
<1>3. /\ p \in Path /\ p \notin h.open /\ p \notin h.done /\ Follows(h, p)
  BY <1>2, CurrentIsNew
<1>4. /\ u \in Seq(Tokens) /\ Len(u) = l + n + 2
      /\ u[l + n + 1] = Header(p) /\ u[l + n + 2] = Space
      /\ \A i \in 1 .. l : u[i] = s[i]
      /\ \A i \in l + 1 .. l + n : u[i] = Space
  <2>1. PICK x \in Tokens, y \in Tokens, t \in Seq(Tokens) :
            x = Header(p) /\ y = Space /\ t = Spaces(n)
    BY <1>3, TokensFacts
  <2>2. PICK w : w = t \o <<x, y>> /\ u = s \o w
    BY <2>1 DEF WithHeader
  <2>3. Len(t) = n /\ \A i \in 1 .. n : t[i] = Space
    BY <2>1 DEF Spaces
  <2>4. /\ w \in Seq(Tokens) /\ Len(w) = n + 2 /\ w[n + 1] = x /\ w[n + 2] = y
        /\ \A i \in 1 .. n : w[i] = Space
    <3>1. <<x, y>> \in Seq(Tokens) /\ Len(<<x, y>>) = 2 /\ <<x, y>>[1] = x /\ <<x, y>>[2] = y
      OBVIOUS
    <3>2. PICK v \in Seq(Tokens) : v = <<x, y>>
      BY <3>1
    <3>3. Len(v) = 2 /\ v[1] = x /\ v[2] = y
      BY <3>1, <3>2
    <3>4. /\ t \o v \in Seq(Tokens) /\ Len(t \o v) = Len(t) + Len(v)
          /\ \A i \in 1 .. Len(t) : (t \o v)[i] = t[i]
          /\ \A i \in 1 .. Len(v) : (t \o v)[Len(t) + i] = v[i]
      BY Appended
    <3>5. w = t \o v /\ 1 \in 1 .. 2 /\ 2 \in 1 .. 2
      BY <2>2, <3>2
    <3>6. \A i \in 1 .. n : w[i] = Space
      BY <2>3, <3>4, <3>5
    <3>7. w[n + 1] = x /\ w[n + 2] = y
      BY <2>3, <3>3, <3>4, <3>5
    <3> QED
      BY <2>3, <3>3, <3>4, <3>5, <3>6, <3>7
  <2>5. /\ u \in Seq(Tokens) /\ Len(u) = l + (n + 2)
        /\ \A i \in 1 .. l : u[i] = s[i]
        /\ \A i \in 1 .. n + 2 : u[l + i] = w[i]
    <3>1. /\ s \o w \in Seq(Tokens) /\ Len(s \o w) = Len(s) + Len(w)
          /\ \A i \in 1 .. Len(s) : (s \o w)[i] = s[i]
          /\ \A i \in 1 .. Len(w) : (s \o w)[Len(s) + i] = w[i]
      BY <1>1, <2>4, Appended
    <3> QED
      BY <1>1, <2>2, <2>4, <3>1
  <2>6. \A i \in l + 1 .. l + n : i - l \in 1 .. n /\ l + (i - l) = i /\ i - l \in 1 .. n + 2
    OBVIOUS
  <2>7. /\ n + 1 \in 1 .. n + 2 /\ n + 2 \in 1 .. n + 2
        /\ l + (n + 1) = l + n + 1 /\ l + (n + 2) = l + n + 2
    OBVIOUS
  <2>8. \A i \in l + 1 .. l + n : u[i] = Space
    BY <2>4, <2>5, <2>6
  <2>9. u[l + n + 1] = x /\ u[l + n + 2] = y
    BY <2>4, <2>5, <2>7
  <2> QED
    BY <2>1, <2>5, <2>7, <2>8, <2>9
<1>5. PICK start \in [Path -> Nat] :
        start[p] = l + n + 1 /\ \A q \in Path : q # p => start[q] = h.start[q]
  <2>1. PICK f : f = [h.start EXCEPT ![p] = l + n + 1]
    OBVIOUS
  <2>2. l + n + 1 \in Nat /\ h.start \in [Path -> Nat]
    BY <1>2 DEF History
  <2>3. f \in [Path -> Nat] /\ f[p] = l + n + 1 /\ \A q \in Path : q # p => f[q] = h.start[q]
    BY <1>3, <2>1, <2>2, Updated
  <2> QED
    BY <2>3
<1>6. PICK k : /\ k.ast = h.ast /\ k.headed = h.headed
               /\ k.open = h.open /\ k.done = h.done
               /\ k.count = h.count /\ k.start = start /\ k.end = h.end
  <2>1. PICK k : k = [ast |-> h.ast, headed |-> h.headed, open |-> h.open, done |-> h.done,
                      count |-> h.count, start |-> start, end |-> h.end]
    OBVIOUS
  <2>2. /\ k.ast = h.ast /\ k.headed = h.headed
        /\ k.open = h.open /\ k.done = h.done
        /\ k.count = h.count /\ k.start = start /\ k.end = h.end
    BY <2>1
  <2> QED
    BY <2>2
<1>7. Continues(h, s, k, u)
  <2>1. History(k)
    BY <1>2, <1>6 DEF History
  <2>2. /\ \A q \in h.open \cup h.done : k.start[q] = h.start[q]
        /\ \A q \in h.done : k.end[q] = h.end[q]
    BY <1>2, <1>3, <1>5, <1>6, NestedPaths
  <2>3. l <= l + n + 2
    OBVIOUS
  <2> QED
    BY <1>1, <1>4, <1>6, <2>1, <2>2, <2>3 DEF Continues
<1>8. Nested(k) /\ Current(k, p) /\ Back(p) = k.count[PopBack(p)]
  BY <1>2, <1>6 DEF Nested, Current, Innermost
<1>9. Good(k, u)
  BY <1>6, <1>7, <1>8, GoodSame
<1>10. Leads(k, u, p, l + n + 1)
  <2>1. Leads(k, u, p, l + 1)
    BY <1>2, <1>3, <1>7, LeadsKept
  <2>2. Follows(k, p) /\ History(k)
    BY <1>3, <1>6, <1>7 DEF Follows, Continues
  <2>3. Blank(u, l + 1, l + n + 1)
    <3>1. l + n + 1 - 1 = l + n
      OBVIOUS
    <3> QED
      BY <1>4, <3>1 DEF Blank
  <2>4. /\ l + 1 \in Nat /\ l + n + 1 \in Nat
        /\ l + 1 <= l + n + 1 /\ l + n + 1 <= l + n + 2 + 1
    OBVIOUS
  <2> QED
    BY <1>4, <1>8, <2>1, <2>2, <2>3, <2>4, LeadsOn
<1>11. Entered(k, u, p)
  <2>1. l + n + 1 + 1 = l + n + 2
    OBVIOUS
  <2> QED
    BY <1>4, <1>5, <1>6, <1>8, <1>10, <2>1 DEF Entered
<1> QED
  BY <1>6, <1>9, <1>11

\* Visit, at a group without a header: nothing is printed.
LEMMA PlainStep ==
    ASSUME NEW h, NEW s, NEW p, Good(h, s), Reached(h, s, p), p \in DOMAIN h.ast,
           p \notin h.headed
    PROVE  \E k : Good(k, s) /\ Entered(k, s, p) /\ k.ast = h.ast /\ k.headed = h.headed
<1>1. PICK l \in Nat : l = Len(s) /\ s \in Seq(Tokens)
  BY DEF Good
<1>2. /\ Current(h, p) /\ Back(p) = h.count[PopBack(p)] /\ Leads(h, s, p, l + 1)
      /\ History(h) /\ Nested(h)
  BY <1>1 DEF Reached, Good
<1>3. /\ p \in Path /\ p \notin h.open /\ p \notin h.done /\ Follows(h, p)
  BY <1>2, CurrentIsNew
<1>4. PICK start \in [Path -> Nat] :
        start[p] = l + 1 /\ \A q \in Path : q # p => start[q] = h.start[q]
  <2>1. PICK f : f = [h.start EXCEPT ![p] = l + 1]
    OBVIOUS
  <2>2. l + 1 \in Nat /\ h.start \in [Path -> Nat]
    BY <1>2 DEF History
  <2>3. f \in [Path -> Nat] /\ f[p] = l + 1 /\ \A q \in Path : q # p => f[q] = h.start[q]
    BY <1>3, <2>1, <2>2, Updated
  <2> QED
    BY <2>3
<1>5. PICK k : /\ k.ast = h.ast /\ k.headed = h.headed
               /\ k.open = h.open /\ k.done = h.done
               /\ k.count = h.count /\ k.start = start /\ k.end = h.end
  <2>1. PICK k : k = [ast |-> h.ast, headed |-> h.headed, open |-> h.open, done |-> h.done,
                      count |-> h.count, start |-> start, end |-> h.end]
    OBVIOUS
  <2>2. /\ k.ast = h.ast /\ k.headed = h.headed
        /\ k.open = h.open /\ k.done = h.done
        /\ k.count = h.count /\ k.start = start /\ k.end = h.end
    BY <2>1
  <2> QED
    BY <2>2
<1>6. Continues(h, s, k, s)
  <2>1. History(k)
    BY <1>2, <1>5 DEF History
  <2>2. /\ \A q \in h.open \cup h.done : k.start[q] = h.start[q]
        /\ \A q \in h.done : k.end[q] = h.end[q]
    BY <1>2, <1>3, <1>4, <1>5, NestedPaths
  <2> QED
    BY <1>1, <1>5, <2>1, <2>2 DEF Continues
<1>7. Nested(k) /\ Current(k, p) /\ Back(p) = k.count[PopBack(p)]
  BY <1>2, <1>5 DEF Nested, Current, Innermost
<1>8. Good(k, s)
  BY <1>5, <1>6, <1>7, GoodSame
<1>9. Leads(k, s, p, l + 1)
  <2>1. l + 1 \in Nat
    OBVIOUS
  <2> QED
    BY <1>2, <1>3, <1>6, <2>1, LeadsKept
<1>10. Entered(k, s, p)
  BY <1>1, <1>4, <1>5, <1>7, <1>9 DEF Entered
<1> QED
  BY <1>5, <1>8, <1>10

\* callbacks.downwards: the bracket of the group is opened.
LEMMA DownStep ==
    ASSUME NEW h, NEW s, NEW p, Good(h, s), Entered(h, s, p),
           NEW u, u = Indented(s)
    PROVE  \E k : /\ Good(k, u) /\ Reached(k, u, Append(p, 0))
                  /\ k.ast = h.ast /\ k.headed = h.headed
<1>1. PICK l \in Nat : l = Len(s) /\ s \in Seq(Tokens)
  BY DEF Good
<1>2. /\ Current(h, p) /\ Back(p) = h.count[PopBack(p)] /\ Leads(h, s, p, h.start[p])
      /\ History(h) /\ Nested(h) /\ p \in DOMAIN h.ast
  BY DEF Entered, Good
<1>3. /\ p \in Path /\ p # <<>> /\ p \notin h.open /\ p \notin h.done /\ Follows(h, p)
  BY <1>2, CurrentIsNew
<1>4. /\ u \in Seq(Tokens) /\ Len(u) = l + 2 /\ u[l + 1] = Open /\ u[l + 2] = Space
      /\ \A i \in 1 .. l : u[i] = s[i]
  <2>1. PICK x \in Tokens, y \in Tokens : x = Open /\ y = Space
    BY TokensFacts
  <2>2. PICK w : w = <<x, y>> /\ u = s \o w
    BY <2>1 DEF Indented
  <2>3. w \in Seq(Tokens) /\ Len(w) = 2 /\ w[1] = x /\ w[2] = y
    BY <2>2
  <2>4. /\ s \o w \in Seq(Tokens) /\ Len(s \o w) = Len(s) + Len(w)
        /\ \A i \in 1 .. Len(s) : (s \o w)[i] = s[i]
        /\ \A i \in 1 .. Len(w) : (s \o w)[Len(s) + i] = w[i]
    BY <1>1, <2>3, Appended
  <2>5. 1 \in 1 .. 2 /\ 2 \in 1 .. 2
    OBVIOUS
  <2> QED
    BY <1>1, <2>1, <2>2, <2>3, <2>4, <2>5
<1>5. PICK k : /\ k.ast = h.ast /\ k.headed = h.headed
               /\ k.open = h.open \cup {p} /\ k.done = h.done
               /\ k.count = [h.count EXCEPT ![p] = 0] /\ k.start = h.start /\ k.end = h.end
  <2>1. PICK k : k = [ast |-> h.ast, headed |-> h.headed, open |-> h.open \cup {p},
                      done |-> h.done, count |-> [h.count EXCEPT ![p] = 0],
                      start |-> h.start, end |-> h.end]
    OBVIOUS
  <2>2. /\ k.ast = h.ast /\ k.headed = h.headed
        /\ k.open = h.open \cup {p} /\ k.done = h.done
        /\ k.count = [h.count EXCEPT ![p] = 0] /\ k.start = h.start /\ k.end = h.end
    BY <2>1
  <2> QED
    BY <2>2
<1>6. Continues(h, s, k, u)
  <2>1. History(k)
    <3>0. 0 \in Nat /\ h.count \in [Path -> Nat]
      BY <1>2 DEF History
    <3>1. k.count \in [Path -> Nat]
      BY <1>3, <1>5, <3>0, Updated
    <3> QED
      BY <1>2, <1>5, <3>1 DEF History
  <2>2. l <= l + 2
    OBVIOUS
  <2> QED
    BY <1>1, <1>4, <1>5, <2>1, <2>2 DEF Continues
<1>7. /\ Nested(k) /\ Current(k, Append(p, 0)) /\ k.count[p] = 0
      /\ Back(Append(p, 0)) = 0 /\ PopBack(Append(p, 0)) = p
  BY <1>2, <1>5, NestedOpen
<1>8. PICK i \in Nat : i = h.start[p] /\ i = k.start[p]
  BY <1>2, <1>3, <1>5 DEF History
<1>9. /\ 1 <= i /\ i <= l + 1 /\ After(k, p) = l + 2 /\ Opening(k, u, p)
  <2>1. PICK f \in Nat : f = From(h, p)
    BY <1>2, <1>3, FromIsNat
  <2>2. 1 <= f /\ f <= i /\ i <= l + 1
    BY <1>1, <1>2, <1>8, <2>1 DEF Leads
  <2>3. CASE p \in h.headed
    <3>1. i + 1 = l /\ s[i] = Header(p) /\ s[i + 1] = Space
      BY <1>1, <1>8, <2>3 DEF Entered
    <3>2. After(k, p) = i + 3
      BY <1>5, <1>8, <2>3 DEF After
    <3>3. i + 3 = l + 2 /\ i + 2 = l + 1 /\ i \in 1 .. l /\ i + 1 \in 1 .. l
      BY <2>1, <2>2, <3>1
    <3>4. u[i] = Header(p) /\ u[i + 1] = Space /\ u[i + 2] = Open
      BY <1>4, <3>1, <3>3
    <3>5. l + 2 <= l + 2 + 1
      OBVIOUS
    <3>6. After(k, p) = l + 2 /\ After(k, p) <= Len(u) + 1
      BY <1>4, <3>2, <3>3, <3>5
    <3>7. 1 <= i /\ i <= l + 1
      BY <2>1, <2>2
    <3>8. Opening(k, u, p)
      BY <1>5, <1>8, <2>3, <3>4, <3>6, <3>7 DEF Opening
    <3> QED
      BY <3>6, <3>7, <3>8
  <2>4. CASE p \notin h.headed
    <3>1. i = l + 1
      BY <1>1, <1>8, <2>4 DEF Entered
    <3>2. After(k, p) = i + 1
      BY <1>5, <1>8, <2>4 DEF After
    <3>3. i + 1 = l + 2 /\ l + 2 <= l + 2 + 1 /\ u[i] = Open
      BY <1>4, <3>1
    <3>4. After(k, p) = l + 2 /\ After(k, p) <= Len(u) + 1
      BY <1>4, <3>2, <3>3
    <3>5. 1 <= i /\ i <= l + 1
      BY <2>1, <2>2
    <3>6. Opening(k, u, p)
      BY <1>5, <1>8, <2>4, <3>3, <3>4, <3>5 DEF Opening
    <3> QED
      BY <3>4, <3>5, <3>6
  <2> QED
    BY <2>3, <2>4
<1>10. Good(k, u)
  <2>1. Leads(k, u, p, k.start[p])
    BY <1>2, <1>3, <1>6, <1>8, LeadsKept
  <2>2. p # Root /\ k.done = h.done
    BY <1>3, <1>5 DEF Root
  <2>3. /\ \A q \in h.done : Leads(k, u, q, k.start[q]) /\ Whole(k, u, q)
        /\ \A g \in h.open : g # Root => Leads(k, u, g, k.start[g]) /\ Opening(k, u, g)
        /\ IF Root \in k.headed THEN k.start[Root] = 1 /\ Opening(k, u, Root)
           ELSE k.start[Root] = 0
    BY <1>6, WrittenKept
  <2>4. \A g \in k.open : g # Root => Leads(k, u, g, k.start[g]) /\ Opening(k, u, g)
    BY <1>5, <1>9, <2>1, <2>3
  <2>5. Written(k, u)
    BY <2>2, <2>3, <2>4 DEF Written
  <2> QED
    BY <1>6, <1>7, <2>5 DEF Good, Continues
<1>11. Leads(k, u, Append(p, 0), l + 3)
  <2>1. From(k, Append(p, 0)) = l + 2
    BY <1>7, <1>9 DEF From
  <2>2. Blank(u, l + 2, l + 3)
    <3>1. \A j \in l + 2 .. (l + 3) - 1 : j = l + 2
      OBVIOUS
    <3>2. \A j \in l + 2 .. (l + 3) - 1 : u[j] = Space
      BY <1>4, <3>1
    <3> QED
      BY <3>2 DEF Blank
  <2>3. 1 <= l + 2 /\ l + 2 <= l + 3 /\ l + 3 <= l + 2 + 1 /\ l + 2 # l + 3
    OBVIOUS
  <2> QED
    BY <1>4, <2>1, <2>2, <2>3 DEF Leads
<1>12. Reached(k, u, Append(p, 0))
  <2>1. l + 3 = l + 2 + 1
    OBVIOUS
  <2> QED
    BY <1>4, <1>7, <1>11, <2>1 DEF Reached
<1> QED
  BY <1>5, <1>10, <1>12

\* callbacks.right: a line break before the next node of the group.
LEMMA RightStep ==
    ASSUME NEW h, NEW s, NEW p, Good(h, s), Passed(h, s, p),
           Back(p) + 1 < h.ast[PopBack(p)], NEW u, u = Append(s, Space)
    PROVE  Good(h, u) /\ Reached(h, u, Append(PopBack(p), Back(p) + 1))
<1>1. PICK l \in Nat : l = Len(s) /\ s \in Seq(Tokens)
  BY DEF Good
<1>2. /\ Current(h, p) /\ Back(p) + 1 = h.count[PopBack(p)] /\ h.end[p] = l + 1
      /\ History(h) /\ Nested(h) /\ IsTree(h.ast) /\ p \in Nodes(h.ast)
      /\ PopBack(p) \in h.open
  BY <1>1 DEF Passed, Good, Current, History, Innermost
<1>3. PICK g, b : g = PopBack(p) /\ b = Back(p)
  OBVIOUS
<1>4. /\ p \in Path /\ g \in Path /\ b \in Nat /\ p = Append(g, b) /\ b + 1 \in Nat
      /\ g \in DOMAIN h.ast /\ b + 1 < h.ast[g]
  BY <1>2, <1>3, NodeIsChild, PathSplit
<1>5. PICK q : q = Append(g, b + 1)
  OBVIOUS
<1>6. PopBack(q) = g /\ Back(q) = b + 1 /\ q \in Nodes(h.ast)
  BY <1>2, <1>4, <1>5, PathAppend, ChildIsNode
<1>7. /\ u \in Seq(Tokens) /\ Len(u) = l + 1 /\ u[l + 1] = Space
      /\ \A i \in 1 .. l : u[i] = s[i]
  <2>1. PICK x \in Tokens : x = Space
    BY TokensFacts
  <2>2. u = Append(s, x)
    BY <2>1
  <2> QED
    BY <1>1, <2>1, <2>2
<1>8. Continues(h, s, h, u)
  <2>1. l <= l + 1
    OBVIOUS
  <2> QED
    BY <1>1, <1>2, <1>7, <2>1 DEF Continues
<1>9. Good(h, u)
  BY <1>2, <1>8, GoodSame
<1>10. Leads(h, u, q, l + 2)
  <2>1. From(h, q) = l + 1
    <3>1. b + 1 # 0 /\ b + 1 - 1 = b
      BY <1>4
    <3> QED
      BY <1>2, <1>4, <1>6, <3>1 DEF From
  <2>2. Blank(u, l + 1, l + 2)
    <3>1. \A j \in l + 1 .. l + 2 - 1 : j = l + 1
      OBVIOUS
    <3> QED
      BY <1>7, <3>1 DEF Blank
  <2>3. 1 <= l + 1 /\ l + 1 <= l + 2 /\ l + 2 <= l + 1 + 1 /\ l + 1 # l + 2
    OBVIOUS
  <2> QED
    BY <1>7, <2>1, <2>2, <2>3 DEF Leads
<1>11. Reached(h, u, q)
  <2>1. l + 2 = l + 1 + 1
    OBVIOUS
  <2>2. Current(h, q)
    BY <1>2, <1>3, <1>6 DEF Current
  <2> QED
    BY <1>2, <1>3, <1>6, <1>7, <1>10, <2>1, <2>2 DEF Reached
<1> QED
  BY <1>3, <1>5, <1>9, <1>11

\* The text when OnUpwards has printed.

\* The tokens that OnUpwards appends.
LEMMA ClosedText ==
    ASSUME NEW s \in Seq(Tokens), NEW n \in Nat
    PROVE  /\ Unindented(s, n) \in Seq(Tokens)
           /\ Len(Unindented(s, n)) = Len(s) + n + 2
           /\ Unindented(s, n)[Len(s) + n + 2] = Close
           /\ \A i \in 1 .. Len(s) : Unindented(s, n)[i] = s[i]
           /\ \A i \in Len(s) + 1 .. Len(s) + n + 1 : Unindented(s, n)[i] = Space
<1> DEFINE l == Len(s)
           u == Unindented(s, n)
<1>1. PICK x \in Tokens, y \in Tokens, t \in Seq(Tokens) :
          x = Space /\ y = Close /\ t = Spaces(n)
  BY TokensFacts
<1>2. Len(t) = n /\ \A i \in 1 .. n : t[i] = Space
  BY <1>1 DEF Spaces
<1>3. l \in Nat /\ l = Len(s)
  OBVIOUS
<1> HIDE DEF l, u
<1>4. PICK v \in Seq(Tokens) : v = <<x>> /\ Len(v) = 1 /\ v[1] = x
  <2>1. PICK one : one = <<x>>
    OBVIOUS
  <2>2. one \in Seq(Tokens) /\ Len(one) = 1 /\ one[1] = x
    BY <2>1
  <2> QED
    BY <2>1, <2>2
<1>5. PICK w \in Seq(Tokens) : w = <<y>> /\ Len(w) = 1 /\ w[1] = y
  <2>1. PICK one : one = <<y>>
    OBVIOUS
  <2>2. one \in Seq(Tokens) /\ Len(one) = 1 /\ one[1] = y
    BY <2>1
  <2> QED
    BY <2>1, <2>2
<1>6. PICK a \in Seq(Tokens) : a = s \o v
  BY Appended
<1>7. /\ Len(a) = l + 1 /\ a[l + 1] = Space
      /\ \A i \in 1 .. l : a[i] = s[i]
  <2>1. /\ Len(s \o v) = Len(s) + Len(v)
        /\ \A i \in 1 .. Len(s) : (s \o v)[i] = s[i]
        /\ \A i \in 1 .. Len(v) : (s \o v)[Len(s) + i] = v[i]
    BY Appended
  <2>2. 1 \in 1 .. 1
    OBVIOUS
  <2> QED
    BY <1>1, <1>3, <1>4, <1>6, <2>1, <2>2
<1>8. PICK b \in Seq(Tokens) : b = a \o t
  BY Appended
<1>9. /\ Len(b) = l + 1 + n
      /\ \A i \in 1 .. l : b[i] = s[i]
      /\ \A i \in l + 1 .. l + n + 1 : b[i] = Space
  <2>1. /\ Len(b) = l + 1 + n
        /\ \A i \in 1 .. l + 1 : b[i] = a[i]
        /\ \A i \in 1 .. n : b[l + 1 + i] = t[i]
    <3>1. /\ Len(a \o t) = Len(a) + Len(t)
          /\ \A i \in 1 .. Len(a) : (a \o t)[i] = a[i]
          /\ \A i \in 1 .. Len(t) : (a \o t)[Len(a) + i] = t[i]
      BY Appended
    <3> QED
      BY <1>2, <1>7, <1>8, <3>1
  <2>2. \A i \in 1 .. l : i \in 1 .. l + 1
    BY <1>3
  <2>3. l + 1 \in 1 .. l + 1
    BY <1>3
  <2>4. ASSUME NEW i \in l + 1 .. l + n + 1, i # l + 1
        PROVE  b[i] = Space
    <3>1. PICK j \in 1 .. n : l + 1 + j = i
      <4>1. i - (l + 1) \in 1 .. n /\ l + 1 + (i - (l + 1)) = i
        BY <1>3, <2>4
      <4> QED
        BY <4>1
    <3> QED
      BY <1>2, <2>1, <3>1
  <2>5. \A i \in l + 1 .. l + n + 1 : b[i] = Space
    BY <1>7, <2>1, <2>3, <2>4
  <2> QED
    BY <1>7, <2>1, <2>2, <2>5
<1>10. u = b \o w
  BY <1>1, <1>4, <1>5, <1>6, <1>8 DEF Unindented, u
<1>11. /\ u \in Seq(Tokens) /\ Len(u) = l + 1 + n + 1 /\ u[l + 1 + n + 1] = Close
       /\ \A i \in 1 .. l + 1 + n : u[i] = b[i]
  <2>1. /\ b \o w \in Seq(Tokens) /\ Len(b \o w) = Len(b) + Len(w)
        /\ \A i \in 1 .. Len(b) : (b \o w)[i] = b[i]
        /\ \A i \in 1 .. Len(w) : (b \o w)[Len(b) + i] = w[i]
    BY Appended
  <2>2. 1 \in 1 .. 1
    OBVIOUS
  <2>3. /\ u \in Seq(Tokens) /\ Len(u) = (l + 1 + n) + 1
        /\ \A i \in 1 .. l + 1 + n : u[i] = b[i]
        /\ \A i \in 1 .. 1 : u[(l + 1 + n) + i] = w[i]
    BY <1>5, <1>9, <1>10, <2>1
  <2>4. u[(l + 1 + n) + 1] = Close
    BY <1>1, <1>5, <2>2, <2>3
  <2> QED
    BY <2>3, <2>4
<1>12. l + 1 + n + 1 = l + n + 2 /\ l + 1 + n = l + n + 1
  BY <1>3
<1>13. /\ \A i \in 1 .. l : i \in 1 .. l + n + 1
       /\ \A i \in l + 1 .. l + n + 1 : i \in 1 .. l + n + 1
  BY <1>3
<1> QED
  BY <1>3, <1>9, <1>11, <1>12, <1>13 DEF l, u

\* callbacks.upwards: the group's bracket is closed, and the group is done.
LEMMA UpStep ==
    ASSUME NEW h, NEW s, NEW p, Good(h, s), Passed(h, s, p),
           Back(p) + 1 = h.ast[PopBack(p)], PopBack(p) # Root,
           NEW n \in Nat, NEW u, u = Unindented(s, n)
    PROVE  \E k : /\ Good(k, u) /\ Passed(k, u, PopBack(p))
                  /\ k.ast = h.ast /\ k.headed = h.headed
<1>1. PICK l \in Nat : l = Len(s) /\ s \in Seq(Tokens)
  BY DEF Good
<1>2. /\ Current(h, p) /\ Back(p) + 1 = h.count[PopBack(p)] /\ h.end[p] = l + 1
      /\ History(h) /\ Nested(h) /\ IsTree(h.ast) /\ p \in Nodes(h.ast)
  BY <1>1 DEF Passed, Good, Current, History
<1>3. PICK g : g = PopBack(p)
  OBVIOUS
<1>4. /\ p \in Path /\ g \in Path /\ Back(p) \in Nat /\ p = Append(g, Back(p))
      /\ g \in DOMAIN h.ast /\ g \in h.open /\ h.count[g] = h.ast[g]
      /\ \A q \in h.open : q # Root => PopBack(q) # g
  BY <1>2, <1>3, NodeIsChild, PathSplit DEF Current, Innermost
<1>5. /\ g \in Nodes(h.ast) /\ g # Root /\ g # <<>> /\ g \notin h.done /\ Follows(h, g)
      /\ PopBack(g) \in h.open /\ Back(g) = h.count[PopBack(g)]
  BY <1>2, <1>3, <1>4, OpenFollows DEF Nested, Root
<1>6. PopBack(g) \in Path /\ Back(g) \in Nat /\ g = Append(PopBack(g), Back(g))
  BY <1>4, <1>5, PathSplit
<1>7. /\ u \in Seq(Tokens) /\ Len(u) = l + n + 2 /\ u[l + n + 2] = Close
      /\ \A i \in 1 .. l : u[i] = s[i]
      /\ \A i \in l + 1 .. l + n + 1 : u[i] = Space
  BY <1>1, ClosedText
<1>8. PICK end \in [Path -> Nat] :
        end[g] = l + n + 3 /\ \A q \in Path : q # g => end[q] = h.end[q]
  <2>1. PICK f : f = [h.end EXCEPT ![g] = l + n + 3]
    OBVIOUS
  <2>2. l + n + 3 \in Nat /\ h.end \in [Path -> Nat]
    BY <1>2 DEF History
  <2>3. f \in [Path -> Nat] /\ f[g] = l + n + 3 /\ \A q \in Path : q # g => f[q] = h.end[q]
    BY <1>4, <2>1, <2>2, Updated
  <2> QED
    BY <2>3
<1>9. PICK count \in [Path -> Nat] : count = [h.count EXCEPT ![PopBack(g)] = Back(g) + 1]
  <2>1. Back(g) + 1 \in Nat /\ h.count \in [Path -> Nat]
    BY <1>2, <1>6 DEF History
  <2> QED
    BY <1>6, <2>1
<1>10. PICK k : /\ k.ast = h.ast /\ k.headed = h.headed
                /\ k.open = h.open \ {g} /\ k.done = h.done \cup {g}
                /\ k.count = count /\ k.start = h.start /\ k.end = end
  <2>1. PICK k : k = [ast |-> h.ast, headed |-> h.headed, open |-> h.open \ {g},
                      done |-> h.done \cup {g}, count |-> count,
                      start |-> h.start, end |-> end]
    OBVIOUS
  <2>2. /\ k.ast = h.ast /\ k.headed = h.headed
        /\ k.open = h.open \ {g} /\ k.done = h.done \cup {g}
        /\ k.count = count /\ k.start = h.start /\ k.end = end
    BY <2>1
  <2> QED
    BY <2>2
<1>11. Continues(h, s, k, u)
  <2>1. History(k)
    BY <1>2, <1>10 DEF History
  <2>2. \A q \in h.done : k.end[q] = h.end[q]
    BY <1>2, <1>5, <1>8, <1>10, NestedPaths
  <2>3. l <= l + n + 2
    OBVIOUS
  <2> QED
    BY <1>1, <1>7, <1>10, <2>1, <2>2, <2>3 DEF Continues
<1>12. Nested(k) /\ Current(k, g) /\ Back(g) + 1 = k.count[PopBack(g)]
  <2>1. ASSUME NEW q \in h.open \ {g}, q # Root
        PROVE  PopBack(q) # PopBack(g) /\ PopBack(q) # g
    <3>1. q \in Path /\ q # <<>> /\ Back(q) = h.count[PopBack(q)]
      BY <1>2, <2>1, NestedPaths DEF Nested, Root
    <3>2. q = Append(PopBack(q), h.count[PopBack(q)])
      BY <3>1, PathSplit
    <3>3. PopBack(q) # PopBack(g)
      BY <1>5, <1>6, <2>1, <3>2
    <3> QED
      BY <1>4, <2>1, <3>3
  <2>2. \A i \in 0 .. h.ast[g] - 1 : Append(g, i) \in h.done
    <3>1. h.ast[g] \in Nat
      BY <1>2, <1>4 DEF IsTree
    <3>2. \A i \in 0 .. h.ast[g] - 1 : i \in Nat /\ i < h.ast[g]
      BY <3>1
    <3> QED
      BY <1>2, <1>4, <3>2 DEF Nested
  <2>3. k.count = [h.count EXCEPT ![PopBack(g)] = Back(g) + 1]
    BY <1>9, <1>10
  <2>4. \A q \in h.open \ {g} : q # Root => PopBack(q) # PopBack(g) /\ PopBack(q) # g
    BY <2>1
  <2>5. g \in DOMAIN h.ast => \A i \in 0 .. h.ast[g] - 1 : Append(g, i) \in h.done
    BY <2>2
  <2>6. /\ History(h) /\ Nested(h) /\ g \in Nodes(h.ast) /\ g \notin h.done
        /\ PopBack(g) \in h.open /\ Back(g) = h.count[PopBack(g)]
        /\ k.ast = h.ast /\ k.open = h.open \ {g} /\ k.done = h.done \cup {g}
    BY <1>2, <1>5, <1>10
  <2> QED
    BY <2>3, <2>4, <2>5, <2>6, NestedDone
<1>13. PICK i \in Nat : i = h.start[g] /\ i = k.start[g]
  BY <1>2, <1>4, <1>10 DEF History
<1>14. Leads(k, u, g, k.start[g]) /\ Opening(k, u, g)
  BY <1>4, <1>5, <1>11, WrittenKept
<1>15. Closing(k, u, g)
  <2>1. LastEnd(k, g) = l + 1
    <3>0. PICK b \in Nat : b = Back(p) /\ b + 1 = h.ast[g]
      BY <1>3, <1>4
    <3>1. h.ast[g] - 1 = Back(p)
      BY <3>0
    <3>2. p # g
      <4>1. Len(g) = Len(p) - 1 /\ Len(p) \in Nat
        BY <1>2, <1>3, NodeIsChild, PathSplit
      <4> QED
        BY <4>1
    <3> QED
      BY <1>2, <1>4, <1>8, <1>10, <3>1, <3>2 DEF LastEnd
  <2>2. Blank(u, l + 1, (l + n + 3) - 1)
    <3>1. (l + n + 3) - 1 - 1 = l + n + 1
      OBVIOUS
    <3> QED
      BY <1>7, <3>1 DEF Blank
  <2>3. /\ 1 <= l + 1 /\ l + 1 + 1 < l + n + 3 /\ l + n + 3 <= l + n + 2 + 1
        /\ (l + n + 3) - 1 = l + n + 2
    OBVIOUS
  <2>4. k.end[g] = l + n + 3
    BY <1>8, <1>10
  <2> QED
    BY <1>7, <2>1, <2>2, <2>3, <2>4 DEF Closing
<1>16. Good(k, u)
  <2>1. Whole(k, u, g)
    BY <1>4, <1>10, <1>14, <1>15 DEF Whole
  <2>2. k.open \subseteq h.open /\ k.done = h.done \cup {g}
    BY <1>10
  <2> QED
    BY <1>11, <1>12, <1>14, <2>1, <2>2, GoodDone
<1>17. Passed(k, u, g)
  <2>1. k.end[g] = l + n + 3 /\ l + n + 3 = l + n + 2 + 1
    BY <1>8, <1>10
  <2> QED
    BY <1>7, <1>12, <2>1 DEF Passed
<1> QED
  BY <1>3, <1>10, <1>16, <1>17

\* The last node of all is passed.
LEMMA EndStep ==
    ASSUME NEW h, NEW s, NEW p, Good(h, s), Passed(h, s, p),
           Back(p) + 1 = h.ast[PopBack(p)], PopBack(p) = Root
    PROVE  AllPassed(h, s)
<1>1. /\ p \in Nodes(h.ast) /\ IsTree(h.ast) /\ h.count[Root] = h.ast[Root]
      /\ h.end[p] = Len(s) + 1
  BY DEF Passed, Good, Current, History
<1>2. PICK b \in Nat : b = Back(p) /\ p = Append(Root, b) /\ b + 1 = h.ast[Root]
  BY <1>1, NodeIsChild, PathSplit
<1>3. h.ast[Root] - 1 = b
  BY <1>2
<1> QED
  BY <1>1, <1>2, <1>3 DEF AllPassed, LastEnd

\* Finish: the bracket of an expression that has a header.
LEMMA FinishStep ==
    ASSUME NEW h, NEW s, Good(h, s), AllPassed(h, s), Root \in h.headed,
           NEW n \in Nat, NEW u, u = Unindented(s, n)
    PROVE  \E k : Good(k, u) /\ Printed(k, u) /\ k.ast = h.ast /\ k.headed = h.headed
<1>1. PICK l \in Nat : l = Len(s) /\ s \in Seq(Tokens)
  BY DEF Good
<1>2. /\ History(h) /\ Nested(h) /\ h.count[Root] = h.ast[Root] /\ LastEnd(h, Root) = l + 1
      /\ Root \in h.open /\ Root \in Path /\ Root \notin h.done /\ Root \in DOMAIN h.ast
  BY <1>1, NestedPaths DEF Good, AllPassed, Nested
<1>3. /\ u \in Seq(Tokens) /\ Len(u) = l + n + 2 /\ u[l + n + 2] = Close
      /\ \A i \in 1 .. l : u[i] = s[i]
      /\ \A i \in l + 1 .. l + n + 1 : u[i] = Space
  BY <1>1, ClosedText
<1>4. PICK end \in [Path -> Nat] :
        end[Root] = l + n + 3 /\ \A q \in Path : q # Root => end[q] = h.end[q]
  <2>1. PICK f : f = [h.end EXCEPT ![Root] = l + n + 3]
    OBVIOUS
  <2>2. l + n + 3 \in Nat /\ h.end \in [Path -> Nat]
    BY <1>2 DEF History
  <2>3. /\ f \in [Path -> Nat] /\ f[Root] = l + n + 3
        /\ \A q \in Path : q # Root => f[q] = h.end[q]
    BY <1>2, <2>1, <2>2, Updated
  <2> QED
    BY <2>3
<1>5. PICK k : /\ k.ast = h.ast /\ k.headed = h.headed
               /\ k.open = h.open /\ k.done = h.done
               /\ k.count = h.count /\ k.start = h.start /\ k.end = end
  <2>1. PICK k : k = [ast |-> h.ast, headed |-> h.headed, open |-> h.open, done |-> h.done,
                      count |-> h.count, start |-> h.start, end |-> end]
    OBVIOUS
  <2>2. /\ k.ast = h.ast /\ k.headed = h.headed
        /\ k.open = h.open /\ k.done = h.done
        /\ k.count = h.count /\ k.start = h.start /\ k.end = end
    BY <2>1
  <2> QED
    BY <2>2
<1>6. Continues(h, s, k, u)
  <2>1. History(k)
    BY <1>2, <1>5 DEF History
  <2>2. \A q \in h.done : k.end[q] = h.end[q]
    BY <1>2, <1>4, <1>5, NestedPaths
  <2>3. l <= l + n + 2
    OBVIOUS
  <2> QED
    BY <1>1, <1>3, <1>5, <2>1, <2>2, <2>3 DEF Continues
<1>7. Nested(k)
  BY <1>2, <1>5 DEF Nested
<1>8. Good(k, u)
  BY <1>5, <1>6, <1>7, GoodSame
<1>9. Closing(k, u, Root)
  <2>1. LastEnd(k, Root) = l + 1
    <3>1. Append(Root, h.ast[Root] - 1) \in h.done
      BY <1>2, LastIsDone
    <3>2. Append(Root, h.ast[Root] - 1) \in Path /\ Append(Root, h.ast[Root] - 1) # Root
      BY <1>2, <3>1, NestedPaths
    <3> QED
      BY <1>2, <1>4, <1>5, <3>2 DEF LastEnd
  <2>2. Blank(u, l + 1, (l + n + 3) - 1)
    <3>1. (l + n + 3) - 1 - 1 = l + n + 1
      OBVIOUS
    <3> QED
      BY <1>3, <3>1 DEF Blank
  <2>3. /\ 1 <= l + 1 /\ l + 1 + 1 < l + n + 3 /\ l + n + 3 <= l + n + 2 + 1
        /\ (l + n + 3) - 1 = l + n + 2
    OBVIOUS
  <2>4. k.end[Root] = l + n + 3
    BY <1>4, <1>5
  <2> QED
    BY <1>3, <2>1, <2>2, <2>3, <2>4 DEF Closing
<1>10. Printed(k, u)
  <2>1. k.end[Root] = l + n + 3 /\ l + n + 3 = l + n + 2 + 1
    BY <1>4, <1>5
  <2> QED
    BY <1>2, <1>3, <1>5, <1>9, <2>1 DEF Printed
<1> QED
  BY <1>5, <1>8, <1>10

\* Start: the header and the bracket of the expression, and its first node.
LEMMA StartStep ==
    ASSUME NEW t, IsTree(t), \A g \in DOMAIN t : t[g] > 0,
           NEW headers, headers \subseteq DOMAIN t,
           NEW u, u = IF Root \in headers THEN <<Header(Root), Space, Open, Space>> ELSE <<>>
    PROVE  \E k : /\ Good(k, u) /\ Reached(k, u, Append(Root, 0))
                  /\ k.ast = t /\ k.headed = headers
<1>1. PICK from \in Nat : from = IF Root \in headers THEN 1 ELSE 0
  OBVIOUS
<1>2. PICK k : /\ k.ast = t /\ k.headed = headers /\ k.open = {Root} /\ k.done = {}
               /\ k.count = [p \in Path |-> 0] /\ k.start = [p \in Path |-> from]
               /\ k.end = [p \in Path |-> 0]
  <2>1. PICK k : k = [ast |-> t, headed |-> headers, open |-> {Root}, done |-> {},
                      count |-> [p \in Path |-> 0], start |-> [p \in Path |-> from],
                      end |-> [p \in Path |-> 0]]
    OBVIOUS
  <2>2. /\ k.ast = t /\ k.headed = headers /\ k.open = {Root} /\ k.done = {}
        /\ k.count = [p \in Path |-> 0] /\ k.start = [p \in Path |-> from]
        /\ k.end = [p \in Path |-> 0]
    BY <2>1
  <2> QED
    BY <2>2
<1>3. /\ Root \in Path /\ Root \in DOMAIN t /\ t[Root] \in Nat /\ t[Root] > 0
      /\ k.count[Root] = 0 /\ k.start[Root] = from
  BY <1>2 DEF IsTree
<1>4. History(k)
  <2>1. 0 \in Nat
    OBVIOUS
  <2> QED
    BY <1>2, <2>1 DEF History
<1>5. PICK p : p = Append(Root, 0)
  OBVIOUS
<1>6. PopBack(p) = Root /\ Back(p) = 0 /\ p \in Nodes(t)
  BY <1>3, <1>5, PathAppend, ChildIsNode
<1>7. Nested(k)
  <2>1. 0 <= t[Root] /\ \A i \in Nat : ~(i < 0)
    BY <1>3
  <2> QED
    BY <1>2, <1>3, <2>1 DEF Nested
<1>8. CASE Root \in headers
  <2>1. PICK x \in Tokens, y \in Tokens, z \in Tokens : x = Header(Root) /\ y = Space /\ z = Open
    BY <1>3, TokensFacts
  <2>2. u = <<x, y, z, y>>
    BY <1>8, <2>1
  <2>3. u \in Seq(Tokens) /\ Len(u) = 4 /\ u[1] = x /\ u[2] = y /\ u[3] = z /\ u[4] = y
    BY <2>2
  <2>4. k.start[Root] = 1 /\ After(k, Root) = 4
    BY <1>1, <1>2, <1>3, <1>8 DEF After
  <2>5. Opening(k, u, Root)
    BY <1>2, <1>8, <2>1, <2>3, <2>4 DEF Opening
  <2>6. Written(k, u)
    BY <1>2, <2>4, <2>5, <1>8 DEF Written
  <2>7. Leads(k, u, p, 5)
    <3>1. From(k, p) = 4
      BY <1>6, <2>4 DEF From
    <3>2. Blank(u, 4, 5)
      BY <2>1, <2>3 DEF Blank
    <3> QED
      BY <2>3, <3>1, <3>2 DEF Leads
  <2> QED
    BY <1>2, <1>3, <1>4, <1>5, <1>6, <1>7, <2>3, <2>6, <2>7
    DEF Good, Reached, Current, Innermost
<1>9. CASE Root \notin headers
  <2>1. u = <<>> /\ u \in Seq(Tokens) /\ Len(u) = 0
    BY <1>9
  <2>2. k.start[Root] = 0 /\ After(k, Root) = 1
    BY <1>1, <1>2, <1>3, <1>9 DEF After
  <2>3. Written(k, u)
    BY <1>2, <2>2, <1>9 DEF Written
  <2>4. Leads(k, u, p, 1)
    <3>1. From(k, p) = 1
      BY <1>6, <2>2 DEF From
    <3>2. Blank(u, 1, 1)
      BY DEF Blank
    <3> QED
      BY <1>2, <1>6, <1>9, <2>1, <3>1, <3>2 DEF Leads
  <2> QED
    BY <1>2, <1>3, <1>4, <1>5, <1>6, <1>7, <2>1, <2>3, <2>4
    DEF Good, Reached, Current, Innermost
<1> QED
  BY <1>8, <1>9

-----------------------------------------------------------------------------
(* The printer keeps the record                                            *)

\* What the record says where the printer stands.
Recorded(h) ==
    /\ h.ast = ast /\ h.headed = headed /\ Good(h, out)
    /\ stage = "loop" => IF node = Null THEN AllPassed(h, out) ELSE Reached(h, out, node)
    /\ stage = "advance" =>
          IF pc = "idle" /\ node \in DOMAIN ast THEN Entered(h, out, node)
          ELSE Passed(h, out, node)
    /\ stage = "done" => Printed(h, out)

NoEmptyGroup == \A g \in DOMAIN ast : ast[g] > 0

\* All of the text is accounted for.
TextInv ==
    NoEmptyGroup =>
        IF stage = "start" THEN out = <<>> /\ node = Append(Root, 0)
        ELSE \E h : Recorded(h)

\* TextInv holds at first and after each step of the printer.
LEMMA InitTextInv == PInit => TextInv
<1> SUFFICES ASSUME PInit, NoEmptyGroup PROVE TextInv
  BY DEF TextInv
<1>1. /\ node = (IF ast[Root] = 0 THEN Null ELSE <<0>>) /\ out = <<>> /\ stage = "start"
      /\ ast \in Trees
  BY DEF PInit
<1>2. ast[Root] # 0
  BY <1>1, TreesAssumption DEF NoEmptyGroup, IsTree
<1>3. node = Append(Root, 0)
  BY <1>1, <1>2 DEF Root
<1> QED
  BY <1>1, <1>3 DEF TextInv

LEMMA StartTextInv ==
    ASSUME IInv, PInv, TextInv, NoEmptyGroup, Start PROVE TextInv'
<1>1. /\ stage = "start" /\ stage' = "loop" /\ IsTree(ast) /\ headed \subseteq DOMAIN ast
      /\ UNCHANGED <<ast, node, headed>>
  BY DEF Start, vars, IInv, TypeOK, PInv
<1>2. out = <<>> /\ node = Append(Root, 0)
  BY <1>1 DEF TextInv
<1>3. out' = IF Root \in headed THEN <<Header(Root), Space, Open, Space>> ELSE <<>>
  BY <1>2 DEF Start
<1>4. PICK k : /\ Good(k, out') /\ Reached(k, out', Append(Root, 0))
               /\ k.ast = ast /\ k.headed = headed
  BY <1>1, <1>3, StartStep DEF NoEmptyGroup
<1>5. node' # Null
  <2>1. Root \in Path /\ 0 \in Nat
    BY DEF Root, Path
  <2> QED
    BY <1>1, <1>2, <2>1, PathAppend DEF Null
<1>6. Recorded(k)'
  BY <1>1, <1>2, <1>4, <1>5 DEF Recorded
<1> QED
  BY <1>1, <1>6 DEF TextInv

LEMMA VisitTextInv ==
    ASSUME IInv, PInv, TextInv, NoEmptyGroup, Visit PROVE TextInv'
<1>1. /\ stage = "loop" /\ stage' = "advance" /\ ~AtEnd
      /\ UNCHANGED <<ast, node, pc, headed>>
  BY DEF Visit, vars
<1>2. node # Null /\ pc = "idle" /\ spacing \in Nat
  BY <1>1, AtEndIsNull DEF PInv
<1>3. PICK h : Recorded(h)
  BY <1>1 DEF TextInv
<1>4. h.ast = ast /\ h.headed = headed /\ Good(h, out) /\ Reached(h, out, node)
  BY <1>1, <1>2, <1>3 DEF Recorded
<1>5. CASE node \notin DOMAIN ast
  <2>1. out' = WithAtom(out, spacing, node)
    BY <1>5 DEF Visit, IsGroup, WithAtom
  <2>2. PICK k : Good(k, out') /\ Passed(k, out', node) /\ k.ast = h.ast /\ k.headed = h.headed
    BY <1>2, <1>4, <1>5, <2>1, AtomStep
  <2>3. Recorded(k)'
    BY <1>1, <1>4, <1>5, <2>2 DEF Recorded
  <2> QED
    BY <1>1, <2>3 DEF TextInv
<1>6. CASE node \in DOMAIN ast /\ node \in headed
  <2>1. out' = WithHeader(out, spacing, node)
    BY <1>6 DEF Visit, IsGroup, WithHeader
  <2>2. PICK k : Good(k, out') /\ Entered(k, out', node) /\ k.ast = h.ast /\ k.headed = h.headed
    BY <1>2, <1>4, <1>6, <2>1, HeaderStep
  <2>3. Recorded(k)'
    BY <1>1, <1>2, <1>4, <1>6, <2>2 DEF Recorded
  <2> QED
    BY <1>1, <2>3 DEF TextInv
<1>7. CASE node \in DOMAIN ast /\ node \notin headed
  <2>1. out' = out \o <<>>
    BY <1>7 DEF Visit, IsGroup
  <2>2. out' = out
    BY <2>1 DEF PInv
  <2>3. PICK k : Good(k, out) /\ Entered(k, out, node) /\ k.ast = h.ast /\ k.headed = h.headed
    BY <1>4, <1>7, PlainStep
  <2>4. Recorded(k)'
    BY <1>1, <1>2, <1>4, <1>7, <2>2, <2>3 DEF Recorded
  <2> QED
    BY <1>1, <2>4 DEF TextInv
<1> QED
  BY <1>5, <1>6, <1>7

LEMMA AdvanceTextInv ==
    ASSUME IInv, PInv, TextInv, NoEmptyGroup, Advance PROVE TextInv'
<1>1. /\ stage = "advance" /\ stage' = IF pc' = "idle" THEN "loop" ELSE "advance"
      /\ UNCHANGED <<ast, headed>> /\ RunCallback /\ node # Null
      /\ pc \in {"idle", "right"} /\ out \in Seq(Tokens)
      /\ IsTree(ast) /\ AtNode
  BY DEF Advance, Increment, IncrementRight, PInv, IInv, TypeOK, Coherent, AtNode
<1>2. PICK h : Recorded(h)
  BY <1>1 DEF TextInv
<1>3. h.ast = ast /\ h.headed = headed /\ Good(h, out)
  BY <1>2 DEF Recorded
<1>4. node = index
  BY <1>1 DEF AtNode
<1>5. CASE pc = "idle" /\ node \in DOMAIN ast
  <2>1. Entered(h, out, node)
    BY <1>1, <1>2, <1>5 DEF Recorded
  <2>2. ast[node] # 0
    BY <1>1, <1>5 DEF NoEmptyGroup, IsTree
  <2>3. traverse_downwards /\ UNCHANGED pc
    BY <1>5, <2>2 DEF Advance, Increment, NoDownwards, IsGroup
  <2>4. node' = Append(node, 0) /\ called' = "downwards"
    BY <2>3 DEF traverse_downwards
  <2>5. out' = Indented(out)
    BY <1>1, <2>4 DEF RunCallback, OnDownwards, Indented
  <2>6. PICK k : /\ Good(k, out') /\ Reached(k, out', Append(node, 0))
                 /\ k.ast = h.ast /\ k.headed = h.headed
    BY <1>3, <2>1, <2>5, DownStep
  <2>7. node' # Null
    BY <1>1, <2>3, DownwardsKeepsNode
  <2>8. Recorded(k)'
    BY <1>1, <1>3, <1>5, <2>3, <2>4, <2>6, <2>7 DEF Recorded
  <2> QED
    BY <1>1, <1>5, <2>3, <2>8 DEF TextInv
<1>6. CASE pc = "idle" /\ node \notin DOMAIN ast
  <2>1. Passed(h, out, node)
    BY <1>1, <1>2, <1>6 DEF Recorded
  <2>2. NoneCalled /\ pc' = "right"
    BY <1>6 DEF Advance, Increment, traverse_downwards, IsGroup
  <2>3. out' = out /\ node' = node
    BY <1>1, <2>2 DEF RunCallback, NoneCalled
  <2>4. Recorded(h)'
    BY <1>1, <1>3, <1>6, <2>1, <2>2, <2>3 DEF Recorded
  <2> QED
    BY <1>1, <2>2, <2>4 DEF TextInv
<1>7. CASE pc = "right"
  <2>1. Passed(h, out, node) /\ IncrementRight
    BY <1>1, <1>2, <1>7 DEF Recorded, Advance
  <2>2. CASE traverse_right /\ pc' = "idle"
    <3>1. ParentGroup = PopBack(node)
      BY <1>1, <1>4, ParentIsFound
    <3>2. /\ Back(node) + 1 < ast[PopBack(node)] /\ called' = "right"
          /\ node' = Append(PopBack(node), Back(node) + 1)
      BY <1>4, <2>2, <3>1 DEF traverse_right
    <3>3. out' = Append(out, Space)
      BY <1>1, <3>2 DEF RunCallback, OnRight
    <3>4. Good(h, out') /\ Reached(h, out', node')
      BY <1>3, <2>1, <3>2, <3>3, RightStep
    <3>5. node' # Null
      BY <1>1, <2>2, RightKeepsNode
    <3>6. Recorded(h)'
      BY <1>1, <1>3, <2>2, <3>4, <3>5 DEF Recorded
    <3> QED
      BY <1>1, <2>2, <3>6 DEF TextInv
  <2>3. CASE RightEnd /\ AtLastOfRoot /\ SetEnd /\ pc' = "idle"
    <3>1. ast[PopBack(node)] = Back(node) + 1 /\ node \in Path /\ node # <<>>
      BY <1>1, <2>3, RightEndIsLast, NodeIsChild DEF AtNode
    <3>2. PopBack(node) = Root
      BY <1>4, <2>3, <3>1, FirstLevel DEF AtLastOfRoot
    <3>3. AllPassed(h, out)
      BY <1>3, <2>1, <3>1, <3>2, EndStep
    <3>4. out' = out /\ node' = Null
      BY <1>1, <2>3 DEF RunCallback, SetEnd
    <3>5. Recorded(h)'
      BY <1>1, <1>3, <2>3, <3>3, <3>4 DEF Recorded
    <3> QED
      BY <1>1, <2>3, <3>5 DEF TextInv
  <2>4. CASE RightEnd /\ ~AtLastOfRoot /\ traverse_upwards /\ UNCHANGED pc
    <3>1. ast[PopBack(node)] = Back(node) + 1 /\ index \in Path /\ index # <<>>
      BY <1>1, <2>4, RightEndIsLast, NodeIsChild DEF AtNode
    <3>2. Len(index) > 1 /\ node' = PopBack(node) /\ called' = "upwards"
      BY <1>4, <2>4 DEF traverse_upwards
    <3>3. PopBack(node) # Root
      <4>1. Len(PopBack(index)) = Len(index) - 1 /\ Len(index) \in Nat
        BY <3>1, PathSplit
      <4>2. Len(Root) = 0
        BY DEF Root
      <4> QED
        BY <1>4, <3>2, <4>1, <4>2
    <3>4. PICK n \in Nat : n = spacing - 1
      <4>1. spacing = Top + Len(index) - 1 /\ Top \in {0, 1}
        BY <1>1 DEF PInv, SpacingIsDepth, Top
      <4>2. Len(index) \in Nat
        BY <3>1, PathSplit
      <4>3. spacing - 1 \in Nat
        BY <3>2, <4>1, <4>2
      <4> QED
        BY <4>3
    <3>5. out' = Unindented(out, n)
      BY <1>1, <3>2, <3>4 DEF RunCallback, OnUpwards, Unindented
    <3>6. PICK k : /\ Good(k, out') /\ Passed(k, out', PopBack(node))
                   /\ k.ast = h.ast /\ k.headed = h.headed
      BY <1>3, <2>1, <3>1, <3>3, <3>5, UpStep
    <3>7. Recorded(k)'
      BY <1>1, <1>3, <1>7, <2>4, <3>2, <3>6 DEF Recorded
    <3> QED
      BY <1>1, <1>7, <2>4, <3>7 DEF TextInv
  <2> QED
    BY <2>1, <2>2, <2>3, <2>4 DEF IncrementRight
<1> QED
  BY <1>1, <1>5, <1>6, <1>7

LEMMA FinishTextInv ==
    ASSUME IInv, PInv, TextInv, NoEmptyGroup, Finish PROVE TextInv'
<1>1. /\ stage = "loop" /\ stage' = "done" /\ AtEnd /\ UNCHANGED <<ast, headed>>
  BY DEF Finish, vars
<1>2. node = Null
  BY <1>1, AtEndIsNull
<1>3. PICK h : Recorded(h)
  BY <1>1 DEF TextInv
<1>4. h.ast = ast /\ h.headed = headed /\ Good(h, out) /\ AllPassed(h, out)
  BY <1>1, <1>2, <1>3 DEF Recorded
<1>5. CASE Root \in headed
  <2>1. spacing = 1
    BY <1>1, <1>2, <1>5 DEF PInv, SpacingIsDepth, Top
  <2>2. PICK n \in Nat : n = spacing - 1
    BY <2>1
  <2>3. out' = Unindented(out, n)
    BY <1>5, <2>2 DEF Finish, OnUpwards, Unindented
  <2>4. PICK k : Good(k, out') /\ Printed(k, out') /\ k.ast = h.ast /\ k.headed = h.headed
    BY <1>4, <1>5, <2>3, FinishStep
  <2>5. Recorded(k)'
    BY <1>1, <1>4, <2>4 DEF Recorded
  <2> QED
    BY <1>1, <2>5 DEF TextInv
<1>6. CASE Root \notin headed
  <2>1. out' = out
    BY <1>6 DEF Finish
  <2>2. Printed(h, out')
    BY <1>4, <1>6, <2>1 DEF Printed, AllPassed
  <2>3. Recorded(h)'
    BY <1>1, <1>4, <2>1, <2>2 DEF Recorded
  <2> QED
    BY <1>1, <2>3 DEF TextInv
<1> QED
  BY <1>5, <1>6

LEMMA NextTextInv == IInv /\ PInv /\ TextInv /\ [PNext]_pvars => TextInv'
<1> SUFFICES ASSUME IInv, PInv, TextInv, [PNext]_pvars PROVE TextInv'
  OBVIOUS
<1>1. UNCHANGED ast
  BY PrinterCalls
  DEF Next, to_begin, to_end, Increment, Decrement, Step, IncrementRight, DecrementDeep,
      DecrementDeepRight, vars
<1>2. CASE ~NoEmptyGroup
  BY <1>1, <1>2 DEF TextInv, NoEmptyGroup
<1>3. CASE NoEmptyGroup
  <2>1. CASE Use
    <3>1. stage = "done" /\ UNCHANGED <<headed, out, stage>>
      BY <2>1 DEF Use, Caller, printer
    <3>2. PICK h : Recorded(h)
      BY <1>3, <3>1 DEF TextInv
    <3>3. Recorded(h)'
      BY <1>1, <3>1, <3>2 DEF Recorded
    <3> QED
      BY <3>1, <3>3 DEF TextInv
  <2>2. CASE UNCHANGED pvars
    <3>1. UNCHANGED <<ast, node, pc, headed, out, stage>>
      BY <2>2 DEF pvars, vars, printer
    <3> QED
      BY <3>1 DEF TextInv, NoEmptyGroup, Recorded
  <2> QED
    BY <1>3, <2>1, <2>2, StartTextInv, VisitTextInv, AdvanceTextInv, FinishTextInv
    DEF PNext, Printing
<1> QED
  BY <1>2, <1>3

\* In every state the text is accounted for.
LEMMA TextInvariance == PSpec => [](IInv /\ PInv /\ TextInv)
<1>1. PInit => TextInv
  BY InitTextInv
<1>2. IInv /\ PInv /\ TextInv /\ [PNext]_pvars => TextInv'
  BY NextTextInv
<1> QED
  BY <1>1, <1>2, PrinterInvariance, PTL DEF PSpec

-----------------------------------------------------------------------------
(* The parser at the places that the record names                          *)

\* What the parser looks at in a token.
LEMMA Kinds ==
    /\ Space.kind = "space" /\ Open.kind = "open" /\ Close.kind = "close"
    /\ \A p : /\ Atom(p).kind = "atom" /\ Header(p).kind = "header"
              /\ Header(p).at = p
  BY DEF Space, Open, Close, Atom, Header

\* The first token that is no blank, if there is one, is where SkipSpaces stops.
LEMMA SkipStops ==
    ASSUME NEW s, Len(s) \in Nat, NEW i \in 1 .. Len(s) + 1, NEW j \in i .. Len(s) + 1,
           \A k \in i .. j - 1 : Is(s, k, "space"), ~Is(s, j, "space")
    PROVE  SkipSpaces(s, i) = j
<1>1. PICK n \in Nat : n = Len(s)
  OBVIOUS
<1>2. PICK x : x = SkipSpaces(s, i)
  OBVIOUS
<1>3. /\ x \in i .. n + 1 /\ ~Is(s, x, "space")
      /\ \A k \in i .. x - 1 : Is(s, k, "space")
  BY <1>1, <1>2 DEF SkipSpaces
<1>4. ~(x < j)
  <2>1. x < j => x \in i .. j - 1
    BY <1>1, <1>3
  <2> QED
    BY <1>3, <2>1
<1>5. ~(j < x)
  <2>1. j < x => j \in i .. x - 1
    BY <1>1, <1>3
  <2> QED
    BY <1>3, <2>1
<1> QED
  BY <1>1, <1>2, <1>3, <1>4, <1>5

\* SkipSpaces stops somewhere in the text or at its end.
LEMMA SkipInText ==
    ASSUME NEW s, Len(s) \in Nat, NEW i \in 1 .. Len(s) + 1
    PROVE  SkipSpaces(s, i) \in i .. Len(s) + 1
<1>1. PICK n \in Nat : n = Len(s)
  OBVIOUS
<1>2. PICK stops : stops = {j \in i .. n + 1 : ~Is(s, j, "space")}
  OBVIOUS
<1>3. n + 1 \in stops
  <2>1. ~(n + 1 <= n) /\ n + 1 \in i .. n + 1
    BY <1>1
  <2> QED
    BY <1>1, <1>2, <2>1 DEF Is
<1>4. stops \subseteq Nat /\ stops # {}
  <2>1. stops \subseteq Nat
    BY <1>1, <1>2
  <2> QED
    BY <1>3, <2>1
<1>5. PICK j \in stops : \A k \in stops : j <= k
  BY <1>4, Least
<1>6. j \in i .. n + 1 /\ ~Is(s, j, "space")
  BY <1>2, <1>5
<1>7. ASSUME NEW k \in i .. j - 1 PROVE Is(s, k, "space")
  <2>1. k \in i .. n + 1 /\ ~(j <= k)
    BY <1>1, <1>6
  <2> QED
    BY <1>2, <1>5, <2>1
<1> QED
  BY <1>1, <1>6, <1>7, SkipStops

\* SkipSpaces skips the white space that the record names.
LEMMA SkipBlank ==
    ASSUME NEW s, Len(s) \in Nat, NEW i \in Nat, NEW j \in Nat,
           1 <= i, i <= j, j <= Len(s) + 1, Blank(s, i, j), ~Is(s, j, "space")
    PROVE  SkipSpaces(s, i) = j
<1>1. PICK n \in Nat : n = Len(s)
  OBVIOUS
<1>2. ASSUME NEW k \in i .. j - 1 PROVE Is(s, k, "space")
  <2>1. k <= n /\ s[k] = Space
    BY <1>1 DEF Blank
  <2> QED
    BY <1>1, <2>1, Kinds DEF Is
<1>3. i \in 1 .. Len(s) + 1 /\ j \in i .. Len(s) + 1
  BY <1>1
<1> QED
  BY <1>2, <1>3, SkipStops

\* The same of AfterHeader.
LEMMA HeaderInText ==
    ASSUME NEW s, Len(s) \in Nat, NEW i \in 1 .. Len(s) + 1
    PROVE  AfterHeader(s, i) \in i .. Len(s) + 1
<1>1. PICK n \in Nat : n = Len(s)
  OBVIOUS
<1>2. CASE Is(s, i, "header") /\ Is(s, i + 1, "space")
  <2>1. i + 1 <= n
    BY <1>1, <1>2 DEF Is
  <2>2. i + 1 \in 1 .. n + 1
    BY <1>1, <2>1
  <2>3. SkipSpaces(s, i + 1) \in i + 1 .. n + 1
    BY <1>1, <2>2, SkipInText
  <2>4. SkipSpaces(s, i + 1) \in i .. n + 1
    BY <1>1, <2>3
  <2> QED
    BY <1>1, <1>2, <2>4 DEF AfterHeader
<1>3. CASE ~(Is(s, i, "header") /\ Is(s, i + 1, "space"))
  BY <1>1, <1>3 DEF AfterHeader
<1> QED
  BY <1>2, <1>3

\* What a parser makes of a position depends on what follows it only.
Ahead(f, i, n) == \A j \in i + 1 .. n : f[j].ok => f[j].next \in j + 1 .. n
Agree(f, g, i, n) == \A j \in i + 1 .. n : f[j] = g[j]

\* Two later parsers that agree behind i make the same of i: as a group,
LEMMA GroupLooksAhead ==
    ASSUME NEW s, NEW n \in Nat, Len(s) + 1 = n, Len(s) \in Nat, NEW i \in 1 .. n,
           NEW f, NEW g, Ahead(f, i, n), Agree(f, g, i, n)
    PROVE  /\ group(s, f, i) = group(s, g, i)
           /\ group(s, f, i).ok => group(s, f, i).next \in i + 1 .. n
<1>1. PICK open : open = AfterHeader(s, i)
  OBVIOUS
<1>2. open \in i .. n
  BY <1>1, HeaderInText
<1>3. CASE ~(Is(s, open, "open") /\ Is(s, open + 1, "space"))
  <2>1. group(s, f, i) = Fail /\ group(s, g, i) = Fail
    BY <1>1, <1>3 DEF group
  <2> QED
    BY <2>1 DEF Fail
<1>4. CASE Is(s, open, "open") /\ Is(s, open + 1, "space")
  <2>1. open + 1 \in 1 .. n
    BY <1>2, <1>4 DEF Is
  <2>2. PICK j : j = SkipSpaces(s, open + 1)
    OBVIOUS
  <2>3. j \in open + 1 .. n
    BY <2>1, <2>2, SkipInText
  <2>4. j \in i + 1 .. n
    BY <1>2, <2>3
  <2>5. PICK nodes : nodes = f[j] /\ nodes = g[j]
    BY <2>4 DEF Agree
  <2>6. PICK close : close = SkipSpaces(s, nodes.next)
    OBVIOUS
  <2>7. PICK made : made = Match(close + 1, [header |-> HeaderAttr(s, i), nodes |-> nodes.attr])
    OBVIOUS
  <2>8. /\ group(s, f, i) = IF nodes.ok /\ Is(s, nodes.next, "space") /\ Is(s, close, "close")
                            THEN made ELSE Fail
        /\ group(s, g, i) = group(s, f, i)
    BY <1>1, <1>4, <2>2, <2>5, <2>6, <2>7 DEF group
  <2>9. CASE nodes.ok /\ Is(s, nodes.next, "space") /\ Is(s, close, "close")
    <3>1. nodes.next \in j + 1 .. n
      BY <2>4, <2>5, <2>9 DEF Ahead
    <3>2. nodes.next \in 1 .. n
      BY <1>2, <2>4, <3>1
    <3>3. close \in nodes.next .. n
      BY <2>6, <3>2, SkipInText
    <3>4. close + 1 <= n
      BY <2>9, <3>2, <3>3 DEF Is
    <3>5. close + 1 \in i + 1 .. n
      BY <2>4, <3>1, <3>3, <3>4
    <3>6. made.next = close + 1
      BY <2>7 DEF Match
    <3> QED
      BY <2>8, <2>9, <3>5, <3>6
  <2>10. CASE ~(nodes.ok /\ Is(s, nodes.next, "space") /\ Is(s, close, "close"))
    BY <2>8, <2>10 DEF Fail
  <2> QED
    BY <2>9, <2>10
<1> QED
  BY <1>3, <1>4

\* as a node,
LEMMA NodeLooksAhead ==
    ASSUME NEW takes, NEW s, NEW n \in Nat, Len(s) + 1 = n, Len(s) \in Nat, NEW i \in 1 .. n,
           NEW f, NEW g, Ahead(f, i, n), Agree(f, g, i, n)
    PROVE  /\ parse_node(takes, s, f, i) = parse_node(takes, s, g, i)
           /\ parse_node(takes, s, f, i).ok => parse_node(takes, s, f, i).next \in i + 1 .. n
<1>1. CASE \E kind \in takes : Is(s, i, kind)
  <2>1. /\ parse_node(takes, s, f, i) = Match(i + 1, s[i])
        /\ parse_node(takes, s, g, i) = Match(i + 1, s[i])
    BY <1>1 DEF parse_node
  <2>2. i + 1 <= n
    BY <1>1 DEF Is
  <2>3. i + 1 \in i + 1 .. n
    BY <2>2
  <2> QED
    BY <2>1, <2>3 DEF Match
<1>2. CASE ~\E kind \in takes : Is(s, i, kind)
  <2>1. /\ parse_node(takes, s, f, i) = group(s, f, i)
        /\ parse_node(takes, s, g, i) = group(s, g, i)
    BY <1>2 DEF parse_node
  <2> QED
    BY <2>1, GroupLooksAhead
<1> QED
  BY <1>1, <1>2

\* and as a list of nodes.
LEMMA ListLooksAhead ==
    ASSUME NEW takes, NEW s, NEW n \in Nat, Len(s) + 1 = n, Len(s) \in Nat, NEW i \in 1 .. n,
           NEW f, NEW g, Ahead(f, i, n), Agree(f, g, i, n)
    PROVE  /\ list(takes, s, f, i) = list(takes, s, g, i)
           /\ list(takes, s, f, i).ok => list(takes, s, f, i).next \in i + 1 .. n
<1>1. PICK first : first = parse_node(takes, s, f, i)
  OBVIOUS
<1>2. first = parse_node(takes, s, g, i) /\ (first.ok => first.next \in i + 1 .. n)
  BY <1>1, NodeLooksAhead
<1>3. CASE ~first.ok
  <2>1. list(takes, s, f, i) = Fail /\ list(takes, s, g, i) = Fail
    BY <1>1, <1>2, <1>3 DEF list
  <2> QED
    BY <2>1 DEF Fail
<1>4. CASE first.ok
  <2>1. PICK j : j = SkipSpaces(s, first.next)
    OBVIOUS
  <2>2. first.next \in i + 1 .. n
    BY <1>2, <1>4
  <2>3. j \in first.next .. n
    BY <2>1, <2>2, SkipInText
  <2>4. j \in i + 1 .. n
    BY <2>2, <2>3
  <2>5. PICK rest : rest = f[j] /\ rest = g[j]
    BY <2>4 DEF Agree
  <2>6. /\ list(takes, s, f, i) = IF Is(s, first.next, "space") /\ rest.ok
                                  THEN Match(rest.next, <<first.attr>> \o rest.attr)
                                  ELSE Match(first.next, <<first.attr>>)
        /\ list(takes, s, g, i) = list(takes, s, f, i)
    BY <1>1, <1>2, <1>4, <2>1, <2>5 DEF list
  <2>7. rest.ok => rest.next \in i + 1 .. n
    <3>1. rest.ok => rest.next \in j + 1 .. n
      BY <2>4, <2>5 DEF Ahead
    <3> QED
      BY <2>4, <3>1
  <2> QED
    BY <2>2, <2>6, <2>7 DEF Match
<1> QED
  BY <1>3, <1>4

\* f is the parser of lists at the last m positions.
Lists(takes, s, f, n, m) ==
    /\ f = [i \in 1 .. n |-> f[i]]
    /\ \A i \in 1 .. n : n - i < m =>
          /\ f[i] = list(takes, s, f, i)
          /\ f[i].ok => f[i].next \in i + 1 .. n

\* Such a parser exists, for one position more at a time, from the end.
LEMMA ListsFrom ==
    ASSUME NEW takes, NEW s, NEW n \in Nat, Len(s) + 1 = n, Len(s) \in Nat
    PROVE  \A m \in 0 .. n : \E f : Lists(takes, s, f, n, m)
<1>1. PICK failing : failing = {m \in 0 .. n : ~\E f : Lists(takes, s, f, n, m)}
  OBVIOUS
<1>2. SUFFICES ASSUME failing # {} PROVE FALSE
  BY <1>1
<1>3. failing \subseteq Nat
  BY <1>1
<1>4. PICK m \in failing : \A k \in failing : m <= k
  BY <1>2, <1>3, Least
<1>5. m \in 0 .. n /\ ~\E f : Lists(takes, s, f, n, m)
  BY <1>1, <1>4
<1>6. m # 0
  <2>1. PICK f : f = [i \in 1 .. n |-> i]
    OBVIOUS
  <2>2. f = [i \in 1 .. n |-> f[i]] /\ \A i \in 1 .. n : ~(n - i < 0)
    BY <2>1
  <2> QED
    BY <1>5, <2>2 DEF Lists
<1>7. m - 1 \in 0 .. n /\ m - 1 \notin failing
  <2>1. m - 1 \in 0 .. n /\ ~(m <= m - 1)
    BY <1>5, <1>6
  <2> QED
    BY <1>4, <2>1
<1>8. PICK f : Lists(takes, s, f, n, m - 1)
  BY <1>1, <1>7
<1>9. PICK last : last = n - m + 1 /\ last \in 1 .. n
  BY <1>5, <1>6
<1>10. PICK v : v = list(takes, s, f, last)
  OBVIOUS
<1>11. PICK g : g = [i \in 1 .. n |-> IF i = last THEN v ELSE f[i]]
  OBVIOUS
<1>12. ASSUME NEW i \in 1 .. n, n - i < m
       PROVE  g[i] = list(takes, s, g, i) /\ (g[i].ok => g[i].next \in i + 1 .. n)
  <2>1. i >= last
    BY <1>5, <1>9, <1>12
  <2>2. Agree(f, g, i, n)
    <3>1. \A j \in i + 1 .. n : j \in 1 .. n /\ j # last
      BY <1>9, <2>1
    <3> QED
      BY <1>11, <3>1 DEF Agree
  <2>3. Ahead(f, i, n)
    <3>1. \A j \in i + 1 .. n : j \in 1 .. n /\ n - j < m - 1
      BY <1>5, <1>9, <2>1
    <3> QED
      BY <1>8, <3>1 DEF Ahead, Lists
  <2>4. /\ list(takes, s, f, i) = list(takes, s, g, i)
        /\ list(takes, s, f, i).ok => list(takes, s, f, i).next \in i + 1 .. n
    BY <2>2, <2>3, ListLooksAhead
  <2>5. g[i] = list(takes, s, f, i)
    <3>1. CASE i = last
      BY <1>10, <1>11, <3>1
    <3>2. CASE i # last
      <4>1. n - i < m - 1
        BY <1>5, <1>9, <2>1, <3>2
      <4> QED
        BY <1>8, <1>11, <3>2, <4>1 DEF Lists
    <3> QED
      BY <3>1, <3>2
  <2> QED
    BY <2>4, <2>5
<1>13. g = [i \in 1 .. n |-> g[i]]
  BY <1>11
<1> QED
  BY <1>5, <1>12, <1>13 DEF Lists

\* lists is what its definition says: the parser of lists at each position.
LEMMA ListsAreParsed ==
    ASSUME NEW takes, NEW s, Len(s) \in Nat, NEW i \in 1 .. Len(s) + 1
    PROVE  lists(takes, s)[i] = list(takes, s, lists(takes, s), i)
<1>1. PICK n \in Nat : n = Len(s) + 1
  OBVIOUS
<1>2. n \in 0 .. n
  OBVIOUS
<1>3. PICK f : Lists(takes, s, f, n, n)
  BY <1>1, <1>2, ListsFrom
<1>4. \A j \in 1 .. n : f[j] = list(takes, s, f, j)
  <2>1. \A j \in 1 .. n : n - j < n
    OBVIOUS
  <2> QED
    BY <1>3, <2>1 DEF Lists
<1>5. f = [j \in 1 .. n |-> list(takes, s, f, j)]
  BY <1>3, <1>4 DEF Lists
<1>6. PICK g : g = CHOOSE h : h = [j \in 1 .. n |-> list(takes, s, h, j)]
  OBVIOUS
<1>7. g = [j \in 1 .. n |-> list(takes, s, g, j)]
  BY <1>5, <1>6
<1>8. lists(takes, s) = g
  BY <1>1, <1>6 DEF lists
<1> QED
  BY <1>1, <1>7, <1>8

\* A list that matches is longer than nothing.
LEMMA ListsLookAhead ==
    ASSUME NEW takes, NEW s, Len(s) \in Nat
    PROVE  Ahead(lists(takes, s), 0, Len(s) + 1)
<1>1. PICK n \in Nat : n = Len(s) + 1
  OBVIOUS
<1>2. PICK f : f = lists(takes, s)
  OBVIOUS
<1>3. PICK bad : bad = {m \in 0 .. n : \E i \in 1 .. n : /\ m = n - i /\ f[i].ok
                                                    /\ f[i].next \notin i + 1 .. n}
  OBVIOUS
<1>4. bad = {}
  <2> SUFFICES ASSUME bad # {} PROVE FALSE
    OBVIOUS
  <2>1. bad \subseteq Nat
    BY <1>3
  <2>2. PICK m \in bad : \A k \in bad : m <= k
    BY <2>1, Least
  <2>3. PICK i \in 1 .. n : m = n - i /\ f[i].ok /\ f[i].next \notin i + 1 .. n
    BY <1>3, <2>2
  <2>4. Ahead(f, i, n)
    <3> SUFFICES ASSUME NEW j \in i + 1 .. n, f[j].ok, f[j].next \notin j + 1 .. n
                 PROVE  FALSE
      BY DEF Ahead
    <3>1. j \in 1 .. n /\ n - j \in 0 .. n /\ ~(m <= n - j)
      BY <1>1, <2>3
    <3>2. n - j \in bad
      BY <1>3, <3>1
    <3> QED
      BY <2>2, <3>1, <3>2
  <2>5. Agree(f, f, i, n)
    BY DEF Agree
  <2>6. list(takes, s, f, i).ok => list(takes, s, f, i).next \in i + 1 .. n
    BY <1>1, <2>4, <2>5, ListLooksAhead
  <2>7. f[i] = list(takes, s, f, i)
    BY <1>1, <1>2, ListsAreParsed
  <2> QED
    BY <2>3, <2>6, <2>7
<1>5. ASSUME NEW i \in 0 + 1 .. n, f[i].ok PROVE f[i].next \in i + 1 .. n
  <2>1. i \in 1 .. n /\ n - i \in 0 .. n
    BY <1>1
  <2> QED
    BY <1>3, <1>4, <1>5, <2>1
<1> QED
  BY <1>1, <1>2, <1>5 DEF Ahead

-----------------------------------------------------------------------------
(* The expression as the parser builds it                                  *)

\* What Built makes of p, if b is what it makes of the nodes below.
BuiltFrom(t, headers, b, p) ==
    IF p \in DOMAIN t
    THEN [header |-> IF p \in headers THEN <<p>> ELSE <<>>,
          nodes  |-> [i \in 1 .. t[p] |-> b[Append(p, i - 1)]]]
    ELSE Atom(p)

\* b is right for the nodes of the m lowest levels, of d.
Builds(t, headers, b, d, m) ==
    \A p \in Nodes(t) \cup {Root} : d - Len(p) < m => b[p] = BuiltFrom(t, headers, b, p)

\* b is a function on D.
IsMap(b, D) == b = [p \in D |-> b[p]]

\* Such a function exists, for one level more at a time, from the deepest.
LEMMA BuiltUpwards ==
    ASSUME NEW t, IsTree(t), NEW headers, NEW d \in Nat,
           \A p \in Nodes(t) \cup {Root} : Len(p) \in 0 .. d
    PROVE  \A m \in Nat :
              \E b : Builds(t, headers, b, d, m) /\ IsMap(b, Nodes(t) \cup {Root})
<1>1. PICK D : D = Nodes(t) \cup {Root}
  OBVIOUS
<1> DEFINE Fine(m, b) == Builds(t, headers, b, d, m) /\ IsMap(b, D)
<1>2. PICK failing : failing = {m \in Nat : ~\E b : Fine(m, b)}
  OBVIOUS
<1>3. SUFFICES ASSUME failing # {} PROVE FALSE
  BY <1>1, <1>2
<1>4. failing \subseteq Nat
  BY <1>2
<1>5. PICK m \in failing : \A k \in failing : m <= k
  BY <1>3, <1>4, Least
<1>6. m \in Nat /\ ~\E b : Fine(m, b)
  BY <1>2, <1>5
<1>7. m # 0
  <2>1. PICK b : b = [p \in D |-> p]
    OBVIOUS
  <2>2. \A p \in Nodes(t) \cup {Root} : ~(d - Len(p) < 0)
    OBVIOUS
  <2>3. Fine(0, b)
    BY <2>1, <2>2 DEF Builds, IsMap
  <2> QED
    BY <1>6, <2>3
<1>8. m - 1 \in Nat /\ m - 1 \notin failing
  <2>1. m - 1 \in Nat /\ ~(m <= m - 1)
    BY <1>6, <1>7
  <2> QED
    BY <1>5, <2>1
<1>9. PICK f : Fine(m - 1, f)
  BY <1>2, <1>8
<1>10. PICK g : g = [p \in D |-> BuiltFrom(t, headers, f, p)]
  OBVIOUS
<1>11. ASSUME NEW p \in Nodes(t) \cup {Root}, d - Len(p) < m
       PROVE  g[p] = BuiltFrom(t, headers, g, p)
  <2>1. g[p] = BuiltFrom(t, headers, f, p)
    BY <1>1, <1>10
  <2>2. CASE p \notin DOMAIN t
    BY <2>1, <2>2 DEF BuiltFrom
  <2>3. CASE p \in DOMAIN t
    <3>1. ASSUME NEW i \in 1 .. t[p]
          PROVE  f[Append(p, i - 1)] = g[Append(p, i - 1)]
      <4>1. t[p] \in Nat /\ p \in Path
        BY <2>3 DEF IsTree
      <4>2. i - 1 \in Nat /\ i - 1 < t[p]
        BY <4>1
      <4>3. PICK c : c = Append(p, i - 1)
        OBVIOUS
      <4>4. c \in Nodes(t) /\ Len(c) = Len(p) + 1
        BY <2>3, <4>1, <4>2, <4>3, ChildIsNode, PathAppend
      <4>5. d - Len(c) < m - 1
        BY <1>6, <1>11, <4>4
      <4>6. f[c] = BuiltFrom(t, headers, f, c)
        BY <1>9, <4>4, <4>5 DEF Builds
      <4>7. g[c] = BuiltFrom(t, headers, f, c)
        BY <1>1, <1>10, <4>4
      <4> QED
        BY <4>3, <4>6, <4>7
    <3>2. [i \in 1 .. t[p] |-> f[Append(p, i - 1)]] = [i \in 1 .. t[p] |-> g[Append(p, i - 1)]]
      BY <3>1
    <3> QED
      BY <2>1, <2>3, <3>2 DEF BuiltFrom
  <2> QED
    BY <2>2, <2>3
<1>12. Fine(m, g)
  BY <1>10, <1>11 DEF Builds, IsMap
<1> QED
  BY <1>6, <1>12

\* Built is what its definition says.
LEMMA BuiltIsBuilt ==
    ASSUME IsTree(ast)
    PROVE  /\ DOMAIN Built = Nodes(ast) \cup {Root}
           /\ \A p \in Nodes(ast) \cup {Root} : Built[p] = BuiltFrom(ast, headed, Built, p)
<1>1. PICK D : D = Nodes(ast) \cup {Root}
  OBVIOUS
<1>2. PICK d \in Nat : \A p \in D : Len(p) \in 0 .. d
  <2>1. PICK b \in Nat : \A g \in DOMAIN ast : Len(g) <= b
    BY DepthIsBounded DEF IsTree
  <2>2. ASSUME NEW p \in D PROVE Len(p) \in 0 .. b + 1
    <3>1. CASE p \in Nodes(ast)
      <4>1. p \in Path /\ p # <<>> /\ PopBack(p) \in DOMAIN ast
        BY <3>1, NodeIsChild
      <4>2. Len(PopBack(p)) <= b /\ Len(PopBack(p)) = Len(p) - 1 /\ Len(p) \in Nat
        BY <2>1, <4>1, PathSplit
      <4> QED
        BY <4>2
    <3>2. CASE p = Root
      <4>1. Len(p) = 0
        BY <3>2 DEF Root
      <4> QED
        BY <4>1
    <3> QED
      BY <1>1, <3>1, <3>2
  <2>3. b + 1 \in Nat
    OBVIOUS
  <2> QED
    BY <2>2, <2>3
<1>3. d + 1 \in Nat /\ \A p \in D : d - Len(p) < d + 1
  BY <1>2
<1>4. PICK f : Builds(ast, headed, f, d, d + 1) /\ f = [p \in D |-> f[p]]
  <2>1. \A p \in Nodes(ast) \cup {Root} : Len(p) \in 0 .. d
    BY <1>1, <1>2
  <2>2. \A m \in Nat :
           \E b : Builds(ast, headed, b, d, m) /\ IsMap(b, Nodes(ast) \cup {Root})
    BY <1>2, <2>1, BuiltUpwards
  <2> QED
    BY <1>1, <1>3, <2>2 DEF IsMap
<1>5. \A p \in D : f[p] = BuiltFrom(ast, headed, f, p)
  BY <1>1, <1>3, <1>4 DEF Builds
<1>6. f = [p \in D |-> BuiltFrom(ast, headed, f, p)]
  BY <1>4, <1>5
<1>7. PICK g : g = CHOOSE b : b = [p \in D |-> BuiltFrom(ast, headed, b, p)]
  OBVIOUS
<1>8. g = [p \in D |-> BuiltFrom(ast, headed, g, p)]
  BY <1>6, <1>7
<1>9. Built = g
  BY <1>1, <1>7 DEF Built, BuiltFrom, IsGroup
<1>10. DOMAIN g = D /\ \A p \in D : g[p] = BuiltFrom(ast, headed, g, p)
  BY <1>8
<1> QED
  BY <1>1, <1>9, <1>10

-----------------------------------------------------------------------------
(* What the record says of the text, as the parser sees it                 *)

\* The parser comes over white space to the text of a node that is done.
LEMMA DoneText ==
    ASSUME NEW h, NEW s, Good(h, s), NEW p \in h.done
    PROVE  /\ h.start[p] \in 1 .. Len(s) /\ ~Is(s, h.start[p], "space")
           /\ From(h, p) \in 1 .. Len(s) /\ SkipSpaces(s, From(h, p)) = h.start[p]
           /\ Back(p) # 0 \/ PopBack(p) # Root \/ Root \in h.headed =>
                 Is(s, From(h, p), "space")
<1>1. PICK n \in Nat : n = Len(s)
  BY DEF Good
<1>2. History(h) /\ Nested(h) /\ Follows(h, p) /\ p \in Path
  BY DoneFollows DEF Good
<1>3. PICK i \in Nat : i = h.start[p]
  BY <1>2 DEF History
<1>4. PICK f \in Nat : f = From(h, p)
  BY <1>2, FromIsNat
<1>5. Leads(h, s, p, i) /\ Whole(h, s, p)
  BY <1>3 DEF Good, Written
<1>6. 1 <= i /\ i <= n /\ ~Is(s, i, "space")
  <2>1. CASE p \in DOMAIN h.ast
    <3>1. Opening(h, s, p)
      BY <1>5, <2>1 DEF Whole
    <3>2. PICK a \in Nat : a = After(h, p) /\ a > i /\ a <= n + 1
      BY <1>1, <1>3, <3>1 DEF After, Opening
    <3>3. 1 <= i /\ i <= n
      BY <1>3, <3>1, <3>2 DEF Opening
    <3>4. s[i].kind \in {"header", "open"}
      BY <1>3, <3>1, Kinds DEF Opening
    <3> QED
      BY <3>3, <3>4 DEF Is
  <2>2. CASE p \notin DOMAIN h.ast
    <3>1. 1 <= i /\ i <= n /\ s[i] = Atom(p)
      BY <1>1, <1>3, <1>5, <2>2 DEF Whole
    <3>2. s[i].kind = "atom"
      BY <3>1, Kinds
    <3> QED
      BY <3>1, <3>2 DEF Is
  <2> QED
    BY <2>1, <2>2
<1>7. 1 <= f /\ f <= i /\ Blank(s, f, i)
  BY <1>4, <1>5 DEF Leads
<1>8. SkipSpaces(s, f) = i
  <2>1. i <= Len(s) + 1 /\ Len(s) \in Nat
    BY <1>1, <1>6
  <2> QED
    BY <1>6, <1>7, <2>1, SkipBlank
<1>9. ASSUME Back(p) # 0 \/ PopBack(p) # Root \/ Root \in h.headed
      PROVE  Is(s, f, "space")
  <2>1. f # i
    BY <1>4, <1>5, <1>9 DEF Leads
  <2>2. f \in f .. i - 1 /\ f <= n
    BY <1>6, <1>7, <2>1
  <2>3. s[f] = Space
    BY <1>7, <2>2 DEF Blank
  <2> QED
    BY <1>1, <2>2, <2>3, Kinds DEF Is
<1>10. f \in 1 .. n /\ i \in 1 .. n
  BY <1>6, <1>7
<1> QED
  BY <1>1, <1>3, <1>4, <1>6, <1>8, <1>9, <1>10

\* A bracket that closes a group is no node.
LEMMA CloseIsNoNode ==
    ASSUME NEW s, Len(s) \in Nat, NEW i \in 1 .. Len(s), s[i] = Close
    PROVE  lists(package_dep, s)[i] = Fail
<1>1. PICK f : f = lists(package_dep, s)
  OBVIOUS
<1>2. i \in 1 .. Len(s) + 1
  OBVIOUS
<1>3. f[i] = list(package_dep, s, f, i)
  BY <1>1, <1>2, ListsAreParsed
<1>4. ~Is(s, i, "atom") /\ ~Is(s, i, "header") /\ ~Is(s, i, "open")
  BY Kinds DEF Is
<1>5. group(s, f, i) = Fail
  BY <1>4 DEF group, AfterHeader
<1>6. parse_node(package_dep, s, f, i) = Fail
  BY <1>4, <1>5 DEF parse_node, package_dep
<1>7. ~Fail.ok
  BY DEF Fail
<1> QED
  BY <1>1, <1>3, <1>6, <1>7 DEF list

\* Behind the last node of a group come blanks and its bracket.
LEMMA ClosingText ==
    ASSUME NEW h, NEW s, Len(s) \in Nat, NEW g, Closing(h, s, g),
           LastEnd(h, g) \in Nat, h.end[g] \in Nat
    PROVE  /\ Is(s, LastEnd(h, g), "space") /\ SkipSpaces(s, LastEnd(h, g)) = h.end[g] - 1
           /\ h.end[g] - 1 \in 1 .. Len(s) /\ s[h.end[g] - 1] = Close
           /\ Is(s, h.end[g] - 1, "close")
<1>1. PICK n \in Nat, l \in Nat, e \in Nat : n = Len(s) /\ l = LastEnd(h, g) /\ e = h.end[g]
  OBVIOUS
<1>2. 1 <= l /\ l + 1 < e /\ e <= n + 1 /\ Blank(s, l, e - 1) /\ s[e - 1] = Close
  BY <1>1 DEF Closing
<1>3. PICK c \in Nat : c = e - 1
  BY <1>2
<1>4. 1 <= l /\ l < c /\ c <= n /\ c <= n + 1 /\ l <= n /\ 1 <= c /\ l <= c
  BY <1>2, <1>3
<1>5. s[c] = Close /\ Blank(s, l, c)
  BY <1>2, <1>3
<1>6. ~Is(s, c, "space") /\ Is(s, c, "close")
  BY <1>1, <1>4, <1>5, Kinds DEF Is
<1>7. SkipSpaces(s, l) = c
  BY <1>1, <1>4, <1>5, <1>6, SkipBlank
<1>8. Is(s, l, "space")
  <2>1. l \in l .. c - 1
    BY <1>4
  <2>2. s[l] = Space
    BY <1>5, <2>1 DEF Blank
  <2> QED
    BY <1>1, <1>4, <2>2, Kinds DEF Is
<1> QED
  BY <1>1, <1>3, <1>4, <1>5, <1>6, <1>7, <1>8

\* What is built of the nodes of g from the i-th on, of n.
BuiltNodes(b, g, i, n) == [j \in 1 .. n - i |-> b[Append(g, i + (j - 1))]]

\* b is what Built makes of the expression of h.
BuiltTree(h, b) ==
    \A p \in Nodes(h.ast) \cup {Root} : b[p] = BuiltFrom(h.ast, h.headed, b, p)

\* The list of nodes of g, from the i-th on, is parsed.
ListRead(h, s, b, g, i) ==
    lists(package_dep, s)[h.start[Append(g, i)]] =
        Match(LastEnd(h, g), BuiltNodes(b, g, i, h.ast[g]))

\* What the parser builds of a group.
LEMMA GroupAttr ==
    ASSUME NEW h, NEW b, BuiltTree(h, b), IsTree(h.ast), NEW g \in DOMAIN h.ast
    PROVE  b[g] = [header |-> IF g \in h.headed THEN <<g>> ELSE <<>>,
                   nodes |-> BuiltNodes(b, g, 0, h.ast[g])]
<1>1. g \in Nodes(h.ast) \cup {Root} /\ h.ast[g] \in Nat
  BY GroupIsNode DEF IsTree
<1>2. h.ast[g] - 0 = h.ast[g] /\ \A j \in 1 .. h.ast[g] : 0 + (j - 1) = j - 1
  BY <1>1
<1>3. BuiltNodes(b, g, 0, h.ast[g]) = [j \in 1 .. h.ast[g] |-> b[Append(g, j - 1)]]
  BY <1>2 DEF BuiltNodes
<1> QED
  BY <1>1, <1>3 DEF BuiltTree, BuiltFrom

\* A group is parsed as what it was, if its list of nodes is.
LEMMA GroupRead ==
    ASSUME NEW h, NEW s, Good(h, s), NEW b, BuiltTree(h, b),
           NEW g \in DOMAIN h.ast, g # Root \/ Root \in h.headed,
           Opening(h, s, g), Closing(h, s, g),
           Append(g, 0) \in h.done, LastEnd(h, g) \in Nat, ListRead(h, s, b, g, 0)
    PROVE  parse_node(package_dep, s, lists(package_dep, s), h.start[g]) = Match(h.end[g], b[g])
<1>1. PICK n \in Nat : n = Len(s)
  BY DEF Good
<1>2. g \in Path /\ IsTree(h.ast)
  BY DEF Good, History, IsTree
<1>3. PICK i \in Nat, e \in Nat, a \in Nat : i = h.start[g] /\ e = h.end[g] /\ a = After(h, g)
  <2>1. h.start[g] \in Nat /\ h.end[g] \in Nat
    BY <1>2 DEF Good, History
  <2>2. After(h, g) \in Nat
    BY <2>1 DEF After
  <2> QED
    BY <2>1, <2>2
<1>4. PICK c : c = Append(g, 0)
  OBVIOUS
<1>5. Back(c) = 0 /\ PopBack(c) = g /\ c \in h.done
  BY <1>2, <1>4, PathAppend
<1>6. From(h, c) = a
  BY <1>3, <1>5 DEF From
<1>7. PICK j \in Nat : j = h.start[c] /\ SkipSpaces(s, a) = j /\ Is(s, a, "space")
  BY <1>5, <1>6, DoneText
<1>8. PICK f : f = lists(package_dep, s)
  OBVIOUS
<1>9. PICK l \in Nat : l = LastEnd(h, g)
  OBVIOUS
<1>10. PICK nodes : nodes = f[j] /\ nodes.ok /\ nodes.next = l
                   /\ nodes.attr = BuiltNodes(b, g, 0, h.ast[g])
  BY <1>4, <1>7, <1>8, <1>9 DEF ListRead, Match
<1>11. Is(s, l, "space") /\ SkipSpaces(s, l) = e - 1 /\ Is(s, e - 1, "close") /\ (e - 1) + 1 = e
  <2>1. Len(s) \in Nat /\ LastEnd(h, g) \in Nat /\ h.end[g] \in Nat
    BY <1>1, <1>3
  <2>2. Is(s, l, "space") /\ SkipSpaces(s, l) = e - 1 /\ Is(s, e - 1, "close")
    BY <1>3, <1>9, <2>1, ClosingText
  <2> QED
    BY <2>2
<1>12. PICK open : open = AfterHeader(s, i)
  OBVIOUS
<1>13. /\ open + 1 = a /\ Is(s, open, "open")
       /\ HeaderAttr(s, i) = (IF g \in h.headed THEN <<g>> ELSE <<>>)
       /\ ~Is(s, i, "atom")
  <2>1. 1 <= i /\ a <= n + 1
    BY <1>1, <1>3 DEF Opening
  <2>2. CASE g \in h.headed
    <3>1. a = i + 3 /\ s[i] = Header(g) /\ s[i + 1] = Space /\ s[i + 2] = Open
      BY <1>3, <2>2 DEF Opening, After
    <3>2. i <= n /\ i + 1 <= n /\ i + 2 <= n /\ i + 2 # i
      BY <2>1, <3>1
    <3>3. Is(s, i, "header") /\ Is(s, i + 1, "space") /\ ~Is(s, i + 2, "space")
          /\ Is(s, i + 2, "open") /\ ~Is(s, i, "atom") /\ s[i].at = g
      BY <1>1, <3>1, <3>2, Kinds DEF Is
    <3>4. PICK k \in Nat, m \in Nat : k = i + 1 /\ m = i + 2
      OBVIOUS
    <3>5. Blank(s, k, m)
      <4>1. \A x \in k .. m - 1 : x = i + 1
        BY <3>4
      <4> QED
        BY <3>1, <4>1 DEF Blank
    <3>6. 1 <= k /\ k <= m /\ m <= Len(s) + 1 /\ ~Is(s, m, "space") /\ Len(s) \in Nat
      BY <1>1, <3>2, <3>3, <3>4
    <3>7. SkipSpaces(s, k) = m
      BY <3>5, <3>6, SkipBlank
    <3>8. open = m
      BY <1>12, <3>3, <3>4, <3>7 DEF AfterHeader
    <3>9. HeaderAttr(s, i) = <<s[i].at>>
      BY <1>12, <3>2, <3>4, <3>8 DEF HeaderAttr
    <3>10. m + 1 = a
      BY <3>1, <3>4
    <3> QED
      BY <2>2, <3>3, <3>4, <3>8, <3>9, <3>10
  <2>3. CASE g \notin h.headed
    <3>1. a = i + 1 /\ s[i] = Open
      BY <1>3, <2>3 DEF Opening, After
    <3>2. i <= n
      BY <2>1, <3>1
    <3>3. ~Is(s, i, "header") /\ Is(s, i, "open") /\ ~Is(s, i, "atom")
      BY <1>1, <3>1, <3>2, Kinds DEF Is
    <3>4. open = i
      BY <1>12, <3>3 DEF AfterHeader
    <3> QED
      BY <1>12, <2>3, <3>1, <3>3, <3>4 DEF HeaderAttr
  <2> QED
    BY <2>2, <2>3
<1>14. group(s, f, i) = Match(e, [header |-> HeaderAttr(s, i), nodes |-> nodes.attr])
  BY <1>7, <1>10, <1>11, <1>12, <1>13 DEF group
<1>15. parse_node(package_dep, s, f, i) = group(s, f, i)
  BY <1>13 DEF parse_node, package_dep
<1>16. b[g] = [header |-> HeaderAttr(s, i), nodes |-> nodes.attr]
  <2>1. b[g] = [header |-> IF g \in h.headed THEN <<g>> ELSE <<>>,
                nodes |-> BuiltNodes(b, g, 0, h.ast[g])]
    BY <1>2, GroupAttr
  <2> QED
    BY <1>10, <1>13, <2>1, Zenon
<1> QED
  BY <1>3, <1>8, <1>14, <1>15, <1>16

\* A sequence of one element, and one with an element before the others.
Alone(x)       == <<x>>
Preceded(x, r) == <<x>> \o r

\* A function on 1 .. k is a sequence.
LEMMA FunctionIsSeq ==
    ASSUME NEW V, NEW k \in Nat, NEW w \in [1 .. k -> V]
    PROVE  w \in Seq(V) /\ Len(w) = k
  OBVIOUS

\* The nodes from the i-th on are the i-th and those behind it.
LEMMA BuiltInOrder ==
    ASSUME NEW b, NEW g, NEW i \in Nat, NEW n \in Nat, i + 1 <= n
    PROVE  /\ i + 1 = n => BuiltNodes(b, g, i, n) = Alone(b[Append(g, i)])
           /\ BuiltNodes(b, g, i, n) = Preceded(b[Append(g, i)], BuiltNodes(b, g, i + 1, n))
<1>1. PICK m \in Nat : m = n - (i + 1)
  OBVIOUS
<1>2. PICK V : V = {b[Append(g, i + (j - 1))] : j \in 1 .. m + 1}
  OBVIOUS
<1>3. n - i = m + 1
  BY <1>1
<1>4. PICK w : w = BuiltNodes(b, g, i, n)
  OBVIOUS
<1>5. w = [j \in 1 .. m + 1 |-> b[Append(g, i + (j - 1))]]
  BY <1>3, <1>4 DEF BuiltNodes
<1>6. w \in Seq(V) /\ Len(w) = m + 1
  <2>1. w \in [1 .. m + 1 -> V]
    BY <1>2, <1>5
  <2> QED
    BY <1>1, <2>1, FunctionIsSeq
<1>7. PICK x \in V : x = b[Append(g, i)] /\ x = w[1]
  <2>1. 1 \in 1 .. m + 1 /\ i + (1 - 1) = i
    OBVIOUS
  <2> QED
    BY <1>2, <1>5, <2>1
<1>8. PICK r : r = BuiltNodes(b, g, i + 1, n)
  OBVIOUS
<1>9. r = [j \in 1 .. m |-> b[Append(g, (i + 1) + (j - 1))]]
  BY <1>1, <1>8 DEF BuiltNodes
<1>10. \A j \in 1 .. m : r[j] = w[j + 1] /\ j + 1 \in 1 .. m + 1
  <2>1. \A j \in 1 .. m : j + 1 \in 1 .. m + 1 /\ (i + 1) + (j - 1) = i + ((j + 1) - 1)
    OBVIOUS
  <2> QED
    BY <1>5, <1>9, <2>1
<1>11. r \in Seq(V) /\ Len(r) = m
  <2>1. \A j \in 1 .. m : r[j] \in V
    BY <1>6, <1>10
  <2>2. r \in [1 .. m -> V]
    BY <1>9, <2>1
  <2> QED
    BY <1>1, <2>2, FunctionIsSeq
<1>12. PICK f : f = <<x>>
  OBVIOUS
<1>13. f \in Seq(V) /\ Len(f) = 1 /\ f[1] = x
  BY <1>12
<1>14. /\ f \o r \in Seq(V) /\ Len(f \o r) = 1 + m
       /\ \A j \in 1 .. 1 + m : (f \o r)[j] = IF j <= 1 THEN f[j] ELSE r[j - 1]
  <2>1. /\ f \o r \in Seq(V) /\ Len(f \o r) = Len(f) + Len(r)
        /\ \A j \in 1 .. Len(f) + Len(r) :
              (f \o r)[j] = IF j <= Len(f) THEN f[j] ELSE r[j - Len(f)]
    BY <1>11, <1>13, ConcatProperties
  <2> QED
    BY <1>11, <1>13, <2>1
<1>15. \A j \in 1 .. m + 1 : (f \o r)[j] = w[j]
  <2> SUFFICES ASSUME NEW j \in 1 .. m + 1 PROVE (f \o r)[j] = w[j]
    OBVIOUS
  <2>1. j \in 1 .. 1 + m
    OBVIOUS
  <2>2. CASE j = 1
    BY <1>7, <1>13, <1>14, <2>1, <2>2
  <2>3. CASE j # 1
    <3>1. j - 1 \in 1 .. m /\ ~(j <= 1) /\ (j - 1) + 1 = j
      BY <2>3
    <3>2. (f \o r)[j] = r[j - 1]
      BY <1>14, <2>1, <3>1
    <3> QED
      BY <1>10, <3>1, <3>2
  <2> QED
    BY <2>2, <2>3
<1>16. w = f \o r
  <2>1. Len(w) = Len(f \o r) /\ \A j \in 1 .. Len(w) : w[j] = (f \o r)[j]
    BY <1>6, <1>14, <1>15
  <2> QED
    BY <1>6, <1>14, <2>1, SeqEqual
<1>17. ASSUME i + 1 = n PROVE w = <<x>>
  <2>1. m = 0
    BY <1>1, <1>17
  <2>2. Len(w) = Len(f) /\ \A j \in 1 .. Len(w) : w[j] = f[j]
    BY <1>6, <1>7, <1>13, <2>1
  <2> QED
    BY <1>6, <1>12, <1>13, <2>2, SeqEqual
<1> QED
  BY <1>4, <1>7, <1>8, <1>12, <1>16, <1>17 DEF Alone, Preceded

\* The text where the nodes of g end: the bracket, or the end of all.
Shut(h, s, g) ==
    /\ g \in DOMAIN h.ast /\ \A i \in 0 .. h.ast[g] - 1 : Append(g, i) \in h.done
    /\ Closing(h, s, g) \/ LastEnd(h, g) = Len(s) + 1

\* A list is parsed from node p on, if p is and the list from the next node on.
LEMMA ListStep ==
    ASSUME NEW h, NEW s, Good(h, s), NEW b, NEW p \in h.done, Shut(h, s, PopBack(p)),
           parse_node(package_dep, s, lists(package_dep, s), h.start[p]) = Match(h.end[p], b[p]),
           Back(p) + 1 < h.ast[PopBack(p)] =>
               ListRead(h, s, b, PopBack(p), Back(p) + 1)
    PROVE  ListRead(h, s, b, PopBack(p), Back(p))
<1>1. PICK n \in Nat : n = Len(s)
  BY DEF Good
<1>2. PICK g, i : g = PopBack(p) /\ i = Back(p)
  OBVIOUS
<1>3. /\ p \in Path /\ p = Append(g, i) /\ g \in Path /\ i \in Nat
      /\ i < h.ast[g] /\ h.ast[g] \in Nat /\ IsTree(h.ast) /\ History(h) /\ Nested(h)
  <2>1. p \in Nodes(h.ast) /\ IsTree(h.ast) /\ History(h) /\ Nested(h)
    BY DEF Good, Nested, History
  <2>2. p \in Path /\ p # <<>> /\ i \in Nat /\ i < h.ast[g] /\ h.ast[g] \in Nat
    BY <1>2, <2>1, NodeIsChild
  <2>3. p = Append(g, i) /\ g \in Path
    BY <1>2, <2>2, PathSplit
  <2> QED
    BY <2>1, <2>2, <2>3
<1>4. PICK m \in Nat : m = h.ast[g] /\ i < m
  BY <1>3
<1>5. PICK f : f = lists(package_dep, s)
  OBVIOUS
<1>6. PICK e \in Nat : e = h.end[p]
  BY <1>3 DEF History
<1>7. h.start[p] \in 1 .. n + 1 /\ Len(s) \in Nat
  <2>1. h.start[p] \in 1 .. n
    BY <1>1, DoneText
  <2> QED
    BY <1>1, <2>1
<1>8. PICK x : x = h.start[p] /\ f[x] = list(package_dep, s, f, x)
  BY <1>1, <1>5, <1>7, ListsAreParsed
<1>9. PICK first : first = parse_node(package_dep, s, f, x) /\ first.ok
                   /\ first.next = e /\ first.attr = b[p]
  BY <1>5, <1>6, <1>8 DEF Match
<1>10. PICK j : j = SkipSpaces(s, e)
  OBVIOUS
<1>11. f[x] = IF Is(s, e, "space") /\ f[j].ok
              THEN Match(f[j].next, <<b[p]>> \o f[j].attr) ELSE Match(e, <<b[p]>>)
  BY <1>8, <1>9, <1>10 DEF list
<1>12. i + 1 <= m
  BY <1>3, <1>4
<1>13. CASE i + 1 < m
  <2>1. i + 1 \in 0 .. m - 1 /\ i + 1 \in Nat
    BY <1>3, <1>4, <1>13
  <2>2. PICK q : q = Append(g, i + 1)
    OBVIOUS
  <2>3. q \in h.done /\ Back(q) = i + 1 /\ PopBack(q) = g
    BY <1>2, <1>3, <1>4, <2>1, <2>2, PathAppend DEF Shut
  <2>4. Back(q) # 0 /\ Back(q) - 1 = i
    BY <1>3, <2>3
  <2>5. From(h, q) = e
    BY <1>3, <1>6, <2>3, <2>4 DEF From
  <2>6. Is(s, e, "space") /\ j = h.start[q]
    BY <1>10, <2>3, <2>4, <2>5, DoneText
  <2>7. f[j] = Match(LastEnd(h, g), BuiltNodes(b, g, i + 1, m))
    BY <1>2, <1>4, <1>5, <1>13, <2>2, <2>6 DEF ListRead
  <2>8. f[j].ok /\ f[j].next = LastEnd(h, g) /\ f[j].attr = BuiltNodes(b, g, i + 1, m)
    BY <2>7 DEF Match
  <2>9. f[x] = Match(LastEnd(h, g), <<b[p]>> \o BuiltNodes(b, g, i + 1, m))
    BY <1>11, <2>6, <2>8
  <2>10. BuiltNodes(b, g, i, m) = <<b[p]>> \o BuiltNodes(b, g, i + 1, m)
    <3>1. BuiltNodes(b, g, i, m) = Preceded(b[Append(g, i)], BuiltNodes(b, g, i + 1, m))
      BY <1>3, <1>4, <1>12, BuiltInOrder
    <3> QED
      BY <1>3, <3>1 DEF Preceded
  <2> QED
    BY <1>2, <1>3, <1>4, <1>5, <1>8, <2>9, <2>10 DEF ListRead
<1>14. CASE i + 1 = m
  <2>1. m - 1 = i
    BY <1>3, <1>14
  <2>2. LastEnd(h, g) = e
    BY <1>3, <1>4, <1>6, <2>1 DEF LastEnd
  <2>3. ~(Is(s, e, "space") /\ f[j].ok)
    <3>1. CASE Closing(h, s, g)
      <4>1. LastEnd(h, g) \in Nat /\ h.end[g] \in Nat /\ Len(s) \in Nat
        BY <1>1, <1>3, <2>2 DEF History
      <4>2. /\ SkipSpaces(s, LastEnd(h, g)) = h.end[g] - 1
            /\ h.end[g] - 1 \in 1 .. Len(s) /\ s[h.end[g] - 1] = Close
        BY <3>1, <4>1, ClosingText
      <4>3. j \in 1 .. Len(s) /\ s[j] = Close
        BY <1>10, <2>2, <4>2
      <4>4. f[j] = Fail
        BY <1>1, <1>5, <4>3, CloseIsNoNode
      <4> QED
        BY <4>4 DEF Fail
    <3>2. CASE LastEnd(h, g) = Len(s) + 1
      <4>1. ~(e <= n)
        BY <1>1, <2>2, <3>2
      <4> QED
        BY <1>1, <4>1 DEF Is
    <3> QED
      BY <1>2, <3>1, <3>2 DEF Shut
  <2>4. f[x] = Match(e, <<b[p]>>)
    BY <1>11, <2>3
  <2>5. BuiltNodes(b, g, i, m) = <<b[p]>>
    <3>1. BuiltNodes(b, g, i, m) = Alone(b[Append(g, i)])
      BY <1>3, <1>4, <1>12, <1>14, BuiltInOrder
    <3> QED
      BY <1>3, <3>1 DEF Alone
  <2> QED
    BY <1>2, <1>3, <1>4, <1>5, <1>8, <2>2, <2>4, <2>5 DEF ListRead
<1> QED
  BY <1>3, <1>4, <1>12, <1>13, <1>14

\* Node p is parsed as what it was, and so is the list of nodes from p on.
NodeRead(h, s, b, p) ==
    /\ parse_node(package_dep, s, lists(package_dep, s), h.start[p]) = Match(h.end[p], b[p])
    /\ Shut(h, s, PopBack(p)) => ListRead(h, s, b, PopBack(p), Back(p))

\* A node is parsed as what it was, if the nodes that begin behind it are.
LEMMA NodeReadStep ==
    ASSUME NEW h, NEW s, Good(h, s), NEW b, BuiltTree(h, b), NEW p \in h.done,
           \A q \in h.done : h.start[p] < h.start[q] => NodeRead(h, s, b, q)
    PROVE  NodeRead(h, s, b, p)
<1>1. PICK n \in Nat : n = Len(s)
  BY DEF Good
<1>2. /\ p \in Nodes(h.ast) /\ p \in Path /\ IsTree(h.ast) /\ History(h) /\ Nested(h)
      /\ p # Root
  BY DoneFollows DEF Good, Nested, History, Root
<1>3. PICK i \in Nat : i = h.start[p] /\ i \in 1 .. n
  BY <1>1, DoneText
<1>4. PICK f : f = lists(package_dep, s)
  OBVIOUS
<1>5. parse_node(package_dep, s, f, i) = Match(h.end[p], b[p])
  <2>1. CASE p \in DOMAIN h.ast
    <3>1. Opening(h, s, p) /\ Closing(h, s, p)
      BY <2>1 DEF Good, Written, Whole
    <3>2. h.ast[p] \in Nat /\ h.ast[p] > 0 /\ LastEnd(h, p) \in Nat
      BY <1>2, <2>1, LastIsDone
    <3>3. \A k \in 0 .. h.ast[p] - 1 : Append(p, k) \in h.done
      BY <2>1 DEF Good, Nested
    <3>4. Shut(h, s, p)
      BY <2>1, <3>1, <3>3 DEF Shut
    <3>5. PICK c : c = Append(p, 0)
      OBVIOUS
    <3>6. c \in h.done /\ Back(c) = 0 /\ PopBack(c) = p
      <4>1. 0 \in 0 .. h.ast[p] - 1 /\ 0 \in Nat
        BY <3>2
      <4> QED
        BY <1>2, <3>3, <3>5, <4>1, PathAppend
    <3>7. i < h.start[c]
      <4>1. PICK a \in Nat : a = From(h, c) /\ i < a
        <5>1. From(h, c) = i + (IF p \in h.headed THEN 3 ELSE 1)
          BY <1>3, <3>6 DEF From, After
        <5> QED
          BY <5>1
      <4>2. PICK j \in Nat : j = h.start[c]
        BY <3>6, DoneText
      <4>3. a <= j
        BY <3>6, <4>1, <4>2 DEF Good, Written, Leads
      <4> QED
        BY <4>1, <4>2, <4>3
    <3>8. ListRead(h, s, b, p, 0)
      BY <1>3, <3>4, <3>6, <3>7 DEF NodeRead
    <3> QED
      BY <1>2, <1>3, <1>4, <2>1, <3>1, <3>2, <3>5, <3>6, <3>8, GroupRead
  <2>2. CASE p \notin DOMAIN h.ast
    <3>1. s[i] = Atom(p) /\ h.end[p] = i + 1
      BY <1>3, <2>2 DEF Good, Written, Whole
    <3>2. Is(s, i, "atom")
      BY <1>1, <1>3, <3>1, Kinds DEF Is
    <3>3. b[p] = Atom(p)
      BY <1>2, <2>2 DEF BuiltTree, BuiltFrom
    <3> QED
      BY <3>1, <3>2, <3>3 DEF parse_node, package_dep
  <2> QED
    BY <2>1, <2>2
<1>6. i < h.end[p]
  <2>1. Ahead(f, 0, n + 1)
    BY <1>1, <1>4, ListsLookAhead
  <2>2. \A j \in i + 1 .. n + 1 : j \in 0 + 1 .. n + 1
    BY <1>3
  <2>3. Ahead(f, i, n + 1)
    BY <2>1, <2>2 DEF Ahead
  <2>4. Agree(f, f, i, n + 1)
    BY DEF Agree
  <2>5. n + 1 \in Nat /\ i \in 1 .. n + 1
    BY <1>3
  <2>6. PICK read : read = parse_node(package_dep, s, f, i)
    OBVIOUS
  <2>7. read.ok => read.next \in i + 1 .. n + 1
    BY <1>1, <2>3, <2>4, <2>5, <2>6, NodeLooksAhead
  <2>8. h.end[p] \in i + 1 .. n + 1
    BY <1>5, <2>6, <2>7 DEF Match
  <2> QED
    BY <1>3, <2>8
<1>7. ASSUME Shut(h, s, PopBack(p)), Back(p) + 1 < h.ast[PopBack(p)]
      PROVE  ListRead(h, s, b, PopBack(p), Back(p) + 1)
  <2>1. PICK g, k : g = PopBack(p) /\ k = Back(p)
    OBVIOUS
  <2>2. k \in Nat /\ h.ast[g] \in Nat /\ g \in Path /\ p = Append(g, k)
    BY <1>2, <2>1, NodeIsChild, PathSplit
  <2>3. PICK q : q = Append(g, k + 1)
    OBVIOUS
  <2>4. q \in h.done /\ Back(q) = k + 1 /\ PopBack(q) = g
    <3>1. k + 1 \in 0 .. h.ast[g] - 1 /\ k + 1 \in Nat
      BY <1>7, <2>1, <2>2
    <3> QED
      BY <1>7, <2>1, <2>2, <2>3, <3>1, PathAppend DEF Shut
  <2>5. From(h, q) = h.end[p]
    <3>1. Back(q) # 0 /\ Back(q) - 1 = k
      BY <2>2, <2>4
    <3> QED
      BY <2>2, <2>4, <3>1 DEF From
  <2>6. i < h.start[q]
    <3>1. PICK e \in Nat, j \in Nat : e = h.end[p] /\ j = h.start[q]
      <4>1. h.end[p] \in Nat /\ h.start[q] \in Nat
        BY <1>2, <2>4, DoneText DEF History
      <4> QED
        BY <4>1
    <3>2. e <= j
      BY <2>4, <2>5, <3>1 DEF Good, Written, Leads
    <3> QED
      BY <1>6, <3>1, <3>2
  <2> QED
    BY <1>3, <1>7, <2>1, <2>4, <2>6 DEF NodeRead
<1>8. ASSUME Shut(h, s, PopBack(p)) PROVE ListRead(h, s, b, PopBack(p), Back(p))
  BY <1>3, <1>4, <1>5, <1>7, <1>8, ListStep
<1> QED
  BY <1>3, <1>4, <1>5, <1>8 DEF NodeRead

\* Every node is.
LEMMA NodesRead ==
    ASSUME NEW h, NEW s, Good(h, s), NEW b, BuiltTree(h, b)
    PROVE  \A p \in h.done : NodeRead(h, s, b, p)
<1>1. PICK n \in Nat : n = Len(s)
  BY DEF Good
<1>2. PICK bad : bad = {m \in Nat : \E p \in h.done : m = n - h.start[p] /\ ~NodeRead(h, s, b, p)}
  OBVIOUS
<1>3. SUFFICES ASSUME bad # {} PROVE FALSE
  <2>1. \A p \in h.done : n - h.start[p] \in Nat
    BY <1>1, DoneText
  <2> QED
    BY <1>2, <2>1
<1>4. bad \subseteq Nat
  BY <1>2
<1>5. PICK m \in bad : \A k \in bad : m <= k
  BY <1>3, <1>4, Least
<1>6. PICK p \in h.done : m = n - h.start[p] /\ ~NodeRead(h, s, b, p)
  BY <1>2, <1>5
<1>7. ASSUME NEW q \in h.done, h.start[p] < h.start[q] PROVE NodeRead(h, s, b, q)
  <2>1. n - h.start[q] \in Nat /\ ~(m <= n - h.start[q])
    BY <1>1, <1>6, <1>7, DoneText
  <2> QED
    BY <1>2, <1>5, <2>1
<1> QED
  BY <1>6, <1>7, NodeReadStep

\* The whole text is parsed.
LEMMA PrintedIsRead ==
    ASSUME NEW h, NEW s, Good(h, s), Printed(h, s), NEW b, BuiltTree(h, b)
    PROVE  parse_nodes(package_dep, s) =
               Match(Len(s) + 1, IF Root \in h.headed
                                 THEN [header |-> <<>>, nodes |-> Alone(b[Root])] ELSE b[Root])
<1>1. PICK n \in Nat : n = Len(s)
  BY DEF Good
<1>2. /\ IsTree(h.ast) /\ History(h) /\ Nested(h) /\ Root \in h.open
      /\ Root \in DOMAIN h.ast /\ Root \in Path /\ h.count[Root] = h.ast[Root]
  BY DEF Good, Nested, History, IsTree, Printed
<1>3. /\ LastEnd(h, Root) \in Nat /\ h.ast[Root] \in Nat /\ h.ast[Root] > 0
      /\ \A i \in 0 .. h.ast[Root] - 1 : Append(Root, i) \in h.done
  <2>1. LastEnd(h, Root) \in Nat /\ h.ast[Root] \in Nat /\ h.ast[Root] > 0
    BY <1>2, LastIsDone
  <2>2. \A i \in 0 .. h.ast[Root] - 1 : i \in Nat /\ i < h.count[Root]
    BY <1>2, <2>1
  <2> QED
    BY <1>2, <2>1, <2>2 DEF Nested
<1>4. Shut(h, s, Root)
  BY <1>2, <1>3 DEF Shut, Printed
<1>5. PICK c : c = Append(Root, 0)
  OBVIOUS
<1>6. c \in h.done /\ Back(c) = 0 /\ PopBack(c) = Root
  <2>1. 0 \in 0 .. h.ast[Root] - 1 /\ 0 \in Nat
    BY <1>3
  <2> QED
    BY <1>2, <1>3, <1>5, <2>1, PathAppend
<1>7. ListRead(h, s, b, Root, 0)
  BY <1>4, <1>6, NodesRead DEF NodeRead
<1>8. PICK f : f = lists(package_dep, s)
  OBVIOUS
<1>9. ~Is(s, n + 1, "space") /\ SkipSpaces(s, n + 1) = n + 1
  <2>1. ~Is(s, n + 1, "space")
    BY <1>1 DEF Is
  <2>2. Blank(s, n + 1, n + 1)
    BY DEF Blank
  <2>3. n + 1 \in Nat /\ 1 <= n + 1 /\ n + 1 <= n + 1 /\ n + 1 <= Len(s) + 1 /\ Len(s) \in Nat
    BY <1>1
  <2> QED
    BY <2>1, <2>2, <2>3, SkipBlank
<1>10. CASE Root \in h.headed
  <2>1. /\ h.start[Root] = 1 /\ Opening(h, s, Root) /\ Closing(h, s, Root)
        /\ h.end[Root] = n + 1
    BY <1>1, <1>10 DEF Good, Written, Printed
  <2>2. parse_node(package_dep, s, f, 1) = Match(n + 1, b[Root])
    BY <1>2, <1>3, <1>5, <1>6, <1>7, <1>8, <1>10, <2>1, GroupRead
  <2>3. PICK first : first = parse_node(package_dep, s, f, 1) /\ first.ok
                     /\ first.next = n + 1 /\ first.attr = b[Root]
    BY <2>2 DEF Match
  <2>4. 1 \in 1 .. Len(s) + 1 /\ Len(s) \in Nat
    BY <1>1
  <2>5. f[1] = list(package_dep, s, f, 1)
    BY <1>8, <2>4, ListsAreParsed
  <2>6. f[1] = Match(n + 1, Alone(b[Root]))
    BY <1>9, <2>3, <2>5 DEF list, Alone
  <2>7. SkipSpaces(s, 1) = 1
    <3>1. s[1] = Header(Root) /\ ~Is(s, 1, "space")
      BY <1>10, <2>1, Kinds DEF Opening, Is
    <3>2. Blank(s, 1, 1)
      BY DEF Blank
    <3>3. 1 \in Nat /\ 1 <= 1 /\ 1 <= Len(s) + 1
      BY <1>1
    <3> QED
      BY <2>4, <3>1, <3>2, <3>3, SkipBlank
  <2>8. PICK nodes : nodes = f[1] /\ nodes.ok /\ nodes.next = n + 1
                     /\ nodes.attr = Alone(b[Root])
    BY <2>6 DEF Match
  <2>9. parse_nodes(package_dep, s) =
            Match(n + 1, [header |-> <<>>, nodes |-> Alone(b[Root])])
    BY <1>1, <1>8, <1>9, <2>7, <2>8 DEF parse_nodes
  <2> QED
    BY <1>1, <1>10, <2>9
<1>11. CASE Root \notin h.headed
  <2>1. h.start[Root] = 0 /\ LastEnd(h, Root) = n + 1
    BY <1>1, <1>11 DEF Good, Written, Printed
  <2>2. From(h, c) = 1
    BY <1>6, <1>11, <2>1 DEF From, After
  <2>3. SkipSpaces(s, 1) = h.start[c]
    BY <1>6, <2>2, DoneText
  <2>4. f[SkipSpaces(s, 1)] = Match(n + 1, BuiltNodes(b, Root, 0, h.ast[Root]))
    BY <1>5, <1>7, <1>8, <2>1, <2>3 DEF ListRead
  <2>5. PICK nodes : nodes = f[SkipSpaces(s, 1)] /\ nodes.ok /\ nodes.next = n + 1
                     /\ nodes.attr = BuiltNodes(b, Root, 0, h.ast[Root])
    BY <2>4 DEF Match
  <2>6. parse_nodes(package_dep, s) = Match(n + 1, [header |-> <<>>, nodes |-> nodes.attr])
    BY <1>1, <1>8, <1>9, <2>5 DEF parse_nodes
  <2>7. b[Root] = [header |-> IF Root \in h.headed THEN <<Root>> ELSE <<>>,
                   nodes |-> BuiltNodes(b, Root, 0, h.ast[Root])]
    BY <1>2, GroupAttr
  <2>8. b[Root] = [header |-> <<>>, nodes |-> nodes.attr]
    BY <1>11, <2>5, <2>7
  <2> QED
    BY <1>1, <1>11, <2>6, <2>8
<1> QED
  BY <1>10, <1>11

\* What operator std::string prints of an expression without empty groups, the parsers of
\* the dependencies give back as that expression: every node, in its group, with its header.
THEOREM RoundTripAlways == PSpec => []RoundTrip
<1>1. IInv /\ TextInv => RoundTrip
  <2> SUFFICES ASSUME IInv, TextInv, stage = "done", \A p \in DOMAIN ast : ast[p] > 0
               PROVE  parse_nodes(package_dep, out) =
                        Match(Len(out) + 1,
                              IF Root \in headed THEN [header |-> <<>>, nodes |-> <<Built[Root]>>]
                              ELSE Built[Root])
    BY DEF RoundTrip, ReadsBack
  <2>1. PICK h : Recorded(h)
    BY DEF TextInv, NoEmptyGroup
  <2>2. h.ast = ast /\ h.headed = headed /\ Good(h, out) /\ Printed(h, out)
    BY <2>1 DEF Recorded
  <2>3. IsTree(ast)
    BY DEF IInv, TypeOK
  <2>4. PICK b : b = Built /\ \A p \in Nodes(ast) \cup {Root} : b[p] = BuiltFrom(ast, headed, b, p)
    BY <2>3, BuiltIsBuilt
  <2>5. BuiltTree(h, b)
    BY <2>2, <2>4 DEF BuiltTree
  <2>6. parse_nodes(package_dep, out) =
            Match(Len(out) + 1, IF Root \in h.headed
                                THEN [header |-> <<>>, nodes |-> Alone(b[Root])] ELSE b[Root])
    BY <2>2, <2>5, PrintedIsRead
  <2> QED
    BY <2>2, <2>4, <2>6 DEF Alone
<1> QED
  BY <1>1, TextInvariance, PTL

-----------------------------------------------------------------------------
(* How long a call takes                                                   *)

LEMMA BeforeIsTransitive ==
    ASSUME NEW p \in Path, NEW q \in Path, NEW r \in Path, Before(p, q), Before(q, r)
    PROVE  Before(p, r)
<1>1. PICK l \in Nat, m \in Nat, n \in Nat : l = Len(p) /\ m = Len(q) /\ n = Len(r)
  BY DEF Path
<1>2. /\ \A k \in 1 .. l : p[k] \in Nat
      /\ \A k \in 1 .. m : q[k] \in Nat
      /\ \A k \in 1 .. n : r[k] \in Nat
  BY <1>1 DEF Path
<1>3. ASSUME NEW i \in 1 .. l, i <= m, p[i] < q[i], \A j \in 1 .. i - 1 : p[j] = q[j]
      PROVE  Before(p, r)
  <2>1. CASE IsPrefixOf(q, r) /\ m < n
    <3>1. i \in 1 .. m /\ i <= n /\ \A j \in 1 .. i : q[j] = r[j]
      BY <1>1, <1>3, <2>1 DEF IsPrefixOf
    <3>2. p[i] < r[i] /\ \A j \in 1 .. i - 1 : p[j] = r[j]
      BY <1>3, <3>1
    <3> QED
      BY <1>1, <3>1, <3>2, PartedIsBefore
  <2>2. ASSUME NEW k \in 1 .. m, k <= n, q[k] < r[k], \A j \in 1 .. k - 1 : q[j] = r[j]
        PROVE  Before(p, r)
    <3>1. CASE k < i
      <4>1. k \in 1 .. l /\ p[k] = q[k] /\ \A j \in 1 .. k - 1 : p[j] = r[j]
        BY <1>1, <1>3, <2>2, <3>1
      <4> QED
        BY <1>1, <2>2, <4>1, PartedIsBefore
    <3>2. CASE k >= i
      <4>1. i \in 1 .. m /\ i \in 1 .. n
        BY <1>1, <1>3, <2>2, <3>2
      <4>2. q[i] <= r[i] /\ \A j \in 1 .. i - 1 : p[j] = r[j]
        BY <1>1, <1>2, <1>3, <2>2, <3>2, <4>1
      <4>3. p[i] < r[i]
        BY <1>2, <1>3, <4>1, <4>2
      <4> QED
        BY <1>1, <4>1, <4>2, <4>3, PartedIsBefore
    <3> QED
      BY <3>1, <3>2
  <2> QED
    BY <1>1, <2>1, <2>2 DEF Before
<1>4. CASE IsPrefixOf(p, q) /\ l < m
  <2>1. \A j \in 1 .. l : p[j] = q[j]
    BY <1>1, <1>4 DEF IsPrefixOf
  <2>2. CASE IsPrefixOf(q, r) /\ m < n
    <3>1. l < n /\ \A j \in 1 .. l : p[j] = r[j]
      BY <1>1, <1>4, <2>1, <2>2 DEF IsPrefixOf
    <3> QED
      BY <1>1, <3>1 DEF Before, IsPrefixOf
  <2>3. ASSUME NEW k \in 1 .. m, k <= n, q[k] < r[k], \A j \in 1 .. k - 1 : q[j] = r[j]
        PROVE  Before(p, r)
    <3>1. CASE k <= l
      <4>1. k \in 1 .. l /\ p[k] < r[k] /\ \A j \in 1 .. k - 1 : p[j] = r[j]
        BY <1>1, <2>1, <2>3, <3>1
      <4> QED
        BY <1>1, <2>3, <4>1, PartedIsBefore
    <3>2. CASE l < k
      <4>1. l < n /\ \A j \in 1 .. l : p[j] = r[j]
        BY <1>1, <2>1, <2>3, <3>2
      <4> QED
        BY <1>1, <4>1 DEF Before, IsPrefixOf
    <3> QED
      BY <1>1, <3>1, <3>2
  <2> QED
    BY <1>1, <2>2, <2>3 DEF Before
<1> QED
  BY <1>1, <1>3, <1>4 DEF Before

\* An expression has finitely many nodes.
LEMMA NodesAreFinite ==
    ASSUME NEW t, IsTree(t)
    PROVE  IsFiniteSet(Nodes(t))
<1> DEFINE Children(g) == {Append(g, i) : i \in 0 .. t[g] - 1}
<1>1. ASSUME NEW g \in DOMAIN t PROVE IsFiniteSet(Children(g))
  <2>1. IsFiniteSet(0 .. t[g] - 1)
    <3>1. t[g] - 1 \in Int /\ 0 \in Int
      BY DEF IsTree
    <3> QED
      BY <3>1, FS_Interval
  <2>2. PICK f : f = [i \in 0 .. t[g] - 1 |-> Append(g, i)]
    OBVIOUS
  <2>3. f \in Surjection(0 .. t[g] - 1, Children(g))
    BY <2>2 DEF Surjection
  <2> QED
    BY <2>1, <2>3, FS_Surjection
<1>2. PICK S : S = {Children(g) : g \in DOMAIN t}
  OBVIOUS
<1>3. IsFiniteSet(S)
  <2>1. PICK f : f = [g \in DOMAIN t |-> Children(g)]
    OBVIOUS
  <2>2. f \in Surjection(DOMAIN t, S)
    BY <1>2, <2>1 DEF Surjection
  <2> QED
    BY <2>2, FS_Surjection DEF IsTree
<1>4. \A T \in S : IsFiniteSet(T)
  BY <1>1, <1>2
<1>5. Nodes(t) = UNION S
  BY <1>2 DEF Nodes
<1> QED
  BY <1>3, <1>4, <1>5, FS_UNION

\* The nodes behind p.
Behind(t, p) == {q \in Nodes(t) : Before(p, q)}

LEMMA BehindIsNat ==
    ASSUME NEW t, IsTree(t), NEW p
    PROVE  IsFiniteSet(Behind(t, p)) /\ Cardinality(Behind(t, p)) \in Nat
<1>1. Behind(t, p) \in SUBSET Nodes(t)
  BY DEF Behind
<1> QED
  BY <1>1, NodesAreFinite, FS_Subset, FS_CardinalityType

LEMMA FewerBehind ==
    ASSUME NEW t, IsTree(t), NEW p \in Nodes(t), NEW q \in Nodes(t), Before(p, q)
    PROVE  Cardinality(Behind(t, q)) < Cardinality(Behind(t, p))
<1>1. p \in Path /\ q \in Path /\ Nodes(t) \subseteq Path
  BY NodeIsChild
<1>2. Behind(t, q) \subseteq Behind(t, p)
  BY <1>1, BeforeIsTransitive DEF Behind
<1>3. q \in Behind(t, p) /\ q \notin Behind(t, q)
  BY <1>1, BeforeIsStrict DEF Behind
<1>4. PICK m \in Nat, n \in Nat : m = Cardinality(Behind(t, q)) /\ n = Cardinality(Behind(t, p))
  BY BehindIsNat
<1>5. m <= n /\ m # n
  <2>1. Behind(t, q) \in SUBSET Behind(t, p) /\ IsFiniteSet(Behind(t, p))
    BY <1>2, BehindIsNat
  <2>2. m <= n /\ (n = m => Behind(t, p) = Behind(t, q))
    BY <1>4, <2>1, FS_Subset
  <2> QED
    BY <1>3, <2>2
<1> QED
  BY <1>4, <1>5

\* A bound on the steps that the call in progress still has to make: ++ goes up only, --
\* goes on only, and looks at each node twice.
StepsLeft ==
    IF pc = "idle" THEN 0
    ELSE IF pc = "right" THEN Len(index)
    ELSE 2 * Cardinality(Behind(ast, node)) + (IF pc = "deep" THEN 1 ELSE 2)

LEMMA StepIsCloser ==
    ASSUME IInv, Step
    PROVE  StepsLeft' < StepsLeft
<1>1. /\ IsTree(ast) /\ AtNode /\ UNCHANGED ast /\ node \in Nodes(ast) /\ node \in Path
      /\ node = index /\ index # <<>> /\ pc # "idle"
  <2>1. pc # "idle" /\ UNCHANGED ast
    BY DEF Step, IncrementRight, DecrementDeep, DecrementDeepRight
  <2>2. IsTree(ast) /\ AtNode /\ node \in Nodes(ast)
    BY <2>1 DEF IInv, TypeOK, Coherent, AtNode
  <2> QED
    BY <2>1, <2>2, NodeIsChild DEF AtNode
<1>2. PICK n \in Nat, b \in Nat : n = Len(index) /\ n > 0 /\ b = Cardinality(Behind(ast, node))
  <2>1. Len(index) \in Nat /\ Len(index) > 0
    BY <1>1, PathSplit
  <2> QED
    BY <1>1, <2>1, BehindIsNat
<1>3. ASSUME traverse_downwards PROVE Before(node, node') /\ node' \in Nodes(ast)
  <2>1. node' = Append(node, 0)
    BY <1>3 DEF traverse_downwards
  <2>2. AtNode'
    BY <1>1, <1>3, DownwardsKeepsNode
  <2> QED
    BY <1>1, <2>1, <2>2, FirstChildIsNext DEF Neighbours, AtNode
<1>4. ASSUME traverse_right PROVE Before(node, node') /\ node' \in Nodes(ast)
  <2>1. /\ node' = Append(PopBack(node), Back(node) + 1) /\ Back(node) \in Nat
        /\ PopBack(node) \in Path /\ node = Append(PopBack(node), Back(node))
    <3>1. ParentGroup = PopBack(index) /\ Back(index) \in Nat
      BY <1>1, ParentIsFound
    <3>2. PopBack(node) \in Path /\ node = Append(PopBack(node), Back(node))
      BY <1>1, PathSplit
    <3> QED
      BY <1>1, <1>4, <3>1, <3>2 DEF traverse_right
  <2>2. AtNode'
    BY <1>1, <1>4, RightKeepsNode
  <2>3. PICK g \in Path, i \in Nat, k \in Nat :
            g = PopBack(node) /\ i = Back(node) /\ k = Len(g) + 1
    BY <2>1 DEF Path
  <2>4. /\ Len(node) = k /\ Len(node') = k /\ node[k] = i /\ node'[k] = i + 1
        /\ \A j \in 1 .. k - 1 : node[j] = node'[j]
    <3>1. i + 1 \in Nat /\ k - 1 = Len(g)
      BY <2>3
    <3>2. /\ Len(Append(g, i)) = k /\ Append(g, i)[k] = i
          /\ \A j \in 1 .. k - 1 : Append(g, i)[j] = g[j]
      BY <2>3, <3>1, PathAppend
    <3>3. /\ Len(Append(g, i + 1)) = k /\ Append(g, i + 1)[k] = i + 1
          /\ \A j \in 1 .. k - 1 : Append(g, i + 1)[j] = g[j]
      BY <2>3, <3>1, PathAppend
    <3>4. node = Append(g, i) /\ node' = Append(g, i + 1)
      BY <2>1, <2>3
    <3> QED
      BY <3>2, <3>3, <3>4
  <2>5. node' \in Nodes(ast) /\ node' \in Path
    BY <1>1, <2>2, NodeIsChild DEF AtNode
  <2>6. k \in 1 .. Len(node) /\ k <= Len(node') /\ node[k] < node'[k]
    BY <2>3, <2>4
  <2>7. Before(node, node')
    BY <1>1, <2>4, <2>5, <2>6, PartedIsBefore
  <2> QED
    BY <2>5, <2>7
<1>5. CASE IncrementRight
  <2>1. StepsLeft = n
    BY <1>2, <1>5 DEF IncrementRight, StepsLeft
  <2>2. CASE pc' = "idle"
    BY <1>2, <2>1, <2>2 DEF StepsLeft
  <2>3. CASE traverse_upwards /\ UNCHANGED pc
    <3>1. Len(index') = n - 1
      BY <1>1, <1>2, <2>3, PathSplit DEF traverse_upwards
    <3>2. StepsLeft' = n - 1
      BY <1>5, <2>3, <3>1 DEF StepsLeft, IncrementRight
    <3> QED
      BY <1>2, <2>1, <3>2
  <2> QED
    BY <1>5, <2>2, <2>3 DEF IncrementRight
<1>6. ASSUME Before(node, node'), node' \in Nodes(ast)
      PROVE  \E c \in Nat : c = Cardinality(Behind(ast', node')) /\ c < b
  BY <1>1, <1>2, <1>6, FewerBehind, BehindIsNat
<1>7. CASE DecrementDeep
  <2>1. StepsLeft = 2 * b + 1
    BY <1>2, <1>7 DEF DecrementDeep, StepsLeft
  <2>2. CASE traverse_downwards /\ pc' = "deepright"
    <3>1. PICK c \in Nat : c = Cardinality(Behind(ast', node')) /\ c < b
      BY <1>3, <1>6, <2>2
    <3>2. StepsLeft' = 2 * c + 2
      BY <2>2, <3>1 DEF StepsLeft
    <3> QED
      BY <1>2, <2>1, <3>1, <3>2
  <2>3. CASE pc' = "idle"
    BY <1>2, <2>1, <2>3 DEF StepsLeft
  <2> QED
    BY <1>7, <2>2, <2>3 DEF DecrementDeep
<1>8. CASE DecrementDeepRight
  <2>1. StepsLeft = 2 * b + 2
    BY <1>2, <1>8 DEF DecrementDeepRight, StepsLeft
  <2>2. CASE traverse_right /\ UNCHANGED pc
    <3>1. PICK c \in Nat : c = Cardinality(Behind(ast', node')) /\ c < b
      BY <1>4, <1>6, <2>2
    <3>2. StepsLeft' = 2 * c + 2
      BY <1>8, <2>2, <3>1 DEF StepsLeft, DecrementDeepRight
    <3> QED
      BY <1>2, <2>1, <3>1, <3>2
  <2>3. CASE NoneCalled /\ pc' = "deep"
    <3>1. StepsLeft' = 2 * b + 1
      BY <1>1, <1>2, <2>3 DEF StepsLeft, NoneCalled
    <3> QED
      BY <1>2, <2>1, <3>1
  <2> QED
    BY <1>8, <2>2, <2>3 DEF DecrementDeepRight
<1> QED
  BY <1>5, <1>7, <1>8 DEF Step

LEMMA StepsLeftIsNat == ASSUME IInv PROVE StepsLeft \in Nat
<1>1. IsTree(ast) /\ index \in Path /\ pc \in Locations
  BY DEF IInv, TypeOK
<1>2. PICK b \in Nat : b = Cardinality(Behind(ast, node))
  BY <1>1, BehindIsNat
<1>3. PICK n \in Nat : n = Len(index)
  BY <1>1 DEF Path
<1>4. 2 * b + 1 \in Nat /\ 2 * b + 2 \in Nat
  BY <1>2
<1> QED
  BY <1>1, <1>2, <1>3, <1>4 DEF StepsLeft, Locations

\* Each ++ and -- ends after finitely many steps of its loops, on every expression: there
\* is a bound on the steps left, and each step, which calls at most one callback, lowers it.
THEOREM CallsAreBounded == Spec => [](StepsLeft \in Nat) /\ [][Step => StepsLeft' < StepsLeft]_vars
<1>1. IInv => StepsLeft \in Nat
  BY StepsLeftIsNat
<1>2. IInv /\ [Next]_vars => [Step => StepsLeft' < StepsLeft]_vars
  BY StepIsCloser
<1> QED
  BY <1>1, <1>2, Invariance, PTL DEF Spec
=============================================================================
