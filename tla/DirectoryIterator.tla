------------------------- MODULE DirectoryIterator -------------------------
(***************************************************************************)
(* The iterators over directories: Vdb::Iterator and vdb::Category::       *)
(* Iterator of vdb.cpp, which are the same code, and those of Package,     *)
(* Category and Repository of repo.cpp.  Each is a directory_iterator with *)
(* a cached element (a Category, an Entry, an Ebuild, ...) built from the  *)
(* directory entry it is at.  The model is what callers can do with        *)
(* several iterator objects over one directory: begin, end, copies, both   *)
(* forms of ++, in any order, each call catching what it throws.           *)
(*                                                                         *)
(* A Repository::Iterator walks through a vector of its own by an index,   *)
(* which is a stream that no copy shares; its entries are the lines of     *)
(* profiles/categories.                                                    *)
(***************************************************************************)
EXTENDS DirectoryStream, FiniteSets

CONSTANTS
    Directories,    \* the directories iterated over: sequences of entries
    Kinds           \* the iterators: some of those below

NoElem == "none"

\* A directory has no two entries of one name, and profiles/categories is assumed to
\* have no line twice.
ASSUME IteratorAssumption ==
    /\ Cardinality(Streams) > Cardinality(Vars) /\ End \notin Streams
    /\ Kinds \subseteq {"vdb", "package", "category", "repository"}
    /\ \A s \in Directories :
        /\ s \in Seq({s[i] : i \in DOMAIN s})
        /\ \A i, j \in DOMAIN s : s[i] = s[j] => i = j
        /\ \A i \in DOMAIN s : s[i] # NoElem

VARIABLES
    kind,       \* which iterator it is
    shape,      \* for each entry of the directory, what it looks like
    elem,       \* for each variable, its cached element, or NoElem
    outcome     \* how the latest call ended

vars == <<listing, rest, kind, shape, it, elem, outcome>>

Entries == {listing[i] : i \in 1 .. Len(listing)}

\* An odd entry: of a vdb, one whose constructor throws; of a package, an .ebuild that
\* cannot be built; of a category, a directory whose name is no package name; of a
\* repository, a line that is malformed or whose directory is not there (a file that is
\* not there has one such line).  Other entries have another extension or type.
Shapes ==
    IF kind \in {"package", "category"} THEN {"good", "odd", "other"} ELSE {"good", "odd"}

Refused(e) == kind \in {"vdb", "package", "repository"} /\ shape[e] = "odd"

\* The loops of begin and of ++; only begin of a category looks at the name.
PassedOver(first, e) ==
    \/ shape[e] = "other"
    \/ kind = "category" /\ first /\ shape[e] = "odd"

\* The entries left when a loop stops.
Reach(first, left) ==
    LET stops == {i \in 1 .. Len(left) : ~PassedOver(first, left[i])}
    IN  IF stops = {} THEN <<>>
        ELSE SubSeq(left, CHOOSE i \in stops : \A j \in stops : i <= j, Len(left))

\* Default-constructed iterators, nothing open.  Those of repo.cpp have no such
\* constructor: there it is a variable that is not declared yet.
Init ==
    /\ listing \in Directories
    /\ kind \in Kinds
    /\ shape \in [Entries -> Shapes]
    /\ rest = [d \in Streams |-> <<>>]
    /\ it = [v \in Vars |-> End]
    /\ elem = [v \in Vars |-> NoElem]
    /\ outcome = "returned"

Throw == outcome' = "threw"
Return == outcome' = "returned"

\* begin and end of package, category and repository are noexcept.
Fail == outcome' = IF kind = "vdb" THEN "threw" ELSE "terminated"

First == Reach(TRUE, listing)

\* A mutant: init_categories passes over the lines that it refuses.
BeginThrowsAtFirst == First # <<>> /\ Refused(Head(First))

\* Only the first element is built, but init_categories looks at every line.
BeginThrows ==
    IF kind = "repository" THEN \E e \in Entries : Refused(e)
    ELSE First # <<>> /\ Refused(Head(First))

\* v = begin().  The temporary is assigned after the first element is built.
Begin(v) ==
    /\ IF BeginThrows
       THEN Fail /\ UNCHANGED <<it, elem, rest>>
       ELSE IF First = <<>>
       THEN /\ it' = [it EXCEPT ![v] = End]
            /\ elem' = [elem EXCEPT ![v] = NoElem]
            /\ Close(rest) /\ Return
       ELSE /\ \E d \in Streams :
                    /\ Free(d)
                    /\ it' = [it EXCEPT ![v] = d]
                    /\ Close([rest EXCEPT ![d] = First])
            /\ elem' = [elem EXCEPT ![v] = Head(First)]
            /\ Return
    /\ UNCHANGED <<listing, kind, shape>>

\* v = end().  Those of repo.cpp construct a begin, element and all, and move it.
AssignEnd(v) ==
    /\ IF kind # "vdb" /\ BeginThrows
       THEN Fail /\ UNCHANGED <<it, elem, rest>>
       ELSE /\ it' = [it EXCEPT ![v] = End]
            /\ elem' = [elem EXCEPT ![v] =
                    IF kind = "vdb" \/ First = <<>> THEN NoElem ELSE Head(First)]
            /\ Close(rest) /\ Return
    /\ UNCHANGED <<listing, kind, shape>>

\* v = w.
Copy(v, w) ==
    /\ IF kind = "repository" /\ it[w] # End
       THEN \E d \in Streams :
                /\ Free(d)
                /\ it' = [it EXCEPT ![v] = d]
                /\ Close([rest EXCEPT ![d] = rest[it[w]]])
       ELSE it' = [it EXCEPT ![v] = it[w]] /\ Close(rest)
    /\ elem' = [elem EXCEPT ![v] = elem[w]]
    /\ Return
    /\ UNCHANGED <<listing, kind, shape>>

-----------------------------------------------------------------------------
\* The entries that ++ of variable w leaves in its stream.
Left(w) == IF it[w] = End \/ rest[it[w]] = <<>> THEN <<>> ELSE Reach(FALSE, Tail(rest[it[w]]))

\* Those of repo.cpp may not be advanced at the end.
MayAdvance(w) == kind = "vdb" \/ it[w] # End

\* The entry ++ stops at has to be built, and when that throws the directory_iterator
\* has moved and the element has not.
BuildThrows(w) == Left(w) # <<>> /\ Refused(Head(Left(w)))

\* A mutant: the element outlives the end.
NextElemKept(w) == IF Left(w) = <<>> \/ BuildThrows(w) THEN elem[w] ELSE Head(Left(w))

\* Only those of vdb.cpp drop the element at the end.
NextElem(w) ==
    IF Left(w) = <<>> THEN IF kind = "vdb" THEN NoElem ELSE elem[w]
    ELSE IF BuildThrows(w) THEN elem[w] ELSE Head(Left(w))

\* Mutants of PreIncrement: the element is built from the entry after a stream
\* that has not moved; the exception is swallowed.
PreIncrementPeeks(w) ==
    /\ MayAdvance(w)
    /\ it' = Moved(w, Left(w)) /\ Close(rest)
    /\ elem' = [elem EXCEPT ![w] = NextElem(w)]
    /\ IF BuildThrows(w) THEN Throw ELSE Return
    /\ UNCHANGED <<listing, kind, shape>>

PreIncrementSwallows(w) ==
    /\ MayAdvance(w)
    /\ it' = Moved(w, Left(w)) /\ Close(Ahead(w, Left(w)))
    /\ elem' = [elem EXCEPT ![w] = NextElem(w)]
    /\ Return
    /\ UNCHANGED <<listing, kind, shape>>

PreIncrement(w) ==
    /\ MayAdvance(w)
    /\ it' = Moved(w, Left(w)) /\ Close(Ahead(w, Left(w)))
    /\ elem' = [elem EXCEPT ![w] = NextElem(w)]
    /\ IF BuildThrows(w) THEN Throw ELSE Return
    /\ UNCHANGED <<listing, kind, shape>>

\* v = w++: the copy made before the increment reaches v unless ++ throws.  Of a
\* repository, where no stream is shared, that is Copy(v, w) and PreIncrement(w), or the
\* latter alone if it throws.
PostIncrement(v, w) ==
    /\ v # w /\ MayAdvance(w) /\ kind # "repository"
    /\ LET built == [elem EXCEPT ![w] = NextElem(w)]
       IN  IF BuildThrows(w)
           THEN it' = Moved(w, Left(w)) /\ elem' = built /\ Throw
           ELSE /\ it' = [Moved(w, Left(w)) EXCEPT ![v] = it[w]]
                /\ elem' = [built EXCEPT ![v] = elem[w]]
                /\ Return
    /\ Close(Ahead(w, Left(w)))
    /\ UNCHANGED <<listing, kind, shape>>

\* A call that changes iterators among W only.
Calls(W) ==
    /\ outcome # "terminated"
    /\ \/ \E v \in W : Begin(v) \/ AssignEnd(v) \/ PreIncrement(v)
       \/ \E v \in W, w \in Vars : Copy(v, w)
       \/ \E v, w \in W : PostIncrement(v, w)

Next == Calls(Vars)

Spec == Init /\ [][Next]_vars

-----------------------------------------------------------------------------
Passed(w) == IF it[w] = End THEN Len(listing) ELSE Len(listing) - Len(rest[it[w]])

\* Any iterator that is not end() can be dereferenced (category.value() has a
\* value), whatever copies were advanced past it or threw on the way, and an end()
\* of a Vdb never holds an element.
ElementUnlessEnd ==
    \A v \in Vars :
        /\ it[v] # End => elem[v] # NoElem
        /\ it[v] = End /\ kind = "vdb" => elem[v] = NoElem

Position(e) == CHOOSE i \in 1 .. Len(listing) : listing[i] = e

\* A copy may fall behind the stream it shares but is never ahead of it: no ++,
\* on any copy and after any exception, can lead back to an entry that is held.
NeverAhead ==
    \A v \in Vars : it[v] # End => Position(elem[v]) <= Passed(v) + 1
=============================================================================
