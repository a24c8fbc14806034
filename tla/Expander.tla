------------------------------ MODULE Expander ------------------------------
(***************************************************************************)
(* The expansion of a wildcard atom: nested range-for loops over the       *)
(* repositories, their categories, packages and ebuilds, while the         *)
(* repositories may lose files.  begin and end are noexcept, so that an    *)
(* exception in one of them ends the program; one in ++ leaves Expander.   *)
(***************************************************************************)
EXTENDS RepoTree

CONSTANTS
    Atoms,          \* wildcard atoms: what the parts of each of them match, and the
                    \* ebuilds whose version theirs cannot be compared with
    Trees,          \* the sets of nodes that may be there at the beginning
    MaxRemovals     \* how many nodes are removed at most

AnyRepo == "any"    \* an atom without ::repo

\* Whatever is there is in a directory that is there, and an exact part of an atom is the
\* name of at most one entry of a directory.
ASSUME ExpanderAssumption ==
    /\ \A t \in Trees : t \subseteq Nodes /\ \A d \in Dirs : Content[d] \cap t # {} => d \in t
    /\ \A x \in Atoms, d \in Dirs :
        /\ x.exact_category => \A m, n \in Content[d] \cap x.categories : m = n
        /\ x.exact_name => \A m, n \in Content[d] \cap x.packages : m = n
    /\ MaxRemovals \in Nat

VARIABLES
    initial,        \* what was there when the expansion began
    present,        \* what is there now
    atom,           \* the atom that is expanded
    at,             \* how many searches of a repository have begun
    frames,         \* the loops that are under way, the innermost one in front
    atoms,          \* the ebuilds found
    outcome         \* whether the expansion is running, or how it ended

vars == <<initial, present, atom, at, frames, atoms, outcome>>

Phases == {"lookup", "begin", "begun", "end", "ended", "advance", "advanced", "body"}

\* One loop: `left' and `cur' are the stream of its iterator, `peek' is the entry that
\* the iterator which becomes end() is at, `elem' the element.
Frames == [level : Levels, dir : Nodes, phase : Phases, left : Seq(Nodes),
           cur : Nodes \cup {End}, peek : Nodes \cup {End}, elem : Nodes \cup {End}]

Init ==
    /\ initial \in Trees /\ present = initial
    /\ atom \in Atoms
    /\ at = 0 /\ frames = <<>> /\ atoms = <<>> /\ outcome = "running"

-----------------------------------------------------------------------------
(* The loops.                                                              *)

top == Head(frames)
Top(frame) == frames' = <<frame>> \o Tail(frames)

Exact(level) ==
    \/ level = "repository" /\ atom.exact_category
    \/ level = "category" /\ atom.exact_name

Matched(level) ==
    CASE level = "repository" -> atom.categories
      [] level = "category" -> atom.packages
      [] level = "package" -> atom.ebuilds

\* What an element is, so far as begin and operator[] see to it.
Kind(level) ==
    CASE level = "repository" -> CategoryDirs
      [] level = "category" -> PackageDirs
      [] level = "package" -> EbuildFiles

Deeper(level) == IF level = "repository" THEN "category" ELSE "package"

Loop(level, dir) ==
    [level |-> level, dir |-> dir, phase |-> IF Exact(level) THEN "lookup" ELSE "begin",
     left |-> <<>>, cur |-> End, peek |-> End, elem |-> End]

Fail(how) == outcome' = how /\ frames' = <<>>

\* The Expander's own loop over the repositories, or the one that the atom names.
Search(r) == frames' = <<Loop("repository", r)>> /\ UNCHANGED outcome

Running == outcome = "running"

NextRepository ==
    /\ Running /\ frames = <<>>
    /\ atom.repo = AnyRepo
    /\ IF at < Len(Repositories)
       THEN at' = at + 1 /\ Search(Repositories[at + 1])
       ELSE outcome' = "returned" /\ UNCHANGED <<at, frames>>
    /\ UNCHANGED <<initial, present, atom, atoms>>

repo_matcher ==
    /\ Running /\ frames = <<>>
    /\ atom.repo # AnyRepo
    /\ IF at = 1
       THEN outcome' = "returned" /\ UNCHANGED <<at, frames>>
       ELSE /\ at' = 1
            /\ IF atom.repo \in Roots THEN Search(atom.repo) ELSE Fail("thrown")
    /\ UNCHANGED <<initial, present, atom, atoms>>

\* operator[] of Repository and Category: nullopt if the directory is not there.
Lookup ==
    /\ Running /\ frames # <<>> /\ top.phase = "lookup"
    /\ LET named == Content[top.dir] \cap Matched(top.level) \cap Kind(top.level) \cap present
       IN  IF named = {}
           THEN frames' = Tail(frames)
           ELSE \E e \in named : Top([top EXCEPT !.phase = "advanced", !.cur = e])
    /\ UNCHANGED <<initial, present, atom, at, atoms, outcome>>

\* begin() and end() both construct an iterator, and end() then drops its stream.
Open ==
    /\ Running /\ frames # <<>> /\ top.phase \in {"begin", "end"}
    /\ IF ~Readable(top.level, top.dir, present)
       THEN Fail("terminated")
       ELSE /\ \E listing \in Listings(top.level, top.dir, present) :
                \E i \in Reads(top.level, TRUE, listing, present) :
                    Top(IF top.phase = "begin"
                        THEN [top EXCEPT !.phase = "begun", !.cur = Entry(listing, i),
                                         !.left = SubSeq(listing, i + 1, Len(listing))]
                        ELSE [top EXCEPT !.phase = "ended", !.peek = Entry(listing, i)])
            /\ UNCHANGED outcome
    /\ UNCHANGED <<initial, present, atom, at, atoms>>

\* The first element of the iterator is constructed, from a path that is looked up anew.
Construct ==
    /\ Running /\ frames # <<>> /\ top.phase \in {"begun", "ended"}
    /\ LET e == IF top.phase = "begun" THEN top.cur ELSE top.peek
       IN  IF e # End /\ ~Valid(top.level, e, present)
           THEN Fail("terminated")
           ELSE /\ Top(IF top.phase = "begun"
                       THEN [top EXCEPT !.phase = "end", !.elem = e]
                       ELSE [top EXCEPT !.phase = "body", !.peek = End])
                /\ UNCHANGED outcome
    /\ UNCHANGED <<initial, present, atom, at, atoms>>

Advance ==
    /\ Running /\ frames # <<>> /\ top.phase = "advance"
    /\ \E i \in Reads(top.level, FALSE, top.left, present) :
        Top([top EXCEPT !.phase = "advanced", !.cur = Entry(top.left, i),
                        !.left = SubSeq(top.left, i + 1, Len(top.left))])
    /\ UNCHANGED <<initial, present, atom, at, atoms, outcome>>

\* A mutant: an entry that is refused is tried again.
RenewRetries ==
    /\ Running /\ frames # <<>> /\ top.phase = "advanced"
    /\ IF top.cur = End \/ Valid(top.level, top.cur, present)
       THEN Top([top EXCEPT !.phase = "body", !.elem = IF top.cur = End THEN @ ELSE top.cur])
       ELSE UNCHANGED frames
    /\ UNCHANGED <<initial, present, atom, at, atoms, outcome>>

\* ++ constructs the next element, as operator[] does.  Of a category it does so only
\* if the entry is still a directory at a second look, which readdir's type answers
\* unless the entry is a symbolic link or its type unknown.
Renew ==
    /\ Running /\ frames # <<>> /\ top.phase = "advanced"
    /\ \/ /\ top.cur # End /\ ~Valid(top.level, top.cur, present)
          /\ Fail("thrown")
       \/ /\ top.cur # End /\ ~Valid(top.level, top.cur, present)
          /\ top.level = "category" /\ ~Exact("category")
          /\ Top([top EXCEPT !.phase = "body"])
          /\ UNCHANGED outcome
       \/ /\ top.cur = End \/ Valid(top.level, top.cur, present)
          /\ Top([top EXCEPT !.phase = "body", !.elem = IF top.cur = End THEN @ ELSE top.cur])
          /\ UNCHANGED outcome
    /\ UNCHANGED <<initial, present, atom, at, atoms>>

\* A mutant: no element is compared with the atom.
BodyOfAny ==
    /\ Running /\ frames # <<>> /\ top.phase = "body" /\ top.cur # End
    /\ LET next == [top EXCEPT !.phase = "advance"]
       IN  IF top.level = "package"
           THEN Top(next) /\ atoms' = Append(atoms, top.elem)
           ELSE /\ frames' = <<Loop(Deeper(top.level), top.elem), next>> \o Tail(frames)
                /\ UNCHANGED atoms
    /\ UNCHANGED <<initial, present, atom, at, outcome>>

\* category_matcher, name_matcher and version_matcher with slot_matcher: the body.  A
\* number of a version that is no unsigned long makes stoul throw, and the comparison of
\* versions is noexcept.
Body ==
    /\ Running /\ frames # <<>> /\ top.phase = "body" /\ top.cur # End
    /\ IF top.level = "package" /\ top.elem \in atom.incomparable
       THEN Fail("terminated") /\ UNCHANGED atoms
       ELSE /\ LET next == [top EXCEPT !.phase = "advance"]
               IN  IF top.elem \notin Matched(top.level)
                   THEN Top(next) /\ UNCHANGED atoms
                   ELSE IF top.level = "package"
                   THEN Top(next) /\ atoms' = Append(atoms, top.elem)
                   ELSE /\ frames' = <<Loop(Deeper(top.level), top.elem), next>> \o Tail(frames)
                        /\ UNCHANGED atoms
            /\ UNCHANGED outcome
    /\ UNCHANGED <<initial, present, atom, at>>

Leave ==
    /\ Running /\ frames # <<>> /\ top.phase = "body" /\ top.cur = End
    /\ frames' = Tail(frames)
    /\ UNCHANGED <<initial, present, atom, at, atoms, outcome>>

Expand ==
    \/ NextRepository \/ repo_matcher \/ Lookup
    \/ Open \/ Construct \/ Advance \/ Renew \/ Body \/ Leave

-----------------------------------------------------------------------------
\* Something else, a sync of the repository say, removes a file or an empty directory.
Vanish(n) ==
    /\ Running /\ n \in present \ Roots
    /\ Cardinality(initial \ present) < MaxRemovals
    /\ n \in CategoryDirs \cup PackageDirs => Content[n] \cap present = {}
    /\ present' = present \ {n}
    /\ UNCHANGED <<initial, atom, at, frames, atoms, outcome>>

Next == Expand \/ \E n \in Nodes : Vanish(n)

Spec == Init /\ [][Next]_vars /\ WF_vars(Expand)

-----------------------------------------------------------------------------
\* The repositories, categories and packages that the atom is about.  A category that
\* the atom names need not be listed.
Searched == IF atom.repo = AnyRepo THEN Roots ELSE {atom.repo} \cap Roots
SearchedCategories ==
    atom.categories \cap
        UNION {IF atom.exact_category THEN Content[r] \cap CategoryDirs ELSE ToSet(Listed[r])
               : r \in Searched}
SearchedPackages == atom.packages \cap UNION {Content[c] : c \in SearchedCategories}
Wanted ==
    atom.ebuilds \cap GoodEbuilds \cap UNION {Content[p] : p \in SearchedPackages \cap WellNamed}

Untouched == present = initial

\* Nothing but ebuilds that the atom matches is found, nor, unless the repository is
\* changed during the expansion or lists a category twice, is any of them found twice.
Sound ==
    /\ ToSet(atoms) \subseteq Wanted \cap initial
    /\ Untouched /\ (\A r \in Roots : IsInjective(Listed[r])) => IsInjective(atoms)

\* An expansion that returns has found every matching ebuild that is there all along,
\* whatever the order of directory entries, and whatever else is removed meanwhile.
Complete == outcome = "returned" => Wanted \cap present \subseteq ToSet(atoms)

\* The expansion fails only if the atom names no known repository, if something is
\* removed meanwhile, if a repository that it goes through has a missing category, or if
\* a package it goes into has a stray ebuild or one of a version that the atom's cannot
\* be compared with.
FailsForAReason ==
    outcome \in {"thrown", "terminated"} =>
        \/ atom.repo # AnyRepo /\ atom.repo \notin Roots
        \/ ~Untouched
        \/ ~atom.exact_category /\ \E r \in Searched : ~Readable("repository", r, initial)
        \/ \E p \in SearchedPackages :
               initial \cap Content[p] \cap EbuildFiles
                   \cap (atom.incomparable \cup (EbuildFiles \ GoodEbuilds)) # {}

\* The nested loops end, whatever is removed under their iterators.
ExpansionEnds == <>(outcome # "running")
=============================================================================
