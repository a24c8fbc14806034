--------------------------- MODULE DirectoryScan ---------------------------
(***************************************************************************)
(* A scan of a directory by an iterator v:                                 *)
(* for (auto v = begin(), last = end(); v != last; ++v), in a program that *)
(* goes on when an element cannot be built, and that has other iterators,  *)
(* copies of v among them.  Meanwhile a package manager merges and         *)
(* unmerges packages of a vdb, whose directories are incomplete before and *)
(* after, or the directory of a listed category is made or removed.        *)
(***************************************************************************)
EXTENDS DirectoryIterator

CONSTANTS
    v,
    MaxChanges      \* bound: the entries that change

ASSUME ScanAssumption == v \in Vars /\ MaxChanges \in Nat

VARIABLES
    visited,    \* the elements the loop's body got, in order
    stage,      \* where the loop stands
    disturbed,  \* whether the stream of v has been advanced by another iterator
    changed     \* the entries that have changed meanwhile

svars == <<vars, visited, stage, disturbed, changed>>

SInit == Init /\ visited = <<>> /\ stage = "begin" /\ disturbed = FALSE /\ changed = {}

SBegin ==
    /\ stage = "begin" /\ outcome # "terminated"
    /\ Begin(v)
    /\ stage' = IF outcome' = "returned" THEN "end" ELSE "failed"
    /\ UNCHANGED <<visited, disturbed, changed>>

\* The temporary of end(), whose stream is closed again.
SEnd ==
    /\ stage = "end" /\ outcome # "terminated"
    /\ IF kind # "vdb" /\ BeginThrows THEN Fail ELSE Return
    /\ stage' = IF outcome' = "returned" THEN "test" ELSE "failed"
    /\ UNCHANGED <<listing, rest, kind, shape, it, elem, visited, disturbed, changed>>

Visit ==
    /\ stage = "test" /\ outcome # "terminated" /\ it[v] # End
    /\ visited' = Append(visited, elem[v])
    /\ stage' = "advance"
    /\ UNCHANGED <<vars, disturbed, changed>>

\* ++v, and again when it throws.
SAdvance ==
    /\ stage = "advance" /\ outcome # "terminated"
    /\ PreIncrement(v)
    /\ stage' = IF outcome' = "threw" THEN "advance" ELSE "test"
    /\ UNCHANGED <<visited, disturbed, changed>>

Finish ==
    /\ stage = "test" /\ outcome # "terminated" /\ it[v] = End
    /\ stage' = "done"
    /\ UNCHANGED <<vars, visited, disturbed, changed>>

\* Anything the program does with its other iterators.
Others ==
    /\ Calls(Vars \ {v})
    /\ disturbed' = (disturbed \/ (it[v] # End /\ rest'[it[v]] # rest[it[v]]))
    /\ UNCHANGED <<visited, stage, changed>>

\* A package is merged completely, or its unmerging begins; a category is made, or removed.
Change(e) ==
    /\ kind \in {"vdb", "repository"} /\ stage # "done"
    /\ e \in Entries \ changed /\ Cardinality(changed) < MaxChanges
    /\ shape' = [shape EXCEPT ![e] = IF @ = "good" THEN "odd" ELSE "good"]
    /\ changed' = changed \cup {e}
    /\ UNCHANGED <<listing, rest, kind, it, elem, outcome, visited, stage, disturbed>>

SNext == SBegin \/ SEnd \/ Visit \/ SAdvance \/ Finish \/ Others \/ \E e \in Entries : Change(e)

SSpec == SInit /\ [][SNext]_svars

-----------------------------------------------------------------------------
\* What there is to visit: what can be built, and of a category the ill-named
\* directories too that are not in front of all the well-named ones.
Due(e) ==
    \/ shape[e] = "good"
    \/ /\ kind = "category" /\ shape[e] = "odd"
       /\ \E d \in Entries : shape[d] = "good" /\ Position(d) < Position(e)

Ascending == \A i, j \in DOMAIN visited : i < j => Position(visited[i]) < Position(visited[j])

\* The loop visits every entry that can be built, once, in the order of the directory:
\* an exception in the middle costs its own entry and no other, and a merge or an unmerge
\* its own package.  A copy of its iterator that is advanced meanwhile makes it skip
\* entries, and never visit one twice.
VisitsEveryEntry ==
    /\ stage = "done" /\ ~disturbed =>
        \A e \in Entries \ changed : Due(e) <=> \E i \in DOMAIN visited : visited[i] = e
    /\ Ascending

\* One entry hides all the others: in a directory that nobody changes the loop gets no
\* start if, and only if, the first entry that is looked at cannot be built, or any line of
\* profiles/categories is odd.  If the iterator is one of repo.cpp, that ends the program;
\* nothing else does, whatever is done with other iterators.
OneHidesAll ==
    changed = {} =>
        LET hidden == \E e \in Entries :
                /\ shape[e] = "odd"
                /\ \/ kind = "repository"
                   \/ /\ kind \in {"vdb", "package"}
                      /\ \A d \in Entries : Position(d) < Position(e) => shape[d] = "other"
        IN  /\ stage # "begin" => (stage = "failed" <=> hidden)
            /\ outcome = "terminated" => hidden /\ kind \in {"package", "repository"}
=============================================================================
