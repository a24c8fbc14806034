----------------------------- MODULE PackageUse -----------------------------
(***************************************************************************)
(* init_package_use_impl of profile.cpp: how a package.use-style file      *)
(* (package.use, package.use.mask, ...) fills the filters of the packages. *)
(* Each line names the packages it applies to and a list of tokens.  The   *)
(* tokens are first parsed into a set of their own (package_use_inserter), *)
(* which is then combined into the set of each package by a loop over an   *)
(* unordered_set (combine_package_use_sets): the order of that iteration   *)
(* is not specified, and neither that of the packages matters.             *)
(***************************************************************************)
EXTENDS UseTokens, Sequences, Integers

CONSTANTS
    Packages,   \* the packages of the repositories
    MaxTokens   \* bound: tokens read from the file

VARIABLES
    filters,    \* the token set of each package (a member of its Filters)
    targets,    \* the packages of the current line that await the combination
    parsed,     \* the set parsed from the current line
    package,    \* the package being combined into
    rest,       \* the elements of the set that its loop has not reached
    read,       \* history: the number of tokens read
    latest,     \* history: the latest token, with the packages of its line
    stage       \* where the function stands

vars == <<filters, targets, parsed, package, rest, read, latest, stage>>

Stages == {"line", "parse", "expand", "combine", "thrown"}

TypeOK ==
    /\ filters \in [Packages -> SUBSET Tokens]
    /\ targets \in SUBSET Packages
    /\ parsed \in SUBSET Tokens
    /\ package \in Packages
    /\ rest \in SUBSET Tokens
    /\ read \in Nat
    /\ latest \in [targets : SUBSET Packages, token : Tokens]
    /\ stage \in Stages

Init ==
    /\ filters = [p \in Packages |-> {}]
    /\ targets = {}
    /\ parsed = {}
    /\ package \in Packages
    /\ rest = {}
    /\ read = 0
    /\ latest = [targets |-> {}, token |-> All]
    /\ stage = "line"

\* The next line of the file, whose atom expands to any set of packages.
ReadLine ==
    /\ stage = "line" /\ read < MaxTokens
    /\ targets' \in SUBSET Packages
    /\ parsed' = {}
    /\ stage' = "parse"
    /\ UNCHANGED <<filters, package, rest, read, latest>>

\* The parser reaches a token, and package_use_inserter runs.
ParseToken(x) ==
    /\ stage = "parse" /\ read < MaxTokens
    /\ parsed' = Insert(parsed, x)
    /\ read' = read + 1
    /\ latest' = [targets |-> targets, token |-> x]
    /\ UNCHANGED <<filters, targets, package, rest, stage>>

\* What follows is no token, or the line applies to nothing that can be
\* expanded: the constructor throws, and there is no profile.
Malformed ==
    /\ stage = "parse"
    /\ stage' = "thrown"
    /\ UNCHANGED <<filters, targets, parsed, package, rest, read, latest>>

\* The line is parsed: package_use_values needs a token at least.
EndOfLine ==
    /\ stage = "parse" /\ parsed # {}
    /\ stage' = "expand"
    /\ UNCHANGED <<filters, targets, parsed, package, rest, read, latest>>

\* combine_package_use_sets, up to its loop: a wildcard in the line's set
\* clears what the package had.
StartCombine ==
    /\ stage = "expand"
    /\ package' \in targets
    /\ targets' = targets \ {package'}
    /\ LET star    == IF All \in parsed THEN {All} ELSE filters[package']
           nothing == IF Nothing \in parsed THEN {Nothing} ELSE star
       IN  filters' = [filters EXCEPT ![package'] = nothing]
    /\ rest' = parsed
    /\ stage' = "combine"
    /\ UNCHANGED <<parsed, read, latest>>

\* Mutant of CombineElement: the opposite stays.
CombineBeside ==
    /\ stage = "combine"
    /\ \E x \in rest :
          /\ filters' = [filters EXCEPT ![package] = @ \cup {x}]
          /\ rest' = rest \ {x}
    /\ UNCHANGED <<targets, parsed, package, read, latest, stage>>

\* One iteration: the element's opposite goes, the element comes.
CombineElement ==
    /\ stage = "combine"
    /\ \E x \in rest :
          /\ filters' = [filters EXCEPT ![package] = (@ \ {Opposite(x)}) \cup {x}]
          /\ rest' = rest \ {x}
    /\ UNCHANGED <<targets, parsed, package, read, latest, stage>>

EndCombine ==
    /\ stage = "combine" /\ rest = {}
    /\ stage' = "expand"
    /\ UNCHANGED <<filters, targets, parsed, package, rest, read, latest>>

EndOfTargets ==
    /\ stage = "expand" /\ targets = {}
    /\ stage' = "line"
    /\ UNCHANGED <<filters, targets, parsed, package, rest, read, latest>>

Next ==
    \/ ReadLine
    \/ \E x \in Tokens : ParseToken(x)
    \/ Malformed \/ EndOfLine \/ StartCombine \/ CombineElement \/ EndCombine \/ EndOfTargets

Spec == Init /\ [][Next]_vars

-----------------------------------------------------------------------------
\* No set holds both a token and its opposite, in the middle of a combination
\* too: which of foo and -foo a later lookup finds first would decide.
Consistent ==
    \A x \in Tokens :
        /\ x \in parsed => Opposite(x) \notin parsed
        /\ \A p \in Packages : x \in filters[p] => Opposite(x) \notin filters[p]

\* What the loop makes of `set', whatever its order, and what the whole
\* combination makes of it.
Merged(set, line) == {x \in set : Opposite(x) \notin line} \cup line
Combined(set, line) ==
    Merged(IF {All, Nothing} \cap line = {} THEN set ELSE {}, line)

\* The set a package has once the tokens read so far are combined into it.
Effective(p) ==
    IF stage # "line" /\ p \in targets THEN Combined(filters[p], parsed)
    ELSE IF stage = "combine" /\ p = package THEN Merged(filters[p], rest)
    ELSE filters[p]

\* Reading a line at a time into a set and merging the sets decides about every
\* flag as reading the tokens one after the other would, in whatever order the
\* unordered_set is iterated.
Verdict ==
    [p \in Packages |-> [f \in Flags |-> algo_5_1_helper(Effective(p), f, "unset")]]

Reading == INSTANCE UseVerdict WITH verdict <- Verdict

ImplementsReading == Reading!Spec
=============================================================================
