------------------------------ MODULE UseFlags ------------------------------
(***************************************************************************)
(* Profile::effective_useflags for one package, on a hierarchy of profiles *)
(* whose files have been read: which flags of the ebuild's IUSE are on.    *)
(***************************************************************************)
EXTENDS UseTokens, Naturals, Sequences, SequencesExt

CONSTANTS
    Profiles,
    Parents,        \* for each profile, its parents in order
    profile,        \* the profile that is asked
    Arch            \* the value of ARCH, compared with the names in IUSE

Purposes == {"force", "mask"}

\* The files of a profile in the order they are consulted: use.force,
\* use.stable.force, package.use.force, package.use.stable.force, and so for mask.
Layers == <<"use", "use_stable", "package", "package_stable">>
Stable == {"use_stable", "package_stable"}

-----------------------------------------------------------------------------
\* make_defaults_use_inserter on a token that it accepts: -* leaves the string "*",
\* and the minus of a flag is parsed and dropped.
InsertDefault(set, x) == IF x = Nothing THEN {All} ELSE set \cup {On(x.flag)}

\* The set that parsers::profile::USE builds, a token after the other.
ParsedUse(line) ==
    LET parsed[n \in 0 .. Len(line)] ==
            IF n = 0 THEN {} ELSE InsertDefault(parsed[n - 1], line[n])
    IN  parsed[Len(line)]

-----------------------------------------------------------------------------
VARIABLES
    files,          \* for each profile, purpose and layer, the tokens in force
    use_line,       \* the tokens of the evaluated USE
    implicit,       \* the tokens of the evaluated IUSE_IMPLICIT
    package_use,    \* the tokens of the profile's own package.use for the package
    iuse,           \* the ebuild's IUSE: flags, with "+", "-" or "none" in front
    stage,          \* where the call stands
    at,             \* the element of IUSE that the loop has reached
    ret             \* the effective flags so far

inputs == <<files, use_line, implicit, package_use, iuse>>
vars   == <<inputs, stage, at, ret>>

\* A call; what the files of the profiles and the ebuild say is given.
Init == stage = "called" /\ at = 1 /\ ret = {}

is_stable == \E i \in DOMAIN iuse : iuse[i].flag = Arch

\* A mutant: a parent that says nothing forgets what the ones before it say.
FromParentsLast(verdict, p) ==
    IF Parents[p] = <<>> THEN "unset" ELSE verdict[Last(Parents[p])]

\* What the parents say: each one that says something overrides those before it.
FromParents(verdict, p) ==
    LET said == {i \in 1 .. Len(Parents[p]) : verdict[Parents[p][i]] # "unset"}
    IN  IF said = {} THEN "unset" ELSE verdict[Parents[p][Max(said)]]

Consult(purpose, p, layer, f, before) ==
    IF layer \in Stable /\ ~is_stable
    THEN before
    ELSE algo_5_1_helper(files[p][purpose][layer], f, before)

\* The profile's own files, from the general ones to those of the package.
Own(purpose, p, f, inherited) ==
    LET use        == Consult(purpose, p, "use", f, inherited)
        use_stable == Consult(purpose, p, "use_stable", f, use)
        package    == Consult(purpose, p, "package", f, use_stable)
    IN  Consult(purpose, p, "package_stable", f, package)

\* algorithm_5_1_force and algorithm_5_1_mask: the verdict of the parents, and then
\* that of the profile's own files.
algorithm_5_1(purpose, f) ==
    LET verdict[p \in Profiles] == Own(purpose, p, f, FromParents(verdict, p))
    IN  verdict[profile]

algorithm_5_1_force(f) == algorithm_5_1("force", f)
algorithm_5_1_mask(f)  == algorithm_5_1("mask", f)

\* A set's word on a flag, wildcards aside.
ByName(set, f, before) ==
    IF On(f) \in set THEN "yes" ELSE IF Off(f) \in set THEN "no" ELSE before

-----------------------------------------------------------------------------
\* The ebuild is looked up in the first repository, which may not have it.
Lookup ==
    /\ stage = "called"
    /\ stage' \in {"flags", "thrown"}
    /\ UNCHANGED <<inputs, at, ret>>

\* What the loop of effective_useflags finds for an element, source after source.  A
\* default enables the flag whether it is + or -.
do_flag(elem) ==
    LET flag     == elem.flag
        default  == IF elem.default # "none" THEN "yes" ELSE "unset"
        global   == ByName(ParsedUse(use_line), flag, default)
        implied  == IF On(flag) \in ParsedUse(implicit) THEN "yes" ELSE global
        package  == ByName(package_use, flag, implied)
        forced   == IF algorithm_5_1_force(flag) = "yes" THEN "yes" ELSE package
    IN  IF algorithm_5_1_mask(flag) = "yes" THEN "no" ELSE forced

\* One iteration of the loop over IUSE.
ConsiderFlag ==
    /\ stage = "flags" /\ at <= Len(iuse)
    /\ LET flag == iuse[at].flag
           found == do_flag(iuse[at])
       IN  ret' = IF found = "unset" THEN ret
                  ELSE IF found = "yes" THEN ret \cup {flag} ELSE ret \ {flag}
    /\ at' = at + 1
    /\ UNCHANGED <<inputs, stage>>

ReturnFlags ==
    /\ stage = "flags" /\ at > Len(iuse)
    /\ stage' = "returned"
    /\ UNCHANGED <<inputs, at, ret>>

Next == Lookup \/ ConsiderFlag \/ ReturnFlags

-----------------------------------------------------------------------------
(* The hierarchy read as one sequence of files, ancestors first, each as   *)
(* often as it is inherited.                                               *)

FilesOf[p \in Profiles] ==
    FlattenSeq([i \in DOMAIN Parents[p] |-> FilesOf[Parents[p][i]]])
    \o [i \in DOMAIN Layers |-> <<p, Layers[i]>>]

Mentions(set, f) == set \cap {On(f), Off(f), All, Nothing} # {}

\* The file applies and mentions the flag, by its name or by a wildcard.
Speaks(file, purpose, f) ==
    /\ file[2] \in Stable => is_stable
    /\ Mentions(files[file[1]][purpose][file[2]], f)

Silent(purpose, f) ==
    \A i \in 1 .. Len(FilesOf[profile]) : ~Speaks(FilesOf[profile][i], purpose, f)

\* The flag is on if its last mention says so, where its own name counts more than a
\* wildcard of the same file.
LastSays(purpose, f) ==
    \E i \in 1 .. Len(FilesOf[profile]) :
        LET file   == FilesOf[profile][i]
            tokens == files[file[1]][purpose][file[2]]
        IN  /\ Speaks(file, purpose, f)
            /\ \A j \in i + 1 .. Len(FilesOf[profile]) : ~Speaks(FilesOf[profile][j], purpose, f)
            /\ On(f) \in tokens \/ (All \in tokens /\ Off(f) \notin tokens)

Names    == {iuse[i].flag : i \in DOMAIN iuse}
Defaults(f) == {iuse[i].default : i \in {j \in DOMAIN iuse : iuse[j].flag = f}}

\* The line names the flag, with a minus or without, and clears nothing after that.
Keeps(tokens, f) ==
    \E i \in DOMAIN tokens :
        tokens[i].flag = f /\ \A j \in i + 1 .. Len(tokens) : tokens[j] # Nothing

\* A flag is on exactly if the hierarchy, read as one sequence of files, does not mask
\* it, and forces it or finds it in package.use, or else in USE, in IUSE_IMPLICIT or
\* with a default.
FlagsAreDecided ==
    stage = "returned" =>
        \A f \in Names :
            f \in ret <=>
                /\ ~LastSays("mask", f)
                /\ \/ LastSays("force", f)
                   \/ On(f) \in package_use
                   \/ /\ Off(f) \notin package_use
                      /\ \/ Defaults(f) # {"none"}
                         \/ Keeps(use_line, f) \/ Keeps(implicit, f)

\* What iuse_pm of ebuild_parser.hpp says of a default: + is true and - is false.  A flag
\* with a - in IUSE that no file and no variable speaks of is not on.
DefaultIsMeant ==
    stage = "returned" =>
        \A f \in Names :
            /\ Defaults(f) = {"-"}
            /\ Silent("force", f) /\ ~Mentions(package_use, f)
            /\ ~Mentions(ToSet(use_line) \cup ToSet(implicit), f)
            => f \notin ret
=============================================================================
