----------------------------- MODULE ProfileUse -----------------------------
(***************************************************************************)
(* From the files of a profile to a package's flags: the constructor       *)
(* evaluates the lines of make.defaults (MakeDefaults), reads package.use  *)
(* line by line (PackageUse) and parses the USE and IUSE_IMPLICIT that the *)
(* evaluation has left; effective_useflags consults the result for one     *)
(* package (UseFlags).                                                     *)
(***************************************************************************)
EXTENDS PackageUse, SequencesExt

CONSTANTS
    Profiles, Parents, profile, Arch,                       \* as in UseFlags
    Rank,       \* a parent has a lower rank: there is no cycle (see ProfileLoad)
    Words, Dollars, Odd, Blank, Escape, Newline,            \* as in MakeDefaults
    Incremental, Lines, MaxLines,
    Invalid,    \* the words that parsers::profile::USE does not accept
    USE_, IUSE_IMPLICIT,     \* two keys of make.defaults
    asked,      \* the package whose flags are asked for
    Inputs,     \* what is given: records of the lines of make.defaults, the files
                \* that are parsed into sets, and the ebuild's iuse
    Brief       \* bound: the inputs under which package.use has lines

ASSUME UseAssumption ==
    /\ asked \in Packages
    /\ {USE_, IUSE_IMPLICIT} \cup Tokens \subseteq Words
    /\ {USE_, IUSE_IMPLICIT} \subseteq Incremental
    /\ {All} \cup Dollars \cup Odd \subseteq Invalid /\ Invalid \subseteq Words
    /\ Brief \subseteq Inputs

VARIABLES
    unevaluated, line, elems, expanded, defaults,           \* as in MakeDefaults
    evaluation,     \* where init_make_defaults stands
    files, iuse, at, ret,                                   \* as in UseFlags
    answer          \* where the call of effective_useflags stands

evaluationVars == <<unevaluated, line, elems, expanded, defaults, evaluation>>
answerVars     == <<files, iuse, at, ret, answer>>
uvars          == <<vars, evaluationVars, answerVars>>

\* The flags in an evaluated variable, which parsers::profile::USE takes apart.
FlagsIn(text) ==
    FlattenSeq([i \in 1 .. Len(text) |->
        IF \E x \in Tokens : x = text[i] THEN <<text[i]>> ELSE <<>>])

ListOf(key) == IF key \in DOMAIN defaults THEN FlagsIn(defaults[key]) ELSE <<>>

Evaluating == INSTANCE MakeDefaults WITH stage <- evaluation

\* What the IUSE of an ebuild is made of; no flag is called *.
IUSE == [flag : (Flags \cup {Arch}) \ {Star}, default : {"+", "-", "none"}]

Line == [key : Words, value : {v \in Seq(Evaluating!Elements) : Evaluating!WellFormed(v)}]

\* A space is no word; a line is a key and a value.
ASSUME ProfileAssumption ==
    /\ profile \in Profiles
    /\ Parents \in [Profiles -> Seq(Profiles)]
    /\ Rank \in [Profiles -> Nat]
    /\ \A p \in Profiles : \A i \in 1 .. Len(Parents[p]) : Rank[Parents[p][i]] < Rank[p]
    /\ \A x \in Inputs : x.iuse \in Seq(IUSE)
    /\ Words \cap Evaluating!Spaces = {}
    /\ Lines \subseteq Line
    /\ \A x \in Inputs : x.lines \in Seq(Line)
    /\ MaxLines \in Nat

Asking == INSTANCE UseFlags WITH
    use_line <- ListOf(USE_), implicit <- ListOf(IUSE_IMPLICIT),
    package_use <- filters[asked], stage <- answer

UInit ==
    /\ Init
    /\ \E x \in Inputs : unevaluated = x.lines /\ files = x.files /\ iuse = x.iuse
    /\ Evaluating!Start
    /\ Asking!Init

\* init_make_defaults, from its call to its return.
Evaluate == Evaluating!Next /\ UNCHANGED <<vars, answerVars>>

\* The loop over package.use.
ReadPackageUse ==
    /\ evaluation = "done" /\ answer = "called"
    /\ [lines |-> unevaluated, files |-> files, iuse |-> iuse] \in Brief
    /\ Next
    /\ UNCHANGED <<evaluationVars, answerVars>>

\* What parsers::profile::USE accepts: flags with one ' ' between them, or nothing.
Acceptable(text) == Evaluating!Spaced(text) /\ ToSet(text) \cap Invalid = {}

Parsed == \A key \in {USE_, IUSE_IMPLICIT} \cap DOMAIN defaults : Acceptable(defaults[key])

\* One of the variables has a *, another space, or something that is no flag: the
\* constructor throws.
RefuseVariables ==
    /\ evaluation = "done" /\ stage = "line" /\ answer = "called"
    /\ ~Parsed
    /\ answer' = "refused"
    /\ UNCHANGED <<vars, evaluationVars, files, iuse, at, ret>>

\* The profile is there.
Ask ==
    /\ evaluation = "done" /\ stage = "line" /\ Parsed
    /\ UNCHANGED <<vars, evaluationVars>>
    /\ Asking!Next

UNext == Evaluate \/ ReadPackageUse \/ RefuseVariables \/ Ask

USpec == UInit /\ [][UNext]_uvars

-----------------------------------------------------------------------------
\* A line for whose sake one of the variables is refused: it says a word that is no flag,
\* or has no reference and is taken with spaces that do not separate flags.
Blamed(assignment) ==
    LET text == Evaluating!Text(assignment.value)
    IN  /\ assignment.key \in {USE_, IUSE_IMPLICIT}
        /\ \/ ToSet(text) \cap Invalid # {}
           \/ ~Evaluating!HasDollar(assignment.value) /\ ~Evaluating!Spaced(text)

\* The constructor refuses the evaluated variables exactly if one line of the hierarchy, a
\* distant parent's too, is to blame by itself: however lines are joined and references
\* dropped, no blank is added or left behind that parsers::profile::USE would refuse.
RefusedForALine ==
    /\ answer = "refused" => \E i \in 1 .. Len(unevaluated) : Blamed(unevaluated[i])
    /\ answer \in {"flags", "returned"} =>
           ~\E i \in 1 .. Len(unevaluated) : Blamed(unevaluated[i])

\* An incremental key holds what every line that assigned to it says, of parents and
\* children alike, in the order of the concatenation, with one blank in between and
\* nothing lost or added.
Accumulates == Evaluating!Accumulates

\* Any other key holds what the last line that assigns to it says: a child
\* overrides its parents, a later parent an earlier one.
LastWins == Evaluating!LastWins

\* A flag is on exactly if the hierarchy, read as one sequence of files, does not mask
\* it, and forces it or finds it in package.use, or else in the evaluated USE, in
\* IUSE_IMPLICIT or with a default.
FlagsAreDecided == Asking!FlagsAreDecided

\* What ebuild_parser.hpp says of the defaults in IUSE: a flag with a - that no file
\* and no variable speaks of is not on.
DefaultIsMeant == Asking!DefaultIsMeant

\* From the lines of the file to the answer: the latest token of package.use about a
\* flag of the ebuild, of a line about the asked package, decides, unless a file of the
\* hierarchy masks or forces the flag.
LatestTokenDecides ==
    (answer = "returned" /\ read > 0 /\ asked \in latest.targets) =>
        \A f \in Asking!Names \cap Flags :
            (~Asking!LastSays("mask", f) /\ ~Asking!LastSays("force", f)) =>
                /\ latest.token = On(f) => f \in ret
                /\ latest.token = Off(f) => f \notin ret
=============================================================================
