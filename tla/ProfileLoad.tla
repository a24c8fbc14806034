---------------------------- MODULE ProfileLoad ----------------------------
(***************************************************************************)
(* The constructor of Profile (profile.cpp): a profile directory names its *)
(* parents, each of which is constructed from its directory before the     *)
(* child combines what they hold with its own files.  A directory that two *)
(* others name is constructed twice.  Each call of the constructor is a    *)
(* frame of `stack', the last frame being the one that runs.               *)
(*                                                                         *)
(* A line of make.defaults is only carried along here (MakeDefaults        *)
(* evaluates it): each directory has one, named by the directory.          *)
(***************************************************************************)
EXTENDS SequencesExt, Integers, FiniteSets

CONSTANTS
    Dirs,           \* the profile directories
    Rank,           \* a parent has a lower rank: there is no cycle
    Atoms,          \* the package expressions of packages files
    Packages,       \* the packages of repositories
    Holds,          \* for each repository, its packages
    RepoOf,         \* for each directory, the repository around it, or NoRepo
    Settings        \* what the directories may hold, see below

Repos  == DOMAIN Holds
NoRepo == "none"

\* A line of a packages file, *atom or -*atom.
PackageLines == [negate : BOOLEAN, atom : Atoms]

\* A line of package.mask, the packages that its expression matches; a file of lines in
\* a directory of that name, files being read in the order of their names.
MaskLines == [negate : BOOLEAN, packages : SUBSET Packages]
MaskFiles == [name : Nat, hidden : BOOLEAN, lines : Seq(MaskLines)]

ASSUME ProfileLoadAssumption ==
    /\ Rank \in [Dirs -> Nat]
    /\ Holds \in [Repos -> SUBSET Packages]
    /\ RepoOf \in [Dirs -> Repos \cup {NoRepo}]
    /\ \A s \in Settings :
        /\ s.hierarchy \in [Dirs -> Seq(Dirs)]
        /\ \A d \in Dirs : \A i \in 1 .. Len(s.hierarchy[d]) :
                Rank[s.hierarchy[d][i]] < Rank[d]
        /\ s.packages \in [Dirs -> Seq(PackageLines)]
        /\ s.masks \in [Dirs -> SUBSET MaskFiles]
        /\ \A d \in Dirs :
                /\ IsFiniteSet(s.masks[d])
                /\ \A f, g \in s.masks[d] : f.name = g.name => f = g

VARIABLES
    setting,        \* the files: the parent files, the packages and the package.mask
    stack,          \* the constructors that run
    results         \* the profiles that the outermost calls have returned

vars == <<setting, stack, results>>

Stages == {"paths", "parents", "combine", "packages", "mask", "masking", "rest"}

\* self: the profile under construction; of its filters_, the masked flag of each
\* package and repository that has a filter; given: the repositories passed;
\* paths: the directories of get_parent_paths not constructed yet;
\* next: the parent to combine, or the line of packages to read;
\* lines: those of package.mask that have been read and not been applied.

Empty(dir) ==
    [path |-> dir, repos |-> <<>>, make_defaults_unevaluated |-> <<>>, packages |-> {},
     masked |-> [key \in {} |-> FALSE]]

Call(dir, injected, given) ==
    [self |-> Empty(dir), injected |-> injected, given |-> given, paths |-> <<>>,
     parents |-> <<>>, next |-> 1, lines |-> <<>>, stage |-> "paths"]

Top == Last(stack)
Running(stage) == stack # <<>> /\ Top.stage = stage
SetTop(frame) == stack' = [stack EXCEPT ![Len(stack)] = frame]

\* An injected parent replaces the parent file.
GetParents ==
    /\ Running("paths")
    /\ SetTop([Top EXCEPT !.stage = "parents",
                          !.paths = IF Top.injected = {} THEN setting.hierarchy[Top.self.path] ELSE <<>>,
                          !.parents = SetToSeq(Top.injected)])
    /\ UNCHANGED <<setting, results>>

\* Mutant of ConstructParent: the child's directory is not left.
ConstructSelf ==
    /\ Running("parents") /\ Top.paths # <<>>
    /\ stack' = Append([stack EXCEPT ![Len(stack)].paths = Tail(@)],
                       Call(Top.self.path, {}, <<>>))
    /\ UNCHANGED <<setting, results>>

ConstructParent ==
    /\ Running("parents") /\ Top.paths # <<>>
    /\ stack' = Append([stack EXCEPT ![Len(stack)].paths = Tail(@)],
                       Call(Head(Top.paths), {}, <<>>))
    /\ UNCHANGED <<setting, results>>

\* Mutant of FindRepo: looks for the parents again.
FindRepoRetries ==
    /\ Running("parents") /\ Top.paths = <<>>
    /\ SetTop([Top EXCEPT !.stage = "paths"])
    /\ UNCHANGED <<setting, results>>

\* All the parents are there.  The repositories are those passed to the constructor,
\* or the one that find_repo finds around the directory.
FindRepo ==
    /\ Running("parents") /\ Top.paths = <<>>
    /\ Top.given # <<>> \/ RepoOf[Top.self.path] # NoRepo
    /\ SetTop([Top EXCEPT
          !.stage = "combine",
          !.self.repos = IF Top.given # <<>> THEN Top.given ELSE <<RepoOf[Top.self.path]>>])
    /\ UNCHANGED <<setting, results>>

CombineParent ==
    /\ Running("combine") /\ Top.next <= Len(Top.parents)
    /\ LET parent == Top.parents[Top.next]
       IN  SetTop([Top EXCEPT
              !.next = @ + 1,
              !.self.make_defaults_unevaluated = @ \o parent.make_defaults_unevaluated,
              !.self.packages = @ \cup parent.packages])
    /\ UNCHANGED <<setting, results>>

\* Mutant of InitMakeDefaults: the parents' lines come after the own ones.
InitMakeDefaultsFirst ==
    /\ Running("combine") /\ Top.next > Len(Top.parents)
    /\ SetTop([Top EXCEPT !.stage = "packages", !.next = 1,
                          !.self.make_defaults_unevaluated = <<Top.self.path>> \o @])
    /\ UNCHANGED <<setting, results>>

\* The lines of the directory's own make.defaults come last.
InitMakeDefaults ==
    /\ Running("combine") /\ Top.next > Len(Top.parents)
    /\ SetTop([Top EXCEPT !.stage = "packages", !.next = 1,
                          !.self.make_defaults_unevaluated = Append(@, Top.self.path)])
    /\ UNCHANGED <<setting, results>>

\* A line of packages adds its expression or erases it.
InitPackages ==
    /\ Running("packages") /\ Top.next <= Len(setting.packages[Top.self.path])
    /\ LET line == setting.packages[Top.self.path][Top.next]
       IN  SetTop([Top EXCEPT
              !.next = @ + 1,
              !.self.packages = IF line.negate THEN @ \ {line.atom} ELSE @ \cup {line.atom}])
    /\ UNCHANGED <<setting, results>>

EndOfPackages ==
    /\ Running("packages") /\ Top.next > Len(setting.packages[Top.self.path])
    /\ SetTop([Top EXCEPT !.stage = "mask"])
    /\ UNCHANGED <<setting, results>>

\* A mutant: the files are read in the order of readdir.
get_config_files_Listed(directory) == SetToSeqs({file \in directory : ~file.hidden})

\* The files that readdir lists, in any order, are sorted by their names.
get_config_files(directory) ==
    {files \in SetToSeqs({file \in directory : ~file.hidden}) :
        \A i, j \in DOMAIN files : i < j => files[i].name < files[j].name}

\* read_config_files: their lines, one file after the other.
LinesOf(files) == FlattenSeq([i \in DOMAIN files |-> files[i].lines])

ReadPackageMask ==
    /\ Running("mask")
    /\ \E files \in get_config_files(setting.masks[Top.self.path]) :
          SetTop([Top EXCEPT !.stage = "masking", !.lines = LinesOf(files)])
    /\ UNCHANGED <<setting, results>>

\* What expand_package_expr makes of an expression: each package with its repository.
Expanded(packages, repos) == {x \in packages \X ToSet(repos) : x[1] \in Holds[x[2]]}

\* A line of init_package_mask: it sets the flag of every filter that is there, and one
\* without a minus creates those that are not.
Masked(masked, line, repos) ==
    LET keys == Expanded(line.packages, repos)
        made == IF line.negate THEN {} ELSE keys
    IN  [key \in DOMAIN masked \cup made |->
            IF key \in keys THEN ~line.negate ELSE masked[key]]

InitPackageMask ==
    /\ Running("masking") /\ Top.lines # <<>>
    /\ SetTop([Top EXCEPT !.lines = Tail(@),
                          !.self.masked = Masked(@, Head(Top.lines), Top.self.repos)])
    /\ UNCHANGED <<setting, results>>

EndOfPackageMask ==
    /\ Running("masking") /\ Top.lines = <<>>
    /\ SetTop([Top EXCEPT !.stage = "rest"])
    /\ UNCHANGED <<setting, results>>

\* The other files are read, and the constructor returns to the child's, or to its first
\* caller.
Return ==
    /\ Running("rest")
    /\ IF Len(stack) = 1
       THEN /\ stack' = <<>>
            /\ results' = Append(results, Top.self)
       ELSE /\ stack' = [Front(stack) EXCEPT ![Len(stack) - 1].parents = Append(@, Top.self)]
            /\ UNCHANGED results
    /\ UNCHANGED setting

\* A directory that does not exist, no repository around the profile, or a file
\* that does not parse: the exception leaves every constructor.
Throw ==
    /\ \/ Running("paths")
       \/ Running("parents") /\ Top.paths = <<>>
       \/ Running("combine") /\ Top.next > Len(Top.parents)
       \/ Running("packages") /\ Top.next <= Len(setting.packages[Top.self.path])
       \/ Running("masking") /\ Top.lines # <<>>
       \/ Running("rest")
    /\ stack' = <<>>
    /\ UNCHANGED <<setting, results>>

Step ==
    \/ GetParents \/ ConstructParent \/ FindRepo \/ CombineParent
    \/ InitMakeDefaults \/ InitPackages \/ EndOfPackages
    \/ ReadPackageMask \/ InitPackageMask \/ EndOfPackageMask
    \/ Return \/ Throw

-----------------------------------------------------------------------------
\* No directory is under construction twice: the recursion is never deeper than
\* there are directories.
BoundedRecursion ==
    \A i, j \in 1 .. Len(stack) : i < j => stack[i].self.path # stack[j].self.path

\* What profile.hpp says of make_defaults_unevaluated_, "the unsubstituted
\* concatenation of parent + own make.defaults": the hierarchy depth first.
Concatenation[dir \in Dirs] ==
    FlattenSeq([i \in DOMAIN setting.hierarchy[dir] |->
                    Concatenation[setting.hierarchy[dir][i]]])
        \o <<dir>>

\* What a packages file leaves of some atoms: its last line about an atom decides, if there
\* is one.
Edited(atoms, lines) ==
    {atom \in Atoms :
        \/ \E i \in DOMAIN lines :
                /\ lines[i].atom = atom /\ ~lines[i].negate
                /\ \A j \in i + 1 .. Len(lines) : lines[j].atom # atom
        \/ atom \in atoms /\ \A i \in DOMAIN lines : lines[i].atom # atom}

\* An atom of which a directory says nothing is in the set when it is in that of any
\* parent, so that no parent can remove what another adds.
InPackages[dir \in Dirs] ==
    Edited(UNION {InPackages[setting.hierarchy[dir][i]] : i \in DOMAIN setting.hierarchy[dir]},
           setting.packages[dir])

\* The packages that the files of a package.mask leave masked, in some repositories: of the
\* lines about a package, in the file with the greatest name that has one, the last has no
\* minus.
MaskedBy(directory, repos) ==
    LET Speaking(package) ==
            {f \in directory :
                ~f.hidden /\ \E i \in DOMAIN f.lines : package \in f.lines[i].packages}
    IN  {key \in Expanded(Packages, repos) :
            \E f \in Speaking(key[1]) :
                /\ \A g \in Speaking(key[1]) : g.name <= f.name
                /\ \E i \in DOMAIN f.lines :
                    /\ key[1] \in f.lines[i].packages /\ ~f.lines[i].negate
                    /\ \A j \in i + 1 .. Len(f.lines) : key[1] \notin f.lines[j].packages}

\* What the package.mask of a parent says is not looked at.
OwnMasks(profile) ==
    {key \in DOMAIN profile.masked : profile.masked[key]} =
        MaskedBy(setting.masks[profile.path], profile.repos)

Complete(profile) ==
    /\ profile.make_defaults_unevaluated = Concatenation[profile.path]
    /\ profile.packages = InPackages[profile.path]

\* A finished profile, returned by the outermost call or waiting for its child to
\* combine it, has the lines of its hierarchy in depth-first order and the packages it
\* leaves.
FinishedAreComplete ==
    /\ results # <<>> => Complete(results[1])
    /\ \A i \in 1 .. Len(stack) :
          stack[i].injected = {} =>
              \A n \in 1 .. Len(stack[i].parents) : Complete(stack[i].parents[n])

\* A finished profile masks what the latest lines of its own package.mask say, whatever
\* the order of the directory, in the repositories it was given; the parents that a
\* parent file names, in the one around them.
MasksAreOwn ==
    LET finished == ToSet(results) \cup UNION {ToSet(stack[i].parents) : i \in DOMAIN stack}
    IN  /\ \A profile \in finished : OwnMasks(profile)
        /\ \A i \in DOMAIN stack : stack[i].injected = {} =>
                \A n \in DOMAIN stack[i].parents :
                    stack[i].parents[n].repos = <<RepoOf[stack[i].parents[n].path]>>

\* The recursion ends, with a profile or with an exception.
Terminates == <>[](stack = <<>>)
=============================================================================
