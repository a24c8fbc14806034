------------------------------ MODULE RepoTree ------------------------------
(***************************************************************************)
(* An ebuild repository on disk and what the iterators of Repository,      *)
(* Category and Package read from it.  Directories may lose entries while  *)
(* they are read.                                                          *)
(***************************************************************************)
EXTENDS Naturals, Sequences, FiniteSets, SequencesExt

CONSTANTS
    Repositories,   \* the repositories, in the order they are searched
    Index,          \* for each repository, its file profiles/categories
    Listed,         \* for each repository, the categories that the file lists
    CategoryDirs,   \* the directories of categories
    PackageDirs,    \* the directories in them
    WellNamed,      \* those of them whose name is a package name
    EbuildFiles,    \* the files with the extension .ebuild
    GoodEbuilds,    \* those of them named after their directory and a version
    OtherFiles,     \* all other files, profiles/categories aside
    Content         \* for each directory, what it may hold

Roots == ToSet(Repositories)
Nodes == Roots \cup {Index[r] : r \in Roots} \cup CategoryDirs \cup PackageDirs
         \cup EbuildFiles \cup OtherFiles

End == "end"        \* an iterator past the last entry

Dirs == Roots \cup CategoryDirs \cup PackageDirs

\* A path is in one directory.  The categories file, read line by line, is assumed to
\* hold names of categories.
ASSUME TreeAssumption ==
    /\ Repositories \in Seq(Roots) /\ IsInjective(Repositories)
    /\ IsFiniteSet(Nodes) /\ End \notin Nodes
    /\ WellNamed \subseteq PackageDirs /\ GoodEbuilds \subseteq EbuildFiles
    /\ \A r \in Roots : Content[r] \subseteq CategoryDirs \cup {Index[r]}
    /\ \A r \in Roots : Listed[r] \in Seq(Content[r] \cap CategoryDirs)
    /\ \A c \in CategoryDirs : Content[c] \subseteq PackageDirs \cup OtherFiles
    /\ \A p \in PackageDirs : Content[p] \subseteq EbuildFiles \cup OtherFiles
    /\ \A d, e \in Dirs : d # e => Content[d] \cap Content[e] = {}
    /\ \A p \in PackageDirs \ WellNamed : Content[p] \cap GoodEbuilds = {}

Levels == {"repository", "category", "package"}

\* Can a range for over dir be started?  Repository::Iterator::init_categories wants
\* all the categories, a directory_iterator only the directory.
Readable(level, dir, present) ==
    IF level = "repository"
    THEN Index[dir] \in present /\ ToSet(Listed[dir]) \subseteq present
    ELSE dir \in present

\* What there is to read, in any order that readdir may have.
Listings(level, dir, present) ==
    IF level = "repository" THEN {Listed[dir]} ELSE SetToSeqs(Content[dir] \cap present)

\* A mutant: the extension is not looked at.
PassedOverUnlessFile(level, first, e) ==
    level = "category" /\ (e \notin PackageDirs \/ (first /\ e \notin WellNamed))

\* Entries that the loops of begin and of ++ pass over: by the extension, which needs
\* no look at the file; by the type of the entry; in begin, by the name.
PassedOver(level, first, e) ==
    CASE level = "repository" -> FALSE
      [] level = "category" -> e \notin PackageDirs \/ (first /\ e \notin WellNamed)
      [] level = "package" -> e \notin EbuildFiles

\* A mutant: ++ passes over an entry too many.
ReadsTooFar(level, first, left, present) ==
    {i \in 1 .. Len(left) + 1 :
        /\ \A j \in 1 .. i - 1 :
            j = 1 \/ PassedOver(level, first, left[j]) \/ left[j] \notin present
        /\ i <= Len(left) => ~PassedOver(level, first, left[i])}

\* The entries of a listing at which a read may stop, or one past it.  An entry that
\* has been removed may be read still, with the type that readdir knew of it, or not.
Reads(level, first, left, present) ==
    {i \in 1 .. Len(left) + 1 :
        /\ \A j \in 1 .. i - 1 :
            \/ PassedOver(level, first, left[j])
            \/ level # "repository" /\ left[j] \notin present
        /\ i <= Len(left) => ~PassedOver(level, first, left[i])}

Entry(left, i) == IF i <= Len(left) THEN left[i] ELSE End

\* Do the constructors of Category, Package and Ebuild accept the entry?
Valid(level, e, present) ==
    /\ e \in present
    /\ level = "package" => e \in GoodEbuilds
=============================================================================
