# A TLA+ model of pms-utils

pms-utils is a C++ library around the Package Manager Specification: it parses
atoms, versions and dependency expressions, iterates ebuild repositories and the
database of installed packages, and evaluates profiles.  Most of it is sequential
code over data structures that are easy to get subtly wrong: iterators over trees
and directories, sets with negated tokens, inheritance, a cache behind a const method,
a scan by several threads.  This directory models those parts in TLA+, checks them with
TLC and proves theorems about them with TLAPS: eight modules of proofs, for every
value of the constants.

    tlc -workers 2 -config MCTaskStack.cfg MCTaskStack     # one run
    tlapm TaskStackProofs.tla                              # one module of proofs

`PROJECT.json` lists the runs, the mutants that show that each property can fail,
the source lines behind every definition, the hazards and the findings.  Paths
below are relative to `src/`.

## 1. The system

| component | state | operations | what has to be right |
|---|---|---|---|
| `GroupExpr::Iterator` (`include/pms-utils/depend/depend.hpp`) | a node pointer and a vector of child indices | `++`, `--`, `to_begin`, `to_end`, `<=>`, four callbacks | pointer and indices agree at every callback; the order is pre-order; no exception marked TODO is reached; every call returns |
| the printer of expressions (same file, 328-366) | output, indentation, "was the last element a header" | one scan of the iterator, with callbacks | indentation is popped as often as pushed; the text parses to the same expression |
| the grammars of groups (`include/pms-utils/depend/depend_parser.hpp`, `ebuild/ebuild_parser.hpp`) | none | alternatives in order: element, group | what is printed is read back; a group is read as a group |
| the iterators over directories: of `Vdb` and its categories (`lib/vdb/vdb.cpp`), of `Repository`, `Category` and `Package` (`lib/repo/repo.cpp`, 178-471) | a directory stream *shared* by copies, an element *per* copy | `begin`, `end`, `++` before and after, copies | dereferenceable unless at the end; every entry that can be built visited once, while others use copies and packages come and go; what cannot be built hides no more than itself |
| `package.use` files (`lib/profile/profile.cpp`, 66-91, 185-208) | unordered sets of `foo`, `-foo`, `*`, `-*` per package | parse a line into a set, merge sets | independent of iteration order; the last mention decides; never a flag with its negation |
| `make.defaults` (`profile.cpp`, 210-235, 336-383) | a map from keys to texts, the text being expanded | plain and expanded lines, accumulation of incremental keys | accumulation in order, last line wins, USE is refused only for what a line says, variables |
| profile inheritance (`profile.cpp`, 94-162, 238-272, 292-353, 385-451, 557-658) | the stack of constructor calls, each with its filters and repositories | parents, combination, `packages`, `package.mask`; `repos.conf` and the three levels of Portage | depth-first order; all ancestors complete before they are combined; masks are those of the latest lines of the own files; the recursion ends |
| effective use flags (`profile.cpp`, 274-290, 453-555) | the verdict on a flag, the result set | seven sources consulted in order, two recursive | precedence of child and parent, flag and wildcard, forced and masked |
| `Expander` (`lib/profile/profile_wildcard.cpp`) over the repository iterators | three nested directory positions with an element each | `begin`, `end`, `++`, `operator[]`, matching | each matching ebuild found once; no failure without a reason; independent of readdir's order |
| the parallel scan (`test/repo/iter.cpp`, `test/utils/threadpool.hpp`) | lock-free stack, atomic counter, set under a mutex | push, pop, count, insert, join | nobody stops early, everybody stops, no race on the set |
| versions (`lib/atom/atom.cpp`, 247-425) | none | `<=>`, `compare_td`, `test_version` | a total preorder; the operators agree |
| `Ebuild::metadata` (`repo.cpp`, 44-159) | an optional that a const method fills, per object | read and parse the cache file on first use, copies of the object | a reference stays whole; what is cached is one content of the file; the conditions under which threads may share it |
| parsers of atoms, `SRC_URI`, `IUSE`, ...; Python bindings; fuzzing | none | | not modelled, see section 7 |

How they interact: the printer drives the iterator through callbacks in the middle
of `++`.  A profile constructs its parents, concatenates their `make.defaults`,
reads its own files, and expands every line of `package.use` and `package.mask`
with `Expander`, which loops over the iterators of the repositories;
`effective_useflags` reads what all of these left.  The test's threads share one
stack, one counter and one set.

What is hard: callbacks that see an iterator between two moves (depend);
exceptions half-way through an operation (vdb, repo, profile); state shared by
copies (vdb, repo); unordered containers edited while they are read (package.use);
recursion over a shared hierarchy (profile); directories that change while they are
read, under `noexcept` (vdb, repo); a cache filled without a lock from a file that a
sync replaces (metadata); counter and stack updated one after the other by several
threads (the parallel scan).

## 2. Modules

| modules | model | TLC | proofs |
|---|---|---|---|
| `DependTree`, `DependIterator` | the iterator; one action per traversal, so that a callback sees the state between two of them | `MCDependPrinter` | `DependIteratorProofs` |
| `PreorderCursor` | abstract: a position in pre-order that moves by one | refined by `DependIterator` | `DependIteratorProofs` |
| `DependPrinter`, `DependGrammar` | the printer on top of the iterator, and any caller after it; the grammar that reads its tokens back, with the rule for elements as a parameter | `MCDependPrinter` | `DependIteratorProofs` |
| `DependRoundTrip` | composes the two: an expression that is printed is parsed again | `MCDependPrinter` | `DependIteratorProofs` |
| `DirectoryStream` | external: `std::filesystem::directory_iterator`, a handle shared by copies | | |
| `DirectoryIterator`, `DirectoryScan` | the five iterators over directories, several copies; a loop over one beside the others and beside merges | `MCDirectoryScan` | `DirectoryScanProofs` |
| `UseTokens`, `PackageUse` | tokens; reading a file line by line, element by element | `MCProfileUse` | `PackageUseProofs` |
| `UseVerdict` | abstract: a verdict per package and flag, decided by the last mention | refined by `PackageUse` | `PackageUseProofs` |
| `MakeDefaults` | the evaluation loop, element by element | `MCProfileUse`, `MCMakeDefaults` | `PackageUseProofs` |
| `UseFlags` | `effective_useflags` on a loaded hierarchy | `MCProfileUse` | `PackageUseProofs` |
| `ProfileUse` | composes the four above: what evaluation and reading leave is what the flags are computed from | `MCProfileUse` | `PackageUseProofs` |
| `ProfileLoad`, `PortageProfileLoad` | the recursive constructor as an explicit stack of frames, with its masks; `repos_from_portage` and the three calls of `init_base` | `MCPortageProfileLoad` | `PortageProfileLoadProofs` |
| `RepoTree`, `Expander` | what the repository iterators read from a changing tree; the nested range-for loops of the expansion | `MCExpander` | `ExpanderProofs` |
| `RepoCensus` | abstract: ebuilds found one at a time, then compared | refined by `TaskStack` | `TaskStackProofs` |
| `TaskStack` | main thread, workers, stack, counter, mutex | `MCTaskStack` | `TaskStackProofs` |
| `MetadataCache` | `metadata()` and `parse_metadata` in several threads, on objects that are shared and copied, during a sync | `MCMetadataCache` | `MetadataCacheProofs` |
| `VersionOrder` | algorithms 3.2 to 3.7 and the selection by an operator | `MCVersionOrder` | `VersionOrderProofs` |

Correspondence, where it is not one to one:

* *Trees.*  A tree is a function from the paths of its groups to their number of
  children, a node is a path, the null pointer is `Null`.  `index_` is the path
  itself; that it and the pointer agree is `Coherent`, not an assumption.
* *Frames.*  The C++ call stack of `Profile::Profile` is the sequence `stack`; each
  action is one statement of the constructor, so an exception can be raised between
  any two (`Throw`).  The loops of `Expander` are `frames` in the same way, with the
  phases of a range-for: construct `begin()`, construct `end()`, test, body, `++`.
* *Iterators over directories.*  The five are one module, told apart by `kind`: which
  entries `begin` and `++` pass over, which make the constructor of the element throw,
  whether that ends the program (`noexcept`), and whether the element is dropped at the
  end.  A `Repository::Iterator` walks a vector of its own by an index, which is a
  stream that no copy shares.
* *What cannot be built.*  An odd entry is, of a vdb, one whose constructor throws; of a
  package, an `.ebuild` that cannot be built; of a category, a directory whose name is no
  package name; of a repository, a line of `profiles/categories` that is malformed or names
  no directory (a file that is not there counts as one such line).  `init_categories` looks
  at all lines, and `Category`'s constructor at one again in `++` (`BeginThrows`, `Refused`).
* *Directory entries.*  A listing is any order of the entries present when the
  directory is opened.  In `Expander` an entry that is removed afterwards may still be
  read, with the type `readdir` knew, or not; in `DirectoryScan` it is the contents of an
  entry that change (`Change`), at any moment before its element is built.
* *The cache file.*  A sync replaces it by a rename, or removes it and writes it again,
  ending at any time within a line: `fronts` is what there may be of a line, and
  `getline` takes it for one (`ReadFront`).  What a rule of Boost.Parser makes of a text
  is given with it: all is read, a front, or nothing.  `origin` and `spoilt` are history variables: which content
  an object was filled from, and whether it was used while a call might fill it.
* *Profiles and their flags.*  `ProfileLoad` carries each line of `make.defaults` along by
  name and knows the directories; `ProfileUse` has the concatenated lines as an input, and
  the recursion of `effective_useflags` over a hierarchy of its own.
* *Texts* are sequences of words and spaces: the blank, the newline with a backslash in
  front, and any other, which are what `make_defaults_value` admits and
  `make_defaults_shlex` tells apart.  A line without a `$` is kept as it is, spaces and all;
  a quoted word with spaces in it counts as one word, and `parsers::profile::USE` does not
  accept it (`Invalid`).  Tokens of use flags are a sign and a
  name, numbers of versions are sequences of digits, because leading and trailing
  zeros matter there.
* *Matching.*  What a regular expression, a version operator or a slot of a wildcard
  atom matches is a set of entries given with the atom.  Another set (`incomparable`) are
  the ebuilds whose version cannot be compared with the atom's: `stoul` throws
  (`lib/atom/atom.cpp:262`, 301, 365) below a comparison that is `noexcept` (400), which
  ends the program (`Body`).
* *Mutants.*  Each property of a passing run is accompanied by an operator, next to
  the definition it replaces, that changes that definition as a plausible bug would
  and makes the property fail.  `PROJECT.json` pairs them.  They are part of no
  specification.

## 3. What the runs check

| run | shows | bounds |
|---|---|---|
| `depend` | printing: `SpacingIsDepth`, `RoundTrip` through the grammar; in the printer's calls and any others: `Coherent` at every callback, `NeverThrows`, `CallReturns`, `OrderIsPreorder` for `<=>`, `ImplementsCursor` | all trees of three levels and one or two children, and of two levels and up to three children, empty groups included; every choice of groups that have a header; any sequence of calls |
| `flattened_groups` | violated: `GroupsAreRead` (finding 4) | the same |
| `directory_scan` | `ElementUnlessEnd`, `NeverAhead` for copies advanced in any order over entries that cannot be built; `VisitsEveryEntry`: an exception in `++` costs a loop one entry, a merge or unmerge one package, and a copy makes it skip entries but never repeat one; `OneHidesAll`: which entry makes `begin()` fail | three iterators, directories of up to three entries of any shape, all four kinds, one merge, unmerge, or category made or removed |
| `use_resolution` | evaluation: `Accumulates`, `LastWins`, `RefusedForALine`; package.use: `Consistent`, `ImplementsReading` for every iteration order; the outcome: `FlagsAreDecided`, and `LatestTokenDecides` from the lines of package.use to the flags | up to three lines of three keys and twelve kinds of value, with stray blanks and newlines among them; or up to four tokens for two packages and two flags, cut into lines in every way; or tokens in any two files of three profiles, or in one of each kind with variables set, for four ebuilds |
| `make_defaults_shared` | violated: `ParentsShareVariables` (finding 1) | two lines |
| `iuse_default` | violated: `DefaultIsMeant` (finding 3) | as `use_resolution`, with one line of make.defaults or two tokens |
| `portage_profile` | `BoundedRecursion`, `FinishedAreComplete`, `Terminates` of each constructor, `Levels`: how the three of `init_base` stack and which repositories they get; `MasksAreOwn`: what each profile masks | make.profile with every list of at most two parents out of two directories, one of which may have the other as its parent; the user profile with one parent, the configuration with none or two; packages files that add, remove or both; package.mask directories with up to three files, a hidden one among them; every repos.conf of at most two lines, duplicates and missing files included |
| `wildcard_expansion` | `Sound`, `Complete`, `FailsForAReason`, `ExpansionEnds` | two repositories, up to two removals at any moment, seven kinds of atom, one of them with an ebuild that cannot be compared, six states of the tree |
| `metadata` | `HeldAreWhole`, `CacheIsOneContent`, `ParsedOnce` | two threads, two objects, one sync in place or by removal, then in pieces; a line that is read whole, one in part, a plain one, one without a member; the file ending within a key, within a plain text and behind an element of a list |
| `task_stack` | `CounterCovers`, `ExitMeansDone`, `Exclusive`, `ImplementsCensus`, `ScanEnds` | three workers; categories of no, one and two packages; packages of no, one and two ebuilds |
| `version_order` | `Dual`, `Transitive`, `SelectorsAgree` | versions of up to three components, three letters, six lists of suffixes, three revisions |
| `version_td` | violated: `EqualModuloRevision` (finding 2) | the same |

Why the bounds are enough.  The theorems of section 5 remove them for all properties but
liveness; the runs keep the models and the theorems honest, since every interesting case
has to happen in them.  *Trees*:
every traversal looks at a node, its siblings and its ancestors; the trees have nodes that
are first, last, inner and only child, below the top and below each other, and empty groups
beside any of them.  *Directories*: three iterators give one ahead, one behind and one on
another stream; odd entries are met at the front, in the middle and at the end, one or
several in a row; one merge or unmerge hits every place of a scan.  *package.use*: a flag,
its negation or a wildcard, in front of and behind another, in one line or two.
*make.defaults*: set, append and append again, a variable before and after a word, a space
too many at an end and in between, with and without a variable.
*Profiles*: diamond, chain and the same parent twice need three directories; a repos.conf
may be empty, name a repository twice or one that is not there.  *Masks*: two files and two
lines give every order in which a line can override another, whatever the order of readdir;
a hidden file must be passed over.  *Use flags*: two speaking files give every pair of
precedence.  *Expansion*: one removal can hit every gap between two reads, two removals can
empty a directory and remove it.  *Metadata*: two threads meet in every pair of steps, one
sync gives two contents, the file missing and the file up to any piece; a copy may be made before,
while and after its source is filled.  *Threads*: two workers race for stack, counter and
mutex while a third one is unborn, spinning or gone.  *Versions*: every algorithm decides,
or leaves to the next, in each of its ways.

What `metadata` assumes of callers is part of its properties: an object counts while
nobody used it, in a call or a copy, during a call that might fill it (`spoilt`).  So it
says when sharing is safe: fill an object before it is shared.  For a spoilt object the
model lets a torn value be read and left behind, as the unsynchronised optional may.

Integers: the only counter that could wrap, `outstanding`, is proved never to be
decremented at 0 (`CounterCovers` with a running task).  A version component that does not fit an `unsigned long` throws in a `noexcept` function: `VersionOrder` has
the outcome "terminate" for it, at a small `MaxUlong` instead of 2^64 - 1, and `Expander`
has it for a set of ebuilds.

## 4. Fairness

* Iterator, printer, profile and expansion are sequential: weak fairness of the
  next statement of a call says that the thread which runs it goes on.  There is none on the caller's choice of calls, on
  exceptions, or on `Vanish`; modules without a liveness property state none.
  The same holds of `MetadataCache` and `DirectoryScan`: nothing there waits for another.
* `TaskStack`: weak fairness of the main thread and of each worker.  They are OS
  threads, and every runnable one is scheduled eventually.  Locking the mutex and
  joining are guards: each waits for something that happens once and stays, or, for
  the mutex, `ScanEnds` holds with weak fairness of the whole worker, since the
  insertions are finitely many and a free mutex is always taken by somebody.
  Spinning workers (`Test`, `Consume` of an empty stack) are steps too, so that
  `ScanEnds` also says that spinning does not keep the others from work.

## 5. What is proved

Each theorem is one of a specification, by an inductive invariant: it holds initially,
every action keeps it, and it implies the property.  What a definition by recursion or
by `FlattenSeq` computes is reached by a function of the same equation: such a function is
shown to exist for each bound by way of the least number for which there is none
(`RecursionDefines`, `SumsExist`, `ValueNat`, and for the parser and the expression it is
to return `ListsFrom` and `BuiltUpwards`), since the provers cannot instantiate a theorem
of induction.

**`DependIteratorProofs`**, for every set of finite trees of any depth and arity.

* The iterator: `TypeCorrect`, `CoherentAlways` (pointer and index vector name the same
  node), `NeverThrowsAlways`.  `Coherent` alone is not inductive, because between two
  traversals the position is one that the next traversal repairs (after the leftward step
  from `end()`, or in front of the upward step); `IInv` says for each phase of a call what
  the position is.
* The printer: `PrinterTypeCorrect`, `SpacingIsDepthAlways`, `OrderIsPreorderAlways`.
  `PInv` says for each stage of the loop how far the indentation is behind the depth that
  the iterator's next traversal has, which is why no callback shortens an empty string.
* `ImplementsCursorAlways`: iterator and printer together implement `PreorderCursor`.  The
  refinement mapping (`Position`) takes an iterator in the middle of a call for the last
  of all nodes below the one it points at: in `++` that is where the step began, in `--`
  where it will arrive.  A node is
  followed by its first child (`FirstChildIsNext`), or by the next sibling of the nearest
  ancestor that has one (`SiblingIsNext`), or by the end: the node that *closes* another is
  the last of all that lie below it, and what closes the last child of a group closes the
  group (`ClosesGroup`), so that going up in `++` and going down to the right in `--`
  change nothing.  That there is such a node needs that trees are finite
  (`DepthIsBounded`).  The cursor's `Rewind` is the calls `to_begin` and `to_end`.
* `RoundTripAlways`: an expression without an empty group that is printed is read back as
  itself, whatever its depth, arity and headers.
  - The text: `TextInv` says of every stage of the printer that there is a record of what
    was written so far, with the groups that are open, those that are done, how many of its
    nodes each has got, and where in the text it starts and ends.  Every token of `out` is
    accounted for: the opening of each group in the record, blanks between its nodes, and
    the bracket of each that is done.  Where the printer stands decides which is the
    innermost open group, since brackets are only written when the next node is met.
  - The parser: `list` at a position asks for lists behind it only (`ListLooksAhead`), so
    that there is a parse of every position (`ListsAreParsed`).  On a text as recorded,
    the parser at the start of a node yields that node as `Built`, and ends where it ends
    (`NodesRead`), by the last node of the text for which it would not: for a group that
    follows from its nodes, which start later, and for a list from the node and the rest of
    its siblings, which start later too (`NodeReadStep`).
* `CallsAreBounded`: in every ++ and -- each step of the loops lowers a natural number
  (`StepsLeft`), so that the recursion of `traverse_*` ends on every expression.  ++ only
  goes up; -- only goes on in pre-order (`FewerBehind`), and may look at a node twice.  It
  is the part of `CallReturns` that does not need fairness.

Assumption: `Trees` are trees with finitely many nodes (`TreesAssumption`), which is what a
vector that owns its elements can hold.

**`PackageUseProofs`**, for all flags, packages and words, and files of any length.

* package.use: `TypeCorrect`, `ConsistentAlways`, and `Refinement`: reading a file into
  sets and merging the sets implements `UseVerdict`, where each token is applied at once.
  The mapping undoes what is pending: the verdict on a flag is that of the package's set
  overlaid by what is left of the line's set.  Merging one element changes no verdict,
  whichever element is taken (`MergedElement`), which is why the order of an
  `unordered_set` does not matter; parsing a token is one step of the abstract reading
  (`ParseReads`).
* make.defaults: `AccumulatesAlways`, `LastWinsAlways`, `RefusedForALineAlways`.  `MInv` has
  that a non-empty `expanded_line` ends in a blank (`Trailing`), hence is no variable's name
  (`NeverFound`); `WInv` adds that the map is what the lines that have been passed say
  (`Told`), and that `expanded_line` is the words of the elements that have been passed,
  a blank after each (`Halfway`).  Texts that are joined are acceptable exactly if each of
  them is (`AcceptableTogether`), which is why one line is to blame or none; a line with a
  reference is never to blame for its spaces (`BlamedIs`).
* Effective flags: `FlagsAreDecidedAlways`.  What `algorithm_5_1_force` and
  `algorithm_5_1_mask` return for a profile is the last word (`LastWord`) of its sequence
  of files `FilesOf` (`HierarchySpeaks`, along the rank of the profiles): the last word of
  a concatenation is that of its second part, or of the first if the second says nothing
  (`LastWordTogether`), and a loop over the parents in which each verdict overrides those
  before it is the last word of their verdicts (`FromParentsIsLast`).  That the recursion
  gives every profile one verdict is `VerdictsExist`.  What `USE` is parsed into is
  `ParsedUseKeeps`, and `FInv` says that the flags so far are those that an element of
  IUSE in front of the loop is granted; it needs that the loop never takes back what
  another element with the same flag was granted (`DoFlagIsGranted`).
* From package.use to the flags: `LatestTokenDecidesAlways`, from `LInv`: in every stage
  of a combination the latest token is in the set that its packages will have.

Assumptions: the wildcard is no flag and is not in IUSE, a space is no word, and a parent
has a lower rank, that is, there is no cycle.

**`TaskStackProofs`**, for any number of workers and any repository:
`CounterCoversAlways`, `ExitMeansDoneAlways`, `ExclusiveAlways` and `Refinement`
(`RepoCensus`).  The counter alone does not say that nothing is lost: `IInv` adds
`Conserved` (every ebuild is found, or owed by a task that is on the stack, running,
or a child still to be pushed), `Born` (no worker runs before all categories are
counted), `Busy` (what a worker is about to do fits its task) and `Joined` (those
that were joined have left).  With counter 0 nothing owes anything, hence a worker
that reads 0 leaves a complete set (`NoMoreWork`).  Assumptions: the pool has at
least one thread, categories and packages are distinct tasks.

**`DirectoryScanProofs`**, for directories of any length with any entries that cannot
be built, any number of iterators and of merges: `AlwaysAnElement` (`ElementUnlessEnd`),
`NeverAheadAlways`, `NeverTwice` (the order of visits), `VisitsEveryEntryAlways` and
`OneHidesAllAlways`.  What is left in a stream is a suffix of the directory (`Typed`), and
the element of an iterator is one of those in front of that suffix or its first (`Held`);
each operation keeps both whichever streams it closes (`Closed`).  For a loop, `Seen` adds
that what it got is in front of its element between an advance and a visit, and not
behind the current entry of its stream between a visit and an advance, where other
iterators may move that stream, but only on (`OthersLeave`).  That nothing is missed is
`Thorough`: all that could be built and lies in front of where the loop stands was visited,
or changed meanwhile, as long as no copy has been advanced.  Assumptions: entries of a
directory are distinct; a null stream is no stream.

**`ExpanderProofs`**, for any repositories and atoms and any number of removals:
`SoundAlways`, `CompleteAlways`, `FailsForAReasonAlways`.  `IInv` says that the loops under
way are nested as the directories are, each at an entry of its directory (`Nested`).
For completeness, `Progress` says where every ebuild that is wanted, and still there, has
to be: found, in what some loop has yet to read, or below the entry that a loop is at
(`Coming`).  For failures, what refuses an atom or a comparison is a reason that no later
removal takes away (`ReasonKept`).  `Once` says that what has been found is below nothing that a loop has yet to
come to, in a repository that stays as it is.  Assumptions: repositories are trees of
finitely many files (`TreeAssumption`); an exact name is that of one entry of a directory
(`ExpanderAssumption`).

**`MetadataCacheProofs`**, for any threads, objects and contents of any length:
`ReferencesStay` (`HeldAreWhole`), `FilledForGood` (`ParsedOnce`) and `OneContent`
(`CacheIsOneContent`).  The invariant says that an object that is not spoilt is filled by
one call at a time, which nobody else is inside of; and that what a call has parsed is what
the lines it has read say, where the step from one line to the next (`TakeSays`) needs that
each key comes once.  A piece of a line is the last that a call reads (`ReadFrontReads`),
since it is there only at the end of what is written (`FrontThere`).  Assumptions: keys come
once in a content, a front of a line has the key of the line or none, and no member has the
value of a torn one.

**`PortageProfileLoadProofs`**, for every ranked hierarchy, any files in it and any
repositories: `FinishedAreCompleteAlways`, `MasksAreOwnAlways`, `LevelsAlways`.  For the recursion, ranks fall along the stack, and the paths still to be
constructed have a lower rank than the frame that holds them, for the parents of files and
for those that the levels of Portage inject.  For the rest, `Tower` says of each frame what
it has collected of which parents, what its caller waits for, and of which lines its masks
are; `TInv` adds what the calls of `init_base` have returned.  Assumptions: a parent has a
lower rank, that is, there is no cycle (with one the recursion does not end); a
package.mask directory has finitely many files with different names.

**`VersionOrderProofs`**, for all versions: `DualAlways`, `TransitiveAlways` and
`SelectorsAgreeAlways`.  No step of `Spec` computes anything here, so that the work is in
lemmas about the algorithms: each is a loop that the first position that differs decides,
and the chains of its positions make a chain of the whole (`VersionOrderProofs` goes
through the algorithms from 3.7 up to 3.2), although a component is compared as a number
or as a text depending on both sides.  The numbers are the values of their digits.
Assumptions: a version has a component and a component a digit; `MaxUlong` is a number.

Only model-checked:

* `BoundedRecursion`, which follows at once from the ranks that the proofs assume.
* all liveness properties (`CallReturns`, `Terminates`, `ExpansionEnds`, `ScanEnds`): the
  prover has no rule for fairness and `ENABLED`.  Of `CallReturns`, `CallsAreBounded`
  proves that there is no infinite sequence of steps in a call; that a call in progress
  can always take a step is checked.

## 6. Findings and observations

Findings, each with a run that TLC finds violated:

1. `lib/profile/profile.cpp:373`.  A variable in `make.defaults` is looked up under
   the text expanded so far instead of its own name: it is always unknown, and
   `BAR="$FOO"` empties `BAR`.
2. `lib/atom/atom.cpp:324`.  Versions with equal letters are equal whatever follows
   the letter: `1a_alpha` is equal to `1a_p2`, and `1a-r1` to `1a-r2`.
3. `lib/profile/profile.cpp:516`.  A flag of IUSE is on if it has a default, whichever
   it is: `IUSE="-foo"` enables `foo`.
4. `include/pms-utils/ebuild/ebuild_parser.hpp:181`.  The rule for an element of
   RESTRICT, PROPERTIES and SRC_URI matches a conditional and a bracket too and is tried
   first, so that groups are read as flat lists of elements.

Observations, for which there is no run:

* A line without a `$` is kept verbatim, while `parsers::profile::USE` wants exactly one
  blank between two flags: `USE="a  b"`, a blank at an end or a line break makes the
  constructor throw, for the profile and all that inherit it (`RefusedForALine`), although
  `test/profile/make_defaults.cpp:35-47` parses such values.
* If finding 1 were fixed, a variable that is set to the empty text would leave two
  blanks in a row, which the parser of `USE` refuses.
* `make_defaults_use_inserter` drops the minus of a negated flag
  (`include/pms-utils/profile/profile_parser.hpp:95`): `USE="-foo"` turns `foo` on.  `FlagsAreDecided` states this as it is.
* `effective_useflags` ignores wildcards of `package.use`, and takes a package for
  stable if ARCH is one of its IUSE flags.
* `package.use` and `package.mask` of parents are not inherited, in contrast to
  `package.use.force` and `package.use.mask`.  A line `-cat/pkg` of `package.mask` has an
  effect only on what earlier lines of the same profile masked (`MasksAreOwn`).
* Copies of an iterator over a directory share its stream and compare equal by it, while
  each keeps an element, which may differ: they are input iterators, whereas
  `include/pms-utils/vdb/vdb.hpp:251` asserts `std::forward_iterator`, which the compiler
  can only check the syntax of.
* `bdepend()` and `rdepend()` of an installed package return `depend_`
  (`include/pms-utils/vdb/vdb.hpp:126-132`).
* `to_string` of a single node prints a nested all-of group without its brackets, by the
  operator that takes it for the topmost one (`include/pms-utils/depend/depend.hpp:369`).
* `return {1, val.value()}` in `include/pms-utils/ebuild/ebuild_parser.hpp:195` makes a
  text of two characters, the first with the code 1, where one is meant.
* `std::thread::hardware_concurrency()` may be 0, which the constructor of the test's pool
  refuses (`test/utils/threadpool.hpp:27`).
* Without a directory `profile` in the configuration, `make.profile` is loaded and
  then not used (`Levels`).
* A cycle of `parent` files is not detected; the constructor recurses without end.
* A category that is named exactly need not be in `profiles/categories`, whereas a
  wildcard finds only listed ones (`SearchedCategories`).
* `begin()` and `end()` of all repository iterators are `noexcept` and construct the
  first element, both of them: a missing category, a misnamed ebuild in front, or a
  removal during the scan ends the program rather than throws.
* A directory whose name is no package name is skipped only in front of the first
  package; behind it, it is yielded as a package.
* A revision that does not fit an `unsigned long` ends the program when the comparison of
  versions comes to it, with `=` too, though not with `~`, which leaves it out.  So one such
  ebuild ends the expansion of every atom with a version that searches its package.
* `getline` returns a last line without a newline, so that `metadata()` during a sync that
  writes in place keeps, for good, the front of a DESCRIPTION or of a list that ends behind
  an element (`ReadFront`).
* A `repos.conf` without a repository is passed on as an empty list, which the constructor
  takes for none given: it looks for the repository around the configuration instead.
* Numbers of suffixes compare as strings: `_p10` is earlier than `_p9`.
* The comments of `ge` and `gt` in `include/pms-utils/atom/atom.hpp:26-27` are
  swapped.

## 7. What is not modelled

* The parsers of atoms, versions, slots and of the flat lists of the metadata (KEYWORDS,
  INHERITED, IUSE, EAPI, DEFINED_PHASES): regular languages over characters, without
  state.  Of the expressions (DEPEND, LICENSE, HOMEPAGE, REQUIRED_USE, RESTRICT,
  PROPERTIES, SRC_URI) the grammar of groups is modelled, on tokens, because the printer
  has to agree with it; what an element looks like inside is not, hence nor is the round
  trip of an atom.
* How a multi-line `use.mask` accumulates in one set depends on how Boost.Parser
  treats the attribute of a second parse; `UseFlags` takes whatever the files leave.
  The sets of USE_EXPAND, CONFIG_PROTECT and ENV_UNSET are built and never read.
* What entries of the vdb contain: whether an entry can be built is a choice, and a
  merge or unmerge changes it.
* Additions to a repository during an expansion; only removals are.  A vdb or repository in
  `DirectoryScan` keeps its entries, and changes whether they can be built.
* Regular expressions and their escaping in `Expander`.
* A line that `profiles/categories` has twice.  In `Expander` a malformed line stands for
  one whose directory is missing; `DirectoryIterator` has both.
* `to_string` of a single node of an expression.
* Tearing of a `Metadata` below its members: a spoilt object is torn or it is not.
* Python bindings (generated by reflection), fuzz targets, hashing, streaming and
  formatting: no state beyond one call.

## 8. Plan

Done: the modules above, in the order core (`DependIterator`, `DirectoryIterator`,
`PackageUse`, `ProfileLoad`, `TaskStack`), what reads them (`DependPrinter`,
`DirectoryScan`, `UseFlags`, `Expander`), compositions (`ProfileUse`,
`PortageProfileLoad`), `MetadataCache`, then proofs of all safety properties.
Left, as far as worth it:

1. `VdbEntry`: which missing or malformed files make an `Entry` throw, in the order in
   which the constructor reads them.
2. Additions to a repository during an expansion.
