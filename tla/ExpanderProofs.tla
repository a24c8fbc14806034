--------------------------- MODULE ExpanderProofs ---------------------------
(***************************************************************************)
(* For repositories of any size and any order of directory entries: what   *)
(* the expansion of a wildcard atom finds, and why it can fail.            *)
(***************************************************************************)
EXTENDS Expander, FiniteSetTheorems, TLAPS

\* The entries of a directory that a loop over it can get as elements.
Offered(level, dir) ==
    Kind(level) \cap
        (IF level = "repository" /\ ~atom.exact_category THEN ToSet(Listed[dir]) ELSE Content[dir])

\* The directories that a loop of some level is started for.
Started(level) ==
    CASE level = "repository" -> Searched
      [] level = "category" -> SearchedCategories
      [] level = "package" -> SearchedPackages \cap PackageDirs

\* One loop.
Sited(f) ==
    /\ f \in Frames
    /\ f.dir \in Started(f.level)
    /\ ToSet(f.left) \subseteq Content[f.dir] \cap initial
    /\ f.level = "repository" => ToSet(f.left) \subseteq Offered(f.level, f.dir)
    /\ \A e \in {f.cur, f.peek, f.elem} \ {End} : e \in Offered(f.level, f.dir) \cap initial
    /\ f.elem # End /\ f.level = "package" => f.elem \in GoodEbuilds
    /\ f.cur = End => f.left = <<>>
    /\ f.phase \in {"lookup", "begin"} => f.cur = End
    /\ f.phase \in {"end", "ended"} => f.elem = f.cur
    /\ f.phase = "advance" => f.elem # End
    /\ f.phase = "advanced" /\ ~Exact(f.level) => f.elem # End
    /\ f.phase = "body" /\ f.cur # End =>
           f.elem # End /\ (f.elem = f.cur \/ f.cur \notin present)
    /\ f.phase = "lookup" => Exact(f.level)
    /\ Exact(f.level) => f.left = <<>> /\ f.phase \notin {"begin", "begun", "end", "ended"}

\* The loops under way: each but the innermost one waits in its body for the one below.
Nested ==
    /\ frames \in Seq(Frames)
    /\ frames # <<>> => frames[Len(frames)].level = "repository"
    /\ \A i \in 1 .. Len(frames) : i + 1 \in 1 .. Len(frames) =>
           /\ frames[i].level = Deeper(frames[i + 1].level) /\ frames[i + 1].level # "package"
           /\ frames[i].dir = frames[i + 1].elem
           /\ frames[i + 1].phase = "advance"

Typed ==
    /\ initial \in Trees /\ present \subseteq initial /\ atom \in Atoms
    /\ \A d \in Dirs : Content[d] \cap present # {} => d \in present
    /\ at \in Nat /\ (atom.repo # AnyRepo => at \in {0, 1}) /\ atoms \in Seq(Nodes)
    /\ \A i \in 1 .. Len(frames) : Sited(frames[i])
    /\ ToSet(atoms) \subseteq Wanted \cap initial
    /\ outcome # "running" => frames = <<>>

IInv == Typed /\ Nested

-----------------------------------------------------------------------------
\* What is wanted of what is below an entry that a loop gets.
Wants(level, e) ==
    CASE level = "repository" ->
            atom.ebuilds \cap GoodEbuilds
                \cap UNION {Content[p] : p \in Content[e] \cap atom.packages \cap WellNamed}
      [] level = "category" -> Content[e] \cap atom.ebuilds \cap GoodEbuilds
      [] level = "package" -> {e}

\* The entries of a directory below which something may be wanted.
Items(level, dir) ==
    CASE level = "repository" -> Offered(level, dir) \cap atom.categories
      [] level = "category" -> Content[dir] \cap atom.packages \cap WellNamed
      [] level = "package" -> Content[dir] \cap atom.ebuilds \cap GoodEbuilds

WantedOf(r) == UNION {Wants("repository", c) : c \in Items("repository", r)}

\* All of it that is still there has been found.
Has(S) == S \cap present \subseteq ToSet(atoms)

\* What a loop has yet to do.
Coming(f, e) ==
    \/ f.phase \in {"lookup", "begin"}
    \/ e \in ToSet(f.left)
    \/ f.phase \notin {"lookup", "begin", "advance"} /\ e = f.cur

SearchedLater(r) ==
    IF atom.repo = AnyRepo THEN \E i \in 1 .. Len(Repositories) : at < i /\ r = Repositories[i]
    ELSE at = 0

\* Of everything that is wanted and there, what has not been found is below an entry that
\* a loop has yet to come to, or in a loop under way.
Progress ==
    /\ \A i \in 1 .. Len(frames) :
           \A e \in Items(frames[i].level, frames[i].dir) :
               \/ Coming(frames[i], e)
               \/ i # 1 /\ e = frames[i - 1].dir
               \/ Has(Wants(frames[i].level, e))
    /\ outcome \in {"running", "returned"} => \A r \in Searched :
           \/ outcome = "running" /\ SearchedLater(r)
           \/ frames # <<>> /\ r = frames[Len(frames)].dir
           \/ Has(WantedOf(r))

-----------------------------------------------------------------------------
\* What is below an entry, wanted or not.
Below(level, e) ==
    CASE level = "repository" -> UNION {Content[p] : p \in Content[e] \cap PackageDirs}
      [] level = "category" -> Content[e]
      [] level = "package" -> {e}

BelowRepository(r) == UNION {Below("repository", c) : c \in Content[r] \cap CategoryDirs}

\* Nobody changes the repository, and it lists no category twice.
Orderly == Untouched /\ \A r \in Roots : IsInjective(Listed[r])

\* A loop comes to every entry once.
Distinct(f) ==
    /\ IsInjective(f.left) /\ f.cur \notin ToSet(f.left)
    /\ f.phase \in {"advance", "body"} => f.elem \notin ToSet(f.left)

\* Nothing below what a loop has yet to come to has been found.
Once ==
    Orderly =>
        /\ IsInjective(atoms)
        /\ \A i \in 1 .. Len(frames) :
               /\ Distinct(frames[i])
               /\ \A e \in Content[frames[i].dir] \cap Kind(frames[i].level) :
                      Coming(frames[i], e) => Below(frames[i].level, e) \cap ToSet(atoms) = {}
        /\ outcome = "running" => \A r \in Searched : SearchedLater(r) =>
               /\ BelowRepository(r) \cap ToSet(atoms) = {}
               /\ frames # <<>> => r # frames[Len(frames)].dir

-----------------------------------------------------------------------------
(* Sequences of loops, and the reading of directories.                     *)

LEMMA TopIs ==
    ASSUME frames \in Seq(Frames), frames # <<>>, NEW f \in Frames, Top(f)
    PROVE  /\ frames' \in Seq(Frames) /\ frames' # <<>> /\ Len(frames') = Len(frames)
           /\ frames'[1] = f
           /\ \A i \in 1 .. Len(frames) : i # 1 => frames'[i] = frames[i]
  BY DEF Top

LEMMA PopIs ==
    ASSUME frames \in Seq(Frames), frames # <<>>, frames' = Tail(frames)
    PROVE  /\ frames' \in Seq(Frames) /\ Len(frames') = Len(frames) - 1
           /\ \A i \in 1 .. Len(frames') : i + 1 \in 1 .. Len(frames) /\ frames'[i] = frames[i + 1]
           /\ frames' # <<>> <=> Len(frames) # 1
  <1>1. PICK n \in Nat : n = Len(frames) /\ n # 0
    OBVIOUS
  <1>2. frames' \in Seq(Frames) /\ Len(frames') = n - 1
    BY <1>1
  <1>3. \A i \in 1 .. n - 1 : i + 1 \in 1 .. n /\ frames'[i] = frames[i + 1]
    BY <1>1, <1>2
  <1>4. frames' = <<>> <=> Len(frames') = 0
    BY <1>2
  <1>5. frames' # <<>> <=> n # 1
    BY <1>1, <1>2, <1>4
  <1> QED BY <1>1, <1>2, <1>3, <1>5

LEMMA PushIs ==
    ASSUME frames \in Seq(Frames), frames # <<>>, NEW f \in Frames, NEW g \in Frames,
           frames' = <<f, g>> \o Tail(frames)
    PROVE  /\ frames' \in Seq(Frames) /\ frames' # <<>> /\ Len(frames') = Len(frames) + 1
           /\ frames'[1] = f /\ frames'[2] = g
           /\ \A i \in 1 .. Len(frames) : i # 1 => frames'[i + 1] = frames[i]
  OBVIOUS

LEMMA HeadIs ==
    ASSUME frames \in Seq(Frames), frames # <<>>
    PROVE  /\ top = frames[1] /\ top \in Frames /\ Len(frames) \in Nat
           /\ 1 \in 1 .. Len(frames)
  BY DEF top

\* What a read leaves: what it stops at, and what is behind that.
LEMMA ReadIs ==
    ASSUME NEW level, NEW first, NEW left \in Seq(Nodes), NEW i \in Reads(level, first, left, present)
    PROVE  LET cur == Entry(left, i)
               others == SubSeq(left, i + 1, Len(left))
           IN  /\ cur \in Nodes \cup {End} /\ others \in Seq(Nodes)
               /\ cur # End => cur \in ToSet(left) /\ ~PassedOver(level, first, cur)
               /\ cur = End => others = <<>>
               /\ ToSet(others) \subseteq ToSet(left)
               /\ \A e \in ToSet(left) :
                      \/ e = cur \/ e \in ToSet(others)
                      \/ PassedOver(level, first, e)
                      \/ level # "repository" /\ e \notin present
               /\ IsInjective(left) => IsInjective(others) /\ cur \notin ToSet(others)
  <1> DEFINE cur == Entry(left, i)
             others == SubSeq(left, i + 1, Len(left))
  <1>1. PICK n \in Nat : n = Len(left)
    OBVIOUS
  <1>2. /\ i \in 1 .. n + 1 /\ DOMAIN left = 1 .. n
        /\ \A j \in 1 .. i - 1 : PassedOver(level, first, left[j])
                                \/ (level # "repository" /\ left[j] \notin present)
        /\ i <= n => ~PassedOver(level, first, left[i])
    BY <1>1 DEF Reads
  <1>3. /\ others \in Seq(Nodes) /\ DOMAIN others = 1 .. n - i
        /\ Len(others) = IF i <= n THEN n - i ELSE 0
        /\ \A j \in 1 .. n - i : i + j \in 1 .. n /\ others[j] = left[i + j]
    <2>1. others \in Seq(Nodes) /\ Len(others) = IF i <= n THEN n - i ELSE 0
      BY <1>1, <1>2
    <2>3. DOMAIN others = 1 .. n - i
      BY <1>2, <2>1
    <2>2. \A j \in 1 .. n - i : i + j \in 1 .. n /\ others[j] = left[i + j]
      BY <1>1, <1>2
    <2> QED BY <2>1, <2>2, <2>3
  <1>4. End \notin Nodes
    BY TreeAssumption
  <1>5. cur = IF i <= n THEN left[i] ELSE End
    BY <1>1 DEF Entry
  <1> HIDE DEF cur, others
  <1>6. /\ cur \in Nodes \cup {End} /\ (cur # End <=> i <= n)
        /\ cur # End => cur = left[i] /\ i \in 1 .. n
    BY <1>1, <1>2, <1>4, <1>5
  <1>7. cur # End => cur \in ToSet(left) /\ ~PassedOver(level, first, cur)
    BY <1>2, <1>6 DEF ToSet
  <1>8. cur = End => others = <<>>
    BY <1>2, <1>3, <1>6
  <1>9. ToSet(others) \subseteq ToSet(left)
    BY <1>2, <1>3 DEF ToSet
  <1>10. ASSUME NEW e \in ToSet(left)
         PROVE  \/ e = cur \/ e \in ToSet(others)
                \/ PassedOver(level, first, e)
                \/ level # "repository" /\ e \notin present
    <2>1. PICK j \in 1 .. n : e = left[j]
      BY <1>2 DEF ToSet
    <2>2. CASE j < i
      BY <1>2, <2>1, <2>2
    <2>3. CASE j = i
      BY <1>6, <2>1, <2>3
    <2>4. CASE j > i
      <3>1. j - i \in 1 .. n - i /\ i + (j - i) = j
        BY <1>2, <2>4
      <3> QED BY <1>3, <2>1, <3>1 DEF ToSet
    <2> QED BY <1>2, <2>2, <2>3, <2>4
  <1>11. IsInjective(left) => IsInjective(others) /\ cur \notin ToSet(others)
    <2> SUFFICES ASSUME IsInjective(left) PROVE IsInjective(others) /\ cur \notin ToSet(others)
      OBVIOUS
    <2>1. \A j, k \in 1 .. n : left[j] = left[k] => j = k
      BY <1>2 DEF IsInjective
    <2>2. IsInjective(others)
      <3> SUFFICES ASSUME NEW j \in 1 .. n - i, NEW k \in 1 .. n - i, others[j] = others[k]
                   PROVE  j = k
        BY <1>3 DEF IsInjective
      <3>1. i + j = i + k
        BY <1>3, <2>1
      <3> QED BY <1>2, <3>1
    <2>3. ASSUME NEW j \in 1 .. n - i, cur = others[j] PROVE FALSE
      <3>1. left[i + j] \in Nodes
        BY <1>3, <1>2
      <3>2. i \in 1 .. n /\ left[i] = left[i + j]
        BY <1>3, <1>4, <1>6, <2>3, <3>1
      <3>3. i = i + j
        BY <1>3, <2>1, <3>2
      <3> QED BY <1>2, <3>3
    <2> QED BY <1>3, <2>2, <2>3 DEF ToSet
  <1> QED BY <1>3, <1>6, <1>7, <1>8, <1>9, <1>10, <1>11 DEF cur, others

LEMMA ContentIs ==
    ASSUME NEW d \in Dirs
    PROVE  Content[d] \subseteq Nodes /\ IsFiniteSet(Content[d])
  <1>1. Content[d] \subseteq Nodes
    BY TreeAssumption DEF Dirs, Nodes
  <1>2. IsFiniteSet(Content[d])
    BY <1>1, TreeAssumption, FS_Subset
  <1> QED BY <1>1, <1>2

\* A listing has everything once, whatever its order.
LEMMA ListingIs ==
    ASSUME NEW level, NEW dir \in Dirs, level = "repository" => dir \in Roots,
           NEW listing \in Listings(level, dir, present)
    PROVE  /\ listing \in Seq(Nodes)
           /\ level = "repository" => listing = Listed[dir] /\ ToSet(listing) \subseteq Content[dir]
           /\ level # "repository" => ToSet(listing) = Content[dir] \cap present /\ IsInjective(listing)
  <1>1. CASE level = "repository"
    <2>1. listing = Listed[dir] /\ listing \in Seq(Content[dir] \cap CategoryDirs)
      BY <1>1, TreeAssumption DEF Listings
    <2>2. Content[dir] \cap CategoryDirs \subseteq Nodes
      BY DEF Nodes
    <2>3. \A j \in DOMAIN listing : listing[j] \in Content[dir] \cap CategoryDirs
      BY <2>1
    <2> QED BY <1>1, <2>1, <2>2, <2>3 DEF ToSet
  <1>2. CASE level # "repository"
    <2> DEFINE S == Content[dir] \cap present
    <2>1. S \subseteq Nodes /\ IsFiniteSet(S)
      BY ContentIs, FS_Subset
    <2>2. listing \in [1 .. Cardinality(S) -> S] /\ \A i, j \in 1 .. Cardinality(S) : i # j => listing[i] # listing[j]
      BY <1>2 DEF Listings, SetToSeqs
    <2> HIDE DEF S
    <2>3. PICK n \in Nat : n = Cardinality(S)
      BY <2>1, FS_CardinalityType
    <2>4. listing \in Seq(Nodes) /\ DOMAIN listing = 1 .. n
      BY <2>1, <2>2, <2>3
    <2>5. IsInjective(listing)
      BY <2>2, <2>3, <2>4 DEF IsInjective
    <2>6. IsFiniteSet(1 .. n) /\ Cardinality(1 .. n) = n
      BY FS_Interval, <2>3
    <2>7. listing \in Injection(1 .. n, S)
      BY <2>2, <2>3, <2>5 DEF Injection
    <2>8. listing \in Surjection(1 .. n, S)
      BY <2>1, <2>3, <2>6, <2>7, FS_Injection
    <2>9. ToSet(listing) = S
      BY <2>2, <2>3, <2>4, <2>8 DEF Surjection, ToSet
    <2> QED BY <1>2, <2>4, <2>5, <2>9 DEF S
  <1> QED BY <1>1, <1>2

-----------------------------------------------------------------------------
(* What the atom is about does not change.                                 *)

LEMMA Rigid ==
    ASSUME UNCHANGED <<initial, atom>>
    PROVE  /\ Searched' = Searched /\ Wanted' = Wanted
           /\ \A level : /\ Exact(level)' <=> Exact(level)
                         /\ Matched(level)' = Matched(level) /\ Started(level)' = Started(level)
           /\ \A level, d : /\ Offered(level, d)' = Offered(level, d)
                            /\ Items(level, d)' = Items(level, d)
                            /\ Wants(level, d)' = Wants(level, d)
           /\ \A r : WantedOf(r)' = WantedOf(r)
  <1>1. Searched' = Searched /\ \A level : (Exact(level)' <=> Exact(level)) /\ Matched(level)' = Matched(level)
    BY DEF Searched, Exact, Matched
  <1>2. SearchedCategories' = SearchedCategories
    BY <1>1 DEF SearchedCategories
  <1>3. SearchedPackages' = SearchedPackages
    BY <1>2 DEF SearchedPackages
  <1>4. Wanted' = Wanted
    BY <1>3 DEF Wanted
  <1>5. \A level : Started(level)' = Started(level)
    BY <1>1, <1>2, <1>3 DEF Started
  <1>6. \A level, d : Offered(level, d)' = Offered(level, d)
    BY DEF Offered
  <1>7. \A level, d : Items(level, d)' = Items(level, d) /\ Wants(level, d)' = Wants(level, d)
    BY <1>6 DEF Items, Wants
  <1>8. \A r : WantedOf(r)' = WantedOf(r)
    BY <1>7 DEF WantedOf
  <1> QED BY <1>1, <1>4, <1>5, <1>6, <1>7, <1>8

LEMMA SitedKept ==
    ASSUME UNCHANGED <<initial, atom>>, present' \subseteq present, NEW f, Sited(f)
    PROVE  Sited(f)'
  <1>1. Started(f.level)' = Started(f.level) /\ (Exact(f.level)' <=> Exact(f.level))
        /\ Offered(f.level, f.dir)' = Offered(f.level, f.dir)
    BY Rigid
  <1> QED BY <1>1 DEF Sited

LEMMA ListedIs ==
    ASSUME NEW r \in Roots
    PROVE  Listed[r] \in Seq(Nodes) /\ ToSet(Listed[r]) \subseteq Content[r] \cap CategoryDirs
  <1>1. PICK s \in Seq(Content[r] \cap CategoryDirs) : s = Listed[r]
    BY TreeAssumption
  <1>2. \A i \in DOMAIN s : s[i] \in Content[r] \cap CategoryDirs
    OBVIOUS
  <1>3. Content[r] \cap CategoryDirs \subseteq Nodes
    BY DEF Nodes
  <1>4. s \in Seq(Nodes)
    BY <1>3
  <1> QED BY <1>1, <1>2, <1>4 DEF ToSet

LEMMA RepositoriesTyped == Len(Repositories) \in Nat /\ DOMAIN Repositories = 1 .. Len(Repositories)
  BY TreeAssumption

LEMMA StartedIs ==
    /\ Started("repository") \subseteq Roots /\ Started("category") \subseteq CategoryDirs
    /\ Started("package") \subseteq PackageDirs
    /\ \A level \in Levels : Started(level) \subseteq Dirs
  <1>1. SearchedCategories \subseteq CategoryDirs
    BY ListedIs DEF SearchedCategories, Searched
  <1> QED BY <1>1 DEF Started, Levels, Dirs, Searched

LEMMA OfferedIs ==
    ASSUME NEW level \in Levels, NEW d \in Started(level)
    PROVE  /\ Offered(level, d) \subseteq Content[d] \cap Kind(level)
           /\ Items(level, d) \subseteq Offered(level, d) \cap Matched(level)
           /\ Content[d] \subseteq Nodes /\ End \notin Content[d]
  <1>1. d \in Dirs /\ (level = "repository" => d \in Roots)
    BY StartedIs
  <1>2. level = "repository" => ToSet(Listed[d]) \subseteq Content[d]
    BY <1>1, ListedIs
  <1>3. Offered(level, d) \subseteq Content[d] \cap Kind(level)
    BY <1>2 DEF Offered
  <1>4. Items(level, d) \subseteq Offered(level, d) \cap Matched(level)
    BY TreeAssumption DEF Levels, Items, Offered, Kind, Matched
  <1>5. Content[d] \subseteq Nodes
    BY <1>1, ContentIs
  <1> QED BY <1>3, <1>4, <1>5, TreeAssumption

\* What a loop goes on to is wanted, or a loop below is started for it.
LEMMA Deepens ==
    ASSUME NEW f, Sited(f), f.elem # End, f.elem \in Matched(f.level)
    PROVE  /\ f.level # "package" => /\ Deeper(f.level) \in Levels \ {"repository"}
                                     /\ f.elem \in Started(Deeper(f.level))
           /\ f.level = "package" => f.elem \in Wanted
  <1>1. f.level \in Levels /\ f.dir \in Started(f.level) /\ f.elem \in Offered(f.level, f.dir)
    BY DEF Sited, Frames
  <1>2. CASE f.level = "repository"
    <2>1. Deeper(f.level) = "category" /\ Started("category") = SearchedCategories
      BY <1>2 DEF Deeper, Started
    <2>2. f.dir \in Searched /\ f.elem \in atom.categories
      BY <1>1, <1>2 DEF Started, Matched
    <2>3. f.elem \in CategoryDirs
          /\ f.elem \in IF ~atom.exact_category THEN ToSet(Listed[f.dir]) ELSE Content[f.dir]
      BY <1>1, <1>2 DEF Offered, Kind
    <2>4. f.elem \in SearchedCategories
      BY <2>2, <2>3 DEF SearchedCategories
    <2> QED BY <1>2, <2>1, <2>4 DEF Levels
  <1>3. CASE f.level = "category"
    <2>1. Deeper(f.level) = "package" /\ Started("package") = SearchedPackages \cap PackageDirs
      BY <1>3 DEF Deeper, Started
    <2>2. f.dir \in SearchedCategories /\ f.elem \in atom.packages
      BY <1>1, <1>3 DEF Started, Matched
    <2>3. f.elem \in PackageDirs \cap Content[f.dir]
      BY <1>1, <1>3 DEF Offered, Kind
    <2> QED BY <1>3, <2>1, <2>2, <2>3 DEF SearchedPackages, Levels
  <1>4. CASE f.level = "package"
    <2>1. f.elem \in GoodEbuilds /\ f.dir \in SearchedPackages \cap PackageDirs
          /\ f.elem \in Content[f.dir] \cap atom.ebuilds
      <3>1. f.dir \in SearchedPackages \cap PackageDirs /\ f.elem \in atom.ebuilds
        BY <1>1, <1>4 DEF Started, Matched
      <3>2. f.elem \in Content[f.dir]
        BY <1>1, <1>4 DEF Offered
      <3> QED BY <1>4, <3>1, <3>2 DEF Sited
    <2>2. f.dir \in WellNamed
      BY <2>1, TreeAssumption
    <2> QED BY <1>4, <2>1, <2>2 DEF Wanted
  <1> QED BY <1>1, <1>2, <1>3, <1>4 DEF Levels

\* What is wanted below an entry is what is wanted below the entries of it.
LEMMA WantsIs ==
    /\ \A e : Wants("repository", e) = UNION {Wants("category", p) : p \in Items("category", e)}
    /\ \A e : Wants("category", e) = UNION {Wants("package", x) : x \in Items("package", e)}
  <1>1. \A e : Wants("package", e) = {e}
            /\ Wants("category", e) = Content[e] \cap atom.ebuilds \cap GoodEbuilds
            /\ Items("package", e) = Content[e] \cap atom.ebuilds \cap GoodEbuilds
            /\ Items("category", e) = Content[e] \cap atom.packages \cap WellNamed
            /\ Wants("repository", e) =
                   atom.ebuilds \cap GoodEbuilds
                       \cap UNION {Content[p] : p \in Content[e] \cap atom.packages \cap WellNamed}
    BY DEF Wants, Items
  <1> QED BY <1>1

\* What is removed had nothing in it.
LEMMA Gone ==
    ASSUME Typed, NEW level \in Levels, NEW e \in Kind(level), e \notin present
    PROVE  Has(Wants(level, e))
  <1>1. CASE level = "package"
    BY <1>1 DEF Has, Wants
  <1>2. ASSUME NEW p \in PackageDirs, p \notin present PROVE Content[p] \cap present = {}
    BY <1>2 DEF Typed, Dirs
  <1>3. CASE level = "category"
    <2>1. e \in PackageDirs
      BY <1>3 DEF Kind
    <2> QED BY <1>2, <1>3, <2>1 DEF Has, Wants
  <1>4. CASE level = "repository"
    <2>1. e \in CategoryDirs
      BY <1>4 DEF Kind
    <2>2. Content[e] \cap present = {}
      BY <2>1 DEF Typed, Dirs
    <2>3. \A p \in Content[e] \cap atom.packages \cap WellNamed : Content[p] \cap present = {}
      BY <1>2, <2>2, TreeAssumption
    <2> QED BY <1>4, <2>3 DEF Has, Wants
  <1> QED BY <1>1, <1>3, <1>4 DEF Levels

-----------------------------------------------------------------------------
(* Most steps only change the innermost loop, which comes to no entry that *)
(* it would not have come to before, and leaves out none that matters.     *)

Follows(f) ==
    /\ f \in Frames /\ f.level = top.level /\ f.dir = top.dir /\ Sited(f)
    /\ \A e \in Items(top.level, top.dir) :
           Coming(top, e) => Coming(f, e) \/ Has(Wants(top.level, e))
    /\ Orderly /\ Distinct(top) =>
           Distinct(f) /\ \A e \in Content[top.dir] : Coming(f, e) => Coming(top, e)

Progresses ==
    /\ outcome = "running" /\ frames # <<>>
    /\ UNCHANGED <<initial, present, atom, at, atoms, outcome>>
    /\ \E f \in Frames : Top(f) /\ Follows(f)

LEMMA TopFacts ==
    ASSUME IInv, frames # <<>>
    PROVE  /\ frames \in Seq(Frames) /\ Len(frames) \in Nat /\ 1 \in 1 .. Len(frames)
           /\ top = frames[1] /\ top \in Frames /\ Sited(top)
           /\ top.level \in Levels /\ top.dir \in Started(top.level)
           /\ top.left \in Seq(Nodes) /\ top.phase \in Phases
           /\ {top.cur, top.peek, top.elem} \subseteq Nodes \cup {End}
  <1>1. frames \in Seq(Frames) /\ top = frames[1] /\ top \in Frames /\ Len(frames) \in Nat
        /\ 1 \in 1 .. Len(frames)
    BY HeadIs DEF IInv, Nested
  <1>2. Sited(top)
    BY <1>1 DEF IInv, Typed
  <1> QED BY <1>1, <1>2 DEF Sited, Frames

LEMMA LookupFollows ==
    ASSUME IInv, Lookup, NEW e \in Content[top.dir] \cap Matched(top.level) \cap Kind(top.level) \cap present,
           Top([top EXCEPT !.phase = "advanced", !.cur = e])
    PROVE  Progresses
  <1>1. PICK f : f = [top EXCEPT !.phase = "advanced", !.cur = e]
    OBVIOUS
  <1>2. frames # <<>> /\ top.phase = "lookup" /\ outcome = "running"
    BY DEF Lookup, Running
  <1>3. /\ top \in Frames /\ Sited(top) /\ top.level \in Levels /\ top.dir \in Started(top.level)
        /\ e \in Nodes /\ e # End
    BY <1>2, TopFacts, OfferedIs
  <1>4. /\ f \in Frames /\ f.level = top.level /\ f.dir = top.dir /\ f.phase = "advanced"
        /\ f.cur = e /\ f.left = top.left /\ f.peek = top.peek /\ f.elem = top.elem
    BY <1>1, <1>3 DEF Frames, Phases
  <1>5. Exact(top.level) /\ f.left = <<>>
    BY <1>2, <1>3, <1>4 DEF Sited
  <1>6. e \in Offered(top.level, top.dir) \cap initial
    BY <1>5 DEF Offered, Exact, IInv, Typed
  <1>7. Sited(f)
    BY <1>3, <1>4, <1>5, <1>6 DEF Sited
  <1>8. ASSUME NEW x \in Items(top.level, top.dir)
        PROVE  Coming(f, x) \/ Has(Wants(top.level, x))
    <2>1. x \in Content[top.dir] \cap Kind(top.level) \cap Matched(top.level)
      BY <1>3, OfferedIs
    <2>2. top.dir \in Dirs /\ atom \in Atoms
      BY <1>3, StartedIs DEF IInv, Typed
    <2>3. x = e
      BY <1>5, <2>1, <2>2, ExpanderAssumption DEF Exact, Matched
    <2> QED BY <1>4, <2>3 DEF Coming
  <1>9. Distinct(f) /\ \A x : Coming(top, x)
    BY <1>2, <1>4, <1>5 DEF Distinct, IsInjective, ToSet, Coming
  <1>10. Follows(f)
    BY <1>4, <1>7, <1>8, <1>9 DEF Follows
  <1> QED BY <1>1, <1>2, <1>4, <1>10 DEF Progresses, Lookup

LEMMA BeginFollows ==
    ASSUME IInv, Open, outcome' # "terminated", top.phase = "begin" PROVE Progresses
  <1>1. frames # <<>> /\ outcome = "running" /\ Readable(top.level, top.dir, present)
        /\ UNCHANGED <<initial, present, atom, at, atoms, outcome>>
    BY DEF Open, Running, Fail
  <1>2. PICK listing \in Listings(top.level, top.dir, present) :
             \E i \in Reads(top.level, TRUE, listing, present) : 
                 Top([top EXCEPT !.phase = "begun", !.cur = Entry(listing, i),
                                 !.left = SubSeq(listing, i + 1, Len(listing))])
    BY <1>1 DEF Open
  <1>3. PICK i, cur, left :
            /\ i \in Reads(top.level, TRUE, listing, present)
            /\ cur = Entry(listing, i) /\ left = SubSeq(listing, i + 1, Len(listing))
            /\ Top([top EXCEPT !.phase = "begun", !.cur = cur, !.left = left])
    BY <1>2
  <1>4. PICK f : f = [top EXCEPT !.phase = "begun", !.cur = cur, !.left = left]
    OBVIOUS
  <1>5. /\ top \in Frames /\ Sited(top) /\ top.level \in Levels /\ top.dir \in Started(top.level)
        /\ top.dir \in Dirs /\ (top.level = "repository" => top.dir \in Roots)
    BY <1>1, TopFacts, StartedIs
  <1>6. /\ listing \in Seq(Nodes)
        /\ top.level = "repository" => listing = Listed[top.dir] /\ ToSet(listing) \subseteq Content[top.dir]
        /\ top.level # "repository" =>
               ToSet(listing) = Content[top.dir] \cap present /\ IsInjective(listing)
    BY <1>5, ListingIs
  <1>7. /\ cur \in Nodes \cup {End} /\ left \in Seq(Nodes)
        /\ cur # End => cur \in ToSet(listing) /\ ~PassedOver(top.level, TRUE, cur)
        /\ cur = End => left = <<>>
        /\ ToSet(left) \subseteq ToSet(listing)
        /\ \A e \in ToSet(listing) :
               \/ e = cur \/ e \in ToSet(left)
               \/ PassedOver(top.level, TRUE, e)
               \/ top.level # "repository" /\ e \notin present
        /\ IsInjective(listing) => IsInjective(left) /\ cur \notin ToSet(left)
    BY <1>3, <1>6, ReadIs
  <1>8. /\ f \in Frames /\ f.level = top.level /\ f.dir = top.dir /\ f.phase = "begun"
        /\ f.cur = cur /\ f.left = left /\ f.peek = top.peek /\ f.elem = top.elem
    BY <1>4, <1>5, <1>7 DEF Frames, Phases
  <1>9. ToSet(listing) \subseteq Content[top.dir] \cap present /\ present \subseteq initial
    <2>1. top.level = "repository" => ToSet(Listed[top.dir]) \subseteq present
      BY <1>1 DEF Readable
    <2> QED BY <1>6, <2>1 DEF IInv, Typed
  <1>10. ~Exact(top.level)
    BY <1>5 DEF Sited
  <1>11. top.level = "repository" => ToSet(listing) = Offered(top.level, top.dir)
    <2>1. top.level = "repository" => ToSet(listing) = CategoryDirs \cap ToSet(Listed[top.dir])
      BY <1>5, <1>6, ListedIs
    <2> QED BY <1>10, <2>1 DEF Offered, Kind, Exact
  <1>12. cur # End => cur \in Offered(top.level, top.dir)
    <2>1. cur # End /\ top.level # "repository" => cur \in Kind(top.level)
      BY <1>5, <1>7 DEF Levels, PassedOver, Kind
    <2> QED BY <1>7, <1>9, <1>11, <2>1 DEF Offered
  <1>13. Sited(f)
    BY <1>5, <1>7, <1>8, <1>9, <1>10, <1>11, <1>12 DEF Sited
  <1>14. ASSUME NEW e \in Items(top.level, top.dir)
         PROVE  Coming(f, e) \/ Has(Wants(top.level, e))
    <2>1. e \in Offered(top.level, top.dir) /\ e \in Content[top.dir] \cap Kind(top.level)
      BY <1>5, OfferedIs
    <2>2. CASE e \notin present
      BY <1>5, <2>1, <2>2, Gone DEF IInv
    <2>3. CASE e \in present
      <3>1. e \in ToSet(listing)
        BY <1>6, <1>11, <2>1, <2>3
      <3>2. ~PassedOver(top.level, TRUE, e)
        BY <1>5, <2>1, TreeAssumption DEF Levels, PassedOver, Kind, Items
      <3> QED BY <1>7, <1>8, <2>3, <3>1, <3>2 DEF Coming
    <2> QED BY <2>2, <2>3
  <1>15. Orderly => Distinct(f)
    <2>1. Orderly => IsInjective(listing)
      BY <1>5, <1>6 DEF Orderly
    <2> QED BY <1>7, <1>8, <2>1 DEF Distinct
  <1>16. \A e : Coming(top, e)
    BY DEF Coming
  <1>17. Follows(f)
    BY <1>8, <1>13, <1>14, <1>15, <1>16 DEF Follows
  <1> QED BY <1>1, <1>2, <1>3, <1>4, <1>8, <1>17 DEF Progresses

LEMMA EndFollows ==
    ASSUME IInv, Open, outcome' # "terminated", top.phase = "end" PROVE Progresses
  <1>1. frames # <<>> /\ outcome = "running" /\ UNCHANGED <<initial, present, atom, at, atoms, outcome>>
        /\ Readable(top.level, top.dir, present)
    BY DEF Open, Running, Fail
  <1>2. PICK listing \in Listings(top.level, top.dir, present) :
             \E i \in Reads(top.level, TRUE, listing, present) : 
                 Top([top EXCEPT !.phase = "ended", !.peek = Entry(listing, i)])
    BY <1>1 DEF Open
  <1>3. PICK i, peek :
            /\ i \in Reads(top.level, TRUE, listing, present) /\ peek = Entry(listing, i)
            /\ Top([top EXCEPT !.phase = "ended", !.peek = peek])
    BY <1>2
  <1>4. PICK f : f = [top EXCEPT !.phase = "ended", !.peek = peek]
    OBVIOUS
  <1>5. /\ top \in Frames /\ Sited(top) /\ top.level \in Levels /\ top.dir \in Started(top.level)
        /\ top.dir \in Dirs /\ (top.level = "repository" => top.dir \in Roots)
    BY <1>1, TopFacts, StartedIs
  <1>6. /\ listing \in Seq(Nodes)
        /\ top.level = "repository" => listing = Listed[top.dir] /\ ToSet(listing) \subseteq Content[top.dir]
        /\ top.level # "repository" => ToSet(listing) = Content[top.dir] \cap present
    BY <1>5, ListingIs
  <1>7. peek \in Nodes \cup {End}
        /\ (peek # End => peek \in ToSet(listing) /\ ~PassedOver(top.level, TRUE, peek))
    BY <1>3, <1>6, ReadIs
  <1>8. /\ f \in Frames /\ f.level = top.level /\ f.dir = top.dir /\ f.phase = "ended"
        /\ f.cur = top.cur /\ f.left = top.left /\ f.peek = peek /\ f.elem = top.elem
    BY <1>4, <1>5, <1>7 DEF Frames, Phases
  <1>9. ToSet(listing) \subseteq Content[top.dir] \cap present /\ present \subseteq initial
    <2>1. top.level = "repository" => ToSet(Listed[top.dir]) \subseteq present
      BY <1>1 DEF Readable
    <2> QED BY <1>6, <2>1 DEF IInv, Typed
  <1>10. ~Exact(top.level)
    BY <1>5 DEF Sited
  <1>11. peek # End => peek \in Offered(top.level, top.dir)
    <2>1. peek # End /\ top.level # "repository" => peek \in Kind(top.level)
      BY <1>5, <1>7 DEF Levels, PassedOver, Kind
    <2>2. top.level = "repository" => ToSet(listing) \subseteq Offered(top.level, top.dir)
      <3>1. top.level = "repository" => ToSet(listing) = CategoryDirs \cap ToSet(Listed[top.dir])
        BY <1>5, <1>6, ListedIs
      <3> QED BY <1>10, <3>1 DEF Offered, Kind, Exact
    <2> QED BY <1>7, <1>9, <2>1, <2>2 DEF Offered
  <1>12. Sited(f)
    BY <1>5, <1>7, <1>8, <1>9, <1>10, <1>11 DEF Sited
  <1>13. /\ Distinct(top) => Distinct(f)
         /\ \A e : Coming(f, e) <=> Coming(top, e)
    BY <1>8 DEF Distinct, Coming
  <1>14. Follows(f)
    BY <1>8, <1>12, <1>13 DEF Follows
  <1> QED BY <1>1, <1>2, <1>3, <1>4, <1>8, <1>14 DEF Progresses

LEMMA ConstructFollows ==
    ASSUME IInv, Construct, outcome' # "terminated" PROVE Progresses
  <1> DEFINE e == IF top.phase = "begun" THEN top.cur ELSE top.peek
  <1>1. /\ frames # <<>> /\ outcome = "running" /\ top.phase \in {"begun", "ended"}
        /\ UNCHANGED <<initial, present, atom, at, atoms, outcome>>
        /\ e = End \/ Valid(top.level, e, present)
        /\ Top(IF top.phase = "begun" THEN [top EXCEPT !.phase = "end", !.elem = e]
                ELSE [top EXCEPT !.phase = "body", !.peek = End])
    BY DEF Construct, Running, Fail
  <1>2. PICK f : f = IF top.phase = "begun" THEN [top EXCEPT !.phase = "end", !.elem = e]
                     ELSE [top EXCEPT !.phase = "body", !.peek = End]
    OBVIOUS
  <1>3. top \in Frames /\ Sited(top) /\ {top.cur, top.peek, top.elem} \subseteq Nodes \cup {End}
    BY <1>1, TopFacts
  <1>4. /\ f \in Frames /\ f.level = top.level /\ f.dir = top.dir
        /\ f.cur = top.cur /\ f.left = top.left
    BY <1>2, <1>3 DEF Frames, Phases
  <1>5. CASE top.phase = "begun"
    <2>1. f.phase = "end" /\ f.elem = top.cur /\ f.peek = top.peek
      BY <1>2, <1>3, <1>5 DEF Frames
    <2>2. top.cur # End /\ top.level = "package" => top.cur \in GoodEbuilds
      BY <1>1, <1>5 DEF Valid
    <2>3. Sited(f)
      BY <1>3, <1>4, <1>5, <2>1, <2>2 DEF Sited
    <2>4. (Distinct(top) => Distinct(f)) /\ \A x : Coming(f, x) <=> Coming(top, x)
      BY <1>4, <1>5, <2>1 DEF Distinct, Coming
    <2>5. Follows(f)
      BY <1>4, <2>3, <2>4 DEF Follows
    <2> QED BY <1>1, <1>2, <1>4, <2>5 DEF Progresses
  <1>6. CASE top.phase = "ended"
    <2>1. f.phase = "body" /\ f.elem = top.elem /\ f.peek = End
      BY <1>2, <1>3, <1>6 DEF Frames
    <2>2. Sited(f)
      BY <1>3, <1>4, <1>6, <2>1 DEF Sited
    <2>3. top.elem = top.cur
      BY <1>3, <1>6 DEF Sited
    <2>4. (Distinct(top) => Distinct(f)) /\ \A x : Coming(f, x) <=> Coming(top, x)
      BY <1>4, <1>6, <2>1, <2>3 DEF Distinct, Coming
    <2>5. Follows(f)
      BY <1>4, <2>2, <2>4 DEF Follows
    <2> QED BY <1>1, <1>2, <1>4, <2>5 DEF Progresses
  <1> QED BY <1>1, <1>5, <1>6

LEMMA AdvanceFollows == ASSUME IInv, Advance PROVE Progresses
  <1>1. /\ frames # <<>> /\ outcome = "running" /\ top.phase = "advance"
        /\ UNCHANGED <<initial, present, atom, at, atoms, outcome>>
    BY DEF Advance, Running
  <1>2. PICK i \in Reads(top.level, FALSE, top.left, present) :
             Top([top EXCEPT !.phase = "advanced", !.cur = Entry(top.left, i),
                             !.left = SubSeq(top.left, i + 1, Len(top.left))])
    BY DEF Advance
  <1>3. PICK cur, left : cur = Entry(top.left, i) /\ left = SubSeq(top.left, i + 1, Len(top.left))
    OBVIOUS
  <1>4. PICK f : f = [top EXCEPT !.phase = "advanced", !.cur = cur, !.left = left]
    OBVIOUS
  <1>5. /\ top \in Frames /\ Sited(top) /\ top.level \in Levels /\ top.dir \in Started(top.level)
        /\ top.left \in Seq(Nodes) /\ top.elem # End
    BY <1>1, TopFacts DEF Sited
  <1>6. /\ cur \in Nodes \cup {End} /\ left \in Seq(Nodes)
        /\ cur # End => cur \in ToSet(top.left) /\ ~PassedOver(top.level, FALSE, cur)
        /\ cur = End => left = <<>>
        /\ ToSet(left) \subseteq ToSet(top.left)
        /\ \A e \in ToSet(top.left) :
               \/ e = cur \/ e \in ToSet(left)
               \/ PassedOver(top.level, FALSE, e)
               \/ top.level # "repository" /\ e \notin present
        /\ IsInjective(top.left) => IsInjective(left) /\ cur \notin ToSet(left)
    BY <1>3, <1>5, ReadIs
  <1>7. /\ f \in Frames /\ f.level = top.level /\ f.dir = top.dir /\ f.phase = "advanced"
        /\ f.cur = cur /\ f.left = left /\ f.peek = top.peek /\ f.elem = top.elem
    BY <1>4, <1>5, <1>6 DEF Frames, Phases
  <1>8. Exact(top.level) => left = <<>>
    <2>1. top.left = <<>> => ToSet(top.left) = {}
      BY DEF ToSet
    <2> QED BY <1>5, <1>6, <2>1 DEF Sited
  <1>9. cur # End => cur \in Offered(top.level, top.dir)
    <2>1. cur # End /\ top.level # "repository" => cur \in Kind(top.level)
      BY <1>5, <1>6 DEF Levels, PassedOver, Kind
    <2> QED BY <1>5, <1>6, <2>1 DEF Offered, Sited
  <1>10. Sited(f)
    BY <1>1, <1>5, <1>6, <1>7, <1>8, <1>9 DEF Sited
  <1>11. ASSUME NEW e \in Items(top.level, top.dir), Coming(top, e)
         PROVE  Coming(f, e) \/ Has(Wants(top.level, e))
    <2>1. e \in Content[top.dir] \cap Kind(top.level) /\ e \in ToSet(top.left)
      BY <1>1, <1>5, <1>11, OfferedIs DEF Coming
    <2>2. CASE e \notin present
      BY <1>5, <2>1, <2>2, Gone DEF IInv
    <2>3. CASE e \in present
      <3>1. ~PassedOver(top.level, FALSE, e)
        BY <1>5, <2>1 DEF Levels, PassedOver, Kind
      <3> QED BY <1>6, <1>7, <2>1, <2>3, <3>1 DEF Coming
    <2> QED BY <2>2, <2>3
  <1>12. Distinct(top) => Distinct(f)
    BY <1>6, <1>7 DEF Distinct
  <1>13. ASSUME NEW e \in Content[top.dir], Coming(f, e) PROVE Coming(top, e)
    <2>1. e # End
      BY <1>5, OfferedIs
    <2> QED BY <1>6, <1>7, <1>13, <2>1 DEF Coming
  <1>14. Follows(f)
    BY <1>7, <1>10, <1>11, <1>12, <1>13 DEF Follows
  <1> QED BY <1>1, <1>2, <1>3, <1>4, <1>7, <1>14 DEF Progresses

LEMMA RenewFollows == ASSUME IInv, Renew, outcome' # "thrown" PROVE Progresses
  <1>1. /\ frames # <<>> /\ outcome = "running" /\ top.phase = "advanced"
        /\ UNCHANGED <<initial, present, atom, at, atoms, outcome>>
    BY DEF Renew, Running, Fail
  <1>2. /\ top \in Frames /\ Sited(top) /\ {top.cur, top.peek, top.elem} \subseteq Nodes \cup {End}
    BY <1>1, TopFacts
  <1>3. CASE /\ top.cur # End /\ ~Valid(top.level, top.cur, present)
             /\ top.level = "category" /\ ~Exact("category")
             /\ Top([top EXCEPT !.phase = "body"])
    <2>1. PICK f : f = [top EXCEPT !.phase = "body"]
      OBVIOUS
    <2>2. /\ f \in Frames /\ f.level = top.level /\ f.dir = top.dir /\ f.phase = "body"
          /\ f.cur = top.cur /\ f.left = top.left /\ f.peek = top.peek /\ f.elem = top.elem
      BY <1>2, <2>1 DEF Frames, Phases
    <2>3. top.cur \notin present /\ top.elem # End
      BY <1>1, <1>2, <1>3 DEF Valid, Sited
    <2>4. Sited(f)
      BY <1>1, <1>2, <2>2, <2>3 DEF Sited
    <2>5. ~Orderly
      BY <1>2, <1>3, <2>3 DEF Sited, Orderly, Untouched
    <2>6. \A e : Coming(top, e) => Coming(f, e)
      BY <1>1, <2>2 DEF Coming
    <2>7. Follows(f)
      BY <2>2, <2>4, <2>5, <2>6 DEF Follows
    <2> QED BY <1>1, <1>3, <2>1, <2>2, <2>7 DEF Progresses
  <1>4. CASE /\ top.cur = End \/ Valid(top.level, top.cur, present)
             /\ Top([top EXCEPT !.phase = "body", !.elem = IF top.cur = End THEN @ ELSE top.cur])
    <2>1. PICK elem : elem = IF top.cur = End THEN top.elem ELSE top.cur
      OBVIOUS
    <2>2. PICK f : f = [top EXCEPT !.phase = "body", !.elem = elem]
      OBVIOUS
    <2>3. /\ f \in Frames /\ f.level = top.level /\ f.dir = top.dir /\ f.phase = "body"
          /\ f.cur = top.cur /\ f.left = top.left /\ f.peek = top.peek /\ f.elem = elem
      BY <1>2, <2>1, <2>2 DEF Frames, Phases
    <2>4. Top(f)
      BY <1>2, <1>4, <2>1, <2>2
    <2>5. top.cur # End /\ top.level = "package" => top.cur \in GoodEbuilds
      BY <1>4 DEF Valid
    <2>6. Sited(f)
      BY <1>1, <1>2, <2>1, <2>3, <2>5 DEF Sited
    <2>7. Distinct(top) => Distinct(f)
      <3>1. top.cur = End => ToSet(top.left) = {}
        BY <1>2 DEF Sited, ToSet
      <3> QED BY <2>1, <2>3, <3>1 DEF Distinct
    <2>8. \A e : Coming(f, e) <=> Coming(top, e)
      BY <1>1, <2>3 DEF Coming
    <2>9. Follows(f)
      BY <2>3, <2>6, <2>7, <2>8 DEF Follows
    <2> QED BY <1>1, <2>3, <2>4, <2>9 DEF Progresses
  <1> QED BY <1>3, <1>4 DEF Renew, Fail

\* An element that the atom does not match.
LEMMA BodyFollows ==
    ASSUME IInv, Body, top.elem \notin Matched(top.level),
           ~(top.level = "package" /\ top.elem \in atom.incomparable)
    PROVE  Progresses
  <1>1. /\ frames # <<>> /\ outcome = "running" /\ top.phase = "body" /\ top.cur # End
        /\ UNCHANGED <<initial, present, atom, at, atoms, outcome>>
        /\ Top([top EXCEPT !.phase = "advance"])
    BY DEF Body, Running
  <1>2. PICK f : f = [top EXCEPT !.phase = "advance"]
    OBVIOUS
  <1>3. /\ top \in Frames /\ Sited(top) /\ top.level \in Levels /\ top.dir \in Started(top.level)
    BY <1>1, TopFacts
  <1>4. /\ f \in Frames /\ f.level = top.level /\ f.dir = top.dir /\ f.phase = "advance"
        /\ f.cur = top.cur /\ f.left = top.left /\ f.peek = top.peek /\ f.elem = top.elem
    BY <1>2, <1>3 DEF Frames, Phases
  <1>5. Sited(f)
    BY <1>1, <1>3, <1>4 DEF Sited
  <1>6. ASSUME NEW e \in Items(top.level, top.dir), Coming(top, e)
        PROVE  Coming(f, e) \/ Has(Wants(top.level, e))
    <2>1. e \in Content[top.dir] \cap Kind(top.level) /\ e \in Matched(top.level)
      BY <1>3, OfferedIs
    <2>2. CASE e \in ToSet(top.left)
      BY <1>4, <2>2 DEF Coming
    <2>3. CASE e = top.cur
      <3>1. e \notin present
        BY <1>1, <1>3, <2>1, <2>3 DEF Sited
      <3> QED BY <1>3, <2>1, <3>1, Gone DEF IInv
    <2> QED BY <1>1, <1>6, <2>2, <2>3 DEF Coming
  <1>7. (Distinct(top) => Distinct(f)) /\ \A e : Coming(f, e) => Coming(top, e)
    BY <1>1, <1>4 DEF Distinct, Coming
  <1>8. Follows(f)
    BY <1>4, <1>5, <1>6, <1>7 DEF Follows
  <1> QED BY <1>1, <1>2, <1>4, <1>8 DEF Progresses

-----------------------------------------------------------------------------
(* The other steps.                                                        *)

\* A loop is left.
Pops ==
    /\ outcome = "running" /\ frames # <<>>
    /\ \A e \in Items(top.level, top.dir) : ~Coming(top, e) \/ Has(Wants(top.level, e))
    /\ frames' = Tail(frames)
    /\ UNCHANGED <<initial, present, atom, at, atoms, outcome>>

Waiting == [top EXCEPT !.phase = "advance"]

\* The body of a loop starts another one, or finds an ebuild.
InBody ==
    /\ outcome = "running" /\ frames # <<>>
    /\ top.phase = "body" /\ top.cur # End /\ top.elem \in Matched(top.level)
    /\ UNCHANGED <<initial, present, atom, at, outcome>>

Enters ==
    /\ InBody /\ top.level # "package"
    /\ frames' = <<Loop(Deeper(top.level), top.elem), Waiting>> \o Tail(frames)
    /\ UNCHANGED atoms

Finds == InBody /\ top.level = "package" /\ Top(Waiting) /\ atoms' = Append(atoms, top.elem)

Searches ==
    /\ outcome = "running" /\ frames = <<>> /\ at' \in Nat /\ (atom.repo # AnyRepo => at' \in {0, 1})
    /\ \E r \in Searched :
          /\ SearchedLater(r) /\ frames' = <<Loop("repository", r)>>
          /\ \A q \in Searched : SearchedLater(q)' <=> SearchedLater(q) /\ q # r
    /\ UNCHANGED <<initial, present, atom, atoms, outcome>>

Returns ==
    /\ outcome = "running" /\ frames = <<>> /\ \A r \in Searched : ~SearchedLater(r)
    /\ outcome' = "returned"
    /\ UNCHANGED <<initial, present, atom, at, frames, atoms>>

Reason ==
    \/ atom.repo # AnyRepo /\ atom.repo \notin Roots
    \/ ~Untouched
    \/ ~atom.exact_category /\ \E r \in Searched : ~Readable("repository", r, initial)
    \/ \E p \in SearchedPackages :
           initial \cap Content[p] \cap EbuildFiles
               \cap (atom.incomparable \cup (EbuildFiles \ GoodEbuilds)) # {}

Fails ==
    /\ outcome = "running" /\ Reason /\ frames' = <<>>
    /\ outcome' \in {"thrown", "terminated"}
    /\ at' \in Nat /\ (atom.repo # AnyRepo => at' \in {0, 1})
    /\ UNCHANGED <<initial, present, atom, atoms>>

Vanishes ==
    /\ outcome = "running" /\ present' \subseteq present /\ present' # present
    /\ \A d \in Dirs : Content[d] \cap present' # {} => d \in present'
    /\ UNCHANGED <<initial, atom, at, frames, atoms, outcome>>

\* An entry that was refused, or a directory that cannot be read.
LEMMA RefusedReason ==
    ASSUME IInv, frames # <<>>, NEW e \in {top.cur, top.peek} \ {End}, ~Valid(top.level, e, present)
    PROVE  Reason
  <1>1. Sited(top) /\ top.level \in Levels /\ top.dir \in Started(top.level)
    BY TopFacts
  <1>2. e \in Offered(top.level, top.dir) \cap initial
    BY <1>1 DEF Sited
  <1>3. CASE e \notin present
    BY <1>2, <1>3 DEF Reason, Untouched
  <1>4. CASE top.level = "package" /\ e \notin GoodEbuilds
    <2>1. e \in EbuildFiles /\ e \in Content[top.dir] /\ top.dir \in SearchedPackages
      BY <1>1, <1>2, <1>4 DEF Offered, Kind, Started
    <2> QED BY <1>2, <1>4, <2>1 DEF Reason
  <1> QED BY <1>3, <1>4 DEF Valid

\* An ebuild whose version cannot be compared.
LEMMA IncomparableReason ==
    ASSUME IInv, frames # <<>>, top.phase = "body", top.cur # End, top.level = "package",
           top.elem \in atom.incomparable
    PROVE  Reason
  <1>1. Sited(top) /\ top.dir \in Started("package")
    BY TopFacts
  <1>2. top.elem # End
    BY <1>1 DEF Sited
  <1>3. top.elem \in Offered("package", top.dir) \cap initial
    BY <1>1, <1>2 DEF Sited
  <1>4. top.elem \in EbuildFiles \cap Content[top.dir] /\ top.dir \in SearchedPackages
    BY <1>1, <1>3 DEF Offered, Kind, Started
  <1> QED BY <1>3, <1>4 DEF Reason

LEMMA UnreadableReason ==
    ASSUME IInv, frames # <<>>, top.phase \in {"begin", "end"},
           ~Readable(top.level, top.dir, present)
    PROVE  Reason
  <1>1. top = frames[1] /\ top.level \in Levels /\ top.dir \in Started(top.level)
        /\ frames \in Seq(Frames) /\ Len(frames) \in Nat /\ 1 \in 1 .. Len(frames)
    BY TopFacts
  <1>2. CASE top.level = "repository"
    <2>1. top.dir \in Searched
      BY <1>1, <1>2 DEF Started
    <2>2. ~atom.exact_category
      <3>1. Sited(top)
        BY TopFacts
      <3> QED BY <1>2, <3>1 DEF Sited, Exact
    <2> QED BY <1>2, <2>1, <2>2 DEF Reason, Untouched
  <1>3. CASE top.level # "repository"
    <2>1. 2 \in 1 .. Len(frames) /\ 1 + 1 = 2
      <3>1. PICK n \in Nat : n = Len(frames) /\ 1 \in 1 .. n
        BY <1>1
      <3>2. frames[n].level = "repository"
        BY <3>1 DEF IInv, Nested
      <3>3. n # 1
        BY <1>1, <1>3, <3>2
      <3> QED BY <3>1, <3>3
    <2>2. top.dir = frames[2].elem /\ frames[2].phase = "advance" /\ Sited(frames[2])
      BY <1>1, <2>1 DEF IInv, Nested, Typed
    <2>3. top.dir \in initial
      BY <2>2 DEF Sited
    <2>4. top.dir \notin present
      BY <1>3 DEF Readable
    <2> QED BY <2>3, <2>4 DEF Reason, Untouched
  <1> QED BY <1>2, <1>3

LEMMA SearchSteps ==
    ASSUME IInv, NextRepository \/ repo_matcher
    PROVE  Searches \/ Returns \/ Fails
  <1>1. /\ outcome = "running" /\ frames = <<>> /\ at \in Nat
        /\ UNCHANGED <<initial, present, atom, atoms>>
    BY DEF NextRepository, repo_matcher, Running, IInv, Typed
  <1>2. PICK n : n = Len(Repositories)
    OBVIOUS
  <1>3. CASE NextRepository
    <2>1. atom.repo = AnyRepo /\ Searched = Roots
      BY <1>3 DEF NextRepository, Searched
    <2>2. CASE at < n
      <3>1. /\ at' = at + 1 /\ frames' = <<Loop("repository", Repositories[at + 1])>>
            /\ UNCHANGED outcome
        BY <1>2, <1>3, <2>2 DEF NextRepository, Search
      <3>2. PICK r : r = Repositories[at + 1]
        OBVIOUS
      <3>3. at + 1 \in 1 .. n /\ DOMAIN Repositories = 1 .. n
        BY <1>1, <1>2, <2>2, RepositoriesTyped
      <3>4. r \in Searched /\ SearchedLater(r)
        BY <1>1, <1>2, <2>1, <3>2, <3>3 DEF Roots, ToSet, SearchedLater
      <3>5. ASSUME NEW q PROVE SearchedLater(q)' <=> SearchedLater(q) /\ q # r
        <4>1. SearchedLater(q)' <=> \E i \in 1 .. n : at + 1 < i /\ q = Repositories[i]
          BY <1>1, <1>2, <2>1, <3>1 DEF SearchedLater
        <4>2. SearchedLater(q) <=> \E i \in 1 .. n : at < i /\ q = Repositories[i]
          BY <1>2, <2>1 DEF SearchedLater
        <4>3. \A i \in 1 .. n : Repositories[i] = r => i = at + 1
          BY <3>2, <3>3, TreeAssumption DEF IsInjective
        <4>4. \A i \in 1 .. n : at + 1 < i <=> at < i /\ i # at + 1
          BY <1>1
        <4> QED BY <3>2, <4>1, <4>2, <4>3, <4>4
      <3>6. Searches
        <4>1. at' \in Nat
          BY <1>1, <3>1
        <4> QED BY <1>1, <2>1, <3>1, <3>2, <3>4, <3>5, <4>1 DEF Searches
      <3> QED BY <3>6
    <2>3. CASE ~(at < n)
      <3>1. outcome' = "returned" /\ UNCHANGED <<at, frames>>
        BY <1>2, <1>3, <2>3 DEF NextRepository
      <3>2. \A r : ~SearchedLater(r)
        <4>1. n \in Nat
          BY <1>2, RepositoriesTyped
        <4>2. \A i \in 1 .. n : ~(at < i)
          BY <1>1, <2>3, <4>1
        <4> QED BY <1>2, <2>1, <4>2 DEF SearchedLater
      <3> QED BY <1>1, <3>1, <3>2 DEF Returns
    <2> QED BY <2>2, <2>3
  <1>4. CASE repo_matcher
    <2>1. atom.repo # AnyRepo /\ Searched = {atom.repo} \cap Roots
      BY <1>4 DEF repo_matcher, Searched
    <2>2. CASE at = 1
      BY <1>1, <1>4, <2>1, <2>2 DEF repo_matcher, Returns, SearchedLater
    <2>3. CASE at # 1 /\ atom.repo \notin Roots
      BY <1>1, <1>4, <2>1, <2>3 DEF repo_matcher, Fail, Fails, Reason
    <2>4. CASE at # 1 /\ atom.repo \in Roots
      <3>1. at' = 1 /\ frames' = <<Loop("repository", atom.repo)>> /\ UNCHANGED outcome
        BY <1>4, <2>4 DEF repo_matcher, Search
      <3>2. at = 0
        BY <2>4, <1>1, <2>1 DEF IInv, Typed
      <3> QED BY <1>1, <2>1, <2>4, <3>1, <3>2 DEF Searches, SearchedLater
    <2> QED BY <2>2, <2>3, <2>4
  <1> QED BY <1>3, <1>4

\* Every step is one of these.
LEMMA Steps ==
    ASSUME IInv, Next
    PROVE  \/ Progresses \/ Pops \/ Enters \/ Finds
           \/ Searches \/ Returns \/ Fails \/ Vanishes
  <1>1. CASE NextRepository \/ repo_matcher
    BY <1>1, SearchSteps
  <1>2. CASE Lookup
    <2> DEFINE named == Content[top.dir] \cap Matched(top.level) \cap Kind(top.level) \cap present
    <2>1. /\ outcome = "running" /\ frames # <<>>
          /\ UNCHANGED <<initial, present, atom, at, atoms, outcome>>
      BY <1>2 DEF Lookup, Running
    <2>2. CASE named = {}
      <3>1. frames' = Tail(frames)
        BY <1>2, <2>2 DEF Lookup
      <3>2. ASSUME NEW e \in Items(top.level, top.dir) PROVE Has(Wants(top.level, e))
        <4>1. e \in Content[top.dir] \cap Matched(top.level) \cap Kind(top.level)
          BY <2>1, TopFacts, OfferedIs
        <4>2. e \notin present
          BY <2>2, <4>1
        <4> QED BY <2>1, <4>1, <4>2, TopFacts, Gone DEF IInv
      <3> QED BY <2>1, <3>1, <3>2 DEF Pops
    <2>3. CASE named # {}
      <3>1. \E e \in named : Top([top EXCEPT !.phase = "advanced", !.cur = e])
        BY <1>2, <2>3 DEF Lookup
      <3> QED BY <1>2, <3>1, LookupFollows
    <2> QED BY <2>2, <2>3
  <1>3. CASE Open
    <2>1. /\ outcome = "running" /\ frames # <<>> /\ top.phase \in {"begin", "end"}
          /\ UNCHANGED <<initial, present, atom, at, atoms>>
      BY <1>3 DEF Open, Running
    <2>2. CASE ~Readable(top.level, top.dir, present)
      <3>1. outcome' = "terminated" /\ frames' = <<>>
        BY <1>3, <2>2 DEF Open, Fail
      <3> QED BY <2>1, <2>2, <3>1, UnreadableReason DEF Fails, IInv, Typed
    <2>3. CASE Readable(top.level, top.dir, present)
      <3>1. outcome' # "terminated"
        BY <1>3, <2>1, <2>3 DEF Open
      <3> QED BY <1>3, <2>1, <3>1, BeginFollows, EndFollows
    <2> QED BY <2>2, <2>3
  <1>4. CASE Construct
    <2>1. /\ outcome = "running" /\ frames # <<>>
          /\ UNCHANGED <<initial, present, atom, at, atoms>>
      BY <1>4 DEF Construct, Running
    <2>2. PICK e : e = IF top.phase = "begun" THEN top.cur ELSE top.peek
      OBVIOUS
    <2>3. CASE e # End /\ ~Valid(top.level, e, present)
      <3>1. outcome' = "terminated" /\ frames' = <<>>
        BY <1>4, <2>2, <2>3 DEF Construct, Fail
      <3>2. e \in {top.cur, top.peek} \ {End}
        BY <2>2, <2>3
      <3> QED BY <2>1, <2>3, <3>1, <3>2, RefusedReason DEF Fails, IInv, Typed
    <2>4. CASE ~(e # End /\ ~Valid(top.level, e, present))
      <3>1. outcome' # "terminated"
        BY <1>4, <2>1, <2>2, <2>4 DEF Construct
      <3> QED BY <1>4, <3>1, ConstructFollows
    <2> QED BY <2>3, <2>4
  <1>5. CASE Advance
    BY <1>5, AdvanceFollows
  <1>6. CASE Renew
    <2>1. /\ outcome = "running" /\ frames # <<>>
          /\ UNCHANGED <<initial, present, atom, at, atoms>>
      BY <1>6 DEF Renew, Running
    <2>2. CASE outcome' = "thrown"
      <3>1. frames' = <<>> /\ top.cur # End /\ ~Valid(top.level, top.cur, present)
        BY <1>6, <2>1, <2>2 DEF Renew, Fail
      <3> QED BY <2>1, <2>2, <3>1, RefusedReason DEF Fails, IInv, Typed
    <2>3. CASE outcome' # "thrown"
      BY <1>6, <2>3, RenewFollows
    <2> QED BY <2>2, <2>3
  <1>7. CASE Body
    <2>1. /\ outcome = "running" /\ frames # <<>> /\ top.phase = "body" /\ top.cur # End
          /\ UNCHANGED <<initial, present, atom, at>>
      BY <1>7 DEF Body, Running
    <2>2. CASE top.level = "package" /\ top.elem \in atom.incomparable
      <3>1. outcome' = "terminated" /\ frames' = <<>> /\ UNCHANGED atoms
        BY <1>7, <2>2 DEF Body, Fail
      <3> QED BY <2>1, <2>2, <3>1, IncomparableReason DEF Fails, IInv, Typed
    <2>3. CASE ~(top.level = "package" /\ top.elem \in atom.incomparable)
      <3>1. CASE top.elem \notin Matched(top.level)
        BY <1>7, <2>3, <3>1, BodyFollows
      <3>2. CASE top.elem \in Matched(top.level)
        BY <1>7, <2>1, <2>3, <3>2 DEF Body, InBody, Enters, Finds, Waiting
      <3> QED BY <3>1, <3>2
    <2> QED BY <2>2, <2>3
  <1>8. CASE Leave
    <2>1. /\ outcome = "running" /\ frames # <<>> /\ top.phase = "body" /\ top.cur = End
          /\ frames' = Tail(frames)
          /\ UNCHANGED <<initial, present, atom, at, atoms, outcome>>
      BY <1>8 DEF Leave, Running
    <2>2. top.left = <<>>
      BY <2>1, TopFacts DEF Sited
    <2>3. \A e \in Items(top.level, top.dir) : e # End
      BY <2>1, TopFacts, OfferedIs
    <2>4. \A e \in Items(top.level, top.dir) : ~Coming(top, e)
      BY <2>1, <2>2, <2>3 DEF Coming, ToSet
    <2> QED BY <2>1, <2>4 DEF Pops
  <1>9. ASSUME NEW n \in Nodes, Vanish(n) PROVE Vanishes
    <2>1. /\ outcome = "running" /\ n \in present /\ n \notin Roots
          /\ n \in CategoryDirs \cup PackageDirs => Content[n] \cap present = {}
          /\ present' = present \ {n}
          /\ UNCHANGED <<initial, atom, at, frames, atoms, outcome>>
      BY <1>9 DEF Vanish, Running
    <2>2. \A d \in Dirs : Content[d] \cap present # {} => d \in present
      BY DEF IInv, Typed
    <2>3. ASSUME NEW d \in Dirs, Content[d] \cap present' # {} PROVE d \in present'
      <3>1. d \in present
        BY <2>1, <2>2, <2>3
      <3>2. d # n
        BY <2>1, <2>3 DEF Dirs
      <3> QED BY <2>1, <3>1, <3>2
    <2> QED BY <2>1, <2>3 DEF Vanishes
  <1> QED BY <1>1, <1>2, <1>3, <1>4, <1>5, <1>6, <1>7, <1>8, <1>9 DEF Next, Expand

-----------------------------------------------------------------------------
(* The loops are nested, and each is at an entry of its directory.         *)

LEMMA TypedKept ==
    ASSUME Typed, UNCHANGED <<initial, present, atom>>,
           at' \in Nat, atom.repo # AnyRepo => at' \in {0, 1},
           atoms' \in Seq(Nodes), ToSet(atoms') \subseteq Wanted \cap initial,
           \A i \in 1 .. Len(frames') : Sited(frames'[i]),
           outcome' # "running" => frames' = <<>>
    PROVE  Typed'
  <1>1. Wanted' = Wanted
    BY Rigid
  <1>2. PICK fs : fs = frames'
    OBVIOUS
  <1>3. ASSUME NEW i \in 1 .. Len(fs) PROVE Sited(fs[i])'
    <2>1. PICK f : f = fs[i]
      OBVIOUS
    <2>2. Sited(f)
      BY <1>2, <2>1
    <2>3. Sited(f)'
      BY <2>2, SitedKept
    <2> QED BY <2>1, <2>3
  <1> QED BY <1>1, <1>2, <1>3 DEF Typed

\* The loop that the body of another one starts, and the one that waits for it.
LEMMA LoopSited ==
    ASSUME NEW level \in Levels, NEW dir \in Started(level)
    PROVE  Loop(level, dir) \in Frames /\ Sited(Loop(level, dir))
  <1>1. PICK f : f = Loop(level, dir)
    OBVIOUS
  <1>2. dir \in Nodes
    BY StartedIs DEF Dirs, Nodes
  <1>3. /\ f.level = level /\ f.dir = dir /\ f.left = <<>>
        /\ f.cur = End /\ f.peek = End /\ f.elem = End
        /\ f.phase = IF Exact(level) THEN "lookup" ELSE "begin"
    BY <1>1 DEF Loop
  <1>4. f \in Frames
    BY <1>1, <1>2 DEF Loop, Frames, Phases
  <1>5. Sited(f)
    BY <1>3, <1>4 DEF Sited, ToSet
  <1> QED BY <1>1, <1>4, <1>5

LEMMA WaitingIs ==
    ASSUME IInv, frames # <<>>, top.phase = "body", top.cur # End
    PROVE  /\ Waiting \in Frames /\ Sited(Waiting)
           /\ Waiting.level = top.level /\ Waiting.dir = top.dir /\ Waiting.phase = "advance"
           /\ Waiting.cur = top.cur /\ Waiting.left = top.left /\ Waiting.elem = top.elem
  <1>1. PICK f : f = Waiting
    OBVIOUS
  <1>2. top \in Frames /\ Sited(top)
    BY TopFacts
  <1>3. /\ f \in Frames /\ f.level = top.level /\ f.dir = top.dir /\ f.phase = "advance"
        /\ f.cur = top.cur /\ f.left = top.left /\ f.peek = top.peek /\ f.elem = top.elem
    BY <1>1, <1>2 DEF Frames, Phases, Waiting
  <1>4. Sited(f)
    BY <1>2, <1>3 DEF Sited
  <1> QED BY <1>1, <1>3, <1>4

LEMMA ProgressesKeepsIInv == ASSUME IInv, Progresses PROVE IInv'
  <1>1. /\ frames # <<>> /\ frames \in Seq(Frames) /\ Len(frames) \in Nat /\ 1 \in 1 .. Len(frames)
        /\ top = frames[1]
        /\ UNCHANGED <<initial, present, atom, at, atoms, outcome>> /\ outcome = "running"
    BY TopFacts DEF Progresses
  <1>2. PICK f \in Frames : Top(f) /\ Follows(f)
    BY DEF Progresses
  <1>3. PICK fs, n : fs = frames' /\ n = Len(frames)
    OBVIOUS
  <1>4. /\ fs \in Seq(Frames) /\ fs # <<>> /\ Len(fs) = n /\ fs[1] = f
        /\ \A i \in 1 .. n : i # 1 => fs[i] = frames[i]
    BY <1>1, <1>2, <1>3, TopIs
  <1>5. f.level = top.level /\ f.dir = top.dir /\ Sited(f)
    BY <1>2 DEF Follows
  <1>6. \A i \in 1 .. n : Sited(fs[i])
    BY <1>3, <1>4, <1>5 DEF IInv, Typed
  <1>7. Typed'
    BY <1>1, <1>3, <1>4, <1>6, TypedKept DEF IInv, Typed
  <1>8. fs[n].level = "repository"
    BY <1>1, <1>3, <1>4, <1>5 DEF IInv, Nested
  <1>9. ASSUME NEW i \in 1 .. n, i + 1 \in 1 .. n
        PROVE  /\ fs[i].level = Deeper(fs[i + 1].level) /\ fs[i + 1].level # "package"
               /\ fs[i].dir = fs[i + 1].elem /\ fs[i + 1].phase = "advance"
    <2>1. fs[i + 1] = frames[i + 1]
      BY <1>4, <1>9
    <2>2. fs[i].level = frames[i].level /\ fs[i].dir = frames[i].dir
      BY <1>1, <1>4, <1>5
    <2> QED BY <1>3, <1>9, <2>1, <2>2 DEF IInv, Nested
  <1>10. Nested'
    BY <1>3, <1>4, <1>8, <1>9 DEF Nested
  <1> QED BY <1>7, <1>10 DEF IInv

LEMMA PopsKeepsIInv == ASSUME IInv, Pops PROVE IInv'
  <1>1. /\ frames # <<>> /\ frames \in Seq(Frames)
        /\ UNCHANGED <<initial, present, atom, at, atoms, outcome>> /\ outcome = "running"
        /\ frames' = Tail(frames)
    BY TopFacts DEF Pops
  <1>3. PICK fs, n : fs = frames' /\ n = Len(frames)
    OBVIOUS
  <1>4. /\ fs \in Seq(Frames) /\ Len(fs) = n - 1 /\ n \in Nat
        /\ \A i \in 1 .. n - 1 : i + 1 \in 1 .. n /\ fs[i] = frames[i + 1]
        /\ fs # <<>> <=> n # 1
    BY <1>1, <1>3, PopIs
  <1>6. \A i \in 1 .. n - 1 : Sited(fs[i])
    BY <1>3, <1>4 DEF IInv, Typed
  <1>7. Typed'
    BY <1>1, <1>3, <1>4, <1>6, TypedKept DEF IInv, Typed
  <1>8. ASSUME fs # <<>> PROVE fs[Len(fs)].level = "repository"
    <2>1. n - 1 \in 1 .. n - 1 /\ (n - 1) + 1 = n
      BY <1>1, <1>3, <1>4, <1>8
    <2> QED BY <1>1, <1>3, <1>4, <2>1 DEF IInv, Nested
  <1>9. ASSUME NEW i \in 1 .. n - 1, i + 1 \in 1 .. n - 1
        PROVE  /\ fs[i].level = Deeper(fs[i + 1].level) /\ fs[i + 1].level # "package"
               /\ fs[i].dir = fs[i + 1].elem /\ fs[i + 1].phase = "advance"
    <2>1. /\ i + 1 \in 1 .. n /\ (i + 1) + 1 \in 1 .. n
          /\ fs[i] = frames[i + 1] /\ fs[i + 1] = frames[(i + 1) + 1]
      BY <1>4, <1>9
    <2> QED BY <1>3, <2>1 DEF IInv, Nested
  <1>10. Nested'
    BY <1>3, <1>4, <1>8, <1>9 DEF Nested
  <1> QED BY <1>7, <1>10 DEF IInv

LEMMA EntersKeepsIInv == ASSUME IInv, Enters PROVE IInv'
  <1>1. /\ frames # <<>> /\ frames \in Seq(Frames) /\ Len(frames) \in Nat /\ 1 \in 1 .. Len(frames)
        /\ top = frames[1] /\ Sited(top) /\ top.phase = "body" /\ top.cur # End
        /\ top.elem \in Matched(top.level) /\ top.level # "package"
        /\ UNCHANGED <<initial, present, atom, at, atoms, outcome>> /\ outcome = "running"
    BY TopFacts DEF Enters, InBody
  <1>2. PICK f, g : f = Loop(Deeper(top.level), top.elem) /\ g = Waiting
    OBVIOUS
  <1>3. Deeper(top.level) \in Levels \ {"repository"} /\ top.elem \in Started(Deeper(top.level))
    BY <1>1, Deepens DEF Sited
  <1>4. /\ f \in Frames /\ Sited(f) /\ g \in Frames /\ Sited(g)
        /\ f.level = Deeper(top.level) /\ f.dir = top.elem
        /\ g.level = top.level /\ g.dir = top.dir /\ g.phase = "advance" /\ g.elem = top.elem
    <2>1. f \in Frames /\ Sited(f)
      BY <1>2, <1>3, LoopSited
    <2>2. f.level = Deeper(top.level) /\ f.dir = top.elem
      BY <1>2 DEF Loop
    <2> QED BY <1>1, <1>2, <2>1, <2>2, WaitingIs
  <1>5. PICK fs, n : fs = frames' /\ n = Len(frames)
    OBVIOUS
  <1>6. /\ fs \in Seq(Frames) /\ fs # <<>> /\ Len(fs) = n + 1 /\ fs[1] = f /\ fs[2] = g
        /\ \A i \in 1 .. n : i # 1 => fs[i + 1] = frames[i]
    BY <1>1, <1>2, <1>4, <1>5, PushIs DEF Enters
  <1>7. ASSUME NEW i \in 1 .. n + 1 PROVE i = 1 \/ i = 2 \/ (i - 1 \in 1 .. n /\ fs[i] = frames[i - 1])
    <2>1. i # 1 /\ i # 2 => i - 1 \in 1 .. n /\ i - 1 # 1 /\ (i - 1) + 1 = i
      BY <1>1, <1>5
    <2> QED BY <1>6, <2>1
  <1>8. \A i \in 1 .. n + 1 : Sited(fs[i])
    BY <1>4, <1>5, <1>6, <1>7 DEF IInv, Typed
  <1>9. Typed'
    BY <1>1, <1>5, <1>6, <1>8, TypedKept DEF IInv, Typed
  <1>10. fs[n + 1].level = "repository"
    <2>1. frames[n].level = "repository" /\ n \in 1 .. n
      BY <1>1, <1>5 DEF IInv, Nested
    <2>2. CASE n = 1
      <3>1. n + 1 = 2
        BY <2>2
      <3> QED BY <1>1, <1>4, <1>6, <2>1, <2>2, <3>1
    <2>3. CASE n # 1
      BY <1>6, <2>1, <2>3
    <2> QED BY <2>2, <2>3
  <1>11. ASSUME NEW i \in 1 .. n + 1, i + 1 \in 1 .. n + 1
         PROVE  /\ fs[i].level = Deeper(fs[i + 1].level) /\ fs[i + 1].level # "package"
                /\ fs[i].dir = fs[i + 1].elem /\ fs[i + 1].phase = "advance"
    <2>1. CASE i = 1
      BY <1>1, <1>4, <1>6, <2>1
    <2>2. CASE i # 1
      <3>1. i - 1 \in 1 .. n /\ i \in 1 .. n /\ (i - 1) + 1 = i
        BY <1>1, <1>5, <1>11, <2>2
      <3>2. fs[i + 1] = frames[i]
        BY <1>6, <2>2, <3>1
      <3>3. fs[i].level = frames[i - 1].level /\ fs[i].dir = frames[i - 1].dir
        <4>1. CASE i = 2
          <5>1. i - 1 = 1
            BY <4>1
          <5> QED BY <1>1, <1>4, <1>6, <4>1, <5>1
        <4>2. CASE i # 2
          BY <1>7, <2>2, <4>2
        <4> QED BY <4>1, <4>2
      <3> QED BY <1>5, <3>1, <3>2, <3>3 DEF IInv, Nested
    <2> QED BY <2>1, <2>2
  <1>12. Nested'
    BY <1>5, <1>6, <1>10, <1>11 DEF Nested
  <1> QED BY <1>9, <1>12 DEF IInv

LEMMA AppendIs ==
    ASSUME NEW s \in Seq(Nodes), NEW e \in Nodes
    PROVE  /\ Append(s, e) \in Seq(Nodes) /\ ToSet(Append(s, e)) = ToSet(s) \cup {e}
           /\ IsInjective(s) /\ e \notin ToSet(s) => IsInjective(Append(s, e))
  <1>1. PICK n \in Nat : n = Len(s)
    OBVIOUS
  <1>2. PICK t : t = Append(s, e)
    OBVIOUS
  <1>3. /\ t \in Seq(Nodes) /\ DOMAIN t = 1 .. n + 1 /\ DOMAIN s = 1 .. n
        /\ t[n + 1] = e /\ \A i \in 1 .. n : t[i] = s[i]
    BY <1>1, <1>2
  <1>4. \A i \in 1 .. n + 1 : i = n + 1 \/ i \in 1 .. n
    OBVIOUS
  <1>5. n + 1 \in 1 .. n + 1 /\ 1 .. n \subseteq 1 .. n + 1
    OBVIOUS
  <1>6. ToSet(t) = ToSet(s) \cup {e}
    BY <1>3, <1>4, <1>5 DEF ToSet
  <1>7. IsInjective(s) /\ e \notin ToSet(s) => IsInjective(t)
    BY <1>3, <1>4 DEF IsInjective, ToSet
  <1> QED BY <1>2, <1>3, <1>6, <1>7

LEMMA FindsKeepsIInv == ASSUME IInv, Finds PROVE IInv'
  <1>1. /\ frames # <<>> /\ frames \in Seq(Frames) /\ Len(frames) \in Nat /\ 1 \in 1 .. Len(frames)
        /\ top = frames[1] /\ Sited(top) /\ top.phase = "body" /\ top.cur # End
        /\ top.elem \in Matched(top.level) /\ top.level = "package" /\ top.elem # End
        /\ UNCHANGED <<initial, present, atom, at, outcome>> /\ outcome = "running"
        /\ atoms' = Append(atoms, top.elem) /\ atoms \in Seq(Nodes)
    BY TopFacts DEF Finds, InBody, Sited, IInv, Typed
  <1>2. PICK g : g = Waiting
    OBVIOUS
  <1>3. /\ g \in Frames /\ Sited(g) /\ Top(g)
        /\ g.level = top.level /\ g.dir = top.dir
    BY <1>1, <1>2, WaitingIs DEF Finds
  <1>4. PICK fs, n : fs = frames' /\ n = Len(frames)
    OBVIOUS
  <1>5. /\ fs \in Seq(Frames) /\ fs # <<>> /\ Len(fs) = n /\ fs[1] = g
        /\ \A i \in 1 .. n : i # 1 => fs[i] = frames[i]
    BY <1>1, <1>3, <1>4, TopIs
  <1>6. \A i \in 1 .. n : Sited(fs[i])
    BY <1>3, <1>4, <1>5 DEF IInv, Typed
  <1>7. atoms' \in Seq(Nodes) /\ ToSet(atoms') \subseteq Wanted \cap initial
    <2>1. top.elem \in Wanted
      BY <1>1, Deepens
    <2>2. top.elem \in initial /\ top.elem \in Nodes
      BY <1>1 DEF Sited, Frames
    <2> QED BY <1>1, <2>1, <2>2, AppendIs DEF IInv, Typed
  <1>8. Typed'
    BY <1>1, <1>4, <1>5, <1>6, <1>7, TypedKept DEF IInv, Typed
  <1>9. fs[n].level = "repository"
    BY <1>1, <1>3, <1>4, <1>5 DEF IInv, Nested
  <1>10. ASSUME NEW i \in 1 .. n, i + 1 \in 1 .. n
         PROVE  /\ fs[i].level = Deeper(fs[i + 1].level) /\ fs[i + 1].level # "package"
                /\ fs[i].dir = fs[i + 1].elem /\ fs[i + 1].phase = "advance"
    <2>1. fs[i + 1] = frames[i + 1]
      BY <1>5, <1>10
    <2>2. fs[i].level = frames[i].level /\ fs[i].dir = frames[i].dir
      BY <1>1, <1>3, <1>5
    <2> QED BY <1>4, <1>10, <2>1, <2>2 DEF IInv, Nested
  <1>11. Nested'
    BY <1>4, <1>5, <1>9, <1>10 DEF Nested
  <1> QED BY <1>8, <1>11 DEF IInv

LEMMA SearchesKeepsIInv == ASSUME IInv, Searches PROVE IInv'
  <1>1. PICK r \in Searched : frames' = <<Loop("repository", r)>>
    BY DEF Searches
  <1>2. PICK f : f = Loop("repository", r)
    OBVIOUS
  <1>3. f \in Frames /\ Sited(f) /\ f.level = "repository"
    <2>1. Searched = Started("repository")
      BY DEF Started
    <2>2. Loop("repository", r).level = "repository"
      BY DEF Loop
    <2> QED BY <1>2, <2>1, <2>2, LoopSited DEF Levels
  <1>4. PICK fs : fs = frames'
    OBVIOUS
  <1>5. fs \in Seq(Frames) /\ Len(fs) = 1 /\ fs[1] = f
    BY <1>1, <1>2, <1>3, <1>4
  <1>6. \A i \in 1 .. Len(fs) : Sited(fs[i])
    BY <1>3, <1>5
  <1>7. Typed'
    BY <1>4, <1>6, TypedKept DEF IInv, Typed, Searches
  <1>8. Nested'
    BY <1>3, <1>4, <1>5 DEF Nested
  <1> QED BY <1>7, <1>8 DEF IInv

LEMMA EndsKeepsIInv == ASSUME IInv, Returns \/ Fails PROVE IInv'
  <1>1. /\ frames' = <<>> /\ UNCHANGED <<initial, present, atom, atoms>>
        /\ at' \in Nat /\ (atom.repo # AnyRepo => at' \in {0, 1})
    BY DEF Returns, Fails, IInv, Typed
  <1>2. Typed'
    BY <1>1, TypedKept DEF IInv, Typed
  <1>3. Nested'
    BY <1>1 DEF Nested
  <1> QED BY <1>2, <1>3 DEF IInv

LEMMA VanishesKeepsIInv == ASSUME IInv, Vanishes PROVE IInv'
  <1>1. /\ UNCHANGED <<initial, atom, at, frames, atoms, outcome>> /\ present' \subseteq present
        /\ \A d \in Dirs : Content[d] \cap present' # {} => d \in present'
    BY DEF Vanishes
  <1>2. PICK fs : fs = frames
    OBVIOUS
  <1>3. ASSUME NEW i \in 1 .. Len(fs) PROVE Sited(fs[i])'
    <2>1. PICK f : f = fs[i]
      OBVIOUS
    <2>2. Sited(f)
      BY <1>2, <2>1 DEF IInv, Typed
    <2>3. Sited(f)'
      BY <1>1, <2>2, SitedKept
    <2> QED BY <2>1, <2>3
  <1>4. Wanted' = Wanted
    BY <1>1, Rigid
  <1>5. Typed'
    BY <1>1, <1>2, <1>3, <1>4 DEF IInv, Typed
  <1>6. Nested'
    BY <1>1 DEF IInv, Nested
  <1> QED BY <1>5, <1>6 DEF IInv

LEMMA InitIInv == Init => IInv
  <1> SUFFICES ASSUME Init PROVE IInv
    OBVIOUS
  <1>1. /\ initial \in Trees /\ present = initial /\ atom \in Atoms
        /\ at = 0 /\ frames = <<>> /\ atoms = <<>> /\ outcome = "running"
    BY DEF Init
  <1>2. \A d \in Dirs : Content[d] \cap present # {} => d \in present
    BY <1>1, ExpanderAssumption
  <1>3. Typed
    BY <1>1, <1>2 DEF Typed, ToSet
  <1>4. Nested
    BY <1>1 DEF Nested
  <1> QED BY <1>3, <1>4 DEF IInv

LEMMA IInvKept == IInv /\ [Next]_vars => IInv'
  <1> SUFFICES ASSUME IInv, [Next]_vars PROVE IInv'
    OBVIOUS
  <1>1. CASE Next
    BY <1>1, Steps, ProgressesKeepsIInv, PopsKeepsIInv, EntersKeepsIInv, FindsKeepsIInv,
       SearchesKeepsIInv, EndsKeepsIInv, VanishesKeepsIInv
  <1>2. CASE UNCHANGED vars
    <2>1. UNCHANGED <<initial, present, atom, at, frames, atoms, outcome>>
      BY <1>2 DEF vars
    <2>2. Typed'
      BY <2>1, TypedKept DEF IInv, Typed
    <2>3. Nested'
      BY <2>1 DEF IInv, Nested
    <2> QED BY <2>2, <2>3 DEF IInv
  <1> QED BY <1>1, <1>2

\* The loops under way are nested as the directories are, each at an entry of its directory,
\* and nothing but what the atom is about is found.
THEOREM NestedAlways == Spec => []IInv
  <1>1. Init => IInv
    BY InitIInv
  <1>2. IInv /\ [Next]_vars => IInv'
    BY IInvKept
  <1> QED BY <1>1, <1>2, PTL DEF Spec

-----------------------------------------------------------------------------
(* Nothing that is wanted is left out.                                     *)

LEMMA ProgressesKeepsProgress == ASSUME IInv, Progress, Progresses PROVE Progress'
  <1>1. /\ frames # <<>> /\ frames \in Seq(Frames) /\ Len(frames) \in Nat /\ 1 \in 1 .. Len(frames)
        /\ top = frames[1]
        /\ UNCHANGED <<initial, present, atom, at, atoms, outcome>> /\ outcome = "running"
    BY TopFacts DEF Progresses
  <1>2. PICK f \in Frames : Top(f) /\ Follows(f)
    BY DEF Progresses
  <1>3. PICK fs, n : fs = frames' /\ n = Len(frames)
    OBVIOUS
  <1>4. /\ fs \in Seq(Frames) /\ fs # <<>> /\ Len(fs) = n /\ fs[1] = f
        /\ \A i \in 1 .. n : i # 1 => fs[i] = frames[i]
    BY <1>1, <1>2, <1>3, TopIs
  <1>5. /\ f.level = top.level /\ f.dir = top.dir
        /\ \A e \in Items(top.level, top.dir) : Coming(top, e) => Coming(f, e) \/ Has(Wants(top.level, e))
    BY <1>2 DEF Follows
  <1>6. /\ \A S : Has(S)' <=> Has(S)
        /\ \A level, d : Items(level, d)' = Items(level, d) /\ Wants(level, d)' = Wants(level, d)
        /\ \A r : WantedOf(r)' = WantedOf(r) /\ (SearchedLater(r)' <=> SearchedLater(r))
        /\ Searched' = Searched
    BY <1>1, Rigid DEF Has, SearchedLater
  <1>7. ASSUME NEW i \in 1 .. n, NEW e \in Items(fs[i].level, fs[i].dir)
        PROVE  \/ Coming(fs[i], e)
               \/ i # 1 /\ e = fs[i - 1].dir
               \/ Has(Wants(fs[i].level, e))
    <2>1. CASE i = 1
      <3>1. Coming(top, e) \/ Has(Wants(top.level, e))
        BY <1>1, <1>3, <1>4, <1>5, <1>7, <2>1 DEF Progress
      <3> QED BY <1>4, <1>5, <1>7, <2>1, <3>1
    <2>2. CASE i # 1
      <3>1. fs[i] = frames[i] /\ i - 1 \in 1 .. n
        BY <1>1, <1>3, <1>4, <2>2
      <3>2. fs[i - 1].dir = frames[i - 1].dir
        BY <1>1, <1>4, <1>5, <3>1
      <3> QED BY <1>3, <1>7, <3>1, <3>2, <2>2 DEF Progress
    <2> QED BY <2>1, <2>2
  <1>8. fs[n].dir = frames[Len(frames)].dir
    BY <1>1, <1>3, <1>4, <1>5
  <1>9. \A r \in Searched : SearchedLater(r) \/ r = frames[Len(frames)].dir \/ Has(WantedOf(r))
    BY <1>1 DEF Progress
  <1> QED BY <1>1, <1>3, <1>4, <1>6, <1>7, <1>8, <1>9 DEF Progress, Coming

LEMMA PopsKeepsProgress == ASSUME IInv, Progress, Pops PROVE Progress'
  <1>1. /\ frames # <<>> /\ frames \in Seq(Frames) /\ Len(frames) \in Nat /\ 1 \in 1 .. Len(frames)
        /\ top = frames[1] /\ top.level \in Levels
        /\ UNCHANGED <<initial, present, atom, at, atoms, outcome>> /\ outcome = "running"
        /\ frames' = Tail(frames)
    BY TopFacts DEF Pops
  <1>2. PICK fs, n : fs = frames' /\ n = Len(frames)
    OBVIOUS
  <1>3. /\ fs \in Seq(Frames) /\ Len(fs) = n - 1 /\ n \in Nat
        /\ \A i \in 1 .. n - 1 : i + 1 \in 1 .. n /\ fs[i] = frames[i + 1]
        /\ fs # <<>> <=> n # 1
    BY <1>1, <1>2, PopIs
  <1>4. /\ \A S : Has(S)' <=> Has(S)
        /\ \A level, d : Items(level, d)' = Items(level, d) /\ Wants(level, d)' = Wants(level, d)
        /\ \A r : WantedOf(r)' = WantedOf(r) /\ (SearchedLater(r)' <=> SearchedLater(r))
        /\ Searched' = Searched
    BY <1>1, Rigid DEF Has, SearchedLater
  <1>5. \A e \in Items(top.level, top.dir) : Has(Wants(top.level, e))
    BY <1>1 DEF Progress, Pops
  <1>6. Has(UNION {Wants(top.level, e) : e \in Items(top.level, top.dir)})
    BY <1>5 DEF Has
  <1>7. ASSUME NEW i \in 1 .. n - 1, NEW e \in Items(fs[i].level, fs[i].dir)
        PROVE  \/ Coming(fs[i], e)
               \/ i # 1 /\ e = fs[i - 1].dir
               \/ Has(Wants(fs[i].level, e))
    <2>1. /\ i + 1 \in 1 .. n /\ i + 1 # 1 /\ (i + 1) - 1 = i
          /\ fs[i] = frames[i + 1]
      BY <1>3
    <2>2. \/ Coming(frames[i + 1], e) \/ e = frames[i].dir
          \/ Has(Wants(frames[i + 1].level, e))
      BY <1>2, <1>7, <2>1 DEF Progress
    <2>3. CASE i = 1 /\ e = top.dir
      <3>1. top.level = Deeper(frames[2].level) /\ frames[2].level # "package"
        BY <1>1, <1>2, <2>1, <2>3 DEF IInv, Nested
      <3>2. frames[2].level \in Levels
        <4>1. i + 1 = 2
          BY <2>3
        <4>2. frames[2] \in Frames
          BY <1>1, <1>2, <2>1, <4>1
        <4> QED BY <4>2 DEF Frames
      <3>3. Wants(frames[2].level, e) = UNION {Wants(top.level, x) : x \in Items(top.level, top.dir)}
        <4>1. CASE frames[2].level = "repository"
          <5>1. top.level = "category"
            BY <3>1, <4>1 DEF Deeper
          <5> QED BY <2>3, <4>1, <5>1, WantsIs
        <4>2. CASE frames[2].level = "category"
          <5>1. top.level = "package"
            BY <3>1, <4>2 DEF Deeper
          <5> QED BY <2>3, <4>2, <5>1, WantsIs
        <4> QED BY <3>1, <3>2, <4>1, <4>2 DEF Levels
      <3>4. fs[i] = frames[2]
        <4>1. i + 1 = 2
          BY <2>3
        <4> QED BY <2>1, <4>1
      <3> QED BY <1>6, <3>3, <3>4
    <2>4. CASE i # 1
      <3>1. i - 1 \in 1 .. n - 1 /\ fs[i - 1] = frames[(i - 1) + 1] /\ (i - 1) + 1 = i
        BY <1>3, <2>4
      <3> QED BY <2>1, <2>2, <2>4, <3>1
    <2> QED BY <1>1, <2>1, <2>2, <2>3, <2>4
  <1>8. ASSUME NEW r \in Searched
        PROVE  SearchedLater(r) \/ (fs # <<>> /\ r = fs[Len(fs)].dir) \/ Has(WantedOf(r))
    <2>1. SearchedLater(r) \/ r = frames[n].dir \/ Has(WantedOf(r))
      BY <1>1, <1>2 DEF Progress
    <2>2. CASE n = 1 /\ r = frames[n].dir
      <3>1. top.level = "repository" /\ r = top.dir
        BY <1>1, <1>2, <2>2 DEF IInv, Nested
      <3> QED BY <1>6, <3>1 DEF WantedOf
    <2>3. CASE n # 1
      <3>1. n - 1 \in 1 .. n - 1 /\ (n - 1) + 1 = n
        BY <1>1, <1>2, <2>3
      <3> QED BY <1>3, <2>1, <2>3, <3>1
    <2> QED BY <2>1, <2>2, <2>3
  <1> QED BY <1>1, <1>2, <1>3, <1>4, <1>7, <1>8 DEF Progress, Coming

LEMMA EntersKeepsProgress == ASSUME IInv, Progress, Enters PROVE Progress'
  <1>1. /\ frames # <<>> /\ frames \in Seq(Frames) /\ Len(frames) \in Nat /\ 1 \in 1 .. Len(frames)
        /\ top = frames[1] /\ Sited(top) /\ top.phase = "body" /\ top.cur # End
        /\ top.level \in Levels /\ top.dir \in Started(top.level)
        /\ top.elem \in Matched(top.level) /\ top.level # "package"
        /\ UNCHANGED <<initial, present, atom, at, atoms, outcome>> /\ outcome = "running"
    BY TopFacts DEF Enters, InBody
  <1>2. PICK f, g : f = Loop(Deeper(top.level), top.elem) /\ g = Waiting
    OBVIOUS
  <1>3. /\ f \in Frames /\ f.dir = top.elem /\ f.phase \in {"lookup", "begin"}
    <2>1. Deeper(top.level) \in Levels /\ top.elem \in Started(Deeper(top.level))
      BY <1>1, Deepens DEF Sited
    <2>2. f \in Frames
      BY <1>2, <2>1, LoopSited
    <2> QED BY <1>2, <2>2 DEF Loop
  <1>4. /\ g \in Frames /\ g.level = top.level /\ g.dir = top.dir /\ g.phase = "advance"
        /\ g.elem = top.elem /\ g.left = top.left
    BY <1>1, <1>2, WaitingIs
  <1>5. PICK fs, n : fs = frames' /\ n = Len(frames)
    OBVIOUS
  <1>6. /\ fs \in Seq(Frames) /\ fs # <<>> /\ Len(fs) = n + 1 /\ fs[1] = f /\ fs[2] = g
        /\ \A i \in 1 .. n : i # 1 => fs[i + 1] = frames[i]
    BY <1>1, <1>2, <1>3, <1>4, <1>5, PushIs DEF Enters
  <1>7. /\ \A S : Has(S)' <=> Has(S)
        /\ \A level, d : Items(level, d)' = Items(level, d) /\ Wants(level, d)' = Wants(level, d)
        /\ \A r : WantedOf(r)' = WantedOf(r) /\ (SearchedLater(r)' <=> SearchedLater(r))
        /\ Searched' = Searched
    BY <1>1, Rigid DEF Has, SearchedLater
  <1>8. ASSUME NEW i \in 1 .. n + 1, NEW e \in Items(fs[i].level, fs[i].dir)
        PROVE  \/ Coming(fs[i], e)
               \/ i # 1 /\ e = fs[i - 1].dir
               \/ Has(Wants(fs[i].level, e))
    <2>1. CASE i = 1
      BY <1>3, <1>6, <2>1 DEF Coming
    <2>2. CASE i = 2
      <3>1. Coming(top, e) \/ Has(Wants(top.level, e))
        BY <1>1, <1>4, <1>6, <1>8, <2>2 DEF Progress
      <3>2. CASE e \in ToSet(top.left)
        BY <1>4, <1>6, <2>2, <3>2 DEF Coming
      <3>3. CASE e = top.cur
        <4>1. top.elem = top.cur \/ top.cur \notin present
          BY <1>1 DEF Sited
        <4>2. CASE top.cur \notin present
          <5>1. e \in Kind(top.level)
            BY <1>1, <1>4, <1>6, <1>8, <2>2, OfferedIs
          <5> QED BY <1>1, <1>4, <1>6, <2>2, <3>3, <4>2, <5>1, Gone DEF IInv
        <4>3. CASE top.elem = top.cur
          <5>1. i - 1 = 1
            BY <2>2
          <5> QED BY <1>3, <1>6, <2>2, <3>3, <4>3, <5>1
        <4> QED BY <4>1, <4>2, <4>3
      <3> QED BY <1>1, <1>4, <1>6, <2>2, <3>1, <3>2, <3>3 DEF Coming
    <2>3. CASE i # 1 /\ i # 2
      <3>1. i - 1 \in 1 .. n /\ i - 1 # 1 /\ (i - 1) + 1 = i /\ (i - 1) - 1 = i - 2 /\ i - 2 \in 1 .. n
        BY <1>1, <1>5, <2>3
      <3>2. fs[i] = frames[i - 1]
        BY <1>6, <3>1
      <3>3. fs[i - 1].dir = frames[i - 2].dir
        <4>1. CASE i = 3
          <5>1. i - 1 = 2 /\ i - 2 = 1
            BY <4>1
          <5> QED BY <1>1, <1>4, <1>6, <5>1
        <4>2. CASE i # 3
          <5>1. i - 2 # 1 /\ (i - 2) + 1 = i - 1
            BY <1>1, <4>2
          <5> QED BY <1>6, <3>1, <5>1
        <4> QED BY <4>1, <4>2
      <3> QED BY <1>5, <1>8, <2>3, <3>1, <3>2, <3>3 DEF Progress
    <2> QED BY <2>1, <2>2, <2>3
  <1>9. fs[n + 1].dir = frames[n].dir
    <2>1. CASE n = 1
      <3>1. n + 1 = 2
        BY <2>1
      <3> QED BY <1>1, <1>4, <1>6, <2>1, <3>1
    <2>2. CASE n # 1
      BY <1>1, <1>5, <1>6, <2>2
    <2> QED BY <2>1, <2>2
  <1>10. \A r \in Searched : SearchedLater(r) \/ r = frames[n].dir \/ Has(WantedOf(r))
    BY <1>1, <1>5 DEF Progress
  <1> QED BY <1>1, <1>5, <1>6, <1>7, <1>8, <1>9, <1>10 DEF Progress, Coming

LEMMA FindsKeepsProgress == ASSUME IInv, Progress, Finds PROVE Progress'
  <1>1. /\ frames # <<>> /\ frames \in Seq(Frames) /\ Len(frames) \in Nat /\ 1 \in 1 .. Len(frames)
        /\ top = frames[1] /\ Sited(top) /\ top.phase = "body" /\ top.cur # End
        /\ top.level = "package" /\ top.level \in Levels /\ top.dir \in Started(top.level)
        /\ UNCHANGED <<initial, present, atom, at, outcome>> /\ outcome = "running"
        /\ atoms' = Append(atoms, top.elem) /\ atoms \in Seq(Nodes) /\ top.elem \in Nodes
    BY TopFacts DEF Finds, InBody, Sited, IInv, Typed, Frames
  <1>2. PICK g : g = Waiting
    OBVIOUS
  <1>3. /\ g \in Frames /\ Top(g) /\ g.level = top.level /\ g.dir = top.dir
        /\ g.phase = "advance" /\ g.elem = top.elem /\ g.left = top.left
    BY <1>1, <1>2, WaitingIs DEF Finds
  <1>4. PICK fs, n : fs = frames' /\ n = Len(frames)
    OBVIOUS
  <1>5. /\ fs \in Seq(Frames) /\ fs # <<>> /\ Len(fs) = n /\ fs[1] = g
        /\ \A i \in 1 .. n : i # 1 => fs[i] = frames[i]
    BY <1>1, <1>3, <1>4, TopIs
  <1>6. ToSet(atoms') = ToSet(atoms) \cup {top.elem}
    BY <1>1, AppendIs
  <1>7. /\ \A S : Has(S) => Has(S)'
        /\ \A level, d : Items(level, d)' = Items(level, d) /\ Wants(level, d)' = Wants(level, d)
        /\ \A r : WantedOf(r)' = WantedOf(r) /\ (SearchedLater(r)' <=> SearchedLater(r))
        /\ Searched' = Searched
    <2>1. \A S : Has(S) => Has(S)'
      BY <1>1, <1>6 DEF Has
    <2> QED BY <1>1, <2>1, Rigid DEF SearchedLater
  <1>8. ASSUME NEW i \in 1 .. n, NEW e \in Items(fs[i].level, fs[i].dir)
        PROVE  \/ Coming(fs[i], e)
               \/ i # 1 /\ e = fs[i - 1].dir
               \/ Has(Wants(fs[i].level, e))'
    <2>1. CASE i = 1
      <3>1. Coming(top, e) \/ Has(Wants(top.level, e))
        BY <1>1, <1>3, <1>4, <1>5, <1>8, <2>1 DEF Progress
      <3>2. CASE e \in ToSet(top.left)
        BY <1>3, <1>5, <2>1, <3>2 DEF Coming
      <3>3. CASE e = top.cur /\ e \in present
        <4>1. e = top.elem
          BY <1>1, <3>3 DEF Sited
        <4>2. Has({e})'
          BY <1>6, <4>1 DEF Has
        <4>3. Wants("package", e)' = {e}
          BY DEF Wants
        <4> QED BY <1>1, <1>3, <1>5, <2>1, <4>2, <4>3
      <3>4. CASE e \notin present
        <4>1. e \in Kind(top.level)
          BY <1>1, <1>3, <1>5, <1>8, <2>1, OfferedIs
        <4>2. Has(Wants(top.level, e))
          BY <1>1, <3>4, <4>1, Gone DEF IInv
        <4> QED BY <1>3, <1>5, <1>7, <2>1, <4>2
      <3>5. Coming(top, e) => e \in ToSet(top.left) \/ e = top.cur
        BY <1>1 DEF Coming
      <3> QED BY <1>3, <1>5, <1>7, <2>1, <3>1, <3>2, <3>3, <3>4, <3>5
    <2>2. CASE i # 1
      <3>1. fs[i] = frames[i] /\ i - 1 \in 1 .. n
        BY <1>1, <1>4, <1>5, <2>2
      <3>2. fs[i - 1].dir = frames[i - 1].dir
        BY <1>1, <1>3, <1>5, <3>1
      <3>3. Coming(fs[i], e) \/ e = fs[i - 1].dir \/ Has(Wants(fs[i].level, e))
        BY <1>4, <1>8, <3>1, <3>2, <2>2 DEF Progress
      <3> QED BY <1>7, <2>2, <3>3
    <2> QED BY <2>1, <2>2
  <1>9. fs[n].dir = frames[Len(frames)].dir
    BY <1>1, <1>3, <1>4, <1>5
  <1>10. \A r \in Searched : SearchedLater(r) \/ r = frames[Len(frames)].dir \/ Has(WantedOf(r))
    BY <1>1 DEF Progress
  <1> QED BY <1>1, <1>4, <1>5, <1>7, <1>8, <1>9, <1>10 DEF Progress, Coming

LEMMA SearchesKeepsProgress == ASSUME IInv, Progress, Searches PROVE Progress'
  <1>1. PICK r \in Searched :
            /\ frames' = <<Loop("repository", r)>>
            /\ \A q \in Searched : SearchedLater(q)' <=> SearchedLater(q) /\ q # r
    BY DEF Searches
  <1>2. /\ UNCHANGED <<initial, present, atom, atoms, outcome>> /\ outcome = "running" /\ frames = <<>>
    BY DEF Searches
  <1>3. PICK fs : fs = frames'
    OBVIOUS
  <1>4. Len(fs) = 1 /\ fs # <<>> /\ fs[1].dir = r /\ fs[1].phase \in {"lookup", "begin"}
    BY <1>1, <1>3 DEF Loop
  <1>5. /\ \A S : Has(S)' <=> Has(S)
        /\ \A q : WantedOf(q)' = WantedOf(q)
        /\ Searched' = Searched
    BY <1>2, Rigid DEF Has
  <1>6. \A i \in 1 .. Len(fs) : \A e : Coming(fs[i], e)
    BY <1>4 DEF Coming
  <1>7. \A q \in Searched : SearchedLater(q) \/ Has(WantedOf(q))
    BY <1>2 DEF Progress
  <1> QED BY <1>1, <1>2, <1>3, <1>4, <1>5, <1>6, <1>7 DEF Progress, Coming

LEMMA EndsKeepsProgress == ASSUME IInv, Progress, Returns \/ Fails PROVE Progress'
  <1>1. frames' = <<>> /\ UNCHANGED <<initial, present, atom, atoms>> /\ outcome = "running"
    BY DEF Returns, Fails
  <1>2. /\ \A S : Has(S)' <=> Has(S)
        /\ \A q : WantedOf(q)' = WantedOf(q)
        /\ Searched' = Searched
    BY <1>1, Rigid DEF Has
  <1>3. CASE Fails
    BY <1>1, <1>3 DEF Fails, Progress
  <1>4. CASE Returns
    BY <1>1, <1>2, <1>4 DEF Returns, Progress
  <1> QED BY <1>3, <1>4

LEMMA VanishesKeepsProgress == ASSUME IInv, Progress, Vanishes PROVE Progress'
  <1>1. UNCHANGED <<initial, atom, at, frames, atoms, outcome>> /\ present' \subseteq present
    BY DEF Vanishes
  <1>2. /\ \A S : Has(S) => Has(S)'
        /\ \A level, d : Items(level, d)' = Items(level, d) /\ Wants(level, d)' = Wants(level, d)
        /\ \A r : WantedOf(r)' = WantedOf(r) /\ (SearchedLater(r)' <=> SearchedLater(r))
        /\ Searched' = Searched
    BY <1>1, Rigid DEF Has, SearchedLater
  <1> QED BY <1>1, <1>2 DEF Progress, Coming

LEMMA InitProgress == Init => Progress
  <1> SUFFICES ASSUME Init PROVE Progress
    OBVIOUS
  <1>1. at = 0 /\ frames = <<>> /\ outcome = "running"
    BY DEF Init
  <1>2. \A i \in 1 .. Len(Repositories) : 0 < i
    BY RepositoriesTyped
  <1>3. \A r \in Roots : \E i \in 1 .. Len(Repositories) : r = Repositories[i]
    BY RepositoriesTyped DEF Roots, ToSet
  <1>4. \A r \in Searched : SearchedLater(r)
    BY <1>1, <1>2, <1>3 DEF Searched, SearchedLater
  <1> QED BY <1>1, <1>4 DEF Progress

LEMMA ProgressKept == IInv /\ Progress /\ [Next]_vars => Progress'
  <1> SUFFICES ASSUME IInv, Progress, [Next]_vars PROVE Progress'
    OBVIOUS
  <1>1. CASE Next
    BY <1>1, Steps, ProgressesKeepsProgress, PopsKeepsProgress, EntersKeepsProgress,
       FindsKeepsProgress, SearchesKeepsProgress, EndsKeepsProgress, VanishesKeepsProgress
  <1>2. CASE UNCHANGED vars
    <2>1. UNCHANGED <<initial, present, atom, at, frames, atoms, outcome>>
      BY <1>2 DEF vars
    <2>2. /\ \A S : Has(S)' <=> Has(S)
          /\ \A level, d : Items(level, d)' = Items(level, d) /\ Wants(level, d)' = Wants(level, d)
          /\ \A r : WantedOf(r)' = WantedOf(r) /\ (SearchedLater(r)' <=> SearchedLater(r))
          /\ Searched' = Searched
      BY <2>1, Rigid DEF Has, SearchedLater
    <2> QED BY <2>1, <2>2 DEF Progress, Coming
  <1> QED BY <1>1, <1>2

\* All that is wanted is wanted of some repository.
LEMMA WantedIs == Wanted \subseteq UNION {WantedOf(r) : r \in Searched}
  <1> SUFFICES ASSUME NEW x \in Wanted PROVE \E r \in Searched : x \in WantedOf(r)
    OBVIOUS
  <1>1. PICK p \in SearchedPackages \cap WellNamed :
            x \in Content[p] /\ x \in atom.ebuilds \cap GoodEbuilds
    BY DEF Wanted
  <1>2. PICK c \in SearchedCategories : p \in Content[c] \cap atom.packages
    BY <1>1 DEF SearchedPackages
  <1>3. PICK r \in Searched :
            c \in IF atom.exact_category THEN Content[r] \cap CategoryDirs ELSE ToSet(Listed[r])
    BY <1>2 DEF SearchedCategories
  <1>4. r \in Roots
    BY DEF Searched
  <1>5. c \in Offered("repository", r)
    BY <1>3, <1>4, ListedIs DEF Offered, Kind
  <1>6. c \in Items("repository", r)
    BY <1>2, <1>5 DEF Items, SearchedCategories
  <1>7. x \in Wants("repository", c)
    BY <1>1, <1>2 DEF Wants
  <1> QED BY <1>6, <1>7 DEF WantedOf

\* An expansion that returns has found every ebuild that the atom matches and that is there
\* throughout: neither the order of the directory entries, nor an entry read twice or removed
\* while the iterators of category and package go on, makes it miss one.
THEOREM CompleteAlways == Spec => []Complete
  <1>1. Init => IInv /\ Progress
    BY InitIInv, InitProgress
  <1>2. IInv /\ Progress /\ [Next]_vars => (IInv /\ Progress)'
    BY IInvKept, ProgressKept
  <1>3. IInv /\ Progress => Complete
    <2> SUFFICES ASSUME IInv, Progress, outcome = "returned"
                 PROVE  Wanted \cap present \subseteq ToSet(atoms)
      BY DEF Complete
    <2>1. frames = <<>>
      BY DEF IInv, Typed
    <2>2. \A r \in Searched : Has(WantedOf(r))
      BY <2>1 DEF Progress
    <2> QED BY <2>2, WantedIs DEF Has
  <1> QED BY <1>1, <1>2, <1>3, PTL DEF Spec

-----------------------------------------------------------------------------
(* Nothing is found twice.                                                 *)

Unmet(level, e) == Below(level, e) \cap ToSet(atoms) = {}

\* Loops that come to nothing else than before, while nothing is found.
LEMMA OnceKept ==
    ASSUME Once, UNCHANGED <<initial, present, atom, at, atoms, outcome>>,
           NEW fs, frames' = fs,
           Orderly => \A i \in 1 .. Len(fs) :
               /\ Distinct(fs[i])
               /\ \A e \in Content[fs[i].dir] \cap Kind(fs[i].level) :
                      Coming(fs[i], e) => Unmet(fs[i].level, e),
           fs # <<>> => frames # <<>> /\ fs[Len(fs)].dir = frames[Len(frames)].dir
    PROVE  Once'
  <1>1. (Orderly' <=> Orderly) /\ Searched' = Searched /\ \A r : SearchedLater(r)' <=> SearchedLater(r)
    BY DEF Orderly, Untouched, Searched, SearchedLater
  <1>2. SUFFICES ASSUME Orderly PROVE Once'
    BY <1>1 DEF Once
  <1> QED BY <1>1, <1>2 DEF Once, Unmet, Coming, Distinct

LEMMA ProgressesKeepsOnce == ASSUME IInv, Once, Progresses PROVE Once'
  <1>1. /\ frames # <<>> /\ frames \in Seq(Frames) /\ Len(frames) \in Nat /\ 1 \in 1 .. Len(frames)
        /\ top = frames[1]
        /\ UNCHANGED <<initial, present, atom, at, atoms, outcome>>
    BY TopFacts DEF Progresses
  <1>2. PICK f \in Frames : Top(f) /\ Follows(f)
    BY DEF Progresses
  <1>3. PICK fs, n : fs = frames' /\ n = Len(frames)
    OBVIOUS
  <1>4. /\ fs \in Seq(Frames) /\ fs # <<>> /\ Len(fs) = n /\ fs[1] = f
        /\ \A i \in 1 .. n : i # 1 => fs[i] = frames[i]
    BY <1>1, <1>2, <1>3, TopIs
  <1>5. /\ f.level = top.level /\ f.dir = top.dir
        /\ Orderly /\ Distinct(top) =>
               Distinct(f) /\ \A e \in Content[top.dir] : Coming(f, e) => Coming(top, e)
    BY <1>2 DEF Follows
  <1>6. ASSUME Orderly, NEW i \in 1 .. n
        PROVE  /\ Distinct(fs[i])
               /\ \A e \in Content[fs[i].dir] \cap Kind(fs[i].level) :
                      Coming(fs[i], e) => Unmet(fs[i].level, e)
    <2>1. /\ Distinct(frames[i])
          /\ \A e \in Content[frames[i].dir] \cap Kind(frames[i].level) :
                 Coming(frames[i], e) => Unmet(frames[i].level, e)
      BY <1>3, <1>6 DEF Once, Unmet
    <2>2. CASE i = 1
      BY <1>1, <1>4, <1>5, <1>6, <2>1, <2>2
    <2>3. CASE i # 1
      BY <1>4, <2>1, <2>3
    <2> QED BY <2>2, <2>3
  <1>7. fs[n].dir = frames[Len(frames)].dir
    BY <1>1, <1>3, <1>4, <1>5
  <1> QED BY <1>1, <1>3, <1>4, <1>6, <1>7, OnceKept

LEMMA PopsKeepsOnce == ASSUME IInv, Once, Pops PROVE Once'
  <1>1. /\ frames # <<>> /\ frames \in Seq(Frames) /\ Len(frames) \in Nat
        /\ UNCHANGED <<initial, present, atom, at, atoms, outcome>>
        /\ frames' = Tail(frames)
    BY TopFacts DEF Pops
  <1>2. PICK fs, n : fs = frames' /\ n = Len(frames)
    OBVIOUS
  <1>3. /\ fs \in Seq(Frames) /\ Len(fs) = n - 1 /\ n \in Nat
        /\ \A i \in 1 .. n - 1 : i + 1 \in 1 .. n /\ fs[i] = frames[i + 1]
        /\ fs # <<>> <=> n # 1
    BY <1>1, <1>2, PopIs
  <1>4. ASSUME Orderly, NEW i \in 1 .. n - 1
        PROVE  /\ Distinct(fs[i])
               /\ \A e \in Content[fs[i].dir] \cap Kind(fs[i].level) :
                      Coming(fs[i], e) => Unmet(fs[i].level, e)
    BY <1>2, <1>3, <1>4 DEF Once, Unmet
  <1>5. ASSUME fs # <<>> PROVE fs[Len(fs)].dir = frames[Len(frames)].dir
    <2>1. n - 1 \in 1 .. n - 1 /\ (n - 1) + 1 = n
      BY <1>1, <1>2, <1>3, <1>5
    <2> QED BY <1>2, <1>3, <2>1
  <1> QED BY <1>1, <1>2, <1>3, <1>4, <1>5, OnceKept

\* In a repository that nobody changes, a loop's body is for the entry that it is at.
LEMMA AtElem ==
    ASSUME IInv, Once, Orderly, InBody
    PROVE  /\ top.elem = top.cur /\ top.elem \in Content[top.dir] \cap Kind(top.level)
           /\ Unmet(top.level, top.elem) /\ Distinct(top) /\ top.elem \notin ToSet(top.left)
  <1>1. /\ frames # <<>> /\ top = frames[1] /\ 1 \in 1 .. Len(frames) /\ Sited(top)
        /\ top.phase = "body" /\ top.cur # End
        /\ top.level \in Levels /\ top.dir \in Started(top.level)
    BY TopFacts DEF InBody
  <1>2. top.elem = top.cur /\ top.elem \in Offered(top.level, top.dir)
    BY <1>1 DEF Sited, Orderly, Untouched
  <1>3. top.elem \in Content[top.dir] \cap Kind(top.level)
    BY <1>1, <1>2, OfferedIs
  <1>4. Coming(top, top.elem)
    BY <1>1, <1>2 DEF Coming
  <1>5. Unmet(top.level, top.elem) /\ Distinct(top)
    BY <1>1, <1>3, <1>4 DEF Once, Unmet
  <1> QED BY <1>1, <1>2, <1>3, <1>5 DEF Distinct

\* What is below an entry of an entry is below that.
LEMMA BelowIs ==
    /\ \A e : \A p \in Content[e] \cap PackageDirs : Below("category", p) \subseteq Below("repository", e)
    /\ \A e : \A x \in Content[e] : Below("package", x) \subseteq Below("category", e)
    /\ \A r : \A c \in Content[r] \cap CategoryDirs : Below("repository", c) \subseteq BelowRepository(r)
  BY DEF Below, BelowRepository

LEMMA EntersKeepsOnce == ASSUME IInv, Once, Enters PROVE Once'
  <1>1. /\ frames # <<>> /\ frames \in Seq(Frames) /\ Len(frames) \in Nat /\ 1 \in 1 .. Len(frames)
        /\ top = frames[1] /\ Sited(top) /\ top.phase = "body" /\ top.cur # End
        /\ top.level \in Levels /\ top.elem \in Matched(top.level) /\ top.level # "package"
        /\ UNCHANGED <<initial, present, atom, at, atoms, outcome>> /\ InBody
    BY TopFacts DEF Enters, InBody
  <1>2. PICK f, g : f = Loop(Deeper(top.level), top.elem) /\ g = Waiting
    OBVIOUS
  <1>3. /\ f \in Frames /\ f.dir = top.elem /\ f.level = Deeper(top.level)
        /\ f.left = <<>> /\ f.cur = End /\ f.phase \in {"lookup", "begin"}
    <2>1. Deeper(top.level) \in Levels /\ top.elem \in Started(Deeper(top.level))
      BY <1>1, Deepens DEF Sited
    <2>2. f \in Frames
      BY <1>2, <2>1, LoopSited
    <2> QED BY <1>2, <2>2 DEF Loop
  <1>4. /\ g \in Frames /\ g.level = top.level /\ g.dir = top.dir /\ g.phase = "advance"
        /\ g.elem = top.elem /\ g.left = top.left /\ g.cur = top.cur
    BY <1>1, <1>2, WaitingIs
  <1>5. PICK fs, n : fs = frames' /\ n = Len(frames)
    OBVIOUS
  <1>6. /\ fs \in Seq(Frames) /\ fs # <<>> /\ Len(fs) = n + 1 /\ fs[1] = f /\ fs[2] = g
        /\ \A i \in 1 .. n : i # 1 => fs[i + 1] = frames[i]
    BY <1>1, <1>2, <1>3, <1>4, <1>5, PushIs DEF Enters
  <1>7. ASSUME Orderly, NEW i \in 1 .. n + 1
        PROVE  /\ Distinct(fs[i])
               /\ \A e \in Content[fs[i].dir] \cap Kind(fs[i].level) :
                      Coming(fs[i], e) => Unmet(fs[i].level, e)
    <2>1. /\ top.elem \in Content[top.dir] \cap Kind(top.level)
          /\ Unmet(top.level, top.elem) /\ Distinct(top) /\ top.elem \notin ToSet(top.left)
      BY <1>1, <1>7, AtElem
    <2>2. CASE i = 1
      <3>1. Distinct(f)
        BY <1>3 DEF Distinct, IsInjective, ToSet
      <3>2. ASSUME NEW e \in Content[f.dir] \cap Kind(f.level) PROVE Unmet(f.level, e)
        <4>1. Below(f.level, e) \subseteq Below(top.level, top.elem)
          <5>1. CASE top.level = "repository"
            <6>1. f.level = "category" /\ Kind(f.level) = PackageDirs
              BY <1>3, <5>1 DEF Deeper, Kind
            <6> QED BY <1>3, <3>2, <5>1, <6>1, BelowIs
          <5>2. CASE top.level = "category"
            <6>1. f.level = "package"
              BY <1>3, <5>2 DEF Deeper
            <6> QED BY <1>3, <3>2, <5>2, <6>1, BelowIs
          <5> QED BY <1>1, <5>1, <5>2 DEF Levels
        <4> QED BY <2>1, <4>1 DEF Unmet
      <3> QED BY <1>6, <2>2, <3>1, <3>2
    <2>3. CASE i = 2
      <3>1. Distinct(g)
        BY <1>4, <2>1 DEF Distinct
      <3>2. ASSUME NEW e \in Content[g.dir] \cap Kind(g.level), Coming(g, e) PROVE Unmet(g.level, e)
        <4>1. Coming(top, e)
          BY <1>4, <3>2 DEF Coming
        <4> QED BY <1>1, <1>4, <1>7, <3>2, <4>1 DEF Once, Unmet
      <3> QED BY <1>6, <2>3, <3>1, <3>2
    <2>4. CASE i # 1 /\ i # 2
      <3>1. i - 1 \in 1 .. n /\ i - 1 # 1 /\ (i - 1) + 1 = i
        BY <1>1, <1>5, <2>4
      <3>2. fs[i] = frames[i - 1]
        BY <1>6, <3>1
      <3> QED BY <1>5, <1>7, <3>1, <3>2 DEF Once, Unmet
    <2> QED BY <2>2, <2>3, <2>4
  <1>8. fs[n + 1].dir = frames[n].dir
    <2>1. CASE n = 1
      <3>1. n + 1 = 2
        BY <2>1
      <3> QED BY <1>1, <1>4, <1>6, <2>1, <3>1
    <2>2. CASE n # 1
      BY <1>1, <1>5, <1>6, <2>2
    <2> QED BY <2>1, <2>2
  <1> QED BY <1>1, <1>5, <1>6, <1>7, <1>8, OnceKept

\* Three loops find an ebuild: each directory is the element of the loop above.
LEMMA ThreeLoops ==
    ASSUME IInv, frames # <<>>, top.level = "package"
    PROVE  /\ Len(frames) = 3 /\ frames[1].level = "package"
           /\ frames[2].level = "category" /\ frames[3].level = "repository"
           /\ frames[1].dir = frames[2].elem /\ frames[2].dir = frames[3].elem
           /\ frames[2].phase = "advance" /\ frames[3].phase = "advance"
           /\ frames[1].dir \in Content[frames[2].dir] \cap PackageDirs
           /\ frames[2].dir \in Content[frames[3].dir] \cap CategoryDirs
           /\ frames[3].dir \in Roots
  <1>1. PICK n \in Nat : n = Len(frames) /\ 1 \in 1 .. n
    BY TopFacts
  <1>2. top = frames[1] /\ frames \in Seq(Frames)
    BY TopFacts
  <1>3. \A i \in 1 .. n : Sited(frames[i]) /\ frames[i].level \in Levels
    <2>1. \A i \in 1 .. n : Sited(frames[i])
      BY <1>1 DEF IInv, Typed
    <2> QED BY <2>1 DEF Sited, Frames
  <1>4. /\ frames[n].level = "repository"
        /\ \A i \in 1 .. n : i + 1 \in 1 .. n =>
               /\ frames[i].level = Deeper(frames[i + 1].level) /\ frames[i + 1].level # "package"
               /\ frames[i].dir = frames[i + 1].elem /\ frames[i + 1].phase = "advance"
    BY <1>1, <1>2 DEF IInv, Nested
  <1>5. n # 1
    BY <1>2, <1>4
  <1>6. 2 \in 1 .. n /\ 1 + 1 = 2
    BY <1>1, <1>5
  <1>7. frames[1].level = Deeper(frames[2].level) /\ frames[2].level # "package"
        /\ frames[1].dir = frames[2].elem /\ frames[2].phase = "advance"
    BY <1>1, <1>4, <1>6
  <1>8. frames[2].level = "category"
    BY <1>2, <1>3, <1>6, <1>7 DEF Levels, Deeper
  <1>9. n # 2
    BY <1>4, <1>8
  <1>10. 3 \in 1 .. n /\ 2 + 1 = 3
    BY <1>1, <1>5, <1>9
  <1>11. frames[2].level = Deeper(frames[3].level) /\ frames[3].level # "package"
         /\ frames[2].dir = frames[3].elem /\ frames[3].phase = "advance"
    BY <1>4, <1>6, <1>10
  <1>12. frames[3].level = "repository"
    BY <1>3, <1>8, <1>10, <1>11 DEF Levels, Deeper
  <1>13. n = 3
    <2>1. CASE n # 3
      <3>1. 4 \in 1 .. n /\ 3 + 1 = 4
        BY <1>10, <2>1
      <3>2. frames[3].level = Deeper(frames[4].level)
        BY <1>4, <1>10, <3>1
      <3> QED BY <1>12, <3>2 DEF Deeper
    <2> QED BY <2>1
  <1>14. frames[1].dir \in Content[frames[2].dir] \cap PackageDirs
    <2>1. frames[2].elem # End /\ frames[2].dir \in Started("category")
          /\ (frames[2].elem # End => frames[2].elem \in Offered("category", frames[2].dir))
      BY <1>3, <1>6, <1>7, <1>8 DEF Sited
    <2>2. Kind("category") = PackageDirs
      BY DEF Kind
    <2> QED BY <1>7, <2>1, <2>2, OfferedIs DEF Levels
  <1>15. frames[2].dir \in Content[frames[3].dir] \cap CategoryDirs /\ frames[3].dir \in Roots
    <2>1. frames[3].elem # End /\ frames[3].dir \in Started("repository")
          /\ (frames[3].elem # End => frames[3].elem \in Offered("repository", frames[3].dir))
      BY <1>3, <1>10, <1>11, <1>12 DEF Sited
    <2>2. Kind("repository") = CategoryDirs
      BY DEF Kind
    <2> QED BY <1>11, <2>1, <2>2, OfferedIs, StartedIs DEF Levels
  <1> QED BY <1>1, <1>2, <1>7, <1>8, <1>11, <1>12, <1>13, <1>14, <1>15

LEMMA OneDir ==
    ASSUME NEW d \in Dirs, NEW e \in Dirs, NEW x \in Content[d] \cap Content[e]
    PROVE  d = e
  BY TreeAssumption

LEMMA FindsKeepsOnce == ASSUME IInv, Once, Finds PROVE Once'
  <1>1. /\ frames # <<>> /\ frames \in Seq(Frames) /\ Len(frames) \in Nat /\ 1 \in 1 .. Len(frames)
        /\ top = frames[1] /\ Sited(top) /\ top.phase = "body" /\ top.cur # End
        /\ top.level = "package" /\ InBody
        /\ UNCHANGED <<initial, present, atom, at, outcome>>
        /\ atoms' = Append(atoms, top.elem) /\ atoms \in Seq(Nodes) /\ top.elem # End /\ top.elem \in Nodes
    BY TopFacts DEF Finds, InBody, Sited, IInv, Typed, Frames
  <1>2. PICK g : g = Waiting
    OBVIOUS
  <1>3. /\ g \in Frames /\ Top(g) /\ g.level = top.level /\ g.dir = top.dir
        /\ g.phase = "advance" /\ g.elem = top.elem /\ g.left = top.left /\ g.cur = top.cur
    BY <1>1, <1>2, WaitingIs DEF Finds
  <1>4. PICK fs, x : fs = frames' /\ x = top.elem
    OBVIOUS
  <1>5. /\ Len(frames) = 3 /\ frames[1].level = "package"
        /\ frames[2].level = "category" /\ frames[3].level = "repository"
        /\ frames[1].dir = frames[2].elem /\ frames[2].dir = frames[3].elem
        /\ frames[2].phase = "advance" /\ frames[3].phase = "advance"
        /\ frames[1].dir \in Content[frames[2].dir] \cap PackageDirs
        /\ frames[2].dir \in Content[frames[3].dir] \cap CategoryDirs
        /\ frames[3].dir \in Roots
    BY <1>1, ThreeLoops
  <1>6. /\ fs \in Seq(Frames) /\ fs # <<>> /\ Len(fs) = 3
        /\ fs[1] = g /\ fs[2] = frames[2] /\ fs[3] = frames[3]
    BY <1>1, <1>3, <1>4, <1>5, TopIs
  <1>7. (Orderly' <=> Orderly) /\ Searched' = Searched /\ \A r : SearchedLater(r)' <=> SearchedLater(r)
    BY <1>1 DEF Orderly, Untouched, Searched, SearchedLater
  <1>8. SUFFICES ASSUME Orderly PROVE Once'
    BY <1>7 DEF Once
  <1>9. /\ x \in Content[top.dir] \cap Kind("package")
        /\ Unmet("package", x) /\ Distinct(top) /\ x \notin ToSet(top.left)
    BY <1>1, <1>4, <1>8, AtElem
  <1>10. ToSet(atoms') = ToSet(atoms) \cup {x} /\ IsInjective(atoms')
    <2>1. x \notin ToSet(atoms)
      BY <1>9 DEF Unmet, Below
    <2>2. IsInjective(atoms)
      BY <1>8 DEF Once
    <2> QED BY <1>1, <1>4, <2>1, <2>2, AppendIs
  <1>11. \A i \in 1 .. 3 :
             /\ Distinct(frames[i])
             /\ \A e \in Content[frames[i].dir] \cap Kind(frames[i].level) :
                    Coming(frames[i], e) => Unmet(frames[i].level, e)
    BY <1>5, <1>8 DEF Once, Unmet
  <1>12. \A level, e : x \notin Below(level, e) /\ Unmet(level, e) => Unmet(level, e)'
    BY <1>10 DEF Unmet, Below
  <1>13. \A e \in PackageDirs : x \in Below("category", e) => e = top.dir
    <2>1. top.dir \in PackageDirs
      BY <1>1, <1>5
    <2> QED BY <1>9, <2>1, OneDir DEF Below, Dirs
  <1>14. \A e \in CategoryDirs : x \in Below("repository", e) => e = frames[2].dir
    <2> SUFFICES ASSUME NEW e \in CategoryDirs, NEW p \in Content[e] \cap PackageDirs, x \in Content[p]
                 PROVE  e = frames[2].dir
      BY DEF Below
    <2>1. p = top.dir
      BY <1>13 DEF Below
    <2>2. p \in Content[e] \cap Content[frames[2].dir] /\ frames[2].dir \in Dirs /\ e \in Dirs
      BY <1>1, <1>5, <2>1 DEF Dirs
    <2> QED BY <2>2, OneDir
  <1>15. \A r \in Roots : x \in BelowRepository(r) => r = frames[3].dir
    <2> SUFFICES ASSUME NEW r \in Roots, NEW c \in Content[r] \cap CategoryDirs, x \in Below("repository", c)
                 PROVE  r = frames[3].dir
      BY DEF BelowRepository
    <2>1. c = frames[2].dir
      BY <1>14
    <2>2. c \in Content[r] \cap Content[frames[3].dir] /\ frames[3].dir \in Dirs /\ r \in Dirs
      BY <1>5, <2>1 DEF Dirs
    <2> QED BY <2>2, OneDir
  <1>16. ASSUME NEW i \in 1 .. 3
         PROVE  /\ Distinct(fs[i])
                /\ \A e \in Content[fs[i].dir] \cap Kind(fs[i].level) :
                       Coming(fs[i], e) => Unmet(fs[i].level, e)'
    <2>1. CASE i = 1
      <3>1. Distinct(g)
        BY <1>3, <1>4, <1>9 DEF Distinct
      <3>2. ASSUME NEW e \in Content[g.dir] \cap Kind(g.level), Coming(g, e) PROVE Unmet(g.level, e)'
        <4>1. e \in ToSet(top.left)
          BY <1>3, <3>2 DEF Coming
        <4>2. Coming(top, e)
          BY <4>1 DEF Coming
        <4>3. Unmet(top.level, e)
          BY <1>1, <1>3, <1>11, <3>2, <4>2
        <4>4. x \notin Below(top.level, e)
          BY <1>1, <1>9, <4>1 DEF Below
        <4> QED BY <1>3, <1>12, <4>3, <4>4
      <3> QED BY <1>6, <2>1, <3>1, <3>2
    <2>2. CASE i = 2
      <3>1. ASSUME NEW e \in Content[frames[2].dir] \cap PackageDirs, Coming(frames[2], e)
            PROVE  Unmet("category", e)'
        <4>1. e \in ToSet(frames[2].left)
          BY <1>5, <3>1 DEF Coming
        <4>2. e # top.dir
          BY <1>1, <1>5, <1>11, <4>1 DEF Distinct
        <4>3. Kind("category") = PackageDirs
          BY DEF Kind
        <4>4. Unmet("category", e)
          BY <1>5, <1>11, <3>1, <4>3
        <4> QED BY <1>12, <1>13, <4>2, <4>4
      <3>2. Kind("category") = PackageDirs
        BY DEF Kind
      <3> QED BY <1>5, <1>6, <1>11, <2>2, <3>1, <3>2
    <2>3. CASE i = 3
      <3>1. ASSUME NEW e \in Content[frames[3].dir] \cap CategoryDirs, Coming(frames[3], e)
            PROVE  Unmet("repository", e)'
        <4>1. e \in ToSet(frames[3].left)
          BY <1>5, <3>1 DEF Coming
        <4>2. e # frames[2].dir
          BY <1>5, <1>11, <4>1 DEF Distinct
        <4>3. Kind("repository") = CategoryDirs
          BY DEF Kind
        <4>4. Unmet("repository", e)
          BY <1>5, <1>11, <3>1, <4>3
        <4> QED BY <1>12, <1>14, <4>2, <4>4
      <3>2. Kind("repository") = CategoryDirs
        BY DEF Kind
      <3> QED BY <1>5, <1>6, <1>11, <2>3, <3>1, <3>2
    <2> QED BY <2>1, <2>2, <2>3
  <1>17. ASSUME outcome = "running", NEW r \in Searched, SearchedLater(r)
         PROVE  BelowRepository(r) \cap ToSet(atoms') = {} /\ r # fs[3].dir
    <2>1. BelowRepository(r) \cap ToSet(atoms) = {} /\ r # frames[3].dir
      BY <1>1, <1>5, <1>8, <1>17 DEF Once
    <2>2. r \in Roots
      BY DEF Searched
    <2> QED BY <1>6, <1>10, <1>15, <2>1, <2>2
  <1> QED BY <1>1, <1>4, <1>6, <1>7, <1>10, <1>16, <1>17 DEF Once, Unmet, Coming, Distinct

LEMMA SearchesKeepsOnce == ASSUME IInv, Once, Searches PROVE Once'
  <1>1. PICK r \in Searched :
            /\ SearchedLater(r) /\ frames' = <<Loop("repository", r)>>
            /\ \A q \in Searched : SearchedLater(q)' <=> SearchedLater(q) /\ q # r
    BY DEF Searches
  <1>2. /\ UNCHANGED <<initial, present, atom, atoms, outcome>> /\ outcome = "running" /\ frames = <<>>
    BY DEF Searches
  <1>3. PICK fs : fs = frames'
    OBVIOUS
  <1>4. /\ Len(fs) = 1 /\ fs # <<>> /\ fs[1].dir = r /\ fs[1].level = "repository"
        /\ fs[1].left = <<>> /\ fs[1].cur = End /\ fs[1].phase \in {"lookup", "begin"}
    BY <1>1, <1>3 DEF Loop
  <1>5. (Orderly' <=> Orderly) /\ Searched' = Searched
    BY <1>2 DEF Orderly, Untouched, Searched
  <1>6. SUFFICES ASSUME Orderly PROVE Once'
    BY <1>5 DEF Once
  <1>7. /\ IsInjective(atoms) /\ BelowRepository(r) \cap ToSet(atoms) = {}
        /\ \A q \in Searched : SearchedLater(q)' =>
               BelowRepository(q) \cap ToSet(atoms) = {} /\ q # r
    BY <1>1, <1>2, <1>6 DEF Once
  <1>8. Distinct(fs[1])
    BY <1>4 DEF Distinct, IsInjective, ToSet
  <1>9. \A e \in Content[r] \cap Kind("repository") : Below("repository", e) \cap ToSet(atoms) = {}
    BY <1>7, BelowIs DEF Kind
  <1> QED BY <1>2, <1>3, <1>4, <1>5, <1>7, <1>8, <1>9 DEF Once, Coming, Distinct

LEMMA OtherwiseKeepsOnce == ASSUME IInv, Once, Returns \/ Fails \/ Vanishes PROVE Once'
  <1>1. CASE Returns \/ Fails
    <2>1. /\ frames' = <<>> /\ UNCHANGED <<initial, present, atom, atoms>> /\ outcome' # "running"
      BY <1>1 DEF Returns, Fails
    <2>2. Orderly' <=> Orderly
      BY <2>1 DEF Orderly, Untouched
    <2> QED BY <2>1, <2>2 DEF Once
  <1>2. CASE Vanishes
    BY <1>2 DEF Vanishes, IInv, Typed, Once, Orderly, Untouched
  <1> QED BY <1>1, <1>2

LEMMA InitOnce == Init => Once
  BY DEF Init, Once, IsInjective, ToSet

LEMMA OnceKeeps == IInv /\ Once /\ [Next]_vars => Once'
  <1> SUFFICES ASSUME IInv, Once, [Next]_vars PROVE Once'
    OBVIOUS
  <1>1. CASE Next
    BY <1>1, Steps, ProgressesKeepsOnce, PopsKeepsOnce, EntersKeepsOnce, FindsKeepsOnce,
       SearchesKeepsOnce, OtherwiseKeepsOnce
  <1>2. CASE UNCHANGED vars
    <2>1. UNCHANGED <<initial, present, atom, at, frames, atoms, outcome>>
      BY <1>2 DEF vars
    <2>2. (Orderly' <=> Orderly) /\ Searched' = Searched /\ \A r : SearchedLater(r)' <=> SearchedLater(r)
      BY <2>1 DEF Orderly, Untouched, Searched, SearchedLater
    <2> QED BY <2>1, <2>2 DEF Once, Coming, Distinct
  <1> QED BY <1>1, <1>2

\* What is found is matched by the atom in every part, and was there at the beginning; and no
\* ebuild is found twice in a repository that stays as it is and lists its categories once.
THEOREM SoundAlways == Spec => []Sound
  <1>1. Init => IInv /\ Once
    BY InitIInv, InitOnce
  <1>2. IInv /\ Once /\ [Next]_vars => (IInv /\ Once)'
    BY IInvKept, OnceKeeps
  <1>3. IInv /\ Once => Sound
    BY DEF IInv, Typed, Once, Orderly, Sound
  <1> QED BY <1>1, <1>2, <1>3, PTL DEF Spec

-----------------------------------------------------------------------------
LEMMA ReasonKept == ASSUME Reason, UNCHANGED <<initial, present, atom>> PROVE Reason'
  <1>1. Searched' = Searched /\ SearchedPackages' = SearchedPackages
    BY DEF Searched, SearchedCategories, SearchedPackages
  <1> QED BY <1>1 DEF Reason, Untouched, Readable

\* An expansion ends with an exception, or ends the program, only for one of the reasons that
\* FailsForAReason names: no repository has the name, something was removed, a category that it
\* goes through is listed and not there, or a package that it goes into has an ebuild with a
\* name that is not one of an ebuild, or with a version that cannot be compared with the atom's.
THEOREM FailsForAReasonAlways == Spec => []FailsForAReason
  <1>1. Init => FailsForAReason
    BY DEF Init, FailsForAReason
  <1>2. IInv /\ FailsForAReason /\ [Next]_vars => FailsForAReason'
    <2> SUFFICES ASSUME IInv, FailsForAReason, [Next]_vars PROVE FailsForAReason'
      OBVIOUS
    <2>1. CASE Fails
      <3>1. Reason'
        BY <2>1, ReasonKept DEF Fails
      <3> QED BY <3>1 DEF Reason, FailsForAReason
    <2>2. CASE \/ Progresses \/ Pops \/ Enters \/ Finds \/ Searches \/ Returns \/ Vanishes
      <3>1. outcome' \notin {"thrown", "terminated"}
        BY <2>2 DEF Progresses, Pops, Enters, Finds, InBody, Searches, Returns, Vanishes
      <3> QED BY <3>1 DEF FailsForAReason
    <2>3. CASE UNCHANGED vars
      <3>1. Reason => Reason'
        BY <2>3, ReasonKept DEF vars
      <3>2. outcome \in {"thrown", "terminated"} => Reason
        BY DEF Reason, FailsForAReason
      <3>3. outcome' \in {"thrown", "terminated"} => Reason'
        BY <2>3, <3>1, <3>2 DEF vars
      <3> QED BY <3>3 DEF Reason, FailsForAReason
    <2> QED BY <2>1, <2>2, <2>3, Steps
  <1> QED BY <1>1, <1>2, InitIInv, IInvKept, PTL DEF Spec
=============================================================================
