---------------------------- MODULE VersionOrder ----------------------------
(***************************************************************************)
(* The comparison of versions and the selection of ebuilds by a version    *)
(* and an operator.  A number is the sequence of its digits, since leading *)
(* and trailing zeros count; a conversion to unsigned long that does not   *)
(* fit throws, which ends the program inside a noexcept function.          *)
(***************************************************************************)
EXTENDS Naturals, Sequences, SequencesExt

CONSTANTS
    Versions,   \* the versions looked at
    MaxUlong    \* the largest unsigned long

NoLetter   == 0
NoRevision == <<>>

\* The order of VersionSuffixWord.
Words == <<"alpha", "beta", "pre", "rc", "p">>
WordRank(word) == CHOOSE i \in DOMAIN Words : Words[i] = word

Digits        == Seq(0 .. 9)
VersionSuffix == [word : ToSet(Words), number : Digits]

\* What the parser makes of a version: one component at least, of one digit at least.
ASSUME VersionsAssumption ==
    /\ MaxUlong \in Nat
    /\ Versions \subseteq
          [numbers : Seq(Digits \ {<<>>}) \ {<<>>}, letter : Nat,
           suffixes : Seq(VersionSuffix), revision : Digits]

-----------------------------------------------------------------------------
CompareNat(m, n) == IF m < n THEN "less" ELSE IF m > n THEN "greater" ELSE "equal"

\* std::string's order.
CompareString(s, t) ==
    IF s = t THEN "equal"
    ELSE IF \E n \in 0 .. Len(s) :
                /\ n < Len(t) /\ \A i \in 1 .. n : s[i] = t[i]
                /\ n = Len(s) \/ s[n + 1] < t[n + 1]
    THEN "less" ELSE "greater"

\* nullopt for equality.
Undecided(order) == IF order = "equal" THEN "none" ELSE order

\* What the first of two algorithms decides, or else the second.
Or(first, second) == IF first = "none" THEN second ELSE first

Value(digits) ==
    LET upto[n \in 0 .. Len(digits)] == IF n = 0 THEN 0 ELSE 10 * upto[n - 1] + digits[n]
    IN  upto[Len(digits)]

\* Both numbers converted by stoul and compared.
CompareUlong(s, t) ==
    IF Value(s) > MaxUlong \/ Value(t) > MaxUlong
    THEN "throw"
    ELSE Undecided(CompareNat(Value(s), Value(t)))

\* Up to the last digit that is not a zero.
StripZeros(s) ==
    LET significant == {i \in DOMAIN s : s[i] # 0}
    IN  IF significant = {} THEN <<>>
        ELSE SubSeq(s, 1, CHOOSE i \in significant : \A j \in significant : j <= i)

\* A mutant: a single leading zero does not count.
algorithm_3_3_BothZero(s, t) ==
    IF s[1] = 0 /\ t[1] = 0
    THEN Undecided(CompareString(StripZeros(s), StripZeros(t)))
    ELSE CompareUlong(s, t)

\* A numeric component behind the first: as strings if one of them starts with 0.
algorithm_3_3(s, t) ==
    IF s[1] = 0 \/ t[1] = 0
    THEN Undecided(CompareString(StripZeros(s), StripZeros(t)))
    ELSE CompareUlong(s, t)

Shorter(s, t) == IF Len(s) < Len(t) THEN Len(s) ELSE Len(t)

\* What the first position decides of those that decide anything.
FirstDecided(orders) ==
    LET decided == {i \in DOMAIN orders : orders[i] # "none"}
    IN  IF decided = {} THEN "none"
        ELSE orders[CHOOSE i \in decided : \A j \in decided : i <= j]

\* The numeric components.
algorithm_3_2(s, t) ==
    Or(CompareUlong(s[1], t[1]),
       Or(FirstDecided([i \in 2 .. Shorter(s, t) |-> algorithm_3_3(s[i], t[i])]),
          Undecided(CompareNat(Len(s), Len(t)))))

\* The letter: with a letter on both sides the comparison is over, equal or not.
algorithm_3_4(l, m) ==
    IF l = NoLetter /\ m = NoLetter THEN "none" ELSE CompareNat(l, m)

\* A suffix: its word, then its number as a string.
algorithm_3_6(x, y) ==
    IF x.word = y.word
    THEN Undecided(CompareString(x.number, y.number))
    ELSE CompareNat(WordRank(x.word), WordRank(y.word))

\* A mutant: a surplus suffix of the left version is taken for one of the right.
algorithm_3_5_OneSided(s, t) ==
    Or(FirstDecided([i \in 1 .. Shorter(s, t) |-> algorithm_3_6(s[i], t[i])]),
       IF Len(s) = Len(t) THEN "none"
       ELSE IF (s \o t)[Shorter(s, t) + 1].word = "p" THEN "less" ELSE "greater")

\* The suffixes: of one more, _p is later than none and any other is earlier.
algorithm_3_5(s, t) ==
    Or(FirstDecided([i \in 1 .. Shorter(s, t) |-> algorithm_3_6(s[i], t[i])]),
       IF Len(s) < Len(t)
       THEN IF t[Len(s) + 1].word = "p" THEN "less" ELSE "greater"
       ELSE IF Len(s) > Len(t)
       THEN IF s[Len(t) + 1].word = "p" THEN "greater" ELSE "less"
       ELSE "none")

Revision(v) == IF v.revision = NoRevision THEN <<0>> ELSE v.revision

\* The revision.
algorithm_3_7(s, t) == CompareUlong(s, t)

\* Version::compare_impl: operator<=> with the revision, compare_td without.
compare_impl(v, w, revision) ==
    LET decided ==
            Or(algorithm_3_2(v.numbers, w.numbers),
            Or(algorithm_3_4(v.letter, w.letter),
            Or(algorithm_3_5(v.suffixes, w.suffixes),
               IF revision THEN algorithm_3_7(Revision(v), Revision(w)) ELSE "none")))
    IN  IF decided = "none" THEN "equal" ELSE decided

Spaceship(v, w) == compare_impl(v, w, TRUE)
Td(v, w)        == compare_impl(v, w, FALSE)

\* Version's conversion to a string, a letter or a suffix word being one character.
Chars(digits) == [i \in DOMAIN digits |-> ToString(digits[i])]

Text(v) ==
    FlattenSeq([i \in DOMAIN v.numbers |->
        (IF i = 1 THEN <<>> ELSE <<".">>) \o Chars(v.numbers[i])])
    \o (IF v.letter = NoLetter THEN <<>> ELSE <<"letter " \o ToString(v.letter)>>)
    \o FlattenSeq([i \in DOMAIN v.suffixes |->
        <<v.suffixes[i].word>> \o Chars(v.suffixes[i].number)])
    \o (IF v.revision = NoRevision THEN <<>> ELSE <<"-r">> \o Chars(v.revision))

Selectors == {"lt", "le", "eq", "ea", "td", "ge", "gt"}

\* A mutant: > and >= mixed up.
Selects_Swapped(s, order) ==
    CASE s = "lt" -> order = "less"
      [] s = "le" -> order \in {"less", "equal"}
      [] s \in {"eq", "td"} -> order = "equal"
      [] s = "gt" -> order \in {"greater", "equal"}
      [] s = "ge" -> order = "greater"

Selects(s, order) ==
    CASE s = "lt" -> order = "less"
      [] s = "le" -> order \in {"less", "equal"}
      [] s \in {"eq", "td"} -> order = "equal"
      [] s = "ge" -> order \in {"greater", "equal"}
      [] s = "gt" -> order = "greater"

Compared(s, w, v) == IF s = "td" THEN Td(v, w) ELSE Spaceship(v, w)

\* Does operator s with version w select an ebuild of version v?
test_version(s, w, v) ==
    IF s = "ea" THEN IsPrefix(Text(w), Text(v)) ELSE Selects(s, Compared(s, w, v))

Terminates(s, w, v) == s # "ea" /\ Compared(s, w, v) = "throw"

-----------------------------------------------------------------------------
(* The choice of ebuilds by an atom.                                       *)

VARIABLES
    ebuild,     \* the version of the ebuild that is looked at
    version,    \* the version of the atom
    asked,      \* the operator of the atom
    answer      \* whether the atom selects the ebuild

vars == <<ebuild, version, asked, answer>>

Init ==
    /\ ebuild \in Versions /\ version \in Versions
    /\ asked = "none" /\ answer = "unasked"

Ask(s) ==
    /\ answer = "unasked"
    /\ asked' = s
    /\ answer' = IF Terminates(s, version, ebuild) THEN "terminate"
                 ELSE IF test_version(s, version, ebuild) THEN "yes" ELSE "no"
    /\ UNCHANGED <<ebuild, version>>

Next == \E s \in Selectors : Ask(s)

Spec == Init /\ [][Next]_vars

-----------------------------------------------------------------------------
Flip(order) ==
    IF order = "less" THEN "greater" ELSE IF order = "greater" THEN "less" ELSE order

\* Comparing the other way round yields the opposite, and a comparison that ends the
\* program does so in both directions.
Dual ==
    /\ Spaceship(version, ebuild) = Flip(Spaceship(ebuild, version))
    /\ Td(version, ebuild) = Flip(Td(ebuild, version))

AtMost(v, w) == Spaceship(v, w) \in {"less", "equal"}

\* The order is transitive although components are compared as integers or as
\* strings, depending on both of them, and although a letter ends the comparison.
Transitive ==
    answer = "unasked" /\ AtMost(ebuild, version) =>
        \A w \in Versions :
            AtMost(version, w) /\ Spaceship(ebuild, w) # "throw" =>
                IF Spaceship(ebuild, version) = "less" \/ Spaceship(version, w) = "less"
                THEN Spaceship(ebuild, w) = "less"
                ELSE Spaceship(ebuild, w) = "equal"

\* What an atom selects by one operator agrees with what it selects by the others:
\* = selects what neither < nor > does, and ~ selects what = does and, of the same
\* revision, nothing else, unless = ends the program.
SelectorsAgree ==
    LET chosen(s) == test_version(s, version, ebuild)
    IN  answer \in {"yes", "no"} =>
            /\ asked = "eq" => (answer = "yes" <=> ~chosen("lt") /\ ~chosen("gt"))
            /\ asked = "le" => (answer = "yes" <=> chosen("lt") \/ chosen("eq"))
            /\ asked = "ge" => (answer = "yes" <=> ~chosen("lt"))
            /\ asked = "td" /\ chosen("eq") => answer = "yes"
            /\ /\ asked = "td" /\ Revision(ebuild) = Revision(version)
               /\ ~Terminates("eq", version, ebuild)
               => (answer = "yes" => chosen("eq"))

\* compare_td is equality modulo the revision: it does not equate versions with
\* different suffixes.
EqualModuloRevision ==
    asked = "td" /\ answer = "yes" => ebuild.suffixes = version.suffixes
=============================================================================
