-------------------------- MODULE PackageUseProofs --------------------------
(***************************************************************************)
(* Proofs about PackageUse for every set of packages and flags, files of   *)
(* any length, and every order in which the sets may be iterated; about    *)
(* MakeDefaults for every set of words and any number of lines; and about  *)
(* UseFlags for every hierarchy without a cycle, all files and any IUSE.   *)
(***************************************************************************)
EXTENDS ProfileUse, SequenceTheorems, WellFoundedInduction, TLAPS

-----------------------------------------------------------------------------
(* Tokens                                                                  *)

\* A token is determined by its flag and its sign, and has one opposite.
LEMMA TokenFacts ==
    ASSUME NEW x \in Tokens
    PROVE  /\ Opposite(x) \in Tokens
           /\ Opposite(Opposite(x)) = x
           /\ Opposite(x) # x
           /\ Opposite(x).flag = x.flag
           /\ x.flag \in Flags \cup {Star}
           /\ x.sign \in {"+", "-"}
           /\ x = On(x.flag) \/ x = Off(x.flag)
           /\ x.sign = "-" => x = Off(x.flag)
           /\ x.sign # "-" => x = On(x.flag)
  BY DEF Tokens, Opposite, On, Off

\* The tokens foo and -foo, which lookups ask for.
LEMMA OnOffFacts ==
    ASSUME NEW f \in Flags \cup {Star}
    PROVE  /\ On(f) \in Tokens /\ Off(f) \in Tokens
           /\ Opposite(On(f)) = Off(f) /\ Opposite(Off(f)) = On(f)
           /\ On(f) # Off(f)
           /\ On(f).flag = f /\ Off(f).flag = f
           /\ On(f).sign = "+" /\ Off(f).sign = "-"
  BY DEF Tokens, Opposite, On, Off

\* A set holds no token together with its opposite.
Clean(set) == \A x \in set : Opposite(x) \notin set

\* package_use_inserter keeps a set clean.
LEMMA InsertClean ==
    ASSUME NEW set \in SUBSET Tokens, Clean(set), NEW x \in Tokens
    PROVE  Insert(set, x) \in SUBSET Tokens /\ Clean(Insert(set, x))
  BY TokenFacts DEF Insert, Clean

\* An iteration of the loop of combine_package_use_sets keeps a set clean.
LEMMA ElementClean ==
    ASSUME NEW set \in SUBSET Tokens, Clean(set), NEW x \in Tokens
    PROVE  /\ (set \ {Opposite(x)}) \cup {x} \in SUBSET Tokens
           /\ Clean((set \ {Opposite(x)}) \cup {x})
  BY TokenFacts DEF Clean

\* Consistent, set by set.
LEMMA ConsistentIsClean ==
    ASSUME TypeOK
    PROVE  Consistent <=> Clean(parsed) /\ \A p \in Packages : Clean(filters[p])
  BY DEF Consistent, Clean, TypeOK

-----------------------------------------------------------------------------
(* The loop of combine_package_use_sets, in any order                      *)

\* An iteration leaves what the rest of the loop will make of the set as it is.
LEMMA MergedElement ==
    ASSUME NEW set \in SUBSET Tokens, NEW added \in SUBSET Tokens, Clean(added),
           NEW x \in added
    PROVE  Merged((set \ {Opposite(x)}) \cup {x}, added \ {x}) = Merged(set, added)
<1> DEFINE new == (set \ {Opposite(x)}) \cup {x}
<1>1. x \in Tokens /\ Opposite(x) \notin added
  BY DEF Clean
<1>2. ASSUME NEW y \in Tokens
      PROVE  y \in Merged(new, added \ {x}) <=> y \in Merged(set, added)
  <2>1. Opposite(y) = x <=> y = Opposite(x)
    BY <1>1, TokenFacts
  <2> QED
    BY <1>1, <2>1 DEF Merged
<1>3. Merged(new, added \ {x}) \subseteq Tokens /\ Merged(set, added) \subseteq Tokens
  BY <1>1 DEF Merged
<1> QED
  BY <1>2, <1>3

\* A loop with nothing left to do, and a line without tokens, change nothing.
LEMMA MergedNothing ==
    ASSUME NEW set PROVE Merged(set, {}) = set /\ Combined(set, {}) = set
  BY DEF Merged, Combined

\* What is cleared in front of the loop is what the wildcard overrides.
Cleared(set, added) ==
    LET star == IF All \in added THEN {All} ELSE set
    IN  IF Nothing \in added THEN {Nothing} ELSE star

\* Clearing for a wildcard keeps a set clean.
LEMMA ClearedIsClean ==
    ASSUME NEW set \in SUBSET Tokens, Clean(set), NEW added \in SUBSET Tokens
    PROVE  Cleared(set, added) \in SUBSET Tokens /\ Clean(Cleared(set, added))
<1>1. All \in Tokens /\ Nothing \in Tokens
  BY OnOffFacts DEF All, Nothing
<1>2. Opposite(All) # All /\ Opposite(Nothing) # Nothing
  BY <1>1, TokenFacts
<1> QED
  BY <1>1, <1>2 DEF Cleared, Clean

\* The loop started on the cleared set makes what the whole combination makes.
LEMMA MergedCleared ==
    ASSUME NEW set \in SUBSET Tokens, NEW added \in SUBSET Tokens
    PROVE  Merged(Cleared(set, added), added) = Combined(set, added)
  BY DEF Cleared, Combined, Merged

-----------------------------------------------------------------------------
(* A token more on the line                                                *)

Verdict1(set, f) == algo_5_1_helper(set, f, "unset")

\* Membership in the combination, for the tokens a lookup of f asks about.
LEMMA InsertOther ==
    ASSUME NEW set \in SUBSET Tokens, NEW added \in SUBSET Tokens,
           NEW x \in Tokens, x.flag # Star,
           NEW y \in Tokens, y.flag # x.flag
    PROVE  y \in Combined(set, Insert(added, x)) <=> y \in Combined(set, added)
<1>1. /\ y # x /\ y # Opposite(x) /\ Opposite(y) # x /\ Opposite(y) # Opposite(x)
  BY TokenFacts
<1>2. /\ All # x /\ All # Opposite(x) /\ Nothing # x /\ Nothing # Opposite(x)
  BY TokenFacts, OnOffFacts DEF All, Nothing
<1>3. Insert(added, x) = (added \ {Opposite(x)}) \cup {x}
  BY DEF Insert
<1>4. {All, Nothing} \cap Insert(added, x) = {} <=> {All, Nothing} \cap added = {}
  BY <1>2, <1>3
<1> QED
  BY <1>1, <1>3, <1>4 DEF Combined, Merged

\* What a token more on the line changes in the verdicts: those it mentions.
LEMMA InsertVerdict ==
    ASSUME NEW set \in SUBSET Tokens, NEW added \in SUBSET Tokens,
           NEW x \in Tokens, NEW f \in Flags
    PROVE  Verdict1(Combined(set, Insert(added, x)), f) =
               IF x.flag \in {f, Star} THEN Reading!Says(x)
               ELSE Verdict1(Combined(set, added), f)
<1> DEFINE new == Combined(set, Insert(added, x))
<1>1. /\ On(f) \in Tokens /\ Off(f) \in Tokens /\ On(f) # Off(f)
      /\ On(f).flag = f /\ Off(f).flag = f /\ f # Star
  BY OnOffFacts, StarAssumption
<1>2. /\ All \in Tokens /\ Nothing \in Tokens /\ All # Nothing
      /\ All.flag = Star /\ Nothing.flag = Star
  BY OnOffFacts DEF All, Nothing
<1>3. CASE x.flag = Star
  <2>1. Insert(added, x) = {x}
    BY <1>3 DEF Insert
  <2>2. x = All \/ x = Nothing
    BY <1>3, TokenFacts DEF All, Nothing
  <2>3. new = {x}
    BY <2>1, <2>2 DEF Combined, Merged
  <2>4. On(f) \notin new /\ Off(f) \notin new
    BY <1>1, <1>3, <2>3
  <2>5. CASE x.sign = "-"
    BY <1>2, <1>3, <2>3, <2>4, <2>5, TokenFacts
    DEF Verdict1, algo_5_1_helper, Reading!Says, All, Nothing
  <2>6. CASE x.sign # "-"
    BY <1>2, <1>3, <2>3, <2>4, <2>6, TokenFacts
    DEF Verdict1, algo_5_1_helper, Reading!Says, All, Nothing
  <2> QED
    BY <2>5, <2>6
<1>4. CASE x.flag = f
  <2>1. Insert(added, x) = (added \ {Opposite(x)}) \cup {x}
    BY <1>1, <1>4 DEF Insert
  <2>2. Opposite(x) # x /\ Opposite(Opposite(x)) = x
    BY TokenFacts
  <2>3. x \in new /\ Opposite(x) \notin new
    BY <2>1, <2>2 DEF Combined, Merged
  <2>4. CASE x.sign = "-"
    <3>1. x = Off(f) /\ Opposite(x) = On(f)
      BY <1>4, <2>4, TokenFacts, OnOffFacts
    <3> QED
      BY <1>4, <2>3, <2>4, <3>1 DEF Verdict1, algo_5_1_helper, Reading!Says
  <2>5. CASE x.sign # "-"
    <3>1. x = On(f)
      BY <1>4, <2>5, TokenFacts
    <3> QED
      BY <1>4, <2>3, <2>5, <3>1 DEF Verdict1, algo_5_1_helper, Reading!Says
  <2> QED
    BY <2>4, <2>5
<1>5. CASE x.flag # f /\ x.flag # Star
  <2>1. \A y \in {On(f), Off(f), All, Nothing} :
            y \in new <=> y \in Combined(set, added)
    BY <1>1, <1>2, <1>5, InsertOther
  <2> QED
    BY <1>5, <2>1 DEF Verdict1, algo_5_1_helper
<1> QED
  BY <1>3, <1>4, <1>5

-----------------------------------------------------------------------------
(* The inductive invariant                                                 *)

IInv ==
    /\ TypeOK
    /\ Consistent
    /\ rest \subseteq parsed
    /\ stage # "combine" => rest = {}
    /\ stage = "combine" => package \notin targets

\* No file has been read: every set is empty.
LEMMA InitIInv == Init => IInv
<1>1. All \in Tokens
  BY OnOffFacts DEF All
<1> QED
  BY <1>1 DEF Init, IInv, TypeOK, Consistent, Stages

\* The sets a step changes are those of InsertClean, ClearedIsClean and
\* ElementClean.
LEMMA NextIInv == IInv /\ [Next]_vars => IInv'
<1> SUFFICES ASSUME IInv, [Next]_vars PROVE IInv'
  OBVIOUS
<1>1. /\ TypeOK /\ Clean(parsed) /\ \A p \in Packages : Clean(filters[p])
      /\ rest \subseteq parsed /\ parsed \in SUBSET Tokens
      /\ filters \in [Packages -> SUBSET Tokens]
  BY ConsistentIsClean DEF IInv, TypeOK
<1>2. TypeOK' /\ Clean(parsed') /\ (\A p \in Packages : Clean(filters'[p])) => Consistent'
  BY DEF Consistent, Clean, TypeOK
<1>3. CASE ReadLine
  BY <1>1, <1>2, <1>3 DEF ReadLine, IInv, TypeOK, Stages, Clean
<1>4. ASSUME NEW x \in Tokens, ParseToken(x) PROVE IInv'
  <2>1. parsed' \in SUBSET Tokens /\ Clean(parsed')
    BY <1>1, <1>4, InsertClean DEF ParseToken
  <2>2. TypeOK'
    BY <1>1, <1>4, <2>1 DEF ParseToken, TypeOK
  <2> QED
    BY <1>1, <1>2, <1>4, <2>1, <2>2 DEF ParseToken, IInv
<1>5. CASE Malformed \/ EndOfLine \/ EndCombine \/ EndOfTargets
  BY <1>1, <1>2, <1>5
  DEF Malformed, EndOfLine, EndCombine, EndOfTargets, IInv, TypeOK, Stages
<1>6. CASE StartCombine
  <2>1. package' \in Packages /\ package' \in targets
    BY <1>1, <1>6 DEF StartCombine, TypeOK
  <2>2. filters' = [filters EXCEPT ![package'] = Cleared(filters[package'], parsed)]
    BY <1>6 DEF StartCombine, Cleared
  <2>3. /\ Cleared(filters[package'], parsed) \in SUBSET Tokens
        /\ Clean(Cleared(filters[package'], parsed))
    BY <1>1, <2>1, ClearedIsClean
  <2>4. /\ filters' \in [Packages -> SUBSET Tokens]
        /\ \A p \in Packages : Clean(filters'[p])
    BY <1>1, <2>1, <2>2, <2>3
  <2>5. TypeOK'
    BY <1>1, <1>6, <2>1, <2>4 DEF StartCombine, TypeOK, Stages
  <2> QED
    BY <1>1, <1>2, <1>6, <2>1, <2>4, <2>5 DEF StartCombine, IInv
<1>7. CASE CombineElement
  <2>1. PICK x \in rest :
            /\ filters' = [filters EXCEPT ![package] = (@ \ {Opposite(x)}) \cup {x}]
            /\ rest' = rest \ {x}
    BY <1>7 DEF CombineElement
  <2>2. x \in Tokens /\ package \in Packages
    BY <1>1, <2>1 DEF TypeOK
  <2>3. /\ (filters[package] \ {Opposite(x)}) \cup {x} \in SUBSET Tokens
        /\ Clean((filters[package] \ {Opposite(x)}) \cup {x})
    BY <1>1, <2>2, ElementClean
  <2>4. /\ filters' \in [Packages -> SUBSET Tokens]
        /\ \A p \in Packages : Clean(filters'[p])
    BY <1>1, <2>1, <2>2, <2>3
  <2>5. TypeOK'
    BY <1>1, <1>7, <2>1, <2>4 DEF CombineElement, TypeOK
  <2> QED
    BY <1>1, <1>2, <1>7, <2>1, <2>4, <2>5 DEF CombineElement, IInv
<1>8. CASE UNCHANGED vars
  BY <1>1, <1>2, <1>8 DEF vars, IInv, TypeOK
<1> QED
  BY <1>3, <1>4, <1>5, <1>6, <1>7, <1>8 DEF Next

\* Every variable keeps its type, however long the file is.
THEOREM TypeCorrect == Spec => []TypeOK
<1>1. IInv => TypeOK
  BY DEF IInv
<1> QED
  BY InitIInv, NextIInv, <1>1, PTL DEF Spec

\* No set ever holds a token and its opposite: what algo_5_1_helper answers
\* never depends on which of the two it looks for first.
THEOREM ConsistentAlways == Spec => []Consistent
<1>1. IInv => Consistent
  BY DEF IInv
<1> QED
  BY InitIInv, NextIInv, <1>1, PTL DEF Spec

-----------------------------------------------------------------------------
(* The implementation of UseVerdict                                        *)

\* Before a file is read, no set says anything.
LEMMA InitVerdict == Init => Reading!Init
<1> SUFFICES ASSUME Init PROVE Reading!Init
  OBVIOUS
<1>1. ASSUME NEW p \in Packages, NEW f \in Flags
      PROVE  algo_5_1_helper(Effective(p), f, "unset") = "unset"
  <2>1. Effective(p) = {}
    BY DEF Init, Effective
  <2> QED
    BY <2>1 DEF algo_5_1_helper
<1>2. Verdict = [p \in Packages |-> [f \in Flags |-> "unset"]]
  BY <1>1 DEF Verdict
<1>3. latest \in [targets : SUBSET Packages, token : Tokens]
  BY OnOffFacts DEF Init, All
<1> QED
  BY <1>2, <1>3 DEF Init, Reading!Init, Reading!Tokens, Tokens

\* A parsed token decides about its flag for the packages of its line.
LEMMA ParseReads ==
    ASSUME IInv, NEW x \in Tokens, ParseToken(x)
    PROVE  Reading!Next
<1>1. /\ latest' = [targets |-> targets, token |-> x]
      /\ read' = read + 1
      /\ latest' \in [targets : SUBSET Packages, token : Tokens]
  BY DEF ParseToken, IInv, TypeOK
<1>2. ASSUME NEW p \in Packages, NEW f \in Flags
      PROVE  Verdict'[p][f] =
                 IF p \in targets /\ x.flag \in {f, Star} THEN Reading!Says(x)
                 ELSE Verdict[p][f]
  <2>1. filters[p] \in SUBSET Tokens /\ parsed \in SUBSET Tokens
    BY DEF IInv, TypeOK
  <2>2. /\ Verdict[p][f] = Verdict1(Effective(p), f)
        /\ Verdict'[p][f] = Verdict1(Effective(p)', f)
    BY DEF Verdict, Verdict1
  <2>3. CASE p \in targets
    <3>1. /\ Effective(p) = Combined(filters[p], parsed)
          /\ Effective(p)' = Combined(filters[p], Insert(parsed, x))
      BY <2>3 DEF ParseToken, Effective
    <3> QED
      BY <2>1, <2>2, <2>3, <3>1, InsertVerdict
  <2>4. CASE p \notin targets
    <3>1. Effective(p)' = Effective(p)
      BY <2>4 DEF ParseToken, Effective
    <3> QED
      BY <2>2, <2>4, <3>1
  <2> QED
    BY <2>3, <2>4
<1>3. Verdict' = [p \in Packages |-> [f \in Flags |->
                    IF p \in latest'.targets /\ latest'.token.flag \in {f, Star}
                    THEN Reading!Says(latest'.token)
                    ELSE Verdict[p][f]]]
  BY <1>1, <1>2 DEF Verdict
<1>4. Reading!Read(latest')
  BY <1>1, <1>3 DEF Reading!Read
<1> QED
  BY <1>1, <1>4 DEF Reading!Next, Reading!Tokens, Tokens

\* Every other step leaves the effective set of every package alone: the loop,
\* in whatever order it runs, only carries out what the line already says.
LEMMA EffectiveStays ==
    ASSUME IInv, [Next]_vars, \A x \in Tokens : ~ParseToken(x)
    PROVE  \A p \in Packages : Effective(p)' = Effective(p)
<1>1. /\ filters \in [Packages -> SUBSET Tokens] /\ parsed \in SUBSET Tokens
      /\ package \in Packages /\ targets \in SUBSET Packages
      /\ rest \in SUBSET Tokens
      /\ Clean(rest)
  BY ConsistentIsClean DEF IInv, TypeOK, Clean
<1>2. ASSUME NEW p \in Packages PROVE Effective(p)' = Effective(p)
  <2>1. CASE ReadLine
    <3>1. Effective(p) = filters[p]
      BY <2>1 DEF ReadLine, Effective
    <3>2. Effective(p)' = filters[p]
      BY <2>1, MergedNothing DEF ReadLine, Effective
    <3> QED
      BY <3>1, <3>2
  <2>2. CASE Malformed \/ EndOfLine
    BY <2>2 DEF Malformed, EndOfLine, Effective
  <2>3. CASE StartCombine
    <3>1. /\ package' \in Packages /\ package' \in targets
          /\ targets' = targets \ {package'}
          /\ filters' = [filters EXCEPT ![package'] = Cleared(filters[package'], parsed)]
          /\ rest' = parsed /\ parsed' = parsed
          /\ stage = "expand" /\ stage' = "combine"
      BY <1>1, <2>3 DEF StartCombine, Cleared
    <3>2. CASE p = package'
      <4>1. Effective(p) = Combined(filters[p], parsed)
        BY <3>1, <3>2 DEF Effective
      <4>2. Effective(p)' = Merged(Cleared(filters[p], parsed), parsed)
        BY <1>1, <3>1, <3>2 DEF Effective
      <4> QED
        BY <1>1, <4>1, <4>2, MergedCleared
    <3>3. CASE p # package'
      <4>1. filters'[p] = filters[p] /\ (p \in targets' <=> p \in targets)
        BY <1>1, <3>1, <3>3
      <4> QED
        BY <3>1, <3>3, <4>1 DEF Effective
    <3> QED
      BY <3>2, <3>3
  <2>4. CASE CombineElement
    <3>1. PICK x \in rest :
              /\ filters' = [filters EXCEPT ![package] = (@ \ {Opposite(x)}) \cup {x}]
              /\ rest' = rest \ {x}
      BY <2>4 DEF CombineElement
    <3>2. /\ stage = "combine" /\ stage' = "combine" /\ targets' = targets
          /\ package' = package /\ parsed' = parsed /\ package \notin targets
      BY <2>4 DEF CombineElement, IInv
    <3>3. CASE p = package
      <4>1. Effective(p) = Merged(filters[p], rest)
        BY <3>2, <3>3 DEF Effective
      <4>2. Effective(p)' = Merged((filters[p] \ {Opposite(x)}) \cup {x}, rest \ {x})
        BY <1>1, <3>1, <3>2, <3>3 DEF Effective
      <4> QED
        BY <1>1, <4>1, <4>2, MergedElement
    <3>4. CASE p # package
      <4>1. filters'[p] = filters[p]
        BY <1>1, <3>1, <3>4
      <4> QED
        BY <3>2, <3>4, <4>1 DEF Effective
    <3> QED
      BY <3>3, <3>4
  <2>5. CASE EndCombine
    <3>1. /\ stage = "combine" /\ stage' = "expand" /\ rest = {}
          /\ filters' = filters /\ targets' = targets /\ parsed' = parsed
          /\ package' = package /\ package \notin targets
      BY <2>5 DEF EndCombine, IInv
    <3> QED
      BY <3>1, MergedNothing DEF Effective
  <2>6. CASE EndOfTargets
    BY <2>6 DEF EndOfTargets, Effective
  <2>7. CASE UNCHANGED vars
    BY <2>7 DEF vars, Effective
  <2> QED
    BY <2>1, <2>2, <2>3, <2>4, <2>5, <2>6, <2>7 DEF Next
<1> QED
  BY <1>2

LEMMA OthersStutter ==
    ASSUME IInv, [Next]_vars, \A x \in Tokens : ~ParseToken(x)
    PROVE  UNCHANGED Reading!vars
<1>1. \A p \in Packages : Effective(p)' = Effective(p)
  BY EffectiveStays
<1>2. Verdict' = Verdict
  BY <1>1 DEF Verdict
<1>3. read' = read /\ latest' = latest
  BY DEF Next, ReadLine, Malformed, EndOfLine, StartCombine, CombineElement,
         EndCombine, EndOfTargets, vars
<1> QED
  BY <1>2, <1>3 DEF Reading!vars

\* init_package_use_impl implements UseVerdict: whatever the iteration orders,
\* the sets decide about each flag of each package as the last token of the
\* file that mentions it.
THEOREM Refinement == Spec => ImplementsReading
<1>1. IInv /\ [Next]_vars => [Reading!Next]_(Reading!vars)
  BY ParseReads, OthersStutter
<1> QED
  BY InitVerdict, InitIInv, NextIInv, <1>1, PTL DEF Spec, ImplementsReading, Reading!Spec

-----------------------------------------------------------------------------
(* Sequences                                                               *)

\* A set of natural numbers that is not empty has a least member.
LEMMA Least ==
    ASSUME NEW S, S \subseteq Nat, S # {}
    PROVE  \E m \in S : \A k \in S : m <= k
<1>1. PICK m \in S : \A k \in S : ~(<<k, m>> \in OpToRel(<, Nat))
  BY NatLessThanWellFounded, WFMin
<1>2. \A k \in S : ~(k < m)
  BY <1>1 DEF OpToRel
<1> QED
  BY <1>2

\* f holds what the first sequences of ss amount to, for all their numbers up to n.
Sums(T, ss, n, f) ==
    /\ f \in [1 .. n -> Seq(T)]
    /\ \A i \in 1 .. n : f[i] = IF i = 1 THEN ss[i] ELSE f[i - 1] \o ss[i]

LEMMA SumsExist ==
    ASSUME NEW T, NEW ss \in Seq(Seq(T))
    PROVE  \E f : Sums(T, ss, Len(ss), f)
<1>1. PICK n \in Nat : n = Len(ss)
  OBVIOUS
<1>2. \A i \in 1 .. n : ss[i] \in Seq(T)
  BY <1>1
<1>3. PICK odd : odd = {m \in 0 .. n : ~\E f : Sums(T, ss, m, f)}
  OBVIOUS
<1>4. ASSUME odd # {} PROVE FALSE
  <2>1. odd \subseteq Nat
    BY <1>3
  <2>2. PICK m \in odd : \A k \in odd : m <= k
    BY <1>4, <2>1, Least
  <2>3. m \in 0 .. n /\ ~\E f : Sums(T, ss, m, f)
    BY <1>3
  <2>4. m # 0
    <3>1. PICK f : f = [i \in 1 .. 0 |-> <<>>]
      OBVIOUS
    <3>2. Sums(T, ss, 0, f)
      BY <3>1 DEF Sums
    <3> QED
      BY <2>3, <3>2
  <2>5. m - 1 \in 0 .. n /\ m - 1 \notin odd /\ m \in 1 .. n
    BY <2>2, <2>3, <2>4
  <2>6. PICK f : Sums(T, ss, m - 1, f)
    BY <1>3, <2>5
  <2>7. PICK last : last = IF m = 1 THEN ss[m] ELSE f[m - 1] \o ss[m]
    OBVIOUS
  <2>8. last \in Seq(T)
    <3>1. m # 1 => f[m - 1] \in Seq(T)
      BY <2>3, <2>4, <2>6 DEF Sums
    <3>2. ss[m] \in Seq(T)
      BY <1>2, <2>5
    <3> QED
      BY <2>7, <3>1, <3>2
  <2>9. PICK g : g = [i \in 1 .. m |-> IF i = m THEN last ELSE f[i]]
    OBVIOUS
  <2>10. \A i \in 1 .. m : i # m => i \in 1 .. m - 1 /\ i \in 1 .. m
    BY <2>3
  <2>11. g \in [1 .. m -> Seq(T)]
    BY <2>6, <2>8, <2>9, <2>10 DEF Sums
  <2>12. ASSUME NEW i \in 1 .. m
         PROVE  g[i] = IF i = 1 THEN ss[i] ELSE g[i - 1] \o ss[i]
    <3>1. i # 1 => i - 1 \in 1 .. m /\ i - 1 # m /\ g[i - 1] = f[i - 1]
      BY <2>3, <2>9
    <3>2. CASE i = m
      BY <2>7, <2>9, <3>1, <3>2
    <3>3. CASE i # m
      BY <2>6, <2>9, <2>10, <3>1, <3>3 DEF Sums
    <3> QED
      BY <3>2, <3>3
  <2>13. Sums(T, ss, m, g)
    BY <2>11, <2>12 DEF Sums
  <2> QED
    BY <2>3, <2>13
<1>5. n \in 0 .. n
  BY <1>1
<1> QED
  BY <1>1, <1>3, <1>4, <1>5

LEMMA FlattenIsSum ==
    ASSUME NEW T, NEW ss \in Seq(Seq(T)), ss # <<>>
    PROVE  \E f : Sums(T, ss, Len(ss), f) /\ Evaluating!FlattenSeq(ss) = f[Len(ss)]
<1>1. PICK n \in Nat : n = Len(ss) /\ n # 0
  OBVIOUS
<1>2. PICK f : Sums(T, ss, n, f)
  BY <1>1, SumsExist
<1>3. f = [i \in 1 .. n |-> IF i = 1 THEN ss[i] ELSE f[i - 1] \o ss[i]]
  BY <1>2 DEF Sums
<1>4. PICK g : g = CHOOSE h : h = [i \in 1 .. n |-> IF i = 1 THEN ss[i] ELSE h[i - 1] \o ss[i]]
  OBVIOUS
<1>5. g = [i \in 1 .. n |-> IF i = 1 THEN ss[i] ELSE g[i - 1] \o ss[i]]
  BY <1>3, <1>4
<1>6. Evaluating!FlattenSeq(ss) = g[n]
  BY <1>1, <1>4 DEF Evaluating!FlattenSeq
<1>7. ASSUME NEW k \in 1 .. n, g[k] # f[k] PROVE FALSE
  <2>1. PICK odd : odd = {i \in 1 .. n : g[i] # f[i]}
    OBVIOUS
  <2>2. odd \subseteq Nat /\ odd # {}
    BY <1>7, <2>1
  <2>3. PICK i \in odd : \A j \in odd : i <= j
    BY <2>2, Least
  <2>4. i \in 1 .. n /\ g[i] # f[i]
    BY <2>1, <2>3
  <2>5. i # 1
    BY <1>3, <1>5, <2>4
  <2>6. i - 1 \in 1 .. n /\ i - 1 \notin odd
    BY <2>2, <2>3, <2>4, <2>5
  <2>7. g[i - 1] = f[i - 1]
    BY <2>1, <2>6
  <2>8. g[i] = g[i - 1] \o ss[i]
    BY <1>5, <2>4, <2>5
  <2>9. f[i] = f[i - 1] \o ss[i]
    BY <1>3, <2>4, <2>5
  <2> QED
    BY <2>4, <2>7, <2>8, <2>9
<1>8. g[n] = f[n]
  BY <1>1, <1>7
<1> QED
  BY <1>1, <1>2, <1>6, <1>8

LEMMA FlattenNothing == Evaluating!FlattenSeq(<<>>) = <<>>
  BY DEF Evaluating!FlattenSeq

\* One sequence more.
LEMMA FlattenAppend ==
    ASSUME NEW T, NEW ss \in Seq(Seq(T)), NEW s \in Seq(T)
    PROVE  /\ Evaluating!FlattenSeq(ss) \in Seq(T)
           /\ Evaluating!FlattenSeq(Append(ss, s)) = Evaluating!FlattenSeq(ss) \o s
<1>1. PICK n \in Nat : n = Len(ss)
  OBVIOUS
<1>2. PICK tt : tt = Append(ss, s)
  OBVIOUS
<1>3. /\ tt \in Seq(Seq(T)) /\ tt # <<>> /\ Len(tt) = n + 1
      /\ tt[n + 1] = s /\ \A i \in 1 .. n : tt[i] = ss[i]
  BY <1>1, <1>2
<1>4. PICK g : Sums(T, tt, n + 1, g) /\ Evaluating!FlattenSeq(tt) = g[n + 1]
  BY <1>3, FlattenIsSum
<1>5. n + 1 \in 1 .. n + 1 /\ (n + 1) - 1 = n
  OBVIOUS
<1>6. CASE n = 0
  <2>1. ss = <<>>
    BY <1>1, <1>6, EmptySeq
  <2>2. g[n + 1] = s
    BY <1>3, <1>4, <1>5, <1>6 DEF Sums
  <2>3. <<>> \in Seq(T) /\ <<>> \o s = s
    OBVIOUS
  <2> QED
    BY <1>2, <1>4, <2>1, <2>2, <2>3, FlattenNothing
<1>7. CASE n # 0
  <2>1. PICK f : Sums(T, ss, n, f) /\ Evaluating!FlattenSeq(ss) = f[n]
    <3>1. ss # <<>>
      BY <1>1, <1>7
    <3> QED
      BY <1>1, <3>1, FlattenIsSum
  <2>2. ASSUME NEW k \in 1 .. n, f[k] # g[k] PROVE FALSE
    <3>1. PICK odd : odd = {i \in 1 .. n : f[i] # g[i]}
      OBVIOUS
    <3>2. odd \subseteq Nat /\ odd # {}
      BY <2>2, <3>1
    <3>3. PICK i \in odd : \A j \in odd : i <= j
      BY <3>2, Least
    <3>4. i \in 1 .. n /\ i \in 1 .. n + 1 /\ f[i] # g[i] /\ tt[i] = ss[i]
      BY <1>3, <3>1, <3>3
    <3>5. /\ f[i] = IF i = 1 THEN ss[i] ELSE f[i - 1] \o ss[i]
          /\ g[i] = IF i = 1 THEN ss[i] ELSE g[i - 1] \o ss[i]
      BY <1>4, <2>1, <3>4 DEF Sums
    <3>6. i # 1
      BY <3>4, <3>5
    <3>7. i - 1 \in 1 .. n /\ i - 1 \notin odd
      BY <3>2, <3>3, <3>4, <3>6
    <3>8. f[i - 1] = g[i - 1]
      BY <3>1, <3>7
    <3> QED
      BY <3>4, <3>5, <3>6, <3>8
  <2>3. f[n] = g[n]
    BY <1>7, <2>2
  <2>4. g[n + 1] = g[n] \o s
    <3>1. n + 1 # 1
      BY <1>7
    <3>2. g[n + 1] = g[(n + 1) - 1] \o tt[n + 1]
      BY <1>4, <1>5, <3>1 DEF Sums
    <3> QED
      BY <1>3, <1>5, <3>2
  <2>5. f[n] \in Seq(T)
    BY <1>7, <2>1 DEF Sums
  <2> QED
    BY <1>2, <1>4, <2>1, <2>3, <2>4, <2>5
<1> QED
  BY <1>6, <1>7

\* Flattening one sequence more, where the sequences are given by a function.
LEMMA FlattenOneMore ==
    ASSUME NEW T, NEW n \in Nat, NEW h, \A i \in 1 .. n + 1 : h[i] \in Seq(T)
    PROVE  /\ Evaluating!FlattenSeq([i \in 1 .. n |-> h[i]]) \in Seq(T)
           /\ Evaluating!FlattenSeq([i \in 1 .. n + 1 |-> h[i]])
                = Evaluating!FlattenSeq([i \in 1 .. n |-> h[i]]) \o h[n + 1]
<1>1. PICK ss, tt : ss = [i \in 1 .. n |-> h[i]] /\ tt = [i \in 1 .. n + 1 |-> h[i]]
  OBVIOUS
<1>2. PICK S : S = Seq(T)
  OBVIOUS
<1>3. ss \in Seq(S) /\ Len(ss) = n /\ \A i \in 1 .. n : ss[i] = h[i]
  BY <1>1, <1>2
<1>4. tt \in Seq(S) /\ Len(tt) = n + 1 /\ \A i \in 1 .. n + 1 : tt[i] = h[i]
  BY <1>1, <1>2
<1>5. h[n + 1] \in S
  BY <1>2
<1>6. PICK uu : uu = Append(ss, h[n + 1])
  OBVIOUS
<1>7. uu \in Seq(S) /\ Len(uu) = n + 1 /\ uu[n + 1] = h[n + 1] /\ \A i \in 1 .. n : uu[i] = ss[i]
  BY <1>3, <1>5, <1>6
<1>8. \A i \in 1 .. n + 1 : uu[i] = tt[i]
  <2>1. \A i \in 1 .. n + 1 : i = n + 1 \/ i \in 1 .. n
    OBVIOUS
  <2> QED
    BY <1>3, <1>4, <1>7, <2>1
<1>9. uu = tt
  BY <1>4, <1>7, <1>8, SeqEqual
<1>10. ss \in Seq(Seq(T)) /\ h[n + 1] \in Seq(T)
  BY <1>2, <1>3
<1>11. /\ Evaluating!FlattenSeq(ss) \in Seq(T)
       /\ Evaluating!FlattenSeq(Append(ss, h[n + 1])) = Evaluating!FlattenSeq(ss) \o h[n + 1]
  BY <1>10, FlattenAppend
<1> QED
  BY <1>1, <1>6, <1>9, <1>11

-----------------------------------------------------------------------------
(* The texts of make.defaults                                              *)

Texts == Seq(Words \cup Evaluating!Spaces)

\* What an element's name is.
LEMMA ElementNames ==
    ASSUME NEW elem \in Evaluating!Elements
    PROVE  /\ elem.name \in Words \cup Evaluating!Spaces
           /\ elem.kind = "word" => elem.name \in Words
  BY DEF Evaluating!Elements

\* A text that is accepted, its elements one by one.
LEMMA AcceptableIs ==
    ASSUME NEW text \in Texts
    PROVE  Acceptable(text) <=>
               Evaluating!Spaced(text) /\ \A i \in 1 .. Len(text) : text[i] \notin Invalid
<1>1. ToSet(text) = {text[i] : i \in 1 .. Len(text)}
  BY DEF Texts, ToSet
<1> QED
  BY <1>1 DEF Acceptable

LEMMA NothingIsAcceptable == <<>> \in Texts /\ Acceptable(<<>>)
<1>1. <<>> \in Texts /\ \A i \in 1 .. Len(<<>>) : FALSE
  BY DEF Texts
<1> QED
  BY <1>1, AcceptableIs DEF Evaluating!Spaced

\* Two texts with a blank between them, element by element.
LEMMA Together ==
    ASSUME NEW s \in Texts, NEW t \in Texts
    PROVE  /\ s \o <<Blank>> \o t \in Texts
           /\ s \o <<Blank>> \o t # <<>>
           /\ Len(s \o <<Blank>> \o t) = Len(s) + 1 + Len(t)
           /\ \A i \in 1 .. Len(s) : (s \o <<Blank>> \o t)[i] = s[i]
           /\ (s \o <<Blank>> \o t)[Len(s) + 1] = Blank
           /\ \A i \in 1 .. Len(t) : (s \o <<Blank>> \o t)[Len(s) + 1 + i] = t[i]
<1>1. PICK S : S = Words \cup Evaluating!Spaces
  OBVIOUS
<1>2. Blank \in S
  BY <1>1 DEF Evaluating!Spaces
<1>3. s \in Seq(S) /\ t \in Seq(S)
  BY <1>1 DEF Texts
<1>4. PICK u : u = s \o <<Blank>> \o t
  OBVIOUS
<1>5. /\ u \in Seq(S) /\ Len(u) = Len(s) + 1 + Len(t)
      /\ \A i \in 1 .. Len(s) : u[i] = s[i]
      /\ u[Len(s) + 1] = Blank
      /\ \A i \in 1 .. Len(t) : u[Len(s) + 1 + i] = t[i]
  BY <1>2, <1>3, <1>4
<1>6. u # <<>>
  BY <1>3, <1>5
<1> QED
  BY <1>1, <1>4, <1>5, <1>6 DEF Texts

\* It is accepted exactly if both are.
LEMMA AcceptableTogether ==
    ASSUME NEW s \in Texts, NEW t \in Texts, s # <<>>, t # <<>>
    PROVE  Acceptable(s \o <<Blank>> \o t) <=> Acceptable(s) /\ Acceptable(t)
<1>1. PICK m \in Nat, n \in Nat : m = Len(s) /\ n = Len(t) /\ m > 0 /\ n > 0
  BY DEF Texts
<1>2. PICK u \in Texts :
          /\ u = s \o <<Blank>> \o t /\ Len(u) = m + 1 + n
          /\ \A i \in 1 .. m : u[i] = s[i]
          /\ u[m + 1] = Blank
          /\ \A i \in 1 .. n : u[m + 1 + i] = t[i]
  BY <1>1, Together
<1>3. Blank \in Evaluating!Spaces /\ Blank \notin Invalid
  BY ProfileAssumption, UseAssumption DEF Evaluating!Spaces
<1>4. \A i \in 1 .. m + 1 + n : i \in 1 .. m \/ i = m + 1 \/ \E j \in 1 .. n : i = m + 1 + j
  <2> SUFFICES ASSUME NEW i \in 1 .. m + 1 + n, i \notin 1 .. m, i # m + 1
               PROVE  \E j \in 1 .. n : i = m + 1 + j
    OBVIOUS
  <2>1. i - m - 1 \in 1 .. n /\ i = m + 1 + (i - m - 1)
    OBVIOUS
  <2> QED
    BY <2>1
<1>5. (\A i \in 1 .. m + 1 + n : u[i] \notin Invalid)
        <=> (\A i \in 1 .. m : s[i] \notin Invalid) /\ (\A i \in 1 .. n : t[i] \notin Invalid)
  <2>1. (\A i \in 1 .. m : i \in 1 .. m + 1 + n) /\ \A j \in 1 .. n : m + 1 + j \in 1 .. m + 1 + n
    OBVIOUS
  <2> QED
    BY <1>2, <1>3, <1>4, <2>1
<1>6. Evaluating!Spaced(u) => Evaluating!Spaced(s)
  <2> SUFFICES ASSUME Evaluating!Spaced(u), NEW i \in 1 .. m, s[i] \in Evaluating!Spaces
               PROVE  s[i] = Blank /\ 1 < i /\ i < m /\ s[i + 1] \notin Evaluating!Spaces
    BY <1>1 DEF Evaluating!Spaced
  <2>1. i \in 1 .. m + 1 + n /\ u[i] = s[i]
    BY <1>2
  <2>2. u[i] = Blank /\ 1 < i /\ u[i + 1] \notin Evaluating!Spaces
    BY <1>2, <2>1 DEF Evaluating!Spaced
  <2>3. i # m
    BY <1>2, <1>3, <2>2
  <2>4. i < m /\ i + 1 \in 1 .. m
    BY <2>3
  <2>5. u[i + 1] = s[i + 1]
    BY <1>2, <2>4
  <2> QED
    BY <2>1, <2>2, <2>4, <2>5
<1>7. Evaluating!Spaced(u) => Evaluating!Spaced(t)
  <2> SUFFICES ASSUME Evaluating!Spaced(u), NEW j \in 1 .. n, t[j] \in Evaluating!Spaces
               PROVE  t[j] = Blank /\ 1 < j /\ j < n /\ t[j + 1] \notin Evaluating!Spaces
    BY <1>1 DEF Evaluating!Spaced
  <2>1. PICK i \in 1 .. m + 1 + n : i = m + 1 + j /\ u[i] = t[j]
    <3>1. m + 1 + j \in 1 .. m + 1 + n
      OBVIOUS
    <3> QED
      BY <1>2, <3>1
  <2>2. u[i] = Blank /\ i < m + 1 + n /\ u[i + 1] \notin Evaluating!Spaces
    BY <1>2, <2>1 DEF Evaluating!Spaced
  <2>3. j < n /\ j + 1 \in 1 .. n /\ i + 1 = m + 1 + (j + 1)
    BY <2>1, <2>2
  <2>4. u[i + 1] = t[j + 1]
    BY <1>2, <2>3
  <2>5. j # 1
    <3> SUFFICES ASSUME j = 1 PROVE FALSE
      OBVIOUS
    <3>1. m + 1 \in 1 .. m + 1 + n /\ (m + 1) + 1 = i
      BY <2>1
    <3>2. u[i] \notin Evaluating!Spaces
      BY <1>2, <1>3, <3>1 DEF Evaluating!Spaced
    <3> QED
      BY <2>1, <3>2
  <2> QED
    BY <2>1, <2>2, <2>3, <2>4, <2>5
<1>8. Evaluating!Spaced(s) /\ Evaluating!Spaced(t) => Evaluating!Spaced(u)
  <2> SUFFICES ASSUME Evaluating!Spaced(s), Evaluating!Spaced(t),
                      NEW i \in 1 .. m + 1 + n, u[i] \in Evaluating!Spaces
               PROVE  /\ u[i] = Blank /\ 1 < i /\ i < m + 1 + n
                      /\ u[i + 1] \notin Evaluating!Spaces
    BY <1>2 DEF Evaluating!Spaced
  <2>1. CASE i \in 1 .. m
    <3>1. u[i] = s[i]
      BY <1>2, <2>1
    <3>2. s[i] = Blank /\ 1 < i /\ i < m /\ s[i + 1] \notin Evaluating!Spaces
      BY <1>1, <2>1, <3>1 DEF Evaluating!Spaced
    <3>3. i + 1 \in 1 .. m /\ i < m + 1 + n
      BY <3>2
    <3>4. u[i + 1] = s[i + 1]
      BY <1>2, <3>3
    <3> QED
      BY <3>1, <3>2, <3>3, <3>4
  <2>2. CASE i = m + 1
    <3>1. 1 \in 1 .. n /\ i + 1 = m + 1 + 1 /\ 1 < i /\ i < m + 1 + n
      BY <1>1, <2>2
    <3>2. u[i + 1] = t[1]
      BY <1>2, <3>1
    <3>3. t[1] \notin Evaluating!Spaces
      BY <1>1, <3>1 DEF Evaluating!Spaced
    <3> QED
      BY <1>2, <2>2, <3>1, <3>2, <3>3
  <2>3. ASSUME NEW j \in 1 .. n, i = m + 1 + j
        PROVE  u[i] = Blank /\ 1 < i /\ i < m + 1 + n /\ u[i + 1] \notin Evaluating!Spaces
    <3>1. u[i] = t[j]
      BY <1>2, <2>3
    <3>2. t[j] = Blank /\ 1 < j /\ j < n /\ t[j + 1] \notin Evaluating!Spaces
      BY <1>1, <3>1 DEF Evaluating!Spaced
    <3>3. j + 1 \in 1 .. n /\ i + 1 = m + 1 + (j + 1) /\ 1 < i /\ i < m + 1 + n
      BY <2>3, <3>2
    <3>4. u[i + 1] = t[j + 1]
      BY <1>2, <3>3
    <3> QED
      BY <3>1, <3>2, <3>3, <3>4
  <2> QED
    BY <1>4, <2>1, <2>2, <2>3
<1> QED
  BY <1>1, <1>2, <1>5, <1>6, <1>7, <1>8, AcceptableIs

LEMMA JoinedShape ==
    ASSUME NEW words \in Seq(Words)
    PROVE  /\ Evaluating!Joined(words) \in Texts
           /\ words = <<>> => Evaluating!Joined(words) = <<>>
           /\ words # <<>> =>
                  /\ Evaluating!Joined(words) # <<>>
                  /\ Len(Evaluating!Joined(words)) = 2 * Len(words) - 1
                  /\ \A i \in 1 .. 2 * Len(words) - 1 :
                         Evaluating!Joined(words)[i]
                            = IF i % 2 = 1 THEN words[(i + 1) \div 2] ELSE Blank
<1>1. PICK n \in Nat : n = Len(words)
  OBVIOUS
<1>2. PICK u : u = Evaluating!Joined(words)
  OBVIOUS
<1>3. u = [i \in 1 .. 2 * n - 1 |-> IF i % 2 = 1 THEN words[(i + 1) \div 2] ELSE Blank]
  BY <1>1, <1>2 DEF Evaluating!Joined
<1>4. CASE words = <<>>
  <2>1. n = 0
    BY <1>1, <1>4
  <2>2. 1 .. 2 * n - 1 = {}
    BY <2>1
  <2>3. u = <<>>
    BY <1>3, <2>2
  <2> QED
    BY <1>2, <1>4, <2>3, NothingIsAcceptable
<1>5. CASE words # <<>>
  <2>1. n # 0
    BY <1>1, <1>5
  <2>2. 2 * n - 1 \in Nat /\ 2 * n - 1 > 0
    BY <2>1
  <2>3. \A i \in 1 .. 2 * n - 1 : (i + 1) \div 2 \in 1 .. n
    BY <1>1
  <2>4. \A i \in 1 .. n : words[i] \in Words
    BY <1>1
  <2>5. \A i \in 1 .. 2 * n - 1 : u[i] \in Words \cup Evaluating!Spaces
    BY <1>3, <2>3, <2>4 DEF Evaluating!Spaces
  <2>6. u \in Texts /\ Len(u) = 2 * n - 1
    BY <1>3, <2>2, <2>5 DEF Texts
  <2>7. u # <<>>
    BY <2>2, <2>6
  <2> QED
    BY <1>1, <1>2, <1>3, <1>5, <2>6, <2>7
<1> QED
  BY <1>4, <1>5

\* Joined words are spaced.
LEMMA JoinedSpaced ==
    ASSUME NEW words \in Seq(Words)
    PROVE  Evaluating!Spaced(Evaluating!Joined(words))
<1>1. CASE words = <<>>
  BY <1>1, JoinedShape, NothingIsAcceptable DEF Acceptable
<1>2. CASE words # <<>>
  <2>1. PICK n \in Nat : n = Len(words) /\ n > 0
    BY <1>2
  <2>2. PICK u \in Texts :
            /\ u = Evaluating!Joined(words) /\ Len(u) = 2 * n - 1
            /\ \A i \in 1 .. 2 * n - 1 :
                   u[i] = IF i % 2 = 1 THEN words[(i + 1) \div 2] ELSE Blank
    BY <1>2, <2>1, JoinedShape
  <2>3. \A i \in 1 .. 2 * n - 1 : i % 2 = 1 => u[i] \notin Evaluating!Spaces
    <3> SUFFICES ASSUME NEW i \in 1 .. 2 * n - 1, i % 2 = 1 PROVE u[i] \notin Evaluating!Spaces
      OBVIOUS
    <3>1. (i + 1) \div 2 \in 1 .. n
      BY <2>1
    <3>2. words[(i + 1) \div 2] \in Words
      BY <2>1, <3>1
    <3> QED
      BY <2>2, <3>2, ProfileAssumption
  <2>4. ASSUME NEW i \in 1 .. 2 * n - 1, u[i] \in Evaluating!Spaces
        PROVE  u[i] = Blank /\ 1 < i /\ i < 2 * n - 1 /\ u[i + 1] \notin Evaluating!Spaces
    <3>1. i % 2 # 1
      BY <2>3, <2>4
    <3>2. 1 < i /\ i < 2 * n - 1 /\ i + 1 \in 1 .. 2 * n - 1 /\ (i + 1) % 2 = 1
      BY <2>1, <3>1
    <3> QED
      BY <2>2, <2>3, <3>1, <3>2
  <2> QED
    BY <2>2, <2>4 DEF Evaluating!Spaced
<1> QED
  BY <1>1, <1>2

\* expanded_line: nothing yet, or a text and the blank after it.
Trailing(text) ==
    text = <<>> \/ \E t \in Texts : t # <<>> /\ text = Append(t, Blank)

\* What is left without the blank is a text.
LEMMA StrippedIsText ==
    ASSUME NEW text, Trailing(text)
    PROVE  Evaluating!Stripped(text) \in Texts
<1>1. CASE text = <<>>
  BY <1>1 DEF Evaluating!Stripped, Texts
<1>2. ASSUME NEW t \in Texts, text = Append(t, Blank)
      PROVE  Evaluating!Stripped(text) = t
  <2>1. PICK n \in Nat : n = Len(t)
    BY DEF Texts
  <2> DEFINE S == Words \cup Evaluating!Spaces
  <2>2. t \in Seq(S) /\ Blank \in S
    BY DEF Texts, Evaluating!Spaces
  <2> HIDE DEF S
  <2>3. text \in Seq(S) /\ Len(text) = n + 1 /\ text[n + 1] = Blank /\ text # <<>>
    BY <1>2, <2>1, <2>2
  <2>4. Evaluating!Stripped(text) = SubSeq(text, 1, n)
    BY <2>3 DEF Evaluating!Stripped, Evaluating!Last, Evaluating!Front
  <2>5. SubSeq(text, 1, n) = t
    BY <1>2, <2>1, <2>2
  <2> QED
    BY <2>4, <2>5
<1> QED
  BY <1>1, <1>2 DEF Trailing

\* AppendWord keeps expanded_line's form.
LEMMA WordTrailing ==
    ASSUME NEW text, Trailing(text), NEW word \in Words
    PROVE  Trailing(text \o <<word, Blank>>)
<1>1. PICK w : w = <<word>>
  OBVIOUS
<1>2. w \in Texts /\ w # <<>>
  BY <1>1 DEF Texts
<1>3. CASE text = <<>>
  <2>1. text \o <<word, Blank>> = Append(w, Blank)
    BY <1>1, <1>3
  <2> QED
    BY <1>2, <2>1 DEF Trailing
<1>4. ASSUME NEW t \in Texts, t # <<>>, text = Append(t, Blank)
      PROVE  Trailing(text \o <<word, Blank>>)
  <2>1. PICK u : u = t \o <<Blank>> \o w
    OBVIOUS
  <2>2. u \in Texts /\ u # <<>>
    BY <1>2, <2>1, Together
  <2>3. text \o <<word, Blank>> = Append(u, Blank)
    BY <1>1, <1>4, <2>1 DEF Texts
  <2> QED
    BY <2>2, <2>3 DEF Trailing
<1> QED
  BY <1>3, <1>4 DEF Trailing

\* A text that ends in a blank is the name of no variable: what expanded_line
\* holds is looked up in vain.
LEMMA NeverFound ==
    ASSUME NEW text, Trailing(text), NEW word \in Words
    PROVE  text # <<word>>
<1>1. ASSUME NEW t \in Texts, t # <<>>, text = Append(t, Blank), text = <<word>>
      PROVE  FALSE
  <2>1. PICK n \in Nat : n = Len(t) /\ n > 0
    BY <1>1 DEF Texts
  <2>2. t \in Seq(Words \cup Evaluating!Spaces) /\ Len(Append(t, Blank)) = n + 1
    BY <2>1 DEF Texts
  <2>3. Len(text) = 1
    BY <1>1
  <2> QED
    BY <1>1, <2>1, <2>2, <2>3
<1> QED
  BY <1>1 DEF Trailing

\* set_or_append makes texts of texts.
LEMMA AppendTexts ==
    ASSUME NEW map, \A key \in DOMAIN map : map[key] \in Texts,
           NEW at_key, NEW text \in Texts
    PROVE  \A key \in DOMAIN Evaluating!set_or_append(map, at_key, text) :
               Evaluating!set_or_append(map, at_key, text)[key] \in Texts
<1>1. PICK prev \in Texts : prev = IF at_key \in DOMAIN map THEN map[at_key] ELSE <<>>
  BY NothingIsAcceptable
<1>2. PICK value \in Texts :
          value = IF at_key \notin Incremental \/ prev = <<>> THEN text
                  ELSE IF text = <<>> THEN prev
                  ELSE prev \o <<Blank>> \o text
  BY Together
<1>3. Evaluating!set_or_append(map, at_key, text)
        = [k \in DOMAIN map \cup {at_key} |-> IF k = at_key THEN value ELSE map[k]]
  BY <1>1, <1>2 DEF Evaluating!set_or_append
<1> QED
  BY <1>3

\* The elements of a value are a sequence of elements.
LEMMA ParsedTyped ==
    ASSUME NEW value \in Seq(Evaluating!Elements)
    PROVE  Evaluating!Parsed(value) \in Seq(Evaluating!Elements)
<1>1. PICK n \in Nat : n = Len(value)
  OBVIOUS
<1> DEFINE S == Seq(Evaluating!Elements)
<1>2. PICK h : h = [i \in 1 .. n |-> IF value[i].kind = "space" THEN <<>> ELSE <<value[i]>>]
  OBVIOUS
<1>3. \A i \in 1 .. n : h[i] \in S
  <2> SUFFICES ASSUME NEW i \in 1 .. n PROVE h[i] \in S
    OBVIOUS
  <2>1. PICK e \in Evaluating!Elements : e = value[i]
    BY <1>1
  <2>2. <<e>> \in S /\ <<>> \in S
    BY <1>1
  <2> QED
    BY <1>2, <2>1, <2>2
<1>4. h \in Seq(S)
  BY <1>2, <1>3
<1>5. <<>> \in Seq(Evaluating!Elements) /\ h \in Seq(Seq(Evaluating!Elements))
  BY <1>1, <1>4
<1>6. Evaluating!FlattenSeq(h) \in Seq(Evaluating!Elements)
  BY <1>5, FlattenAppend
<1>7. Evaluating!Parsed(value) = Evaluating!FlattenSeq(h)
  BY <1>1, <1>2, Zenon DEF Evaluating!Parsed
<1> QED
  BY <1>6, <1>7

LEMMA NamesTyped ==
    ASSUME NEW value \in Seq(Evaluating!Elements)
    PROVE  Evaluating!Names(value) \in Texts
<1>1. \A i \in 1 .. Len(value) : value[i].name \in Words \cup Evaluating!Spaces
  <2> SUFFICES ASSUME NEW i \in 1 .. Len(value)
               PROVE  value[i].name \in Words \cup Evaluating!Spaces
    OBVIOUS
  <2>1. value[i] \in Evaluating!Elements
    OBVIOUS
  <2> QED
    BY <2>1, ElementNames
<1> QED
  BY <1>1 DEF Evaluating!Names, Texts

\* What the evaluation keeps to: expanded_line is a text with a blank after it.
MInv ==
    /\ unevaluated \in Seq(Line)
    /\ line \in 1 .. Len(unevaluated) + 1
    /\ elems \in Seq(Evaluating!Elements)
    /\ evaluation = "elements" => line <= Len(unevaluated)
    /\ Trailing(expanded)
    /\ DOMAIN defaults \subseteq Words
    /\ \A key \in DOMAIN defaults : defaults[key] \in Texts

LEMMA InitMInv == UInit => MInv
<1> SUFFICES ASSUME UInit PROVE MInv
  OBVIOUS
<1>1. PICK x \in Inputs : unevaluated = x.lines
  BY DEF UInit
<1>2. x.lines \in Seq(Line)
  BY ProfileAssumption
<1>3. unevaluated \in Seq(Line)
  BY <1>1, <1>2
<1>4. /\ line = 1 /\ elems = <<>> /\ expanded = <<>> /\ evaluation = "line"
      /\ defaults = [key \in {} |-> <<>>]
  BY DEF UInit, Evaluating!Start
<1>5. line \in 1 .. Len(unevaluated) + 1
  BY <1>3, <1>4
<1> QED
  BY <1>3, <1>4, <1>5 DEF MInv, Trailing

\* What set_or_append does to the map, for a key of a line.
LEMMA AssignMInv ==
    ASSUME MInv, NEW key \in Words, NEW text \in Texts,
           defaults' = Evaluating!set_or_append(defaults, key, text)
    PROVE  /\ DOMAIN defaults' \subseteq Words
           /\ \A k \in DOMAIN defaults' : defaults'[k] \in Texts
<1>1. DOMAIN defaults' = DOMAIN defaults \cup {key}
  BY DEF Evaluating!set_or_append
<1>2. \A k \in DOMAIN Evaluating!set_or_append(defaults, key, text) :
          Evaluating!set_or_append(defaults, key, text)[k] \in Texts
  BY AppendTexts DEF MInv
<1> QED
  BY <1>1, <1>2 DEF MInv

\* The line that is evaluated.
LEMMA LineTyped ==
    ASSUME MInv, Evaluating!AtLine \/ evaluation = "elements"
    PROVE  /\ line \in 1 .. Len(unevaluated)
           /\ unevaluated[line].key \in Words
           /\ unevaluated[line].value \in Seq(Evaluating!Elements)
<1>1. line \in 1 .. Len(unevaluated)
  BY DEF MInv, Evaluating!AtLine
<1>2. unevaluated[line] \in Line
  BY <1>1 DEF MInv
<1> QED
  BY <1>1, <1>2 DEF Line

LEMMA NextMInv == MInv /\ [UNext]_uvars => MInv'
<1> SUFFICES ASSUME MInv, [UNext]_uvars PROVE MInv'
  OBVIOUS
<1>1. CASE UNCHANGED evaluationVars
  BY <1>1 DEF MInv, evaluationVars, Trailing
<1>2. ASSUME Evaluating!AtLine \/ evaluation = "elements", line' = line + 1
      PROVE  line' \in 1 .. Len(unevaluated) + 1
  BY <1>2, LineTyped DEF MInv
<1>3. CASE Evaluating!PlainLine
  <2>1. PICK value \in Seq(Evaluating!Elements), key \in Words :
            value = unevaluated[line].value /\ key = unevaluated[line].key
    BY <1>3, LineTyped DEF Evaluating!PlainLine
  <2>2. PICK text \in Texts : text = Evaluating!Names(value)
    BY <2>1, NamesTyped
  <2>3. /\ defaults' = Evaluating!set_or_append(defaults, key, text)
        /\ line' = line + 1 /\ evaluation = "line"
        /\ UNCHANGED <<unevaluated, elems, expanded, evaluation>>
    BY <1>3, <2>1, <2>2 DEF Evaluating!PlainLine, Evaluating!Current, Evaluating!AtLine
  <2>4. /\ DOMAIN defaults' \subseteq Words
        /\ \A k \in DOMAIN defaults' : defaults'[k] \in Texts
    BY <2>1, <2>2, <2>3, AssignMInv
  <2>5. line' \in 1 .. Len(unevaluated) + 1
    BY <1>2, <1>3, <2>3 DEF Evaluating!PlainLine
  <2> QED
    BY <2>3, <2>4, <2>5 DEF MInv, Trailing
<1>4. CASE Evaluating!SplitLine
  <2>1. Trailing(<<>>)
    BY DEF Trailing
  <2>2. /\ elems' = Evaluating!Parsed(unevaluated[line].value) /\ expanded' = <<>>
        /\ evaluation' = "elements" /\ UNCHANGED <<unevaluated, line, defaults>>
    BY <1>4 DEF Evaluating!SplitLine, Evaluating!Current
  <2>3. line <= Len(unevaluated) /\ elems' \in Seq(Evaluating!Elements)
    BY <1>4, <2>2, LineTyped, ParsedTyped DEF Evaluating!SplitLine
  <2> QED
    BY <2>1, <2>2, <2>3 DEF MInv
<1>5. CASE Evaluating!RefuseLine
  BY <1>5 DEF Evaluating!RefuseLine, MInv, Trailing
<1>6. ASSUME elems # <<>>
      PROVE  Head(elems) \in Evaluating!Elements /\ Tail(elems) \in Seq(Evaluating!Elements)
  BY <1>6 DEF MInv
<1>7. CASE Evaluating!AppendWord
  <2>1. PICK word \in Words : word = Head(elems).name
    BY <1>6, <1>7, ElementNames DEF Evaluating!AppendWord, Evaluating!AtElement
  <2>2. /\ expanded' = expanded \o <<word, Blank>> /\ elems' = Tail(elems)
        /\ UNCHANGED <<unevaluated, line, defaults, evaluation>>
    BY <1>7, <2>1 DEF Evaluating!AppendWord
  <2>3. Trailing(expanded')
    BY <2>1, <2>2, WordTrailing DEF MInv
  <2>4. elems' \in Seq(Evaluating!Elements)
    BY <1>6, <1>7, <2>2 DEF Evaluating!AppendWord, Evaluating!AtElement
  <2> QED
    BY <2>2, <2>3, <2>4 DEF MInv
<1>8. CASE Evaluating!AppendVariable
  <2>1. {key \in DOMAIN defaults : expanded = <<key>>} = {}
    BY NeverFound DEF MInv
  <2>2. /\ expanded' = expanded /\ elems' = Tail(elems)
        /\ UNCHANGED <<unevaluated, line, defaults, evaluation>>
    BY <1>8, <2>1 DEF Evaluating!AppendVariable
  <2>3. elems' \in Seq(Evaluating!Elements)
    BY <1>6, <1>8, <2>2 DEF Evaluating!AppendVariable, Evaluating!AtElement
  <2> QED
    BY <2>2, <2>3 DEF MInv
<1>9. CASE Evaluating!EndOfElements
  <2>1. PICK key \in Words : key = unevaluated[line].key
    BY <1>9, LineTyped DEF Evaluating!EndOfElements
  <2>2. PICK text \in Texts : text = Evaluating!Stripped(expanded)
    BY StrippedIsText DEF MInv
  <2>3. /\ defaults' = Evaluating!set_or_append(defaults, key, text)
        /\ line' = line + 1 /\ evaluation' = "line"
        /\ UNCHANGED <<unevaluated, elems, expanded>>
    BY <1>9, <2>1, <2>2 DEF Evaluating!EndOfElements, Evaluating!Current
  <2>4. /\ DOMAIN defaults' \subseteq Words
        /\ \A k \in DOMAIN defaults' : defaults'[k] \in Texts
    BY <2>1, <2>2, <2>3, AssignMInv
  <2>5. line' \in 1 .. Len(unevaluated) + 1
    BY <1>2, <1>9, <2>3 DEF Evaluating!EndOfElements
  <2> QED
    BY <2>3, <2>4, <2>5 DEF MInv, Trailing
<1>10. CASE Evaluating!EndOfLines
  BY <1>10 DEF Evaluating!EndOfLines, MInv, Trailing
<1>11. UNCHANGED evaluationVars \/ Evaluating!Next
  BY DEF UNext, Evaluate, ReadPackageUse, RefuseVariables, Ask, uvars
<1> QED
  BY <1>1, <1>3, <1>4, <1>5, <1>7, <1>8, <1>9, <1>10, <1>11 DEF Evaluating!Next

-----------------------------------------------------------------------------
(* The words of make.defaults                                              *)

\* The words among the first n elements of a value.
Part(elem) == IF elem.kind = "word" THEN <<elem.name>> ELSE <<>>

WordsUpTo(value, n) == Evaluating!FlattenSeq([i \in 1 .. n |-> Part(value[i])])

LEMMA WordsOneMore ==
    ASSUME NEW value \in Seq(Evaluating!Elements), NEW n \in 1 .. Len(value)
    PROVE  /\ WordsUpTo(value, n - 1) \in Seq(Words) /\ WordsUpTo(value, n) \in Seq(Words)
           /\ WordsUpTo(value, n) = WordsUpTo(value, n - 1) \o Part(value[n])
<1>1. PICK h : h = [i \in 1 .. Len(value) |-> Part(value[i])]
  OBVIOUS
<1>2. ASSUME NEW i \in 1 .. Len(value) PROVE h[i] = Part(value[i]) /\ h[i] \in Seq(Words)
  <2>1. value[i] \in Evaluating!Elements
    OBVIOUS
  <2>2. value[i].kind = "word" => value[i].name \in Words
    BY <2>1, ElementNames
  <2>3. <<>> \in Seq(Words) /\ \A w \in Words : <<w>> \in Seq(Words)
    OBVIOUS
  <2> QED
    BY <1>1, <2>2, <2>3 DEF Part
<1>3. PICK m \in Nat : m = n - 1 /\ n = m + 1 /\ m + 1 <= Len(value)
  <2>1. n - 1 \in Nat /\ n = (n - 1) + 1
    OBVIOUS
  <2> QED
    BY <2>1
<1>4. \A i \in 1 .. m + 1 : h[i] = Part(value[i]) /\ h[i] \in Seq(Words)
  BY <1>2, <1>3
<1>5. /\ Evaluating!FlattenSeq([i \in 1 .. m |-> h[i]]) \in Seq(Words)
      /\ Evaluating!FlattenSeq([i \in 1 .. m + 1 |-> h[i]])
           = Evaluating!FlattenSeq([i \in 1 .. m |-> h[i]]) \o h[m + 1]
  BY <1>4, FlattenOneMore
<1>6. /\ [i \in 1 .. m |-> h[i]] = [i \in 1 .. m |-> Part(value[i])]
      /\ [i \in 1 .. m + 1 |-> h[i]] = [i \in 1 .. m + 1 |-> Part(value[i])]
      /\ h[m + 1] = Part(value[m + 1]) /\ h[m + 1] \in Seq(Words)
  BY <1>4
<1>7. /\ WordsUpTo(value, m) \in Seq(Words)
      /\ WordsUpTo(value, m + 1) = WordsUpTo(value, m) \o Part(value[m + 1])
  BY <1>5, <1>6 DEF WordsUpTo
<1>8. WordsUpTo(value, m + 1) \in Seq(Words)
  <2>1. PICK v \in Seq(Words), w \in Seq(Words) :
            v = WordsUpTo(value, m) /\ w = Part(value[m + 1])
    BY <1>6, <1>7
  <2>2. v \o w \in Seq(Words)
    OBVIOUS
  <2> QED
    BY <1>7, <2>1, <2>2
<1> QED
  BY <1>3, <1>7, <1>8

LEMMA WordsFacts ==
    ASSUME NEW value \in Seq(Evaluating!Elements)
    PROVE  /\ WordsUpTo(value, 0) = <<>>
           /\ \A n \in 0 .. Len(value) : WordsUpTo(value, n) \in Seq(Words)
<1>1. WordsUpTo(value, 0) = <<>>
  <2>1. [i \in 1 .. 0 |-> Part(value[i])] = <<>>
    OBVIOUS
  <2> QED
    BY <2>1, FlattenNothing DEF WordsUpTo
<1>2. ASSUME NEW n \in 0 .. Len(value) PROVE WordsUpTo(value, n) \in Seq(Words)
  <2>1. CASE n = 0
    <3>1. <<>> \in Seq(Words)
      OBVIOUS
    <3> QED
      BY <1>1, <2>1, <3>1
  <2>2. CASE n # 0
    <3>1. n \in 1 .. Len(value)
      BY <2>2
    <3> QED
      BY <3>1, WordsOneMore
  <2> QED
    BY <2>1, <2>2
<1> QED
  BY <1>1, <1>2

\* The words of a value are those of its elements.
LEMMA WordsOfIs ==
    ASSUME NEW value \in Seq(Evaluating!Elements), NEW elements,
           elements = Evaluating!Parsed(value)
    PROVE  /\ elements \in Seq(Evaluating!Elements)
           /\ Evaluating!WordsOf(value) = WordsUpTo(elements, Len(elements))
           /\ Evaluating!WordsOf(value) \in Seq(Words)
<1>1. elements \in Seq(Evaluating!Elements)
  BY ParsedTyped
<1>2. Evaluating!WordsOf(value) = WordsUpTo(elements, Len(elements))
  BY Zenon DEF Evaluating!WordsOf, WordsUpTo, Part
<1>3. Len(elements) \in 0 .. Len(elements)
  BY <1>1
<1> QED
  BY <1>1, <1>2, <1>3, WordsFacts

\* What a line says is a text, spaced if the line was taken apart.
LEMMA TextTyped ==
    ASSUME NEW value \in Seq(Evaluating!Elements)
    PROVE  /\ Evaluating!Text(value) \in Texts
           /\ Evaluating!HasDollar(value) => Evaluating!Spaced(Evaluating!Text(value))
  BY NamesTyped, WordsOfIs, JoinedShape, JoinedSpaced DEF Evaluating!Text

\* expanded_line while a value is taken apart: its words, a blank after each.
Spread(words) ==
    [i \in 1 .. 2 * Len(words) |-> IF i % 2 = 1 THEN words[(i + 1) \div 2] ELSE Blank]

LEMMA SpreadShape ==
    ASSUME NEW words \in Seq(Words)
    PROVE  /\ Spread(words) \in Texts /\ Len(Spread(words)) = 2 * Len(words)
           /\ \A i \in 1 .. 2 * Len(words) :
                  Spread(words)[i] = IF i % 2 = 1 THEN words[(i + 1) \div 2] ELSE Blank
<1>1. PICK n \in Nat : n = Len(words)
  OBVIOUS
<1>2. \A i \in 1 .. 2 * n : i % 2 = 1 => (i + 1) \div 2 \in 1 .. n
  OBVIOUS
<1>3. \A i \in 1 .. n : words[i] \in Words
  BY <1>1
<1>4. PICK u : u = Spread(words)
  OBVIOUS
<1>5. u = [i \in 1 .. 2 * n |-> IF i % 2 = 1 THEN words[(i + 1) \div 2] ELSE Blank]
  BY <1>1, <1>4 DEF Spread
<1>6. \A i \in 1 .. 2 * n : u[i] \in Words \cup Evaluating!Spaces
  BY <1>2, <1>3, <1>5 DEF Evaluating!Spaces
<1>7. 2 * n \in Nat
  OBVIOUS
<1>8. u \in Texts /\ Len(u) = 2 * n
  BY <1>5, <1>6, <1>7 DEF Texts
<1> QED
  BY <1>1, <1>4, <1>5, <1>8

\* AppendWord: one word more.
LEMMA SpreadOneMore ==
    ASSUME NEW words \in Seq(Words), NEW word \in Words
    PROVE  Spread(words \o <<word>>) = Spread(words) \o <<word, Blank>>
<1>1. PICK n \in Nat : n = Len(words)
  OBVIOUS
<1>2. PICK more : more = words \o <<word>>
  OBVIOUS
<1>3. /\ more \in Seq(Words) /\ Len(more) = n + 1 /\ more[n + 1] = word
      /\ \A i \in 1 .. n : more[i] = words[i]
  BY <1>1, <1>2
<1>4. PICK s \in Texts, t \in Texts : s = Spread(words) /\ t = Spread(more)
  BY <1>3, SpreadShape
<1>5. /\ Len(s) = 2 * n
      /\ \A i \in 1 .. 2 * n : s[i] = IF i % 2 = 1 THEN words[(i + 1) \div 2] ELSE Blank
  BY <1>1, <1>4, SpreadShape
<1>6. /\ Len(t) = 2 * (n + 1)
      /\ \A i \in 1 .. 2 * (n + 1) : t[i] = IF i % 2 = 1 THEN more[(i + 1) \div 2] ELSE Blank
  BY <1>3, <1>4, SpreadShape
<1>7. PICK u : u = s \o <<word, Blank>>
  OBVIOUS
<1>8. PICK m \in Nat : m = 2 * n
  OBVIOUS
<1>9. /\ u \in Texts /\ Len(u) = m + 2 /\ u[m + 1] = word /\ u[m + 2] = Blank
      /\ \A i \in 1 .. m : u[i] = s[i]
  <2>1. PICK w : w = <<word, Blank>>
    OBVIOUS
  <2>2. w \in Texts /\ Len(w) = 2 /\ w[1] = word /\ w[2] = Blank
    <3>1. Blank \in Evaluating!Spaces
      BY DEF Evaluating!Spaces
    <3> QED
      BY <2>1, <3>1 DEF Texts
  <2>3. Len(s) = m
    BY <1>5, <1>8
  <2>4. u = s \o w
    BY <1>7, <2>1
  <2>5. PICK T : T = Words \cup Evaluating!Spaces
    OBVIOUS
  <2>6. s \in Seq(T) /\ w \in Seq(T)
    BY <2>2, <2>5 DEF Texts
  <2>7. /\ s \o w \in Seq(T) /\ Len(s \o w) = Len(s) + Len(w)
        /\ \A i \in 1 .. Len(s) + Len(w) :
               (s \o w)[i] = IF i <= Len(s) THEN s[i] ELSE w[i - Len(s)]
    BY <2>6, ConcatProperties
  <2>8. u \in Seq(T) /\ Len(u) = m + 2
    BY <2>2, <2>3, <2>4, <2>7
  <2>9. \A i \in 1 .. m + 2 : u[i] = IF i <= m THEN s[i] ELSE w[i - m]
    BY <2>2, <2>3, <2>4, <2>7
  <2>10. u[m + 1] = w[1] /\ u[m + 2] = w[2]
    BY <2>9
  <2>11. \A i \in 1 .. m : u[i] = s[i]
    BY <2>9
  <2> QED
    BY <2>2, <2>5, <2>8, <2>10, <2>11 DEF Texts
<1>10. ASSUME NEW i \in 1 .. m + 2 PROVE u[i] = t[i]
  <2>1. i \in 1 .. 2 * (n + 1)
    BY <1>8
  <2>2. CASE i \in 1 .. m
    <3>1. i % 2 = 1 => (i + 1) \div 2 \in 1 .. n
      BY <1>8, <2>2
    <3>2. s[i] = IF i % 2 = 1 THEN words[(i + 1) \div 2] ELSE Blank
      BY <1>5, <1>8, <2>2
    <3>3. t[i] = IF i % 2 = 1 THEN more[(i + 1) \div 2] ELSE Blank
      BY <1>6, <2>1
    <3>4. i % 2 = 1 => more[(i + 1) \div 2] = words[(i + 1) \div 2]
      BY <1>3, <3>1
    <3>5. s[i] = t[i]
      BY <3>2, <3>3, <3>4
    <3> QED
      BY <1>9, <2>2, <3>5
  <2>3. CASE i = m + 1
    <3>1. i % 2 = 1 /\ (i + 1) \div 2 = n + 1
      BY <1>8, <2>3
    <3>2. t[i] = more[n + 1]
      BY <1>6, <2>1, <3>1
    <3> QED
      BY <1>3, <1>9, <2>3, <3>2
  <2>4. CASE i = m + 2
    <3>1. i % 2 # 1
      BY <1>8, <2>4
    <3>2. t[i] = Blank
      BY <1>6, <2>1, <3>1
    <3> QED
      BY <1>9, <2>4, <3>2
  <2> QED
    BY <2>2, <2>3, <2>4
<1>11. Len(t) = m + 2
  BY <1>6, <1>8
<1>12. u = t
  BY <1>4, <1>9, <1>10, <1>11, SeqEqual DEF Texts
<1> QED
  BY <1>2, <1>4, <1>7, <1>12

\* What is stripped is the last of the blanks.
LEMMA StrippedSpread ==
    ASSUME NEW words \in Seq(Words)
    PROVE  Evaluating!Stripped(Spread(words)) = Evaluating!Joined(words)
<1>1. PICK n \in Nat : n = Len(words)
  OBVIOUS
<1>2. PICK s \in Texts : s = Spread(words)
  BY SpreadShape
<1>3. /\ Len(s) = 2 * n
      /\ \A i \in 1 .. 2 * n : s[i] = IF i % 2 = 1 THEN words[(i + 1) \div 2] ELSE Blank
  BY <1>1, <1>2, SpreadShape
<1>4. CASE n = 0
  <2>1. words = <<>>
    BY <1>1, <1>4, EmptySeq
  <2>2. s = <<>>
    <3>1. Len(s) = 0
      BY <1>3, <1>4
    <3> QED
      BY <3>1, EmptySeq DEF Texts
  <2>3. Evaluating!Stripped(s) = <<>>
    BY <2>2 DEF Evaluating!Stripped
  <2> QED
    BY <1>2, <2>1, <2>3, JoinedShape
<1>5. CASE n # 0
  <2>1. PICK m \in Nat : m = 2 * n - 1 /\ 2 * n = m + 1 /\ m > 0
    BY <1>5
  <2>2. words # <<>>
    BY <1>1, <1>5
  <2>3. PICK u \in Texts : u = Evaluating!Joined(words)
    BY <2>2, JoinedShape
  <2>4. /\ Len(u) = m
        /\ \A i \in 1 .. m : u[i] = IF i % 2 = 1 THEN words[(i + 1) \div 2] ELSE Blank
    BY <1>1, <2>1, <2>2, <2>3, JoinedShape
  <2>5. Len(s) = m + 1 /\ s # <<>> /\ s[m + 1] = Blank
    <3>1. (m + 1) % 2 # 1
      BY <2>1
    <3>2. m + 1 \in 1 .. 2 * n
      BY <2>1
    <3> QED
      BY <1>3, <2>1, <3>1, <3>2
  <2>6. Evaluating!Stripped(s) = SubSeq(s, 1, m)
    <3>1. Evaluating!Last(s) = Blank
      BY <2>5 DEF Evaluating!Last
    <3>2. Evaluating!Front(s) = SubSeq(s, 1, m)
      BY <2>5 DEF Evaluating!Front
    <3> QED
      BY <2>5, <3>1, <3>2 DEF Evaluating!Stripped
  <2>7. PICK v : v = SubSeq(s, 1, m)
    OBVIOUS
  <2>8. v \in Texts /\ Len(v) = m /\ \A i \in 1 .. m : v[i] = s[i]
    BY <2>5, <2>7 DEF Texts
  <2>9. \A i \in 1 .. m : v[i] = u[i]
    BY <1>3, <2>1, <2>4, <2>8
  <2>10. v = u
    BY <2>3, <2>4, <2>8, <2>9, SeqEqual DEF Texts
  <2> QED
    BY <1>2, <2>3, <2>6, <2>7, <2>10
<1> QED
  BY <1>4, <1>5

\* What a line adds to a key.
Adds(assignment, key) ==
    IF assignment.key = key /\ Evaluating!Text(assignment.value) # <<>>
    THEN <<Blank>> \o Evaluating!Text(assignment.value) ELSE <<>>

\* What the first n lines that assign to a key say.
SaidUpTo(lines, key, n) == Evaluating!FlattenSeq([i \in 1 .. n |-> Adds(lines[i], key)])

LEMMA SaidOneMore ==
    ASSUME NEW lines \in Seq(Line), NEW key, NEW n \in 1 .. Len(lines)
    PROVE  /\ lines[n].key \in Words /\ Evaluating!Text(lines[n].value) \in Texts
           /\ SaidUpTo(lines, key, n - 1) \in Texts
           /\ Adds(lines[n], key) \in Texts
           /\ SaidUpTo(lines, key, n) = SaidUpTo(lines, key, n - 1) \o Adds(lines[n], key)
<1>1. PICK h : h = [i \in 1 .. Len(lines) |-> Adds(lines[i], key)]
  OBVIOUS
<1>2. ASSUME NEW i \in 1 .. Len(lines)
      PROVE  /\ h[i] = Adds(lines[i], key) /\ h[i] \in Texts
             /\ lines[i].key \in Words /\ Evaluating!Text(lines[i].value) \in Texts
  <2>1. lines[i] \in Line
    OBVIOUS
  <2>2. lines[i].key \in Words /\ lines[i].value \in Seq(Evaluating!Elements)
    BY <2>1 DEF Line
  <2>3. PICK text \in Texts : text = Evaluating!Text(lines[i].value)
    BY <2>2, TextTyped
  <2>4. PICK S : S = Words \cup Evaluating!Spaces
    OBVIOUS
  <2>5. text \in Seq(S) /\ Blank \in S
    BY <2>4 DEF Texts, Evaluating!Spaces
  <2>6. <<Blank>> \o text \in Seq(S) /\ <<>> \in Seq(S)
    BY <2>5
  <2>7. Adds(lines[i], key) \in Texts
    BY <2>3, <2>4, <2>6 DEF Adds, Texts
  <2> QED
    BY <1>1, <2>2, <2>3, <2>7
<1>3. PICK m \in Nat : m = n - 1 /\ n = m + 1 /\ m + 1 <= Len(lines)
  <2>1. n - 1 \in Nat /\ n = (n - 1) + 1
    OBVIOUS
  <2> QED
    BY <2>1
<1>4. \A i \in 1 .. m + 1 : h[i] = Adds(lines[i], key) /\ h[i] \in Texts
  BY <1>2, <1>3
<1>5. PICK S : S = Words \cup Evaluating!Spaces
  OBVIOUS
<1>6. \A i \in 1 .. m + 1 : h[i] \in Seq(S)
  BY <1>4, <1>5 DEF Texts
<1>7. /\ Evaluating!FlattenSeq([i \in 1 .. m |-> h[i]]) \in Seq(S)
      /\ Evaluating!FlattenSeq([i \in 1 .. m + 1 |-> h[i]])
           = Evaluating!FlattenSeq([i \in 1 .. m |-> h[i]]) \o h[m + 1]
  BY <1>6, FlattenOneMore
<1>8. /\ [i \in 1 .. m |-> h[i]] = [i \in 1 .. m |-> Adds(lines[i], key)]
      /\ [i \in 1 .. m + 1 |-> h[i]] = [i \in 1 .. m + 1 |-> Adds(lines[i], key)]
      /\ h[m + 1] = Adds(lines[m + 1], key)
  BY <1>4
<1>9. /\ SaidUpTo(lines, key, m) \in Texts
      /\ SaidUpTo(lines, key, m + 1) = SaidUpTo(lines, key, m) \o Adds(lines[m + 1], key)
  BY <1>5, <1>7, <1>8 DEF SaidUpTo, Texts
<1> QED
  BY <1>2, <1>3, <1>9

\* What the map holds for a key, nothing if it has none.
Held(map, key) == IF key \in DOMAIN map THEN map[key] ELSE <<>>

AllSaid(lines, key, n, text) ==
    SaidUpTo(lines, key, n) = IF text = <<>> THEN <<>> ELSE <<Blank>> \o text

NoneBlamed(lines, key, n) ==
    \A i \in 1 .. n : lines[i].key = key => Acceptable(Evaluating!Text(lines[i].value))

LastSaid(lines, key, n, text) ==
    \E i \in 1 .. n :
        /\ lines[i].key = key
        /\ \A j \in i + 1 .. n : lines[j].key # key
        /\ text = Evaluating!Text(lines[i].value)

\* What the map holds after the first n lines.
Told(map, lines, n) ==
    \A key \in Words :
        /\ key \in Incremental =>
               /\ AllSaid(lines, key, n, Held(map, key))
               /\ Acceptable(Held(map, key)) <=> NoneBlamed(lines, key, n)
        /\ key \in DOMAIN map /\ key \notin Incremental => LastSaid(lines, key, n, map[key])

\* set_or_append keeps to it, for the line it evaluates.
LEMMA ToldOneMore ==
    ASSUME NEW lines \in Seq(Line), NEW n \in 1 .. Len(lines), NEW map,
           \A key \in DOMAIN map : map[key] \in Texts,
           Told(map, lines, n - 1), NEW new,
           new = Evaluating!set_or_append(map, lines[n].key, Evaluating!Text(lines[n].value))
    PROVE  Told(new, lines, n)
<1>1. PICK m \in Nat : m = n - 1 /\ n = m + 1
  <2>1. n - 1 \in Nat /\ n = (n - 1) + 1
    OBVIOUS
  <2> QED
    BY <2>1
<1>2. PICK at_key \in Words, text \in Texts :
          at_key = lines[n].key /\ text = Evaluating!Text(lines[n].value)
  BY SaidOneMore
<1>3. PICK prev \in Texts : prev = Held(map, at_key)
  BY NothingIsAcceptable DEF Held
<1>4. PICK value : value = IF at_key \notin Incremental \/ prev = <<>> THEN text
                           ELSE IF text = <<>> THEN prev
                           ELSE prev \o <<Blank>> \o text
  OBVIOUS
<1>5. new = [k \in DOMAIN map \cup {at_key} |-> IF k = at_key THEN value ELSE map[k]]
  BY <1>2, <1>3, <1>4 DEF Evaluating!set_or_append, Held
<1>6. Told(map, lines, m)
  BY <1>1
<1>7. \A i \in 1 .. n : i \in 1 .. m \/ i = n
  BY <1>1
<1>8. 1 .. m \subseteq 1 .. n /\ n \in 1 .. n
  BY <1>1
<1>9. ASSUME NEW key \in Words, key \in Incremental
      PROVE  /\ SaidUpTo(lines, key, m) \in Texts
             /\ SaidUpTo(lines, key, n) = SaidUpTo(lines, key, m) \o Adds(lines[n], key)
             /\ AllSaid(lines, key, m, Held(map, key))
             /\ Acceptable(Held(map, key)) <=> NoneBlamed(lines, key, m)
             /\ NoneBlamed(lines, key, n) <=>
                    NoneBlamed(lines, key, m) /\ (at_key = key => Acceptable(text))
  <2>1. /\ SaidUpTo(lines, key, m) \in Texts
        /\ SaidUpTo(lines, key, n) = SaidUpTo(lines, key, m) \o Adds(lines[n], key)
    BY <1>1, SaidOneMore
  <2>2. /\ AllSaid(lines, key, m, Held(map, key))
        /\ Acceptable(Held(map, key)) <=> NoneBlamed(lines, key, m)
    BY <1>6, <1>9 DEF Told
  <2>3. NoneBlamed(lines, key, n) <=>
            NoneBlamed(lines, key, m) /\ (at_key = key => Acceptable(text))
    BY <1>2, <1>7, <1>8 DEF NoneBlamed
  <2> QED
    BY <2>1, <2>2, <2>3
<1>10. ASSUME NEW key \in Words, key # at_key, key \in Incremental
       PROVE  /\ AllSaid(lines, key, n, Held(new, key))
              /\ Acceptable(Held(new, key)) <=> NoneBlamed(lines, key, n)
  <2>1. Held(new, key) = Held(map, key)
    BY <1>5, <1>10 DEF Held
  <2>2. SaidUpTo(lines, key, n) = SaidUpTo(lines, key, m)
    <3>1. Adds(lines[n], key) = <<>>
      BY <1>2, <1>10 DEF Adds
    <3>2. PICK v \in Texts : v = SaidUpTo(lines, key, m) /\ SaidUpTo(lines, key, n) = v \o <<>>
      BY <1>9, <1>10, <3>1
    <3>3. v \o <<>> = v
      BY DEF Texts
    <3> QED
      BY <3>2, <3>3
  <2> QED
    BY <1>9, <1>10, <2>1, <2>2 DEF AllSaid
<1>11. ASSUME NEW key \in Words, key # at_key, key \notin Incremental, key \in DOMAIN new
       PROVE  LastSaid(lines, key, n, new[key])
  <2>1. key \in DOMAIN map /\ new[key] = map[key]
    BY <1>5, <1>11
  <2>2. PICK i \in 1 .. m :
            /\ lines[i].key = key
            /\ \A j \in i + 1 .. m : lines[j].key # key
            /\ map[key] = Evaluating!Text(lines[i].value)
    BY <1>6, <1>11, <2>1 DEF Told, LastSaid
  <2>3. i \in 1 .. n /\ \A j \in i + 1 .. n : j \in i + 1 .. m \/ j = n
    BY <1>1
  <2>4. \A j \in i + 1 .. n : lines[j].key # key
    BY <1>2, <1>11, <2>2, <2>3
  <2> QED
    BY <2>1, <2>2, <2>3, <2>4 DEF LastSaid
<1>12. ASSUME at_key \notin Incremental PROVE LastSaid(lines, at_key, n, new[at_key])
  <2>1. new[at_key] = text
    BY <1>4, <1>5, <1>12
  <2>2. \A j \in n + 1 .. n : lines[j].key # at_key
    OBVIOUS
  <2> QED
    BY <1>2, <1>8, <2>1, <2>2 DEF LastSaid
<1>13. ASSUME at_key \in Incremental
       PROVE  /\ AllSaid(lines, at_key, n, Held(new, at_key))
              /\ Acceptable(Held(new, at_key)) <=> NoneBlamed(lines, at_key, n)
  <2>1. Held(new, at_key) = value
    BY <1>5 DEF Held
  <2>2. PICK said \in Texts : said = SaidUpTo(lines, at_key, m)
    BY <1>9, <1>13
  <2>3. /\ said = IF prev = <<>> THEN <<>> ELSE <<Blank>> \o prev
        /\ Acceptable(prev) <=> NoneBlamed(lines, at_key, m)
    BY <1>3, <1>9, <1>13, <2>2 DEF AllSaid
  <2>4. SaidUpTo(lines, at_key, n) = said \o (IF text = <<>> THEN <<>> ELSE <<Blank>> \o text)
    <3>1. Adds(lines[n], at_key) = IF text = <<>> THEN <<>> ELSE <<Blank>> \o text
      BY <1>2 DEF Adds
    <3> QED
      BY <1>9, <1>13, <2>2, <3>1
  <2>5. NoneBlamed(lines, at_key, n) <=> Acceptable(prev) /\ Acceptable(text)
    BY <1>9, <1>13, <2>3
  <2>6. PICK S : S = Words \cup Evaluating!Spaces /\ Blank \in S
    BY DEF Evaluating!Spaces
  <2>7. prev \in Seq(S) /\ text \in Seq(S) /\ said \in Seq(S)
    BY <2>6 DEF Texts
  <2>8. CASE prev = <<>>
    <3>1. <<>> \o text = text /\ <<>> \o <<>> = <<>> /\ <<>> \o (<<Blank>> \o text) = <<Blank>> \o text
      BY <2>6, <2>7
    <3>2. SaidUpTo(lines, at_key, n) = IF text = <<>> THEN <<>> ELSE <<Blank>> \o text
      BY <2>3, <2>4, <2>8, <3>1
    <3>3. value = text
      BY <1>4, <2>8
    <3> QED
      BY <2>1, <2>5, <2>8, <3>2, <3>3, NothingIsAcceptable DEF AllSaid
  <2>9. CASE prev # <<>> /\ text = <<>>
    <3>1. said \o <<>> = said
      BY <2>7
    <3>2. SaidUpTo(lines, at_key, n) = <<Blank>> \o prev
      BY <2>3, <2>4, <2>9, <3>1
    <3>3. value = prev
      BY <1>4, <1>13, <2>9
    <3> QED
      BY <2>1, <2>5, <2>9, <3>2, <3>3, NothingIsAcceptable DEF AllSaid
  <2>10. CASE prev # <<>> /\ text # <<>>
    <3>1. value = prev \o <<Blank>> \o text
      BY <1>4, <1>13, <2>10
    <3>2. (<<Blank>> \o prev) \o (<<Blank>> \o text) = <<Blank>> \o (prev \o <<Blank>> \o text)
      BY <2>6, <2>7
    <3>3. SaidUpTo(lines, at_key, n) = <<Blank>> \o value
      BY <2>3, <2>4, <2>10, <3>1, <3>2
    <3>4. value # <<>>
      BY <3>1, Together
    <3>5. Acceptable(value) <=> Acceptable(prev) /\ Acceptable(text)
      BY <2>10, <3>1, AcceptableTogether
    <3> QED
      BY <2>1, <2>5, <3>3, <3>4, <3>5 DEF AllSaid
  <2> QED
    BY <2>8, <2>9, <2>10
<1>14. ASSUME NEW key \in Words
       PROVE  /\ key \in Incremental =>
                     /\ AllSaid(lines, key, n, Held(new, key))
                     /\ Acceptable(Held(new, key)) <=> NoneBlamed(lines, key, n)
              /\ key \in DOMAIN new /\ key \notin Incremental =>
                     LastSaid(lines, key, n, new[key])
  BY <1>10, <1>11, <1>12, <1>13
<1> QED
  BY <1>14 DEF Told

\* A value that is being taken apart: what is left of it, and expanded_line.
Halfway(value, left, text) ==
    \E c \in 0 .. Len(value) :
        /\ Len(left) = Len(value) - c
        /\ \A j \in 1 .. Len(left) : left[j] = value[c + j]
        /\ text = Spread(WordsUpTo(value, c))

LEMMA HalfwayStart ==
    ASSUME NEW value \in Seq(Evaluating!Elements)
    PROVE  Halfway(value, value, <<>>)
<1>1. <<>> \in Seq(Words) /\ Len(<<>>) = 0
  OBVIOUS
<1>2. Spread(<<>>) \in Texts /\ Len(Spread(<<>>)) = 0
  <2>1. PICK w \in Seq(Words) : w = <<>> /\ Len(w) = 0
    BY <1>1
  <2>2. Spread(w) \in Texts /\ Len(Spread(w)) = 2 * Len(w)
    BY SpreadShape
  <2> QED
    BY <2>1, <2>2
<1>3. Spread(<<>>) = <<>>
  BY <1>2, EmptySeq DEF Texts
<1>4. WordsUpTo(value, 0) = <<>>
  BY WordsFacts
<1>5. /\ 0 \in 0 .. Len(value) /\ Len(value) = Len(value) - 0
      /\ \A j \in 1 .. Len(value) : value[j] = value[0 + j]
  OBVIOUS
<1> QED
  BY <1>3, <1>4, <1>5 DEF Halfway

\* AppendWord, and AppendVariable when nothing is found.
LEMMA HalfwayOn ==
    ASSUME NEW value \in Seq(Evaluating!Elements), NEW left \in Seq(Evaluating!Elements),
           left # <<>>, NEW text, Halfway(value, left, text)
    PROVE  Halfway(value, Tail(left),
               IF Head(left).kind = "word" THEN text \o <<Head(left).name, Blank>> ELSE text)
<1>1. PICK c \in 0 .. Len(value) :
          /\ Len(left) = Len(value) - c
          /\ \A j \in 1 .. Len(left) : left[j] = value[c + j]
          /\ text = Spread(WordsUpTo(value, c))
  BY DEF Halfway
<1>2. PICK n \in Nat : n = Len(left) /\ n > 0
  OBVIOUS
<1>3. PICK d \in 1 .. Len(value) : d = c + 1 /\ c = d - 1
  <2>1. c + 1 \in 1 .. Len(value) /\ c = (c + 1) - 1
    BY <1>1, <1>2
  <2> QED
    BY <2>1
<1>4. PICK tail : tail = Tail(left)
  OBVIOUS
<1>5. Len(tail) = n - 1 /\ \A j \in 1 .. n - 1 : tail[j] = left[j + 1]
  BY <1>2, <1>4
<1>6. Len(tail) = Len(value) - d /\ \A j \in 1 .. Len(tail) : tail[j] = value[d + j]
  <2>1. Len(tail) = Len(value) - d
    BY <1>1, <1>2, <1>3, <1>5
  <2>2. ASSUME NEW j \in 1 .. n - 1 PROVE tail[j] = value[d + j]
    <3>1. j + 1 \in 1 .. Len(left) /\ c + (j + 1) = d + j
      BY <1>2, <1>3, <2>2
    <3>2. left[j + 1] = value[c + (j + 1)]
      BY <1>1, <3>1
    <3> QED
      BY <1>5, <2>2, <3>1, <3>2
  <2> QED
    BY <1>5, <2>1, <2>2
<1>7. Head(left) = value[d] /\ value[d] \in Evaluating!Elements
  BY <1>1, <1>2, <1>3
<1>8. PICK words \in Seq(Words) : words = WordsUpTo(value, c)
  BY <1>3, WordsOneMore
<1>9. WordsUpTo(value, d) = words \o Part(value[d])
  BY <1>3, <1>8, WordsOneMore
<1>10. CASE Head(left).kind = "word"
  <2>1. PICK word \in Words : word = Head(left).name
    BY <1>7, <1>10, ElementNames
  <2>2. Part(value[d]) = <<word>>
    BY <1>7, <1>10, <2>1 DEF Part
  <2>3. Spread(words \o <<word>>) = Spread(words) \o <<word, Blank>>
    BY SpreadOneMore
  <2>4. text \o <<word, Blank>> = Spread(WordsUpTo(value, d))
    BY <1>1, <1>8, <1>9, <2>2, <2>3
  <2>5. d \in 0 .. Len(value)
    BY <1>3
  <2> QED
    BY <1>4, <1>6, <1>10, <2>1, <2>4, <2>5 DEF Halfway
<1>11. CASE Head(left).kind # "word"
  <2>1. Part(value[d]) = <<>>
    BY <1>7, <1>11 DEF Part
  <2>2. words \o <<>> = words
    OBVIOUS
  <2>3. text = Spread(WordsUpTo(value, d))
    BY <1>1, <1>8, <1>9, <2>1, <2>2
  <2>4. d \in 0 .. Len(value)
    BY <1>3
  <2> QED
    BY <1>4, <1>6, <1>11, <2>3, <2>4 DEF Halfway
<1> QED
  BY <1>10, <1>11

LEMMA HalfwayEnd ==
    ASSUME NEW value \in Seq(Evaluating!Elements), NEW text,
           Halfway(Evaluating!Parsed(value), <<>>, text)
    PROVE  Evaluating!Stripped(text) = Evaluating!Joined(Evaluating!WordsOf(value))
<1>1. PICK elements : elements = Evaluating!Parsed(value)
  OBVIOUS
<1>2. PICK c \in 0 .. Len(elements) :
          0 = Len(elements) - c /\ text = Spread(WordsUpTo(elements, c))
  BY <1>1 DEF Halfway
<1>3. /\ elements \in Seq(Evaluating!Elements)
      /\ WordsUpTo(elements, Len(elements)) = Evaluating!WordsOf(value)
      /\ Evaluating!WordsOf(value) \in Seq(Words)
  BY <1>1, WordsOfIs
<1>4. c = Len(elements)
  BY <1>2, <1>3
<1> QED
  BY <1>2, <1>3, <1>4, StrippedSpread

\* What the evaluation has made of the lines it has passed, and of the one it is at.
WInv ==
    /\ MInv
    /\ Told(defaults, unevaluated, line - 1)
    /\ evaluation = "elements" =>
           /\ Evaluating!HasDollar(unevaluated[line].value)
           /\ Halfway(Evaluating!Parsed(unevaluated[line].value), elems, expanded)
    /\ evaluation = "done" => line - 1 = Len(unevaluated)

LEMMA InitWInv == UInit => WInv
<1> SUFFICES ASSUME UInit PROVE WInv
  OBVIOUS
<1>1. line = 1 /\ evaluation = "line" /\ defaults = [key \in {} |-> <<>>]
  BY DEF UInit, Evaluating!Start
<1>2. ASSUME NEW key \in Words
      PROVE  SaidUpTo(unevaluated, key, 0) = <<>> /\ NoneBlamed(unevaluated, key, 0)
             /\ Held(defaults, key) = <<>>
  <2>1. [i \in 1 .. 0 |-> Adds(unevaluated[i], key)] = <<>>
    OBVIOUS
  <2>2. SaidUpTo(unevaluated, key, 0) = <<>>
    BY <2>1, FlattenNothing DEF SaidUpTo
  <2>3. NoneBlamed(unevaluated, key, 0)
    BY DEF NoneBlamed
  <2> QED
    BY <1>1, <2>2, <2>3 DEF Held
<1>3. Told(defaults, unevaluated, 0)
  BY <1>1, <1>2, NothingIsAcceptable DEF Told, AllSaid
<1> QED
  BY <1>1, <1>3, InitMInv DEF WInv

LEMMA NextWInv == WInv /\ [UNext]_uvars => WInv'
<1> SUFFICES ASSUME WInv, [UNext]_uvars PROVE WInv'
  OBVIOUS
<1>1. MInv /\ MInv'
  BY NextMInv DEF WInv
<1>2. CASE UNCHANGED evaluationVars
  <2>1. UNCHANGED <<unevaluated, line, elems, expanded, defaults, evaluation>>
    BY <1>2 DEF evaluationVars
  <2> QED
    BY <1>1, <2>1 DEF WInv
<1>3. ASSUME Evaluating!AtLine \/ evaluation = "elements"
      PROVE  /\ line \in 1 .. Len(unevaluated)
             /\ unevaluated \in Seq(Line)
             /\ unevaluated[line].value \in Seq(Evaluating!Elements)
  BY <1>1, <1>3, LineTyped DEF MInv
<1>4. ASSUME Evaluating!AtLine \/ evaluation = "elements",
             line' = line + 1, unevaluated' = unevaluated, evaluation' = "line",
             defaults' = Evaluating!set_or_append(defaults, unevaluated[line].key,
                 Evaluating!Text(unevaluated[line].value))
      PROVE  WInv'
  <2>1. \A key \in DOMAIN defaults : defaults[key] \in Texts
    BY <1>1 DEF MInv
  <2>2. Told(defaults', unevaluated, line)
    BY <1>3, <1>4, <2>1, ToldOneMore DEF WInv
  <2>3. line' - 1 = line
    BY <1>3, <1>4
  <2>4. Told(defaults', unevaluated', line' - 1)
    BY <1>4, <2>2, <2>3
  <2> QED
    BY <1>1, <1>4, <2>4 DEF WInv
<1>5. CASE Evaluating!PlainLine
  <2>1. Evaluating!Text(unevaluated[line].value) = Evaluating!Names(unevaluated[line].value)
    BY <1>5 DEF Evaluating!PlainLine, Evaluating!Current, Evaluating!Text
  <2>2. /\ Evaluating!AtLine /\ line' = line + 1 /\ unevaluated' = unevaluated
        /\ evaluation' = "line"
        /\ defaults' = Evaluating!set_or_append(defaults, unevaluated[line].key,
               Evaluating!Names(unevaluated[line].value))
    BY <1>5 DEF Evaluating!PlainLine, Evaluating!Current, Evaluating!AtLine
  <2> QED
    BY <1>4, <2>1, <2>2
<1>6. CASE Evaluating!SplitLine
  <2>1. /\ elems' = Evaluating!Parsed(unevaluated[line].value) /\ expanded' = <<>>
        /\ Evaluating!HasDollar(unevaluated[line].value) /\ evaluation' = "elements"
        /\ UNCHANGED <<unevaluated, line, defaults>>
    BY <1>6 DEF Evaluating!SplitLine, Evaluating!Current
  <2>2. PICK elements \in Seq(Evaluating!Elements) :
            elements = Evaluating!Parsed(unevaluated[line].value)
    BY <1>3, <1>6, ParsedTyped DEF Evaluating!SplitLine
  <2>3. Halfway(elements, elements, <<>>)
    BY HalfwayStart
  <2> QED
    BY <1>1, <2>1, <2>2, <2>3 DEF WInv
<1>7. CASE Evaluating!RefuseLine
  <2>1. /\ UNCHANGED <<unevaluated, line, elems, expanded, defaults>>
        /\ evaluation' = "thrown"
    BY <1>7 DEF Evaluating!RefuseLine
  <2> QED
    BY <1>1, <2>1 DEF WInv
<1>8. ASSUME evaluation = "elements", elems # <<>>
      PROVE  Halfway(Evaluating!Parsed(unevaluated[line].value), Tail(elems),
                 IF Head(elems).kind = "word" THEN expanded \o <<Head(elems).name, Blank>>
                 ELSE expanded)
  <2>1. elems \in Seq(Evaluating!Elements)
    BY <1>1 DEF MInv
  <2>2. PICK elements \in Seq(Evaluating!Elements) :
            elements = Evaluating!Parsed(unevaluated[line].value)
    BY <1>3, <1>8, ParsedTyped
  <2>3. Halfway(elements, elems, expanded)
    BY <1>8, <2>2 DEF WInv
  <2>4. Halfway(elements, Tail(elems),
            IF Head(elems).kind = "word" THEN expanded \o <<Head(elems).name, Blank>>
            ELSE expanded)
    BY <1>8, <2>1, <2>3, HalfwayOn
  <2> QED
    BY <2>2, <2>4
<1>9. CASE Evaluating!AppendWord
  <2>1. /\ expanded' = expanded \o <<Head(elems).name, Blank>> /\ elems' = Tail(elems)
        /\ UNCHANGED <<unevaluated, line, defaults, evaluation>>
        /\ evaluation = "elements" /\ elems # <<>> /\ Head(elems).kind = "word"
    BY <1>9 DEF Evaluating!AppendWord, Evaluating!AtElement
  <2>2. Halfway(Evaluating!Parsed(unevaluated[line].value), elems', expanded')
    BY <1>8, <2>1
  <2> QED
    BY <1>1, <2>1, <2>2 DEF WInv
<1>10. CASE Evaluating!AppendVariable
  <2>1. {key \in DOMAIN defaults : expanded = <<key>>} = {}
    BY <1>1, NeverFound DEF MInv
  <2>2. /\ expanded' = expanded /\ elems' = Tail(elems)
        /\ UNCHANGED <<unevaluated, line, defaults, evaluation>>
        /\ evaluation = "elements" /\ elems # <<>> /\ Head(elems).kind # "word"
    BY <1>10, <2>1 DEF Evaluating!AppendVariable, Evaluating!AtElement
  <2>3. Halfway(Evaluating!Parsed(unevaluated[line].value), elems', expanded')
    BY <1>8, <2>2
  <2> QED
    BY <1>1, <2>2, <2>3 DEF WInv
<1>11. CASE Evaluating!EndOfElements
  <2>1. /\ evaluation = "elements" /\ elems = <<>> /\ line' = line + 1
        /\ unevaluated' = unevaluated /\ evaluation' = "line"
        /\ defaults' = Evaluating!set_or_append(defaults, unevaluated[line].key,
               Evaluating!Stripped(expanded))
    BY <1>11 DEF Evaluating!EndOfElements, Evaluating!Current
  <2>2. /\ Evaluating!HasDollar(unevaluated[line].value)
        /\ Halfway(Evaluating!Parsed(unevaluated[line].value), <<>>, expanded)
    BY <2>1 DEF WInv
  <2>3. Evaluating!Stripped(expanded) = Evaluating!Text(unevaluated[line].value)
    BY <1>3, <2>1, <2>2, HalfwayEnd DEF Evaluating!Text
  <2> QED
    BY <1>4, <2>1, <2>3
<1>12. CASE Evaluating!EndOfLines
  <2>1. /\ UNCHANGED <<unevaluated, line, elems, expanded, defaults>>
        /\ evaluation' = "done" /\ line > Len(unevaluated)
    BY <1>12 DEF Evaluating!EndOfLines
  <2>2. line - 1 = Len(unevaluated)
    BY <1>1, <2>1 DEF MInv
  <2> QED
    BY <1>1, <2>1, <2>2 DEF WInv
<1>13. UNCHANGED evaluationVars \/ Evaluating!Next
  BY DEF UNext, Evaluate, ReadPackageUse, RefuseVariables, Ask, uvars
<1> QED
  BY <1>2, <1>5, <1>6, <1>7, <1>9, <1>10, <1>11, <1>12, <1>13 DEF Evaluating!Next

\* An incremental key of make_defaults_ holds what every line evaluated so far that
\* assigned to it says, of parents and children alike, in the order of the concatenation,
\* one blank in between: the lookup for what expanded_line holds never finds a variable,
\* so a reference adds nothing, and a line without one is kept with its spaces.
THEOREM AccumulatesAlways == USpec => []Accumulates
<1>1. ASSUME WInv PROVE Accumulates
  <2> SUFFICES ASSUME NEW key \in Incremental \cap DOMAIN defaults
               PROVE  IF defaults[key] = <<>> THEN Evaluating!Said(key) = <<>>
                      ELSE Evaluating!Said(key) = <<Blank>> \o defaults[key]
    BY DEF Accumulates, Evaluating!Accumulates
  <2>1. key \in Words
    BY <1>1 DEF WInv, MInv
  <2>2. Evaluating!Said(key) = SaidUpTo(unevaluated, key, line - 1)
    BY Zenon DEF Evaluating!Said, SaidUpTo, Adds
  <2>3. AllSaid(unevaluated, key, line - 1, defaults[key])
    BY <1>1, <2>1 DEF WInv, Told, Held
  <2> QED
    BY <2>2, <2>3 DEF AllSaid
<1> QED
  BY InitWInv, NextWInv, <1>1, PTL DEF USpec

\* Any other key holds what the last evaluated line that assigns to it says, a line of
\* a child or of a later parent after one of an earlier parent.
THEOREM LastWinsAlways == USpec => []LastWins
<1>1. ASSUME WInv PROVE LastWins
  <2> SUFFICES ASSUME NEW key \in DOMAIN defaults \ Incremental
               PROVE  LastSaid(unevaluated, key, line - 1, defaults[key])
    BY DEF LastWins, Evaluating!LastWins, LastSaid
  <2>1. key \in Words
    BY <1>1 DEF WInv, MInv
  <2> QED
    BY <1>1, <2>1 DEF WInv, Told
<1> QED
  BY InitWInv, NextWInv, <1>1, PTL DEF USpec

\* Where the call stands, and whether the variables have been accepted.
RInv ==
    /\ WInv
    /\ answer \in {"refused", "flags", "returned"} => evaluation = "done"
    /\ answer = "refused" => ~Parsed
    /\ answer \in {"flags", "returned"} => Parsed

LEMMA NextRInv == RInv /\ [UNext]_uvars => RInv'
<1> SUFFICES ASSUME RInv, [UNext]_uvars PROVE RInv'
  OBVIOUS
<1>1. WInv'
  BY NextWInv DEF RInv
<1>2. ASSUME defaults' = defaults PROVE Parsed' <=> Parsed
  BY <1>2 DEF Parsed, Acceptable, Evaluating!Spaced
<1>3. CASE Evaluate
  <2>1. evaluation # "done" /\ answer \notin {"refused", "flags", "returned"}
    BY <1>3 DEF RInv, Evaluate, Evaluating!Next, Evaluating!PlainLine, Evaluating!SplitLine,
       Evaluating!RefuseLine, Evaluating!AppendWord, Evaluating!AppendVariable,
       Evaluating!EndOfElements, Evaluating!EndOfLines, Evaluating!AtLine, Evaluating!AtElement
  <2>2. answer' = answer
    BY <1>3 DEF Evaluate, answerVars
  <2> QED
    BY <1>1, <2>1, <2>2 DEF RInv
<1>4. CASE ReadPackageUse
  <2>1. answer = "called" /\ answer' = answer
    BY <1>4 DEF ReadPackageUse, answerVars
  <2> QED
    BY <1>1, <2>1 DEF RInv
<1>5. CASE RefuseVariables
  <2>1. /\ answer' = "refused" /\ ~Parsed /\ evaluation = "done"
        /\ UNCHANGED <<defaults, evaluation>>
    BY <1>5 DEF RefuseVariables, evaluationVars
  <2> QED
    BY <1>1, <1>2, <2>1 DEF RInv
<1>6. CASE Ask
  <2>1. /\ Parsed /\ evaluation = "done" /\ UNCHANGED <<defaults, evaluation>>
        /\ answer' \in {"flags", "thrown", "returned"}
    BY <1>6 DEF Ask, evaluationVars, Asking!Next, Asking!Lookup, Asking!ConsiderFlag,
       Asking!ReturnFlags
  <2> QED
    BY <1>1, <1>2, <2>1 DEF RInv
<1>7. CASE UNCHANGED uvars
  <2>1. UNCHANGED <<defaults, evaluation, answer>>
    BY <1>7 DEF uvars, evaluationVars, answerVars
  <2> QED
    BY <1>1, <1>2, <2>1 DEF RInv
<1> QED
  BY <1>3, <1>4, <1>5, <1>6, <1>7 DEF UNext

\* A line is to blame exactly if what it says is not accepted by itself.
LEMMA BlamedIs ==
    ASSUME NEW assignment \in Line, assignment.key \in {USE_, IUSE_IMPLICIT}
    PROVE  Blamed(assignment) <=> ~Acceptable(Evaluating!Text(assignment.value))
<1>1. assignment.value \in Seq(Evaluating!Elements)
  BY DEF Line
<1>2. Evaluating!HasDollar(assignment.value) => Evaluating!Spaced(Evaluating!Text(assignment.value))
  BY <1>1, TextTyped
<1> QED
  BY <1>2 DEF Blamed, Acceptable

\* The variables are refused exactly if one line, of whichever profile of the hierarchy, is
\* to blame by itself, for every number of lines and every way of spacing them: joining
\* lines and dropping references adds and leaves behind no blank.
THEOREM RefusedForALineAlways == USpec => []RefusedForALine
<1>1. ASSUME RInv, evaluation = "done"
      PROVE  Parsed <=> ~\E i \in 1 .. Len(unevaluated) : Blamed(unevaluated[i])
  <2> DEFINE Keys == {USE_, IUSE_IMPLICIT}
             n == Len(unevaluated)
  <2>1. Told(defaults, unevaluated, n) /\ unevaluated \in Seq(Line)
    BY <1>1 DEF RInv, WInv, MInv
  <2>2. ASSUME NEW key \in Keys
        PROVE  Acceptable(Held(defaults, key)) <=> NoneBlamed(unevaluated, key, n)
    BY <2>1, UseAssumption DEF Told
  <2>3. \A key \in Keys : key \notin DOMAIN defaults => Acceptable(Held(defaults, key))
    BY NothingIsAcceptable DEF Held
  <2>4. Parsed <=> \A key \in Keys : Acceptable(Held(defaults, key))
    BY <2>3 DEF Parsed, Held
  <2>5. \A i \in 1 .. n : unevaluated[i].key \in Keys =>
            (Blamed(unevaluated[i]) <=> ~Acceptable(Evaluating!Text(unevaluated[i].value)))
    BY <2>1, BlamedIs
  <2>6. \A i \in 1 .. n : unevaluated[i].key \notin Keys => ~Blamed(unevaluated[i])
    BY DEF Blamed
  <2> QED
    BY <2>2, <2>4, <2>5, <2>6 DEF NoneBlamed
<1>2. RInv => RefusedForALine
  BY <1>1 DEF RInv, RefusedForALine
<1>3. UInit => RInv
  <2>1. UInit => answer = "called"
    BY DEF UInit, Asking!Init
  <2> QED
    BY <2>1, InitWInv DEF RInv
<1> QED
  BY <1>2, <1>3, NextRInv, PTL DEF USpec

-----------------------------------------------------------------------------
(* The last word on a flag                                                 *)

Hearing == {"yes", "no", "unset"}

\* What is said afterwards overrides, if it is anything.
Over(before, said) == IF said = "unset" THEN before ELSE said

\* v is the last thing that the first n members of s say.
LastWord(says, s, n, v) ==
    \/ /\ v # "unset"
       /\ \E i \in 1 .. n : says[s[i]] = v /\ \A j \in i + 1 .. n : says[s[j]] = "unset"
    \/ /\ v = "unset"
       /\ \A i \in 1 .. n : says[s[i]] = "unset"

LEMMA LastWordStart ==
    ASSUME NEW says, NEW s PROVE LastWord(says, s, 0, "unset")
  BY DEF LastWord

LEMMA LastWordMore ==
    ASSUME NEW says, NEW s, NEW n \in Nat, NEW v, LastWord(says, s, n, v)
    PROVE  LastWord(says, s, n + 1, Over(v, says[s[n + 1]]))
<1>1. PICK said : said = says[s[n + 1]]
  OBVIOUS
<1>2. n + 1 \in 1 .. n + 1 /\ \A i \in 1 .. n + 1 : i = n + 1 \/ i \in 1 .. n
  OBVIOUS
<1>3. CASE said = "unset"
  <2>1. CASE v = "unset"
    BY <1>1, <1>2, <1>3, <2>1 DEF LastWord, Over
  <2>2. CASE v # "unset"
    <3>1. PICK i \in 1 .. n : says[s[i]] = v /\ \A j \in i + 1 .. n : says[s[j]] = "unset"
      BY <2>2 DEF LastWord
    <3>2. i \in 1 .. n + 1
      OBVIOUS
    <3>3. ASSUME NEW j \in i + 1 .. n + 1 PROVE says[s[j]] = "unset"
      <4>1. j = n + 1 \/ j \in i + 1 .. n
        OBVIOUS
      <4> QED
        BY <1>1, <1>3, <3>1, <4>1
    <3> QED
      BY <1>1, <1>3, <2>2, <3>1, <3>2, <3>3 DEF LastWord, Over
  <2> QED
    BY <2>1, <2>2
<1>4. CASE said # "unset"
  <2>1. \A j \in (n + 1) + 1 .. n + 1 : says[s[j]] = "unset"
    OBVIOUS
  <2> QED
    BY <1>1, <1>2, <1>4, <2>1 DEF LastWord, Over
<1> QED
  BY <1>3, <1>4

LEMMA LastWordUnique ==
    ASSUME NEW says, NEW s, NEW n \in Nat, NEW v, NEW w,
           LastWord(says, s, n, v), LastWord(says, s, n, w)
    PROVE  v = w
<1>1. CASE v = "unset" \/ w = "unset"
  BY <1>1 DEF LastWord
<1>2. CASE v # "unset" /\ w # "unset"
  <2>1. PICK i \in 1 .. n : says[s[i]] = v /\ \A j \in i + 1 .. n : says[s[j]] = "unset"
    BY <1>2 DEF LastWord
  <2>2. PICK k \in 1 .. n : says[s[k]] = w /\ \A j \in k + 1 .. n : says[s[j]] = "unset"
    BY <1>2 DEF LastWord
  <2>3. ~(i < k) /\ ~(k < i)
    BY <1>2, <2>1, <2>2
  <2> QED
    BY <2>1, <2>2, <2>3
<1> QED
  BY <1>1, <1>2

LEMMA LastWordTogether ==
    ASSUME NEW says, NEW T, NEW s \in Seq(T), NEW t \in Seq(T), NEW v, NEW w,
           LastWord(says, s, Len(s), v), LastWord(says, t, Len(t), w)
    PROVE  LastWord(says, s \o t, Len(s \o t), Over(v, w))
<1>1. PICK m \in Nat, n \in Nat : m = Len(s) /\ n = Len(t)
  OBVIOUS
<1>2. PICK both : both = s \o t
  OBVIOUS
<1>3. /\ Len(both) = m + n
      /\ \A i \in 1 .. m : both[i] = s[i]
      /\ \A i \in m + 1 .. m + n : both[i] = t[i - m]
  BY <1>1, <1>2, ConcatProperties
<1>4. /\ \A i \in 1 .. m + n : i \in 1 .. m \/ i \in m + 1 .. m + n
      /\ \A i \in m + 1 .. m + n : i - m \in 1 .. n
      /\ \A i \in 1 .. n : i + m \in m + 1 .. m + n /\ i + m \in 1 .. m + n /\ (i + m) - m = i
      /\ \A i \in 1 .. m : i \in 1 .. m + n
  OBVIOUS
<1>5. CASE w = "unset"
  <2>1. ASSUME NEW j \in m + 1 .. m + n PROVE says[both[j]] = "unset"
    <3>1. \A i \in 1 .. n : says[t[i]] = "unset"
      BY <1>1, <1>5 DEF LastWord
    <3>2. says[t[j - m]] = "unset" /\ both[j] = t[j - m]
      BY <1>3, <1>4, <3>1
    <3> QED
      BY <3>2
  <2>2. CASE v = "unset"
    <3>1. \A j \in 1 .. m + n : says[both[j]] = "unset"
      BY <1>1, <1>3, <1>4, <2>1, <2>2 DEF LastWord
    <3> QED
      BY <1>2, <1>3, <1>5, <2>2, <3>1 DEF LastWord, Over
  <2>3. CASE v # "unset"
    <3>1. PICK i \in 1 .. m : says[s[i]] = v /\ \A j \in i + 1 .. m : says[s[j]] = "unset"
      BY <1>1, <2>3 DEF LastWord
    <3>2. i \in 1 .. m + n /\ says[both[i]] = v
      BY <1>3, <1>4, <3>1
    <3>3. ASSUME NEW j \in i + 1 .. m + n PROVE says[both[j]] = "unset"
      <4>1. CASE j \in m + 1 .. m + n
        BY <2>1, <4>1
      <4>2. CASE j \in i + 1 .. m
        <5>1. j \in 1 .. m
          BY <4>2
        <5> QED
          BY <1>3, <3>1, <4>2, <5>1
      <4> QED
        BY <4>1, <4>2
    <3> QED
      BY <1>2, <1>3, <1>5, <2>3, <3>2, <3>3 DEF LastWord, Over
  <2> QED
    BY <2>2, <2>3
<1>6. CASE w # "unset"
  <2>1. PICK i \in 1 .. n : says[t[i]] = w /\ \A j \in i + 1 .. n : says[t[j]] = "unset"
    BY <1>1, <1>6 DEF LastWord
  <2>2. PICK k : k = i + m
    OBVIOUS
  <2>3. k \in 1 .. m + n /\ says[both[k]] = w
    BY <1>3, <1>4, <2>1, <2>2
  <2>4. ASSUME NEW j \in k + 1 .. m + n PROVE says[both[j]] = "unset"
    <3>1. j \in m + 1 .. m + n /\ j - m \in i + 1 .. n
      BY <2>2
    <3> QED
      BY <1>3, <2>1, <3>1
  <2> QED
    BY <1>2, <1>3, <1>6, <2>3, <2>4 DEF LastWord, Over
<1> QED
  BY <1>5, <1>6

\* A set of numbers that is not empty and has a bound has a greatest member.
LEMMA Greatest ==
    ASSUME NEW n \in Nat, NEW S, S \subseteq 1 .. n, S # {}
    PROVE  Asking!Max(S) \in S /\ \A k \in S : k <= Asking!Max(S)
<1>1. PICK gaps : gaps = {n - k : k \in S}
  OBVIOUS
<1>2. gaps \subseteq Nat /\ gaps # {}
  <2>1. \A k \in S : n - k \in Nat
    OBVIOUS
  <2> QED
    BY <1>1, <2>1
<1>3. PICK m \in gaps : \A k \in gaps : m <= k
  BY <1>2, Least
<1>4. PICK k \in S : m = n - k
  BY <1>1, <1>3
<1>5. \A j \in S : k >= j
  BY <1>1, <1>3, <1>4
<1>6. \A j \in S : Asking!Max(S) >= j /\ Asking!Max(S) \in S
  BY <1>4, <1>5 DEF Asking!Max
<1> QED
  BY <1>4, <1>6

\* The loop over the parents leaves the last thing they say.
LEMMA FromParentsIsLast ==
    ASSUME NEW v \in [Profiles -> Hearing], NEW p \in Profiles
    PROVE  /\ Asking!FromParents(v, p) \in Hearing
           /\ LastWord(v, Parents[p], Len(Parents[p]), Asking!FromParents(v, p))
<1>1. PICK s \in Seq(Profiles) : s = Parents[p]
  BY ProfileAssumption
<1>2. PICK n \in Nat : n = Len(s)
  BY <1>1
<1>3. PICK S : S = {i \in 1 .. n : v[s[i]] # "unset"}
  OBVIOUS
<1>4. Asking!FromParents(v, p) = IF S = {} THEN "unset" ELSE v[s[Asking!Max(S)]]
  BY <1>1, <1>2, <1>3 DEF Asking!FromParents
<1>5. CASE S = {}
  BY <1>1, <1>2, <1>3, <1>4, <1>5 DEF LastWord, Hearing
<1>6. CASE S # {}
  <2>1. PICK m : m = Asking!Max(S)
    OBVIOUS
  <2>2. m \in S /\ m \in 1 .. n /\ \A k \in S : k <= m
    BY <1>3, <1>6, <2>1, Greatest
  <2>3. v[s[m]] # "unset" /\ v[s[m]] \in Hearing
    BY <1>1, <1>2, <1>3, <2>2
  <2>4. ASSUME NEW j \in m + 1 .. n PROVE v[s[j]] = "unset"
    <3>1. j \in 1 .. n /\ j \notin S
      BY <2>2
    <3> QED
      BY <1>3, <3>1
  <2> QED
    BY <1>1, <1>2, <1>4, <1>6, <2>1, <2>2, <2>3, <2>4 DEF LastWord
<1> QED
  BY <1>5, <1>6

-----------------------------------------------------------------------------
(* Functions defined by recursion                                          *)

\* The equation f[d] = E[d][f], whose right side looks at points of lower rank only.
Descends(D, V, rank, E) ==
    \A d \in D : \A f, g \in [D -> V] :
        (\A c \in D : rank[c] < rank[d] => f[c] = g[c]) => E[d][f] = E[d][g]

Solution(D, V, E, f) == f \in [D -> V] /\ \A d \in D : f[d] = E[d][f]

\* Such an equation has a solution.
LEMMA RecursionDefines ==
    ASSUME NEW D, NEW V, NEW rank, NEW v, NEW E,
           rank \in [D -> Nat], v \in V, E \in [D -> [[D -> V] -> V]],
           Descends(D, V, rank, E)
    PROVE  \E f : Solution(D, V, E, f)
<1> DEFINE Solves(n, f) == f \in [D -> V] /\ \A d \in D : rank[d] < n => f[d] = E[d][f]
<1>1. ASSUME NEW n \in Nat
      PROVE  \E f : Solves(n, f)
  <2>1. PICK failing : failing = {m \in Nat : ~\E f : Solves(m, f)}
    OBVIOUS
  <2>2. SUFFICES ASSUME failing # {} PROVE FALSE
    BY <2>1
  <2>3. failing \subseteq Nat
    BY <2>1
  <2>4. PICK m \in failing : \A k \in failing : m <= k
    BY <2>2, <2>3, Least
  <2>5. m \in Nat /\ ~\E f : Solves(m, f)
    BY <2>1, <2>4
  <2>6. CASE m = 0
    <3>1. PICK f : f = [d \in D |-> v]
      OBVIOUS
    <3>2. Solves(m, f)
      BY <2>6, <3>1
    <3> QED
      BY <2>5, <3>2
  <2>7. CASE m # 0
    <3>1. m - 1 \in Nat /\ m - 1 \notin failing
      BY <2>4, <2>5, <2>7
    <3>2. PICK f : Solves(m - 1, f)
      BY <2>1, <3>1
    <3>3. PICK g : g = [d \in D |-> E[d][f]]
      OBVIOUS
    <3>4. g \in [D -> V]
      BY <3>2, <3>3
    <3>5. ASSUME NEW d \in D, rank[d] < m
          PROVE  g[d] = E[d][g]
      <4>1. ASSUME NEW c \in D, rank[c] < rank[d]
            PROVE  g[c] = f[c]
        <5>1. rank[c] < m - 1
          BY <2>5, <3>5, <4>1
        <5> QED
          BY <3>2, <3>3, <5>1
      <4>2. E[d][g] = E[d][f]
        BY <3>2, <3>4, <4>1 DEF Descends
      <4> QED
        BY <3>3, <4>2
    <3>6. Solves(m, g)
      BY <3>4, <3>5
    <3> QED
      BY <2>5, <3>6
  <2> QED
    BY <2>6, <2>7
<1>2. ASSUME NEW m \in Nat, NEW n \in Nat, NEW f, NEW g, Solves(m, f), Solves(n, g),
             NEW d \in D, rank[d] < m, rank[d] < n
      PROVE  f[d] = g[d]
  <2>1. PICK apart : apart = {rank[c] : c \in {e \in D : rank[e] < m /\ rank[e] < n /\ f[e] # g[e]}}
    OBVIOUS
  <2>2. SUFFICES ASSUME apart # {} PROVE FALSE
    <3>1. f[d] # g[d] => rank[d] \in apart
      BY <1>2, <2>1
    <3> QED
      BY <3>1
  <2>3. apart \subseteq Nat
    BY <2>1
  <2>4. PICK k \in apart : \A l \in apart : k <= l
    BY <2>2, <2>3, Least
  <2>5. PICK c \in D : rank[c] = k /\ rank[c] < m /\ rank[c] < n /\ f[c] # g[c]
    BY <2>1, <2>4
  <2>6. ASSUME NEW e \in D, rank[e] < rank[c]
        PROVE  f[e] = g[e]
    <3>1. rank[e] < m /\ rank[e] < n /\ rank[e] \notin apart
      BY <2>3, <2>4, <2>5, <2>6
    <3> QED
      BY <2>1, <3>1
  <2>7. E[c][f] = E[c][g]
    BY <1>2, <2>6 DEF Descends
  <2> QED
    BY <1>2, <2>5, <2>7
<1>3. PICK some : some = [d \in D |-> CHOOSE f : Solves(rank[d] + 1, f)]
  OBVIOUS
<1>4. ASSUME NEW d \in D
      PROVE  Solves(rank[d] + 1, some[d])
  <2>1. rank[d] + 1 \in Nat
    OBVIOUS
  <2>2. \E f : Solves(rank[d] + 1, f)
    BY <1>1, <2>1
  <2> HIDE DEF Solves
  <2> QED
    BY <1>3, <2>2
<1>5. PICK h : h = [d \in D |-> some[d][d]]
  OBVIOUS
<1>6. h \in [D -> V]
  BY <1>4, <1>5
<1>7. ASSUME NEW d \in D
      PROVE  h[d] = E[d][h]
  <2>1. some[d] \in [D -> V] /\ some[d][d] = E[d][some[d]]
    BY <1>4
  <2>2. ASSUME NEW c \in D, rank[c] < rank[d]
        PROVE  h[c] = some[d][c]
    <3>1. rank[c] + 1 \in Nat /\ rank[d] + 1 \in Nat /\ rank[c] < rank[c] + 1 /\ rank[c] < rank[d] + 1
      BY <2>2
    <3>2. Solves(rank[c] + 1, some[c]) /\ Solves(rank[d] + 1, some[d])
      BY <1>4
    <3> HIDE DEF Solves
    <3>3. some[c][c] = some[d][c]
      BY <1>2, <3>1, <3>2
    <3> QED
      BY <1>5, <3>3
  <2>3. E[d][h] = E[d][some[d]]
    BY <1>6, <2>1, <2>2 DEF Descends
  <2> QED
    BY <1>5, <2>1, <2>3
<1> QED
  BY <1>6, <1>7 DEF Solution

-----------------------------------------------------------------------------
(* The hierarchy as one sequence of files                                  *)

Places == Profiles \X {"use", "use_stable", "package", "package_stable"}

OwnFiles(p) == [i \in DOMAIN Asking!Layers |-> <<p, Asking!Layers[i]>>]

LEMMA OwnFilesAre ==
    ASSUME NEW p \in Profiles
    PROVE  /\ OwnFiles(p) \in Seq(Places) /\ Len(OwnFiles(p)) = 4
           /\ OwnFiles(p)[1] = <<p, "use">> /\ OwnFiles(p)[2] = <<p, "use_stable">>
           /\ OwnFiles(p)[3] = <<p, "package">> /\ OwnFiles(p)[4] = <<p, "package_stable">>
<1>1. PICK own : own = OwnFiles(p)
  OBVIOUS
<1>2. DOMAIN Asking!Layers = 1 .. 4
  BY DEF Asking!Layers
<1>3. own = [i \in 1 .. 4 |-> <<p, Asking!Layers[i]>>]
  BY <1>1, <1>2 DEF OwnFiles
<1>4. /\ own[1] = <<p, "use">> /\ own[2] = <<p, "use_stable">>
      /\ own[3] = <<p, "package">> /\ own[4] = <<p, "package_stable">>
  BY <1>3 DEF Asking!Layers
<1>5. \A i \in 1 .. 4 : own[i] \in Places
  <2>1. \A i \in 1 .. 4 : i = 1 \/ i = 2 \/ i = 3 \/ i = 4
    OBVIOUS
  <2> QED
    BY <1>4, <2>1 DEF Places
<1>6. own \in Seq(Places) /\ Len(own) = 4
  BY <1>3, <1>5
<1> QED
  BY <1>1, <1>4, <1>6

LEMMA SameFlatten ==
    ASSUME NEW ss PROVE Asking!FlattenSeq(ss) = Evaluating!FlattenSeq(ss)
  BY Zenon DEF Asking!FlattenSeq, Evaluating!FlattenSeq

\* What is flattened up to the n-th sequence.
LEMMA FlattenTyped ==
    ASSUME NEW T, NEW n \in Nat, NEW h, \A i \in 1 .. n : h[i] \in Seq(T)
    PROVE  Asking!FlattenSeq([i \in 1 .. n |-> h[i]]) \in Seq(T)
<1>1. PICK S : S = Seq(T)
  OBVIOUS
<1>2. PICK ss : ss = [i \in 1 .. n |-> h[i]]
  OBVIOUS
<1>3. ss \in Seq(S)
  BY <1>1, <1>2
<1>4. <<>> \in Seq(T) /\ ss \in Seq(Seq(T))
  BY <1>1, <1>3
<1>5. Evaluating!FlattenSeq(ss) \in Seq(T)
  BY <1>4, FlattenAppend
<1> QED
  BY <1>2, <1>5, SameFlatten

\* The sequences of the parents, of a function that gives each profile its sequence.
OfParents(g, p) == [i \in 1 .. Len(Parents[p]) |-> g[Parents[p][i]]]

LEMMA FilesOfIs ==
    /\ Asking!FilesOf \in [Profiles -> Seq(Places)]
    /\ \A p \in Profiles :
           Asking!FilesOf[p] = Asking!FlattenSeq(OfParents(Asking!FilesOf, p)) \o OwnFiles(p)
<1>1. \A p \in Profiles : /\ Parents[p] \in Seq(Profiles)
                          /\ DOMAIN Parents[p] = 1 .. Len(Parents[p])
                          /\ Len(Parents[p]) \in Nat
  BY ProfileAssumption
<1>2. ASSUME NEW p \in Profiles, NEW i \in 1 .. Len(Parents[p])
      PROVE  Parents[p][i] \in Profiles /\ Rank[Parents[p][i]] < Rank[p]
  BY <1>1, ProfileAssumption
<1>3. PICK V : V = Seq(Places)
  OBVIOUS
<1>4. PICK E : E = [p \in Profiles |-> [g \in [Profiles -> V] |->
                        Asking!FlattenSeq(OfParents(g, p)) \o OwnFiles(p)]]
  OBVIOUS
<1>5. ASSUME NEW p \in Profiles, NEW g \in [Profiles -> V]
      PROVE  Asking!FlattenSeq(OfParents(g, p)) \o OwnFiles(p) \in V
  <2>1. PICK h, n : h = [i \in 1 .. Len(Parents[p]) |-> g[Parents[p][i]]] /\ n = Len(Parents[p])
    OBVIOUS
  <2>2. n \in Nat /\ \A i \in 1 .. n : h[i] \in Seq(Places)
    BY <1>1, <1>2, <1>3, <2>1
  <2>3. Asking!FlattenSeq([i \in 1 .. n |-> h[i]]) \in Seq(Places)
    BY <2>2, FlattenTyped
  <2>4. OfParents(g, p) = [i \in 1 .. n |-> h[i]]
    BY <2>1 DEF OfParents
  <2>5. OwnFiles(p) \in Seq(Places)
    BY OwnFilesAre
  <2> QED
    BY <1>3, <2>3, <2>4, <2>5
<1>6. E \in [Profiles -> [[Profiles -> V] -> V]]
  BY <1>4, <1>5
<1>7. ASSUME NEW p \in Profiles, NEW f, NEW g,
             \A c \in Profiles : Rank[c] < Rank[p] => f[c] = g[c]
      PROVE  OfParents(f, p) = OfParents(g, p)
  BY <1>2, <1>7 DEF OfParents
<1>8. Descends(Profiles, V, Rank, E)
  <2>1. SUFFICES ASSUME NEW p \in Profiles, NEW f \in [Profiles -> V], NEW g \in [Profiles -> V],
                        \A c \in Profiles : Rank[c] < Rank[p] => f[c] = g[c]
                 PROVE  E[p][f] = E[p][g]
    BY DEF Descends
  <2>2. OfParents(f, p) = OfParents(g, p)
    BY <1>7, <2>1
  <2> QED
    BY <1>4, <2>2
<1>9. Rank \in [Profiles -> Nat] /\ <<>> \in V
  BY <1>3, ProfileAssumption
<1>10. PICK f : Solution(Profiles, V, E, f)
  BY <1>6, <1>8, <1>9, RecursionDefines, Zenon
<1>11. \A g : [p \in Profiles |-> Asking!FlattenSeq(OfParents(g, p)) \o OwnFiles(p)]
            = [p \in Profiles |->
                  Asking!FlattenSeq([i \in DOMAIN Parents[p] |-> g[Parents[p][i]]])
                  \o [i \in DOMAIN Asking!Layers |-> <<p, Asking!Layers[i]>>]]
  <2> SUFFICES ASSUME NEW g
               PROVE  \A p \in Profiles :
                   Asking!FlattenSeq(OfParents(g, p)) \o OwnFiles(p)
                     = Asking!FlattenSeq([i \in DOMAIN Parents[p] |-> g[Parents[p][i]]])
                       \o [i \in DOMAIN Asking!Layers |-> <<p, Asking!Layers[i]>>]
    BY Zenon
  <2>1. ASSUME NEW p \in Profiles
        PROVE  OfParents(g, p) = [i \in DOMAIN Parents[p] |-> g[Parents[p][i]]]
    BY <1>1 DEF OfParents
  <2> QED
    BY <2>1 DEF OwnFiles
<1>12. f \in [Profiles -> V]
       /\ f = [p \in Profiles |-> Asking!FlattenSeq(OfParents(f, p)) \o OwnFiles(p)]
  BY <1>4, <1>10 DEF Solution
<1>13. PICK c : c = Asking!FilesOf
  OBVIOUS
<1>14. c = [p \in Profiles |-> Asking!FlattenSeq(OfParents(c, p)) \o OwnFiles(p)]
  <2>1. f = [p \in Profiles |->
                  Asking!FlattenSeq([i \in DOMAIN Parents[p] |-> f[Parents[p][i]]])
                  \o [i \in DOMAIN Asking!Layers |-> <<p, Asking!Layers[i]>>]]
    BY <1>11, <1>12, Zenon
  <2>2. c = [p \in Profiles |->
                  Asking!FlattenSeq([i \in DOMAIN Parents[p] |-> c[Parents[p][i]]])
                  \o [i \in DOMAIN Asking!Layers |-> <<p, Asking!Layers[i]>>]]
    BY <1>13, <2>1 DEF Asking!FilesOf
  <2> QED
    BY <1>11, <2>2, Zenon
<1>15. ASSUME NEW p \in Profiles, c[p] # f[p]
       PROVE  FALSE
  <2>1. PICK odd : odd = {Rank[e] : e \in {a \in Profiles : c[a] # f[a]}}
    OBVIOUS
  <2>2. odd \subseteq Nat /\ odd # {}
    BY <1>9, <1>15, <2>1
  <2>3. PICK k \in odd : \A j \in odd : k <= j
    BY <2>2, Least
  <2>4. PICK e \in Profiles : Rank[e] = k /\ c[e] # f[e]
    BY <2>1, <2>3
  <2>5. ASSUME NEW a \in Profiles, Rank[a] < Rank[e]
        PROVE  c[a] = f[a]
    <3>1. Rank[a] \in Nat /\ Rank[e] \in Nat /\ Rank[a] \notin odd
      BY <1>9, <2>3, <2>4, <2>5
    <3> QED
      BY <2>1, <3>1
  <2>6. OfParents(c, e) = OfParents(f, e)
    BY <1>7, <2>5
  <2>7. c[e] = Asking!FlattenSeq(OfParents(c, e)) \o OwnFiles(e)
    BY <1>14
  <2>8. f[e] = Asking!FlattenSeq(OfParents(f, e)) \o OwnFiles(e)
    BY <1>12
  <2> QED
    BY <2>4, <2>6, <2>7, <2>8
<1>16. c \in [Profiles -> Seq(Places)]
  <2>1. ASSUME NEW p \in Profiles PROVE c[p] \in Seq(Places)
    BY <1>3, <1>12, <1>15
  <2> QED
    BY <1>14, <2>1
<1>17. \A p \in Profiles : c[p] = Asking!FlattenSeq(OfParents(c, p)) \o OwnFiles(p)
  BY <1>14
<1> QED
  BY <1>13, <1>16, <1>17

\* v is what the profiles say, each from its parents and then its own four files.
Judges(says, v) ==
    /\ v \in [Profiles -> Hearing]
    /\ \A p \in Profiles :
           v[p] = Over(Over(Over(Over(Asking!FromParents(v, p),
                      says[<<p, "use">>]), says[<<p, "use_stable">>]),
                      says[<<p, "package">>]), says[<<p, "package_stable">>])

\* The four files of a profile come after what is inherited.
LEMMA OwnFilesSpeak ==
    ASSUME NEW says, NEW p \in Profiles, NEW s \in Seq(Places), NEW v,
           LastWord(says, s, Len(s), v)
    PROVE  LastWord(says, s \o OwnFiles(p), Len(s \o OwnFiles(p)),
               Over(Over(Over(Over(v,
                   says[<<p, "use">>]), says[<<p, "use_stable">>]),
                   says[<<p, "package">>]), says[<<p, "package_stable">>]))
<1>1. PICK own : own = OwnFiles(p)
  OBVIOUS
<1>2. PICK a, b, c, d : /\ a = says[<<p, "use">>] /\ b = says[<<p, "use_stable">>]
                        /\ c = says[<<p, "package">>] /\ d = says[<<p, "package_stable">>]
  OBVIOUS
<1>3. /\ own \in Seq(Places) /\ Len(own) = 4
      /\ says[own[1]] = a /\ says[own[2]] = b /\ says[own[3]] = c /\ says[own[4]] = d
  BY <1>1, <1>2, OwnFilesAre
<1>4. 0 + 1 = 1 /\ 1 + 1 = 2 /\ 2 + 1 = 3 /\ 3 + 1 = 4 /\ 0 \in Nat /\ 1 \in Nat /\ 2 \in Nat /\ 3 \in Nat
  OBVIOUS
<1>5. LastWord(says, own, 1, Over("unset", a))
  BY <1>3, <1>4, LastWordStart, LastWordMore
<1>6. LastWord(says, own, 2, Over(Over("unset", a), b))
  BY <1>3, <1>4, <1>5, LastWordMore
<1>7. LastWord(says, own, 3, Over(Over(Over("unset", a), b), c))
  BY <1>3, <1>4, <1>6, LastWordMore
<1>8. LastWord(says, own, 4, Over(Over(Over(Over("unset", a), b), c), d))
  BY <1>3, <1>4, <1>7, LastWordMore
<1>9. LastWord(says, s \o own, Len(s \o own), Over(v, Over(Over(Over(Over("unset", a), b), c), d)))
  BY <1>3, <1>8, LastWordTogether
<1>10. Over(v, Over(Over(Over(Over("unset", a), b), c), d)) = Over(Over(Over(Over(v, a), b), c), d)
  BY DEF Over
<1> QED
  BY <1>1, <1>2, <1>9, <1>10

\* What is inherited is the last word of the parents' files.
LEMMA ParentsSpeak ==
    ASSUME NEW says, NEW v \in [Profiles -> Hearing], NEW p \in Profiles,
           \A i \in 1 .. Len(Parents[p]) :
               LET heard == Asking!FilesOf[Parents[p][i]]
               IN  LastWord(says, heard, Len(heard), v[Parents[p][i]])
    PROVE  LET heard == Asking!FlattenSeq(OfParents(Asking!FilesOf, p))
           IN  LastWord(says, heard, Len(heard), Asking!FromParents(v, p))
<1>1. PICK s \in Seq(Profiles) : s = Parents[p]
  BY ProfileAssumption
<1>2. PICK n \in Nat : n = Len(s)
  BY <1>1
<1>3. PICK h : h = OfParents(Asking!FilesOf, p)
  OBVIOUS
<1>4. h = [i \in 1 .. n |-> Asking!FilesOf[s[i]]]
  BY <1>1, <1>2, <1>3 DEF OfParents
<1>5. ASSUME NEW i \in 1 .. n
      PROVE  h[i] \in Seq(Places) /\ LastWord(says, h[i], Len(h[i]), v[s[i]])
  <2>1. PICK c : c = Parents[p][i] /\ c = s[i]
    BY <1>1
  <2>2. i \in 1 .. Len(Parents[p]) /\ c \in Profiles
    BY <1>1, <1>2, <2>1
  <2>3. h[i] = Asking!FilesOf[c]
    BY <1>4, <2>1
  <2>4. LastWord(says, Asking!FilesOf[c], Len(Asking!FilesOf[c]), v[c])
    BY <2>1, <2>2
  <2>5. Asking!FilesOf[c] \in Seq(Places)
    BY <2>2, FilesOfIs
  <2> QED
    BY <2>1, <2>3, <2>4, <2>5
<1> DEFINE Flat(k) == Evaluating!FlattenSeq([i \in 1 .. k |-> h[i]])
           Good(k) == \E w : /\ LastWord(v, s, k, w)
                             /\ LastWord(says, Flat(k), Len(Flat(k)), w)
<1>6. PICK odd : odd = {k \in 0 .. n : ~Good(k)}
  OBVIOUS
<1>7. ASSUME odd # {} PROVE FALSE
  <2>1. odd \subseteq Nat
    BY <1>6
  <2>2. PICK m \in odd : \A k \in odd : m <= k
    BY <1>7, <2>1, Least
  <2>3. m \in 0 .. n /\ ~Good(m)
    BY <1>6
  <2>4. CASE m = 0
    <3>1. [i \in 1 .. 0 |-> h[i]] = <<>>
      OBVIOUS
    <3>2. Flat(0) = <<>>
      BY <3>1, FlattenNothing
    <3>3. LastWord(v, s, 0, "unset") /\ LastWord(says, Flat(0), Len(Flat(0)), "unset")
      BY <3>2, LastWordStart
    <3> QED
      BY <2>3, <2>4, <3>3
  <2>5. CASE m # 0
    <3>1. PICK k \in Nat : k = m - 1
      BY <2>3, <2>5
    <3>2. k \in 0 .. n /\ k \notin odd /\ k + 1 = m /\ m \in 1 .. n
      BY <2>2, <2>3, <3>1
    <3>3. PICK w : LastWord(v, s, k, w) /\ LastWord(says, Flat(k), Len(Flat(k)), w)
      BY <1>6, <3>2
    <3>4. \A i \in 1 .. k + 1 : h[i] \in Seq(Places)
      BY <1>5, <3>2
    <3>5. Flat(k) \in Seq(Places) /\ Flat(k + 1) = Flat(k) \o h[k + 1]
      BY <3>4, FlattenOneMore
    <3>6. PICK t : t = Flat(k)
      OBVIOUS
    <3>7. LastWord(says, t \o h[m], Len(t \o h[m]), Over(w, v[s[m]]))
      BY <1>5, <3>2, <3>3, <3>5, <3>6, LastWordTogether
    <3>8. LastWord(v, s, m, Over(w, v[s[m]]))
      BY <3>2, <3>3, LastWordMore
    <3>9. Flat(m) = t \o h[m]
      BY <3>2, <3>5, <3>6
    <3> QED
      BY <2>3, <3>7, <3>8, <3>9
  <2> QED
    BY <2>4, <2>5
<1>8. Good(n)
  <2>1. n \in 0 .. n
    BY <1>2
  <2> QED
    BY <1>6, <1>7, <2>1
<1>9. PICK w : LastWord(v, s, n, w) /\ LastWord(says, Flat(n), Len(Flat(n)), w)
  BY <1>8
<1>10. w = Asking!FromParents(v, p)
  BY <1>1, <1>2, <1>9, FromParentsIsLast, LastWordUnique
<1>11. Flat(n) = Asking!FlattenSeq(h)
  <2>1. h = [i \in 1 .. n |-> h[i]]
    BY <1>4
  <2> QED
    BY <2>1, SameFlatten
<1> QED
  BY <1>3, <1>9, <1>10, <1>11

\* A profile's verdict is the last word of its sequence of files.
LEMMA HierarchySpeaks ==
    ASSUME NEW says, NEW v, Judges(says, v), NEW p \in Profiles
    PROVE  LastWord(says, Asking!FilesOf[p], Len(Asking!FilesOf[p]), v[p])
<1> DEFINE Good(q) == LastWord(says, Asking!FilesOf[q], Len(Asking!FilesOf[q]), v[q])
<1>1. Rank \in [Profiles -> Nat]
  BY ProfileAssumption
<1>2. PICK odd : odd = {Rank[q] : q \in {c \in Profiles : ~Good(c)}}
  OBVIOUS
<1>3. ASSUME odd # {} PROVE FALSE
  <2>1. odd \subseteq Nat
    BY <1>1, <1>2
  <2>2. PICK k \in odd : \A j \in odd : k <= j
    BY <1>3, <2>1, Least
  <2>3. PICK q \in Profiles : Rank[q] = k /\ ~Good(q)
    BY <1>2, <2>2
  <2>4. ASSUME NEW i \in 1 .. Len(Parents[q]) PROVE Good(Parents[q][i])
    <3>1. PICK c : c = Parents[q][i]
      OBVIOUS
    <3>2. c \in Profiles /\ Rank[c] < Rank[q]
      BY <3>1, ProfileAssumption
    <3>3. Rank[c] \notin odd
      BY <1>1, <2>1, <2>2, <2>3, <3>2
    <3>4. Good(c)
      BY <1>2, <3>2, <3>3
    <3> QED
      BY <3>1, <3>4
  <2>5. PICK inherited : inherited = Asking!FlattenSeq(OfParents(Asking!FilesOf, q))
    OBVIOUS
  <2>6. v \in [Profiles -> Hearing]
    BY DEF Judges
  <2>7. LastWord(says, inherited, Len(inherited), Asking!FromParents(v, q))
    BY <2>4, <2>5, <2>6, ParentsSpeak
  <2>8. inherited \in Seq(Places)
    <3>1. PICK n, h : /\ n = Len(Parents[q])
                      /\ h = [i \in 1 .. Len(Parents[q]) |-> Asking!FilesOf[Parents[q][i]]]
      OBVIOUS
    <3>2. n \in Nat /\ \A i \in 1 .. n : h[i] \in Seq(Places)
      <4>1. Parents[q] \in Seq(Profiles)
        BY ProfileAssumption
      <4> QED
        BY <3>1, <4>1, FilesOfIs
    <3>3. Asking!FlattenSeq([i \in 1 .. n |-> h[i]]) \in Seq(Places)
      BY <3>2, FlattenTyped
    <3>4. OfParents(Asking!FilesOf, q) = [i \in 1 .. n |-> h[i]]
      BY <3>1 DEF OfParents
    <3> QED
      BY <2>5, <3>3, <3>4
  <2>9. Asking!FilesOf[q] = inherited \o OwnFiles(q)
    BY <2>5, FilesOfIs
  <2>10. Good(q)
    BY <2>7, <2>8, <2>9, OwnFilesSpeak DEF Judges
  <2> QED
    BY <2>3, <2>10
<1> QED
  BY <1>2, <1>3

-----------------------------------------------------------------------------
(* algorithm_5_1_force and algorithm_5_1_mask                              *)

\* What a file says of a flag.
Heard(purpose, f) ==
    [x \in Places |->
        IF x[2] \in Asking!Stable /\ ~Asking!is_stable THEN "unset"
        ELSE Asking!algo_5_1_helper(files[x[1]][purpose][x[2]], f, "unset")]

LEMMA HeardIs ==
    ASSUME NEW purpose, NEW f, NEW x \in Places
    PROVE  /\ Heard(purpose, f)[x] \in Hearing
           /\ Heard(purpose, f)[x] # "unset" <=> Asking!Speaks(x, purpose, f)
           /\ Heard(purpose, f)[x] = "yes" <=>
                  /\ Asking!Speaks(x, purpose, f)
                  /\ \/ Asking!On(f) \in files[x[1]][purpose][x[2]]
                     \/ /\ Asking!All \in files[x[1]][purpose][x[2]]
                        /\ Asking!Off(f) \notin files[x[1]][purpose][x[2]]
<1>1. PICK set : set = files[x[1]][purpose][x[2]]
  OBVIOUS
<1>2. PICK said : said = Asking!algo_5_1_helper(set, f, "unset")
  OBVIOUS
<1>3. PICK on, off, all, nothing :
          on = Asking!On(f) /\ off = Asking!Off(f) /\ all = Asking!All /\ nothing = Asking!Nothing
  OBVIOUS
<1>4. said = IF on \in set THEN "yes" ELSE IF off \in set THEN "no"
             ELSE IF all \in set THEN "yes" ELSE IF nothing \in set THEN "no" ELSE "unset"
  BY <1>2, <1>3 DEF Asking!algo_5_1_helper
<1>5. Asking!Mentions(set, f) <=> on \in set \/ off \in set \/ all \in set \/ nothing \in set
  BY <1>3 DEF Asking!Mentions
<1>6. Heard(purpose, f)[x] = IF x[2] \in Asking!Stable /\ ~Asking!is_stable THEN "unset" ELSE said
  BY <1>1, <1>2 DEF Heard
<1>7. Asking!Speaks(x, purpose, f) <=>
          (x[2] \in Asking!Stable => Asking!is_stable) /\ Asking!Mentions(set, f)
  BY <1>1, Zenon DEF Asking!Speaks
<1>8. /\ said \in Hearing
      /\ said # "unset" <=> Asking!Mentions(set, f)
      /\ said = "yes" <=> on \in set \/ (all \in set /\ off \notin set)
  BY <1>4, <1>5 DEF Hearing
<1>9. "unset" \in Hearing /\ "unset" # "yes"
  BY DEF Hearing
<1>10. said = "yes" => Asking!Mentions(set, f)
  BY <1>8, <1>9
<1> QED
  BY <1>1, <1>3, <1>6, <1>7, <1>8, <1>9, <1>10, Zenon

\* A file is consulted after those before it.
LEMMA ConsultIsOver ==
    ASSUME NEW purpose, NEW f, NEW p \in Profiles, NEW before,
           NEW layer \in {"use", "use_stable", "package", "package_stable"}
    PROVE  Asking!Consult(purpose, p, layer, f, before)
               = Over(before, Heard(purpose, f)[<<p, layer>>])
<1>1. <<p, layer>> \in Places
  BY DEF Places
<1>2. PICK set : set = files[p][purpose][layer]
  OBVIOUS
<1>3. Heard(purpose, f)[<<p, layer>>]
          = IF layer \in Asking!Stable /\ ~Asking!is_stable THEN "unset"
            ELSE Asking!algo_5_1_helper(set, f, "unset")
  BY <1>1, <1>2 DEF Heard
<1>4. Asking!Consult(purpose, p, layer, f, before)
          = IF layer \in Asking!Stable /\ ~Asking!is_stable THEN before
            ELSE Asking!algo_5_1_helper(set, f, before)
  BY <1>2 DEF Asking!Consult
<1>5. Asking!algo_5_1_helper(set, f, before) = Over(before, Asking!algo_5_1_helper(set, f, "unset"))
  BY DEF Asking!algo_5_1_helper, Over
<1> QED
  BY <1>3, <1>4, <1>5 DEF Over

LEMMA OwnIsOver ==
    ASSUME NEW purpose, NEW f, NEW p \in Profiles, NEW inherited
    PROVE  Asking!Own(purpose, p, f, inherited)
               = Over(Over(Over(Over(inherited,
                     Heard(purpose, f)[<<p, "use">>]), Heard(purpose, f)[<<p, "use_stable">>]),
                     Heard(purpose, f)[<<p, "package">>]), Heard(purpose, f)[<<p, "package_stable">>])
<1>1. PICK a, b, c, d :
          /\ a = Asking!Consult(purpose, p, "use", f, inherited)
          /\ b = Asking!Consult(purpose, p, "use_stable", f, a)
          /\ c = Asking!Consult(purpose, p, "package", f, b)
          /\ d = Asking!Consult(purpose, p, "package_stable", f, c)
  OBVIOUS
<1>2. Asking!Own(purpose, p, f, inherited) = d
  BY <1>1, Zenon DEF Asking!Own
<1>3. \A before : \A layer \in {"use", "use_stable", "package", "package_stable"} :
          Asking!Consult(purpose, p, layer, f, before)
            = Over(before, Heard(purpose, f)[<<p, layer>>])
  BY ConsultIsOver
<1>4. /\ "use" \in {"use", "use_stable", "package", "package_stable"}
      /\ "use_stable" \in {"use", "use_stable", "package", "package_stable"}
      /\ "package" \in {"use", "use_stable", "package", "package_stable"}
      /\ "package_stable" \in {"use", "use_stable", "package", "package_stable"}
  OBVIOUS
<1>5. /\ a = Over(inherited, Heard(purpose, f)[<<p, "use">>])
      /\ b = Over(a, Heard(purpose, f)[<<p, "use_stable">>])
      /\ c = Over(b, Heard(purpose, f)[<<p, "package">>])
      /\ d = Over(c, Heard(purpose, f)[<<p, "package_stable">>])
  BY <1>1, <1>3, <1>4, Zenon
<1> QED
  BY <1>2, <1>5

\* The parents' verdicts are all that matters.
LEMMA FromParentsSame ==
    ASSUME NEW p \in Profiles, NEW v, NEW w,
           \A i \in 1 .. Len(Parents[p]) : v[Parents[p][i]] = w[Parents[p][i]]
    PROVE  Asking!FromParents(v, p) = Asking!FromParents(w, p)
<1>1. PICK s \in Seq(Profiles) : s = Parents[p]
  BY ProfileAssumption
<1>2. PICK n \in Nat : n = Len(s)
  BY <1>1
<1>3. PICK S : S = {i \in 1 .. n : v[s[i]] # "unset"}
  OBVIOUS
<1>4. S = {i \in 1 .. n : w[s[i]] # "unset"}
  BY <1>1, <1>2, <1>3
<1>5. Asking!FromParents(v, p) = IF S = {} THEN "unset" ELSE v[s[Asking!Max(S)]]
  BY <1>1, <1>2, <1>3 DEF Asking!FromParents
<1>6. Asking!FromParents(w, p) = IF S = {} THEN "unset" ELSE w[s[Asking!Max(S)]]
  BY <1>1, <1>2, <1>4 DEF Asking!FromParents
<1>7. S # {} => Asking!Max(S) \in 1 .. n
  BY <1>3, Greatest
<1> QED
  BY <1>1, <1>2, <1>5, <1>6, <1>7

\* The recursion over the parents comes to an end, and gives each profile its verdict.
LEMMA VerdictsExist ==
    ASSUME NEW purpose, NEW f
    PROVE  \E v : /\ Judges(Heard(purpose, f), v)
                  /\ v[profile] = Asking!algorithm_5_1(purpose, f)
<1>1. PICK E : E = [p \in Profiles |-> [v \in [Profiles -> Hearing] |->
                        Asking!Own(purpose, p, f, Asking!FromParents(v, p))]]
  OBVIOUS
<1>2. ASSUME NEW p \in Profiles, NEW i \in 1 .. Len(Parents[p])
      PROVE  Parents[p][i] \in Profiles /\ Rank[Parents[p][i]] < Rank[p]
  BY ProfileAssumption
<1>3. ASSUME NEW p \in Profiles, NEW v \in [Profiles -> Hearing]
      PROVE  Asking!Own(purpose, p, f, Asking!FromParents(v, p)) \in Hearing
  <2>1. Asking!FromParents(v, p) \in Hearing
    BY FromParentsIsLast
  <2>2. /\ <<p, "use">> \in Places /\ <<p, "use_stable">> \in Places
        /\ <<p, "package">> \in Places /\ <<p, "package_stable">> \in Places
    BY DEF Places
  <2>3. \A x \in Places : Heard(purpose, f)[x] \in Hearing
    BY HeardIs
  <2>4. \A a, b \in Hearing : Over(a, b) \in Hearing
    BY DEF Over
  <2>5. PICK i, a, b, c, d :
            /\ i = Asking!FromParents(v, p)
            /\ a = Heard(purpose, f)[<<p, "use">>] /\ b = Heard(purpose, f)[<<p, "use_stable">>]
            /\ c = Heard(purpose, f)[<<p, "package">>] /\ d = Heard(purpose, f)[<<p, "package_stable">>]
    OBVIOUS
  <2>6. {i, a, b, c, d} \subseteq Hearing
    BY <2>1, <2>2, <2>3, <2>5
  <2>7. Asking!Own(purpose, p, f, i) = Over(Over(Over(Over(i, a), b), c), d)
    BY <2>5, OwnIsOver
  <2>8. Over(Over(Over(Over(i, a), b), c), d) \in Hearing
    BY <2>4, <2>6
  <2> QED
    BY <2>5, <2>7, <2>8
<1>4. E \in [Profiles -> [[Profiles -> Hearing] -> Hearing]]
  BY <1>1, <1>3
<1>5. ASSUME NEW p \in Profiles, NEW v, NEW w,
             \A c \in Profiles : Rank[c] < Rank[p] => v[c] = w[c]
      PROVE  Asking!FromParents(v, p) = Asking!FromParents(w, p)
  <2>1. \A i \in 1 .. Len(Parents[p]) : v[Parents[p][i]] = w[Parents[p][i]]
    BY <1>2, <1>5
  <2> QED
    BY <2>1, FromParentsSame
<1>6. Descends(Profiles, Hearing, Rank, E)
  <2>1. SUFFICES ASSUME NEW p \in Profiles,
                        NEW v \in [Profiles -> Hearing], NEW w \in [Profiles -> Hearing],
                        \A c \in Profiles : Rank[c] < Rank[p] => v[c] = w[c]
                 PROVE  E[p][v] = E[p][w]
    BY DEF Descends
  <2>2. Asking!FromParents(v, p) = Asking!FromParents(w, p)
    BY <1>5, <2>1
  <2> QED
    BY <1>1, <2>2
<1>7. Rank \in [Profiles -> Nat] /\ "unset" \in Hearing
  BY ProfileAssumption DEF Hearing
<1>8. PICK v : Solution(Profiles, Hearing, E, v)
  BY <1>4, <1>6, <1>7, RecursionDefines, Zenon
<1>9. /\ v \in [Profiles -> Hearing]
      /\ v = [p \in Profiles |-> Asking!Own(purpose, p, f, Asking!FromParents(v, p))]
  BY <1>1, <1>8 DEF Solution
<1>10. PICK c : c = CHOOSE w : w = [p \in Profiles |-> Asking!Own(purpose, p, f, Asking!FromParents(w, p))]
  OBVIOUS
<1>11. c = [p \in Profiles |-> Asking!Own(purpose, p, f, Asking!FromParents(c, p))]
  BY <1>9, <1>10
<1>12. Asking!algorithm_5_1(purpose, f) = c[profile]
  BY <1>10, Zenon DEF Asking!algorithm_5_1
<1>13. ASSUME NEW p \in Profiles, c[p] # v[p]
       PROVE  FALSE
  <2>1. PICK odd : odd = {Rank[e] : e \in {a \in Profiles : c[a] # v[a]}}
    OBVIOUS
  <2>2. odd \subseteq Nat /\ odd # {}
    BY <1>7, <1>13, <2>1
  <2>3. PICK k \in odd : \A j \in odd : k <= j
    BY <2>2, Least
  <2>4. PICK e \in Profiles : Rank[e] = k /\ c[e] # v[e]
    BY <2>1, <2>3
  <2>5. ASSUME NEW a \in Profiles, Rank[a] < Rank[e]
        PROVE  c[a] = v[a]
    <3>1. Rank[a] \in Nat /\ Rank[e] \in Nat /\ Rank[a] \notin odd
      BY <1>7, <2>3, <2>4, <2>5
    <3> QED
      BY <2>1, <3>1
  <2>6. Asking!FromParents(c, e) = Asking!FromParents(v, e)
    BY <1>5, <2>5
  <2>7. c[e] = Asking!Own(purpose, e, f, Asking!FromParents(c, e))
    BY <1>11
  <2>8. v[e] = Asking!Own(purpose, e, f, Asking!FromParents(v, e))
    BY <1>9
  <2> QED
    BY <2>4, <2>6, <2>7, <2>8
<1>14. v[profile] = Asking!algorithm_5_1(purpose, f)
  BY <1>12, <1>13, ProfileAssumption
<1>15. ASSUME NEW p \in Profiles
       PROVE  v[p] = Over(Over(Over(Over(Asking!FromParents(v, p),
                  Heard(purpose, f)[<<p, "use">>]), Heard(purpose, f)[<<p, "use_stable">>]),
                  Heard(purpose, f)[<<p, "package">>]), Heard(purpose, f)[<<p, "package_stable">>])
  <2>1. v[p] = Asking!Own(purpose, p, f, Asking!FromParents(v, p))
    BY <1>9
  <2> QED
    BY <2>1, OwnIsOver
<1>16. Judges(Heard(purpose, f), v)
  BY <1>9, <1>15 DEF Judges
<1> QED
  BY <1>14, <1>16

\* The verdict is yes exactly if the last file that mentions the flag says so.
LEMMA VerdictIsLast ==
    ASSUME NEW purpose, NEW f
    PROVE  Asking!algorithm_5_1(purpose, f) = "yes" <=> Asking!LastSays(purpose, f)
<1>1. PICK says : says = Heard(purpose, f)
  OBVIOUS
<1>2. PICK v : Judges(says, v) /\ v[profile] = Asking!algorithm_5_1(purpose, f)
  BY <1>1, VerdictsExist
<1>3. PICK s \in Seq(Places) : s = Asking!FilesOf[profile]
  BY FilesOfIs, ProfileAssumption
<1>4. PICK n \in Nat : n = Len(s)
  BY <1>3
<1>5. LastWord(says, s, n, v[profile])
  BY <1>2, <1>3, <1>4, HierarchySpeaks, ProfileAssumption
<1>6. /\ \A i \in 1 .. n : s[i] \in Places
      /\ \A i \in 1 .. n : \A j \in i + 1 .. n : j \in 1 .. n
  BY <1>4
<1> DEFINE Yes(x) ==
               LET tokens == files[x[1]][purpose][x[2]]
               IN  Asking!On(f) \in tokens \/ (Asking!All \in tokens /\ Asking!Off(f) \notin tokens)
<1>7. \A x \in Places : /\ says[x] = "yes" <=> Asking!Speaks(x, purpose, f) /\ Yes(x)
                        /\ says[x] = "unset" <=> ~Asking!Speaks(x, purpose, f)
  BY <1>1, HeardIs
<1>8. Asking!LastSays(purpose, f) <=>
          \E i \in 1 .. n : /\ Asking!Speaks(s[i], purpose, f)
                            /\ \A j \in i + 1 .. n : ~Asking!Speaks(s[j], purpose, f)
                            /\ Yes(s[i])
  BY <1>3, <1>4, Zenon DEF Asking!LastSays
<1> HIDE DEF Yes
<1>9. Asking!LastSays(purpose, f) <=>
          \E i \in 1 .. n : says[s[i]] = "yes" /\ \A j \in i + 1 .. n : says[s[j]] = "unset"
  BY <1>6, <1>7, <1>8
<1>10. v[profile] = "yes" => Asking!LastSays(purpose, f)
  BY <1>5, <1>9 DEF LastWord
<1>11. ASSUME Asking!LastSays(purpose, f) PROVE v[profile] = "yes"
  <2>1. LastWord(says, s, n, "yes")
    BY <1>9, <1>11 DEF LastWord
  <2> QED
    BY <1>5, <2>1, LastWordUnique
<1> QED
  BY <1>2, <1>10, <1>11

-----------------------------------------------------------------------------
(* The loop of effective_useflags                                          *)

\* The first n tokens enable a flag if one of them names it and none clears it later.
LEMMA ParsedUseKeeps ==
    ASSUME NEW T, NEW tokens \in Seq(T), NEW f, f # Star
    PROVE  /\ Asking!On(f) \in Asking!ParsedUse(tokens) <=> Asking!Keeps(tokens, f)
           /\ Asking!Off(f) \notin Asking!ParsedUse(tokens)
<1>1. PICK n \in Nat : n = Len(tokens)
  OBVIOUS
<1>2. PICK D, rank : D = 0 .. n /\ rank = [m \in 0 .. n |-> m]
  OBVIOUS
<1>3. PICK V : V = SUBSET ({Asking!All} \cup {Asking!On(tokens[i].flag) : i \in 1 .. n})
  OBVIOUS
<1>4. PICK E : E = [m \in D |-> [g \in [D -> V] |->
                        IF m = 0 THEN {} ELSE Asking!InsertDefault(g[m - 1], tokens[m])]]
  OBVIOUS
<1>5. E \in [D -> [[D -> V] -> V]]
  <2>1. ASSUME NEW m \in D, NEW g \in [D -> V], m # 0
        PROVE  Asking!InsertDefault(g[m - 1], tokens[m]) \in V
    <3>1. m \in 1 .. n /\ m - 1 \in D
      BY <1>2, <2>1
    <3>2. g[m - 1] \in V
      BY <3>1
    <3> QED
      BY <1>3, <3>1, <3>2 DEF Asking!InsertDefault
  <2>2. {} \in V
    BY <1>3
  <2> QED
    BY <1>4, <2>1, <2>2
<1>6. rank \in [D -> Nat] /\ {} \in V
  BY <1>2, <1>3
<1>7. Descends(D, V, rank, E)
  <2>1. SUFFICES ASSUME NEW m \in D, NEW g \in [D -> V], NEW h \in [D -> V],
                        \A c \in D : rank[c] < rank[m] => g[c] = h[c]
                 PROVE  E[m][g] = E[m][h]
    BY DEF Descends
  <2>2. m # 0 => m - 1 \in D /\ rank[m - 1] < rank[m]
    BY <1>2
  <2> QED
    BY <1>4, <2>1, <2>2
<1>8. PICK g : Solution(D, V, E, g)
  BY <1>5, <1>6, <1>7, RecursionDefines, Zenon
<1>9. g = [m \in 0 .. n |-> IF m = 0 THEN {} ELSE Asking!InsertDefault(g[m - 1], tokens[m])]
  BY <1>2, <1>4, <1>8 DEF Solution
<1>10. PICK c : c = CHOOSE h : h = [m \in 0 .. n |->
                        IF m = 0 THEN {} ELSE Asking!InsertDefault(h[m - 1], tokens[m])]
  OBVIOUS
<1>11. c = [m \in 0 .. n |-> IF m = 0 THEN {} ELSE Asking!InsertDefault(c[m - 1], tokens[m])]
  BY <1>9, <1>10
<1>12. Asking!ParsedUse(tokens) = c[n]
  BY <1>1, <1>10, Zenon DEF Asking!ParsedUse
<1>13. PICK on, off : on = Asking!On(f) /\ off = Asking!Off(f)
  OBVIOUS
<1>14. /\ on # Asking!All /\ off # Asking!All
       /\ \A x : Asking!On(x) = on <=> x = f
       /\ \A x : Asking!On(x) # off
       /\ Asking!Nothing.flag # f
  BY <1>13 DEF Asking!On, Asking!Off, Asking!All, Asking!Nothing
<1> DEFINE Kept(m) == \E i \in 1 .. m :
               tokens[i].flag = f /\ \A j \in i + 1 .. m : tokens[j] # Asking!Nothing
           Good(m) == (on \in c[m] <=> Kept(m)) /\ off \notin c[m]
<1>15. PICK odd : odd = {m \in 0 .. n : ~Good(m)}
  OBVIOUS
<1>16. ASSUME odd # {} PROVE FALSE
  <2>1. odd \subseteq Nat
    BY <1>15
  <2>2. PICK m \in odd : \A k \in odd : m <= k
    BY <1>16, <2>1, Least
  <2>3. m \in 0 .. n /\ ~Good(m)
    BY <1>15
  <2>4. CASE m = 0
    <3>1. c[m] = {} /\ ~Kept(m)
      BY <1>11, <2>3, <2>4
    <3> QED
      BY <2>3, <3>1
  <2>5. CASE m # 0
    <3>1. PICK k \in Nat : k = m - 1
      BY <2>3, <2>5
    <3>2. k \in 0 .. n /\ k \notin odd /\ k + 1 = m /\ m \in 1 .. n
      BY <2>2, <2>3, <3>1
    <3>3. Good(k)
      BY <1>15, <3>2
    <3>4. PICK x : x = tokens[m]
      OBVIOUS
    <3>5. c[m] = Asking!InsertDefault(c[k], x)
      <4>1. c[m] = IF m = 0 THEN {} ELSE Asking!InsertDefault(c[m - 1], tokens[m])
        BY <1>11, <2>3
      <4> QED
        BY <2>5, <3>1, <3>4, <4>1
    <3>6. Kept(m) <=> (x.flag = f \/ (Kept(k) /\ x # Asking!Nothing))
      <4>1. ASSUME x.flag = f PROVE Kept(m)
        <5>1. m \in 1 .. m /\ \A j \in m + 1 .. m : tokens[j] # Asking!Nothing
          BY <3>2
        <5> QED
          BY <3>4, <4>1, <5>1
      <4>2. ASSUME Kept(k), x # Asking!Nothing PROVE Kept(m)
        <5>1. PICK i \in 1 .. k : tokens[i].flag = f /\ \A j \in i + 1 .. k : tokens[j] # Asking!Nothing
          BY <4>2
        <5>2. i \in 1 .. m /\ \A j \in i + 1 .. m : j = m \/ j \in i + 1 .. k
          BY <3>2
        <5> QED
          BY <3>4, <4>2, <5>1, <5>2
      <4>3. ASSUME Kept(m), x.flag # f PROVE Kept(k) /\ x # Asking!Nothing
        <5>1. PICK i \in 1 .. m : tokens[i].flag = f /\ \A j \in i + 1 .. m : tokens[j] # Asking!Nothing
          BY <4>3
        <5>2. i # m
          BY <3>4, <4>3, <5>1
        <5>3. i \in 1 .. k /\ m \in i + 1 .. m /\ \A j \in i + 1 .. k : j \in i + 1 .. m
          BY <3>2, <5>2
        <5> QED
          BY <3>4, <5>1, <5>3
      <4> QED
        BY <4>1, <4>2, <4>3
    <3> HIDE DEF Kept
    <3>7. CASE x = Asking!Nothing
      <4>1. c[m] = {Asking!All}
        BY <3>5, <3>7 DEF Asking!InsertDefault
      <4>2. ~Kept(m)
        BY <1>14, <3>6, <3>7
      <4> QED
        BY <1>14, <2>3, <4>1, <4>2
    <3>8. CASE x # Asking!Nothing
      <4>1. c[m] = c[k] \cup {Asking!On(x.flag)}
        BY <3>5, <3>8 DEF Asking!InsertDefault
      <4> QED
        BY <1>14, <2>3, <3>3, <3>6, <3>8, <4>1
    <3> QED
      BY <3>7, <3>8
  <2> QED
    BY <2>4, <2>5
<1>17. Good(n)
  <2>1. n \in 0 .. n
    BY <1>1
  <2> QED
    BY <1>15, <1>16, <2>1
<1>18. Kept(n) <=> Asking!Keeps(tokens, f)
  <2>1. DOMAIN tokens = 1 .. n
    BY <1>1
  <2> QED
    BY <1>1, <2>1 DEF Asking!Keeps
<1> QED
  BY <1>12, <1>13, <1>17, <1>18

\* The lists that are parsed are sequences.
LEMMA ListIsSequence ==
    ASSUME MInv, NEW key PROVE ListOf(key) \in Seq(Words \cup Evaluating!Spaces)
<1>1. CASE key \in DOMAIN defaults
  <2>1. PICK text : text = defaults[key]
    OBVIOUS
  <2>2. text \in Seq(Words \cup Evaluating!Spaces)
    BY <1>1, <2>1 DEF MInv, Texts
  <2>3. PICK n \in Nat : n = Len(text)
    BY <2>2
  <2>4. PICK h : h = [i \in 1 .. n |-> IF \E x \in Tokens : x = text[i] THEN <<text[i]>> ELSE <<>>]
    OBVIOUS
  <2>5. ASSUME NEW i \in 1 .. n PROVE h[i] \in Seq(Words \cup Evaluating!Spaces)
    <3>1. PICK word \in Words \cup Evaluating!Spaces : word = text[i]
      BY <2>2, <2>3
    <3>2. h[i] = <<word>> \/ h[i] = <<>>
      BY <2>4, <3>1
    <3>3. PICK W : W = Words \cup Evaluating!Spaces
      OBVIOUS
    <3>4. <<word>> \in Seq(W) /\ <<>> \in Seq(W)
      BY <3>3
    <3> QED
      BY <3>2, <3>3, <3>4
  <2>6. Asking!FlattenSeq([i \in 1 .. n |-> h[i]]) \in Seq(Words \cup Evaluating!Spaces)
    BY <2>5, FlattenTyped
  <2>7. h = [i \in 1 .. n |-> h[i]]
    BY <2>4
  <2>8. FlattenSeq(h) = Asking!FlattenSeq(h)
    BY Zenon DEF FlattenSeq, Asking!FlattenSeq
  <2>9. ListOf(key) = FlattenSeq(h)
    BY <1>1, <2>1, <2>3, <2>4 DEF ListOf, FlagsIn
  <2> QED
    BY <2>6, <2>7, <2>8, <2>9
<1>2. CASE key \notin DOMAIN defaults
  BY <1>2 DEF ListOf
<1> QED
  BY <1>1, <1>2

\* What an element of IUSE is to get.
Granted(elem) ==
    /\ ~Asking!LastSays("mask", elem.flag)
    /\ \/ Asking!LastSays("force", elem.flag)
       \/ Asking!On(elem.flag) \in filters[asked]
       \/ /\ Asking!Off(elem.flag) \notin filters[asked]
          /\ \/ elem.default # "none"
             \/ Asking!Keeps(ListOf(USE_), elem.flag)
             \/ Asking!Keeps(ListOf(IUSE_IMPLICIT), elem.flag)

\* An iteration finds that, and refuses a flag only where no other element gets it.
LEMMA DoFlagIsGranted ==
    ASSUME MInv, NEW elem \in IUSE
    PROVE  /\ Asking!do_flag(elem) \in Hearing
           /\ Asking!do_flag(elem) = "yes" <=> Granted(elem)
           /\ Asking!do_flag(elem) = "no" =>
                  \A other : other.flag = elem.flag => ~Granted(other)
<1>1. PICK f : f = elem.flag /\ f # Star
  BY DEF IUSE
<1>2. PICK on, off : on = Asking!On(f) /\ off = Asking!Off(f)
  OBVIOUS
<1>3. PICK use, imp, pkg : /\ use = Asking!ParsedUse(ListOf(USE_))
                           /\ imp = Asking!ParsedUse(ListOf(IUSE_IMPLICIT))
                           /\ pkg = filters[asked]
  OBVIOUS
<1>4. /\ on \in use <=> Asking!Keeps(ListOf(USE_), f)
      /\ off \notin use
      /\ on \in imp <=> Asking!Keeps(ListOf(IUSE_IMPLICIT), f)
  BY <1>1, <1>2, <1>3, ListIsSequence, ParsedUseKeeps
<1>5. /\ Asking!algorithm_5_1_force(f) = "yes" <=> Asking!LastSays("force", f)
      /\ Asking!algorithm_5_1_mask(f) = "yes" <=> Asking!LastSays("mask", f)
  BY VerdictIsLast DEF Asking!algorithm_5_1_force, Asking!algorithm_5_1_mask
<1>6. PICK default, global, implied, pack, forced :
          /\ default = IF elem.default # "none" THEN "yes" ELSE "unset"
          /\ global = Asking!ByName(use, f, default)
          /\ implied = IF on \in imp THEN "yes" ELSE global
          /\ pack = Asking!ByName(pkg, f, implied)
          /\ forced = IF Asking!algorithm_5_1_force(f) = "yes" THEN "yes" ELSE pack
  OBVIOUS
<1>7. Asking!do_flag(elem) = IF Asking!algorithm_5_1_mask(f) = "yes" THEN "no" ELSE forced
  BY <1>1, <1>2, <1>3, <1>6, Zenon DEF Asking!do_flag
<1>8. /\ global = IF on \in use THEN "yes" ELSE default
      /\ pack = IF on \in pkg THEN "yes" ELSE IF off \in pkg THEN "no" ELSE implied
  BY <1>2, <1>4, <1>6 DEF Asking!ByName
<1> DEFINE force == Asking!LastSays("force", f)
           mask == Asking!LastSays("mask", f)
           named == Asking!Keeps(ListOf(USE_), f) \/ Asking!Keeps(ListOf(IUSE_IMPLICIT), f)
<1>9. \A e : e.flag = f =>
          (Granted(e) <=> /\ ~mask
                          /\ \/ force
                             \/ on \in pkg
                             \/ (off \notin pkg /\ (e.default # "none" \/ named)))
  BY <1>1, <1>2, <1>3, Zenon DEF Granted
<1>10. implied = IF named \/ elem.default # "none" THEN "yes" ELSE "unset"
  BY <1>4, <1>6, <1>8
<1> HIDE DEF force, mask, named
<1>11. Asking!do_flag(elem) = IF mask THEN "no" ELSE IF force THEN "yes" ELSE pack
  BY <1>5, <1>6, <1>7 DEF force, mask
<1>12. pack = IF on \in pkg THEN "yes" ELSE IF off \in pkg THEN "no"
              ELSE IF named \/ elem.default # "none" THEN "yes" ELSE "unset"
  BY <1>8, <1>10
<1>13. Asking!do_flag(elem) \in Hearing
  BY <1>11, <1>12 DEF Hearing
<1>14. Asking!do_flag(elem) = "yes" <=>
           ~mask /\ (force \/ on \in pkg \/ (off \notin pkg /\ (elem.default # "none" \/ named)))
  BY <1>11, <1>12
<1>15. Asking!do_flag(elem) = "no" => mask \/ (~force /\ on \notin pkg /\ off \in pkg)
  BY <1>11, <1>12
<1> QED
  BY <1>1, <1>9, <1>13, <1>14, <1>15

\* What the call keeps to: the flags are those that an element before `at' is granted.
FInv ==
    /\ iuse \in Seq(IUSE)
    /\ at \in Nat \ {0}
    /\ answer \in {"called", "flags", "returned", "thrown", "refused"}
    /\ answer = "called" => at = 1 /\ ret = {}
    /\ answer \in {"flags", "returned"} =>
           /\ evaluation = "done" /\ stage = "line"
           /\ \A f : f \in ret <=>
                  \E i \in 1 .. Len(iuse) : i < at /\ iuse[i].flag = f /\ Granted(iuse[i])
    /\ answer = "returned" => at > Len(iuse)

LEMMA InitFInv == UInit => FInv
<1> SUFFICES ASSUME UInit PROVE FInv
  OBVIOUS
<1>1. PICK x \in Inputs : iuse = x.iuse
  BY DEF UInit
<1>2. iuse \in Seq(IUSE)
  BY <1>1, ProfileAssumption
<1>3. answer = "called" /\ at = 1 /\ ret = {}
  BY DEF UInit, Asking!Init
<1> QED
  BY <1>2, <1>3 DEF FInv

\* What an element is granted depends on the files and lists only.
LEMMA GrantedStays ==
    ASSUME UNCHANGED <<files, iuse, filters, defaults>>
    PROVE  \A elem : Granted(elem)' <=> Granted(elem)
<1>1. Asking!is_stable' <=> Asking!is_stable
  BY DEF Asking!is_stable
<1>2. \A x, purpose, f : Asking!Speaks(x, purpose, f)' <=> Asking!Speaks(x, purpose, f)
  BY <1>1 DEF Asking!Speaks
<1>3. \A purpose, f : Asking!LastSays(purpose, f)' <=> Asking!LastSays(purpose, f)
  BY <1>2 DEF Asking!LastSays
<1>4. \A key : ListOf(key)' = ListOf(key)
  BY DEF ListOf
<1>5. \A key, f : Asking!Keeps(ListOf(key), f)' <=> Asking!Keeps(ListOf(key), f)
  BY <1>4 DEF Asking!Keeps
<1> QED
  BY <1>3, <1>4, <1>5 DEF Granted

LEMMA NextFInv == MInv /\ FInv /\ [UNext]_uvars => FInv'
<1> SUFFICES ASSUME MInv, FInv, [UNext]_uvars PROVE FInv'
  OBVIOUS
<1> DEFINE Taken(n) == \A f : f \in ret <=>
               \E i \in 1 .. Len(iuse) : i < n /\ iuse[i].flag = f /\ Granted(iuse[i])
<1>1. CASE UNCHANGED <<filters, defaults, files, iuse, at, ret, answer, evaluation, stage>>
  <2>1. \A elem : Granted(elem)' <=> Granted(elem)
    BY <1>1, GrantedStays
  <2> QED
    BY <1>1, <2>1 DEF FInv
<1>2. CASE Evaluate
  <2>1. evaluation # "done" /\ answer \notin {"flags", "returned"}
    BY <1>2 DEF FInv, Evaluate, Evaluating!Next, Evaluating!PlainLine, Evaluating!SplitLine,
       Evaluating!RefuseLine, Evaluating!AppendWord, Evaluating!AppendVariable,
       Evaluating!EndOfElements, Evaluating!EndOfLines, Evaluating!AtLine, Evaluating!AtElement
  <2>2. UNCHANGED <<files, iuse, at, ret, answer>>
    BY <1>2 DEF Evaluate, answerVars
  <2> QED
    BY <2>1, <2>2 DEF FInv
<1>3. CASE ReadPackageUse
  <2>1. answer = "called" /\ UNCHANGED <<files, iuse, at, ret, answer>>
    BY <1>3 DEF ReadPackageUse, answerVars
  <2> QED
    BY <2>1 DEF FInv
<1>4. CASE RefuseVariables
  <2>1. answer' = "refused" /\ UNCHANGED <<files, iuse, at, ret>>
    BY <1>4 DEF RefuseVariables
  <2> QED
    BY <2>1 DEF FInv
<1>5. CASE Ask
  <2>1. /\ evaluation = "done" /\ stage = "line" /\ UNCHANGED <<evaluation, stage>>
        /\ UNCHANGED <<filters, defaults>>
    BY <1>5 DEF Ask, vars, evaluationVars
  <2>2. UNCHANGED <<files, iuse>>
    BY <1>5 DEF Ask, Asking!Next, Asking!Lookup, Asking!ConsiderFlag, Asking!ReturnFlags, Asking!inputs
  <2>3. \A elem : Granted(elem)' <=> Granted(elem)
    BY <2>1, <2>2, GrantedStays
  <2>4. CASE Asking!Lookup
    <3>1. /\ answer = "called" /\ answer' \in {"flags", "thrown"} /\ UNCHANGED <<at, ret>>
          /\ at = 1 /\ ret = {}
      BY <2>4 DEF Asking!Lookup, FInv
    <3>2. \A i \in 1 .. Len(iuse) : ~(i < 1)
      BY DEF FInv
    <3> QED
      BY <2>1, <2>2, <2>3, <3>1, <3>2 DEF FInv
  <2>5. CASE Asking!ConsiderFlag
    <3>1. PICK elem : elem = iuse[at]
      OBVIOUS
    <3>2. PICK found : found = Asking!do_flag(elem)
      OBVIOUS
    <3>3. /\ answer = "flags" /\ answer' = "flags" /\ at \in 1 .. Len(iuse) /\ at' = at + 1
          /\ ret' = IF found = "unset" THEN ret
                    ELSE IF found = "yes" THEN ret \cup {elem.flag} ELSE ret \ {elem.flag}
      BY <2>5, <3>1, <3>2 DEF Asking!ConsiderFlag, FInv
    <3>4. elem \in IUSE /\ Taken(at)
      BY <3>1, <3>3 DEF FInv
    <3>5. /\ found \in Hearing
          /\ found = "yes" <=> Granted(elem)
          /\ found = "no" => \A other : other.flag = elem.flag => ~Granted(other)
      BY <3>2, <3>4, DoFlagIsGranted
    <3>6. \A i \in 1 .. Len(iuse) : i < at + 1 <=> i < at \/ i = at
      BY <3>3 DEF FInv
    <3>7. ASSUME NEW f
          PROVE  f \in ret' <=>
                     \E i \in 1 .. Len(iuse) : i < at + 1 /\ iuse[i].flag = f /\ Granted(iuse[i])
      <4>1. (\E i \in 1 .. Len(iuse) : i < at + 1 /\ iuse[i].flag = f /\ Granted(iuse[i]))
              <=> f \in ret \/ (elem.flag = f /\ Granted(elem))
        BY <3>1, <3>3, <3>4, <3>6
      <4>2. CASE found = "yes"
        BY <3>3, <3>5, <4>1, <4>2
      <4>3. CASE found = "no"
        <5>1. elem.flag = f => ~\E i \in 1 .. Len(iuse) : i < at + 1 /\ iuse[i].flag = f /\ Granted(iuse[i])
          BY <3>5, <4>3
        <5>2. ret' = ret \ {elem.flag}
          BY <3>3, <4>3
        <5> QED
          BY <4>1, <5>1, <5>2
      <4>4. CASE found = "unset"
        BY <3>3, <3>5, <4>1, <4>4
      <4> QED
        BY <3>5, <4>2, <4>3, <4>4 DEF Hearing
    <3>8. (\A f : f \in ret <=>
               \E i \in 1 .. Len(iuse) : i < at /\ iuse[i].flag = f /\ Granted(iuse[i]))'
      BY <2>2, <2>3, <3>3, <3>7
    <3>9. iuse' \in Seq(IUSE) /\ at' \in Nat \ {0}
      BY <2>2, <3>3 DEF FInv
    <3> QED
      BY <2>1, <3>3, <3>8, <3>9 DEF FInv
  <2>6. CASE Asking!ReturnFlags
    <3>1. answer = "flags" /\ answer' = "returned" /\ at > Len(iuse) /\ UNCHANGED <<at, ret>>
      BY <2>6 DEF Asking!ReturnFlags
    <3> QED
      BY <2>1, <2>2, <2>3, <3>1 DEF FInv
  <2> QED
    BY <1>5, <2>4, <2>5, <2>6 DEF Ask, Asking!Next
<1>6. CASE UNCHANGED uvars
  BY <1>1, <1>6 DEF uvars, vars, evaluationVars, answerVars
<1> QED
  BY <1>2, <1>3, <1>4, <1>5, <1>6 DEF UNext

\* When the call has returned, an element of IUSE with the flag has been granted it
\* exactly if the flag is one of the answer.
LEMMA GrantedDecides ==
    ASSUME FInv, answer = "returned", NEW f \in Asking!Names
    PROVE  f \in ret <=>
               /\ ~Asking!LastSays("mask", f)
               /\ \/ Asking!LastSays("force", f)
                  \/ Asking!On(f) \in filters[asked]
                  \/ /\ Asking!Off(f) \notin filters[asked]
                     /\ \/ Asking!Defaults(f) # {"none"}
                        \/ Asking!Keeps(ListOf(USE_), f)
                        \/ Asking!Keeps(ListOf(IUSE_IMPLICIT), f)
<1>1. PICK n \in Nat : n = Len(iuse) /\ DOMAIN iuse = 1 .. n
  BY DEF FInv
<1>2. PICK k \in 1 .. n : iuse[k].flag = f
  BY <1>1 DEF Asking!Names
<1>3. \A i \in 1 .. n : i < at
  BY <1>1 DEF FInv
<1>4. f \in ret <=> \E i \in 1 .. n : iuse[i].flag = f /\ Granted(iuse[i])
  BY <1>1, <1>3 DEF FInv
<1>5. Asking!Defaults(f) # {"none"} <=> \E i \in 1 .. n : iuse[i].flag = f /\ iuse[i].default # "none"
  <2>1. Asking!Defaults(f) = {iuse[i].default : i \in {j \in 1 .. n : iuse[j].flag = f}}
    BY <1>1 DEF Asking!Defaults
  <2>2. iuse[k].default \in Asking!Defaults(f)
    BY <1>2, <2>1
  <2> QED
    BY <2>1, <2>2
<1> DEFINE mask == Asking!LastSays("mask", f)
           force == Asking!LastSays("force", f)
           on == Asking!On(f) \in filters[asked]
           off == Asking!Off(f) \in filters[asked]
           named == Asking!Keeps(ListOf(USE_), f) \/ Asking!Keeps(ListOf(IUSE_IMPLICIT), f)
<1>6. \A i \in 1 .. n : iuse[i].flag = f =>
          (Granted(iuse[i]) <=>
               ~mask /\ (force \/ on \/ (~off /\ (iuse[i].default # "none" \/ named))))
  BY Zenon DEF Granted
<1> HIDE DEF mask, force, on, off, named
<1>7. f \in ret <=> ~mask /\ (force \/ on \/ (~off /\ (Asking!Defaults(f) # {"none"} \/ named)))
  BY <1>2, <1>4, <1>5, <1>6
<1> QED
  BY <1>7 DEF mask, force, on, off, named

\* The answer of effective_useflags is, for every hierarchy of profiles, every file and
\* every ebuild, what the hierarchy says as one sequence of files, and otherwise what
\* package.use, the evaluated variables and the defaults say.
THEOREM FlagsAreDecidedAlways == USpec => []FlagsAreDecided
<1>1. FInv => FlagsAreDecided
  BY GrantedDecides DEF FlagsAreDecided, Asking!FlagsAreDecided
<1>2. UInit => MInv /\ FInv
  BY InitMInv, InitFInv
<1>3. MInv /\ FInv /\ [UNext]_uvars => (MInv /\ FInv)'
  BY NextMInv, NextFInv
<1> QED
  BY <1>1, <1>2, <1>3, PTL DEF USpec

-----------------------------------------------------------------------------
(* The latest token of package.use                                         *)

\* The latest token holds for each package of its line, wherever the line's tokens
\* have got to.
LInv ==
    /\ read \in Nat
    /\ \A p \in Packages : read > 0 /\ p \in latest.targets => latest.token \in Effective(p)

LEMMA NextLInv == IInv /\ LInv /\ [Next]_vars => LInv'
<1> SUFFICES ASSUME IInv, LInv, [Next]_vars PROVE LInv'
  OBVIOUS
<1>1. ASSUME NEW x \in Tokens, ParseToken(x) PROVE LInv'
  <2>1. /\ stage = "parse" /\ stage' = "parse" /\ targets' = targets
        /\ parsed' = Insert(parsed, x) /\ read' = read + 1
        /\ latest'.targets = targets /\ latest'.token = x
    BY <1>1 DEF ParseToken
  <2>2. x \in parsed'
    BY <2>1 DEF Insert
  <2>3. ASSUME NEW p \in Packages, p \in targets PROVE x \in Effective(p)'
    BY <2>1, <2>2, <2>3 DEF Effective, Combined, Merged
  <2> QED
    BY <2>1, <2>3 DEF LInv
<1>2. CASE \A x \in Tokens : ~ParseToken(x)
  <2>1. \A p \in Packages : Effective(p)' = Effective(p)
    BY <1>2, EffectiveStays
  <2>2. read' = read /\ latest' = latest
    BY <1>2 DEF Next, ReadLine, Malformed, EndOfLine, StartCombine, CombineElement,
           EndCombine, EndOfTargets, vars
  <2> QED
    BY <2>1, <2>2 DEF LInv
<1> QED
  BY <1>1, <1>2

\* The latest token about a flag decides, for every file and in every order in which
\* the sets are iterated, unless a file of the hierarchy masks or forces the flag.
THEOREM LatestTokenDecidesAlways == USpec => []LatestTokenDecides
<1> DEFINE Inv == IInv /\ LInv /\ MInv /\ FInv
<1>1. UInit => Inv
  <2>1. Init => LInv
    BY DEF Init, LInv
  <2> QED
    BY <2>1, InitIInv, InitMInv, InitFInv DEF UInit
<1>2. Inv /\ [UNext]_uvars => Inv'
  <2>1. [UNext]_uvars => [Next]_vars
    BY DEF UNext, uvars, Evaluate, ReadPackageUse, RefuseVariables, Ask
  <2> QED
    BY <2>1, NextIInv, NextLInv, NextMInv, NextFInv
<1>3. Inv => LatestTokenDecides
  <2> SUFFICES ASSUME IInv, LInv, FInv, answer = "returned", read > 0, asked \in latest.targets,
                      NEW f \in Asking!Names \cap Flags,
                      ~Asking!LastSays("mask", f), ~Asking!LastSays("force", f)
               PROVE  /\ latest.token = On(f) => f \in ret
                      /\ latest.token = Off(f) => f \notin ret
    BY DEF LatestTokenDecides
  <2>1. stage = "line" /\ asked \in Packages
    BY UseAssumption DEF FInv
  <2>2. latest.token \in filters[asked]
    BY <2>1 DEF LInv, Effective
  <2>3. Asking!On(f) = On(f) /\ Asking!Off(f) = Off(f)
    BY DEF Asking!On, Asking!Off, On, Off
  <2>4. /\ On(f) \in Tokens /\ Off(f) \in Tokens /\ Opposite(Off(f)) = On(f)
    BY OnOffFacts
  <2>5. Off(f) \in filters[asked] => On(f) \notin filters[asked]
    BY <2>1, <2>4 DEF IInv, Consistent
  <2>6. f \in ret <=> \/ On(f) \in filters[asked]
                      \/ /\ Off(f) \notin filters[asked]
                         /\ \/ Asking!Defaults(f) # {"none"}
                            \/ Asking!Keeps(ListOf(USE_), f)
                            \/ Asking!Keeps(ListOf(IUSE_IMPLICIT), f)
    BY <2>3, GrantedDecides
  <2> QED
    BY <2>2, <2>5, <2>6
<1> QED
  BY <1>1, <1>2, <1>3, PTL DEF USpec
=============================================================================
