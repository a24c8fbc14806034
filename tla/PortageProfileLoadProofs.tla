---------------------- MODULE PortageProfileLoadProofs ----------------------
(***************************************************************************)
(* Proofs, for all files whose hierarchy has no cycle, all repositories    *)
(* and all configurations, that the profiles that the constructor finishes *)
(* are complete and mask what their own files say, and that the profile of *)
(* a system has its three levels.                                          *)
(***************************************************************************)
EXTENDS PortageProfileLoad, FiniteSetTheorems, SequenceTheorems, WellFoundedInduction, TLAPS

\* What the constructors that run have in common: a profile under construction with a
\* path, and parents that are left to construct, each of a lower rank.
Frame(f) ==
    /\ {"self", "paths", "parents", "stage", "next", "lines"} \subseteq DOMAIN f
    /\ "path" \in DOMAIN f.self
    /\ f.self.path \in Dirs
    /\ f.paths \in Seq(Dirs)
    /\ \A n \in 1 .. Len(f.paths) : Rank[f.paths[n]] < Rank[f.self.path]

\* Ranks decrease towards the constructor that runs.
Descending(s) ==
    \A i, j \in 1 .. Len(s) : i < j => Rank[s[j].self.path] < Rank[s[i].self.path]

Sound(s) ==
    /\ \E F : s \in Seq(F)
    /\ \A i \in 1 .. Len(s) : Frame(s[i])
    /\ Descending(s)

IInv == setting \in Settings /\ Sound(stack)

-----------------------------------------------------------------------------
LEMMA RanksAreNumbers == \A d \in Dirs : Rank[d] \in Nat
  BY ProfileLoadAssumption

\* The constructor that runs goes on with its own profile.
LEMMA Replaced ==
  ASSUME NEW s, Sound(s), s # <<>>,
         NEW f, Frame(f), f.self.path = s[Len(s)].self.path
  PROVE  Sound([s EXCEPT ![Len(s)] = f])
  <1> DEFINE t == [s EXCEPT ![Len(s)] = f]
  <1>1. PICK F : s \in Seq(F)
    BY DEF Sound
  <1>2. PICK n : n = Len(s)
    OBVIOUS
  <1>3. n \in Nat /\ n > 0 /\ Len(t) = n /\ t \in Seq(F \cup {f})
    BY <1>1, <1>2
  <1>4. \A i \in 1 .. n : t[i] = IF i = n THEN f ELSE s[i]
    BY <1>1, <1>2, <1>3
  <1>5. \A i \in 1 .. n : Frame(t[i]) /\ t[i].self.path = s[i].self.path
    BY <1>2, <1>4 DEF Sound
  <1>6. Descending(t)
    BY <1>2, <1>3, <1>5 DEF Sound, Descending
  <1>7. QED
    BY <1>3, <1>5, <1>6 DEF Sound

\* It calls a constructor, for a directory of a lower rank.
LEMMA Pushed ==
  ASSUME NEW s, Sound(s), s # <<>>,
         NEW g, Frame(g), Rank[g.self.path] < Rank[s[Len(s)].self.path]
  PROVE  Sound(Append(s, g))
  <1> DEFINE t == Append(s, g)
  <1>1. PICK F : s \in Seq(F)
    BY DEF Sound
  <1>2. PICK n : n = Len(s)
    OBVIOUS
  <1>3. n \in Nat /\ n > 0 /\ Len(t) = n + 1 /\ t \in Seq(F \cup {g})
    BY <1>1, <1>2
  <1>4. t[n + 1] = g /\ \A i \in 1 .. n : t[i] = s[i]
    BY <1>1, <1>2, <1>3
  <1>5. \A i \in 1 .. n + 1 : Frame(t[i])
    BY <1>2, <1>3, <1>4 DEF Sound
  <1>6. \A i \in 1 .. n : Rank[g.self.path] < Rank[s[i].self.path]
    <2>1. \A i \in 1 .. n : i < n => Rank[s[n].self.path] < Rank[s[i].self.path]
      BY <1>2, <1>3 DEF Sound, Descending
    <2>2. \A i \in 1 .. n : Rank[s[i].self.path] \in Nat
      BY <1>2, RanksAreNumbers DEF Sound, Frame
    <2>3. Rank[g.self.path] \in Nat /\ Rank[g.self.path] < Rank[s[n].self.path]
      BY <1>2, RanksAreNumbers DEF Frame
    <2>4. QED
      BY <1>3, <2>1, <2>2, <2>3
  <1>7. ASSUME NEW i \in 1 .. n + 1, NEW j \in 1 .. n + 1, i < j
        PROVE  Rank[t[j].self.path] < Rank[t[i].self.path]
    <2>1. CASE j = n + 1
      BY <1>3, <1>4, <1>6, <1>7, <2>1
    <2>2. CASE j # n + 1
      BY <1>2, <1>3, <1>4, <1>7, <2>2 DEF Sound, Descending
    <2>3. QED
      BY <2>1, <2>2
  <1>8. QED
    BY <1>3, <1>5, <1>7 DEF Sound, Descending

\* It returns.
LEMMA Popped ==
  ASSUME NEW s, Sound(s), s # <<>>
  PROVE  Sound(Front(s)) /\ Len(Front(s)) = Len(s) - 1
         /\ \A i \in 1 .. Len(s) - 1 : Front(s)[i] = s[i]
  <1> DEFINE t == SubSeq(s, 1, Len(s) - 1)
  <1>1. PICK F : s \in Seq(F)
    BY DEF Sound
  <1>2. PICK n : n = Len(s)
    OBVIOUS
  <1>3. n \in Nat /\ n > 0 /\ Len(t) = n - 1 /\ t \in Seq(F)
    BY <1>1, <1>2
  <1>4. \A i \in 1 .. n - 1 : t[i] = s[i]
    BY <1>1, <1>2, <1>3
  <1>5. \A i \in 1 .. n - 1 : Frame(t[i])
    BY <1>2, <1>3, <1>4 DEF Sound
  <1>6. Descending(t)
    BY <1>2, <1>3, <1>4 DEF Sound, Descending
  <1>7. Sound(t)
    BY <1>3, <1>5, <1>6 DEF Sound
  <1>8. QED
    BY <1>2, <1>3, <1>4, <1>7 DEF Front

\* The outermost constructor is called.
LEMMA Called ==
  ASSUME NEW d \in Dirs, NEW injected, NEW given
  PROVE  Frame(Call(d, injected, given)) /\ Sound(<<Call(d, injected, given)>>)
  <1> DEFINE f == Call(d, injected, given)
  <1>1. /\ {"self", "paths", "parents", "stage", "next", "lines"} \subseteq DOMAIN f
        /\ "path" \in DOMAIN f.self
        /\ f.self.path = d
        /\ f.paths = <<>>
    BY DEF Call, Empty
  <1> HIDE DEF f
  <1>2. Frame(f)
    BY <1>1 DEF Frame
  <1>3. <<f>> \in Seq({f}) /\ Len(<<f>>) = 1 /\ <<f>>[1] = f
    OBVIOUS
  <1>4. Descending(<<f>>)
    BY <1>3 DEF Descending
  <1>5. \A i \in 1 .. Len(<<f>>) : Frame(<<f>>[i])
    BY <1>2, <1>3
  <1>6. \E F : <<f>> \in Seq(F)
    BY <1>3
  <1>7. Sound(<<f>>)
    BY <1>4, <1>5, <1>6 DEF Sound
  <1>8. QED
    BY <1>2, <1>7 DEF f

LEMMA NothingRuns == Sound(<<>>)
  BY DEF Sound, Descending

LEMMA Initially == PInit => IInv
  BY NothingRuns DEF PInit, IInv

\* A step of the constructor that runs, which changes nothing of its path nor of the
\* parents left.
LEMMA Continued ==
  ASSUME IInv, stack # <<>>, setting' = setting,
         NEW f, stack' = [stack EXCEPT ![Len(stack)] = f],
         {"self", "paths", "parents", "stage", "next", "lines"} \subseteq DOMAIN f,
         "path" \in DOMAIN f.self, f.self.path = Top.self.path, f.paths = Top.paths
  PROVE  IInv'
  <1>1. Top = stack[Len(stack)] /\ Frame(Top)
    BY DEF IInv, Sound, Top, Last
  <1>2. Frame(f)
    BY <1>1 DEF Frame
  <1>3. QED
    BY <1>1, <1>2, Replaced DEF IInv

LEMMA StepKeeps ==
  ASSUME IInv, Step
  PROVE  IInv'
  <1>1. stack # <<>> => Frame(Top) /\ Top = stack[Len(stack)]
    BY DEF IInv, Sound, Top, Last
  <1>2. CASE GetParents
    <2> DEFINE paths == IF Top.injected = {} THEN setting.hierarchy[Top.self.path] ELSE <<>>
               f == [Top EXCEPT !.stage = "parents", !.paths = paths,
                                !.parents = SetToSeq(Top.injected)]
    <2>1. Frame(Top) /\ stack # <<>> /\ setting' = setting
      BY <1>1, <1>2 DEF GetParents, Running
    <2>2. /\ paths \in Seq(Dirs)
          /\ \A n \in 1 .. Len(paths) : Rank[paths[n]] < Rank[Top.self.path]
      <3>1. CASE Top.injected = {}
        BY <2>1, <3>1, ProfileLoadAssumption DEF IInv, Frame
      <3>2. CASE Top.injected # {}
        BY <3>2
      <3>3. QED
        BY <3>1, <3>2
    <2>3. /\ {"self", "paths", "parents", "stage", "next", "lines"} \subseteq DOMAIN f
          /\ f.self = Top.self /\ f.paths = paths
      BY <2>1 DEF Frame
    <2>4. stack' = [stack EXCEPT ![Len(stack)] = f]
      BY <1>2 DEF GetParents, SetTop
    <2> HIDE DEF f, paths
    <2>5. Frame(f)
      BY <2>1, <2>2, <2>3 DEF Frame
    <2>6. QED
      BY <1>1, <2>1, <2>3, <2>4, <2>5, Replaced DEF IInv
  <1>3. CASE ConstructParent
    <2> DEFINE f == [Top EXCEPT !.paths = Tail(@)]
               g == Call(Head(Top.paths), {}, <<>>)
               s == [stack EXCEPT ![Len(stack)] = f]
    <2>1. Frame(Top) /\ stack # <<>> /\ setting' = setting /\ Top.paths # <<>>
      BY <1>1, <1>3 DEF ConstructParent, Running
    <2>2. stack' = Append(s, g)
      BY <1>1, <1>3, <2>1 DEF ConstructParent
    <2>3. /\ {"self", "paths", "parents", "stage", "next", "lines"} \subseteq DOMAIN f
          /\ f.self = Top.self /\ f.paths = Tail(Top.paths)
      BY <2>1 DEF Frame
    <2>4. Frame(f)
      <3>1. PICK n : n = Len(Top.paths)
        OBVIOUS
      <3>2. n \in Nat /\ n > 0 /\ Len(f.paths) = n - 1 /\ f.paths \in Seq(Dirs)
        BY <2>1, <2>3, <3>1 DEF Frame
      <3>3. \A i \in 1 .. n - 1 : i + 1 \in 1 .. n /\ f.paths[i] = Top.paths[i + 1]
        BY <2>1, <2>3, <3>1, <3>2 DEF Frame
      <3> HIDE DEF f
      <3>4. QED
        BY <2>1, <2>3, <3>1, <3>2, <3>3 DEF Frame
    <2>5. Head(Top.paths) \in Dirs /\ Rank[Head(Top.paths)] < Rank[Top.self.path]
      BY <2>1 DEF Frame
    <2>6. Frame(g) /\ g.self.path = Head(Top.paths)
      BY <2>5, Called DEF Call, Empty
    <2>7. Sound(s) /\ s # <<>> /\ s[Len(s)] = f
      <3> HIDE DEF f
      <3>1. Sound(s)
        BY <1>1, <2>1, <2>3, <2>4, Replaced DEF IInv
      <3>2. PICK F : stack \in Seq(F)
        BY DEF IInv, Sound
      <3>3. PICK n : n = Len(stack)
        OBVIOUS
      <3>4. n \in Nat /\ n > 0 /\ Len(s) = n /\ s[n] = f
        BY <2>1, <3>2, <3>3
      <3>5. QED
        BY <3>1, <3>4
    <2> HIDE DEF f, g, s
    <2>8. QED
      BY <2>1, <2>2, <2>3, <2>5, <2>6, <2>7, Pushed DEF IInv
  <1>4. CASE FindRepo
    BY <1>4, <1>1, Continued DEF FindRepo, SetTop, Running, Frame
  <1>5. CASE CombineParent
    BY <1>5, <1>1, Continued DEF CombineParent, SetTop, Running, Frame
  <1>6. CASE InitMakeDefaults
    BY <1>6, <1>1, Continued DEF InitMakeDefaults, SetTop, Running, Frame
  <1>7. CASE InitPackages
    BY <1>7, <1>1, Continued DEF InitPackages, SetTop, Running, Frame
  <1>8. CASE EndOfPackages
    BY <1>8, <1>1, Continued DEF EndOfPackages, SetTop, Running, Frame
  <1>9. CASE ReadPackageMask
    BY <1>9, <1>1, Continued DEF ReadPackageMask, SetTop, Running, Frame
  <1>10. CASE InitPackageMask
    BY <1>10, <1>1, Continued DEF InitPackageMask, SetTop, Running, Frame
  <1>11. CASE EndOfPackageMask
    BY <1>11, <1>1, Continued DEF EndOfPackageMask, SetTop, Running, Frame
  <1>12. CASE Return
    <2>1. Frame(Top) /\ stack # <<>> /\ setting' = setting
      BY <1>1, <1>12 DEF Return, Running
    <2>2. CASE Len(stack) = 1
      BY <1>12, <2>1, <2>2, NothingRuns DEF Return, IInv
    <2>3. CASE Len(stack) # 1
      <3> DEFINE s == Front(stack)
                 f == [s[Len(s)] EXCEPT !.parents = Append(@, Top.self)]
      <3>1. PICK n : n = Len(stack)
        OBVIOUS
      <3>2. n \in Nat /\ n > 1
        BY <2>1, <2>3, <3>1 DEF IInv, Sound
      <3>3. Sound(s) /\ Len(s) = n - 1 /\ s # <<>>
        BY <2>1, <3>1, <3>2, Popped DEF IInv
      <3>4. stack' = [s EXCEPT ![Len(s)] = f]
        BY <1>12, <2>3, <3>1, <3>2, <3>3 DEF Return
      <3>5. Frame(s[Len(s)])
        BY <3>2, <3>3 DEF Sound
      <3>6. Frame(f) /\ f.self.path = s[Len(s)].self.path
        BY <3>5 DEF Frame
      <3> HIDE DEF s, f
      <3>7. QED
        BY <2>1, <3>3, <3>4, <3>6, Replaced DEF IInv
    <2>4. QED
      BY <2>2, <2>3
  <1>13. CASE Throw
    BY <1>13, NothingRuns DEF Throw, IInv
  <1>14. QED
    BY <1>2, <1>3, <1>4, <1>5, <1>6, <1>7, <1>8, <1>9, <1>10, <1>11, <1>12, <1>13 DEF Step

LEMMA NextKeeps ==
  ASSUME IInv, [PNext]_pvars
  PROVE  IInv'
  <1>1. CASE Constructor
    BY <1>1, StepKeeps DEF Constructor
  <1>2. CASE ParentProfile \/ ConstructUserProfile \/ NoUserProfile \/ ConstructBase
    <2>1. \E d \in Dirs : \E injected, given : stack' = <<Call(d, injected, given)>>
      BY <1>2, PortageAssumption
         DEF ParentProfile, ConstructUserProfile, NoUserProfile, ConstructBase
    <2>2. setting' = setting
      BY <1>2 DEF ParentProfile, ConstructUserProfile, NoUserProfile, ConstructBase
    <2>3. QED
      BY <2>1, <2>2, Called DEF IInv
  <1>3. CASE DefaultRepos \/ NextLocation \/ BadLocation \/ EndOfLocations \/ UNCHANGED pvars
    BY <1>3 DEF DefaultRepos, NextLocation, BadLocation, EndOfLocations, ThrowAway, pvars, IInv
  <1>4. QED
    BY <1>1, <1>2, <1>3 DEF PNext

-----------------------------------------------------------------------------
(* Functions defined by recursion                                          *)

\* A set of natural numbers that is not empty has a least member.
LEMMA Least ==
  ASSUME NEW S, S \subseteq Nat, S # {}
  PROVE  \E m \in S : \A k \in S : m <= k
  <1>1. PICK m \in S : \A k \in S : ~(<<k, m>> \in OpToRel(<, Nat))
    BY NatLessThanWellFounded, WFMin
  <1>2. \A k \in S : ~(k < m)
    BY <1>1 DEF OpToRel
  <1>3. QED
    BY <1>2

\* The equation f[d] = E[d][f], whose right side looks at points of lower rank only.
Descends(D, V, rank, E) ==
    \A d \in D : \A f, g \in [D -> V] :
        (\A c \in D : rank[c] < rank[d] => f[c] = g[c]) => E[d][f] = E[d][g]

Solution(D, V, E, f) == f \in [D -> V] /\ \A d \in D : f[d] = E[d][f]

\* Such an equation has a solution.
LEMMA RecursionDefines ==
  ASSUME NEW D, NEW V, NEW rank, NEW v, NEW E,
         rank \in [D -> Nat], v \in V, E \in [D -> [[D -> V] -> V]],
         Descends(D, V, rank, E)
  PROVE  \E f : Solution(D, V, E, f)
  <1> DEFINE Solves(n, f) == f \in [D -> V] /\ \A d \in D : rank[d] < n => f[d] = E[d][f]
  <1>1. ASSUME NEW n \in Nat
        PROVE  \E f : Solves(n, f)
    <2>1. PICK failing : failing = {m \in Nat : ~\E f : Solves(m, f)}
      OBVIOUS
    <2>2. SUFFICES ASSUME failing # {} PROVE FALSE
      BY <2>1
    <2>3. failing \subseteq Nat
      BY <2>1
    <2>4. PICK m \in failing : \A k \in failing : m <= k
      BY <2>2, <2>3, Least
    <2>5. m \in Nat /\ ~\E f : Solves(m, f)
      BY <2>1, <2>4
    <2>6. CASE m = 0
      <3>1. PICK f : f = [d \in D |-> v]
        OBVIOUS
      <3>2. Solves(m, f)
        BY <2>6, <3>1
      <3>3. QED
        BY <2>5, <3>2
    <2>7. CASE m # 0
      <3>1. m - 1 \in Nat /\ m - 1 \notin failing
        BY <2>4, <2>5, <2>7
      <3>2. PICK f : Solves(m - 1, f)
        BY <2>1, <3>1
      <3>3. PICK g : g = [d \in D |-> E[d][f]]
        OBVIOUS
      <3>4. g \in [D -> V]
        BY <3>2, <3>3
      <3>5. ASSUME NEW d \in D, rank[d] < m
            PROVE  g[d] = E[d][g]
        <4>1. ASSUME NEW c \in D, rank[c] < rank[d]
              PROVE  g[c] = f[c]
          <5>1. rank[c] < m - 1
            BY <2>5, <3>5, <4>1
          <5>2. QED
            BY <3>2, <3>3, <5>1
        <4>2. E[d][g] = E[d][f]
          BY <3>2, <3>4, <4>1 DEF Descends
        <4>3. QED
          BY <3>3, <4>2
      <3>6. Solves(m, g)
        BY <3>4, <3>5
      <3>7. QED
        BY <2>5, <3>6
    <2>8. QED
      BY <2>6, <2>7
  <1>2. ASSUME NEW m \in Nat, NEW n \in Nat, NEW f, NEW g, Solves(m, f), Solves(n, g),
               NEW d \in D, rank[d] < m, rank[d] < n
        PROVE  f[d] = g[d]
    <2>1. PICK apart : apart = {rank[c] : c \in {e \in D : rank[e] < m /\ rank[e] < n /\ f[e] # g[e]}}
      OBVIOUS
    <2>2. SUFFICES ASSUME apart # {} PROVE FALSE
      <3>1. f[d] # g[d] => rank[d] \in apart
        BY <1>2, <2>1
      <3>2. QED
        BY <3>1
    <2>3. apart \subseteq Nat
      BY <2>1
    <2>4. PICK k \in apart : \A l \in apart : k <= l
      BY <2>2, <2>3, Least
    <2>5. PICK c \in D : rank[c] = k /\ rank[c] < m /\ rank[c] < n /\ f[c] # g[c]
      BY <2>1, <2>4
    <2>6. ASSUME NEW e \in D, rank[e] < rank[c]
          PROVE  f[e] = g[e]
      <3>1. rank[e] < m /\ rank[e] < n /\ rank[e] \notin apart
        BY <2>3, <2>4, <2>5, <2>6
      <3>2. QED
        BY <2>1, <3>1
    <2>7. E[c][f] = E[c][g]
      BY <1>2, <2>6 DEF Descends
    <2>8. QED
      BY <1>2, <2>5, <2>7
  <1>3. PICK some : some = [d \in D |-> CHOOSE f : Solves(rank[d] + 1, f)]
    OBVIOUS
  <1>4. ASSUME NEW d \in D
        PROVE  Solves(rank[d] + 1, some[d])
    <2>1. rank[d] + 1 \in Nat
      OBVIOUS
    <2>2. \E f : Solves(rank[d] + 1, f)
      BY <1>1, <2>1
    <2> HIDE DEF Solves
    <2>3. QED
      BY <1>3, <2>2
  <1>5. PICK h : h = [d \in D |-> some[d][d]]
    OBVIOUS
  <1>6. h \in [D -> V]
    BY <1>4, <1>5
  <1>7. ASSUME NEW d \in D
        PROVE  h[d] = E[d][h]
    <2>1. some[d] \in [D -> V] /\ some[d][d] = E[d][some[d]]
      BY <1>4
    <2>2. ASSUME NEW c \in D, rank[c] < rank[d]
          PROVE  h[c] = some[d][c]
      <3>1. rank[c] + 1 \in Nat /\ rank[d] + 1 \in Nat /\ rank[c] < rank[c] + 1 /\ rank[c] < rank[d] + 1
        BY <2>2
      <3>2. Solves(rank[c] + 1, some[c]) /\ Solves(rank[d] + 1, some[d])
        BY <1>4
      <3> HIDE DEF Solves
      <3>3. some[c][c] = some[d][c]
        BY <1>2, <3>1, <3>2
      <3>4. QED
        BY <1>5, <3>3
    <2>3. E[d][h] = E[d][some[d]]
      BY <1>6, <2>1, <2>2 DEF Descends
    <2>4. QED
      BY <1>5, <2>1, <2>3
  <1>8. QED
    BY <1>6, <1>7 DEF Solution

-----------------------------------------------------------------------------
(* Sequences of sequences                                                  *)

\* FlattenSeq appends the sequences one after the other.
LEMMA FlattenSteps ==
  ASSUME NEW T, NEW ss \in Seq(Seq(T)), ss # <<>>
  PROVE  \E f \in [1 .. Len(ss) -> Seq(T)] :
            /\ \A i \in 1 .. Len(ss) : f[i] = IF i = 1 THEN ss[i] ELSE f[i - 1] \o ss[i]
            /\ FlattenSeq(ss) = f[Len(ss)]
  <1>1. PICK n : n = Len(ss)
    OBVIOUS
  <1>2. n \in Nat /\ n > 0 /\ \A i \in 1 .. n : ss[i] \in Seq(T)
    BY <1>1
  <1>3. PICK D : D = 1 .. n
    OBVIOUS
  <1>4. PICK rank : rank = [i \in D |-> i]
    OBVIOUS
  <1>5. rank \in [D -> Nat]
    BY <1>2, <1>3, <1>4
  <1>6. PICK V : V = Seq(T)
    OBVIOUS
  <1>7. PICK E : E = [i \in D |-> [f \in [D -> V] |-> IF i = 1 THEN ss[i] ELSE f[i - 1] \o ss[i]]]
    OBVIOUS
  <1>8. E \in [D -> [[D -> V] -> V]]
    <2>1. ASSUME NEW i \in D, NEW f \in [D -> V]
          PROVE  (IF i = 1 THEN ss[i] ELSE f[i - 1] \o ss[i]) \in V
      <3>1. i # 1 => f[i - 1] \in Seq(T)
        BY <1>2, <1>3, <1>6
      <3>2. ss[i] \in Seq(T)
        BY <1>2, <1>3
      <3>3. QED
        BY <1>6, <3>1, <3>2
    <2>2. QED
      BY <1>7, <2>1
  <1>9. ASSUME NEW i \in D, NEW f \in [D -> V], NEW g \in [D -> V],
               \A c \in D : rank[c] < rank[i] => f[c] = g[c]
        PROVE  E[i][f] = E[i][g]
    <2>1. i # 1 => i - 1 \in D /\ rank[i - 1] < rank[i]
      BY <1>2, <1>3, <1>4
    <2>2. i # 1 => f[i - 1] = g[i - 1]
      BY <1>9, <2>1
    <2>3. QED
      BY <1>7, <2>2
  <1>10. <<>> \in V
    BY <1>6
  <1>11. Descends(D, V, rank, E)
    BY <1>9 DEF Descends
  <1>12. PICK f : Solution(D, V, E, f)
    BY <1>5, <1>8, <1>10, <1>11, RecursionDefines, Zenon
  <1>13. f = [i \in 1 .. n |-> IF i = 1 THEN ss[i] ELSE f[i - 1] \o ss[i]]
    BY <1>3, <1>7, <1>12 DEF Solution
  <1>14. PICK g : g = CHOOSE h : h = [i \in 1 .. n |-> IF i = 1 THEN ss[i] ELSE h[i - 1] \o ss[i]]
    OBVIOUS
  <1>15. g = [i \in 1 .. n |-> IF i = 1 THEN ss[i] ELSE g[i - 1] \o ss[i]]
    BY <1>13, <1>14
  <1>16. FlattenSeq(ss) = g[n]
    BY <1>1, <1>2, <1>14 DEF FlattenSeq
  <1>17. ASSUME NEW k \in 1 .. n, g[k] \notin Seq(T)
         PROVE  FALSE
    <2>1. PICK odd : odd = {i \in 1 .. n : g[i] \notin Seq(T)}
      OBVIOUS
    <2>2. odd \subseteq Nat /\ odd # {}
      <3>1. k \in odd
        BY <1>17, <2>1
      <3>2. odd \subseteq Nat
        BY <2>1
      <3>3. QED
        BY <3>1, <3>2
    <2>3. PICK i \in odd : \A j \in odd : i <= j
      BY <2>2, Least
    <2>4. i \in 1 .. n /\ g[i] \notin Seq(T)
      BY <2>1, <2>3
    <2>5. i # 1
      BY <1>2, <1>15, <2>4
    <2>6. i - 1 \in 1 .. n /\ i - 1 \notin odd
      BY <1>2, <2>2, <2>3, <2>4, <2>5
    <2>7. g[i - 1] \in Seq(T) /\ ss[i] \in Seq(T)
      BY <1>2, <2>1, <2>4, <2>6
    <2>8. g[i] = g[i - 1] \o ss[i]
      BY <1>15, <2>4, <2>5
    <2>9. QED
      BY <2>4, <2>7, <2>8
  <1>18. g \in [1 .. n -> Seq(T)]
    BY <1>15, <1>17
  <1>19. \A i \in 1 .. n : g[i] = IF i = 1 THEN ss[i] ELSE g[i - 1] \o ss[i]
    BY <1>15
  <1>20. QED
    BY <1>1, <1>16, <1>18, <1>19

LEMMA FlattenNothing == FlattenSeq(<<>>) = <<>>
  BY DEF FlattenSeq

LEMMA FlattenTyped ==
  ASSUME NEW T, NEW ss \in Seq(Seq(T))
  PROVE  FlattenSeq(ss) \in Seq(T)
  <1>1. CASE ss = <<>>
    <2>1. <<>> \in Seq(T)
      OBVIOUS
    <2>2. QED
      BY <1>1, <2>1, FlattenNothing
  <1>2. CASE ss # <<>>
    <2>1. PICK f \in [1 .. Len(ss) -> Seq(T)] : FlattenSeq(ss) = f[Len(ss)]
      BY <1>2, FlattenSteps
    <2>2. Len(ss) \in 1 .. Len(ss)
      BY <1>2
    <2>3. QED
      BY <2>1, <2>2
  <1>3. QED
    BY <1>1, <1>2

\* One sequence more.
LEMMA FlattenAppend ==
  ASSUME NEW T, NEW ss \in Seq(Seq(T)), NEW s \in Seq(T)
  PROVE  FlattenSeq(Append(ss, s)) = FlattenSeq(ss) \o s
  <1>1. PICK n : n = Len(ss)
    OBVIOUS
  <1>2. PICK tt : tt = Append(ss, s)
    OBVIOUS
  <1>3. n \in Nat /\ tt \in Seq(Seq(T)) /\ tt # <<>> /\ Len(tt) = n + 1
    BY <1>1, <1>2
  <1>4. tt[n + 1] = s /\ \A i \in 1 .. n : tt[i] = ss[i]
    BY <1>1, <1>2
  <1>5. PICK g \in [1 .. n + 1 -> Seq(T)] :
            /\ \A i \in 1 .. n + 1 : g[i] = IF i = 1 THEN tt[i] ELSE g[i - 1] \o tt[i]
            /\ FlattenSeq(tt) = g[n + 1]
    <2>1. \E g \in [1 .. Len(tt) -> Seq(T)] :
              /\ \A i \in 1 .. Len(tt) : g[i] = IF i = 1 THEN tt[i] ELSE g[i - 1] \o tt[i]
              /\ FlattenSeq(tt) = g[Len(tt)]
      BY <1>3, FlattenSteps
    <2>2. QED
      BY <1>3, <2>1
  <1>6. CASE n = 0
    <2>1. ss = <<>>
      <3>1. PICK U : ss \in Seq(U)
        OBVIOUS
      <3>2. QED
        BY <1>1, <1>6, <3>1, EmptySeq
    <2>2. 1 \in 1 .. n + 1
      BY <1>6
    <2>3. g[1] = s
      BY <1>4, <1>5, <1>6, <2>2
    <2>4. QED
      BY <1>2, <1>5, <1>6, <2>1, <2>3, FlattenNothing
  <1>7. CASE n # 0
    <2>1. ss # <<>>
      BY <1>1, <1>7
    <2>2. PICK f \in [1 .. n -> Seq(T)] :
            /\ \A i \in 1 .. n : f[i] = IF i = 1 THEN ss[i] ELSE f[i - 1] \o ss[i]
            /\ FlattenSeq(ss) = f[n]
      BY <1>1, <2>1, FlattenSteps
    <2>3. ASSUME NEW k \in 1 .. n, f[k] # g[k]
          PROVE  FALSE
      <3>1. PICK odd : odd = {i \in 1 .. n : f[i] # g[i]}
        OBVIOUS
      <3>2. odd \subseteq Nat /\ odd # {}
        BY <2>3, <3>1
      <3>3. PICK i \in odd : \A j \in odd : i <= j
        BY <3>2, Least
      <3>4. i \in 1 .. n /\ i \in 1 .. n + 1 /\ f[i] # g[i]
        BY <1>3, <3>1, <3>3
      <3>5. tt[i] = ss[i]
        BY <1>4, <3>4
      <3>6. f[i] = IF i = 1 THEN ss[i] ELSE f[i - 1] \o ss[i]
        BY <2>2, <3>4
      <3>7. g[i] = IF i = 1 THEN ss[i] ELSE g[i - 1] \o ss[i]
        BY <1>5, <3>4, <3>5
      <3>8. i # 1
        BY <3>4, <3>6, <3>7
      <3>9. i - 1 \in 1 .. n /\ i - 1 \notin odd
        BY <1>3, <3>2, <3>3, <3>4, <3>8
      <3>10. f[i - 1] = g[i - 1]
        BY <3>1, <3>9
      <3>11. QED
        BY <3>4, <3>6, <3>7, <3>10
    <2>4. g[n] = f[n]
      BY <1>3, <1>7, <2>3
    <2>5. n + 1 \in 1 .. n + 1 /\ n + 1 # 1 /\ (n + 1) - 1 = n
      BY <1>3, <1>7
    <2>6. g[n + 1] = g[(n + 1) - 1] \o tt[n + 1]
      BY <1>5, <2>5
    <2>7. QED
      BY <1>2, <1>4, <1>5, <2>2, <2>4, <2>5, <2>6
  <1>8. QED
    BY <1>6, <1>7

-----------------------------------------------------------------------------
(* What a hierarchy adds up to                                             *)

LEMMA SettingTyped ==
  ASSUME setting \in Settings
  PROVE  /\ setting.hierarchy \in [Dirs -> Seq(Dirs)]
         /\ \A d \in Dirs : \A i \in 1 .. Len(setting.hierarchy[d]) :
                Rank[setting.hierarchy[d][i]] < Rank[d]
         /\ setting.packages \in [Dirs -> Seq(PackageLines)]
         /\ setting.masks \in [Dirs -> SUBSET MaskFiles]
         /\ \A d \in Dirs :
                /\ IsFiniteSet(setting.masks[d])
                /\ \A f, g \in setting.masks[d] : f.name = g.name => f = g
  BY ProfileLoadAssumption

\* A parent is a directory of lower rank.
LEMMA ParentsAreLower ==
  ASSUME setting \in Settings, NEW d \in Dirs, NEW i \in DOMAIN setting.hierarchy[d]
  PROVE  setting.hierarchy[d][i] \in Dirs /\ Rank[setting.hierarchy[d][i]] < Rank[d]
  <1>1. setting.hierarchy[d] \in Seq(Dirs)
    BY SettingTyped
  <1>2. i \in 1 .. Len(setting.hierarchy[d])
    BY <1>1
  <1>3. QED
    BY <1>1, <1>2, SettingTyped

LEMMA ConcatenationUnchanged ==
  ASSUME setting' = setting
  PROVE  Concatenation' = Concatenation
  BY DEF Concatenation

LEMMA InPackagesUnchanged ==
  ASSUME setting' = setting
  PROVE  InPackages' = InPackages
  BY DEF InPackages, Edited

\* The concatenation of a hierarchy exists: what the property calls it is the lines of the
\* parents, in their order, and those of the directory.
LEMMA ConcatenationIs ==
  ASSUME setting \in Settings
  PROVE  /\ Concatenation \in [Dirs -> Seq(Dirs)]
         /\ \A d \in Dirs :
                Concatenation[d] =
                    FlattenSeq([i \in DOMAIN setting.hierarchy[d] |->
                                    Concatenation[setting.hierarchy[d][i]]]) \o <<d>>
  <1>1. PICK h : h = setting.hierarchy
    OBVIOUS
  <1>2. h \in [Dirs -> Seq(Dirs)]
    BY <1>1, SettingTyped
  <1>3. ASSUME NEW d \in Dirs, NEW i \in DOMAIN h[d]
        PROVE  h[d][i] \in Dirs /\ Rank[h[d][i]] < Rank[d]
    BY <1>1, ParentsAreLower
  <1>4. PICK V : V = Seq(Dirs)
    OBVIOUS
  <1>5. PICK E : E = [d \in Dirs |-> [f \in [Dirs -> V] |->
                        FlattenSeq([i \in DOMAIN h[d] |-> f[h[d][i]]]) \o <<d>>]]
    OBVIOUS
  <1>6. E \in [Dirs -> [[Dirs -> V] -> V]]
    <2>1. ASSUME NEW d \in Dirs, NEW f \in [Dirs -> V]
          PROVE  FlattenSeq([i \in DOMAIN h[d] |-> f[h[d][i]]]) \o <<d>> \in V
      <3>1. PICK ss : ss = [i \in DOMAIN h[d] |-> f[h[d][i]]]
        OBVIOUS
      <3>2. h[d] \in Seq(Dirs) /\ \A i \in DOMAIN h[d] : f[h[d][i]] \in Seq(Dirs)
        BY <1>2, <1>3, <1>4
      <3>3. ss \in Seq(Seq(Dirs))
        BY <3>1, <3>2
      <3>4. FlattenSeq(ss) \in Seq(Dirs) /\ <<d>> \in Seq(Dirs)
        BY <3>3, FlattenTyped
      <3>5. QED
        BY <1>4, <3>1, <3>4
    <2>2. QED
      BY <1>5, <2>1
  <1>7. ASSUME NEW d \in Dirs, NEW f, NEW g,
               \A c \in Dirs : Rank[c] < Rank[d] => f[c] = g[c]
        PROVE  [i \in DOMAIN h[d] |-> f[h[d][i]]] = [i \in DOMAIN h[d] |-> g[h[d][i]]]
    BY <1>3, <1>7
  <1>8. Descends(Dirs, V, Rank, E)
    <2>1. SUFFICES ASSUME NEW d \in Dirs, NEW f \in [Dirs -> V], NEW g \in [Dirs -> V],
                          \A c \in Dirs : Rank[c] < Rank[d] => f[c] = g[c]
                   PROVE  E[d][f] = E[d][g]
      BY DEF Descends
    <2>2. [i \in DOMAIN h[d] |-> f[h[d][i]]] = [i \in DOMAIN h[d] |-> g[h[d][i]]]
      BY <1>7, <2>1
    <2>3. QED
      BY <1>5, <2>2
  <1>9. Rank \in [Dirs -> Nat] /\ <<>> \in V
    BY <1>4, ProfileLoadAssumption
  <1>10. PICK f : Solution(Dirs, V, E, f)
    BY <1>6, <1>8, <1>9, RecursionDefines, Zenon
  <1>11. f \in [Dirs -> V]
         /\ f = [d \in Dirs |-> FlattenSeq([i \in DOMAIN h[d] |-> f[h[d][i]]]) \o <<d>>]
    BY <1>5, <1>10 DEF Solution
  <1>12. PICK c : c = Concatenation
    OBVIOUS
  <1>13. c = [d \in Dirs |-> FlattenSeq([i \in DOMAIN h[d] |-> c[h[d][i]]]) \o <<d>>]
    BY <1>1, <1>11, <1>12 DEF Concatenation
  <1>14. ASSUME NEW d \in Dirs, c[d] # f[d]
         PROVE  FALSE
    <2>1. PICK odd : odd = {Rank[e] : e \in {a \in Dirs : c[a] # f[a]}}
      OBVIOUS
    <2>2. odd \subseteq Nat /\ odd # {}
      BY <1>9, <1>14, <2>1
    <2>3. PICK k \in odd : \A j \in odd : k <= j
      BY <2>2, Least
    <2>4. PICK e \in Dirs : Rank[e] = k /\ c[e] # f[e]
      BY <2>1, <2>3
    <2>5. ASSUME NEW a \in Dirs, Rank[a] < Rank[e]
          PROVE  c[a] = f[a]
      <3>1. Rank[a] \in Nat /\ Rank[e] \in Nat /\ Rank[a] \notin odd
        BY <1>9, <2>3, <2>4, <2>5
      <3>2. QED
        BY <2>1, <3>1
    <2>6. [i \in DOMAIN h[e] |-> c[h[e][i]]] = [i \in DOMAIN h[e] |-> f[h[e][i]]]
      BY <1>7, <2>5
    <2>7. c[e] = FlattenSeq([i \in DOMAIN h[e] |-> c[h[e][i]]]) \o <<e>>
      BY <1>13
    <2>8. f[e] = FlattenSeq([i \in DOMAIN h[e] |-> f[h[e][i]]]) \o <<e>>
      BY <1>11
    <2>9. QED
      BY <2>4, <2>6, <2>7, <2>8
  <1>15. c \in [Dirs -> Seq(Dirs)]
    <2>1. ASSUME NEW d \in Dirs PROVE c[d] \in Seq(Dirs)
      BY <1>4, <1>11, <1>14
    <2>2. QED
      BY <1>13, <2>1
  <1>16. \A d \in Dirs : c[d] = FlattenSeq([i \in DOMAIN h[d] |-> c[h[d][i]]]) \o <<d>>
    BY <1>13
  <1>17. QED
    BY <1>1, <1>12, <1>15, <1>16

\* So do the packages of a hierarchy.
LEMMA InPackagesIs ==
  ASSUME setting \in Settings
  PROVE  /\ InPackages \in [Dirs -> SUBSET Atoms]
         /\ \A d \in Dirs :
                InPackages[d] =
                    Edited(UNION {InPackages[setting.hierarchy[d][i]] : i \in DOMAIN setting.hierarchy[d]},
                           setting.packages[d])
  <1> DEFINE h == setting.hierarchy
             p == setting.packages
  <1>3. ASSUME NEW d \in Dirs, NEW i \in DOMAIN h[d]
        PROVE  h[d][i] \in Dirs /\ Rank[h[d][i]] < Rank[d]
    BY ParentsAreLower
  <1>4. PICK V : V = SUBSET Atoms
    OBVIOUS
  <1>5. PICK E : E = [d \in Dirs |-> [f \in [Dirs -> V] |->
                        Edited(UNION {f[h[d][i]] : i \in DOMAIN h[d]}, p[d])]]
    OBVIOUS
  <1>6. E \in [Dirs -> [[Dirs -> V] -> V]]
    BY <1>4, <1>5 DEF Edited
  <1>7. ASSUME NEW d \in Dirs, NEW f, NEW g,
               \A c \in Dirs : Rank[c] < Rank[d] => f[c] = g[c]
        PROVE  \A i \in DOMAIN h[d] : f[h[d][i]] = g[h[d][i]]
    BY <1>3, <1>7
  <1>8. Descends(Dirs, V, Rank, E)
    <2>1. SUFFICES ASSUME NEW d \in Dirs, NEW f \in [Dirs -> V], NEW g \in [Dirs -> V],
                          \A c \in Dirs : Rank[c] < Rank[d] => f[c] = g[c]
                   PROVE  E[d][f] = E[d][g]
      BY DEF Descends
    <2>2. {f[h[d][i]] : i \in DOMAIN h[d]} = {g[h[d][i]] : i \in DOMAIN h[d]}
      <3>1. \A i \in DOMAIN h[d] : f[h[d][i]] = g[h[d][i]]
        BY <1>7, <2>1
      <3>2. QED
        BY <3>1
    <2>3. QED
      BY <1>5, <2>2
  <1>9. Rank \in [Dirs -> Nat] /\ {} \in V
    BY <1>4, ProfileLoadAssumption
  <1>10. PICK f : Solution(Dirs, V, E, f)
    BY <1>6, <1>8, <1>9, RecursionDefines, Zenon
  <1>11. f = [d \in Dirs |-> Edited(UNION {f[h[d][i]] : i \in DOMAIN h[d]}, p[d])]
    BY <1>5, <1>10 DEF Solution
  <1>12. InPackages = [d \in Dirs |-> Edited(UNION {InPackages[h[d][i]] : i \in DOMAIN h[d]}, p[d])]
    BY <1>11, Zenon DEF InPackages
  <1>13. InPackages \in [Dirs -> SUBSET Atoms]
    BY <1>12 DEF Edited
  <1>14. \A d \in Dirs : InPackages[d] = Edited(UNION {InPackages[h[d][i]] : i \in DOMAIN h[d]}, p[d])
    BY <1>12
  <1>15. QED
    BY <1>13, <1>14

-----------------------------------------------------------------------------
(* Lines of packages files                                                 *)

LEMMA EditedNothing ==
  ASSUME NEW A, A \subseteq Atoms
  PROVE  Edited(A, <<>>) = A
  BY DEF Edited

\* What is left after one line more.
After(line, atoms) == IF line.negate THEN atoms \ {line.atom} ELSE atoms \cup {line.atom}

LEMMA EditedOne ==
  ASSUME NEW A, NEW rows \in Seq(PackageLines), NEW n \in 1 .. Len(rows)
  PROVE  Edited(A, SubSeq(rows, 1, n)) = After(rows[n], Edited(A, SubSeq(rows, 1, n - 1)))
  <1>1. PICK s : s = SubSeq(rows, 1, n - 1)
    OBVIOUS
  <1>2. PICK t : t = SubSeq(rows, 1, n)
    OBVIOUS
  <1>3. n \in Nat /\ Len(s) = n - 1 /\ Len(t) = n /\ DOMAIN s = 1 .. n - 1 /\ DOMAIN t = 1 .. n
    BY <1>1, <1>2
  <1>4. t[n] = rows[n] /\ \A i \in 1 .. n - 1 : t[i] = s[i]
    BY <1>1, <1>2, <1>3
  <1>5. rows[n].atom \in Atoms /\ rows[n].negate \in BOOLEAN
    <2>1. rows[n] \in PackageLines
      OBVIOUS
    <2>2. QED
      BY <2>1 DEF PackageLines
  <1>6. ASSUME NEW atom \in Atoms
        PROVE  atom \in Edited(A, t) <=>
                  IF rows[n].atom = atom THEN ~rows[n].negate ELSE atom \in Edited(A, s)
    <2>1. CASE rows[n].atom = atom
      <3>1. ASSUME atom \in Edited(A, t), rows[n].negate
            PROVE  FALSE
        <4>1. ~\A i \in DOMAIN t : t[i].atom # atom
          BY <1>3, <1>4, <2>1
        <4>2. PICK i \in 1 .. n : /\ t[i].atom = atom /\ ~t[i].negate
                                  /\ \A j \in i + 1 .. n : t[j].atom # atom
          BY <1>3, <3>1, <4>1 DEF Edited
        <4>3. i # n
          BY <1>4, <3>1, <4>2
        <4>4. n \in i + 1 .. n
          BY <1>3, <4>2, <4>3
        <4>5. QED
          BY <1>4, <2>1, <4>2, <4>4
      <3>2. ASSUME ~rows[n].negate
            PROVE  atom \in Edited(A, t)
        <4>1. n \in DOMAIN t /\ t[n].atom = atom /\ ~t[n].negate /\ n + 1 .. Len(t) = {}
          BY <1>3, <1>4, <2>1, <3>2
        <4>2. QED
          BY <4>1 DEF Edited
      <3>3. QED
        BY <2>1, <3>1, <3>2
    <2>2. CASE rows[n].atom # atom
      <3>1. (\A i \in DOMAIN t : t[i].atom # atom) <=> (\A i \in DOMAIN s : s[i].atom # atom)
        BY <1>3, <1>4, <2>2
      <3>2. ASSUME NEW i \in 1 .. n, t[i].atom = atom, ~t[i].negate,
                   \A j \in i + 1 .. n : t[j].atom # atom
            PROVE  i \in 1 .. n - 1 /\ s[i].atom = atom /\ ~s[i].negate
                   /\ \A j \in i + 1 .. n - 1 : s[j].atom # atom
        BY <1>3, <1>4, <2>2, <3>2
      <3>3. ASSUME NEW i \in 1 .. n - 1, s[i].atom = atom, ~s[i].negate,
                   \A j \in i + 1 .. n - 1 : s[j].atom # atom
            PROVE  i \in 1 .. n /\ t[i].atom = atom /\ ~t[i].negate
                   /\ \A j \in i + 1 .. n : t[j].atom # atom
        BY <1>3, <1>4, <2>2, <3>3
      <3>4. (\E i \in DOMAIN t : /\ t[i].atom = atom /\ ~t[i].negate
                                 /\ \A j \in i + 1 .. Len(t) : t[j].atom # atom)
            <=> (\E i \in DOMAIN s : /\ s[i].atom = atom /\ ~s[i].negate
                                     /\ \A j \in i + 1 .. Len(s) : s[j].atom # atom)
        BY <1>3, <3>2, <3>3
      <3>5. QED
        BY <2>2, <3>1, <3>4, Zenon DEF Edited
    <2>3. QED
      BY <2>1, <2>2
  <1>7. Edited(A, s) \subseteq Atoms /\ Edited(A, t) \subseteq Atoms
    BY DEF Edited
  <1>8. CASE rows[n].negate
    <2>1. \A atom \in Atoms : atom \in Edited(A, t) <=> atom \in Edited(A, s) /\ atom # rows[n].atom
      BY <1>6, <1>8
    <2>2. QED
      BY <1>1, <1>2, <1>7, <1>8, <2>1 DEF After
  <1>9. CASE ~rows[n].negate
    <2>1. \A atom \in Atoms : atom \in Edited(A, t) <=> atom \in Edited(A, s) \/ atom = rows[n].atom
      BY <1>6, <1>9
    <2>2. QED
      BY <1>1, <1>2, <1>5, <1>7, <1>9, <2>1 DEF After
  <1>10. QED
    BY <1>8, <1>9

-----------------------------------------------------------------------------
(* Lines of package.mask                                                   *)

\* The lines say something of a package; the last that does masks it.
Mentions(lines, package) == \E i \in DOMAIN lines : package \in lines[i].packages

Marks(lines, package) ==
    \E i \in DOMAIN lines :
        /\ package \in lines[i].packages /\ ~lines[i].negate
        /\ \A j \in i + 1 .. Len(lines) : package \notin lines[j].packages

Marked(lines, repositories) ==
    {key \in Expanded(Packages, repositories) : Marks(lines, key[1])}

\* The flags that are set.
On(masked) == {key \in DOMAIN masked : masked[key]}

LEMMA NothingMarked == \A package : ~Marks(<<>>, package) /\ ~Mentions(<<>>, package)
  BY DEF Marks, Mentions

\* Of lines one after the other, those behind decide if they say anything.
LEMMA MarksBehind ==
  ASSUME NEW s \in Seq(MaskLines), NEW t \in Seq(MaskLines), NEW package
  PROVE  /\ Mentions(s \o t, package) <=> Mentions(s, package) \/ Mentions(t, package)
         /\ Marks(s \o t, package) <=>
                Marks(t, package) \/ (Marks(s, package) /\ ~Mentions(t, package))
  <1>1. PICK m, n : m = Len(s) /\ n = Len(t)
    OBVIOUS
  <1>2. PICK u : u = s \o t
    OBVIOUS
  <1>3. /\ m \in Nat /\ n \in Nat /\ Len(u) = m + n
        /\ DOMAIN s = 1 .. m /\ DOMAIN t = 1 .. n /\ DOMAIN u = 1 .. m + n
    BY <1>1, <1>2
  <1>4. /\ \A i \in 1 .. m : u[i] = s[i]
        /\ \A i \in 1 .. n : u[m + i] = t[i]
    BY <1>1, <1>2, <1>3
  <1>5. ASSUME NEW i \in 1 .. m + n
        PROVE  i \in 1 .. m \/ (i - m \in 1 .. n /\ u[i] = t[i - m])
    <2>1. i > m => i - m \in 1 .. n /\ m + (i - m) = i
      BY <1>3
    <2>2. QED
      BY <1>3, <1>4, <2>1
  <1>6. Mentions(u, package) <=> Mentions(s, package) \/ Mentions(t, package)
    <2>1. ASSUME Mentions(u, package) PROVE Mentions(s, package) \/ Mentions(t, package)
      <3>1. PICK i \in 1 .. m + n : package \in u[i].packages
        BY <1>3, <2>1 DEF Mentions
      <3>2. QED
        BY <1>3, <1>4, <1>5, <3>1 DEF Mentions
    <2>2. ASSUME Mentions(s, package) PROVE Mentions(u, package)
      BY <1>3, <1>4, <2>2 DEF Mentions
    <2>3. ASSUME Mentions(t, package) PROVE Mentions(u, package)
      <3>1. PICK i \in 1 .. n : package \in t[i].packages
        BY <1>3, <2>3 DEF Mentions
      <3>2. m + i \in 1 .. m + n /\ package \in u[m + i].packages
        BY <1>3, <1>4, <3>1
      <3>3. QED
        BY <1>3, <3>2 DEF Mentions
    <2>4. QED
      BY <2>1, <2>2, <2>3
  <1>7. ASSUME Marks(u, package)
        PROVE  Marks(t, package) \/ (Marks(s, package) /\ ~Mentions(t, package))
    <2>1. PICK i \in 1 .. m + n : /\ package \in u[i].packages /\ ~u[i].negate
                                  /\ \A j \in i + 1 .. m + n : package \notin u[j].packages
      BY <1>3, <1>7 DEF Marks
    <2>2. CASE i \in 1 .. m
      <3>1. \A j \in 1 .. n : m + j \in i + 1 .. m + n
        BY <1>3, <2>2
      <3>2. ~Mentions(t, package)
        BY <1>3, <1>4, <2>1, <3>1 DEF Mentions
      <3>3. \A j \in i + 1 .. m : package \notin s[j].packages
        BY <1>3, <1>4, <2>1, <2>2
      <3>4. Marks(s, package)
        BY <1>1, <1>3, <1>4, <2>1, <2>2, <3>3 DEF Marks
      <3>5. QED
        BY <3>2, <3>4
    <2>3. CASE i - m \in 1 .. n /\ u[i] = t[i - m]
      <3>1. \A j \in (i - m) + 1 .. n : m + j \in i + 1 .. m + n /\ j \in 1 .. n
        BY <1>3, <2>3
      <3>2. \A j \in (i - m) + 1 .. n : package \notin t[j].packages
        BY <1>4, <2>1, <3>1
      <3>3. QED
        BY <1>1, <1>3, <2>1, <2>3, <3>2 DEF Marks
    <2>4. QED
      BY <1>5, <2>2, <2>3
  <1>8. ASSUME Marks(t, package)
        PROVE  Marks(u, package)
    <2>1. PICK i \in 1 .. n : /\ package \in t[i].packages /\ ~t[i].negate
                              /\ \A j \in i + 1 .. n : package \notin t[j].packages
      BY <1>1, <1>3, <1>8 DEF Marks
    <2>2. m + i \in 1 .. m + n /\ u[m + i] = t[i]
      BY <1>3, <1>4
    <2>3. ASSUME NEW j \in (m + i) + 1 .. m + n
          PROVE  package \notin u[j].packages
      <3>1. j - m \in 1 .. n /\ j - m \in i + 1 .. n /\ m + (j - m) = j
        BY <1>3
      <3>2. u[j] = t[j - m]
        BY <1>4, <3>1
      <3>3. QED
        BY <2>1, <3>1, <3>2
    <2>4. QED
      BY <1>3, <2>1, <2>2, <2>3 DEF Marks
  <1>9. ASSUME Marks(s, package), ~Mentions(t, package)
        PROVE  Marks(u, package)
    <2>1. PICK i \in 1 .. m : /\ package \in s[i].packages /\ ~s[i].negate
                              /\ \A j \in i + 1 .. m : package \notin s[j].packages
      BY <1>1, <1>3, <1>9 DEF Marks
    <2>2. i \in 1 .. m + n /\ u[i] = s[i]
      BY <1>3, <1>4
    <2>3. ASSUME NEW j \in i + 1 .. m + n
          PROVE  package \notin u[j].packages
      <3>1. j \in 1 .. m + n
        BY <1>3
      <3>2. CASE j \in 1 .. m
        BY <1>3, <1>4, <2>1, <3>2
      <3>3. CASE j - m \in 1 .. n /\ u[j] = t[j - m]
        BY <1>3, <1>9, <3>3 DEF Mentions
      <3>4. QED
        BY <1>5, <3>1, <3>2, <3>3
    <2>4. QED
      BY <1>3, <2>1, <2>2, <2>3 DEF Marks
  <1>10. QED
    BY <1>2, <1>6, <1>7, <1>8, <1>9

LEMMA ExpandedPart ==
  ASSUME NEW P, P \subseteq Packages, NEW R, NEW key
  PROVE  key \in Expanded(P, R) <=> key \in Expanded(Packages, R) /\ key[1] \in P
  BY DEF Expanded

\* A line more marks, or unmarks, the packages of its expression.
LEMMA MarkedOne ==
  ASSUME NEW lines \in Seq(MaskLines), NEW line \in MaskLines, NEW R
  PROVE  Marked(Append(lines, line), R) =
            IF line.negate THEN Marked(lines, R) \ Expanded(line.packages, R)
            ELSE Marked(lines, R) \cup Expanded(line.packages, R)
  <1>1. line.packages \subseteq Packages /\ line.negate \in BOOLEAN
    BY DEF MaskLines
  <1>2. <<line>> \in Seq(MaskLines) /\ Append(lines, line) = lines \o <<line>>
    OBVIOUS
  <1>3. DOMAIN <<line>> = {1} /\ <<line>>[1] = line /\ Len(<<line>>) = 1
    OBVIOUS
  <1>4. ASSUME NEW package
        PROVE  /\ Mentions(<<line>>, package) <=> package \in line.packages
               /\ Marks(<<line>>, package) <=> package \in line.packages /\ ~line.negate
    <2>1. \A j \in 1 + 1 .. 1 : FALSE
      OBVIOUS
    <2>2. QED
      BY <1>3, <2>1 DEF Mentions, Marks
  <1>5. \A package : Marks(Append(lines, line), package) <=>
            IF package \in line.packages THEN ~line.negate ELSE Marks(lines, package)
    <2>1. SUFFICES ASSUME NEW package
                   PROVE  Marks(lines \o <<line>>, package) <=>
                             IF package \in line.packages THEN ~line.negate ELSE Marks(lines, package)
      BY <1>2
    <2>2. Marks(lines \o <<line>>, package) <=>
              Marks(<<line>>, package) \/ (Marks(lines, package) /\ ~Mentions(<<line>>, package))
      BY <1>2, MarksBehind
    <2>3. QED
      BY <1>4, <2>2, Zenon
  <1>6. \A key : key \in Expanded(line.packages, R) <=>
                    key \in Expanded(Packages, R) /\ key[1] \in line.packages
    BY <1>1, ExpandedPart
  <1>7. \A key : key \in Marked(Append(lines, line), R) <=>
            IF key \in Expanded(line.packages, R) THEN ~line.negate ELSE key \in Marked(lines, R)
    BY <1>5, <1>6, Zenon DEF Marked
  <1>8. \A key : key \in Expanded(line.packages, R) /\ ~line.negate
                    => key \in Marked(Append(lines, line), R)
    BY <1>7
  <1>9. CASE line.negate
    BY <1>7, <1>9
  <1>10. CASE ~line.negate
    BY <1>7, <1>10
  <1>11. QED
    BY <1>9, <1>10

\* So does init_package_mask with the flags.
LEMMA OnMasked ==
  ASSUME NEW masked, masked \in [DOMAIN masked -> BOOLEAN], NEW line \in MaskLines, NEW R
  PROVE  /\ Masked(masked, line, R) \in [DOMAIN Masked(masked, line, R) -> BOOLEAN]
         /\ On(Masked(masked, line, R)) =
                IF line.negate THEN On(masked) \ Expanded(line.packages, R)
                ELSE On(masked) \cup Expanded(line.packages, R)
  <1>1. PICK keys : keys = Expanded(line.packages, R)
    OBVIOUS
  <1>2. PICK made : made = IF line.negate THEN {} ELSE keys
    OBVIOUS
  <1>3. PICK new : new = Masked(masked, line, R)
    OBVIOUS
  <1>4. line.negate \in BOOLEAN
    BY DEF MaskLines
  <1>5. new = [key \in DOMAIN masked \cup made |-> IF key \in keys THEN ~line.negate ELSE masked[key]]
    BY <1>1, <1>2, <1>3 DEF Masked
  <1>6. DOMAIN new = DOMAIN masked \cup made
    BY <1>5
  <1>7. ASSUME NEW key \in DOMAIN new
        PROVE  /\ key \in keys => new[key] = (~line.negate)
               /\ key \notin keys => key \in DOMAIN masked /\ new[key] = masked[key]
    <2>1. key \notin keys => key \in DOMAIN masked
      BY <1>2, <1>6
    <2>2. key \in DOMAIN masked \cup made
      BY <1>6
    <2>3. QED
      BY <1>5, <2>1, <2>2, Zenon
  <1>8. ASSUME NEW key \in DOMAIN new
        PROVE  new[key] \in BOOLEAN
    <2>1. CASE key \in keys
      BY <1>7, <2>1, Zenon
    <2>2. CASE key \notin keys
      BY <1>7, <2>2
    <2>3. QED
      BY <2>1, <2>2
  <1>9. CASE line.negate
    <2>1. made = {} /\ DOMAIN new = DOMAIN masked
      BY <1>2, <1>6, <1>9
    <2>2. \A key \in DOMAIN new : key \in keys => ~new[key]
      BY <1>7, <1>9, Zenon
    <2>3. \A key \in DOMAIN new : key \notin keys => (new[key] <=> masked[key])
      BY <1>7, Zenon
    <2>4. On(new) = On(masked) \ keys
      BY <2>1, <2>2, <2>3, Zenon DEF On
    <2>5. QED
      BY <1>1, <1>3, <1>5, <1>6, <1>8, <1>9, <2>4
  <1>10. CASE ~line.negate
    <2>1. DOMAIN new = DOMAIN masked \cup keys
      BY <1>2, <1>6, <1>10
    <2>2. \A key \in DOMAIN new : key \in keys => new[key]
      BY <1>7, <1>10, Zenon
    <2>3. \A key \in DOMAIN new : key \notin keys => (new[key] <=> masked[key])
      BY <1>7, Zenon
    <2>4. On(new) = On(masked) \cup keys
      BY <2>1, <2>2, <2>3, Zenon DEF On
    <2>5. QED
      BY <1>1, <1>3, <1>5, <1>6, <1>8, <1>10, <2>4
  <1>11. QED
    BY <1>9, <1>10

\* What is read is every visible file once, in the order of the names.
LEMMA FilesListed ==
  ASSUME NEW directory \in SUBSET MaskFiles, IsFiniteSet(directory),
         NEW files \in get_config_files(directory)
  PROVE  /\ files \in Seq({file \in directory : ~file.hidden})
         /\ \A file \in directory : ~file.hidden => \E i \in DOMAIN files : files[i] = file
         /\ \A i, j \in DOMAIN files : i < j => files[i].name < files[j].name
  <1>1. PICK V : V = {file \in directory : ~file.hidden}
    OBVIOUS
  <1>2. IsFiniteSet(V)
    BY <1>1, FS_Subset
  <1>3. PICK n : n = Cardinality(V)
    OBVIOUS
  <1>4. n \in Nat
    BY <1>2, <1>3, FS_CardinalityType
  <1>5. /\ files \in [1 .. n -> V]
        /\ \A i, j \in 1 .. n : i # j => files[i] # files[j]
        /\ \A i, j \in DOMAIN files : i < j => files[i].name < files[j].name
    BY <1>1, <1>3 DEF get_config_files, SetToSeqs
  <1>6. files \in Seq(V)
    BY <1>4, <1>5
  <1>7. files \in Injection(1 .. n, V)
    BY <1>5 DEF Injection, IsInjective
  <1>8. Cardinality(1 .. n) = n
    BY <1>4, FS_Interval
  <1>9. files \in Surjection(1 .. n, V)
    BY <1>2, <1>3, <1>7, <1>8, FS_Injection
  <1>10. \A file \in V : \E i \in 1 .. n : files[i] = file
    BY <1>9 DEF Surjection
  <1>11. QED
    BY <1>1, <1>5, <1>6, <1>10

\* Which lines decide, in terms of the files they come from: those of the last file that
\* says something of the package.
LEMMA LastFileDecides ==
  ASSUME NEW files \in Seq(MaskFiles), NEW package
  PROVE  /\ LinesOf(files) \in Seq(MaskLines)
         /\ Mentions(LinesOf(files), package) <=>
                \E i \in DOMAIN files : Mentions(files[i].lines, package)
         /\ Marks(LinesOf(files), package) <=>
                \E i \in DOMAIN files :
                    /\ Marks(files[i].lines, package)
                    /\ \A j \in i + 1 .. Len(files) : ~Mentions(files[j].lines, package)
  <1>1. PICK n : n = Len(files)
    OBVIOUS
  <1>2. n \in Nat /\ DOMAIN files = 1 .. n
    BY <1>1
  <1>3. \A i \in 1 .. n : files[i].lines \in Seq(MaskLines)
    <2>1. \A i \in 1 .. n : files[i] \in MaskFiles
      BY <1>2
    <2>2. QED
      BY <2>1 DEF MaskFiles
  <1>4. PICK parts : parts = [m \in 0 .. n |-> FlattenSeq([i \in 1 .. m |-> files[i].lines])]
    OBVIOUS
  <1>5. /\ parts[0] = <<>>
        /\ \A m \in 1 .. n : parts[m] = parts[m - 1] \o files[m].lines
        /\ \A m \in 0 .. n : parts[m] \in Seq(MaskLines)
    <2>1. ASSUME NEW m \in 0 .. n
          PROVE  /\ [i \in 1 .. m |-> files[i].lines] \in Seq(Seq(MaskLines))
                 /\ Len([i \in 1 .. m |-> files[i].lines]) = m
      <3>1. \A i \in 1 .. m : files[i].lines \in Seq(MaskLines)
        BY <1>2, <1>3
      <3>2. QED
        BY <1>2, <3>1
    <2>2. parts[0] = <<>>
      <3>1. [i \in 1 .. 0 |-> files[i].lines] = <<>>
        BY <1>2, <2>1, EmptySeq
      <3>2. QED
        BY <1>2, <1>4, <3>1, FlattenNothing
    <2>3. ASSUME NEW m \in 1 .. n
          PROVE  parts[m] = parts[m - 1] \o files[m].lines
      <3>1. PICK u : u = [i \in 1 .. m - 1 |-> files[i].lines]
        OBVIOUS
      <3>2. PICK w : w = [i \in 1 .. m |-> files[i].lines]
        OBVIOUS
      <3>3. m \in 0 .. n /\ m - 1 \in 0 .. n
        BY <1>2
      <3>4. u \in Seq(Seq(MaskLines)) /\ Len(u) = m - 1
        BY <2>1, <3>1, <3>3
      <3>5. w \in Seq(Seq(MaskLines)) /\ Len(w) = m
        BY <2>1, <3>2, <3>3
      <3>6. files[m].lines \in Seq(MaskLines)
        BY <1>3
      <3>7. w = Append(u, files[m].lines)
        BY <3>1, <3>2, <3>3, <3>4, <3>5, <3>6
      <3>8. FlattenSeq(w) = FlattenSeq(u) \o files[m].lines
        BY <3>4, <3>6, <3>7, FlattenAppend
      <3>9. parts[m] = FlattenSeq(w) /\ parts[m - 1] = FlattenSeq(u)
        BY <1>4, <3>1, <3>2, <3>3
      <3>10. QED
        BY <3>8, <3>9
    <2>4. ASSUME NEW m \in 0 .. n
          PROVE  parts[m] \in Seq(MaskLines)
      BY <1>4, <2>1, FlattenTyped
    <2>5. QED
      BY <2>2, <2>3, <2>4
  <1> DEFINE Says(m) ==
        /\ Mentions(parts[m], package) <=> \E i \in 1 .. m : Mentions(files[i].lines, package)
        /\ Marks(parts[m], package) <=>
              \E i \in 1 .. m :
                  /\ Marks(files[i].lines, package)
                  /\ \A j \in i + 1 .. m : ~Mentions(files[j].lines, package)
  <1>6. Says(0)
    <2>1. 1 .. 0 = {}
      OBVIOUS
    <2>2. QED
      BY <1>5, <2>1, NothingMarked
  <1>7. ASSUME NEW m \in 1 .. n, Says(m - 1)
        PROVE  Says(m)
    <2>1. PICK s : s = parts[m - 1]
      OBVIOUS
    <2>2. PICK t : t = files[m].lines
      OBVIOUS
    <2>3. m \in Nat /\ s \in Seq(MaskLines) /\ t \in Seq(MaskLines) /\ parts[m] = s \o t
      <3>1. m \in Nat /\ m - 1 \in 0 .. n
        BY <1>2
      <3>2. parts[m - 1] \in Seq(MaskLines)
        BY <1>5, <3>1
      <3>3. QED
        BY <1>3, <1>5, <2>1, <2>2, <3>1, <3>2
    <2>4. /\ Mentions(parts[m], package) <=> Mentions(s, package) \/ Mentions(t, package)
          /\ Marks(parts[m], package) <=>
                Marks(t, package) \/ (Marks(s, package) /\ ~Mentions(t, package))
      BY <2>3, MarksBehind
    <2>5. Mentions(parts[m], package) <=> \E i \in 1 .. m : Mentions(files[i].lines, package)
      <3>1. Mentions(s, package) <=> \E i \in 1 .. m - 1 : Mentions(files[i].lines, package)
        BY <1>7, <2>1
      <3>2. \A i \in 1 .. m : i \in 1 .. m - 1 \/ i = m
        BY <2>3
      <3>3. \A i \in 1 .. m - 1 : i \in 1 .. m
        BY <2>3
      <3>4. m \in 1 .. m
        BY <2>3
      <3>5. QED
        BY <2>2, <2>4, <3>1, <3>2, <3>3, <3>4, Zenon
    <2>6. Marks(s, package) <=>
              \E i \in 1 .. m - 1 :
                  /\ Marks(files[i].lines, package)
                  /\ \A j \in i + 1 .. m - 1 : ~Mentions(files[j].lines, package)
      BY <1>7, <2>1
    <2>7. ASSUME Marks(parts[m], package)
          PROVE  \E i \in 1 .. m :
                  /\ Marks(files[i].lines, package)
                  /\ \A j \in i + 1 .. m : ~Mentions(files[j].lines, package)
      <3>1. CASE Marks(t, package)
        <4>1. m \in 1 .. m /\ m + 1 .. m = {}
          BY <2>3
        <4>2. QED
          BY <2>2, <3>1, <4>1
      <3>2. CASE Marks(s, package) /\ ~Mentions(t, package)
        <4>1. PICK i \in 1 .. m - 1 :
                  /\ Marks(files[i].lines, package)
                  /\ \A j \in i + 1 .. m - 1 : ~Mentions(files[j].lines, package)
          BY <2>6, <3>2
        <4>2. i \in 1 .. m /\ \A j \in i + 1 .. m : j = m \/ j \in i + 1 .. m - 1
          BY <2>3
        <4>3. QED
          BY <2>2, <3>2, <4>1, <4>2
      <3>3. QED
        BY <2>4, <2>7, <3>1, <3>2
    <2>8. ASSUME NEW i \in 1 .. m, Marks(files[i].lines, package),
                 \A j \in i + 1 .. m : ~Mentions(files[j].lines, package)
          PROVE  Marks(parts[m], package)
      <3>1. CASE i = m
        BY <2>2, <2>4, <2>8, <3>1
      <3>2. CASE i # m
        <4>1. i \in 1 .. m - 1 /\ m \in i + 1 .. m
          BY <2>3, <3>2
        <4>2. \A j \in i + 1 .. m - 1 : j \in i + 1 .. m
          BY <2>3
        <4>3. Marks(s, package) /\ ~Mentions(t, package)
          BY <2>2, <2>6, <2>8, <4>1, <4>2
        <4>4. QED
          BY <2>4, <4>3
      <3>3. QED
        BY <3>1, <3>2
    <2>9. QED
      BY <2>5, <2>7, <2>8
  <1> HIDE DEF Says
  <1>8. ASSUME ~Says(n)
        PROVE  FALSE
    <2>1. PICK odd : odd = {m \in 0 .. n : ~Says(m)}
      OBVIOUS
    <2>2. odd \subseteq Nat
      BY <2>1
    <2>3. n \in odd
      BY <1>2, <1>8, <2>1
    <2>4. PICK m \in odd : \A k \in odd : m <= k
      BY <2>2, <2>3, Least
    <2>5. m \in 0 .. n /\ ~Says(m)
      BY <2>1, <2>4
    <2>6. m # 0
      BY <1>6, <2>5
    <2>7. m \in 1 .. n /\ m - 1 \in 0 .. n /\ m - 1 \notin odd
      BY <1>2, <2>2, <2>4, <2>5, <2>6
    <2>8. Says(m - 1)
      BY <2>1, <2>7
    <2>9. QED
      BY <1>7, <2>5, <2>7, <2>8
  <1>9. LinesOf(files) = parts[n]
    <2>1. n \in 0 .. n
      BY <1>2
    <2>2. QED
      BY <1>2, <1>4, <2>1 DEF LinesOf
  <1>10. Says(n) /\ LinesOf(files) \in Seq(MaskLines)
    BY <1>2, <1>5, <1>8, <1>9
  <1>11. QED
    BY <1>1, <1>2, <1>9, <1>10 DEF Says

\* The lines that are read mark what MaskedBy says of the directory.
LEMMA MarkedByFiles ==
  ASSUME NEW directory \in SUBSET MaskFiles, IsFiniteSet(directory),
         NEW files \in get_config_files(directory), NEW R
  PROVE  LinesOf(files) \in Seq(MaskLines) /\ Marked(LinesOf(files), R) = MaskedBy(directory, R)
  <1>1. /\ files \in Seq({file \in directory : ~file.hidden})
        /\ \A file \in directory : ~file.hidden => \E i \in DOMAIN files : files[i] = file
        /\ \A i, j \in DOMAIN files : i < j => files[i].name < files[j].name
    BY FilesListed
  <1>2. files \in Seq(MaskFiles)
    BY <1>1
  <1>3. PICK n : n = Len(files)
    OBVIOUS
  <1>4. n \in Nat /\ DOMAIN files = 1 .. n
    BY <1>1, <1>3
  <1>5. \A i \in 1 .. n : files[i] \in directory /\ ~files[i].hidden
    BY <1>1, <1>4
  <1>6. \A i \in 1 .. n : files[i].name \in Nat
    BY <1>5 DEF MaskFiles
  <1>7. ASSUME NEW package
        PROVE  Marks(LinesOf(files), package) <=>
                 \E f \in {g \in directory : ~g.hidden /\ Mentions(g.lines, package)} :
                    /\ \A g \in {h \in directory : ~h.hidden /\ Mentions(h.lines, package)} :
                            g.name <= f.name
                    /\ Marks(f.lines, package)
    <2>1. \A lines : Marks(lines, package) => Mentions(lines, package)
      BY DEF Marks, Mentions
    <2>2. ASSUME NEW i \in 1 .. n, Marks(files[i].lines, package),
                 \A j \in i + 1 .. n : ~Mentions(files[j].lines, package),
                 NEW g \in directory, ~g.hidden, Mentions(g.lines, package)
          PROVE  g.name <= files[i].name
      <3>1. PICK k \in 1 .. n : files[k] = g
        BY <1>1, <1>4, <2>2
      <3>2. k \notin i + 1 .. n
        BY <2>2, <3>1
      <3>3. k < i \/ k = i
        BY <1>4, <3>2
      <3>4. QED
        BY <1>1, <1>4, <1>6, <3>1, <3>3
    <2>3. ASSUME NEW f \in directory, ~f.hidden, Marks(f.lines, package),
                 \A g \in {h \in directory : ~h.hidden /\ Mentions(h.lines, package)} :
                            g.name <= f.name
          PROVE  \E i \in 1 .. n :
                    /\ Marks(files[i].lines, package)
                    /\ \A j \in i + 1 .. n : ~Mentions(files[j].lines, package)
      <3>1. PICK i \in 1 .. n : files[i] = f
        BY <1>1, <1>4, <2>3
      <3>2. ASSUME NEW j \in i + 1 .. n, Mentions(files[j].lines, package)
            PROVE  FALSE
        <4>1. j \in 1 .. n /\ i < j
          BY <1>4
        <4>2. files[i].name < files[j].name
          BY <1>1, <1>4, <4>1
        <4>3. files[j].name <= files[i].name
          BY <1>5, <2>3, <3>1, <3>2, <4>1
        <4>4. QED
          BY <1>6, <4>1, <4>2, <4>3
      <3>3. QED
        BY <2>3, <3>1, <3>2
    <2>4. Marks(LinesOf(files), package) <=>
              \E i \in 1 .. n :
                  /\ Marks(files[i].lines, package)
                  /\ \A j \in i + 1 .. n : ~Mentions(files[j].lines, package)
      BY <1>2, <1>3, <1>4, LastFileDecides
    <2>5. QED
      BY <1>5, <2>1, <2>2, <2>3, <2>4
  <1>8. Marked(LinesOf(files), R) = MaskedBy(directory, R)
    BY <1>7, Zenon DEF Marked, MaskedBy, Marks, Mentions
  <1>9. QED
    BY <1>2, <1>8, LastFileDecides

-----------------------------------------------------------------------------
(* The constructors that run                                               *)

Flags == UNION {[D -> BOOLEAN] : D \in SUBSET (Packages \X Repos)}

Profiles ==
    [path : Dirs, repos : Seq(Repos), make_defaults_unevaluated : Seq(Dirs),
     packages : SUBSET Atoms, masked : Flags]

\* A caller injects one profile or none.
Injected == {{}} \cup {{p} : p \in Profiles}

Frames ==
    [self : Profiles, injected : Injected, given : Seq(Repos), paths : Seq(Dirs),
     parents : Seq(Profiles), next : Nat, lines : Seq(MaskLines), stage : Stages]

\* What parents have together.
LinesBy(parents) == FlattenSeq([i \in DOMAIN parents |-> parents[i].make_defaults_unevaluated])
AtomsBy(parents) == UNION {parents[i].packages : i \in DOMAIN parents}

\* The repositories of a profile.
Around(f) == IF f.given # <<>> THEN f.given ELSE <<RepoOf[f.self.path]>>

\* A profile holds what the files st of its hierarchy add up to, which is c and k, and
\* masks what its own say.
Full(c, k, profile) ==
    /\ profile.make_defaults_unevaluated = c[profile.path]
    /\ profile.packages = k[profile.path]

Whole(c, k, profile) == Full(c, k, profile) /\ profile.repos = <<RepoOf[profile.path]>>

Own(st, profile) == On(profile.masked) = MaskedBy(st.masks[profile.path], profile.repos)

\* What there is of the profile under construction, stage by stage.
Built(st, f) ==
    LET rows == st.packages[f.self.path]
    IN  /\ f.stage \in {"paths", "parents"} => f.self = Empty(f.self.path) /\ f.next = 1
        /\ f.stage = "paths" => f.parents = <<>> /\ f.paths = <<>>
        /\ f.stage \notin {"paths", "parents"} => f.paths = <<>> /\ f.self.repos = Around(f)
        /\ f.stage = "combine" =>
              /\ f.next \in 1 .. Len(f.parents) + 1
              /\ f.self.make_defaults_unevaluated = LinesBy(SubSeq(f.parents, 1, f.next - 1))
              /\ f.self.packages = AtomsBy(SubSeq(f.parents, 1, f.next - 1))
        /\ f.stage \in {"packages", "mask", "masking", "rest"} =>
              f.self.make_defaults_unevaluated = Append(LinesBy(f.parents), f.self.path)
        /\ f.stage = "packages" =>
              /\ f.next \in 1 .. Len(rows) + 1
              /\ f.self.packages = Edited(AtomsBy(f.parents), SubSeq(rows, 1, f.next - 1))
        /\ f.stage \in {"mask", "masking", "rest"} =>
              f.self.packages = Edited(AtomsBy(f.parents), rows)
        /\ f.stage \notin {"masking", "rest"} => f.self.masked = Empty(f.self.path).masked
        /\ f.stage = "masking" =>
              \E files \in get_config_files(st.masks[f.self.path]) :
              \E done \in Seq(MaskLines) :
                  /\ LinesOf(files) = done \o f.lines
                  /\ On(f.self.masked) = Marked(done, f.self.repos)
        /\ f.stage = "rest" => Own(st, f.self)

\* The parents that a constructor has, those that it has yet to construct, and the one,
\* if there is `more', that is under construction.
Waits(st, c, k, f, more) ==
    /\ \A p \in f.injected : Own(st, p)
    /\ \A n \in DOMAIN f.parents : Own(st, f.parents[n])
    /\ f.injected # {} =>
          /\ f.paths = <<>>
          /\ f.stage # "paths" => f.parents = SetToSeq(f.injected)
    /\ f.injected = {} =>
          /\ \A n \in DOMAIN f.parents : Whole(c, k, f.parents[n])
          /\ f.stage # "paths" =>
                LET h == st.hierarchy[f.self.path]
                IN  /\ Len(h) = Len(f.parents) + more + Len(f.paths)
                    /\ \A n \in 1 .. Len(f.parents) : f.parents[n].path = h[n]
                    /\ \A n \in 1 .. Len(f.paths) : f.paths[n] = h[Len(f.parents) + more + n]

\* Only the first constructor, which init_base calls, is given anything.
Tower(st, c, k, s) ==
    /\ s \in Seq(Frames)
    /\ \A i \in 1 .. Len(s) : Built(st, s[i])
    /\ \A i \in 1 .. Len(s) : Waits(st, c, k, s[i], IF i < Len(s) THEN 1 ELSE 0)
    /\ \A i \in 1 .. Len(s) - 1 :
          /\ s[i].stage = "parents" /\ s[i].injected = {}
          /\ s[i + 1].self.path = st.hierarchy[s[i].self.path][Len(s[i].parents) + 1]
    /\ \A i \in 2 .. Len(s) : s[i].injected = {} /\ s[i].given = <<>>

\* What c and k are.
Sums(st, c, k) ==
    /\ st \in Settings
    /\ c \in [Dirs -> Seq(Dirs)]
    /\ k \in [Dirs -> SUBSET Atoms]
    /\ \A d \in Dirs :
          /\ c[d] = FlattenSeq([i \in DOMAIN st.hierarchy[d] |-> c[st.hierarchy[d][i]]]) \o <<d>>
          /\ k[d] = Edited(UNION {k[st.hierarchy[d][i]] : i \in DOMAIN st.hierarchy[d]},
                           st.packages[d])

LEMMA SumsOfSetting ==
  ASSUME setting \in Settings
  PROVE  Sums(setting, Concatenation, InPackages)
  BY ConcatenationIs, InPackagesIs DEF Sums

LEMMA FilesTyped ==
  ASSUME NEW st \in Settings, NEW d \in Dirs
  PROVE  /\ st.hierarchy[d] \in Seq(Dirs) /\ st.packages[d] \in Seq(PackageLines)
         /\ st.masks[d] \in SUBSET MaskFiles /\ IsFiniteSet(st.masks[d])
  BY ProfileLoadAssumption

LEMMA FlagsTyped ==
  /\ [key \in {} |-> FALSE] \in Flags
  /\ \A masked \in Flags : masked \in [DOMAIN masked -> BOOLEAN]
  /\ \A masked \in Flags : \A line \in MaskLines : \A R \in Seq(Repos) :
        Masked(masked, line, R) \in Flags
  <1>1. [key \in {} |-> FALSE] \in [{} -> BOOLEAN] /\ {} \in SUBSET (Packages \X Repos)
    OBVIOUS
  <1>2. \A masked \in Flags : masked \in [DOMAIN masked -> BOOLEAN]
    BY DEF Flags
  <1>3. ASSUME NEW masked \in Flags, NEW line \in MaskLines, NEW R \in Seq(Repos)
        PROVE  Masked(masked, line, R) \in Flags
    <2>1. DOMAIN masked \subseteq Packages \X Repos
      BY DEF Flags
    <2>2. Expanded(line.packages, R) \subseteq Packages \X Repos
      <3>1. ToSet(R) \subseteq Repos
        BY DEF ToSet
      <3>2. line.packages \subseteq Packages
        BY DEF MaskLines
      <3>3. QED
        BY <3>1, <3>2 DEF Expanded
    <2>3. DOMAIN Masked(masked, line, R) \subseteq Packages \X Repos
      BY <2>1, <2>2 DEF Masked
    <2>4. Masked(masked, line, R) \in [DOMAIN Masked(masked, line, R) -> BOOLEAN]
      BY <1>2, OnMasked
    <2>5. QED
      BY <2>3, <2>4 DEF Flags
  <1>4. QED
    BY <1>1, <1>2, <1>3 DEF Flags

LEMMA EmptyTyped ==
  ASSUME NEW d \in Dirs
  PROVE  /\ Empty(d) \in Profiles /\ Empty(d).path = d
         /\ Empty(d).make_defaults_unevaluated = <<>> /\ Empty(d).packages = {}
         /\ On(Empty(d).masked) = {}
  <1>1. [key \in {} |-> FALSE] \in Flags
    BY FlagsTyped
  <1>2. On([key \in {} |-> FALSE]) = {}
    BY DEF On
  <1> DEFINE none == [key \in {} |-> FALSE]
  <1>3. Empty(d) = [path |-> d, repos |-> <<>>, make_defaults_unevaluated |-> <<>>, packages |-> {},
                    masked |-> none]
    BY DEF Empty
  <1> HIDE DEF none
  <1>4. none \in Flags /\ On(none) = {}
    BY <1>1, <1>2 DEF none
  <1>5. QED
    BY <1>3, <1>4 DEF Profiles

\* One parent more.
LEMMA GatherOne ==
  ASSUME NEW ps \in Seq(Profiles), NEW n \in 1 .. Len(ps)
  PROVE  /\ LinesBy(SubSeq(ps, 1, n)) =
                LinesBy(SubSeq(ps, 1, n - 1)) \o ps[n].make_defaults_unevaluated
         /\ AtomsBy(SubSeq(ps, 1, n)) = AtomsBy(SubSeq(ps, 1, n - 1)) \cup ps[n].packages
  <1>1. PICK s : s = SubSeq(ps, 1, n - 1)
    OBVIOUS
  <1>2. PICK t : t = SubSeq(ps, 1, n)
    OBVIOUS
  <1>3. n \in Nat /\ Len(s) = n - 1 /\ Len(t) = n /\ DOMAIN s = 1 .. n - 1 /\ DOMAIN t = 1 .. n
    BY <1>1, <1>2
  <1>4. t[n] = ps[n] /\ \A i \in 1 .. n - 1 : t[i] = s[i]
    BY <1>1, <1>2, <1>3
  <1>5. s \in Seq(Profiles) /\ t \in Seq(Profiles)
    BY <1>1, <1>2, <1>3
  <1>6. \A i \in 1 .. n : t[i].make_defaults_unevaluated \in Seq(Dirs)
    <2>1. \A i \in 1 .. n : t[i] \in Profiles
      BY <1>3, <1>5
    <2>2. QED
      BY <2>1 DEF Profiles
  <1>7. PICK u : u = [i \in DOMAIN s |-> s[i].make_defaults_unevaluated]
    OBVIOUS
  <1>8. PICK w : w = [i \in DOMAIN t |-> t[i].make_defaults_unevaluated]
    OBVIOUS
  <1>9. u \in Seq(Seq(Dirs)) /\ Len(u) = n - 1
    <2>1. \A i \in 1 .. n - 1 : i \in 1 .. n
      BY <1>3
    <2>2. \A i \in 1 .. n - 1 : s[i].make_defaults_unevaluated \in Seq(Dirs)
      BY <1>4, <1>6, <2>1
    <2>3. QED
      BY <1>3, <1>7, <2>2
  <1>10. w = Append(u, t[n].make_defaults_unevaluated)
    BY <1>3, <1>4, <1>6, <1>7, <1>8, <1>9
  <1>11. FlattenSeq(w) = FlattenSeq(u) \o t[n].make_defaults_unevaluated
    <2>1. t[n].make_defaults_unevaluated \in Seq(Dirs)
      BY <1>3, <1>6
    <2>2. QED
      BY <1>9, <1>10, <2>1, FlattenAppend
  <1>12. LinesBy(t) = LinesBy(s) \o ps[n].make_defaults_unevaluated
    BY <1>4, <1>7, <1>8, <1>11 DEF LinesBy
  <1>13. AtomsBy(t) = AtomsBy(s) \cup ps[n].packages
    <2>1. \A i \in 1 .. n : i \in 1 .. n - 1 \/ i = n
      BY <1>3
    <2>2. n \in 1 .. n /\ \A i \in 1 .. n - 1 : i \in 1 .. n
      BY <1>3
    <2>3. QED
      BY <1>3, <1>4, <2>1, <2>2 DEF AtomsBy
  <1>14. QED
    BY <1>1, <1>2, <1>12, <1>13

LEMMA GatherNothing == LinesBy(<<>>) = <<>> /\ AtomsBy(<<>>) = {}
  <1>1. [i \in DOMAIN <<>> |-> <<>>[i].make_defaults_unevaluated] = <<>>
    OBVIOUS
  <1>2. QED
    BY <1>1, FlattenNothing DEF LinesBy, AtomsBy

LEMMA GatherTyped ==
  ASSUME NEW ps \in Seq(Profiles)
  PROVE  LinesBy(ps) \in Seq(Dirs) /\ AtomsBy(ps) \subseteq Atoms
  <1>1. \A i \in DOMAIN ps : ps[i] \in Profiles
    OBVIOUS
  <1>2. \A i \in DOMAIN ps :
            ps[i].make_defaults_unevaluated \in Seq(Dirs) /\ ps[i].packages \subseteq Atoms
    BY <1>1 DEF Profiles
  <1>3. PICK u : u = [i \in DOMAIN ps |-> ps[i].make_defaults_unevaluated]
    OBVIOUS
  <1>4. u \in Seq(Seq(Dirs))
    BY <1>2, <1>3
  <1>5. FlattenSeq(u) \in Seq(Dirs)
    BY <1>4, FlattenTyped
  <1>6. QED
    BY <1>2, <1>3, <1>5 DEF LinesBy, AtomsBy

-----------------------------------------------------------------------------
(* Calls and returns                                                       *)

LEMMA TowerReplaced ==
  ASSUME NEW st, NEW c, NEW k, NEW s, Tower(st, c, k, s), s # <<>>,
         NEW f, f = s[Len(s)],
         NEW g \in Frames, Built(st, g), Waits(st, c, k, g, 0),
         g.self.path = f.self.path, g.injected = f.injected, g.given = f.given
  PROVE  Tower(st, c, k, [s EXCEPT ![Len(s)] = g])
  <1>1. PICK n : n = Len(s)
    OBVIOUS
  <1>2. PICK t : t = [s EXCEPT ![Len(s)] = g]
    OBVIOUS
  <1>3. n \in Nat /\ n > 0 /\ s \in Seq(Frames)
    BY <1>1 DEF Tower
  <1>4. t \in Seq(Frames) /\ Len(t) = n /\ \A i \in 1 .. n : t[i] = IF i = n THEN g ELSE s[i]
    BY <1>1, <1>2, <1>3
  <1>5. \A i \in 1 .. n : Built(st, t[i])
    BY <1>1, <1>4 DEF Tower
  <1>6. ASSUME NEW i \in 1 .. n
        PROVE  Waits(st, c, k, t[i], IF i < n THEN 1 ELSE 0)
    <2>1. CASE i = n
      BY <1>3, <1>4, <2>1
    <2>2. CASE i # n
      BY <1>1, <1>4, <2>2 DEF Tower
    <2>3. QED
      BY <2>1, <2>2
  <1>7. ASSUME NEW i \in 1 .. n - 1
        PROVE  /\ t[i].stage = "parents" /\ t[i].injected = {}
               /\ t[i + 1].self.path = st.hierarchy[t[i].self.path][Len(t[i].parents) + 1]
    <2>1. i \in 1 .. n /\ i # n /\ i + 1 \in 1 .. n /\ t[i] = s[i]
      BY <1>3, <1>4
    <2>2. t[i + 1].self.path = s[i + 1].self.path
      BY <1>1, <1>4, <2>1
    <2>3. /\ s[i].stage = "parents" /\ s[i].injected = {}
          /\ s[i + 1].self.path = st.hierarchy[s[i].self.path][Len(s[i].parents) + 1]
      BY <1>1 DEF Tower
    <2>4. QED
      BY <2>1, <2>2, <2>3
  <1>8. ASSUME NEW i \in 2 .. n
        PROVE  t[i].injected = {} /\ t[i].given = <<>>
    <2>1. i \in 1 .. n
      BY <1>3
    <2>2. s[i].injected = {} /\ s[i].given = <<>>
      BY <1>1 DEF Tower
    <2>3. QED
      BY <1>1, <1>4, <2>1, <2>2
  <1>9. QED
    BY <1>2, <1>4, <1>5, <1>6, <1>7, <1>8 DEF Tower

\* The one that runs constructs a parent.
LEMMA TowerPushed ==
  ASSUME NEW st, NEW c, NEW k, NEW s, Tower(st, c, k, s), s # <<>>,
         NEW f, f = s[Len(s)],
         NEW g \in Frames, Built(st, g), Waits(st, c, k, g, 1),
         g.self.path = f.self.path, g.injected = f.injected, g.given = f.given,
         g.stage = "parents", g.injected = {},
         NEW h \in Frames, Built(st, h), Waits(st, c, k, h, 0),
         h.injected = {}, h.given = <<>>,
         h.self.path = st.hierarchy[g.self.path][Len(g.parents) + 1]
  PROVE  Tower(st, c, k, Append([s EXCEPT ![Len(s)] = g], h))
  <1>1. PICK n : n = Len(s)
    OBVIOUS
  <1>2. PICK r : r = [s EXCEPT ![Len(s)] = g]
    OBVIOUS
  <1>3. PICK t : t = Append(r, h)
    OBVIOUS
  <1>4. n \in Nat /\ n > 0 /\ s \in Seq(Frames)
    BY <1>1 DEF Tower
  <1>5. r \in Seq(Frames) /\ Len(r) = n /\ \A i \in 1 .. n : r[i] = IF i = n THEN g ELSE s[i]
    BY <1>1, <1>2, <1>4
  <1>6. t \in Seq(Frames) /\ Len(t) = n + 1 /\ t[n + 1] = h /\ \A i \in 1 .. n : t[i] = r[i]
    BY <1>3, <1>4, <1>5
  <1>7. \A i \in 1 .. n + 1 : i \in 1 .. n \/ i = n + 1
    BY <1>4
  <1>8. \A i \in 1 .. n + 1 : Built(st, t[i])
    BY <1>1, <1>5, <1>6, <1>7 DEF Tower
  <1>9. ASSUME NEW i \in 1 .. n + 1
        PROVE  Waits(st, c, k, t[i], IF i < n + 1 THEN 1 ELSE 0)
    <2>1. CASE i = n + 1
      BY <1>4, <1>6, <2>1
    <2>2. CASE i = n
      BY <1>4, <1>5, <1>6, <2>2
    <2>3. CASE i # n /\ i # n + 1
      <3>1. i \in 1 .. n /\ i < n /\ t[i] = s[i]
        BY <1>4, <1>5, <1>6, <2>3
      <3>2. QED
        BY <1>1, <1>4, <3>1 DEF Tower
    <2>4. QED
      BY <2>1, <2>2, <2>3
  <1>10. ASSUME NEW i \in 1 .. n
         PROVE  /\ t[i].stage = "parents" /\ t[i].injected = {}
                /\ t[i + 1].self.path = st.hierarchy[t[i].self.path][Len(t[i].parents) + 1]
    <2>1. CASE i = n
      BY <1>4, <1>5, <1>6, <2>1
    <2>2. CASE i # n
      <3>1. i \in 1 .. n - 1 /\ i + 1 \in 1 .. n /\ t[i] = s[i]
        BY <1>4, <1>5, <1>6, <2>2
      <3>2. t[i + 1].self.path = s[i + 1].self.path
        BY <1>1, <1>5, <1>6, <3>1
      <3>3. /\ s[i].stage = "parents" /\ s[i].injected = {}
            /\ s[i + 1].self.path = st.hierarchy[s[i].self.path][Len(s[i].parents) + 1]
        BY <1>1, <3>1 DEF Tower
      <3>4. QED
        BY <3>1, <3>2, <3>3
    <2>3. QED
      BY <2>1, <2>2
  <1>11. ASSUME NEW i \in 2 .. n + 1
         PROVE  t[i].injected = {} /\ t[i].given = <<>>
    <2>1. CASE i = n + 1
      BY <1>6, <2>1
    <2>2. CASE i # n + 1
      <3>1. i \in 1 .. n /\ i \in 2 .. n
        BY <1>4, <2>2
      <3>2. s[i].injected = {} /\ s[i].given = <<>>
        BY <1>1, <3>1 DEF Tower
      <3>3. QED
        BY <1>1, <1>5, <1>6, <3>1, <3>2
    <2>3. QED
      BY <2>1, <2>2
  <1>12. QED
    <2>1. Len(t) - 1 = n /\ Len(t) = n + 1
      BY <1>4, <1>6
    <2>2. \A i \in 1 .. Len(t) : Waits(st, c, k, t[i], IF i < Len(t) THEN 1 ELSE 0)
      BY <1>9, <2>1
    <2>3. /\ \A i \in 1 .. Len(t) : Built(st, t[i])
          /\ \A i \in 2 .. Len(t) : t[i].injected = {} /\ t[i].given = <<>>
      BY <1>8, <1>11, <2>1
    <2>4. \A i \in 1 .. Len(t) - 1 :
              /\ t[i].stage = "parents" /\ t[i].injected = {}
              /\ t[i + 1].self.path = st.hierarchy[t[i].self.path][Len(t[i].parents) + 1]
      BY <1>10, <2>1
    <2>5. Tower(st, c, k, t)
      BY <1>6, <2>2, <2>3, <2>4, Zenon DEF Tower
    <2>6. QED
      BY <1>2, <1>3, <2>5

\* It returns to the one that called it.
LEMMA TowerPopped ==
  ASSUME NEW st, NEW c, NEW k, NEW s, Tower(st, c, k, s),
         NEW n, n = Len(s), n > 1,
         NEW f, f = s[n - 1],
         NEW g \in Frames, Built(st, g), Waits(st, c, k, g, 0),
         g.self.path = f.self.path, g.injected = f.injected, g.given = f.given
  PROVE  Tower(st, c, k, [Front(s) EXCEPT ![n - 1] = g])
  <1>1. PICK r : r = Front(s)
    OBVIOUS
  <1>2. PICK t : t = [r EXCEPT ![n - 1] = g]
    OBVIOUS
  <1>3. n \in Nat /\ s \in Seq(Frames)
    BY DEF Tower
  <1>4. r \in Seq(Frames) /\ Len(r) = n - 1 /\ \A i \in 1 .. n - 1 : r[i] = s[i]
    BY <1>1, <1>3 DEF Front
  <1>5. t \in Seq(Frames) /\ Len(t) = n - 1 /\ \A i \in 1 .. n - 1 : t[i] = IF i = n - 1 THEN g ELSE s[i]
    BY <1>2, <1>3, <1>4
  <1>6. \A i \in 1 .. n - 1 : Built(st, t[i])
    <2>1. \A i \in 1 .. n - 1 : i \in 1 .. n
      BY <1>3
    <2>2. QED
      BY <1>5, <2>1 DEF Tower
  <1>7. ASSUME NEW i \in 1 .. n - 1
        PROVE  Waits(st, c, k, t[i], IF i < n - 1 THEN 1 ELSE 0)
    <2>1. CASE i = n - 1
      BY <1>3, <1>5, <2>1
    <2>2. CASE i # n - 1
      <3>1. i \in 1 .. n /\ i < n - 1 /\ i < n /\ t[i] = s[i]
        BY <1>3, <1>5, <2>2
      <3>2. QED
        BY <3>1 DEF Tower
    <2>3. QED
      BY <2>1, <2>2
  <1>8. ASSUME NEW i \in 1 .. n - 2
        PROVE  /\ t[i].stage = "parents" /\ t[i].injected = {}
               /\ t[i + 1].self.path = st.hierarchy[t[i].self.path][Len(t[i].parents) + 1]
    <2>1. i \in 1 .. n - 1 /\ i # n - 1 /\ i + 1 \in 1 .. n - 1 /\ t[i] = s[i]
      BY <1>3, <1>5
    <2>2. t[i + 1].self.path = s[i + 1].self.path
      BY <1>5, <2>1
    <2>3. /\ s[i].stage = "parents" /\ s[i].injected = {}
          /\ s[i + 1].self.path = st.hierarchy[s[i].self.path][Len(s[i].parents) + 1]
      BY <2>1 DEF Tower
    <2>4. QED
      BY <2>1, <2>2, <2>3
  <1>9. ASSUME NEW i \in 2 .. n - 1
        PROVE  t[i].injected = {} /\ t[i].given = <<>>
    <2>1. i \in 1 .. n - 1 /\ i \in 2 .. n
      BY <1>3
    <2>2. s[i].injected = {} /\ s[i].given = <<>>
      BY <2>1 DEF Tower
    <2>3. QED
      BY <1>5, <2>1, <2>2
  <1>10. QED
    <2>1. Len(t) = n - 1 /\ Len(t) - 1 = n - 2
      BY <1>3, <1>5
    <2>2. \A i \in 1 .. Len(t) : Waits(st, c, k, t[i], IF i < Len(t) THEN 1 ELSE 0)
      BY <1>7, <2>1
    <2>3. /\ \A i \in 1 .. Len(t) : Built(st, t[i])
          /\ \A i \in 2 .. Len(t) : t[i].injected = {} /\ t[i].given = <<>>
      BY <1>6, <1>9, <2>1
    <2>4. \A i \in 1 .. Len(t) - 1 :
              /\ t[i].stage = "parents" /\ t[i].injected = {}
              /\ t[i + 1].self.path = st.hierarchy[t[i].self.path][Len(t[i].parents) + 1]
      BY <1>8, <2>1
    <2>5. Tower(st, c, k, t)
      BY <1>5, <2>2, <2>3, <2>4, Zenon DEF Tower
    <2>6. QED
      BY <1>1, <1>2, <2>5

LEMMA TowerNothing ==
  ASSUME NEW st, NEW c, NEW k
  PROVE  Tower(st, c, k, <<>>)
  BY DEF Tower

\* The first call.
LEMMA TowerCalled ==
  ASSUME NEW st, NEW c, NEW k, NEW d \in Dirs, NEW injected \in Injected,
         NEW given \in Seq(Repos), \A p \in injected : Own(st, p)
  PROVE  /\ Call(d, injected, given) \in Frames
         /\ Built(st, Call(d, injected, given))
         /\ Waits(st, c, k, Call(d, injected, given), 0)
         /\ Tower(st, c, k, <<Call(d, injected, given)>>)
  <1>1. PICK f : f = Call(d, injected, given)
    OBVIOUS
  <1>2. /\ f = [self |-> Empty(d), injected |-> injected, given |-> given, paths |-> <<>>,
                parents |-> <<>>, next |-> 1, lines |-> <<>>, stage |-> "paths"]
    BY <1>1 DEF Call
  <1>3. Empty(d) \in Profiles /\ Empty(d).path = d
    BY EmptyTyped
  <1>4. f \in Frames
    <2>1. "paths" \in Stages /\ 1 \in Nat
      BY DEF Stages
    <2>2. <<>> \in Seq(Dirs) /\ <<>> \in Seq(Profiles) /\ <<>> \in Seq(MaskLines)
      OBVIOUS
    <2>3. QED
      BY <1>2, <1>3, <2>1, <2>2 DEF Frames
  <1>5. /\ f.self = Empty(d) /\ f.self.path = d /\ f.injected = injected /\ f.paths = <<>>
        /\ f.parents = <<>> /\ f.next = 1 /\ f.stage = "paths"
    BY <1>2, <1>3
  <1>6. Built(st, f)
    BY <1>5, Zenon DEF Built
  <1>7. DOMAIN f.parents = {}
    BY <1>5
  <1>8. Waits(st, c, k, f, 0)
    BY <1>5, <1>7 DEF Waits
  <1>9. Len(<<f>>) = 1 /\ <<f>>[1] = f /\ <<f>> \in Seq(Frames)
    BY <1>4
  <1>10. Tower(st, c, k, <<f>>)
    BY <1>6, <1>8, <1>9 DEF Tower
  <1>11. QED
    BY <1>1, <1>4, <1>6, <1>8, <1>10

-----------------------------------------------------------------------------
(* The frame of the constructor that runs, action by action                *)

\* It stays what its caller made it.
Same(f, g) == g.self.path = f.self.path /\ g.injected = f.injected /\ g.given = f.given

\* Nor has it constructed a parent.
Alike(f, g) ==
    /\ Same(f, g) /\ g.parents = f.parents /\ g.paths = f.paths
    /\ f.stage # "paths" /\ g.stage # "paths"

LEMMA RunningFrame ==
  ASSUME NEW st, NEW c, NEW k, NEW s, Tower(st, c, k, s), s # <<>>
  PROVE  /\ Len(s) \in Nat /\ Len(s) > 0 /\ s[Len(s)] \in Frames
         /\ Built(st, s[Len(s)]) /\ Waits(st, c, k, s[Len(s)], 0)
  <1>1. s \in Seq(Frames)
    BY DEF Tower
  <1>2. PICK n : n = Len(s)
    OBVIOUS
  <1>3. n \in Nat /\ n > 0 /\ n \in 1 .. n /\ ~(n < n)
    BY <1>1, <1>2
  <1>4. Built(st, s[n]) /\ Waits(st, c, k, s[n], 0)
    BY <1>2, <1>3 DEF Tower
  <1>5. QED
    BY <1>1, <1>2, <1>3, <1>4

LEMMA FrameFields ==
  ASSUME NEW f \in Frames
  PROVE  /\ f.self \in Profiles /\ f.injected \in Injected /\ f.given \in Seq(Repos)
         /\ f.paths \in Seq(Dirs) /\ f.parents \in Seq(Profiles) /\ f.next \in Nat
         /\ f.lines \in Seq(MaskLines) /\ f.stage \in Stages
         /\ f.self.path \in Dirs /\ f.self.repos \in Seq(Repos)
         /\ f.self.make_defaults_unevaluated \in Seq(Dirs)
         /\ f.self.packages \in SUBSET Atoms /\ f.self.masked \in Flags
  <1>1. f.self \in Profiles
    BY DEF Frames
  <1>2. QED
    BY <1>1 DEF Frames, Profiles

LEMMA InjectedListed ==
  /\ SetToSeq({}) = <<>>
  /\ \A p : SetToSeq({p}) = <<p>>
  <1>1. SetToSeq({}) = <<>>
    <2>1. Cardinality({}) = 0 /\ 1 .. 0 = {}
      BY FS_EmptySet
    <2>2. <<>> \in [1 .. 0 -> {}] /\ \A f \in [1 .. 0 -> {}] : f = <<>>
      BY <2>1
    <2>3. IsInjective(<<>>)
      BY DEF IsInjective
    <2>4. QED
      BY <2>1, <2>2, <2>3 DEF SetToSeq
  <1>2. ASSUME NEW p
        PROVE  SetToSeq({p}) = <<p>>
    <2>0. 1 .. 1 = {1}
      OBVIOUS
    <2>1. Cardinality({p}) = 1 /\ 1 .. 1 = {1}
      BY <2>0, FS_Singleton, Zenon
    <2>2. <<p>> \in [1 .. 1 -> {p}] /\ \A f \in [1 .. 1 -> {p}] : f = <<p>>
      BY <2>1
    <2>3. IsInjective(<<p>>)
      BY DEF IsInjective
    <2>4. QED
      BY <2>1, <2>2, <2>3 DEF SetToSeq
  <1>3. QED
    BY <1>1, <1>2

LEMMA FrameGetParents ==
  ASSUME NEW st, NEW c, NEW k, Sums(st, c, k),
         NEW f \in Frames, Built(st, f), Waits(st, c, k, f, 0), f.stage = "paths",
         NEW g, g = [f EXCEPT
             !.stage = "parents",
             !.paths = IF f.injected = {} THEN st.hierarchy[f.self.path] ELSE <<>>,
             !.parents = SetToSeq(f.injected)]
  PROVE  g \in Frames /\ Built(st, g) /\ Waits(st, c, k, g, 0) /\ Same(f, g)
  <1>1. f.self.path \in Dirs /\ f.injected \in Injected
    BY FrameFields
  <1>2. PICK h : h = st.hierarchy[f.self.path]
    OBVIOUS
  <1>3. h \in Seq(Dirs)
    BY <1>1, <1>2, FilesTyped DEF Sums
  <1>4. PICK ps : ps = SetToSeq(f.injected)
    OBVIOUS
  <1>5. \/ f.injected = {} /\ ps = <<>>
        \/ \E p \in Profiles : f.injected = {p} /\ ps = <<p>>
    BY <1>1, <1>4, InjectedListed DEF Injected
  <1>6. ps \in Seq(Profiles) /\ \A n \in DOMAIN ps : ps[n] \in f.injected
    <2>1. CASE f.injected = {} /\ ps = <<>>
      BY <2>1
    <2>2. CASE \E p \in Profiles : f.injected = {p} /\ ps = <<p>>
      <3>1. PICK p \in Profiles : f.injected = {p} /\ ps = <<p>>
        BY <2>2
      <3>2. <<p>> \in Seq(Profiles) /\ \A n \in DOMAIN <<p>> : <<p>>[n] = p
        OBVIOUS
      <3>3. QED
        BY <3>1, <3>2
    <2>3. QED
      BY <1>5, <2>1, <2>2
  <1>7. PICK d : d = IF f.injected = {} THEN h ELSE <<>>
    OBVIOUS
  <1>8. d \in Seq(Dirs)
    BY <1>3, <1>7
  <1>9. g = [f EXCEPT !.stage = "parents", !.paths = d, !.parents = ps]
    BY <1>2, <1>4, <1>7
  <1>10. /\ g \in Frames /\ g.stage = "parents" /\ g.paths = d /\ g.parents = ps
         /\ g.self = f.self /\ g.injected = f.injected /\ g.given = f.given /\ g.next = f.next
    BY <1>6, <1>8, <1>9 DEF Frames, Stages
  <1>11. Built(st, g)
    <2>1. f.self = Empty(f.self.path) /\ f.next = 1
      BY DEF Built
    <2>2. f.self.masked = Empty(f.self.path).masked
      BY <2>1
    <2>3. QED
      BY <1>10, <2>1, <2>2 DEF Built
  <1>12. Waits(st, c, k, g, 0)
    <2>1. (\A p \in g.injected : Own(st, p)) /\ \A n \in DOMAIN g.parents : Own(st, g.parents[n])
      BY <1>6, <1>10 DEF Waits
    <2>2. g.injected # {} => g.paths = <<>> /\ g.parents = SetToSeq(g.injected)
      BY <1>4, <1>7, <1>10
    <2>3. g.injected = {} => g.parents = <<>> /\ g.paths = h
      BY <1>5, <1>7, <1>10
    <2>4. CASE g.injected = {}
      <3>1. Len(g.parents) = 0 /\ DOMAIN g.parents = {} /\ 1 .. 0 = {}
        BY <2>3, <2>4
      <3>2. Len(h) = 0 + 0 + Len(h) /\ \A n \in 1 .. Len(h) : h[n] = h[0 + 0 + n]
        BY <1>3
      <3>3. st.hierarchy[g.self.path] = h
        BY <1>2, <1>10
      <3>4. /\ Len(h) = Len(g.parents) + 0 + Len(g.paths)
            /\ \A n \in 1 .. Len(g.parents) : g.parents[n].path = h[n]
            /\ \A n \in 1 .. Len(g.paths) : g.paths[n] = h[Len(g.parents) + 0 + n]
        BY <2>3, <2>4, <3>1, <3>2
      <3>5. \A n \in DOMAIN g.parents : Whole(c, k, g.parents[n])
        BY <3>1
      <3>6. QED
        BY <2>1, <2>4, <3>3, <3>4, <3>5, Zenon DEF Waits
    <2>5. CASE g.injected # {}
      BY <2>1, <2>2, <2>5 DEF Waits
    <2>6. QED
      BY <2>4, <2>5
  <1>13. QED
    BY <1>10, <1>11, <1>12 DEF Same

Advanced(f) == [f EXCEPT !.paths = Tail(@)]

LEMMA FrameConstructParent ==
  ASSUME NEW st, NEW c, NEW k, Sums(st, c, k),
         NEW f \in Frames, Built(st, f), Waits(st, c, k, f, 0),
         f.stage = "parents", f.paths # <<>>,
         NEW g, g = Advanced(f)
  PROVE  /\ g \in Frames /\ Built(st, g) /\ Waits(st, c, k, g, 1) /\ Same(f, g)
         /\ g.stage = "parents" /\ g.injected = {} /\ Head(f.paths) \in Dirs
         /\ Head(f.paths) = st.hierarchy[g.self.path][Len(g.parents) + 1]
  <1>1. f.paths \in Seq(Dirs) /\ f.parents \in Seq(Profiles) /\ f.injected = {}
    BY FrameFields DEF Waits
  <1>2. PICK m : m = Len(f.parents)
    OBVIOUS
  <1>3. PICK w : w = f.paths
    OBVIOUS
  <1>4. PICK v : v = Tail(w)
    OBVIOUS
  <1>5. /\ m \in Nat /\ w \in Seq(Dirs) /\ w # <<>> /\ v \in Seq(Dirs) /\ Len(v) = Len(w) - 1
        /\ Len(w) \in Nat /\ Len(w) > 0
        /\ \A n \in 1 .. Len(v) : v[n] = w[n + 1]
        /\ Head(w) = w[1] /\ Head(w) \in Dirs
    BY <1>1, <1>2, <1>3, <1>4
  <1>6. g = [f EXCEPT !.paths = v]
    BY <1>3, <1>4 DEF Advanced
  <1>7. /\ g \in Frames /\ g.paths = v /\ g.parents = f.parents /\ g.stage = f.stage
        /\ g.self = f.self /\ g.injected = f.injected /\ g.given = f.given /\ g.next = f.next
    BY <1>5, <1>6 DEF Frames
  <1>8. Built(st, g)
    <2>1. f.self = Empty(f.self.path) /\ f.next = 1
      BY DEF Built
    <2>2. f.self.masked = Empty(f.self.path).masked
      BY <2>1
    <2>3. QED
      BY <1>7, <2>1, <2>2 DEF Built
  <1>9. PICK h : h = st.hierarchy[f.self.path]
    OBVIOUS
  <1>10. /\ Len(h) = m + 0 + Len(w)
         /\ \A n \in 1 .. m : f.parents[n].path = h[n]
         /\ \A n \in 1 .. Len(w) : w[n] = h[m + 0 + n]
    BY <1>1, <1>2, <1>3, <1>9 DEF Waits
  <1>11. Len(h) = m + 1 + Len(v) /\ \A n \in 1 .. Len(v) : v[n] = h[m + 1 + n]
    <2>1. \A n \in 1 .. Len(v) : n + 1 \in 1 .. Len(w) /\ m + 0 + (n + 1) = m + 1 + n
      BY <1>5
    <2>2. \A n \in 1 .. Len(v) : w[n + 1] = h[m + 0 + (n + 1)]
      BY <1>10, <2>1
    <2>3. QED
      BY <1>5, <1>10, <2>1, <2>2
  <1>12. w[1] = h[m + 1]
    <2>1. 1 \in 1 .. Len(w) /\ m + 0 + 1 = m + 1
      BY <1>5
    <2>2. QED
      BY <1>10, <2>1
  <1>13. Waits(st, c, k, g, 1)
    <2>1. /\ \A p \in g.injected : Own(st, p)
          /\ \A n \in DOMAIN g.parents : Own(st, g.parents[n])
          /\ \A n \in DOMAIN g.parents : Whole(c, k, g.parents[n])
      BY <1>1, <1>7 DEF Waits
    <2>2. /\ st.hierarchy[g.self.path] = h
          /\ Len(h) = Len(g.parents) + 1 + Len(g.paths)
          /\ \A n \in 1 .. Len(g.parents) : g.parents[n].path = h[n]
          /\ \A n \in 1 .. Len(g.paths) : g.paths[n] = h[Len(g.parents) + 1 + n]
      BY <1>2, <1>7, <1>9, <1>10, <1>11
    <2>3. g.injected = {}
      BY <1>1, <1>7
    <2>4. QED
      BY <2>1, <2>2, <2>3, Zenon DEF Waits
  <1>14. Head(f.paths) \in Dirs /\ Head(f.paths) = st.hierarchy[g.self.path][Len(g.parents) + 1]
    BY <1>2, <1>3, <1>5, <1>7, <1>9, <1>12
  <1>15. QED
    BY <1>1, <1>7, <1>8, <1>13, <1>14 DEF Same

LEMMA FrameFindRepo ==
  ASSUME NEW st, NEW f \in Frames, Built(st, f), f.stage = "parents", f.paths = <<>>,
         f.given # <<>> \/ RepoOf[f.self.path] # NoRepo,
         NEW g, g = [f EXCEPT
             !.stage = "combine",
             !.self.repos = IF f.given # <<>> THEN f.given ELSE <<RepoOf[f.self.path]>>]
  PROVE  g \in Frames /\ Built(st, g) /\ Alike(f, g)
  <1>1. /\ f.self = Empty(f.self.path) /\ f.next = 1
        /\ f.self.masked = Empty(f.self.path).masked
    BY DEF Built
  <1>2. f.self.path \in Dirs /\ f.self \in Profiles /\ f.parents \in Seq(Profiles)
    BY FrameFields
  <1>3. PICK r : r = Around(f)
    OBVIOUS
  <1>4. r \in Seq(Repos)
    <2>1. CASE f.given # <<>>
      BY <1>3, <2>1, FrameFields DEF Around
    <2>2. CASE f.given = <<>>
      <3>1. RepoOf[f.self.path] \in Repos
        BY <1>2, <2>2, ProfileLoadAssumption
      <3>2. QED
        BY <1>3, <2>2, <3>1 DEF Around
    <2>3. QED
      BY <2>1, <2>2
  <1>5. PICK e : e = [f.self EXCEPT !.repos = r]
    OBVIOUS
  <1>6. /\ e \in Profiles /\ e.path = f.self.path /\ e.repos = r /\ e.masked = f.self.masked
        /\ e.make_defaults_unevaluated = f.self.make_defaults_unevaluated
        /\ e.packages = f.self.packages
    BY <1>2, <1>4, <1>5 DEF Profiles
  <1>7. g = [f EXCEPT !.stage = "combine", !.self = e]
    BY <1>3, <1>5 DEF Around
  <1>8. /\ g \in Frames /\ g.stage = "combine" /\ g.self = e /\ g.paths = f.paths
        /\ g.parents = f.parents /\ g.injected = f.injected /\ g.given = f.given
        /\ g.next = f.next
    BY <1>6, <1>7 DEF Frames, Stages
  <1>9. /\ e.make_defaults_unevaluated = <<>> /\ e.packages = {}
        /\ e.masked = Empty(f.self.path).masked
    BY <1>1, <1>2, <1>6, EmptyTyped
  <1>10. SubSeq(g.parents, 1, g.next - 1) = <<>>
    BY <1>1, <1>2, <1>8
  <1>11. g.next \in 1 .. Len(g.parents) + 1
    BY <1>1, <1>2, <1>8
  <1>12. Around(g) = r
    BY <1>3, <1>6, <1>8 DEF Around
  <1>13. Built(st, g)
    BY <1>6, <1>8, <1>9, <1>10, <1>11, <1>12, GatherNothing DEF Built
  <1>14. QED
    BY <1>6, <1>8, <1>13 DEF Alike, Same

LEMMA FrameCombineParent ==
  ASSUME NEW st, NEW f \in Frames, Built(st, f), f.stage = "combine", f.next <= Len(f.parents),
         NEW parent, parent = f.parents[f.next],
         NEW g, g = [f EXCEPT
             !.next = @ + 1,
             !.self.make_defaults_unevaluated = @ \o parent.make_defaults_unevaluated,
             !.self.packages = @ \cup parent.packages]
  PROVE  g \in Frames /\ Built(st, g) /\ Alike(f, g)
  <1>1. /\ f.next \in 1 .. Len(f.parents) + 1 /\ f.parents \in Seq(Profiles)
        /\ f.self.make_defaults_unevaluated = LinesBy(SubSeq(f.parents, 1, f.next - 1))
        /\ f.self.packages = AtomsBy(SubSeq(f.parents, 1, f.next - 1))
        /\ f.self.repos = Around(f) /\ f.paths = <<>>
        /\ f.self.masked = Empty(f.self.path).masked
    BY FrameFields DEF Built
  <1>2. PICK n : n = f.next
    OBVIOUS
  <1>3. PICK t : t = SubSeq(f.parents, 1, n)
    OBVIOUS
  <1>4. n \in Nat /\ n \in 1 .. Len(f.parents) /\ t \in Seq(Profiles)
    BY <1>1, <1>2, <1>3
  <1>5. /\ LinesBy(t) = f.self.make_defaults_unevaluated \o parent.make_defaults_unevaluated
        /\ AtomsBy(t) = f.self.packages \cup parent.packages
    <2>1. PICK ps : ps = f.parents
      OBVIOUS
    <2>2. ps \in Seq(Profiles) /\ n \in 1 .. Len(ps)
      BY <1>1, <1>4, <2>1
    <2>3. /\ LinesBy(SubSeq(ps, 1, n)) =
                LinesBy(SubSeq(ps, 1, n - 1)) \o ps[n].make_defaults_unevaluated
          /\ AtomsBy(SubSeq(ps, 1, n)) = AtomsBy(SubSeq(ps, 1, n - 1)) \cup ps[n].packages
      BY <2>2, GatherOne
    <2>4. QED
      BY <1>1, <1>2, <1>3, <2>1, <2>3
  <1>6. LinesBy(t) \in Seq(Dirs) /\ AtomsBy(t) \in SUBSET Atoms
    BY <1>4, GatherTyped
  <1>7. PICK e : e = [f.self EXCEPT !.make_defaults_unevaluated = LinesBy(t),
                                    !.packages = AtomsBy(t)]
    OBVIOUS
  <1>8. /\ e \in Profiles /\ e.path = f.self.path /\ e.repos = f.self.repos
        /\ e.masked = f.self.masked
        /\ e.make_defaults_unevaluated = LinesBy(t) /\ e.packages = AtomsBy(t)
    BY <1>6, <1>7, FrameFields DEF Profiles
  <1>9. g = [f EXCEPT !.next = n + 1, !.self = e]
    BY <1>2, <1>5, <1>7 DEF Frames, Profiles
  <1>10. /\ g \in Frames /\ g.stage = "combine" /\ g.self = e /\ g.paths = f.paths
         /\ g.parents = f.parents /\ g.injected = f.injected /\ g.given = f.given
         /\ g.next = n + 1
    <2>1. PICK m : m = n + 1
      OBVIOUS
    <2>2. m \in Nat /\ g = [f EXCEPT !.next = m, !.self = e]
      BY <1>4, <1>9, <2>1
    <2>3. QED
      BY <1>8, <2>1, <2>2 DEF Frames
  <1>11. n + 1 \in 1 .. Len(g.parents) + 1 /\ (n + 1) - 1 = n
    BY <1>1, <1>4, <1>10
  <1>12. Around(g) = e.repos
    BY <1>1, <1>8, <1>10 DEF Around
  <1>13. Built(st, g)
    BY <1>1, <1>3, <1>8, <1>10, <1>11, <1>12 DEF Built
  <1>14. QED
    BY <1>8, <1>10, <1>13 DEF Alike, Same

LEMMA EditedTyped ==
  ASSUME NEW atoms, NEW lines
  PROVE  Edited(atoms, lines) \in SUBSET Atoms
  BY DEF Edited

LEMMA FrameInitMakeDefaults ==
  ASSUME NEW st, st \in Settings, NEW f \in Frames, Built(st, f), f.stage = "combine", f.next > Len(f.parents),
         NEW g, g = [f EXCEPT !.stage = "packages", !.next = 1,
                              !.self.make_defaults_unevaluated = Append(@, f.self.path)]
  PROVE  g \in Frames /\ Built(st, g) /\ Alike(f, g)
  <1>1. /\ f.next \in 1 .. Len(f.parents) + 1 /\ f.parents \in Seq(Profiles)
        /\ f.self.make_defaults_unevaluated = LinesBy(SubSeq(f.parents, 1, f.next - 1))
        /\ f.self.packages = AtomsBy(SubSeq(f.parents, 1, f.next - 1))
        /\ f.self.repos = Around(f) /\ f.paths = <<>>
        /\ f.self.masked = Empty(f.self.path).masked
    BY FrameFields DEF Built
  <1>2. PICK n : n = Len(f.parents)
    OBVIOUS
  <1>3. n \in Nat /\ f.next - 1 = n /\ SubSeq(f.parents, 1, n) = f.parents
    BY <1>1, <1>2
  <1>4. f.self.make_defaults_unevaluated = LinesBy(f.parents) /\ f.self.packages = AtomsBy(f.parents)
    BY <1>1, <1>3
  <1>5. PICK l : l = Append(f.self.make_defaults_unevaluated, f.self.path)
    OBVIOUS
  <1>6. l \in Seq(Dirs)
    BY <1>5, FrameFields
  <1>7. PICK e : e = [f.self EXCEPT !.make_defaults_unevaluated = l]
    OBVIOUS
  <1>8. /\ e \in Profiles /\ e.path = f.self.path /\ e.repos = f.self.repos
        /\ e.masked = f.self.masked
        /\ e.make_defaults_unevaluated = l /\ e.packages = f.self.packages
    BY <1>6, <1>7, FrameFields DEF Profiles
  <1>9. g = [f EXCEPT !.stage = "packages", !.next = 1, !.self = e]
    BY <1>5, <1>7 DEF Frames, Profiles
  <1>10. /\ g \in Frames /\ g.stage = "packages" /\ g.self = e /\ g.paths = f.paths
         /\ g.parents = f.parents /\ g.injected = f.injected /\ g.given = f.given
         /\ g.next = 1
    <2>1. "packages" \in Stages /\ 1 \in Nat
      BY DEF Stages
    <2>2. QED
      BY <1>8, <1>9, <2>1 DEF Frames
  <1>11. PICK rows : rows = st.packages[g.self.path]
    OBVIOUS
  <1>12. rows \in Seq(PackageLines)
    BY <1>10, <1>11, FrameFields, FilesTyped
  <1>13. 1 \in 1 .. Len(rows) + 1 /\ SubSeq(rows, 1, 1 - 1) = <<>>
    BY <1>12
  <1>14. Edited(AtomsBy(g.parents), <<>>) = AtomsBy(g.parents)
    BY <1>1, <1>10, GatherTyped, EditedNothing
  <1>15. Around(g) = e.repos
    BY <1>1, <1>8, <1>10 DEF Around
  <1>16. Built(st, g)
    BY <1>1, <1>4, <1>5, <1>8, <1>10, <1>11, <1>13, <1>14, <1>15 DEF Built
  <1>17. QED
    BY <1>8, <1>10, <1>16 DEF Alike, Same

LEMMA FrameInitPackages ==
  ASSUME NEW st, st \in Settings, NEW f \in Frames, Built(st, f), f.stage = "packages",
         f.next <= Len(st.packages[f.self.path]),
         NEW line, line = st.packages[f.self.path][f.next],
         NEW g, g = [f EXCEPT
             !.next = @ + 1,
             !.self.packages = IF line.negate THEN @ \ {line.atom} ELSE @ \cup {line.atom}]
  PROVE  g \in Frames /\ Built(st, g) /\ Alike(f, g)
  <1>1. PICK rows : rows = st.packages[f.self.path]
    OBVIOUS
  <1>2. rows \in Seq(PackageLines) /\ f.self.path \in Dirs
    BY <1>1, FrameFields, FilesTyped
  <1>3. /\ f.next \in 1 .. Len(rows) + 1 /\ f.paths = <<>> /\ f.self.repos = Around(f)
        /\ f.self.make_defaults_unevaluated = Append(LinesBy(f.parents), f.self.path)
        /\ f.self.packages = Edited(AtomsBy(f.parents), SubSeq(rows, 1, f.next - 1))
        /\ f.self.masked = Empty(f.self.path).masked
    BY <1>1 DEF Built
  <1>4. PICK n : n = f.next
    OBVIOUS
  <1>5. n \in Nat /\ n \in 1 .. Len(rows)
    BY <1>1, <1>2, <1>3, <1>4
  <1>6. PICK a : a = AtomsBy(f.parents)
    OBVIOUS
  <1>7. PICK b : b = Edited(a, SubSeq(rows, 1, n))
    OBVIOUS
  <1>8. b = IF line.negate THEN f.self.packages \ {line.atom} ELSE f.self.packages \cup {line.atom}
    <2>1. Edited(a, SubSeq(rows, 1, n)) = After(rows[n], Edited(a, SubSeq(rows, 1, n - 1)))
      BY <1>2, <1>5, EditedOne, Zenon
    <2>2. line = rows[n] /\ f.self.packages = Edited(a, SubSeq(rows, 1, n - 1))
      BY <1>1, <1>3, <1>4, <1>6
    <2>3. QED
      BY <1>7, <2>1, <2>2 DEF After
  <1>9. b \in SUBSET Atoms
    BY <1>7, EditedTyped
  <1>10. PICK e : e = [f.self EXCEPT !.packages = b]
    OBVIOUS
  <1>11. /\ e \in Profiles /\ e.path = f.self.path /\ e.repos = f.self.repos
         /\ e.masked = f.self.masked
         /\ e.make_defaults_unevaluated = f.self.make_defaults_unevaluated /\ e.packages = b
    BY <1>9, <1>10, FrameFields DEF Profiles
  <1>12. PICK m : m = n + 1
    OBVIOUS
  <1>13. m \in Nat /\ m - 1 = n /\ m \in 1 .. Len(rows) + 1
    BY <1>2, <1>5, <1>12
  <1>14. g = [f EXCEPT !.next = m, !.self = e]
    BY <1>4, <1>8, <1>10, <1>12 DEF Frames, Profiles
  <1>15. /\ g \in Frames /\ g.stage = "packages" /\ g.self = e /\ g.paths = f.paths
         /\ g.parents = f.parents /\ g.injected = f.injected /\ g.given = f.given
         /\ g.next = m
    BY <1>11, <1>13, <1>14 DEF Frames
  <1>16. Around(g) = e.repos
    BY <1>3, <1>11, <1>15 DEF Around
  <1>17. Built(st, g)
    BY <1>1, <1>3, <1>6, <1>7, <1>11, <1>13, <1>15, <1>16 DEF Built
  <1>18. QED
    BY <1>11, <1>15, <1>17 DEF Alike, Same

LEMMA FrameEndOfPackages ==
  ASSUME NEW st, st \in Settings, NEW f \in Frames, Built(st, f), f.stage = "packages",
         f.next > Len(st.packages[f.self.path]),
         NEW g, g = [f EXCEPT !.stage = "mask"]
  PROVE  g \in Frames /\ Built(st, g) /\ Alike(f, g)
  <1>1. PICK rows : rows = st.packages[f.self.path]
    OBVIOUS
  <1>2. rows \in Seq(PackageLines)
    BY <1>1, FrameFields, FilesTyped
  <1>3. /\ f.next \in 1 .. Len(rows) + 1 /\ f.paths = <<>> /\ f.self.repos = Around(f)
        /\ f.self.make_defaults_unevaluated = Append(LinesBy(f.parents), f.self.path)
        /\ f.self.packages = Edited(AtomsBy(f.parents), SubSeq(rows, 1, f.next - 1))
        /\ f.self.masked = Empty(f.self.path).masked
    BY <1>1 DEF Built
  <1>4. f.next - 1 = Len(rows) /\ SubSeq(rows, 1, Len(rows)) = rows
    <2>1. PICK next : next = f.next
      OBVIOUS
    <2>2. PICK n : n = Len(rows)
      OBVIOUS
    <2>3. n \in Nat
      BY <1>2, <2>2
    <2>4. next > n /\ next \in 1 .. n + 1
      BY <1>1, <1>3, <2>1, <2>2
    <2>5. next - 1 = n
      BY <2>3, <2>4
    <2>6. SubSeq(rows, 1, Len(rows)) = rows
      BY <1>2
    <2> QED BY <2>1, <2>2, <2>5, <2>6
  <1>5. /\ g \in Frames /\ g.stage = "mask" /\ g.self = f.self /\ g.paths = f.paths
        /\ g.parents = f.parents /\ g.injected = f.injected /\ g.given = f.given
    BY DEF Frames, Stages
  <1>6. Around(g) = f.self.repos
    BY <1>3, <1>5 DEF Around
  <1>7. Built(st, g)
    BY <1>1, <1>3, <1>4, <1>5, <1>6 DEF Built
  <1>8. QED
    BY <1>5, <1>7 DEF Alike, Same

LEMMA FrameReadPackageMask ==
  ASSUME NEW st, st \in Settings, NEW f \in Frames, Built(st, f), f.stage = "mask",
         NEW files \in get_config_files(st.masks[f.self.path]),
         NEW g, g = [f EXCEPT !.stage = "masking", !.lines = LinesOf(files)]
  PROVE  g \in Frames /\ Built(st, g) /\ Alike(f, g)
  <1>1. /\ f.paths = <<>> /\ f.self.repos = Around(f)
        /\ f.self.make_defaults_unevaluated = Append(LinesBy(f.parents), f.self.path)
        /\ f.self.packages = Edited(AtomsBy(f.parents), st.packages[f.self.path])
        /\ f.self.masked = Empty(f.self.path).masked
    BY DEF Built
  <1>2. PICK l : l = LinesOf(files)
    OBVIOUS
  <1>3. l \in Seq(MaskLines)
    <2>1. PICK d : d = st.masks[f.self.path]
      OBVIOUS
    <2>2. d \in SUBSET MaskFiles /\ IsFiniteSet(d) /\ files \in get_config_files(d)
      BY <2>1, FrameFields, FilesTyped
    <2>3. QED
      BY <1>2, <2>2, MarkedByFiles
  <1>4. /\ g \in Frames /\ g.stage = "masking" /\ g.self = f.self /\ g.paths = f.paths
        /\ g.parents = f.parents /\ g.injected = f.injected /\ g.given = f.given
        /\ g.lines = l
    BY <1>2, <1>3 DEF Frames, Stages
  <1>5. Around(g) = f.self.repos
    BY <1>1, <1>4 DEF Around
  <1>6. l = <<>> \o l /\ <<>> \in Seq(MaskLines)
    BY <1>3
  <1>7. On(g.self.masked) = Marked(<<>>, g.self.repos)
    <2>1. On(g.self.masked) = {}
      <3>1. g.self.masked = Empty(f.self.path).masked /\ f.self.path \in Dirs
        BY <1>1, <1>4, FrameFields
      <3>2. QED
        BY <3>1, EmptyTyped
    <2>2. Marked(<<>>, g.self.repos) = {}
      BY NothingMarked DEF Marked
    <2>3. QED
      BY <2>1, <2>2
  <1>8. /\ files \in get_config_files(st.masks[g.self.path])
        /\ LinesOf(files) = <<>> \o g.lines
    BY <1>2, <1>4, <1>6
  <1>9. Built(st, g)
    BY <1>1, <1>4, <1>5, <1>6, <1>7, <1>8 DEF Built
  <1>10. QED
    BY <1>4, <1>9 DEF Alike, Same

LEMMA FrameInitPackageMask ==
  ASSUME NEW st, st \in Settings, NEW f \in Frames, Built(st, f), f.stage = "masking",
         f.lines # <<>>,
         NEW g, g = [f EXCEPT !.lines = Tail(@),
                              !.self.masked = Masked(@, Head(f.lines), f.self.repos)]
  PROVE  g \in Frames /\ Built(st, g) /\ Alike(f, g)
  <1>1. /\ f.paths = <<>> /\ f.self.repos = Around(f)
        /\ f.self.make_defaults_unevaluated = Append(LinesBy(f.parents), f.self.path)
        /\ f.self.packages = Edited(AtomsBy(f.parents), st.packages[f.self.path])
    BY DEF Built
  <1>2. PICK files \in get_config_files(st.masks[f.self.path]), done \in Seq(MaskLines) :
            LinesOf(files) = done \o f.lines /\ On(f.self.masked) = Marked(done, f.self.repos)
    BY DEF Built
  <1>3. PICK l : l = f.lines
    OBVIOUS
  <1>4. PICK line : line = Head(l)
    OBVIOUS
  <1>5. PICK t : t = Tail(l)
    OBVIOUS
  <1>6. PICK more : more = Append(done, line)
    OBVIOUS
  <1>7. /\ l \in Seq(MaskLines) /\ l # <<>> /\ line \in MaskLines /\ t \in Seq(MaskLines)
        /\ more \in Seq(MaskLines)
    BY <1>3, <1>4, <1>5, <1>6, FrameFields
  <1>8. done \o l = more \o t
    BY <1>4, <1>5, <1>6, <1>7
  <1>9. PICK R : R = f.self.repos
    OBVIOUS
  <1>10. PICK masked : masked = Masked(f.self.masked, line, R)
    OBVIOUS
  <1>11. R \in Seq(Repos) /\ f.self.masked \in Flags
    BY <1>9, FrameFields
  <1>12. masked \in Flags
    BY <1>7, <1>10, <1>11, FlagsTyped
  <1>13. On(masked) = Marked(more, R)
    <2>1. PICK before : before = f.self.masked
      OBVIOUS
    <2>2. before \in [DOMAIN before -> BOOLEAN] /\ On(before) = Marked(done, R)
      BY <1>2, <1>9, <1>11, <2>1, FlagsTyped
    <2>3. On(masked) = IF line.negate THEN On(before) \ Expanded(line.packages, R)
                       ELSE On(before) \cup Expanded(line.packages, R)
      BY <1>7, <1>10, <2>1, <2>2, OnMasked
    <2>4. Marked(more, R) = IF line.negate THEN Marked(done, R) \ Expanded(line.packages, R)
                            ELSE Marked(done, R) \cup Expanded(line.packages, R)
      BY <1>6, <1>7, MarkedOne
    <2>5. QED
      BY <2>2, <2>3, <2>4
  <1>14. PICK e : e = [f.self EXCEPT !.masked = masked]
    OBVIOUS
  <1>15. /\ e \in Profiles /\ e.path = f.self.path /\ e.repos = R /\ e.masked = masked
         /\ e.make_defaults_unevaluated = f.self.make_defaults_unevaluated
         /\ e.packages = f.self.packages
    BY <1>9, <1>12, <1>14, FrameFields DEF Profiles
  <1>16. g = [f EXCEPT !.lines = t, !.self = e]
    BY <1>3, <1>4, <1>5, <1>9, <1>10, <1>14 DEF Frames, Profiles
  <1>17. /\ g \in Frames /\ g.stage = "masking" /\ g.self = e /\ g.paths = f.paths
         /\ g.parents = f.parents /\ g.injected = f.injected /\ g.given = f.given
         /\ g.lines = t
    BY <1>7, <1>15, <1>16 DEF Frames
  <1>18. Around(g) = e.repos
    BY <1>1, <1>9, <1>15, <1>17 DEF Around
  <1>19. /\ files \in get_config_files(st.masks[g.self.path])
         /\ LinesOf(files) = more \o g.lines /\ On(g.self.masked) = Marked(more, g.self.repos)
    BY <1>2, <1>3, <1>8, <1>13, <1>15, <1>17
  <1>20. Built(st, g)
    BY <1>1, <1>7, <1>15, <1>17, <1>18, <1>19 DEF Built
  <1>21. QED
    BY <1>15, <1>17, <1>20 DEF Alike, Same

LEMMA FrameEndOfPackageMask ==
  ASSUME NEW st, st \in Settings, NEW f \in Frames, Built(st, f), f.stage = "masking",
         f.lines = <<>>, NEW g, g = [f EXCEPT !.stage = "rest"]
  PROVE  g \in Frames /\ Built(st, g) /\ Alike(f, g)
  <1>1. /\ f.paths = <<>> /\ f.self.repos = Around(f)
        /\ f.self.make_defaults_unevaluated = Append(LinesBy(f.parents), f.self.path)
        /\ f.self.packages = Edited(AtomsBy(f.parents), st.packages[f.self.path])
    BY DEF Built
  <1>2. PICK files \in get_config_files(st.masks[f.self.path]), done \in Seq(MaskLines) :
            LinesOf(files) = done \o f.lines /\ On(f.self.masked) = Marked(done, f.self.repos)
    BY DEF Built
  <1>3. LinesOf(files) = done
    BY <1>2
  <1>4. PICK d : d = st.masks[f.self.path]
    OBVIOUS
  <1>5. d \in SUBSET MaskFiles /\ IsFiniteSet(d) /\ files \in get_config_files(d)
    BY <1>2, <1>4, FrameFields, FilesTyped
  <1>6. On(f.self.masked) = MaskedBy(d, f.self.repos)
    BY <1>2, <1>3, <1>5, MarkedByFiles
  <1>7. /\ g \in Frames /\ g.stage = "rest" /\ g.self = f.self /\ g.paths = f.paths
        /\ g.parents = f.parents /\ g.injected = f.injected /\ g.given = f.given
    BY DEF Frames, Stages
  <1>8. Around(g) = f.self.repos /\ Own(st, g.self)
    BY <1>1, <1>4, <1>6, <1>7 DEF Around, Own
  <1>9. Built(st, g)
    BY <1>1, <1>7, <1>8 DEF Built
  <1>10. QED
    BY <1>7, <1>9 DEF Alike, Same

\* What a profile adds to a parent that is injected.
Heir(st, parent, profile) ==
    /\ profile.make_defaults_unevaluated = Append(parent.make_defaults_unevaluated, profile.path)
    /\ profile.packages = Edited(parent.packages, st.packages[profile.path])

\* What the one that returns has made.
LEMMA FrameReturn ==
  ASSUME NEW st, NEW c, NEW k, Sums(st, c, k),
         NEW f \in Frames, Built(st, f), Waits(st, c, k, f, 0), f.stage = "rest"
  PROVE  /\ f.self \in Profiles /\ Own(st, f.self) /\ f.self.repos = Around(f)
         /\ f.injected = {} => Full(c, k, f.self)
         /\ \A p \in f.injected : Heir(st, p, f.self)
  <1>1. /\ f.self.make_defaults_unevaluated = Append(LinesBy(f.parents), f.self.path)
        /\ f.self.packages = Edited(AtomsBy(f.parents), st.packages[f.self.path])
        /\ f.self.repos = Around(f) /\ f.paths = <<>> /\ Own(st, f.self)
    BY DEF Built
  <1>2. /\ f.self \in Profiles /\ f.injected \in Injected /\ f.parents \in Seq(Profiles)
        /\ f.self.path \in Dirs
    BY FrameFields
  <1>3. PICK ps : ps = f.parents
    OBVIOUS
  <1>4. PICK d : d = f.self.path
    OBVIOUS
  <1>5. LinesBy(ps) \in Seq(Dirs) /\ ps \in Seq(Profiles) /\ d \in Dirs
    BY <1>2, <1>3, <1>4, GatherTyped
  <1>6. ASSUME f.injected = {}
        PROVE  Full(c, k, f.self)
    <2>1. PICK h : h = st.hierarchy[d]
      OBVIOUS
    <2>2. h \in Seq(Dirs)
      BY <1>5, <2>1, FilesTyped DEF Sums
    <2>3. /\ \A n \in DOMAIN ps : Whole(c, k, ps[n])
          /\ Len(h) = Len(ps) + 0 + Len(f.paths)
          /\ \A n \in 1 .. Len(ps) : ps[n].path = h[n]
      BY <1>3, <1>4, <1>6, <2>1 DEF Waits
    <2>4. DOMAIN h = DOMAIN ps /\ DOMAIN ps = 1 .. Len(ps)
      BY <1>1, <1>5, <2>2, <2>3
    <2>5. \A n \in DOMAIN ps :
              ps[n].make_defaults_unevaluated = c[h[n]] /\ ps[n].packages = k[h[n]]
      BY <2>3, <2>4 DEF Whole, Full
    <2>6. [n \in DOMAIN ps |-> ps[n].make_defaults_unevaluated] = [n \in DOMAIN h |-> c[h[n]]]
      BY <2>4, <2>5
    <2>7. LinesBy(ps) = FlattenSeq([n \in DOMAIN h |-> c[h[n]]])
      BY <2>6 DEF LinesBy
    <2>8. AtomsBy(ps) = UNION {k[h[n]] : n \in DOMAIN h}
      BY <2>4, <2>5 DEF AtomsBy
    <2>9. c[d] = LinesBy(ps) \o <<d>> /\ k[d] = Edited(AtomsBy(ps), st.packages[d])
      <3>1. /\ c[d] = FlattenSeq([n \in DOMAIN st.hierarchy[d] |-> c[st.hierarchy[d][n]]]) \o <<d>>
            /\ k[d] = Edited(UNION {k[st.hierarchy[d][n]] : n \in DOMAIN st.hierarchy[d]},
                             st.packages[d])
        BY <1>5, Zenon DEF Sums
      <3>2. QED
        BY <2>1, <2>7, <2>8, <3>1
    <2>10. c[d] = Append(LinesBy(ps), d)
      BY <1>5, <2>9
    <2>11. QED
      BY <1>1, <1>3, <1>4, <2>9, <2>10 DEF Full
  <1>7. ASSUME NEW p \in f.injected
        PROVE  Heir(st, p, f.self)
    <2>1. p \in Profiles /\ f.injected = {p}
      BY <1>2 DEF Injected
    <2>2. ps = SetToSeq({p})
      BY <1>3, <2>1 DEF Waits
    <2>3. ps = <<p>>
      BY <2>2, InjectedListed
    <2>4. PICK m : m = Len(ps)
      OBVIOUS
    <2>5. /\ m = 1 /\ ps[m] = p /\ m \in 1 .. Len(ps)
          /\ SubSeq(ps, 1, m) = ps /\ SubSeq(ps, 1, m - 1) = <<>>
      <3>1. m = 1 /\ ps[m] = p /\ m \in 1 .. Len(ps)
        BY <2>3, <2>4
      <3>2. SubSeq(ps, 1, m) = ps
        BY <1>5, <2>4
      <3>3. SubSeq(ps, 1, m - 1) = <<>>
        BY <1>5, <3>1
      <3>4. QED
        BY <3>1, <3>2, <3>3
    <2>6. /\ LinesBy(SubSeq(ps, 1, m)) =
                LinesBy(SubSeq(ps, 1, m - 1)) \o ps[m].make_defaults_unevaluated
          /\ AtomsBy(SubSeq(ps, 1, m)) = AtomsBy(SubSeq(ps, 1, m - 1)) \cup ps[m].packages
      BY <1>5, <2>5, GatherOne
    <2>7. p.make_defaults_unevaluated \in Seq(Dirs)
      BY <2>1 DEF Profiles
    <2>8. LinesBy(ps) = p.make_defaults_unevaluated /\ AtomsBy(ps) = p.packages
      <3>1. /\ LinesBy(ps) = <<>> \o p.make_defaults_unevaluated
            /\ AtomsBy(ps) = {} \cup p.packages
        BY <2>5, <2>6, GatherNothing
      <3>2. QED
        BY <2>7, <3>1
    <2>9. QED
      BY <1>1, <1>3, <2>8 DEF Heir
  <1>8. QED
    BY <1>1, <1>2, <1>6, <1>7

\* And its caller, with one parent more.
LEMMA FrameReturned ==
  ASSUME NEW st, NEW c, NEW k, Sums(st, c, k),
         NEW e \in Frames, Built(st, e), Waits(st, c, k, e, 1), e.stage = "parents",
         e.injected = {},
         NEW profile \in Profiles, Own(st, profile), Whole(c, k, profile),
         profile.path = st.hierarchy[e.self.path][Len(e.parents) + 1],
         NEW g, g = [e EXCEPT !.parents = Append(@, profile)]
  PROVE  g \in Frames /\ Built(st, g) /\ Waits(st, c, k, g, 0) /\ Same(e, g)
  <1>1. PICK ps : ps = e.parents
    OBVIOUS
  <1>2. PICK qs : qs = Append(ps, profile)
    OBVIOUS
  <1>3. PICK m : m = Len(ps)
    OBVIOUS
  <1>4. /\ ps \in Seq(Profiles) /\ qs \in Seq(Profiles) /\ m \in Nat /\ Len(qs) = m + 1
        /\ qs[m + 1] = profile /\ \A n \in 1 .. m : qs[n] = ps[n]
    BY <1>1, <1>2, <1>3, FrameFields
  <1>5. g = [e EXCEPT !.parents = qs]
    BY <1>1, <1>2
  <1>6. /\ g \in Frames /\ g.parents = qs /\ g.paths = e.paths /\ g.stage = e.stage
        /\ g.self = e.self /\ g.injected = e.injected /\ g.given = e.given /\ g.next = e.next
    BY <1>4, <1>5 DEF Frames
  <1>7. Built(st, g)
    <2>1. e.self = Empty(e.self.path) /\ e.next = 1
      BY DEF Built
    <2>2. e.self.masked = Empty(e.self.path).masked
      BY <2>1
    <2>3. QED
      BY <1>6, <2>1, <2>2 DEF Built
  <1>8. PICK h : h = st.hierarchy[e.self.path]
    OBVIOUS
  <1>9. /\ Len(h) = m + 1 + Len(e.paths)
        /\ \A n \in 1 .. m : ps[n].path = h[n]
        /\ \A n \in 1 .. Len(e.paths) : e.paths[n] = h[m + 1 + n]
        /\ \A n \in DOMAIN ps : Whole(c, k, ps[n]) /\ Own(st, ps[n])
    BY <1>1, <1>3, <1>8 DEF Waits
  <1>10. \A n \in 1 .. m + 1 : n \in 1 .. m \/ n = m + 1
    BY <1>4
  <1>11. \A n \in DOMAIN qs : Whole(c, k, qs[n]) /\ Own(st, qs[n])
    BY <1>3, <1>4, <1>9, <1>10
  <1>12. \A n \in 1 .. m + 1 : qs[n].path = h[n]
    BY <1>1, <1>3, <1>4, <1>8, <1>9, <1>10
  <1>13. Waits(st, c, k, g, 0)
    <2>1. /\ g.injected = {} /\ st.hierarchy[g.self.path] = h
          /\ \A n \in DOMAIN g.parents : Own(st, g.parents[n])
          /\ \A n \in DOMAIN g.parents : Whole(c, k, g.parents[n])
      BY <1>6, <1>8, <1>11
    <2>2. Len(g.parents) + 0 = m + 1
      BY <1>4, <1>6
    <2>3. /\ Len(h) = Len(g.parents) + 0 + Len(g.paths)
          /\ \A n \in 1 .. Len(g.parents) : g.parents[n].path = h[n]
          /\ \A n \in 1 .. Len(g.paths) : g.paths[n] = h[Len(g.parents) + 0 + n]
      BY <1>4, <1>6, <1>9, <1>12, <2>2
    <2>4. QED
      BY <2>1, <2>3 DEF Waits
  <1>14. QED
    BY <1>6, <1>7, <1>13 DEF Same

-----------------------------------------------------------------------------
(* The steps of the constructors                                           *)

\* The outermost constructor goes on.
Kept(s, t) == t # <<>> /\ Same(s[1], t[1])

LEMMA TowerReplacing ==
  ASSUME NEW st, NEW c, NEW k, NEW s, Tower(st, c, k, s), s # <<>>,
         NEW f, f = s[Len(s)],
         NEW g \in Frames, Built(st, g), Waits(st, c, k, g, 0), Same(f, g),
         NEW t, t = [s EXCEPT ![Len(s)] = g]
  PROVE  Tower(st, c, k, t) /\ Kept(s, t)
  <1>1. Tower(st, c, k, t)
    BY TowerReplaced DEF Same
  <1>2. PICK n : n = Len(s)
    OBVIOUS
  <1>3. n \in Nat /\ n > 0 /\ s \in Seq(Frames)
    BY <1>2 DEF Tower
  <1>4. t \in Seq(Frames) /\ Len(t) = n /\ \A i \in 1 .. n : t[i] = IF i = n THEN g ELSE s[i]
    BY <1>2, <1>3
  <1>5. t # <<>> /\ 1 \in 1 .. n
    BY <1>3, <1>4
  <1>6. Same(s[1], t[1])
    BY <1>2, <1>4, <1>5 DEF Same
  <1>7. QED
    BY <1>1, <1>5, <1>6 DEF Kept

LEMMA TowerGoes ==
  ASSUME NEW st, NEW c, NEW k, NEW s, Tower(st, c, k, s), s # <<>>,
         NEW f, f = s[Len(s)],
         NEW g \in Frames, Built(st, g), Alike(f, g),
         NEW t, t = [s EXCEPT ![Len(s)] = g]
  PROVE  Tower(st, c, k, t) /\ Kept(s, t)
  <1>1. Waits(st, c, k, f, 0)
    BY RunningFrame
  <1>2. Waits(st, c, k, g, 0) /\ Same(f, g)
    BY <1>1 DEF Waits, Alike, Same
  <1>3. QED
    BY <1>2, TowerReplacing, Zenon

\* A step of the constructors, of which the first goes on, or leaves a profile, or has been
\* left by an exception.
Moved(s, t, r, u) ==
    \/ u = r /\ t = <<>>
    \/ u = r /\ Kept(s, t)
    \/ u = Append(r, s[1].self) /\ t = <<>> /\ Len(s) = 1 /\ s[1].stage = "rest"

LEMMA StepMoves ==
  ASSUME NEW c, NEW k, Sums(setting, c, k), Tower(setting, c, k, stack), Step
  PROVE  /\ setting' = setting /\ stack # <<>> /\ Tower(setting, c, k, stack')
         /\ Moved(stack, stack', results, results')
  <1>1. setting' = setting /\ stack # <<>>
    BY DEF Step, Running, GetParents, ConstructParent, FindRepo, CombineParent, InitMakeDefaults,
           InitPackages, EndOfPackages, ReadPackageMask, InitPackageMask, EndOfPackageMask,
           Return, Throw
  <1>2. PICK st : st = setting
    OBVIOUS
  <1>3. PICK s : s = stack
    OBVIOUS
  <1>4. PICK t : t = stack'
    OBVIOUS
  <1>5. PICK f : f = s[Len(s)]
    OBVIOUS
  <1>6. /\ Sums(st, c, k) /\ Tower(st, c, k, s) /\ s # <<>> /\ st \in Settings
        /\ Top = f
    BY <1>1, <1>2, <1>3, <1>5 DEF Top, Last, Sums
  <1>7. /\ Len(s) \in Nat /\ Len(s) > 0 /\ f \in Frames
        /\ Built(st, f) /\ Waits(st, c, k, f, 0)
    BY <1>5, <1>6, RunningFrame
  <1> DEFINE Good == Tower(st, c, k, t) /\ Moved(s, t, results, results')
  <1>8. ASSUME NEW g \in Frames, Built(st, g), Waits(st, c, k, g, 0), Same(f, g),
               SetTop(g), results' = results
        PROVE  Good
    <2>1. t = [s EXCEPT ![Len(s)] = g]
      BY <1>3, <1>4, <1>8 DEF SetTop
    <2>2. Tower(st, c, k, t) /\ Kept(s, t)
      BY <1>5, <1>6, <1>8, <2>1, TowerReplacing, Zenon
    <2>3. QED
      BY <1>8, <2>2 DEF Moved
  <1>9. ASSUME NEW g \in Frames, Built(st, g), Alike(f, g), SetTop(g), results' = results
        PROVE  Good
    <2>1. t = [s EXCEPT ![Len(s)] = g]
      BY <1>3, <1>4, <1>9 DEF SetTop
    <2>2. Tower(st, c, k, t) /\ Kept(s, t)
      BY <1>5, <1>6, <1>9, <2>1, TowerGoes, Zenon
    <2>3. QED
      BY <1>9, <2>2 DEF Moved
  <1> HIDE DEF Good
  <1>10. ASSUME GetParents
         PROVE  Good
    <2>1. PICK g : g = [f EXCEPT
             !.stage = "parents",
             !.paths = IF f.injected = {} THEN st.hierarchy[f.self.path] ELSE <<>>,
             !.parents = SetToSeq(f.injected)]
      OBVIOUS
    <2>2. f.stage = "paths" /\ SetTop(g) /\ results' = results
      BY <1>2, <1>6, <1>10, <2>1, Zenon DEF GetParents, Running
    <2>3. g \in Frames /\ Built(st, g) /\ Waits(st, c, k, g, 0) /\ Same(f, g)
      BY <1>6, <1>7, <2>1, <2>2, FrameGetParents, Zenon
    <2>4. QED
      BY <1>8, <2>2, <2>3
  <1>11. ASSUME ConstructParent
         PROVE  Good
    <2>1. PICK g : g = Advanced(f)
      OBVIOUS
    <2>2. PICK h : h = Call(Head(f.paths), {}, <<>>)
      OBVIOUS
    <2>3. f.stage = "parents" /\ f.paths # <<>> /\ results' = results
      BY <1>6, <1>11, Zenon DEF ConstructParent, Running
    <2>4. t = Append([s EXCEPT ![Len(s)] = g], h)
      BY <1>3, <1>4, <1>5, <1>6, <1>11, <2>1, <2>2 DEF ConstructParent, Advanced
    <2>5. /\ g \in Frames /\ Built(st, g) /\ Waits(st, c, k, g, 1) /\ Same(f, g)
          /\ g.stage = "parents" /\ g.injected = {} /\ Head(f.paths) \in Dirs
          /\ Head(f.paths) = st.hierarchy[g.self.path][Len(g.parents) + 1]
      BY <1>6, <1>7, <2>1, <2>3, FrameConstructParent
    <2>6. {} \in Injected /\ <<>> \in Seq(Repos) /\ \A p \in {} : Own(st, p)
      BY DEF Injected
    <2>7. h \in Frames /\ Built(st, h) /\ Waits(st, c, k, h, 0)
      BY <2>2, <2>5, <2>6, TowerCalled, Zenon
    <2>8. h.injected = {} /\ h.given = <<>> /\ h.self.path = Head(f.paths)
      BY <2>2, <2>5, EmptyTyped DEF Call
    <2>9. Tower(st, c, k, t)
      <3>1. /\ g.self.path = f.self.path /\ g.injected = f.injected /\ g.given = f.given
            /\ h.self.path = st.hierarchy[g.self.path][Len(g.parents) + 1]
        BY <2>5, <2>8 DEF Same
      <3>2. QED
        BY <1>5, <1>6, <2>4, <2>5, <2>7, <2>8, <3>1, TowerPushed, Zenon
    <2>10. Kept(s, t)
      <3>1. PICK n : n = Len(s)
        OBVIOUS
      <3>2. PICK r : r = [s EXCEPT ![Len(s)] = g]
        OBVIOUS
      <3>3. n \in Nat /\ n > 0 /\ s \in Seq(Frames) /\ 1 \in 1 .. n
        BY <1>6, <1>7, <3>1 DEF Tower
      <3>4. r \in Seq(Frames) /\ Len(r) = n /\ \A i \in 1 .. n : r[i] = IF i = n THEN g ELSE s[i]
        BY <2>5, <3>1, <3>2, <3>3
      <3>5. Len(t) = n + 1 /\ t[1] = r[1] /\ t # <<>>
        BY <2>4, <2>7, <3>2, <3>3, <3>4
      <3>6. QED
        BY <1>5, <2>5, <3>1, <3>3, <3>4, <3>5 DEF Kept, Same
    <2>11. QED
      BY <2>3, <2>9, <2>10 DEF Good, Moved
  <1>12. ASSUME FindRepo
         PROVE  Good
    <2>1. PICK g : g = [f EXCEPT
             !.stage = "combine",
             !.self.repos = IF f.given # <<>> THEN f.given ELSE <<RepoOf[f.self.path]>>]
      OBVIOUS
    <2>2. f.stage = "parents" /\ f.paths = <<>>
          /\ (f.given # <<>> \/ RepoOf[f.self.path] # NoRepo)
          /\ SetTop(g) /\ results' = results
      BY <1>2, <1>6, <1>12, <2>1, Zenon DEF FindRepo, Running
    <2>3. g \in Frames /\ Built(st, g) /\ Alike(f, g)
      BY <1>6, <1>7, <2>1, <2>2, FrameFindRepo, Zenon
    <2>4. QED
      BY <1>9, <2>2, <2>3
  <1>13. ASSUME CombineParent
         PROVE  Good
    <2>1. PICK parent : parent = f.parents[f.next]
      OBVIOUS
    <2>2. PICK g : g = [f EXCEPT
             !.next = @ + 1,
             !.self.make_defaults_unevaluated = @ \o parent.make_defaults_unevaluated,
             !.self.packages = @ \cup parent.packages]
      OBVIOUS
    <2>3. f.stage = "combine" /\ f.next <= Len(f.parents) /\ SetTop(g) /\ results' = results
      BY <1>6, <1>13, <2>1, <2>2, Zenon DEF CombineParent, Running
    <2>4. g \in Frames /\ Built(st, g) /\ Alike(f, g)
      BY <1>6, <1>7, <2>1, <2>2, <2>3, FrameCombineParent, Zenon
    <2>5. QED
      BY <1>9, <2>3, <2>4
  <1>14. ASSUME InitMakeDefaults
         PROVE  Good
    <2>1. PICK g : g = [f EXCEPT !.stage = "packages", !.next = 1,
                         !.self.make_defaults_unevaluated = Append(@, f.self.path)]
      OBVIOUS
    <2>2. f.stage = "combine" /\ f.next > Len(f.parents)
          /\ SetTop(g) /\ results' = results
      BY <1>2, <1>6, <1>14, <2>1, Zenon DEF InitMakeDefaults, Running
    <2>3. g \in Frames /\ Built(st, g) /\ Alike(f, g)
      BY <1>6, <1>7, <2>1, <2>2, FrameInitMakeDefaults, Zenon
    <2>4. QED
      BY <1>9, <2>2, <2>3
  <1>15. ASSUME InitPackages
         PROVE  Good
    <2>1. PICK line : line = st.packages[f.self.path][f.next]
      OBVIOUS
    <2>2. PICK g : g = [f EXCEPT
             !.next = @ + 1,
             !.self.packages = IF line.negate THEN @ \ {line.atom} ELSE @ \cup {line.atom}]
      OBVIOUS
    <2>3. f.stage = "packages" /\ f.next <= Len(st.packages[f.self.path])
          /\ SetTop(g) /\ results' = results
      BY <1>2, <1>6, <1>15, <2>1, <2>2, Zenon DEF InitPackages, Running
    <2>4. g \in Frames /\ Built(st, g) /\ Alike(f, g)
      BY <1>6, <1>7, <2>1, <2>2, <2>3, FrameInitPackages, Zenon
    <2>5. QED
      BY <1>9, <2>3, <2>4
  <1>16. ASSUME EndOfPackages
         PROVE  Good
    <2>1. PICK g : g = [f EXCEPT !.stage = "mask"]
      OBVIOUS
    <2>2. f.stage = "packages" /\ f.next > Len(st.packages[f.self.path])
          /\ SetTop(g) /\ results' = results
      BY <1>2, <1>6, <1>16, <2>1, Zenon DEF EndOfPackages, Running
    <2>3. g \in Frames /\ Built(st, g) /\ Alike(f, g)
      BY <1>6, <1>7, <2>1, <2>2, FrameEndOfPackages, Zenon
    <2>4. QED
      BY <1>9, <2>2, <2>3
  <1>17. ASSUME ReadPackageMask
         PROVE  Good
    <2>1. PICK files \in get_config_files(st.masks[f.self.path]) :
              SetTop([f EXCEPT !.stage = "masking", !.lines = LinesOf(files)])
      BY <1>2, <1>6, <1>17, Zenon DEF ReadPackageMask
    <2>2. PICK g : g = [f EXCEPT !.stage = "masking", !.lines = LinesOf(files)]
      OBVIOUS
    <2>3. f.stage = "mask" /\ SetTop(g) /\ results' = results
      BY <1>6, <1>17, <2>1, <2>2, Zenon DEF ReadPackageMask, Running
    <2>4. g \in Frames /\ Built(st, g) /\ Alike(f, g)
      BY <1>6, <1>7, <2>2, <2>3, FrameReadPackageMask, Zenon
    <2>5. QED
      BY <1>9, <2>3, <2>4
  <1>18. ASSUME InitPackageMask
         PROVE  Good
    <2>1. PICK g : g = [f EXCEPT !.lines = Tail(@),
                         !.self.masked = Masked(@, Head(f.lines), f.self.repos)]
      OBVIOUS
    <2>2. f.stage = "masking" /\ f.lines # <<>>
          /\ SetTop(g) /\ results' = results
      BY <1>2, <1>6, <1>18, <2>1, Zenon DEF InitPackageMask, Running
    <2>3. g \in Frames /\ Built(st, g) /\ Alike(f, g)
      BY <1>6, <1>7, <2>1, <2>2, FrameInitPackageMask, Zenon
    <2>4. QED
      BY <1>9, <2>2, <2>3
  <1>19. ASSUME EndOfPackageMask
         PROVE  Good
    <2>1. PICK g : g = [f EXCEPT !.stage = "rest"]
      OBVIOUS
    <2>2. f.stage = "masking" /\ f.lines = <<>>
          /\ SetTop(g) /\ results' = results
      BY <1>2, <1>6, <1>19, <2>1, Zenon DEF EndOfPackageMask, Running
    <2>3. g \in Frames /\ Built(st, g) /\ Alike(f, g)
      BY <1>6, <1>7, <2>1, <2>2, FrameEndOfPackageMask, Zenon
    <2>4. QED
      BY <1>9, <2>2, <2>3
  <1>20. ASSUME Return
         PROVE  Good
    <2>1. f.stage = "rest" /\ stack # <<>>
      BY <1>6, <1>20 DEF Return, Running
    <2>2. CASE Len(s) = 1
      <3>1. t = <<>> /\ results' = Append(results, f.self) /\ f = s[1]
        BY <1>3, <1>4, <1>5, <1>6, <1>20, <2>2 DEF Return
      <3>2. QED
        BY <2>1, <2>2, <3>1, TowerNothing DEF Good, Moved
    <2>3. CASE Len(s) # 1
      <3>1. PICK n : n = Len(s)
        OBVIOUS
      <3>2. PICK e : e = s[n - 1]
        OBVIOUS
      <3>3. PICK g : g = [e EXCEPT !.parents = Append(@, f.self)]
        OBVIOUS
      <3>4. s \in Seq(Frames) /\ n \in Nat /\ n > 1
        BY <1>6, <1>7, <2>3, <3>1 DEF Tower
      <3>5. n - 1 \in 1 .. n /\ n - 1 \in 1 .. n - 1 /\ n - 1 < n /\ n \in 2 .. n /\ (n - 1) + 1 = n
        BY <3>4
      <3>6. PICK r : r = Front(s)
        OBVIOUS
      <3>7. r \in Seq(Frames) /\ Len(r) = n - 1 /\ \A i \in 1 .. n - 1 : r[i] = s[i]
        BY <3>1, <3>4, <3>6 DEF Front
      <3>8. t = [r EXCEPT ![n - 1] = g] /\ results' = results
        <4>1. /\ t = [r EXCEPT ![n - 1].parents = Append(@, f.self)]
              /\ results' = results
          BY <1>3, <1>4, <1>6, <1>20, <2>3, <3>1, <3>6 DEF Return
        <4>2. r[n - 1] = e
          BY <3>2, <3>5, <3>7
        <4>3. QED
          BY <3>3, <4>1, <4>2
      <3>9. e \in Frames /\ Built(st, e) /\ Waits(st, c, k, e, 1)
        <4>1. Waits(st, c, k, s[n - 1], IF n - 1 < n THEN 1 ELSE 0) /\ Built(st, s[n - 1])
          BY <1>6, <3>1, <3>5 DEF Tower
        <4>2. Waits(st, c, k, s[n - 1], 1)
          BY <3>5, <4>1, Zenon
        <4>3. s[n - 1] \in Frames
          BY <3>1, <3>4, <3>5
        <4>4. QED
          BY <3>2, <4>1, <4>2, <4>3
      <3>10. /\ e.stage = "parents" /\ e.injected = {}
             /\ f.self.path = st.hierarchy[e.self.path][Len(e.parents) + 1]
        BY <1>5, <1>6, <3>1, <3>2, <3>5 DEF Tower
      <3>11. f.injected = {} /\ f.given = <<>>
        BY <1>5, <1>6, <3>1, <3>5 DEF Tower
      <3>12. f.self \in Profiles /\ Own(st, f.self) /\ Whole(c, k, f.self)
        BY <1>6, <1>7, <2>1, <3>11, FrameReturn DEF Whole, Around
      <3>13. g \in Frames /\ Built(st, g) /\ Waits(st, c, k, g, 0) /\ Same(e, g)
        BY <1>6, <3>3, <3>9, <3>10, <3>12, FrameReturned, Zenon
      <3>14. Tower(st, c, k, t)
        <4>1. g.self.path = e.self.path /\ g.injected = e.injected /\ g.given = e.given
          BY <3>13 DEF Same
        <4>2. QED
          BY <1>6, <3>1, <3>2, <3>4, <3>6, <3>8, <3>13, <4>1, TowerPopped, Zenon
      <3>15. Kept(s, t)
        <4>1. /\ Len(t) = n - 1
              /\ \A i \in 1 .. n - 1 : t[i] = IF i = n - 1 THEN g ELSE s[i]
          BY <3>4, <3>7, <3>8
        <4>2. 1 \in 1 .. n - 1
          BY <3>4
        <4>3. t # <<>>
          BY <3>4, <4>1
        <4>4. QED
          BY <3>2, <3>13, <4>1, <4>2, <4>3 DEF Kept, Same
      <3>16. QED
        BY <3>8, <3>14, <3>15 DEF Good, Moved
    <2>4. QED
      BY <2>2, <2>3
  <1>21. ASSUME Throw
         PROVE  Good
    <2>1. t = <<>> /\ results' = results
      BY <1>4, <1>21 DEF Throw
    <2>2. QED
      BY <2>1, TowerNothing DEF Good, Moved
  <1>22. Good
    BY <1>10, <1>11, <1>12, <1>13, <1>14, <1>15, <1>16, <1>17, <1>18, <1>19, <1>20, <1>21 DEF Step
  <1>23. QED
    BY <1>1, <1>2, <1>3, <1>4, <1>22 DEF Good

-----------------------------------------------------------------------------
(* The calls of init_base                                                  *)

\* The repositories that are passed, or the one around the directory.
Given(dir, given) == IF given # <<>> THEN given ELSE <<RepoOf[dir]>>

\* The repositories of repos.conf.
Found(sys) == IF sys.locations = NoFile THEN <<Gentoo>> ELSE sys.locations

\* How many calls have been made.
Calls(sys, ph) ==
    IF ph = "user_profile" THEN 1
    ELSE IF ph = "base" THEN 2
    ELSE IF ph = "return" THEN (IF sys.is_directory THEN 3 ELSE 2)
    ELSE 0

Started(f, dir, injected, given) ==
    f.self.path = dir /\ f.injected = injected /\ f.given = given

\* What the last of n calls, r being what the earlier ones returned, was made with.
Asked(sys, rep, n, r, f) ==
    /\ n = 1 => Started(f, MakeProfile, {}, <<>>)
    /\ n = 2 => Started(f, IF sys.is_directory THEN UserProfile ELSE Path,
                        IF sys.is_directory THEN {r[1]} ELSE {}, rep)
    /\ n = 3 => Started(f, Path, {r[2]}, rep)

\* What they have returned.
Answered(st, c, k, sys, rep, r) ==
    /\ Len(r) >= 1 => r[1].path = MakeProfile /\ Full(c, k, r[1])
    /\ Len(r) >= 2 /\ sys.is_directory => r[2].path = UserProfile /\ Heir(st, r[1], r[2])
    /\ Len(r) >= 2 /\ ~sys.is_directory =>
            r[2].path = Path /\ Full(c, k, r[2]) /\ r[2].repos = Given(Path, rep)
    /\ Len(r) >= 3 =>
            r[3].path = Path /\ Heir(st, r[2], r[3]) /\ r[3].repos = Given(Path, rep)

\* The repositories read so far, and all of them once a call has been made.
Read(sys, ph, rep) ==
    /\ rep \in Seq(Repos) /\ IsInjective(rep)
    /\ ph = "repos" =>
            IF sys.locations = NoFile THEN rep = <<>>
            ELSE /\ Len(rep) <= Len(sys.locations)
                 /\ \A i \in 1 .. Len(rep) : rep[i] = sys.locations[i]
    /\ ph \notin {"repos", "thrown"} => rep = Found(sys)

Made(st, c, k, sys, ph, rep, s, r) ==
    /\ ph = "base" => sys.is_directory
    /\ r \in Seq(Profiles) /\ \A i \in DOMAIN r : Own(st, r[i])
    /\ Len(r) <= Calls(sys, ph)
    /\ s # <<>> => Len(r) + 1 = Calls(sys, ph) /\ Asked(sys, rep, Len(r) + 1, r, s[1])
    /\ Answered(st, c, k, sys, rep, r)

TInv ==
    /\ setting \in Settings /\ system \in Systems
    /\ Tower(setting, Concatenation, InPackages, stack)
    /\ Read(system, phase, repos)
    /\ Made(setting, Concatenation, InPackages, system, phase, repos, stack, results)

LEMMA TowerInitially == PInit => TInv
  <1> SUFFICES ASSUME PInit
               PROVE  TInv
    OBVIOUS
  <1>1. setting \in Settings /\ system \in Systems /\ phase = "repos"
        /\ stack = <<>> /\ results = <<>> /\ repos = <<>>
    BY DEF PInit
  <1>2. Tower(setting, Concatenation, InPackages, stack)
    BY <1>1, TowerNothing
  <1>3. Read(system, phase, repos)
    <2>1. <<>> \in Seq(Repos) /\ Len(<<>>) = 0 /\ 1 .. 0 = {} /\ IsInjective(<<>>)
      BY DEF IsInjective
    <2>2. system.locations # NoFile => Len(system.locations) >= 0
      BY <1>1, PortageAssumption
    <2>3. QED
      BY <1>1, <2>1, <2>2 DEF Read
  <1>4. Made(setting, Concatenation, InPackages, system, phase, repos, stack, results)
    <2>1. Calls(system, phase) = 0 /\ phase # "base"
      BY <1>1 DEF Calls
    <2>2. results \in Seq(Profiles) /\ DOMAIN results = {} /\ Len(results) = 0
      BY <1>1
    <2>3. QED
      BY <1>1, <2>1, <2>2 DEF Made, Answered
  <1>5. QED
    BY <1>1, <1>2, <1>3, <1>4 DEF TInv

\* A call of init_base returns.
LEMMA AnsweredNext ==
  ASSUME NEW st, NEW c, NEW k, NEW sys, NEW ph, NEW rep, NEW s, NEW r,
         Sums(st, c, k), Tower(st, c, k, s), Made(st, c, k, sys, ph, rep, s, r),
         Len(s) = 1, s[1].stage = "rest",
         NEW u, u = Append(r, s[1].self)
  PROVE  Made(st, c, k, sys, ph, rep, <<>>, u)
  <1>1. PICK f : f = s[1]
    OBVIOUS
  <1>2. PICK n : n = Len(r) + 1
    OBVIOUS
  <1>3. s # <<>> /\ s \in Seq(Frames)
    <2>1. s \in Seq(Frames)
      BY DEF Tower
    <2>2. s # <<>>
      <3>1. Len(<<>>) = 0
        OBVIOUS
      <3>2. QED
        BY <3>1
    <2>3. QED
      BY <2>1, <2>2
  <1>4. f \in Frames /\ Built(st, f) /\ Waits(st, c, k, f, 0) /\ f.stage = "rest"
    <2>1. f = s[Len(s)]
      BY <1>1
    <2>2. QED
      BY <1>1, <1>3, <2>1, RunningFrame, Zenon
  <1>5. /\ f.self \in Profiles /\ Own(st, f.self) /\ f.self.repos = Around(f)
        /\ f.injected = {} => Full(c, k, f.self)
        /\ \A p \in f.injected : Heir(st, p, f.self)
    BY <1>4, FrameReturn
  <1>6. /\ r \in Seq(Profiles) /\ \A i \in DOMAIN r : Own(st, r[i])
        /\ n = Calls(sys, ph) /\ Asked(sys, rep, n, r, f) /\ Answered(st, c, k, sys, rep, r)
        /\ ph = "base" => sys.is_directory
    BY <1>1, <1>2, <1>3 DEF Made
  <1>7. /\ n \in 1 .. 3 /\ (n = 3 => sys.is_directory)
    BY <1>2, <1>6 DEF Calls
  <1>8. /\ u \in Seq(Profiles) /\ Len(u) = n /\ u[n] = f.self
        /\ \A i \in 1 .. n - 1 : u[i] = r[i]
    BY <1>1, <1>2, <1>5, <1>6
  <1>9. \A i \in DOMAIN u : Own(st, u[i])
    <2>1. \A i \in 1 .. n : i = n \/ i \in 1 .. n - 1
      BY <1>7
    <2>2. DOMAIN u = 1 .. n /\ DOMAIN r = 1 .. n - 1
      BY <1>2, <1>6, <1>8
    <2>3. QED
      BY <1>5, <1>6, <1>8, <2>1, <2>2
  <1>10. f.self.repos = Given(f.self.path, f.given)
    BY <1>5 DEF Around, Given
  <1>11. Answered(st, c, k, sys, rep, u)
    <2>1. CASE n = 1
      <3>1. f.self.path = MakeProfile /\ Full(c, k, f.self) /\ u[1] = f.self /\ Len(u) = 1
        BY <1>5, <1>6, <1>8, <2>1 DEF Asked, Started
      <3>2. QED
        BY <3>1 DEF Answered
    <2>2. CASE n = 2
      <3>1. u[2] = f.self /\ Len(u) = 2 /\ u[1] = r[1]
        BY <1>8, <2>2
      <3>2. r[1].path = MakeProfile /\ Full(c, k, r[1])
        BY <1>2, <1>6, <2>2 DEF Answered
      <3>3. CASE sys.is_directory
        <4>1. f.self.path = UserProfile /\ f.injected = {r[1]}
          BY <1>6, <2>2, <3>3, Zenon DEF Asked, Started
        <4>2. Heir(st, r[1], f.self)
          BY <1>5, <4>1
        <4>3. QED
          BY <3>1, <3>2, <3>3, <4>1, <4>2 DEF Answered
      <3>4. CASE ~sys.is_directory
        <4>1. f.self.path = Path /\ f.injected = {} /\ f.given = rep
          BY <1>6, <2>2, <3>4, Zenon DEF Asked, Started
        <4>2. Full(c, k, f.self) /\ f.self.repos = Given(Path, rep)
          BY <1>5, <1>10, <4>1
        <4>3. QED
          BY <3>1, <3>2, <3>4, <4>1, <4>2 DEF Answered
      <3>5. QED
        BY <3>3, <3>4
    <2>3. CASE n = 3
      <3>1. u[3] = f.self /\ Len(u) = 3 /\ u[1] = r[1] /\ u[2] = r[2] /\ Len(r) = 2
        <4>1. 1 \in 1 .. n - 1 /\ 2 \in 1 .. n - 1
          BY <2>3
        <4>2. Len(r) = 2
          <5>1. PICK m : m = Len(r)
            OBVIOUS
          <5>2. m \in Nat
            BY <1>6, <5>1
          <5>3. m + 1 = 3
            BY <1>2, <2>3, <5>1
          <5>4. QED
            BY <5>1, <5>2, <5>3
        <4>3. QED
          BY <1>8, <2>3, <4>1, <4>2
      <3>2. /\ r[1].path = MakeProfile /\ Full(c, k, r[1])
            /\ r[2].path = UserProfile /\ Heir(st, r[1], r[2])
        BY <1>6, <1>7, <2>3, <3>1 DEF Answered
      <3>3. f.self.path = Path /\ f.injected = {r[2]} /\ f.given = rep
        BY <1>6, <2>3 DEF Asked, Started
      <3>4. Heir(st, r[2], f.self) /\ f.self.repos = Given(Path, rep)
        BY <1>5, <1>10, <3>3
      <3>5. QED
        BY <1>7, <2>3, <3>1, <3>2, <3>3, <3>4 DEF Answered
    <2>4. QED
      BY <1>7, <2>1, <2>2, <2>3
  <1>12. QED
    BY <1>6, <1>8, <1>9, <1>11 DEF Made

\* A step of the constructors.
LEMMA ConstructorKeeps ==
  ASSUME TInv, Constructor
  PROVE  TInv'
  <1>1. PICK c : c = Concatenation
    OBVIOUS
  <1>2. PICK k : k = InPackages
    OBVIOUS
  <1>3. /\ Sums(setting, c, k) /\ Tower(setting, c, k, stack)
        /\ Made(setting, c, k, system, phase, repos, stack, results)
    BY <1>1, <1>2, SumsOfSetting DEF TInv
  <1>4. /\ setting' = setting /\ stack # <<>> /\ Tower(setting, c, k, stack')
        /\ Moved(stack, stack', results, results')
    BY <1>3, StepMoves DEF Constructor
  <1>5. system' = system /\ repos' = repos /\ phase' = phase
    BY DEF Constructor
  <1>6. c = Concatenation' /\ k = InPackages'
    BY <1>1, <1>2, <1>4, ConcatenationUnchanged, InPackagesUnchanged
  <1>7. Made(setting, c, k, system, phase, repos, stack', results')
    <2>1. CASE results' = results /\ stack' = <<>>
      BY <1>3, <2>1 DEF Made
    <2>2. CASE results' = results /\ Kept(stack, stack')
      BY <1>3, <1>4, <2>2 DEF Made, Kept, Same, Asked, Started
    <2>3. CASE /\ results' = Append(results, stack[1].self) /\ stack' = <<>>
               /\ Len(stack) = 1 /\ stack[1].stage = "rest"
      BY <1>3, <2>3, AnsweredNext, Zenon
    <2>4. QED
      BY <1>4, <2>1, <2>2, <2>3 DEF Moved
  <1>8. QED
    BY <1>4, <1>5, <1>6, <1>7 DEF TInv

\* A call of init_base.
LEMMA CalledNext ==
  ASSUME TInv, UNCHANGED <<setting, results, system, repos>>, stack = <<>>,
         NEW dir \in Dirs, NEW injected \in Injected, NEW given \in Seq(Repos),
         \A p \in injected : Own(setting, p),
         stack' = <<Call(dir, injected, given)>>,
         phase' \notin {"repos", "thrown"}, repos = Found(system),
         phase' = "base" => system.is_directory,
         Len(results) + 1 = Calls(system, phase'),
         \A f : Started(f, dir, injected, given) =>
                    Asked(system, repos, Len(results) + 1, results, f)
  PROVE  TInv'
  <1>1. PICK c : c = Concatenation
    OBVIOUS
  <1>2. PICK k : k = InPackages
    OBVIOUS
  <1>3. PICK ph : ph = phase'
    OBVIOUS
  <1>4. PICK f : f = Call(dir, injected, given)
    OBVIOUS
  <1>5. PICK t : t = stack'
    OBVIOUS
  <1>6. c = Concatenation' /\ k = InPackages'
    BY <1>1, <1>2, ConcatenationUnchanged, InPackagesUnchanged
  <1>7. t = <<f>> /\ t # <<>> /\ t[1] = f
    BY <1>4, <1>5
  <1>8. Tower(setting, c, k, t)
    BY <1>4, <1>7, TowerCalled, Zenon
  <1>9. Started(f, dir, injected, given)
    BY <1>4, EmptyTyped DEF Started, Call
  <1>10. Made(setting, c, k, system, phase, repos, stack, results)
    BY <1>1, <1>2 DEF TInv
  <1>11. Made(setting, c, k, system, ph, repos, t, results)
    <2>1. Len(results) <= Calls(system, ph)
      BY <1>3, <1>10 DEF Made
    <2>2. QED
      BY <1>3, <1>7, <1>9, <1>10, <2>1 DEF Made
  <1>12. Read(system, ph, repos)
    BY <1>3 DEF TInv, Read
  <1>13. setting \in Settings /\ system \in Systems
    BY DEF TInv
  <1>14. QED
    BY <1>3, <1>5, <1>6, <1>8, <1>11, <1>12, <1>13 DEF TInv

\* A step before the first call.
LEMMA ReadNext ==
  ASSUME TInv, UNCHANGED <<setting, stack, results, system>>,
         phase = "repos", phase' \in {"repos", "parent_profile", "thrown"},
         Read(system, phase', repos')
  PROVE  TInv'
  <1>1. PICK c : c = Concatenation
    OBVIOUS
  <1>2. PICK k : k = InPackages
    OBVIOUS
  <1>3. PICK ph : ph = phase'
    OBVIOUS
  <1>4. PICK rep : rep = repos'
    OBVIOUS
  <1>5. c = Concatenation' /\ k = InPackages'
    BY <1>1, <1>2, ConcatenationUnchanged, InPackagesUnchanged
  <1>6. Made(setting, c, k, system, phase, repos, stack, results)
    BY <1>1, <1>2 DEF TInv
  <1>7. Calls(system, phase) = 0 /\ Calls(system, ph) = 0 /\ ph # "base"
    BY <1>3 DEF Calls
  <1>8. stack = <<>> /\ Len(results) = 0 /\ results \in Seq(Profiles)
    BY <1>6, <1>7 DEF Made
  <1>9. Made(setting, c, k, system, ph, rep, stack, results)
    BY <1>6, <1>7, <1>8 DEF Made, Answered
  <1>10. /\ setting \in Settings /\ system \in Systems
         /\ Tower(setting, c, k, stack) /\ Read(system, ph, rep)
    BY <1>1, <1>2, <1>3, <1>4 DEF TInv
  <1>11. QED
    BY <1>3, <1>4, <1>5, <1>9, <1>10 DEF TInv

LEMMA TowerKept ==
  ASSUME TInv, [PNext]_pvars
  PROVE  TInv'
  <1>1. /\ setting \in Settings /\ system \in Systems
        /\ Tower(setting, Concatenation, InPackages, stack)
        /\ Read(system, phase, repos)
        /\ Made(setting, Concatenation, InPackages, system, phase, repos, stack, results)
    BY DEF TInv
  <1>2. repos \in Seq(Repos) /\ IsInjective(repos)
    BY <1>1 DEF Read
  <1>3. results \in Seq(Profiles) /\ \A i \in DOMAIN results : Own(setting, results[i])
    BY <1>1 DEF Made
  <1>4. system.locations = NoFile \/ system.locations \in Seq(Repos)
    BY <1>1, PortageAssumption
  <1>5. CASE UNCHANGED pvars
    BY <1>5, ConcatenationUnchanged, InPackagesUnchanged DEF pvars, TInv
  <1>6. CASE Constructor
    BY <1>6, ConstructorKeeps
  <1>7. CASE DefaultRepos
    <2>1. /\ phase = "repos" /\ system.locations = NoFile /\ repos' = <<Gentoo>>
          /\ phase' = "parent_profile" /\ UNCHANGED <<setting, stack, results, system>>
      BY <1>7 DEF DefaultRepos
    <2>2. <<Gentoo>> \in Seq(Repos) /\ IsInjective(<<Gentoo>>)
      BY PortageAssumption DEF IsInjective
    <2>3. Read(system, phase', repos')
      BY <2>1, <2>2 DEF Read, Found
    <2>4. QED
      BY <2>1, <2>3, ReadNext
  <1>8. CASE BadLocation
    <2>1. /\ phase = "repos" /\ phase' = "thrown" /\ repos' = repos
          /\ UNCHANGED <<setting, stack, results, system>>
      BY <1>8 DEF BadLocation, ThrowAway
    <2>2. Read(system, phase', repos')
      BY <1>2, <2>1 DEF Read
    <2>3. QED
      BY <2>1, <2>2, ReadNext
  <1>9. CASE NextLocation
    <2>1. PICK m : m = Len(repos)
      OBVIOUS
    <2>2. PICK locations : locations = system.locations
      OBVIOUS
    <2>3. PICK location : location = locations[m + 1]
      OBVIOUS
    <2>4. /\ phase = "repos" /\ locations # NoFile /\ m < Len(locations)
          /\ UNCHANGED <<setting, stack, results, system>>
      BY <1>9, <2>1, <2>2 DEF NextLocation, ThrowAway
    <2>5. CASE location \in ToSet(repos)
      <3>1. phase' = "thrown" /\ repos' = repos
        BY <1>9, <2>1, <2>2, <2>3, <2>5 DEF NextLocation, ThrowAway
      <3>2. Read(system, phase', repos')
        BY <1>2, <3>1 DEF Read
      <3>3. QED
        BY <2>4, <3>1, <3>2, ReadNext
    <2>6. CASE location \notin ToSet(repos)
      <3>1. phase' = "repos" /\ repos' = Append(repos, location)
        BY <1>9, <2>1, <2>2, <2>3, <2>4, <2>6 DEF NextLocation
      <3>2. PICK t : t = repos'
        OBVIOUS
      <3>3. locations \in Seq(Repos) /\ m \in Nat /\ m + 1 \in 1 .. Len(locations)
        BY <1>2, <1>4, <2>1, <2>2, <2>4
      <3>4. location \in Repos
        BY <2>3, <3>3
      <3>5. /\ t \in Seq(Repos) /\ Len(t) = m + 1 /\ t[m + 1] = location
            /\ \A i \in 1 .. m : t[i] = repos[i]
        BY <1>2, <2>1, <3>1, <3>2, <3>4
      <3>6. /\ Len(repos) <= Len(locations)
            /\ \A i \in 1 .. m : repos[i] = locations[i]
        BY <1>1, <2>1, <2>2, <2>4 DEF Read
      <3>7. \A i \in 1 .. m + 1 : i \in 1 .. m \/ i = m + 1
        BY <3>3
      <3>8. \A i \in 1 .. m + 1 : t[i] = locations[i]
        BY <2>3, <3>5, <3>6, <3>7
      <3>9. IsInjective(t)
        <4>1. \A i \in 1 .. m : repos[i] # location
          BY <1>2, <2>1, <2>6 DEF ToSet
        <4>2. \A i, j \in 1 .. m : repos[i] = repos[j] => i = j
          BY <1>2, <2>1 DEF IsInjective
        <4>3. \A i, j \in 1 .. m + 1 : t[i] = t[j] => i = j
          BY <3>5, <3>7, <4>1, <4>2
        <4>4. DOMAIN t = 1 .. m + 1
          BY <3>3, <3>5
        <4>5. QED
          BY <4>3, <4>4 DEF IsInjective
      <3>10. m + 1 <= Len(locations)
        BY <3>3
      <3>11. Read(system, phase', repos')
        BY <2>2, <2>4, <3>1, <3>2, <3>5, <3>8, <3>9, <3>10 DEF Read
      <3>12. QED
        BY <2>4, <3>1, <3>11, ReadNext
    <2>7. QED
      BY <2>5, <2>6
  <1>10. CASE EndOfLocations
    <2>1. PICK locations : locations = system.locations
      OBVIOUS
    <2>2. /\ phase = "repos" /\ phase' = "parent_profile" /\ locations # NoFile
          /\ Len(repos) = Len(locations) /\ repos' = repos
          /\ UNCHANGED <<setting, stack, results, system>>
      BY <1>10, <2>1 DEF EndOfLocations
    <2>3. /\ locations \in Seq(Repos)
          /\ \A i \in 1 .. Len(repos) : repos[i] = locations[i]
      BY <1>1, <1>4, <2>1, <2>2 DEF Read
    <2>4. repos = locations
      BY <1>2, <2>2, <2>3
    <2>5. repos' = Found(system)
      BY <2>1, <2>2, <2>4 DEF Found
    <2>6. Read(system, phase', repos')
      BY <1>2, <2>2, <2>5 DEF Read
    <2>7. QED
      BY <2>2, <2>6, ReadNext
  <1>11. CASE ParentProfile
    <2>1. /\ phase = "parent_profile" /\ phase' = "user_profile"
          /\ stack' = <<Call(MakeProfile, {}, <<>>)>>
          /\ UNCHANGED <<setting, results, system, repos>>
      BY <1>11 DEF ParentProfile
    <2>2. Calls(system, phase) = 0 /\ Calls(system, phase') = 1
      BY <2>1 DEF Calls
    <2>3. stack = <<>> /\ Len(results) = 0
      BY <1>1, <1>3, <2>2 DEF Made
    <2>4. repos = Found(system)
      BY <1>1, <2>1 DEF Read
    <2>5. \A f : Started(f, MakeProfile, {}, <<>>) =>
                    Asked(system, repos, Len(results) + 1, results, f)
      BY <2>3 DEF Asked
    <2>6. /\ MakeProfile \in Dirs /\ {} \in Injected /\ <<>> \in Seq(Repos)
          /\ \A p \in {} : Own(setting, p)
      BY PortageAssumption DEF Injected
    <2>7. /\ phase' \notin {"repos", "thrown"} /\ phase' # "base"
          /\ Len(results) + 1 = Calls(system, phase')
      BY <2>1, <2>2, <2>3
    <2>8. QED
      BY <2>1, <2>3, <2>4, <2>5, <2>6, <2>7, CalledNext
  <1>12. CASE ConstructUserProfile
    <2>1. /\ phase = "user_profile" /\ phase' = "base" /\ system.is_directory
          /\ stack = <<>> /\ Len(results) = 1
          /\ stack' = <<Call(UserProfile, {results[1]}, repos)>>
          /\ UNCHANGED <<setting, results, system, repos>>
      BY <1>12 DEF ConstructUserProfile, Returned
    <2>2. Len(results) + 1 = Calls(system, phase') /\ Len(results) + 1 = 2
      BY <2>1 DEF Calls
    <2>3. repos = Found(system)
      BY <1>1, <2>1 DEF Read
    <2>4. \A f : Started(f, UserProfile, {results[1]}, repos) =>
                    Asked(system, repos, Len(results) + 1, results, f)
      BY <2>1, <2>2 DEF Asked
    <2>5. results[1] \in Profiles /\ Own(setting, results[1])
      BY <1>3, <2>1
    <2>6. /\ UserProfile \in Dirs /\ {results[1]} \in Injected
          /\ \A p \in {results[1]} : Own(setting, p)
      BY <2>5, PortageAssumption DEF Injected
    <2>7. phase' \notin {"repos", "thrown"}
      BY <2>1
    <2>8. QED
      BY <1>2, <2>1, <2>2, <2>3, <2>4, <2>6, <2>7, CalledNext
  <1>13. CASE NoUserProfile
    <2>1. /\ phase = "user_profile" /\ phase' = "return" /\ ~system.is_directory
          /\ stack = <<>> /\ Len(results) = 1
          /\ stack' = <<Call(Path, {}, repos)>>
          /\ UNCHANGED <<setting, results, system, repos>>
      BY <1>13 DEF NoUserProfile, Returned
    <2>2. Len(results) + 1 = Calls(system, phase') /\ Len(results) + 1 = 2
      BY <2>1 DEF Calls
    <2>3. repos = Found(system)
      BY <1>1, <2>1 DEF Read
    <2>4. \A f : Started(f, Path, {}, repos) =>
                    Asked(system, repos, Len(results) + 1, results, f)
      BY <2>1, <2>2 DEF Asked
    <2>5. /\ Path \in Dirs /\ {} \in Injected /\ \A p \in {} : Own(setting, p)
      BY PortageAssumption DEF Injected
    <2>6. phase' \notin {"repos", "thrown"} /\ phase' # "base"
      BY <2>1
    <2>7. QED
      BY <1>2, <2>1, <2>2, <2>3, <2>4, <2>5, <2>6, CalledNext
  <1>14. CASE ConstructBase
    <2>1. /\ phase = "base" /\ phase' = "return"
          /\ stack = <<>> /\ Len(results) = 2
          /\ stack' = <<Call(Path, {results[2]}, repos)>>
          /\ UNCHANGED <<setting, results, system, repos>>
      BY <1>14 DEF ConstructBase, Returned
    <2>2. system.is_directory
      BY <1>1, <2>1 DEF Made
    <2>3. Len(results) + 1 = Calls(system, phase') /\ Len(results) + 1 = 3
      BY <2>1, <2>2 DEF Calls
    <2>4. repos = Found(system)
      BY <1>1, <2>1 DEF Read
    <2>5. \A f : Started(f, Path, {results[2]}, repos) =>
                    Asked(system, repos, Len(results) + 1, results, f)
      BY <2>3 DEF Asked
    <2>6. results[2] \in Profiles /\ Own(setting, results[2])
      BY <1>3, <2>1
    <2>7. /\ Path \in Dirs /\ {results[2]} \in Injected
          /\ \A p \in {results[2]} : Own(setting, p)
      BY <2>6, PortageAssumption DEF Injected
    <2>8. phase' \notin {"repos", "thrown"} /\ phase' # "base"
      BY <2>1
    <2>9. QED
      BY <1>2, <2>1, <2>3, <2>4, <2>5, <2>7, <2>8, CalledNext
  <1>15. QED
    BY <1>5, <1>6, <1>7, <1>8, <1>9, <1>10, <1>11, <1>12, <1>13, <1>14 DEF PNext

-----------------------------------------------------------------------------
\* A profile that has returned holds the lines of its hierarchy in depth-first order and
\* the packages that it leaves, for every hierarchy without a cycle: so does each parent
\* that a child is about to combine.
THEOREM FinishedAreCompleteAlways == PSpec => []FinishedAreComplete
  <1>1. TInv => FinishedAreComplete
    <2> SUFFICES ASSUME TInv
                 PROVE  FinishedAreComplete
      OBVIOUS
    <2>1. ASSUME results # <<>>
          PROVE  Complete(results[1])
      <3>1. /\ results \in Seq(Profiles)
            /\ Answered(setting, Concatenation, InPackages, system, repos, results)
        BY DEF TInv, Made
      <3>2. Len(results) >= 1
        BY <2>1, <3>1
      <3>3. Full(Concatenation, InPackages, results[1])
        BY <3>1, <3>2 DEF Answered
      <3>4. QED
        BY <3>3 DEF Full, Complete
    <2>2. ASSUME NEW i \in 1 .. Len(stack), stack[i].injected = {},
                 NEW n \in 1 .. Len(stack[i].parents)
          PROVE  Complete(stack[i].parents[n])
      <3>1. /\ stack \in Seq(Frames)
            /\ Waits(setting, Concatenation, InPackages, stack[i],
                     IF i < Len(stack) THEN 1 ELSE 0)
        BY DEF TInv, Tower
      <3>2. stack[i].parents \in Seq(Profiles)
        BY <3>1, FrameFields
      <3>3. n \in DOMAIN stack[i].parents
        BY <3>2
      <3>4. Whole(Concatenation, InPackages, stack[i].parents[n])
        BY <2>2, <3>1, <3>3 DEF Waits
      <3>5. QED
        BY <3>4 DEF Whole, Full, Complete
    <2>3. QED
      BY <2>1, <2>2 DEF FinishedAreComplete
  <1>2. PInit => TInv
    BY TowerInitially
  <1>3. TInv /\ [PNext]_pvars => TInv'
    BY TowerKept
  <1>4. QED
    BY <1>1, <1>2, <1>3, PTL DEF PSpec

\* Every finished profile masks what its own package.mask says, however readdir orders the
\* files: for any number of files and lines, and any repositories.
THEOREM MasksAreOwnAlways == PSpec => []MasksAreOwn
  <1>1. TInv => MasksAreOwn
    <2> SUFFICES ASSUME TInv
                 PROVE  MasksAreOwn
      OBVIOUS
    <2>1. \A profile \in ToSet(results) : OwnMasks(profile)
      <3>1. \A i \in DOMAIN results : Own(setting, results[i])
        BY DEF TInv, Made
      <3>2. \A profile \in ToSet(results) : \E i \in DOMAIN results : profile = results[i]
        BY DEF ToSet
      <3>3. QED
        BY <3>1, <3>2 DEF Own, OwnMasks, On
    <2>2. stack \in Seq(Frames) /\ DOMAIN stack = 1 .. Len(stack)
      BY DEF TInv, Tower
    <2>3. ASSUME NEW i \in DOMAIN stack
          PROVE  Waits(setting, Concatenation, InPackages, stack[i],
                       IF i < Len(stack) THEN 1 ELSE 0)
      BY <2>2 DEF TInv, Tower
    <2>4. ASSUME NEW i \in DOMAIN stack, NEW profile \in ToSet(stack[i].parents)
          PROVE  OwnMasks(profile)
      <3>1. PICK n \in DOMAIN stack[i].parents : profile = stack[i].parents[n]
        BY DEF ToSet
      <3>2. Own(setting, profile)
        BY <2>3, <3>1 DEF Waits
      <3>3. QED
        BY <3>2 DEF Own, OwnMasks, On
    <2>5. ASSUME NEW i \in DOMAIN stack, stack[i].injected = {},
                 NEW n \in DOMAIN stack[i].parents
          PROVE  stack[i].parents[n].repos = <<RepoOf[stack[i].parents[n].path]>>
      BY <2>3, <2>5 DEF Waits, Whole
    <2>6. QED
      BY <2>1, <2>4, <2>5 DEF MasksAreOwn
  <1>2. PInit => TInv
    BY TowerInitially
  <1>3. TInv /\ [PNext]_pvars => TInv'
    BY TowerKept
  <1>4. QED
    BY <1>1, <1>2, <1>3, PTL DEF PSpec

\* The profile of the system is the three levels on top of each other, or with no user's
\* profile that of its configuration directory alone, in the repositories of repos.conf:
\* for every repos.conf and every hierarchy without a cycle.
THEOREM LevelsAlways == PSpec => []Levels
  <1>1. TInv => Levels
    <2> SUFFICES ASSUME TInv, phase = "return",
                        Returned(IF system.is_directory THEN 3 ELSE 2)
                 PROVE  /\ Last(results).path = Path
                        /\ Last(results).repos = Configured /\ IsInjective(Last(results).repos)
                        /\ IF system.is_directory
                           THEN /\ Last(results).make_defaults_unevaluated =
                                       Concatenation[MakeProfile] \o <<UserProfile, Path>>
                                /\ Last(results).packages =
                                    Edited(Edited(InPackages[MakeProfile],
                                                  setting.packages[UserProfile]),
                                           setting.packages[Path])
                           ELSE Complete(Last(results))
      BY DEF Levels
    <2>1. /\ results \in Seq(Profiles) /\ setting \in Settings
          /\ Answered(setting, Concatenation, InPackages, system, repos, results)
          /\ IsInjective(repos) /\ repos = Found(system)
      BY DEF TInv, Made, Read
    <2>2. Given(Path, repos) = Configured /\ IsInjective(Given(Path, repos))
      <3>1. IsInjective(<<RepoOf[Path]>>)
        BY DEF IsInjective
      <3>2. <<Gentoo>> # <<>>
        OBVIOUS
      <3>3. QED
        BY <2>1, <3>1, <3>2 DEF Given, Configured, Found
    <2>3. CASE system.is_directory
      <3>1. Len(results) = 3 /\ Last(results) = results[3]
        BY <2>3 DEF Returned, Last
      <3>2. /\ results[1].path = MakeProfile /\ Full(Concatenation, InPackages, results[1])
            /\ results[2].path = UserProfile /\ Heir(setting, results[1], results[2])
            /\ results[3].path = Path /\ Heir(setting, results[2], results[3])
            /\ results[3].repos = Given(Path, repos)
        BY <2>1, <2>3, <3>1 DEF Answered
      <3>3. PICK l : l = Concatenation[MakeProfile]
        OBVIOUS
      <3>4. l \in Seq(Dirs) /\ UserProfile \in Dirs /\ Path \in Dirs
        BY <2>1, <3>3, SumsOfSetting, PortageAssumption DEF Sums
      <3>5. results[3].make_defaults_unevaluated = Append(Append(l, UserProfile), Path)
        BY <3>2, <3>3 DEF Full, Heir
      <3>6. Append(Append(l, UserProfile), Path) = l \o <<UserProfile, Path>>
        BY <3>4
      <3>7. results[3].packages =
                Edited(Edited(InPackages[MakeProfile], setting.packages[UserProfile]),
                       setting.packages[Path])
        BY <3>2 DEF Full, Heir
      <3>8. QED
        BY <2>2, <2>3, <3>1, <3>2, <3>3, <3>5, <3>6, <3>7
    <2>4. CASE ~system.is_directory
      <3>1. Len(results) = 2 /\ Last(results) = results[2]
        BY <2>4 DEF Returned, Last
      <3>2. /\ results[2].path = Path /\ Full(Concatenation, InPackages, results[2])
            /\ results[2].repos = Given(Path, repos)
        BY <2>1, <2>4, <3>1 DEF Answered
      <3>3. QED
        BY <2>2, <2>4, <3>1, <3>2 DEF Full, Complete
    <2>5. QED
      BY <2>3, <2>4
  <1>2. PInit => TInv
    BY TowerInitially
  <1>3. TInv /\ [PNext]_pvars => TInv'
    BY TowerKept
  <1>4. QED
    BY <1>1, <1>2, <1>3, PTL DEF PSpec
=============================================================================
