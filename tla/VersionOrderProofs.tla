------------------------- MODULE VersionOrderProofs -------------------------
(***************************************************************************)
(* Proofs about VersionOrder for all versions, of any number of components *)
(* and suffixes, and for every size of unsigned long.                      *)
(***************************************************************************)
EXTENDS VersionOrder, WellFoundedInduction, TLAPS

\* A set of natural numbers that is not empty has a least member.
LEMMA Least ==
    ASSUME NEW S, S \subseteq Nat, S # {}
    PROVE  \E m \in S : \A k \in S : m <= k
<1>1. PICK m \in S : \A k \in S : ~(<<k, m>> \in OpToRel(<, Nat))
  BY NatLessThanWellFounded, WFMin
<1>2. \A k \in S : ~(k < m)
  BY <1>1 DEF OpToRel
<1> QED
  BY <1>2

-----------------------------------------------------------------------------
(* Numbers                                                                 *)

\* The conversion of a number's digits is a natural number: the values from the first
\* digit on exist, as each one follows from the one before it.
LEMMA ValueNat ==
    ASSUME NEW digits \in Digits
    PROVE  Value(digits) \in Nat
<1>1. PICK n \in Nat : n = Len(digits)
  BY DEF Digits
<1>2. \A i \in 1 .. n : digits[i] \in Nat
  BY <1>1 DEF Digits
<1> DEFINE Fills(m) ==
        \E f \in [0 .. m -> Nat] :
            /\ f[0] = 0
            /\ \A i \in 1 .. m : f[i] = 10 * f[i - 1] + digits[i]
<1> HIDE DEF Fills
<1>3. ASSUME NEW k \in 0 .. n, ~Fills(k) PROVE FALSE
  <2>1. PICK failing : failing = {m \in 0 .. n : ~Fills(m)}
    OBVIOUS
  <2> failing # {} /\ failing \subseteq Nat
    BY <1>3, <2>1
  <2>2. PICK m \in failing : \A j \in failing : m <= j
    BY Least
  <2>5. m \in 0 .. n /\ ~Fills(m)
    BY <2>1, <2>2
  <2>3. CASE m = 0
    <3>1. [i \in 0 .. m |-> 0] \in [0 .. m -> Nat]
      OBVIOUS
    <3>2. [i \in 0 .. m |-> 0][0] = 0 /\ 1 .. m = {}
      BY <2>3
    <3> QED
      BY <2>3, <2>5, <3>1, <3>2 DEF Fills
  <2>4. CASE m > 0
    <3>1. m - 1 \in 0 .. n /\ m - 1 \notin failing
      BY <2>1, <2>2, <2>4, <2>5
    <3>2. PICK f \in [0 .. m - 1 -> Nat] :
              /\ f[0] = 0
              /\ \A i \in 1 .. m - 1 : f[i] = 10 * f[i - 1] + digits[i]
      <4>1. Fills(m - 1)
        BY <2>1, <3>1
      <4> QED
        BY <4>1 DEF Fills
    <3>3. PICK g : g = [i \in 0 .. m |-> IF i = m THEN 10 * f[m - 1] + digits[m] ELSE f[i]]
      OBVIOUS
    <3>4. 10 * f[m - 1] + digits[m] \in Nat
      <4>1. f[m - 1] \in Nat /\ digits[m] \in Nat
        BY <1>2, <2>4, <2>5, <3>2
      <4> QED
        BY <4>1
    <3>5. g \in [0 .. m -> Nat]
      BY <2>5, <3>2, <3>3, <3>4
    <3>6. g[0] = 0
      BY <2>4, <3>2, <3>3
    <3>7. ASSUME NEW i \in 1 .. m PROVE g[i] = 10 * g[i - 1] + digits[i]
      BY <2>5, <3>2, <3>3
    <3> QED
      BY <2>5, <3>5, <3>6, <3>7 DEF Fills
  <2> QED
    BY <2>3, <2>4, <2>5
<1>4. Fills(n)
  BY <1>3
<1>5. PICK f \in [0 .. n -> Nat] :
          /\ f[0] = 0
          /\ \A i \in 1 .. n : f[i] = 10 * f[i - 1] + digits[i]
  BY <1>4 DEF Fills
<1>6. f = [i \in 0 .. n |-> IF i = 0 THEN 0 ELSE 10 * f[i - 1] + digits[i]]
  BY <1>5
<1>7. PICK g : g = CHOOSE h : h = [i \in 0 .. n |->
                       IF i = 0 THEN 0 ELSE 10 * h[i - 1] + digits[i]]
  OBVIOUS
<1>8. g = [i \in 0 .. n |-> IF i = 0 THEN 0 ELSE 10 * g[i - 1] + digits[i]]
  BY <1>6, <1>7
<1>9. g[n] \in Nat
  <2>1. PICK bad : bad = {i \in 0 .. n : g[i] \notin Nat}
    OBVIOUS
  <2>2. ASSUME bad # {} PROVE FALSE
    <3> bad \subseteq Nat
      BY <2>1
    <3>1. PICK i \in bad : \A k \in bad : i <= k
      BY <2>2, Least
    <3>2. i \in 0 .. n /\ g[i] \notin Nat
      BY <2>1, <3>1
    <3>3. i # 0
      BY <1>8, <3>2
    <3>4. i - 1 \in 0 .. n /\ i - 1 \notin bad /\ i \in 1 .. n
      BY <3>1, <3>2, <3>3
    <3>5. g[i - 1] \in Nat /\ digits[i] \in Nat
      BY <1>2, <2>1, <3>4
    <3>6. g[i] = 10 * g[i - 1] + digits[i]
      BY <1>8, <3>2, <3>3
    <3> QED
      BY <3>2, <3>5, <3>6
  <2> QED
    BY <2>1, <2>2
<1>10. Value(digits) = g[n]
  BY <1>1, <1>7 DEF Value
<1> QED
  BY <1>9, <1>10

\* The zeros at the end go, and what stays begins as before.
LEMMA StripZerosFacts ==
    ASSUME NEW s \in Digits
    PROVE  /\ StripZeros(s) \in Digits
           /\ StripZeros(s) # <<>> => s # <<>> /\ StripZeros(s)[1] = s[1]
           /\ s # <<>> /\ s[1] # 0 => StripZeros(s) # <<>>
<1>1. PICK n \in Nat : n = Len(s)
  BY DEF Digits
<1>2. PICK significant : significant = {i \in DOMAIN s : s[i] # 0}
  OBVIOUS
<1>3. significant \subseteq 1 .. n
  BY <1>1, <1>2 DEF Digits
<1>4. CASE significant = {}
  <2>1. StripZeros(s) = <<>>
    BY <1>2, <1>4 DEF StripZeros
  <2>2. s # <<>> => s[1] = 0
    BY <1>1, <1>2, <1>4 DEF Digits
  <2> QED
    BY <2>1, <2>2 DEF Digits
<1>5. CASE significant # {}
  <2> DEFINE behind == {n - i : i \in significant}
  <2>1. behind # {} /\ behind \subseteq Nat
    BY <1>3, <1>5
  <2>2. PICK m \in behind : \A k \in behind : m <= k
    BY <2>1, Least
  <2>3. PICK i \in significant : m = n - i
    BY <2>2
  <2>4. \A j \in significant : j <= i
    <3>1. ASSUME NEW j \in significant PROVE j <= i
      <4>1. n - j \in behind
        OBVIOUS
      <4>2. m <= n - j
        BY <2>2, <4>1
      <4>3. i \in Int /\ j \in Int
        BY <1>3
      <4> HIDE DEF behind
      <4>4. n - i <= n - j
        BY <2>3, <4>2
      <4> QED
        BY <4>3, <4>4
    <3> QED
      BY <3>1
  <2>5. PICK last : last = CHOOSE k \in significant : \A j \in significant : j <= k
    OBVIOUS
  <2>6. last \in 1 .. n
    BY <1>3, <2>3, <2>4, <2>5
  <2>7. StripZeros(s) = SubSeq(s, 1, last)
    BY <1>2, <1>5, <2>5 DEF StripZeros
  <2>8. /\ SubSeq(s, 1, last) \in Digits /\ SubSeq(s, 1, last) # <<>>
        /\ SubSeq(s, 1, last)[1] = s[1] /\ s # <<>>
    BY <1>1, <2>6 DEF Digits
  <2> QED
    BY <2>7, <2>8
<1> QED
  BY <1>4, <1>5

-----------------------------------------------------------------------------
(* What a comparison decides                                               *)

Orders == {"less", "greater", "equal", "none", "throw"}

\* What two comparisons in a row say of the third one, from the first to the last,
\* where neither of them ends the program or decides for the greater.
Chain(a, b, c) ==
    a \in {"less", "none", "equal"} /\ b \in {"less", "none", "equal"} /\ c # "throw" =>
        /\ a = "less" \/ b = "less" => c = "less"
        /\ a # "less" /\ b # "less" => a = b /\ c = a

\* A second algorithm, for what the first one leaves undecided.
LEMMA OrChain ==
    ASSUME NEW a1, NEW b1, NEW c1, Chain(a1, b1, c1),
           NEW a2, NEW b2, NEW c2, Chain(a2, b2, c2)
    PROVE  Chain(Or(a1, a2), Or(b1, b2), Or(c1, c2))
  BY DEF Chain, Or

LEMMA OrFlip ==
    ASSUME NEW a, NEW b
    PROVE  Flip(Or(a, b)) = Or(Flip(a), Flip(b))
  BY DEF Flip, Or

\* The loops: nothing is decided, or the first position that decides.
LEMMA FirstDecidedAt ==
    ASSUME NEW orders, DOMAIN orders \subseteq Nat
    PROVE  \/ /\ FirstDecided(orders) = "none"
              /\ \A i \in DOMAIN orders : orders[i] = "none"
           \/ \E n \in DOMAIN orders :
                 /\ orders[n] # "none" /\ FirstDecided(orders) = orders[n]
                 /\ \A i \in DOMAIN orders : i < n => orders[i] = "none"
<1>1. PICK decided : decided = {i \in DOMAIN orders : orders[i] # "none"}
  OBVIOUS
<1>2. CASE decided = {}
  BY <1>1, <1>2 DEF FirstDecided
<1>3. CASE decided # {}
  <2>1. PICK m \in decided : \A k \in decided : m <= k
    BY <1>1, <1>3, Least
  <2>2. PICK n : n = CHOOSE i \in decided : \A j \in decided : i <= j
    OBVIOUS
  <2>3. n \in decided /\ \A k \in decided : n <= k
    BY <2>1, <2>2
  <2>4. FirstDecided(orders) = orders[n]
    BY <1>1, <1>3, <2>2 DEF FirstDecided
  <2>5. ASSUME NEW i \in DOMAIN orders, i < n PROVE orders[i] = "none"
    BY <1>1, <2>3, <2>5
  <2> QED
    BY <1>1, <2>3, <2>4, <2>5
<1> QED
  BY <1>2, <1>3

LEMMA FirstFlip ==
    ASSUME NEW p, NEW q, DOMAIN p \subseteq Nat, DOMAIN q = DOMAIN p,
           \A i \in DOMAIN p : q[i] = Flip(p[i])
    PROVE  FirstDecided(q) = Flip(FirstDecided(p))
<1>1. \A i \in DOMAIN p : q[i] = "none" <=> p[i] = "none"
  BY DEF Flip
<1>2. CASE \A i \in DOMAIN p : p[i] = "none"
  <2>1. FirstDecided(p) = "none" /\ FirstDecided(q) = "none"
    BY <1>1, <1>2, FirstDecidedAt
  <2> QED
    BY <2>1 DEF Flip
<1>3. CASE \E i \in DOMAIN p : p[i] # "none"
  <2>1. PICK n \in DOMAIN p :
            /\ p[n] # "none" /\ FirstDecided(p) = p[n]
            /\ \A i \in DOMAIN p : i < n => p[i] = "none"
    BY <1>3, FirstDecidedAt
  <2>2. PICK m \in DOMAIN q :
            /\ q[m] # "none" /\ FirstDecided(q) = q[m]
            /\ \A i \in DOMAIN q : i < m => q[i] = "none"
    BY <1>1, <1>3, FirstDecidedAt
  <2>3. n \in Nat /\ m \in Nat /\ ~(n < m) /\ ~(m < n)
    BY <1>1, <2>1, <2>2
  <2>4. m = n
    BY <2>3
  <2> QED
    BY <2>1, <2>2, <2>4
<1> QED
  BY <1>2, <1>3

\* The chains of the positions make a chain of the loops.
LEMMA FirstChain ==
    ASSUME NEW p, NEW q, NEW r,
           DOMAIN p \subseteq Nat, DOMAIN q = DOMAIN p, DOMAIN r = DOMAIN p,
           \A i \in DOMAIN p : Chain(p[i], q[i], r[i])
    PROVE  Chain(FirstDecided(p), FirstDecided(q), FirstDecided(r))
<1> SUFFICES ASSUME FirstDecided(p) \in {"less", "none", "equal"},
                    FirstDecided(q) \in {"less", "none", "equal"},
                    FirstDecided(r) # "throw"
             PROVE  /\ FirstDecided(p) = "less" \/ FirstDecided(q) = "less"
                       => FirstDecided(r) = "less"
                    /\ FirstDecided(p) # "less" /\ FirstDecided(q) # "less"
                       => FirstDecided(p) = FirstDecided(q) /\ FirstDecided(r) = FirstDecided(p)
  BY DEF Chain
<1>1. CASE \A i \in DOMAIN p : p[i] = "none" /\ q[i] = "none"
  <2>1. FirstDecided(p) = "none" /\ FirstDecided(q) = "none"
    BY <1>1, FirstDecidedAt
  <2>2. \A i \in DOMAIN r : r[i] \in {"none", "throw"}
    BY <1>1 DEF Chain
  <2>3. FirstDecided(r) = "none"
    BY <2>2, FirstDecidedAt
  <2> QED
    BY <2>1, <2>3
<1>2. CASE \E i \in DOMAIN p : p[i] # "none" \/ q[i] # "none"
  <2> DEFINE decided == {i \in DOMAIN p : p[i] # "none" \/ q[i] # "none"}
  <2>1. PICK n \in decided : \A k \in decided : n <= k
    BY <1>2, Least
  <2>2. n \in DOMAIN p /\ n \in Nat /\ (p[n] # "none" \/ q[n] # "none")
    BY <2>1
  <2>3. \A i \in DOMAIN p : i < n => p[i] = "none" /\ q[i] = "none"
    <3>1. ASSUME NEW i \in DOMAIN p, i < n PROVE i \notin decided
      BY <2>1, <2>2, <3>1
    <3> QED
      BY <3>1
  <2> HIDE DEF decided
  <2>4. p[n] = "none" \/ p[n] = FirstDecided(p)
    <3>1. ASSUME p[n] # "none" PROVE p[n] = FirstDecided(p)
      <4>1. PICK m \in DOMAIN p :
                /\ p[m] # "none" /\ FirstDecided(p) = p[m]
                /\ \A i \in DOMAIN p : i < m => p[i] = "none"
        BY <2>2, <3>1, FirstDecidedAt
      <4>2. m \in Nat /\ ~(m < n) /\ ~(n < m)
        BY <2>2, <2>3, <3>1, <4>1
      <4>3. m = n
        BY <2>2, <4>2
      <4> QED
        BY <4>1, <4>3
    <3> QED
      BY <3>1
  <2>5. q[n] = "none" \/ q[n] = FirstDecided(q)
    <3>1. ASSUME q[n] # "none" PROVE q[n] = FirstDecided(q)
      <4>1. PICK m \in DOMAIN q :
                /\ q[m] # "none" /\ FirstDecided(q) = q[m]
                /\ \A i \in DOMAIN q : i < m => q[i] = "none"
        BY <2>2, <3>1, FirstDecidedAt
      <4>2. m \in Nat /\ ~(m < n) /\ ~(n < m)
        BY <2>2, <2>3, <3>1, <4>1
      <4>3. m = n
        BY <2>2, <4>2
      <4> QED
        BY <4>1, <4>3
    <3> QED
      BY <3>1
  <2>6. \A i \in DOMAIN r : i < n => r[i] \in {"none", "throw"}
    BY <2>3 DEF Chain
  <2>7. r[n] \in {"less", "equal", "throw"}
    BY <2>2, <2>4, <2>5 DEF Chain
  <2>8. r[n] = FirstDecided(r)
    <3>1. PICK m \in DOMAIN r :
              /\ r[m] # "none" /\ FirstDecided(r) = r[m]
              /\ \A i \in DOMAIN r : i < m => r[i] = "none"
      BY <2>2, <2>7, FirstDecidedAt
    <3>2. m \in Nat /\ ~(m < n)
      BY <2>6, <3>1
    <3>3. ~(n < m)
      BY <2>2, <2>7, <3>1
    <3>4. m = n
      BY <2>2, <3>2, <3>3
    <3> QED
      BY <3>1, <3>4
  <2>9. Chain(p[n], q[n], r[n])
    BY <2>2
  <2> QED
    BY <2>2, <2>4, <2>5, <2>8, <2>9 DEF Chain
<1> QED
  BY <1>1, <1>2

\* A loop over the positions that both sequences have, and then what their lengths say:
\* a loop over all positions.
LEMMA OrExtended ==
    ASSUME NEW f, NEW g, NEW from \in Nat, NEW m \in Nat, from <= m + 1, NEW e,
           DOMAIN f = from .. m, DOMAIN g = Nat,
           \A i \in from .. m : g[i] = f[i],
           \A i \in Nat : i < from => g[i] = "none",
           g[m + 1] = e,
           e = "none" => \A i \in Nat : i > m => g[i] = "none"
    PROVE  Or(FirstDecided(f), e) = FirstDecided(g)
<1>1. DOMAIN f \subseteq Nat
  OBVIOUS
<1>2. CASE \E i \in DOMAIN f : f[i] # "none"
  <2>1. PICK n \in DOMAIN f :
            /\ f[n] # "none" /\ FirstDecided(f) = f[n]
            /\ \A i \in DOMAIN f : i < n => f[i] = "none"
    BY <1>1, <1>2, FirstDecidedAt
  <2>2. n \in from .. m /\ g[n] = f[n]
    BY <2>1
  <2>3. PICK k \in Nat :
            /\ g[k] # "none" /\ FirstDecided(g) = g[k]
            /\ \A i \in Nat : i < k => g[i] = "none"
    BY <2>1, <2>2, FirstDecidedAt
  <2>4. ~(n < k)
    BY <2>1, <2>2, <2>3
  <2>5. ~(k < n)
    <3>1. ASSUME k < n PROVE FALSE
      <4>1. k >= from
        BY <2>3
      <4>2. k \in from .. m
        BY <2>2, <3>1, <4>1
      <4> QED
        BY <2>1, <2>3, <3>1, <4>2
    <3> QED
      BY <3>1
  <2>6. k = n
    BY <2>2, <2>4, <2>5
  <2> QED
    BY <2>1, <2>2, <2>3, <2>6 DEF Or
<1>3. CASE \A i \in DOMAIN f : f[i] = "none"
  <2>1. FirstDecided(f) = "none"
    BY <1>1, <1>3, FirstDecidedAt
  <2>2. \A i \in Nat : i <= m => g[i] = "none"
    <3>1. ASSUME NEW i \in Nat, i <= m PROVE g[i] = "none"
      <4>1. i < from \/ i \in from .. m
        BY <3>1
      <4> QED
        BY <1>3, <4>1
    <3> QED
      BY <3>1
  <2>3. FirstDecided(g) = e
    <3>1. CASE e = "none"
      <4>1. \A i \in Nat : g[i] = "none"
        BY <2>2, <3>1
      <4> QED
        BY <3>1, <4>1, FirstDecidedAt
    <3>2. CASE e # "none"
      <4>1. PICK k \in Nat :
                /\ g[k] # "none" /\ FirstDecided(g) = g[k]
                /\ \A i \in Nat : i < k => g[i] = "none"
        BY <3>2, FirstDecidedAt
      <4>2. k > m /\ ~(m + 1 < k)
        BY <2>2, <3>2, <4>1
      <4>3. k = m + 1
        BY <4>2
      <4> QED
        BY <4>1, <4>3
    <3> QED
      BY <3>1, <3>2
  <2> QED
    BY <2>1, <2>3 DEF Or
<1> QED
  BY <1>2, <1>3

-----------------------------------------------------------------------------
(* The algorithms for a component                                          *)

\* std::string's order, for numbers: one string is less than the other, or equal.
Less(s, t) ==
    \E n \in 0 .. Len(s) :
        /\ n < Len(t) /\ \A i \in 1 .. n : s[i] = t[i]
        /\ n = Len(s) \/ s[n + 1] < t[n + 1]

LEMMA LessTotal ==
    ASSUME NEW s \in Digits, NEW t \in Digits, s # t
    PROVE  Less(s, t) <=> ~Less(t, s)
<1>1. PICK m \in Nat, n \in Nat : m = Len(s) /\ n = Len(t)
  BY DEF Digits
<1>2. /\ \A i \in 1 .. m : s[i] \in Int
      /\ \A i \in 1 .. n : t[i] \in Int
  BY <1>1 DEF Digits
<1>3. PICK differ : differ = {i \in Nat : \/ i > m \/ i > n
                                          \/ i \in 1 .. m /\ i \in 1 .. n /\ s[i] # t[i]}
  OBVIOUS
<1>4. PICK k \in differ : \A i \in differ : k <= i
  <2>1. differ \subseteq Nat /\ m + 1 \in differ
    BY <1>3
  <2> QED
    BY <2>1, Least
<1>5. k \in Nat /\ k >= 1 /\ k <= m + 1 /\ k <= n + 1
  <2>1. m + 1 \in differ /\ n + 1 \in differ
    BY <1>3
  <2>2. 0 \notin differ
    BY <1>3
  <2> QED
    BY <1>3, <1>4, <2>1, <2>2
<1>6. \A i \in 1 .. k - 1 : i <= m /\ i <= n /\ s[i] = t[i]
  <2>1. ASSUME NEW i \in 1 .. k - 1 PROVE i <= m /\ i <= n /\ s[i] = t[i]
    <3>1. i \in Nat /\ ~(k <= i)
      BY <1>5
    <3>2. i \notin differ
      BY <1>4, <3>1
    <3> QED
      BY <1>3, <3>1, <3>2
  <2> QED
    BY <2>1
<1>7. ~(k > m /\ k > n)
  <2>1. ASSUME k > m, k > n PROVE FALSE
    <3>1. m = k - 1 /\ n = k - 1
      BY <1>5, <2>1
    <3>2. \A i \in 1 .. m : s[i] = t[i]
      BY <1>6, <3>1
    <3>3. s \in [1 .. Len(s) -> 0 .. 9] /\ t \in [1 .. Len(t) -> 0 .. 9]
      BY DEF Digits
    <3>4. s = t
      BY <1>1, <3>1, <3>2, <3>3
    <3> QED
      BY <3>4
  <2> QED
    BY <2>1
<1>8. k <= m /\ k <= n => s[k] # t[k]
  BY <1>3, <1>4, <1>5
<1>9. Less(s, t) <=> k > m \/ (k <= n /\ s[k] < t[k])
  <2>1. ASSUME Less(s, t) PROVE k > m \/ (k <= n /\ s[k] < t[k])
    <3>1. PICK j \in 0 .. m :
              /\ j < n /\ \A i \in 1 .. j : s[i] = t[i]
              /\ j = m \/ s[j + 1] < t[j + 1]
      BY <1>1, <2>1 DEF Less
    <3>2. j <= k - 1
      <4>1. ASSUME k <= j PROVE FALSE
        <5>1. k <= m /\ k <= n /\ k \in 1 .. j
          BY <1>5, <3>1, <4>1
        <5> QED
          BY <1>8, <3>1, <5>1
      <4> QED
        BY <1>5, <3>1, <4>1
    <3>3. CASE j = k - 1
      BY <1>5, <3>1, <3>3
    <3>4. CASE j < k - 1
      <4>1. j + 1 \in 1 .. k - 1
        BY <1>5, <3>1, <3>4
      <4>2. j + 1 <= m /\ s[j + 1] = t[j + 1] /\ j + 1 \in 1 .. m
        BY <1>6, <4>1
      <4>3. s[j + 1] \in Int
        BY <1>2, <4>2
      <4> QED
        BY <3>1, <4>2, <4>3
    <3> QED
      BY <1>5, <3>1, <3>2, <3>3, <3>4
  <2>2. ASSUME k > m \/ (k <= n /\ s[k] < t[k]) PROVE Less(s, t)
    <3>1. PICK j \in 0 .. m : j = k - 1
      BY <1>5
    <3>2. j < n
      BY <1>5, <1>7, <2>2, <3>1
    <3>3. \A i \in 1 .. j : s[i] = t[i]
      BY <1>6, <3>1
    <3>4. j = m \/ s[j + 1] < t[j + 1]
      BY <1>5, <2>2, <3>1
    <3> QED
      BY <1>1, <3>2, <3>3, <3>4 DEF Less
  <2> QED
    BY <2>1, <2>2
<1>10. Less(t, s) <=> k > n \/ (k <= m /\ t[k] < s[k])
  <2>1. ASSUME Less(t, s) PROVE k > n \/ (k <= m /\ t[k] < s[k])
    <3>1. PICK j \in 0 .. n :
              /\ j < m /\ \A i \in 1 .. j : t[i] = s[i]
              /\ j = n \/ t[j + 1] < s[j + 1]
      BY <1>1, <2>1 DEF Less
    <3>2. j <= k - 1
      <4>1. ASSUME k <= j PROVE FALSE
        <5>1. k <= m /\ k <= n /\ k \in 1 .. j
          BY <1>5, <3>1, <4>1
        <5> QED
          BY <1>8, <3>1, <5>1
      <4> QED
        BY <1>5, <3>1, <4>1
    <3>3. CASE j = k - 1
      BY <1>5, <3>1, <3>3
    <3>4. CASE j < k - 1
      <4>1. j + 1 \in 1 .. k - 1
        BY <1>5, <3>1, <3>4
      <4>2. j + 1 <= n /\ s[j + 1] = t[j + 1] /\ j + 1 \in 1 .. n
        BY <1>6, <4>1
      <4>3. t[j + 1] \in Int
        BY <1>2, <4>2
      <4> QED
        BY <3>1, <4>2, <4>3
    <3> QED
      BY <1>5, <3>1, <3>2, <3>3, <3>4
  <2>2. ASSUME k > n \/ (k <= m /\ t[k] < s[k]) PROVE Less(t, s)
    <3>1. PICK j \in 0 .. n : j = k - 1
      BY <1>5
    <3>2. j < m
      BY <1>5, <1>7, <2>2, <3>1
    <3>3. \A i \in 1 .. j : t[i] = s[i]
      BY <1>6, <3>1
    <3>4. j = n \/ t[j + 1] < s[j + 1]
      BY <1>5, <2>2, <3>1
    <3> QED
      BY <1>1, <3>2, <3>3, <3>4 DEF Less
  <2> QED
    BY <2>1, <2>2
<1>11. k <= m /\ k <= n => s[k] \in Int /\ t[k] \in Int
  BY <1>2, <1>5
<1> QED
  BY <1>5, <1>7, <1>8, <1>9, <1>10, <1>11

LEMMA LessTransitive ==
    ASSUME NEW s \in Digits, NEW t \in Digits, NEW u \in Digits, Less(s, t), Less(t, u)
    PROVE  Less(s, u)
<1>1. PICK l \in Nat, m \in Nat, n \in Nat : l = Len(s) /\ m = Len(t) /\ n = Len(u)
  BY DEF Digits
<1>2. /\ \A i \in 1 .. l : s[i] \in Int
      /\ \A i \in 1 .. m : t[i] \in Int
      /\ \A i \in 1 .. n : u[i] \in Int
  <2>1. \A i \in 1 .. l : s[i] \in Int
    BY <1>1 DEF Digits
  <2>2. \A i \in 1 .. m : t[i] \in Int
    BY <1>1 DEF Digits
  <2>3. \A i \in 1 .. n : u[i] \in Int
    BY <1>1 DEF Digits
  <2> QED
    BY <2>1, <2>2, <2>3
<1>3. PICK j \in 0 .. l :
          /\ j < m /\ \A i \in 1 .. j : s[i] = t[i]
          /\ j = l \/ s[j + 1] < t[j + 1]
  BY <1>1 DEF Less
<1>4. PICK k \in 0 .. m :
          /\ k < n /\ \A i \in 1 .. k : t[i] = u[i]
          /\ k = m \/ t[k + 1] < u[k + 1]
  BY <1>1 DEF Less
<1>5. CASE j <= k
  <2>1. j < n /\ \A i \in 1 .. j : s[i] = u[i]
    BY <1>3, <1>4, <1>5
  <2>2. j = l \/ s[j + 1] < u[j + 1]
    <3>1. CASE j = l
      BY <3>1
    <3>2. CASE j # l
      <4>1. /\ j + 1 \in 1 .. l /\ j + 1 \in 1 .. m /\ j + 1 \in 1 .. n
            /\ s[j + 1] < t[j + 1]
        BY <1>3, <2>1, <3>2
      <4>2. t[j + 1] <= u[j + 1]
        BY <1>2, <1>3, <1>4, <1>5, <4>1
      <4> QED
        BY <1>2, <4>1, <4>2
    <3> QED
      BY <3>1, <3>2
  <2> QED
    BY <1>1, <2>1, <2>2 DEF Less
<1>6. CASE k < j
  <2>1. k \in 0 .. l /\ k < n /\ \A i \in 1 .. k : s[i] = u[i]
    BY <1>3, <1>4, <1>6
  <2>2. k + 1 \in 1 .. j /\ s[k + 1] = t[k + 1] /\ k # m
    BY <1>3, <1>4, <1>6
  <2>3. s[k + 1] < u[k + 1]
    BY <1>4, <2>2
  <2> QED
    BY <1>1, <2>1, <2>3 DEF Less
<1> QED
  BY <1>3, <1>4, <1>5, <1>6

LEMMA CompareStringIsLess ==
    ASSUME NEW s \in Digits, NEW t \in Digits
    PROVE  CompareString(s, t) = IF s = t THEN "equal" ELSE IF Less(s, t) THEN "less" ELSE "greater"
  BY DEF CompareString, Less

LEMMA StringFlip ==
    ASSUME NEW s \in Digits, NEW t \in Digits
    PROVE  Undecided(CompareString(t, s)) = Flip(Undecided(CompareString(s, t)))
<1>1. PICK a : a = CompareString(s, t)
  OBVIOUS
<1>2. PICK b : b = CompareString(t, s)
  OBVIOUS
<1>3. \/ a = "equal" /\ b = "equal"
      \/ a = "less" /\ b = "greater"
      \/ a = "greater" /\ b = "less"
  BY <1>1, <1>2, CompareStringIsLess, LessTotal
<1> QED
  BY <1>1, <1>2, <1>3 DEF Undecided, Flip

LEMMA StringChain ==
    ASSUME NEW s \in Digits, NEW t \in Digits, NEW u \in Digits
    PROVE  Chain(Undecided(CompareString(s, t)), Undecided(CompareString(t, u)),
                 Undecided(CompareString(s, u)))
<1>1. PICK a : a = CompareString(s, t)
  OBVIOUS
<1>2. PICK b : b = CompareString(t, u)
  OBVIOUS
<1>3. PICK c : c = CompareString(s, u)
  OBVIOUS
<1>4. /\ a \in {"equal", "less", "greater"} /\ (a = "equal" => s = t) /\ (a = "less" => Less(s, t))
      /\ b \in {"equal", "less", "greater"} /\ (b = "equal" => t = u) /\ (b = "less" => Less(t, u))
  BY <1>1, <1>2, CompareStringIsLess
<1>5. /\ s = u => c = "equal"
      /\ s # u /\ Less(s, u) => c = "less"
  BY <1>3, CompareStringIsLess
<1>6. a = "less" => s # t
  BY <1>1, CompareStringIsLess
<1>7. b = "less" => t # u
  BY <1>2, CompareStringIsLess
<1>8. ~(a = "less" /\ b = "less" /\ s = u)
  BY <1>4, <1>6, LessTotal
<1>9. CASE a = "less" /\ b = "less"
  BY <1>1, <1>2, <1>3, <1>4, <1>5, <1>8, <1>9, LessTransitive DEF Chain, Undecided
<1>10. CASE a = "equal"
  BY <1>1, <1>2, <1>3, <1>4, <1>5, <1>7, <1>10 DEF Chain, Undecided
<1>11. CASE b = "equal"
  BY <1>1, <1>2, <1>3, <1>4, <1>5, <1>6, <1>11 DEF Chain, Undecided
<1>12. CASE a = "greater" \/ b = "greater"
  BY <1>1, <1>2, <1>12 DEF Chain, Undecided
<1> QED
  BY <1>4, <1>9, <1>10, <1>11, <1>12

LEMMA UlongFlip ==
    ASSUME NEW s \in Digits, NEW t \in Digits
    PROVE  CompareUlong(t, s) = Flip(CompareUlong(s, t))
<1>1. Value(s) \in Nat /\ Value(t) \in Nat /\ MaxUlong \in Nat
  BY ValueNat, VersionsAssumption
<1> QED
  BY <1>1 DEF CompareUlong, CompareNat, Undecided, Flip

LEMMA UlongChain ==
    ASSUME NEW s \in Digits, NEW t \in Digits, NEW u \in Digits
    PROVE  Chain(CompareUlong(s, t), CompareUlong(t, u), CompareUlong(s, u))
<1>1. Value(s) \in Nat /\ Value(t) \in Nat /\ Value(u) \in Nat /\ MaxUlong \in Nat
  BY ValueNat, VersionsAssumption
<1> QED
  BY <1>1 DEF CompareUlong, CompareNat, Undecided, Chain

LEMMA NatFlip ==
    ASSUME NEW m \in Nat, NEW n \in Nat
    PROVE  CompareNat(n, m) = Flip(CompareNat(m, n))
  BY DEF CompareNat, Flip

Component == Digits \ {<<>>}

LEMMA ComponentFlip ==
    ASSUME NEW s \in Component, NEW t \in Component
    PROVE  algorithm_3_3(t, s) = Flip(algorithm_3_3(s, t))
<1>1. s \in Digits /\ t \in Digits /\ StripZeros(s) \in Digits /\ StripZeros(t) \in Digits
  BY StripZerosFacts DEF Component
<1> QED
  BY <1>1, StringFlip, UlongFlip DEF algorithm_3_3

\* A component that starts with 0 comes before every one that does not.
LEMMA ZeroFirst ==
    ASSUME NEW s \in Component, NEW t \in Component, s[1] = 0, t[1] # 0
    PROVE  algorithm_3_3(s, t) = "less" /\ algorithm_3_3(t, s) = "greater"
<1>1. PICK x \in Digits, y \in Digits :
          /\ x = StripZeros(s) /\ y = StripZeros(t)
          /\ y # <<>> /\ y[1] = t[1] /\ (x # <<>> => x[1] = 0)
  BY StripZerosFacts DEF Component
<1>2. Len(x) \in Nat /\ Len(y) \in Nat /\ Len(y) > 0 /\ y[1] \in 0 .. 9
      /\ (Len(x) = 0 <=> x = <<>>)
  BY <1>1 DEF Digits
<1>3. 0 \in 0 .. Len(x) /\ (\A i \in 1 .. 0 : x[i] = y[i]) /\ 0 + 1 = 1
  BY <1>2
<1>4. 0 = Len(x) \/ x[1] < y[1]
  BY <1>1, <1>2
<1>5. Less(x, y)
  BY <1>2, <1>3, <1>4 DEF Less
<1>6. x # y
  BY <1>1
<1>7. CompareString(x, y) = "less"
  BY <1>5, <1>6, CompareStringIsLess
<1>8. algorithm_3_3(s, t) = "less"
  BY <1>1, <1>7 DEF algorithm_3_3, Undecided
<1>9. algorithm_3_3(t, s) = "greater"
  BY <1>8, ComponentFlip DEF Flip
<1> QED
  BY <1>8, <1>9

LEMMA ComponentChain ==
    ASSUME NEW s \in Component, NEW t \in Component, NEW u \in Component
    PROVE  Chain(algorithm_3_3(s, t), algorithm_3_3(t, u), algorithm_3_3(s, u))
<1>1. /\ s \in Digits /\ t \in Digits /\ u \in Digits
      /\ StripZeros(s) \in Digits /\ StripZeros(t) \in Digits /\ StripZeros(u) \in Digits
  BY StripZerosFacts DEF Component
<1>2. CASE s[1] # 0 /\ t[1] # 0 /\ u[1] # 0
  BY <1>1, <1>2, UlongChain DEF algorithm_3_3
<1>3. CASE \/ t[1] = 0 /\ (s[1] = 0 \/ u[1] = 0)
           \/ s[1] = 0 /\ u[1] = 0
  BY <1>1, <1>3, StringChain DEF algorithm_3_3
<1>4. CASE s[1] = 0 /\ t[1] # 0 /\ u[1] # 0
  BY <1>4, ZeroFirst DEF Chain
<1>5. CASE s[1] # 0 /\ t[1] = 0 /\ u[1] # 0
  BY <1>5, ZeroFirst DEF Chain
<1>6. CASE s[1] # 0 /\ t[1] # 0 /\ u[1] = 0
  BY <1>6, ZeroFirst DEF Chain
<1> QED
  BY <1>2, <1>3, <1>4, <1>5, <1>6

-----------------------------------------------------------------------------
(* The algorithms for a sequence                                           *)

\* The numeric components behind the first, position by position: the shorter sequence
\* is less at the first position that it does not have.
NumberAt(s, t) == [i \in Nat |->
    IF i < 2 \/ (i > Len(s) /\ i > Len(t)) THEN "none"
    ELSE IF i > Len(s) THEN "less"
    ELSE IF i > Len(t) THEN "greater"
    ELSE algorithm_3_3(s[i], t[i])]

Numbers == Seq(Component) \ {<<>>}

LEMMA NumbersByPosition ==
    ASSUME NEW s \in Numbers, NEW t \in Numbers
    PROVE  algorithm_3_2(s, t) = Or(CompareUlong(s[1], t[1]), FirstDecided(NumberAt(s, t)))
<1>1. PICK m \in Nat, n \in Nat, k \in Nat : m = Len(s) /\ n = Len(t) /\ k = Shorter(s, t)
  BY DEF Numbers, Shorter
<1>2. m >= 1 /\ n >= 1 /\ k = IF m < n THEN m ELSE n
  BY <1>1 DEF Numbers, Shorter
<1>3. PICK f : f = [i \in 2 .. k |-> algorithm_3_3(s[i], t[i])]
  OBVIOUS
<1>4. PICK g : g = NumberAt(s, t)
  OBVIOUS
<1>5. PICK e : e = Undecided(CompareNat(m, n))
  OBVIOUS
<1>6. DOMAIN f = 2 .. k /\ DOMAIN g = Nat /\ 2 <= k + 1 /\ k + 1 \in Nat /\ 2 \in Nat
  BY <1>2, <1>3, <1>4 DEF NumberAt
<1>7. \A i \in Nat : g[i] = IF i < 2 \/ (i > m /\ i > n) THEN "none"
                            ELSE IF i > m THEN "less" ELSE IF i > n THEN "greater"
                            ELSE algorithm_3_3(s[i], t[i])
  BY <1>1, <1>4 DEF NumberAt
<1>8. \A i \in 2 .. k : g[i] = f[i]
  BY <1>2, <1>3, <1>7
<1>9. \A i \in Nat : i < 2 => g[i] = "none"
  BY <1>7
<1>10. g[k + 1] = e
  BY <1>2, <1>5, <1>6, <1>7 DEF Undecided, CompareNat
<1>11. e = "none" => \A i \in Nat : i > k => g[i] = "none"
  BY <1>2, <1>5, <1>7 DEF Undecided, CompareNat
<1>12. Or(FirstDecided(f), e) = FirstDecided(g)
  BY <1>6, <1>8, <1>9, <1>10, <1>11, OrExtended
<1> QED
  BY <1>1, <1>3, <1>4, <1>5, <1>12 DEF algorithm_3_2

LEMMA NumbersFlip ==
    ASSUME NEW s \in Numbers, NEW t \in Numbers
    PROVE  algorithm_3_2(t, s) = Flip(algorithm_3_2(s, t))
<1>1. PICK m \in Nat, n \in Nat : m = Len(s) /\ n = Len(t) /\ m >= 1 /\ n >= 1
  BY DEF Numbers
<1>2. s[1] \in Digits /\ t[1] \in Digits
  BY <1>1 DEF Numbers, Component
<1>3. ASSUME NEW i \in Nat PROVE NumberAt(t, s)[i] = Flip(NumberAt(s, t)[i])
  <2>1. CASE i < 2 \/ i > m \/ i > n
    BY <1>1, <2>1 DEF NumberAt, Flip
  <2>2. CASE ~(i < 2 \/ i > m \/ i > n)
    <3>1. s[i] \in Component /\ t[i] \in Component
      BY <1>1, <2>2 DEF Numbers
    <3>2. /\ NumberAt(t, s)[i] = algorithm_3_3(t[i], s[i])
          /\ NumberAt(s, t)[i] = algorithm_3_3(s[i], t[i])
      BY <1>1, <2>2 DEF NumberAt
    <3> QED
      BY <3>1, <3>2, ComponentFlip
  <2> QED
    BY <2>1, <2>2
<1>4. DOMAIN NumberAt(s, t) = Nat /\ DOMAIN NumberAt(t, s) = Nat
  BY DEF NumberAt
<1>5. FirstDecided(NumberAt(t, s)) = Flip(FirstDecided(NumberAt(s, t)))
  BY <1>3, <1>4, FirstFlip
<1>6. CompareUlong(t[1], s[1]) = Flip(CompareUlong(s[1], t[1]))
  BY <1>2, UlongFlip
<1> QED
  BY <1>5, <1>6, NumbersByPosition, OrFlip

LEMMA NumbersChain ==
    ASSUME NEW s \in Numbers, NEW t \in Numbers, NEW u \in Numbers
    PROVE  Chain(algorithm_3_2(s, t), algorithm_3_2(t, u), algorithm_3_2(s, u))
<1>1. PICK l \in Nat, m \in Nat, n \in Nat :
          /\ l = Len(s) /\ m = Len(t) /\ n = Len(u) /\ l >= 1 /\ m >= 1 /\ n >= 1
  BY DEF Numbers
<1>2. s[1] \in Digits /\ t[1] \in Digits /\ u[1] \in Digits
  BY <1>1 DEF Numbers, Component
<1>3. ASSUME NEW i \in Nat
      PROVE  Chain(NumberAt(s, t)[i], NumberAt(t, u)[i], NumberAt(s, u)[i])
  <2>1. /\ NumberAt(s, t)[i] = IF i < 2 \/ (i > l /\ i > m) THEN "none"
                               ELSE IF i > l THEN "less" ELSE IF i > m THEN "greater"
                               ELSE algorithm_3_3(s[i], t[i])
        /\ NumberAt(t, u)[i] = IF i < 2 \/ (i > m /\ i > n) THEN "none"
                               ELSE IF i > m THEN "less" ELSE IF i > n THEN "greater"
                               ELSE algorithm_3_3(t[i], u[i])
        /\ NumberAt(s, u)[i] = IF i < 2 \/ (i > l /\ i > n) THEN "none"
                               ELSE IF i > l THEN "less" ELSE IF i > n THEN "greater"
                               ELSE algorithm_3_3(s[i], u[i])
    BY <1>1 DEF NumberAt
  <2>2. CASE i < 2 \/ i > l \/ i > m \/ i > n
    BY <2>1, <2>2 DEF Chain
  <2>3. CASE ~(i < 2 \/ i > l \/ i > m \/ i > n)
    <3>1. s[i] \in Component /\ t[i] \in Component /\ u[i] \in Component
      BY <1>1, <2>3 DEF Numbers
    <3> QED
      BY <2>1, <2>3, <3>1, ComponentChain
  <2> QED
    BY <2>2, <2>3
<1>4. DOMAIN NumberAt(s, t) = Nat /\ DOMAIN NumberAt(t, u) = Nat /\ DOMAIN NumberAt(s, u) = Nat
  BY DEF NumberAt
<1>5. Chain(FirstDecided(NumberAt(s, t)), FirstDecided(NumberAt(t, u)),
            FirstDecided(NumberAt(s, u)))
  BY <1>3, <1>4, FirstChain
<1>6. Chain(CompareUlong(s[1], t[1]), CompareUlong(t[1], u[1]), CompareUlong(s[1], u[1]))
  BY <1>2, UlongChain
<1> QED
  BY <1>5, <1>6, NumbersByPosition, OrChain

LEMMA LetterFlip ==
    ASSUME NEW l \in Nat, NEW m \in Nat
    PROVE  algorithm_3_4(m, l) = Flip(algorithm_3_4(l, m))
  BY DEF algorithm_3_4, CompareNat, Flip, NoLetter

LEMMA LetterChain ==
    ASSUME NEW l \in Nat, NEW m \in Nat, NEW n \in Nat
    PROVE  Chain(algorithm_3_4(l, m), algorithm_3_4(m, n), algorithm_3_4(l, n))
  BY DEF algorithm_3_4, CompareNat, Chain, NoLetter

\* The words of suffixes have different ranks.
LEMMA RankFacts ==
    ASSUME NEW x \in VersionSuffix, NEW y \in VersionSuffix
    PROVE  /\ WordRank(x.word) \in Nat /\ WordRank(y.word) \in Nat
           /\ WordRank(x.word) = WordRank(y.word) <=> x.word = y.word
<1>1. \A w \in ToSet(Words) : WordRank(w) \in DOMAIN Words /\ Words[WordRank(w)] = w
  BY DEF WordRank, ToSet
<1>2. DOMAIN Words \subseteq Nat
  BY DEF Words
<1>3. x.word \in ToSet(Words) /\ y.word \in ToSet(Words)
  BY DEF VersionSuffix
<1> QED
  BY <1>1, <1>2, <1>3

LEMMA SuffixFlip ==
    ASSUME NEW x \in VersionSuffix, NEW y \in VersionSuffix
    PROVE  algorithm_3_6(y, x) = Flip(algorithm_3_6(x, y))
<1>1. x.number \in Digits /\ y.number \in Digits
  BY DEF VersionSuffix
<1> QED
  BY <1>1, RankFacts, NatFlip, StringFlip DEF algorithm_3_6

LEMMA SuffixChain ==
    ASSUME NEW x \in VersionSuffix, NEW y \in VersionSuffix, NEW z \in VersionSuffix
    PROVE  Chain(algorithm_3_6(x, y), algorithm_3_6(y, z), algorithm_3_6(x, z))
<1>1. x.number \in Digits /\ y.number \in Digits /\ z.number \in Digits
  BY DEF VersionSuffix
<1>2. PICK a \in Nat, b \in Nat, c \in Nat :
          /\ a = WordRank(x.word) /\ b = WordRank(y.word) /\ c = WordRank(z.word)
          /\ a = b <=> x.word = y.word
          /\ b = c <=> y.word = z.word
          /\ a = c <=> x.word = z.word
  BY RankFacts
<1>3. CASE a = b /\ b = c
  BY <1>1, <1>2, <1>3, StringChain DEF algorithm_3_6
<1>4. CASE a # b \/ b # c
  BY <1>2, <1>4 DEF algorithm_3_6, CompareNat, Chain, Undecided
<1> QED
  BY <1>3, <1>4

\* No suffix is later than _p.
LEMMA PIsLast ==
    ASSUME NEW x \in VersionSuffix, NEW y \in VersionSuffix
    PROVE  /\ x.word # "p" /\ y.word = "p" => algorithm_3_6(x, y) = "less"
           /\ algorithm_3_6(x, y) \in {"less", "none", "equal"} => x.word # "p" \/ y.word = "p"
<1>1. \A w \in ToSet(Words) : WordRank(w) \in 1 .. 5 /\ Words[WordRank(w)] = w
  BY DEF WordRank, ToSet, Words
<1>2. Words[5] = "p" /\ \A i \in 1 .. 4 : Words[i] # "p"
  BY DEF Words
<1>3. \A w \in ToSet(Words) : IF w = "p" THEN WordRank(w) = 5 ELSE WordRank(w) \in 1 .. 4
  BY <1>1, <1>2
<1>4. x.word \in ToSet(Words) /\ y.word \in ToSet(Words)
  BY DEF VersionSuffix
<1>5. PICK a \in Nat, b \in Nat : a = WordRank(x.word) /\ b = WordRank(y.word)
  BY RankFacts
<1>6. /\ IF x.word = "p" THEN a = 5 ELSE a \in 1 .. 4
      /\ IF y.word = "p" THEN b = 5 ELSE b \in 1 .. 4
  BY <1>3, <1>4, <1>5
<1> QED
  BY <1>5, <1>6 DEF algorithm_3_6, CompareNat

\* The suffixes, position by position: _p comes after the end of the shorter sequence,
\* any other suffix before it.
SuffixAt(s, t) == [i \in Nat |->
    IF i < 1 \/ (i > Len(s) /\ i > Len(t)) THEN "none"
    ELSE IF i > Len(s) THEN IF t[i].word = "p" THEN "less" ELSE "greater"
    ELSE IF i > Len(t) THEN IF s[i].word = "p" THEN "greater" ELSE "less"
    ELSE algorithm_3_6(s[i], t[i])]

LEMMA SuffixesByPosition ==
    ASSUME NEW s \in Seq(VersionSuffix), NEW t \in Seq(VersionSuffix)
    PROVE  algorithm_3_5(s, t) = FirstDecided(SuffixAt(s, t))
<1>1. PICK m \in Nat, n \in Nat, k \in Nat : m = Len(s) /\ n = Len(t) /\ k = Shorter(s, t)
  BY DEF Shorter
<1>2. k = IF m < n THEN m ELSE n
  BY <1>1 DEF Shorter
<1>3. PICK f : f = [i \in 1 .. k |-> algorithm_3_6(s[i], t[i])]
  OBVIOUS
<1>4. PICK g : g = SuffixAt(s, t)
  OBVIOUS
<1>5. PICK e : e = IF m < n THEN IF t[m + 1].word = "p" THEN "less" ELSE "greater"
                   ELSE IF m > n THEN IF s[n + 1].word = "p" THEN "greater" ELSE "less"
                   ELSE "none"
  OBVIOUS
<1>6. DOMAIN f = 1 .. k /\ DOMAIN g = Nat /\ 1 <= k + 1 /\ k + 1 \in Nat /\ 1 \in Nat
  BY <1>2, <1>3, <1>4 DEF SuffixAt
<1>7. \A i \in Nat :
          g[i] = IF i < 1 \/ (i > m /\ i > n) THEN "none"
                 ELSE IF i > m THEN IF t[i].word = "p" THEN "less" ELSE "greater"
                 ELSE IF i > n THEN IF s[i].word = "p" THEN "greater" ELSE "less"
                 ELSE algorithm_3_6(s[i], t[i])
  BY <1>1, <1>4 DEF SuffixAt
<1>8. \A i \in 1 .. k : g[i] = f[i]
  BY <1>2, <1>3, <1>7
<1>9. \A i \in Nat : i < 1 => g[i] = "none"
  BY <1>7
<1>10. g[k + 1] = e
  BY <1>2, <1>5, <1>6, <1>7
<1>11. e = "none" => \A i \in Nat : i > k => g[i] = "none"
  BY <1>2, <1>5, <1>7
<1>12. Or(FirstDecided(f), e) = FirstDecided(g)
  <2>1. PICK from \in Nat : from = 1
    OBVIOUS
  <2>2. from <= k + 1 /\ DOMAIN f = from .. k
    BY <1>6, <2>1
  <2>3. \A i \in from .. k : g[i] = f[i]
    BY <1>8, <2>1
  <2>5. DOMAIN g = Nat
    BY <1>6
  <2>4. \A i \in Nat : i < from => g[i] = "none"
    BY <1>9, <2>1
  <2> QED
    BY <1>10, <1>11, <2>2, <2>3, <2>4, <2>5, OrExtended
<1> QED
  BY <1>1, <1>3, <1>4, <1>5, <1>12 DEF algorithm_3_5

LEMMA SuffixesFlip ==
    ASSUME NEW s \in Seq(VersionSuffix), NEW t \in Seq(VersionSuffix)
    PROVE  algorithm_3_5(t, s) = Flip(algorithm_3_5(s, t))
<1>1. PICK m \in Nat, n \in Nat : m = Len(s) /\ n = Len(t)
  OBVIOUS
<1>2. ASSUME NEW i \in Nat PROVE SuffixAt(t, s)[i] = Flip(SuffixAt(s, t)[i])
  <2>1. CASE i < 1 \/ i > m \/ i > n
    BY <1>1, <2>1 DEF SuffixAt, Flip
  <2>2. CASE ~(i < 1 \/ i > m \/ i > n)
    <3>1. s[i] \in VersionSuffix /\ t[i] \in VersionSuffix
      BY <1>1, <2>2
    <3>2. /\ SuffixAt(t, s)[i] = algorithm_3_6(t[i], s[i])
          /\ SuffixAt(s, t)[i] = algorithm_3_6(s[i], t[i])
      BY <1>1, <2>2 DEF SuffixAt
    <3> QED
      BY <3>1, <3>2, SuffixFlip
  <2> QED
    BY <2>1, <2>2
<1>3. DOMAIN SuffixAt(s, t) = Nat /\ DOMAIN SuffixAt(t, s) = Nat
  BY DEF SuffixAt
<1> QED
  BY <1>2, <1>3, FirstFlip, SuffixesByPosition

LEMMA SuffixesChain ==
    ASSUME NEW s \in Seq(VersionSuffix), NEW t \in Seq(VersionSuffix), NEW u \in Seq(VersionSuffix)
    PROVE  Chain(algorithm_3_5(s, t), algorithm_3_5(t, u), algorithm_3_5(s, u))
<1>1. PICK l \in Nat, m \in Nat, n \in Nat : l = Len(s) /\ m = Len(t) /\ n = Len(u)
  OBVIOUS
<1>2. ASSUME NEW i \in Nat
      PROVE  Chain(SuffixAt(s, t)[i], SuffixAt(t, u)[i], SuffixAt(s, u)[i])
  <2>1. /\ SuffixAt(s, t)[i] =
               IF i < 1 \/ (i > l /\ i > m) THEN "none"
               ELSE IF i > l THEN IF t[i].word = "p" THEN "less" ELSE "greater"
               ELSE IF i > m THEN IF s[i].word = "p" THEN "greater" ELSE "less"
               ELSE algorithm_3_6(s[i], t[i])
        /\ SuffixAt(t, u)[i] =
               IF i < 1 \/ (i > m /\ i > n) THEN "none"
               ELSE IF i > m THEN IF u[i].word = "p" THEN "less" ELSE "greater"
               ELSE IF i > n THEN IF t[i].word = "p" THEN "greater" ELSE "less"
               ELSE algorithm_3_6(t[i], u[i])
        /\ SuffixAt(s, u)[i] =
               IF i < 1 \/ (i > l /\ i > n) THEN "none"
               ELSE IF i > l THEN IF u[i].word = "p" THEN "less" ELSE "greater"
               ELSE IF i > n THEN IF s[i].word = "p" THEN "greater" ELSE "less"
               ELSE algorithm_3_6(s[i], u[i])
    BY <1>1 DEF SuffixAt
  <2>2. CASE i < 1
    BY <2>1, <2>2 DEF Chain
  <2>3. CASE ~(i < 1) /\ i <= l /\ i <= m /\ i <= n
    <3>1. s[i] \in VersionSuffix /\ t[i] \in VersionSuffix /\ u[i] \in VersionSuffix
      BY <1>1, <2>3
    <3> QED
      BY <2>1, <2>3, <3>1, SuffixChain
  <2>4. CASE ~(i < 1) /\ i <= l /\ i <= m /\ i > n
    <3>1. s[i] \in VersionSuffix /\ t[i] \in VersionSuffix
      BY <1>1, <2>4
    <3>2. algorithm_3_6(s[i], t[i]) \in {"less", "none", "equal"} =>
              s[i].word # "p" \/ t[i].word = "p"
      BY <3>1, PIsLast
    <3> QED
      BY <2>1, <2>4, <3>2 DEF Chain
  <2>5. CASE ~(i < 1) /\ i > l /\ i <= m /\ i <= n
    <3>1. t[i] \in VersionSuffix /\ u[i] \in VersionSuffix
      BY <1>1, <2>5
    <3>2. algorithm_3_6(t[i], u[i]) \in {"less", "none", "equal"} =>
              t[i].word # "p" \/ u[i].word = "p"
      BY <3>1, PIsLast
    <3> QED
      BY <2>1, <2>5, <3>2 DEF Chain
  <2>6. CASE ~(i < 1) /\ i <= l /\ i > m /\ i <= n
    <3>1. s[i] \in VersionSuffix /\ u[i] \in VersionSuffix
      BY <1>1, <2>6
    <3>2. s[i].word # "p" /\ u[i].word = "p" => algorithm_3_6(s[i], u[i]) = "less"
      BY <3>1, PIsLast
    <3> QED
      BY <2>1, <2>6, <3>2 DEF Chain
  <2>7. CASE ~(i < 1) /\ ((i > l /\ i > m) \/ (i > m /\ i > n) \/ (i > l /\ i > n))
    BY <2>1, <2>7 DEF Chain
  <2> QED
    BY <2>2, <2>3, <2>4, <2>5, <2>6, <2>7
<1>3. DOMAIN SuffixAt(s, t) = Nat /\ DOMAIN SuffixAt(t, u) = Nat /\ DOMAIN SuffixAt(s, u) = Nat
  BY DEF SuffixAt
<1> QED
  BY <1>2, <1>3, FirstChain, SuffixesByPosition

-----------------------------------------------------------------------------
(* Version::compare_impl                                                   *)

Version == [numbers : Numbers, letter : Nat, suffixes : Seq(VersionSuffix), revision : Digits]

\* What compare_impl decides, or leaves open.
Decided(v, w, revision) ==
    Or(algorithm_3_2(v.numbers, w.numbers),
    Or(algorithm_3_4(v.letter, w.letter),
    Or(algorithm_3_5(v.suffixes, w.suffixes),
       IF revision THEN algorithm_3_7(Revision(v), Revision(w)) ELSE "none")))

LEMMA CompareIsDecided ==
    ASSUME NEW v, NEW w, NEW revision \in BOOLEAN
    PROVE  compare_impl(v, w, revision)
             = IF Decided(v, w, revision) = "none" THEN "equal" ELSE Decided(v, w, revision)
  BY DEF compare_impl, Decided

LEMMA VersionFacts ==
    ASSUME NEW v \in Version
    PROVE  /\ v.numbers \in Numbers /\ v.letter \in Nat /\ v.suffixes \in Seq(VersionSuffix)
           /\ Revision(v) \in Digits
<1>1. <<0>> \in Digits
  BY DEF Digits
<1>2. v.revision \in Digits
  BY DEF Version
<1> QED
  BY <1>1, <1>2 DEF Version, Revision

LEMMA VersionsAreVersions == Versions \subseteq Version
  BY VersionsAssumption DEF Version, Numbers, Component

LEMMA DecidedFlip ==
    ASSUME NEW v \in Version, NEW w \in Version, NEW revision \in BOOLEAN
    PROVE  Decided(w, v, revision) = Flip(Decided(v, w, revision))
<1>1. algorithm_3_2(w.numbers, v.numbers) = Flip(algorithm_3_2(v.numbers, w.numbers))
  BY VersionFacts, NumbersFlip
<1>2. algorithm_3_4(w.letter, v.letter) = Flip(algorithm_3_4(v.letter, w.letter))
  BY VersionFacts, LetterFlip
<1>3. algorithm_3_5(w.suffixes, v.suffixes) = Flip(algorithm_3_5(v.suffixes, w.suffixes))
  BY VersionFacts, SuffixesFlip
<1>4. PICK a, b :
          /\ a = IF revision THEN algorithm_3_7(Revision(v), Revision(w)) ELSE "none"
          /\ b = IF revision THEN algorithm_3_7(Revision(w), Revision(v)) ELSE "none"
  OBVIOUS
<1>5. b = Flip(a)
  <2>1. CASE revision
    BY <1>4, <2>1, VersionFacts, UlongFlip DEF algorithm_3_7
  <2>2. CASE ~revision
    BY <1>4, <2>2 DEF Flip
  <2> QED
    BY <2>1, <2>2
<1> QED
  BY <1>1, <1>2, <1>3, <1>4, <1>5, OrFlip DEF Decided

LEMMA CompareFlip ==
    ASSUME NEW v \in Version, NEW w \in Version, NEW revision \in BOOLEAN
    PROVE  compare_impl(w, v, revision) = Flip(compare_impl(v, w, revision))
<1>1. PICK a, b : a = Decided(v, w, revision) /\ b = Decided(w, v, revision)
  OBVIOUS
<1>2. b = Flip(a)
  BY <1>1, DecidedFlip
<1>3. /\ compare_impl(v, w, revision) = IF a = "none" THEN "equal" ELSE a
      /\ compare_impl(w, v, revision) = IF b = "none" THEN "equal" ELSE b
  BY <1>1, CompareIsDecided
<1> QED
  BY <1>2, <1>3 DEF Flip

LEMMA DecidedChain ==
    ASSUME NEW u \in Version, NEW v \in Version, NEW w \in Version
    PROVE  Chain(Decided(u, v, TRUE), Decided(v, w, TRUE), Decided(u, w, TRUE))
<1>1. Chain(algorithm_3_2(u.numbers, v.numbers), algorithm_3_2(v.numbers, w.numbers),
            algorithm_3_2(u.numbers, w.numbers))
  BY VersionFacts, NumbersChain
<1>2. Chain(algorithm_3_4(u.letter, v.letter), algorithm_3_4(v.letter, w.letter),
            algorithm_3_4(u.letter, w.letter))
  BY VersionFacts, LetterChain
<1>3. Chain(algorithm_3_5(u.suffixes, v.suffixes), algorithm_3_5(v.suffixes, w.suffixes),
            algorithm_3_5(u.suffixes, w.suffixes))
  BY VersionFacts, SuffixesChain
<1>4. Chain(algorithm_3_7(Revision(u), Revision(v)), algorithm_3_7(Revision(v), Revision(w)),
            algorithm_3_7(Revision(u), Revision(w)))
  BY VersionFacts, UlongChain DEF algorithm_3_7
<1>5. \A x, y : Decided(x, y, TRUE) =
          Or(algorithm_3_2(x.numbers, y.numbers),
          Or(algorithm_3_4(x.letter, y.letter),
          Or(algorithm_3_5(x.suffixes, y.suffixes), algorithm_3_7(Revision(x), Revision(y)))))
  BY DEF Decided
<1>6. Chain(Or(algorithm_3_5(u.suffixes, v.suffixes), algorithm_3_7(Revision(u), Revision(v))),
            Or(algorithm_3_5(v.suffixes, w.suffixes), algorithm_3_7(Revision(v), Revision(w))),
            Or(algorithm_3_5(u.suffixes, w.suffixes), algorithm_3_7(Revision(u), Revision(w))))
  BY <1>3, <1>4, OrChain
<1>7. PICK a, b, c :
          /\ a = Or(algorithm_3_5(u.suffixes, v.suffixes), algorithm_3_7(Revision(u), Revision(v)))
          /\ b = Or(algorithm_3_5(v.suffixes, w.suffixes), algorithm_3_7(Revision(v), Revision(w)))
          /\ c = Or(algorithm_3_5(u.suffixes, w.suffixes), algorithm_3_7(Revision(u), Revision(w)))
  OBVIOUS
<1>8. Chain(Or(algorithm_3_4(u.letter, v.letter), a), Or(algorithm_3_4(v.letter, w.letter), b),
            Or(algorithm_3_4(u.letter, w.letter), c))
  BY <1>2, <1>6, <1>7, OrChain
<1>9. PICK l, m, n :
          /\ l = Or(algorithm_3_4(u.letter, v.letter), a)
          /\ m = Or(algorithm_3_4(v.letter, w.letter), b)
          /\ n = Or(algorithm_3_4(u.letter, w.letter), c)
  OBVIOUS
<1>10. Chain(Or(algorithm_3_2(u.numbers, v.numbers), l), Or(algorithm_3_2(v.numbers, w.numbers), m),
             Or(algorithm_3_2(u.numbers, w.numbers), n))
  BY <1>1, <1>8, <1>9, OrChain
<1> QED
  BY <1>5, <1>7, <1>9, <1>10

\* The order is total, up to the comparisons that end the program.
LEMMA AtMostChain ==
    ASSUME NEW u \in Version, NEW v \in Version, NEW w \in Version,
           AtMost(u, v), AtMost(v, w), Spaceship(u, w) # "throw"
    PROVE  IF Spaceship(u, v) = "less" \/ Spaceship(v, w) = "less"
           THEN Spaceship(u, w) = "less" ELSE Spaceship(u, w) = "equal"
<1>1. PICK a, b, c :
          a = Decided(u, v, TRUE) /\ b = Decided(v, w, TRUE) /\ c = Decided(u, w, TRUE)
  OBVIOUS
<1>2. Chain(a, b, c)
  BY <1>1, DecidedChain
<1>3. /\ Spaceship(u, v) = IF a = "none" THEN "equal" ELSE a
      /\ Spaceship(v, w) = IF b = "none" THEN "equal" ELSE b
      /\ Spaceship(u, w) = IF c = "none" THEN "equal" ELSE c
  BY <1>1, CompareIsDecided DEF Spaceship
<1>4. a \in {"less", "none", "equal"} /\ b \in {"less", "none", "equal"} /\ c # "throw"
  BY <1>3 DEF AtMost
<1> QED
  BY <1>2, <1>3, <1>4 DEF Chain

-----------------------------------------------------------------------------
(* The choice of ebuilds                                                   *)

\* The answer is the one that test_version gives for the versions at hand.
IInv ==
    /\ ebuild \in Versions /\ version \in Versions
    /\ answer \in {"yes", "no"} =>
          /\ asked \in Selectors /\ ~Terminates(asked, version, ebuild)
          /\ answer = "yes" <=> test_version(asked, version, ebuild)

LEMMA InitIInv == Init => IInv
  BY DEF Init, IInv

LEMMA NextIInv == IInv /\ [Next]_vars => IInv'
<1> SUFFICES ASSUME IInv, [Next]_vars PROVE IInv'
  OBVIOUS
<1>1. ASSUME NEW s \in Selectors, Ask(s) PROVE IInv'
  <2>1. /\ ebuild' = ebuild /\ version' = version /\ asked' = s
        /\ answer' = IF Terminates(s, version, ebuild) THEN "terminate"
                     ELSE IF test_version(s, version, ebuild) THEN "yes" ELSE "no"
    BY <1>1 DEF Ask
  <2> QED
    BY <2>1 DEF IInv
<1>2. CASE UNCHANGED vars
  BY <1>2 DEF IInv, vars
<1> QED
  BY <1>1, <1>2 DEF Next

\* Comparing the other way round yields the opposite, and a comparison that ends the
\* program does so in both directions, whatever components, letters, suffixes and
\* revisions the versions have.
THEOREM DualAlways == Spec => []Dual
<1>1. IInv => Dual
  <2> SUFFICES ASSUME IInv PROVE Dual
    OBVIOUS
  <2>1. ebuild \in Version /\ version \in Version
    BY VersionsAreVersions DEF IInv
  <2> QED
    BY <2>1, CompareFlip DEF Dual, Spaceship, Td
<1> QED
  BY InitIInv, NextIInv, <1>1, PTL DEF Spec

\* operator<=> is transitive for all versions, although it compares some components as
\* integers and some as strings, depending on both, and although a letter ends it.
THEOREM TransitiveAlways == Spec => []Transitive
<1>1. IInv => Transitive
  <2> SUFFICES ASSUME IInv PROVE Transitive
    OBVIOUS
  <2>1. ebuild \in Version /\ version \in Version
    BY VersionsAreVersions DEF IInv
  <2>2. \A w \in Versions : w \in Version
    BY VersionsAreVersions
  <2> QED
    BY <2>1, <2>2, AtMostChain DEF Transitive
<1> QED
  BY InitIInv, NextIInv, <1>1, PTL DEF Spec

\* Whatever is compared, the result is one of the orders.
LEMMA DecidedOrders ==
    ASSUME NEW v \in Version, NEW w \in Version, NEW revision \in BOOLEAN
    PROVE  Decided(v, w, revision) \in Orders
<1>1. ASSUME NEW f, DOMAIN f \subseteq Nat, \A i \in DOMAIN f : f[i] \in Orders
      PROVE  FirstDecided(f) \in Orders
  BY <1>1, FirstDecidedAt DEF Orders
<1>2. \A a \in Orders, b \in Orders : Or(a, b) \in Orders
  BY DEF Or, Orders
<1>3. \A s, t : CompareUlong(s, t) \in Orders /\ Undecided(CompareString(s, t)) \in Orders
  BY DEF CompareUlong, CompareNat, CompareString, Undecided, Orders
<1>4. \A s, t : algorithm_3_3(s, t) \in Orders
  BY <1>3 DEF algorithm_3_3
<1>5. \A m, n : CompareNat(m, n) \in Orders
  BY DEF CompareNat, Orders
<1>6. \A x, y : algorithm_3_6(x, y) \in Orders
  BY <1>3, <1>5 DEF algorithm_3_6
<1>7. algorithm_3_2(v.numbers, w.numbers) \in Orders
  <2>1. PICK g : g = NumberAt(v.numbers, w.numbers)
    OBVIOUS
  <2>2. DOMAIN g = Nat /\ \A i \in Nat : g[i] \in Orders
    BY <1>4, <2>1 DEF NumberAt, Orders
  <2>3. FirstDecided(g) \in Orders
    BY <1>1, <2>2
  <2>4. algorithm_3_2(v.numbers, w.numbers)
          = Or(CompareUlong(v.numbers[1], w.numbers[1]), FirstDecided(g))
    BY <2>1, VersionFacts, NumbersByPosition
  <2> QED
    BY <1>2, <1>3, <2>3, <2>4
<1>8. algorithm_3_4(v.letter, w.letter) \in Orders
  BY <1>5 DEF algorithm_3_4, Orders
<1>9. algorithm_3_5(v.suffixes, w.suffixes) \in Orders
  <2>1. PICK g : g = SuffixAt(v.suffixes, w.suffixes)
    OBVIOUS
  <2>2. DOMAIN g = Nat /\ \A i \in Nat : g[i] \in Orders
    BY <1>6, <2>1 DEF SuffixAt, Orders
  <2>3. FirstDecided(g) \in Orders
    BY <1>1, <2>2
  <2> QED
    BY <2>1, <2>3, VersionFacts, SuffixesByPosition
<1>10. PICK r \in Orders : r = IF revision THEN algorithm_3_7(Revision(v), Revision(w)) ELSE "none"
  BY <1>3 DEF algorithm_3_7, Orders
<1>11. Or(algorithm_3_5(v.suffixes, w.suffixes), r) \in Orders
  BY <1>2, <1>9, <1>10
<1>12. Or(algorithm_3_4(v.letter, w.letter), Or(algorithm_3_5(v.suffixes, w.suffixes), r)) \in Orders
  BY <1>2, <1>8, <1>11
<1> QED
  BY <1>2, <1>7, <1>10, <1>12 DEF Decided

\* With the revisions and without them: the same unless only the revisions decide.
LEMMA RevisionDecides ==
    ASSUME NEW v \in Version, NEW w \in Version
    PROVE  Decided(v, w, TRUE)
             = Or(Decided(v, w, FALSE), CompareUlong(Revision(v), Revision(w)))
<1>1. \A a, b, c, r : Or(a, Or(b, Or(c, r))) = Or(Or(a, Or(b, Or(c, "none"))), r)
  BY DEF Or
<1> QED
  BY <1>1 DEF Decided, algorithm_3_7

\* What an atom selects by one operator agrees with what it selects by the others, for
\* all versions.
THEOREM SelectorsAgreeAlways == Spec => []SelectorsAgree
<1>1. IInv => SelectorsAgree
  <2> SUFFICES ASSUME IInv, answer \in {"yes", "no"} PROVE SelectorsAgree
    BY DEF SelectorsAgree
  <2>1. ebuild \in Version /\ version \in Version
    BY VersionsAreVersions DEF IInv
  <2>2. PICK full, partial :
            /\ full = Spaceship(ebuild, version)
            /\ partial = Td(ebuild, version)
    OBVIOUS
  <2>3. PICK x \in Orders, r \in Orders :
            /\ partial = IF x = "none" THEN "equal" ELSE x
            /\ full = IF Or(x, r) = "none" THEN "equal" ELSE Or(x, r)
            /\ r = CompareUlong(Revision(ebuild), Revision(version))
    <3>1. CompareUlong(Revision(ebuild), Revision(version)) \in Orders
      BY DEF CompareUlong, CompareNat, Undecided, Orders
    <3>2. Decided(ebuild, version, FALSE) \in Orders
      BY <2>1, DecidedOrders
    <3> QED
      BY <2>1, <2>2, <3>1, <3>2, CompareIsDecided, RevisionDecides DEF Spaceship, Td
  <2>4. r # "equal" /\ (Revision(version) = Revision(ebuild) => r \in {"none", "throw"})
    <3>1. Value(Revision(version)) \in Nat /\ Value(Revision(ebuild)) \in Nat
      BY <2>1, VersionFacts, ValueNat
    <3> QED
      BY <2>3, <3>1 DEF CompareUlong, CompareNat, Undecided
  <2>5. /\ test_version("lt", version, ebuild) <=> full = "less"
        /\ test_version("le", version, ebuild) <=> full \in {"less", "equal"}
        /\ test_version("eq", version, ebuild) <=> full = "equal"
        /\ test_version("ge", version, ebuild) <=> full \in {"greater", "equal"}
        /\ test_version("gt", version, ebuild) <=> full = "greater"
        /\ test_version("td", version, ebuild) <=> partial = "equal"
    BY <2>2 DEF test_version, Compared, Selects
  <2>6. \A s \in {"eq", "ge"} : Terminates(s, version, ebuild) <=> full = "throw"
    BY <2>2 DEF Terminates, Compared
  <2>7. full \in {"less", "equal", "greater", "throw"}
    BY <2>3 DEF Orders, Or
  <2>8. /\ ~Terminates(asked, version, ebuild)
        /\ answer = "yes" <=> test_version(asked, version, ebuild)
    BY DEF IInv
  <2>9. asked \in {"eq", "ge"} => full # "throw"
    BY <2>6, <2>8
  <2>10. full = "equal" => partial = "equal"
    BY <2>3, <2>4 DEF Or
  <2>11. Revision(ebuild) = Revision(version) /\ full # "throw" /\ partial = "equal" => full = "equal"
    BY <2>3, <2>4 DEF Or
  <2>12. asked = "eq" => (answer = "yes" <=> ~test_version("lt", version, ebuild)
                                              /\ ~test_version("gt", version, ebuild))
    BY <2>5, <2>7, <2>8, <2>9
  <2>13. asked = "le" => (answer = "yes" <=> test_version("lt", version, ebuild)
                                              \/ test_version("eq", version, ebuild))
    BY <2>5, <2>8
  <2>14. asked = "ge" => (answer = "yes" <=> ~test_version("lt", version, ebuild))
    BY <2>5, <2>7, <2>8, <2>9
  <2>15. asked = "td" => (answer = "yes" <=> partial = "equal")
    BY <2>5, <2>8
  <2> QED
    BY <2>5, <2>6, <2>10, <2>11, <2>12, <2>13, <2>14, <2>15 DEF SelectorsAgree
<1> QED
  BY InitIInv, NextIInv, <1>1, PTL DEF Spec
=============================================================================
