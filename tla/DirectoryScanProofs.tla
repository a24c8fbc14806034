------------------------ MODULE DirectoryScanProofs ------------------------
(***************************************************************************)
(* For directories of any length and shape and any number of iterators:    *)
(* every iterator can be dereferenced unless it is at the end, none is     *)
(* ahead of the stream it shares, and a loop gets no entry twice.          *)
(***************************************************************************)
EXTENDS DirectoryScan, TLAPS, WellFoundedInduction

N == Len(listing)

\* What is left of the directory at some point.
Suffix(s) ==
    /\ s \in Seq(Entries) /\ Len(s) \in 0 .. N
    /\ \A i \in 1 .. Len(s) : s[i] = listing[N - Len(s) + i]

\* The element is one of the first so many entries.
Within(e, n) == \E p \in 1 .. N : p <= n /\ e = listing[p]

Typed ==
    /\ listing \in Directories
    /\ DOMAIN rest = Streams /\ \A d \in Streams : Suffix(rest[d])
    /\ it \in [Vars -> Streams \cup {End}]
    /\ DOMAIN elem = Vars

Held ==
    \A w \in Vars :
        /\ it[w] # End => Within(elem[w], N - Len(rest[it[w]]) + 1)
        /\ it[w] = End /\ kind = "vdb" => elem[w] = NoElem

IInv == Typed /\ Held

-----------------------------------------------------------------------------
LEMMA ListingTyped ==
    ASSUME listing \in Directories
    PROVE  /\ N \in Nat /\ listing \in Seq(Entries) /\ DOMAIN listing = 1 .. N
           /\ \A i, j \in 1 .. N : listing[i] = listing[j] => i = j
           /\ \A i \in 1 .. N : listing[i] # NoElem
  <1>1. /\ listing \in Seq({listing[i] : i \in DOMAIN listing})
        /\ \A i, j \in DOMAIN listing : listing[i] = listing[j] => i = j
        /\ \A i \in DOMAIN listing : listing[i] # NoElem
    BY IteratorAssumption
  <1>2. N \in Nat /\ DOMAIN listing = 1 .. N
    BY <1>1 DEF N
  <1>3. {listing[i] : i \in DOMAIN listing} = Entries
    BY <1>2 DEF Entries, N
  <1> QED BY <1>1, <1>2, <1>3

LEMMA SuffixWhole == ASSUME listing \in Directories PROVE Suffix(listing)
  BY ListingTyped DEF Suffix, N

LEMMA SuffixNothing == ASSUME listing \in Directories PROVE Suffix(<<>>)
  BY ListingTyped DEF Suffix

LEMMA SuffixTail ==
    ASSUME listing \in Directories, NEW s, Suffix(s), s # <<>>
    PROVE  Suffix(Tail(s)) /\ Len(Tail(s)) = Len(s) - 1
  <1>1. PICK n : n = Len(s)
    OBVIOUS
  <1>2. n \in Nat \ {0} /\ n <= N /\ N \in Nat /\ s \in Seq(Entries)
    BY <1>1, ListingTyped DEF Suffix
  <1>3. Tail(s) \in Seq(Entries) /\ Len(Tail(s)) = n - 1
    BY <1>1, <1>2
  <1>4. \A i \in 1 .. n - 1 : i + 1 \in 1 .. n /\ Tail(s)[i] = s[i + 1]
    BY <1>1, <1>2, <1>3
  <1>5. \A i \in 1 .. n - 1 : Tail(s)[i] = listing[N - (n - 1) + i]
    <2> TAKE i \in 1 .. n - 1
    <2>1. s[i + 1] = listing[N - n + (i + 1)]
      BY <1>1, <1>4 DEF Suffix
    <2>2. N - n + (i + 1) = N - (n - 1) + i
      BY <1>2
    <2> QED BY <1>4, <2>1, <2>2
  <1> QED BY <1>1, <1>2, <1>3, <1>5 DEF Suffix

LEMMA SuffixSub ==
    ASSUME listing \in Directories, NEW s, Suffix(s), NEW k \in 1 .. Len(s)
    PROVE  /\ Suffix(SubSeq(s, k, Len(s))) /\ Len(SubSeq(s, k, Len(s))) = Len(s) - k + 1
           /\ Head(SubSeq(s, k, Len(s))) = listing[N - (Len(s) - k + 1) + 1]
  <1>1. PICK n : n = Len(s)
    OBVIOUS
  <1> DEFINE t == SubSeq(s, k, n)
  <1>2. n \in Nat /\ k \in Nat /\ 1 <= k /\ k <= n /\ n <= N /\ N \in Nat /\ s \in Seq(Entries)
    BY <1>1, ListingTyped DEF Suffix
  <1>3. t \in Seq(Entries) /\ Len(t) = n - k + 1
    BY <1>1, <1>2
  <1>4. \A i \in 1 .. n - k + 1 : k + i - 1 \in 1 .. n /\ t[i] = s[k + i - 1]
    BY <1>1, <1>2, <1>3
  <1>5. \A i \in 1 .. n - k + 1 : t[i] = listing[N - (n - k + 1) + i]
    <2> TAKE i \in 1 .. n - k + 1
    <2>1. s[k + i - 1] = listing[N - n + (k + i - 1)]
      BY <1>1, <1>4 DEF Suffix
    <2>2. N - n + (k + i - 1) = N - (n - k + 1) + i
      BY <1>2
    <2> QED BY <1>4, <2>1, <2>2
  <1>6. Head(t) = t[1] /\ 1 \in 1 .. n - k + 1
    BY <1>2, <1>3
  <1> HIDE DEF t
  <1>7. Suffix(t) /\ Len(t) = n - k + 1 /\ Head(t) = listing[N - (n - k + 1) + 1]
    BY <1>2, <1>3, <1>5, <1>6 DEF Suffix
  <1> QED BY <1>1, <1>7 DEF t

LEMMA Least ==
    ASSUME NEW S, S \subseteq Nat, S # {}
    PROVE  \E n \in S : \A m \in S : n <= m
  <1> DEFINE R == OpToRel(<, Nat)
  <1>1. PICK n \in S : \A m \in S : ~(<<m, n>> \in R)
    BY NatLessThanWellFounded, WFMin
  <1>2. \A m \in S : ~(m < n)
    BY <1>1 DEF OpToRel
  <1> QED BY <1>2

\* A loop of begin or of ++ stops at an entry of what is left, or at the end.
LEMMA ReachStops ==
    ASSUME listing \in Directories, NEW first, NEW s, Suffix(s)
    PROVE  LET t == Reach(first, s)
           IN  /\ Suffix(t) /\ Len(t) \in Nat /\ Len(t) <= Len(s)
               /\ t # <<>> => Len(t) > 0 /\ Head(t) = listing[N - Len(t) + 1]
  <1> DEFINE stops == {i \in 1 .. Len(s) : ~PassedOver(first, s[i])}
             least == CHOOSE i \in stops : \A j \in stops : i <= j
  <1>1. Len(s) \in Nat
    BY ListingTyped DEF Suffix
  <1>2. CASE stops = {}
    BY <1>1, <1>2, SuffixNothing DEF Reach
  <1>3. CASE stops # {}
    <2>1. least \in stops
      <3>1. stops \subseteq Nat
        BY <1>1
      <3> HIDE DEF stops
      <3>2. \E i \in stops : \A j \in stops : i <= j
        BY <1>3, <3>1, Least
      <3> QED BY <3>2
    <2>2. Reach(first, s) = SubSeq(s, least, Len(s))
      BY <1>3 DEF Reach
    <2> HIDE DEF stops, least
    <2>3. least \in 1 .. Len(s)
      BY <2>1 DEF stops
    <2> QED BY <1>1, <2>2, <2>3, SuffixSub
  <1> QED BY <1>2, <1>3

\* What begin leaves.
LEMMA FirstStops ==
    ASSUME listing \in Directories
    PROVE  /\ Suffix(First)
           /\ First # <<>> => Len(First) \in 1 .. N /\ Head(First) = listing[N - Len(First) + 1]
  <1>1. Suffix(listing) /\ N \in Nat
    BY SuffixWhole, ListingTyped
  <1>2. /\ Suffix(First) /\ Len(First) \in Nat /\ Len(First) <= Len(listing)
        /\ First # <<>> => Len(First) > 0 /\ Head(First) = listing[N - Len(First) + 1]
    BY <1>1, ReachStops DEF First
  <1> QED BY <1>1, <1>2 DEF N

\* What ++ leaves is behind the current entry.
LEMMA LeftStops ==
    ASSUME Typed, NEW w \in Vars
    PROVE  /\ Suffix(Left(w))
           /\ Left(w) # <<>> =>
                  /\ it[w] \in Streams /\ Len(rest[it[w]]) \in Nat
                  /\ Len(Left(w)) \in 1 .. N /\ Len(Left(w)) < Len(rest[it[w]])
                  /\ Head(Left(w)) = listing[N - Len(Left(w)) + 1]
  <1>1. CASE it[w] = End \/ rest[it[w]] = <<>>
    BY <1>1, SuffixNothing DEF Left, Typed
  <1>2. CASE it[w] # End /\ rest[it[w]] # <<>>
    <2>1. it[w] \in Streams /\ Suffix(rest[it[w]]) /\ listing \in Directories
      BY <1>2 DEF Typed
    <2> DEFINE s == rest[it[w]]
               t == Left(w)
    <2>2. t = Reach(FALSE, Tail(s)) /\ N \in Nat /\ s # <<>>
      BY <1>2, <2>1, ListingTyped DEF Left
    <2>3. Suffix(s)
      BY <2>1
    <2> HIDE DEF s, t
    <2>4. Len(s) \in 0 .. N
      BY <2>3 DEF Suffix
    <2>5. Len(s) \in Nat /\ Len(s) <= N
      BY <2>2, <2>4
    <2>6. Suffix(Tail(s)) /\ Len(Tail(s)) = Len(s) - 1
      BY <2>1, <2>2, <2>3, SuffixTail
    <2>7. /\ Suffix(t) /\ Len(t) \in Nat /\ Len(t) <= Len(Tail(s))
          /\ t # <<>> => Len(t) > 0 /\ Head(t) = listing[N - Len(t) + 1]
      BY <2>1, <2>2, <2>6, ReachStops
    <2>8. t # <<>> => Len(t) \in 1 .. N /\ Len(t) < Len(s)
      <3>1. PICK i, j : i = Len(s) /\ j = Len(t)
        OBVIOUS
      <3>2. i \in Nat /\ j \in Nat /\ i <= N
        BY <2>5, <2>7, <3>1
      <3>3. j <= i - 1 /\ (t # <<>> => j > 0)
        BY <2>6, <2>7, <3>1
      <3>4. t # <<>> => j \in 1 .. N /\ j < i
        BY <2>2, <3>2, <3>3
      <3> QED BY <3>1, <3>4
    <2> QED BY <2>1, <2>5, <2>7, <2>8 DEF s, t
  <1> QED BY <1>1, <1>2
-----------------------------------------------------------------------------
LEMMA WithinMore ==
    ASSUME NEW e, NEW n \in Int, NEW m \in Int, n <= m, Within(e, n), N \in Nat
    PROVE  Within(e, m)
  BY DEF Within

LEMMA LengthsTyped ==
    ASSUME Typed
    PROVE  N \in Nat /\ \A d \in Streams : Len(rest[d]) \in Nat /\ Len(rest[d]) <= N
  <1>1. N \in Nat
    BY ListingTyped DEF Typed
  <1>2. \A d \in Streams : Len(rest[d]) \in 0 .. N
    BY DEF Typed, Suffix
  <1> QED BY <1>1, <1>2

\* Whatever streams an operation closes, those that are still used are as it left them.
LEMMA Closed ==
    ASSUME Typed, UNCHANGED <<listing, kind>>,
           NEW streams, \A d \in Streams : Suffix(streams[d]), Close(streams),
           it' \in [Vars -> Streams \cup {End}], DOMAIN elem' = Vars,
           \A w \in Vars : it'[w] # End => Within(elem'[w], N - Len(streams[it'[w]]) + 1),
           \A w \in Vars : it'[w] = End /\ kind = "vdb" => elem'[w] = NoElem
    PROVE  IInv'
  <1>1. DOMAIN rest' = Streams /\ \A d \in Streams : rest'[d] = streams[d] \/ rest'[d] = <<>>
    BY DEF Close
  <1>2. \A w \in Vars : it'[w] # End => it'[w] \in Streams /\ rest'[it'[w]] = streams[it'[w]]
    BY DEF Close
  <1>3. N' = N /\ Entries' = Entries /\ listing \in Directories
    BY DEF N, Entries, Typed
  <1>4. \A d \in Streams : Suffix(rest'[d])
    BY <1>1, <1>3, SuffixNothing
  <1>5. \A d \in Streams : Suffix(rest[d])'
    BY <1>3, <1>4 DEF Suffix
  <1>6. Typed'
    BY <1>1, <1>3, <1>5 DEF Typed
  <1>7. \A w \in Vars : it'[w] # End => Within(elem'[w], N - Len(rest'[it'[w]]) + 1)
    BY <1>2
  <1>8. Held'
    BY <1>3, <1>7 DEF Held, Within
  <1> QED BY <1>6, <1>8 DEF IInv

LEMMA Unmoved ==
    ASSUME IInv, UNCHANGED <<listing, rest, kind, it, elem>>
    PROVE  IInv'
  <1>1. N' = N /\ Entries' = Entries
    BY DEF N, Entries
  <1>2. \A d \in Streams : Suffix(rest[d])'
    BY <1>1 DEF IInv, Typed, Suffix
  <1>3. Typed'
    BY <1>2 DEF IInv, Typed
  <1>4. Held'
    BY <1>1 DEF IInv, Held, Within
  <1> QED BY <1>3, <1>4 DEF IInv

\* v = begin().
LEMMA BeginKeeps == ASSUME IInv, NEW u \in Vars, Begin(u) PROVE IInv'
  <1>1. Typed /\ listing \in Directories /\ UNCHANGED <<listing, kind>> /\ N \in Nat
    BY LengthsTyped DEF IInv, Typed, Begin
  <1>2. CASE UNCHANGED <<it, elem, rest>>
    BY <1>1, <1>2, Unmoved
  <1>3. CASE it' = [it EXCEPT ![u] = End] /\ elem' = [elem EXCEPT ![u] = NoElem] /\ Close(rest)
    <2>1. \A d \in Streams : Suffix(rest[d])
      BY <1>1 DEF Typed
    <2>2. /\ it' \in [Vars -> Streams \cup {End}] /\ DOMAIN elem' = Vars
          /\ \A w \in Vars : it'[w] # End => Within(elem'[w], N - Len(rest[it'[w]]) + 1)
          /\ \A w \in Vars : it'[w] = End /\ kind = "vdb" => elem'[w] = NoElem
      BY <1>3 DEF IInv, Typed, Held
    <2> QED BY <1>1, <1>3, <2>1, <2>2, Closed
  <1>4. CASE /\ First # <<>>
             /\ \E d \in Streams :
                   Free(d) /\ it' = [it EXCEPT ![u] = d] /\ Close([rest EXCEPT ![d] = First])
             /\ elem' = [elem EXCEPT ![u] = Head(First)]
    <2>1. PICK d \in Streams :
              Free(d) /\ it' = [it EXCEPT ![u] = d] /\ Close([rest EXCEPT ![d] = First])
      BY <1>4
    <2> DEFINE streams == [rest EXCEPT ![d] = First]
    <2>2. Suffix(First) /\ Len(First) \in 1 .. N /\ Head(First) = listing[N - Len(First) + 1]
      BY <1>1, <1>4, FirstStops
    <2>3. \A c \in Streams : streams[c] = IF c = d THEN First ELSE rest[c]
      BY DEF IInv, Typed
    <2>4. \A c \in Streams : Suffix(streams[c])
      BY <2>2, <2>3 DEF IInv, Typed
    <2>5. Within(Head(First), N - Len(First) + 1)
      <3>1. N - Len(First) + 1 \in 1 .. N
        BY <1>1, <2>2
      <3> QED BY <2>2, <3>1 DEF Within
    <2>6. \A w \in Vars : it'[w] # End => Within(elem'[w], N - Len(streams[it'[w]]) + 1)
      <3> SUFFICES ASSUME NEW w \in Vars, it'[w] # End
                   PROVE  Within(elem'[w], N - Len(streams[it'[w]]) + 1)
        OBVIOUS
      <3> HIDE DEF streams
      <3>1. CASE w = u
        BY <1>4, <2>1, <2>3, <2>5, <3>1 DEF IInv, Typed
      <3>2. CASE w # u
        BY <1>4, <2>1, <2>3, <3>2 DEF IInv, Typed, Held, Free
      <3> QED BY <3>1, <3>2
    <2>7. /\ it' \in [Vars -> Streams \cup {End}] /\ DOMAIN elem' = Vars
          /\ \A w \in Vars : it'[w] = End /\ kind = "vdb" => elem'[w] = NoElem
      BY <1>4, <2>1, IteratorAssumption DEF IInv, Typed, Held
    <2>8. Close(streams)
      BY <2>1
    <2> HIDE DEF streams
    <2> QED BY <1>1, <2>4, <2>6, <2>7, <2>8, Closed
  <1> QED BY <1>2, <1>3, <1>4 DEF Begin

\* v = end().
LEMMA AssignEndKeeps == ASSUME IInv, NEW u \in Vars, AssignEnd(u) PROVE IInv'
  <1>1. Typed /\ UNCHANGED <<listing, kind>>
    BY DEF IInv, AssignEnd
  <1>2. CASE UNCHANGED <<it, elem, rest>>
    BY <1>1, <1>2, Unmoved
  <1>3. CASE /\ it' = [it EXCEPT ![u] = End] /\ Close(rest)
             /\ elem' = [elem EXCEPT ![u] =
                    IF kind = "vdb" \/ First = <<>> THEN NoElem ELSE Head(First)]
    <2>1. \A d \in Streams : Suffix(rest[d])
      BY <1>1 DEF Typed
    <2>2. /\ it' \in [Vars -> Streams \cup {End}] /\ DOMAIN elem' = Vars
          /\ \A w \in Vars : it'[w] # End => Within(elem'[w], N - Len(rest[it'[w]]) + 1)
          /\ \A w \in Vars : it'[w] = End /\ kind = "vdb" => elem'[w] = NoElem
      BY <1>3 DEF IInv, Typed, Held
    <2> QED BY <1>1, <1>3, <2>1, <2>2, Closed
  <1> QED BY <1>2, <1>3 DEF AssignEnd

\* v = w.
LEMMA CopyKeeps == ASSUME IInv, NEW u \in Vars, NEW x \in Vars, Copy(u, x) PROVE IInv'
  <1>1. Typed /\ UNCHANGED <<listing, kind>> /\ elem' = [elem EXCEPT ![u] = elem[x]]
    BY DEF IInv, Copy
  <1>2. CASE it' = [it EXCEPT ![u] = it[x]] /\ Close(rest)
    <2>1. \A d \in Streams : Suffix(rest[d])
      BY <1>1 DEF Typed
    <2>2. /\ it' \in [Vars -> Streams \cup {End}] /\ DOMAIN elem' = Vars
          /\ \A w \in Vars : it'[w] # End => Within(elem'[w], N - Len(rest[it'[w]]) + 1)
          /\ \A w \in Vars : it'[w] = End /\ kind = "vdb" => elem'[w] = NoElem
      BY <1>1, <1>2 DEF IInv, Typed, Held
    <2> QED BY <1>1, <1>2, <2>1, <2>2, Closed
  <1>3. CASE /\ it[x] # End
             /\ \E d \in Streams :
                   Free(d) /\ it' = [it EXCEPT ![u] = d] /\ Close([rest EXCEPT ![d] = rest[it[x]]])
    <2>1. PICK d \in Streams :
              Free(d) /\ it' = [it EXCEPT ![u] = d] /\ Close([rest EXCEPT ![d] = rest[it[x]]])
      BY <1>3
    <2> DEFINE streams == [rest EXCEPT ![d] = rest[it[x]]]
    <2>2. it[x] \in Streams
      BY <1>1, <1>3 DEF Typed
    <2>3. \A c \in Streams : streams[c] = IF c = d THEN rest[it[x]] ELSE rest[c]
      BY <1>1 DEF Typed
    <2>4. \A c \in Streams : Suffix(streams[c])
      BY <1>1, <2>2, <2>3 DEF Typed
    <2>5. Close(streams)
      BY <2>1
    <2> HIDE DEF streams
    <2>6. \A w \in Vars : it'[w] # End => Within(elem'[w], N - Len(streams[it'[w]]) + 1)
      <3> SUFFICES ASSUME NEW w \in Vars, it'[w] # End
                   PROVE  Within(elem'[w], N - Len(streams[it'[w]]) + 1)
        OBVIOUS
      <3>1. CASE w = u
        BY <1>1, <1>3, <2>1, <2>3, <3>1 DEF IInv, Typed, Held
      <3>2. CASE w # u
        BY <1>1, <2>1, <2>3, <3>2 DEF IInv, Typed, Held, Free
      <3> QED BY <3>1, <3>2
    <2>7. /\ it' \in [Vars -> Streams \cup {End}] /\ DOMAIN elem' = Vars
          /\ \A w \in Vars : it'[w] = End /\ kind = "vdb" => elem'[w] = NoElem
      BY <1>1, <2>1, IteratorAssumption DEF IInv, Typed, Held
    <2> QED BY <1>1, <2>4, <2>5, <2>6, <2>7, Closed
  <1> QED BY <1>2, <1>3 DEF Copy

\* ++ moves the stream on, for every iterator that shares it.
LEMMA AheadMoves ==
    ASSUME Typed, NEW w \in Vars
    PROVE  LET streams == Ahead(w, Left(w))
           IN  /\ \A d \in Streams :
                    /\ Suffix(streams[d])
                    /\ Len(streams[d]) \in Nat /\ Len(streams[d]) <= Len(rest[d])
               /\ it[w] # End => streams[it[w]] = Left(w)
  <1> DEFINE streams == Ahead(w, Left(w))
  <1>1. N \in Nat /\ \A d \in Streams :
            Suffix(rest[d]) /\ Len(rest[d]) \in Nat /\ Len(rest[d]) <= N
    BY LengthsTyped DEF Typed
  <1>2. CASE it[w] = End
    BY <1>1, <1>2 DEF Ahead
  <1>3. CASE it[w] # End
    <2>1. it[w] \in Streams
      BY <1>3 DEF Typed
    <2>2. \A d \in Streams : streams[d] = IF d = it[w] THEN Left(w) ELSE rest[d]
      BY <1>3 DEF Ahead, Typed
    <2>3. Suffix(Left(w)) /\ Len(Left(w)) \in Nat /\ Len(Left(w)) <= Len(rest[it[w]])
      <3>1. CASE Left(w) = <<>>
        BY <1>1, <2>1, <3>1, LeftStops
      <3>2. CASE Left(w) # <<>>
        BY <1>1, <2>1, <3>2, LeftStops
      <3> QED BY <3>1, <3>2
    <2> HIDE DEF streams
    <2>4. ASSUME NEW d \in Streams
          PROVE  Suffix(streams[d]) /\ Len(streams[d]) \in Nat /\ Len(streams[d]) <= Len(rest[d])
      <3>1. CASE d = it[w]
        <4>1. streams[d] = Left(w)
          BY <2>2, <3>1
        <4> QED BY <2>3, <3>1, <4>1
      <3>2. CASE d # it[w]
        <4>1. streams[d] = rest[d] /\ Len(rest[d]) \in Nat /\ Suffix(rest[d])
          BY <1>1, <2>2, <3>2
        <4>2. Len(rest[d]) <= Len(rest[d])
          BY <4>1
        <4> QED BY <4>1, <4>2
      <3> QED BY <3>1, <3>2
    <2> QED BY <2>1, <2>2, <2>4 DEF streams
  <1> QED BY <1>2, <1>3

LEMMA AheadKeeps ==
    ASSUME IInv, NEW w \in Vars, NEW x \in Vars, it[x] # End
    PROVE  Within(elem[x], N - Len(Ahead(w, Left(w))[it[x]]) + 1)
  <1>1. Typed /\ it[x] \in Streams /\ Within(elem[x], N - Len(rest[it[x]]) + 1)
    BY DEF IInv, Typed, Held
  <1>2. PICK m, n : m = Len(Ahead(w, Left(w))[it[x]]) /\ n = Len(rest[it[x]])
    OBVIOUS
  <1>3. m \in Nat /\ m <= n
    BY <1>1, <1>2, AheadMoves
  <1>4. N \in Nat /\ n \in Nat
    BY <1>1, <1>2, LengthsTyped
  <1>5. N - n + 1 <= N - m + 1 /\ N - n + 1 \in Int /\ N - m + 1 \in Int
    BY <1>3, <1>4
  <1>6. Within(elem[x], N - n + 1)
    BY <1>1, <1>2
  <1>7. Within(elem[x], N - m + 1)
    BY <1>4, <1>5, <1>6, WithinMore
  <1> QED BY <1>2, <1>7

\* The element of the iterator that is advanced, when it is not at the end.
LEMMA NextElemKeeps ==
    ASSUME IInv, NEW w \in Vars, Left(w) # <<>>
    PROVE  Within(NextElem(w), N - Len(Left(w)) + 1)
  <1>1. /\ Typed /\ it[w] \in Streams /\ N \in Nat /\ Len(Left(w)) \in 1 .. N
        /\ Head(Left(w)) = listing[N - Len(Left(w)) + 1]
    BY LeftStops, LengthsTyped DEF IInv
  <1>2. CASE BuildThrows(w)
    <2>1. NextElem(w) = elem[w] /\ it[w] # End
      BY <1>1, <1>2, IteratorAssumption DEF NextElem
    <2>2. Ahead(w, Left(w))[it[w]] = Left(w)
      BY <1>1, <2>1, AheadMoves
    <2>3. Within(elem[w], N - Len(Ahead(w, Left(w))[it[w]]) + 1)
      BY <2>1, AheadKeeps
    <2> QED BY <2>1, <2>2, <2>3
  <1>3. CASE ~BuildThrows(w)
    <2>1. NextElem(w) = Head(Left(w))
      BY <1>3 DEF NextElem
    <2>2. N - Len(Left(w)) + 1 \in 1 .. N
      BY <1>1
    <2> QED BY <1>1, <2>1, <2>2 DEF Within
  <1> QED BY <1>2, <1>3

LEMMA MovedTyped ==
    ASSUME Typed, NEW w \in Vars
    PROVE  /\ Moved(w, Left(w)) \in [Vars -> Streams \cup {End}]
           /\ \A x \in Vars : Moved(w, Left(w))[x] =
                  IF x = w /\ Left(w) = <<>> THEN End ELSE it[x]
           /\ Left(w) # <<>> => it[w] \in Streams
  BY LeftStops DEF Typed, Moved

\* ++v.
LEMMA PreIncrementKeeps == ASSUME IInv, NEW w \in Vars, PreIncrement(w) PROVE IInv'
  <1> DEFINE streams == Ahead(w, Left(w))
  <1>1. /\ Typed /\ UNCHANGED <<listing, kind>> /\ Close(streams)
        /\ it' = Moved(w, Left(w)) /\ elem' = [elem EXCEPT ![w] = NextElem(w)]
    BY DEF IInv, PreIncrement
  <1>2. \A d \in Streams : Suffix(streams[d])
    BY <1>1, AheadMoves
  <1>3. /\ it' \in [Vars -> Streams \cup {End}] /\ DOMAIN elem' = Vars
        /\ \A x \in Vars : elem'[x] = IF x = w THEN NextElem(w) ELSE elem[x]
    BY <1>1, MovedTyped DEF Typed
  <1>4. ASSUME NEW x \in Vars, it'[x] # End
        PROVE  Within(elem'[x], N - Len(streams[it'[x]]) + 1)
    <2>1. it'[x] = it[x]
      BY <1>1, <1>4, MovedTyped
    <2>2. CASE x = w
      <3>1. Left(w) # <<>> /\ it[w] # End
        BY <1>1, <1>4, <2>1, <2>2, MovedTyped
      <3>2. streams[it[w]] = Left(w)
        BY <1>1, <3>1, AheadMoves
      <3>3. Within(NextElem(w), N - Len(Left(w)) + 1)
        BY <3>1, NextElemKeeps
      <3> QED BY <1>3, <2>1, <2>2, <3>2, <3>3
    <2>3. CASE x # w
      <3>1. Within(elem[x], N - Len(streams[it[x]]) + 1)
        BY <1>4, <2>1, AheadKeeps
      <3> QED BY <1>3, <2>1, <2>3, <3>1
    <2> QED BY <2>2, <2>3
  <1>5. ASSUME NEW x \in Vars, it'[x] = End, kind = "vdb"
        PROVE  elem'[x] = NoElem
    <2>1. CASE x = w
      <3>1. Left(w) = <<>>
        BY <1>1, <1>5, <2>1, MovedTyped, IteratorAssumption
      <3> QED BY <1>3, <1>5, <2>1, <3>1 DEF NextElem
    <2>2. CASE x # w
      <3>1. it[x] = End
        BY <1>1, <1>5, <2>2, MovedTyped
      <3> QED BY <1>3, <1>5, <2>2, <3>1 DEF IInv, Held
    <2> QED BY <2>1, <2>2
  <1> HIDE DEF streams
  <1> QED BY <1>1, <1>2, <1>3, <1>4, <1>5, Closed

\* v = w++.
LEMMA PostIncrementKeeps ==
    ASSUME IInv, NEW u \in Vars, NEW w \in Vars, PostIncrement(u, w)
    PROVE  IInv'
  <1> DEFINE streams == Ahead(w, Left(w))
             moved == Moved(w, Left(w))
             built == [elem EXCEPT ![w] = NextElem(w)]
  <1>1. /\ Typed /\ UNCHANGED <<listing, kind>> /\ Close(streams) /\ u # w
        /\ \/ it' = moved /\ elem' = built
           \/ it' = [moved EXCEPT ![u] = it[w]] /\ elem' = [built EXCEPT ![u] = elem[w]]
    BY DEF IInv, PostIncrement
  <1>2. \A d \in Streams : Suffix(streams[d])
    BY <1>1, AheadMoves
  <1>3. /\ moved \in [Vars -> Streams \cup {End}]
        /\ \A x \in Vars : moved[x] = IF x = w /\ Left(w) = <<>> THEN End ELSE it[x]
    BY <1>1, MovedTyped
  <1>4. /\ DOMAIN built = Vars
        /\ \A x \in Vars : built[x] = IF x = w THEN NextElem(w) ELSE elem[x]
    BY <1>1 DEF Typed
  <1>5. it \in [Vars -> Streams \cup {End}]
    BY <1>1 DEF Typed
  <1>6. Left(w) # <<>> => it[w] # End
    BY <1>1, <1>5, MovedTyped, IteratorAssumption
  <1>7. Left(w) = <<>> /\ kind = "vdb" => NextElem(w) = NoElem
    BY DEF NextElem
  <1> HIDE DEF moved, built
  <1>8. /\ it' \in [Vars -> Streams \cup {End}] /\ DOMAIN elem' = Vars
        /\ \A x \in Vars :
              \/ it'[x] = moved[x] /\ elem'[x] = built[x]
              \/ it'[x] = it[w] /\ elem'[x] = elem[w]
    BY <1>1, <1>3, <1>4, <1>5
  <1> HIDE DEF streams
  <1>9. ASSUME NEW x \in Vars, it'[x] # End
        PROVE  Within(elem'[x], N - Len(streams[it'[x]]) + 1)
    <2>1. CASE it'[x] = it[w] /\ elem'[x] = elem[w]
      <3>1. Within(elem[w], N - Len(streams[it[w]]) + 1)
        BY <1>9, <2>1, AheadKeeps DEF streams
      <3> QED BY <2>1, <3>1
    <2>2. CASE it'[x] = moved[x] /\ elem'[x] = built[x] /\ x = w
      <3>1. Left(w) # <<>> /\ it'[x] = it[w] /\ it[w] # End /\ elem'[x] = NextElem(w)
        BY <1>3, <1>4, <1>9, <2>2
      <3>2. streams[it[w]] = Left(w)
        BY <1>1, <3>1, AheadMoves DEF streams
      <3>3. Within(NextElem(w), N - Len(Left(w)) + 1)
        BY <3>1, NextElemKeeps
      <3> QED BY <3>1, <3>2, <3>3
    <2>3. CASE it'[x] = moved[x] /\ elem'[x] = built[x] /\ x # w
      <3>1. it'[x] = it[x] /\ it[x] # End /\ elem'[x] = elem[x]
        BY <1>3, <1>4, <1>9, <2>3
      <3>2. Within(elem[x], N - Len(streams[it[x]]) + 1)
        BY <3>1, AheadKeeps DEF streams
      <3> QED BY <3>1, <3>2
    <2> QED BY <1>8, <2>1, <2>2, <2>3
  <1>10. ASSUME NEW x \in Vars, it'[x] = End, kind = "vdb"
         PROVE  elem'[x] = NoElem
    <2>1. \A y \in Vars : it[y] = End => elem[y] = NoElem
      BY <1>10 DEF IInv, Held
    <2>2. moved[x] = End => built[x] = NoElem
      BY <1>3, <1>4, <1>6, <1>7, <1>10, <2>1
    <2> QED BY <1>8, <1>10, <2>1, <2>2
  <1> QED BY <1>1, <1>2, <1>8, <1>9, <1>10, Closed
-----------------------------------------------------------------------------
LEMMA CallsKeep == ASSUME IInv, NEW W \in SUBSET Vars, Calls(W) PROVE IInv'
  <1>1. CASE \E u \in W : Begin(u) \/ AssignEnd(u) \/ PreIncrement(u)
    BY <1>1, BeginKeeps, AssignEndKeeps, PreIncrementKeeps
  <1>2. CASE \E u \in W, w \in Vars : Copy(u, w)
    BY <1>2, CopyKeeps
  <1>3. CASE \E u, w \in W : PostIncrement(u, w)
    BY <1>3, PostIncrementKeeps
  <1> QED BY <1>1, <1>2, <1>3 DEF Calls

LEMMA InitKept == SInit => IInv
  <1> SUFFICES ASSUME SInit PROVE IInv
    OBVIOUS
  <1>1. listing \in Directories /\ rest = [d \in Streams |-> <<>>]
    BY DEF SInit, Init
  <1>2. Typed
    BY <1>1, SuffixNothing DEF SInit, Init, Typed
  <1>3. Held
    BY DEF SInit, Init, Held
  <1> QED BY <1>2, <1>3 DEF IInv

LEMMA StepKept == IInv /\ [SNext]_svars => IInv'
  <1> SUFFICES ASSUME IInv, [SNext]_svars PROVE IInv'
    OBVIOUS
  <1>1. CASE SBegin
    BY <1>1, BeginKeeps, ScanAssumption DEF SBegin
  <1>2. CASE SAdvance
    BY <1>2, PreIncrementKeeps, ScanAssumption DEF SAdvance
  <1>3. CASE Others
    BY <1>3, CallsKeep DEF Others
  <1>4. CASE SEnd \/ Visit \/ Finish \/ UNCHANGED svars
    BY <1>4, Unmoved DEF SEnd, Visit, Finish, vars, svars
  <1>5. CASE \E e \in Entries : Change(e)
    BY <1>5, Unmoved DEF Change
  <1> QED BY <1>1, <1>2, <1>3, <1>4, <1>5 DEF SNext

LEMMA Kept == SSpec => []IInv
  BY InitKept, StepKept, PTL DEF SSpec

\* Any iterator that is not end() can be dereferenced, and an end() of a Vdb holds
\* no element, whatever the program does with its iterators and however many of the
\* entries cannot be built.
THEOREM AlwaysAnElement == SSpec => []ElementUnlessEnd
  <1>1. IInv => ElementUnlessEnd
    <2> SUFFICES ASSUME IInv, NEW w \in Vars, it[w] # End PROVE elem[w] # NoElem
      BY DEF ElementUnlessEnd, IInv, Held
    <2>1. PICK p \in 1 .. N : elem[w] = listing[p]
      BY DEF IInv, Held, Within
    <2> QED BY <2>1, ListingTyped DEF IInv, Typed
  <1> QED BY <1>1, Kept, PTL

\* No iterator holds an element that the stream it shares has yet to come to: no ++
\* leads back to an entry that is held.
THEOREM NeverAheadAlways == SSpec => []NeverAhead
  <1>1. IInv => NeverAhead
    <2> SUFFICES ASSUME IInv, NEW w \in Vars, it[w] # End
                 PROVE  Position(elem[w]) <= Passed(w) + 1
      BY DEF NeverAhead
    <2>1. Within(elem[w], Passed(w) + 1)
      BY DEF IInv, Held, Passed, N
    <2>2. PICK p \in 1 .. N : p <= Passed(w) + 1 /\ elem[w] = listing[p]
      BY <2>1 DEF Within
    <2>3. \A i, j \in 1 .. N : listing[i] = listing[j] => i = j
      BY ListingTyped DEF IInv, Typed
    <2>4. Position(elem[w]) = p
      BY <2>2, <2>3 DEF Position, N
    <2> QED BY <2>2, <2>4
  <1> QED BY <1>1, Kept, PTL
-----------------------------------------------------------------------------
\* The place of an entry in the directory.
place == [e \in Entries |-> Position(e)]

Ordered == \A i, j \in DOMAIN visited : i < j => place[visited[i]] < place[visited[j]]

\* What the loop has got is in front of what its iterator can still come to.
Seen ==
    /\ visited \in Seq(Entries)
    /\ Ordered
    /\ stage \in {"begin", "end"} => visited = <<>>
    /\ stage = "test" /\ it[v] # End =>
           \A i \in DOMAIN visited : place[visited[i]] < place[elem[v]]
    /\ stage = "advance" =>
           /\ it[v] # End
           /\ \A i \in DOMAIN visited : place[visited[i]] <= N - Len(rest[it[v]]) + 1

LEMMA PositionIs ==
    ASSUME listing \in Directories
    PROVE  /\ \A p \in 1 .. N : place[listing[p]] = p
           /\ \A e \in Entries : place[e] \in 1 .. N
  <1>1. \A p \in 1 .. N : Position(listing[p]) = p
    BY ListingTyped DEF Position, N
  <1>2. \A p \in 1 .. N : listing[p] \in Entries
    BY DEF Entries, N
  <1>3. \A p \in 1 .. N : place[listing[p]] = p
    BY <1>1, <1>2 DEF place
  <1> QED BY <1>3 DEF Entries, N

\* The element of an iterator and its stream.
LEMMA PositionHeld ==
    ASSUME IInv, NEW w \in Vars, it[w] # End
    PROVE  elem[w] \in Entries /\ place[elem[w]] <= N - Len(rest[it[w]]) + 1
  <1>1. PICK p \in 1 .. N : p <= N - Len(rest[it[w]]) + 1 /\ elem[w] = listing[p]
    BY DEF IInv, Held, Within
  <1>2. place[elem[w]] = p
    BY <1>1, PositionIs DEF IInv, Typed
  <1> QED BY <1>1, <1>2 DEF Entries, N

\* Nothing the program does with its other iterators moves that of the loop, or moves
\* the stream it may share with them back.
LEMMA OthersLeave ==
    ASSUME Typed, Calls(Vars \ {v}), it[v] # End
    PROVE  it'[v] = it[v] /\ elem'[v] = elem[v] /\ Len(rest'[it[v]]) <= Len(rest[it[v]])
  <1> DEFINE d == it[v]
  <1>1. /\ d \in Streams /\ Len(rest[d]) \in Nat /\ Len(rest[d]) <= Len(rest[d])
        /\ DOMAIN rest = Streams /\ v \in Vars /\ DOMAIN it = Vars /\ DOMAIN elem = Vars
    BY LengthsTyped, ScanAssumption DEF Typed
  <1>2. ASSUME NEW streams, Close(streams), Len(streams[d]) <= Len(rest[d]), it'[v] = d
        PROVE  Len(rest'[d]) <= Len(rest[d])
    BY <1>1, <1>2 DEF Close
  <1>3. ASSUME NEW u \in Vars \ {v}, Begin(u) \/ AssignEnd(u)
        PROVE  it'[v] = d /\ elem'[v] = elem[v] /\ Len(rest'[d]) <= Len(rest[d])
    <2>1. CASE UNCHANGED <<it, elem, rest>>
      BY <1>1, <2>1
    <2>2. CASE it' = [it EXCEPT ![u] = End] /\ Close(rest) /\ \E e : elem' = [elem EXCEPT ![u] = e]
      <3>1. it'[v] = d /\ elem'[v] = elem[v]
        BY <1>1, <1>3, <2>2
      <3> QED BY <1>1, <1>2, <2>2, <3>1
    <2>3. CASE /\ \E c \in Streams :
                     Free(c) /\ it' = [it EXCEPT ![u] = c] /\ Close([rest EXCEPT ![c] = First])
               /\ \E e : elem' = [elem EXCEPT ![u] = e]
      <3>1. PICK c \in Streams :
                Free(c) /\ it' = [it EXCEPT ![u] = c] /\ Close([rest EXCEPT ![c] = First])
        BY <2>3
      <3>2. it'[v] = d /\ elem'[v] = elem[v] /\ c # d
        BY <1>1, <1>3, <2>3, <3>1 DEF Free
      <3>3. [rest EXCEPT ![c] = First][d] = rest[d]
        BY <1>1, <3>2
      <3> QED BY <1>1, <1>2, <3>1, <3>2, <3>3
    <2> QED BY <1>3, <2>1, <2>2, <2>3 DEF Begin, AssignEnd
  <1>4. ASSUME NEW u \in Vars \ {v}, NEW w \in Vars, Copy(u, w)
        PROVE  it'[v] = d /\ elem'[v] = elem[v] /\ Len(rest'[d]) <= Len(rest[d])
    <2>1. elem'[v] = elem[v]
      BY <1>1, <1>4 DEF Copy
    <2>2. CASE it' = [it EXCEPT ![u] = it[w]] /\ Close(rest)
      <3>1. it'[v] = d
        BY <1>1, <1>4, <2>2
      <3> QED BY <1>1, <1>2, <2>1, <2>2, <3>1
    <2>3. CASE \E c \in Streams :
                   Free(c) /\ it' = [it EXCEPT ![u] = c] /\ Close([rest EXCEPT ![c] = rest[it[w]]])
      <3>1. PICK c \in Streams :
                Free(c) /\ it' = [it EXCEPT ![u] = c] /\ Close([rest EXCEPT ![c] = rest[it[w]]])
        BY <2>3
      <3>2. it'[v] = d /\ c # d
        BY <1>1, <1>4, <3>1 DEF Free
      <3>3. [rest EXCEPT ![c] = rest[it[w]]][d] = rest[d]
        BY <1>1, <3>2
      <3> QED BY <1>1, <1>2, <2>1, <3>1, <3>2, <3>3
    <2> QED BY <1>4, <2>2, <2>3 DEF Copy
  <1>5. ASSUME NEW u \in Vars \ {v}, NEW w \in Vars \ {v}, PreIncrement(w) \/ PostIncrement(u, w)
        PROVE  it'[v] = d /\ elem'[v] = elem[v] /\ Len(rest'[d]) <= Len(rest[d])
    <2>1. Moved(w, Left(w))[v] = d
      BY <1>1, <1>5 DEF Moved
    <2>2. DOMAIN Moved(w, Left(w)) = Vars
      BY <1>1 DEF Moved
    <2>3. it'[v] = d /\ elem'[v] = elem[v] /\ Close(Ahead(w, Left(w)))
      BY <1>1, <1>5, <2>1, <2>2 DEF PreIncrement, PostIncrement
    <2>4. Len(Ahead(w, Left(w))[d]) <= Len(rest[d])
      BY <1>1, AheadMoves
    <2> QED BY <1>2, <2>3, <2>4
  <1>6. CASE \E u \in Vars \ {v} : Begin(u) \/ AssignEnd(u) \/ PreIncrement(u)
    BY <1>3, <1>5, <1>6
  <1>7. CASE \E u \in Vars \ {v}, w \in Vars : Copy(u, w)
    BY <1>4, <1>7
  <1>8. CASE \E u, w \in Vars \ {v} : PostIncrement(u, w)
    BY <1>5, <1>8
  <1> QED BY <1>6, <1>7, <1>8 DEF Calls
LEMMA OthersStay ==
    ASSUME Typed, Calls(Vars \ {v}), it[v] = End
    PROVE  it'[v] = End
  <1>1. v \in Vars /\ DOMAIN it = Vars
    BY ScanAssumption DEF Typed
  <1>2. ASSUME NEW u \in Vars \ {v}, NEW w \in Vars, Begin(u) \/ AssignEnd(u) \/ Copy(u, w)
        PROVE  it'[v] = End
    BY <1>1, <1>2 DEF Begin, AssignEnd, Copy
  <1>3. ASSUME NEW u \in Vars \ {v}, NEW w \in Vars \ {v}, PreIncrement(w) \/ PostIncrement(u, w)
        PROVE  it'[v] = End
    <2>1. Moved(w, Left(w))[v] = End /\ DOMAIN Moved(w, Left(w)) = Vars
      BY <1>1, <1>3 DEF Moved
    <2> QED BY <1>1, <1>3, <2>1 DEF PreIncrement, PostIncrement
  <1> QED BY <1>1, <1>2, <1>3 DEF Calls

LEMMA SeenKept == IInv /\ IInv' /\ Seen /\ [SNext]_svars => Seen'
  <1> SUFFICES ASSUME IInv, IInv', Seen, [SNext]_svars PROVE Seen'
    OBVIOUS
  <1>1. listing' = listing /\ N' = N /\ Entries' = Entries
    BY DEF SNext, SBegin, SEnd, Visit, SAdvance, Finish, Others, Change, Calls, Begin, AssignEnd,
           Copy, PreIncrement, PostIncrement, svars, vars, N, Entries
  <1>2. place' = place
    BY <1>1 DEF place, Position
  <1>3. v \in Vars /\ Typed /\ N \in Nat /\ \A e \in Entries : place[e] \in 1 .. N
    BY ScanAssumption, LengthsTyped, PositionIs DEF IInv, Typed
  <1>4. \A i \in DOMAIN visited : visited[i] \in Entries /\ place[visited[i]] \in 1 .. N
    BY <1>3 DEF Seen
  <1>5. CASE visited' = visited
    <2>1. visited' \in Seq(Entries') /\ Ordered'
      BY <1>1, <1>2, <1>5 DEF Seen, Ordered
    <2>2. CASE SBegin
      <3>1. visited = <<>> /\ stage' \in {"end", "failed"}
        BY <2>2 DEF Seen, SBegin
      <3> QED BY <1>5, <2>1, <3>1 DEF Seen
    <2>8. CASE SEnd
      <3>1. visited = <<>> /\ stage' \in {"test", "failed"}
        BY <2>8 DEF Seen, SEnd
      <3> QED BY <1>5, <2>1, <3>1 DEF Seen
    <2>3. CASE SAdvance
      <3>1. it[v] \in Streams /\ stage = "advance" /\ PreIncrement(v)
        BY <1>3, <2>3 DEF Seen, Typed, SAdvance
      <3>2. /\ stage' = IF BuildThrows(v) THEN "advance" ELSE "test"
            /\ it' = Moved(v, Left(v)) /\ elem'[v] = NextElem(v)
        BY <1>3, <2>3 DEF SAdvance, PreIncrement, Throw, Return, Typed
      <3>3. PICK m, n : m = Len(Left(v)) /\ n = Len(rest[it[v]])
        OBVIOUS
      <3>4. \A i \in DOMAIN visited : place[visited[i]] <= N - n + 1
        BY <3>1, <3>3 DEF Seen
      <3>5. CASE Left(v) = <<>>
        <4>1. it'[v] = End /\ stage' = "test"
          BY <1>3, <3>1, <3>2, <3>5, MovedTyped DEF BuildThrows
        <4> QED BY <1>5, <2>1, <4>1 DEF Seen
      <3>6. CASE Left(v) # <<>>
        <4>1. m \in 1 .. N /\ n \in Nat /\ m < n /\ Head(Left(v)) = listing[N - m + 1]
          BY <1>3, <3>3, <3>6, LeftStops
        <4>2. it'[v] = it[v] /\ it'[v] # End
          BY <1>3, <3>1, <3>2, <3>6, MovedTyped, IteratorAssumption
        <4>3. rest'[it'[v]] = Left(v)
          BY <1>3, <3>1, <4>2, AheadMoves DEF PreIncrement, Close
        <4>4. CASE BuildThrows(v)
          <5>1. \A i \in DOMAIN visited : place[visited[i]] <= N - m + 1
            BY <1>3, <1>4, <3>4, <4>1
          <5>2. stage' = "advance"
            BY <3>2, <4>4
          <5>3. \A i \in DOMAIN visited' : place'[visited'[i]] <= N' - Len(rest'[it'[v]]) + 1
            BY <1>1, <1>2, <1>5, <3>3, <4>3, <5>1
          <5> QED BY <2>1, <4>2, <5>2, <5>3 DEF Seen
        <4>5. CASE ~BuildThrows(v)
          <5>1. elem'[v] = Head(Left(v)) /\ stage' = "test"
            BY <3>2, <3>6, <4>5 DEF NextElem
          <5>2. N - m + 1 \in 1 .. N
            BY <1>3, <4>1
          <5>3. place[elem'[v]] = N - m + 1
            BY <1>3, <4>1, <5>1, <5>2, PositionIs DEF Typed
          <5>4. \A i \in DOMAIN visited : place[visited[i]] < N - m + 1
            BY <1>3, <1>4, <3>4, <4>1
          <5>5. \A i \in DOMAIN visited' : place'[visited'[i]] < place'[elem'[v]]
            BY <1>1, <1>2, <1>5, <5>3, <5>4
          <5> QED BY <2>1, <5>1, <5>5 DEF Seen
        <4> QED BY <4>4, <4>5
      <3> QED BY <3>5, <3>6
    <2>4. CASE Others /\ it[v] # End
      <3>1. it'[v] = it[v] /\ elem'[v] = elem[v] /\ stage' = stage
        BY <1>3, <2>4, OthersLeave DEF Others
      <3>2. PICK m, n : m = Len(rest'[it[v]]) /\ n = Len(rest[it[v]])
        OBVIOUS
      <3>3. m \in Nat /\ n \in Nat /\ m <= n
        <4>1. it[v] \in Streams
          BY <1>3, <2>4 DEF Typed
        <4>2. Suffix(rest[it[v]])' /\ Len(rest[it[v]]) \in Nat
          BY <1>1, <1>3, <3>1, <4>1, LengthsTyped DEF IInv, Typed
        <4>3. Len(rest'[it[v]]) \in Nat
          BY <1>1, <1>3, <3>1, <4>2 DEF Suffix
        <4> QED BY <1>3, <2>4, <3>2, <4>2, <4>3, OthersLeave DEF Others
      <3>4. stage = "advance" =>
                \A i \in DOMAIN visited : place[visited[i]] <= N - m + 1
        <4>1. stage = "advance" =>
                  \A i \in DOMAIN visited : place[visited[i]] <= N - n + 1
          BY <3>2 DEF Seen
        <4> QED BY <1>3, <1>4, <3>3, <4>1
      <3>5. stage' = "advance" =>
                \A i \in DOMAIN visited' :
                    place'[visited'[i]] <= N' - Len(rest'[it'[v]]) + 1
        BY <1>1, <1>2, <1>5, <3>1, <3>2, <3>4
      <3>6. stage' = "test" =>
                \A i \in DOMAIN visited' : place'[visited'[i]] < place'[elem'[v]]
        BY <1>1, <1>2, <1>5, <2>4, <3>1 DEF Seen
      <3> QED BY <1>5, <2>1, <2>4, <3>1, <3>5, <3>6 DEF Seen
    <2>5. CASE Others /\ it[v] = End
      <3>1. it'[v] = End /\ stage' = stage
        BY <1>3, <2>5, OthersStay DEF Others
      <3> QED BY <1>5, <2>1, <2>5, <3>1 DEF Seen
    <2>6. CASE Finish \/ UNCHANGED svars \/ \E e \in Entries : Change(e)
      <3>1. UNCHANGED <<it, elem, rest>> /\ (stage' = stage \/ stage' = "done")
        BY <2>6 DEF Finish, Change, svars, vars
      <3>2. stage' = "test" /\ it'[v] # End =>
                \A i \in DOMAIN visited' : place'[visited'[i]] < place'[elem'[v]]
        BY <1>1, <1>2, <1>5, <3>1 DEF Seen
      <3>3. stage' = "advance" =>
                /\ it'[v] # End
                /\ \A i \in DOMAIN visited' :
                       place'[visited'[i]] <= N' - Len(rest'[it'[v]]) + 1
        BY <1>1, <1>2, <1>5, <3>1 DEF Seen
      <3>4. stage' \in {"begin", "end"} => visited' = <<>>
        BY <1>5, <3>1 DEF Seen
      <3> QED BY <2>1, <3>2, <3>3, <3>4 DEF Seen
    <2>7. CASE Visit
      BY <1>5, <2>7, <1>3 DEF Visit, Seen
    <2> QED BY <2>2, <2>3, <2>4, <2>5, <2>6, <2>7, <2>8 DEF SNext
  <1>6. CASE Visit
    <2>1. /\ visited' = Append(visited, elem[v]) /\ stage' = "advance" /\ it' = it /\ rest' = rest
          /\ stage = "test" /\ it[v] # End
      BY <1>6 DEF Visit, vars
    <2>2. elem[v] \in Entries /\ place[elem[v]] <= N - Len(rest[it[v]]) + 1
      BY <1>3, <2>1, PositionHeld
    <2>3. \A i \in DOMAIN visited : place[visited[i]] < place[elem[v]]
      BY <2>1 DEF Seen
    <2>4. it[v] \in Streams /\ Len(rest[it[v]]) \in Nat
      BY <1>3, <2>1, LengthsTyped DEF Typed
    <2>5. PICK n : n = N - Len(rest[it[v]]) + 1
      OBVIOUS
    <2>6. n \in Int /\ place[elem[v]] \in Int
      BY <1>3, <2>2, <2>4, <2>5
    <2>7. visited \in Seq(Entries)
      BY DEF Seen
    <2>8. PICK k \in Nat : k = Len(visited)
      BY <2>7
    <2>9. /\ visited' \in Seq(Entries) /\ DOMAIN visited' = 1 .. k + 1 /\ DOMAIN visited = 1 .. k
          /\ \A i \in 1 .. k : visited'[i] = visited[i]
          /\ visited'[k + 1] = elem[v]
      BY <2>1, <2>2, <2>7, <2>8
    <2>10. \A i \in 1 .. k + 1 : i = k + 1 \/ i \in 1 .. k
      OBVIOUS
    <2>11. \A i \in DOMAIN visited' : place[visited'[i]] <= n
      BY <1>4, <2>2, <2>3, <2>5, <2>6, <2>9, <2>10
    <2>12. \A i, j \in DOMAIN visited' : i < j => place[visited'[i]] < place[visited'[j]]
      <3> SUFFICES ASSUME NEW i \in 1 .. k + 1, NEW j \in 1 .. k + 1, i < j
                   PROVE  place[visited'[i]] < place[visited'[j]]
        BY <2>9
      <3>1. i \in 1 .. k
        OBVIOUS
      <3>2. CASE j = k + 1
        BY <2>3, <2>9, <3>1, <3>2
      <3>3. CASE j \in 1 .. k
        BY <2>9, <3>1, <3>3 DEF Seen, Ordered
      <3> QED BY <2>10, <3>2, <3>3
    <2>13. Ordered'
      BY <1>1, <1>2, <2>12 DEF Ordered
    <2>14. \A i \in DOMAIN visited' : place'[visited'[i]] <= N' - Len(rest'[it'[v]]) + 1
      BY <1>1, <1>2, <2>1, <2>5, <2>11
    <2> QED BY <1>1, <2>1, <2>9, <2>13, <2>14 DEF Seen
  <1> QED BY <1>5, <1>6 DEF SNext, SBegin, SEnd, SAdvance, Finish, Others, Change, svars

\* No two elements that the loop gets are the same entry, and they come in the order of
\* the directory, although an exception leaves the element behind the stream and others
\* advance the stream in the middle of the loop.
THEOREM NeverTwice == SSpec => []Ascending
  <1>1. SInit => IInv /\ Seen
    <2>1. SInit => Seen
      BY DEF SInit, Seen, Ordered
    <2> QED BY <2>1, InitKept
  <1>2. IInv /\ Seen /\ [SNext]_svars => IInv' /\ Seen'
    BY StepKept, SeenKept
  <1>3. Seen => Ascending
    <2> SUFFICES ASSUME Seen PROVE Ascending
      OBVIOUS
    <2>1. \A i \in DOMAIN visited : visited[i] \in Entries
      BY DEF Seen
    <2>2. \A i \in DOMAIN visited : place[visited[i]] = Position(visited[i])
      BY <2>1 DEF place
    <2> QED BY <2>2 DEF Seen, Ordered, Ascending
  <1> QED BY <1>1, <1>2, <1>3, PTL DEF SSpec
-----------------------------------------------------------------------------
\* The place in the directory where the stream of v stands.
Here == N - Len(rest[it[v]]) + 1

Got(e) == \E i \in DOMAIN visited : visited[i] = e

\* Up to a place the loop has got what there was to get, and nothing else.
Met(n) == \A e \in Entries \ changed : place[e] <= n => (Due(e) <=> Got(e))

\* A loop over a category has something to get once a package is well named.
Named(n) == kind = "category" => \E e \in Entries : shape[e] = "good" /\ place[e] <= n

\* How far the loop is through, as long as its stream is moved by no other iterator.
Thorough ==
    ~disturbed =>
        /\ stage \in {"end", "test"} /\ it[v] # End =>
               /\ place[elem[v]] = Here /\ Met(Here - 1) /\ Named(Here)
               /\ elem[v] \notin changed => Due(elem[v])
        /\ stage = "advance" => Met(Here) /\ Named(Here)
        /\ (stage \in {"end", "test"} /\ it[v] = End) \/ stage = "done" => Met(N)

Shaped ==
    /\ kind \in Kinds /\ shape \in [Entries -> Shapes]
    /\ changed # {} => kind \in {"vdb", "repository"}

\* While nobody changes the directory, what begin meets is what it met before.
Failed ==
    changed = {} =>
        /\ stage # "begin" => (stage = "failed" <=> BeginThrows)
        /\ outcome = "terminated" => BeginThrows /\ kind \in {"package", "repository"}

\* A loop of begin or of ++ goes past what it should pass over, and past nothing else.
LEMMA ReachPasses ==
    ASSUME listing \in Directories, NEW first, NEW s, Suffix(s)
    PROVE  /\ \A p \in 1 .. N :
                  N - Len(s) < p /\ p <= N - Len(Reach(first, s)) => PassedOver(first, listing[p])
           /\ Reach(first, s) # <<>> => ~PassedOver(first, Head(Reach(first, s)))
  <1> DEFINE stops == {i \in 1 .. Len(s) : ~PassedOver(first, s[i])}
             least == CHOOSE i \in stops : \A j \in stops : i <= j
             t == Reach(first, s)
  <1>1. PICK n : n = Len(s)
    OBVIOUS
  <1>2. N \in Nat /\ n \in Nat /\ n <= N /\ s \in Seq(Entries)
    BY <1>1, ListingTyped DEF Suffix
  <1>3. ASSUME NEW p \in 1 .. N, N - n < p
        PROVE  p - (N - n) \in 1 .. n /\ s[p - (N - n)] = listing[p]
    <2>1. p - (N - n) \in 1 .. n /\ N - n + (p - (N - n)) = p
      BY <1>2, <1>3
    <2> QED BY <1>1, <2>1 DEF Suffix
  <1>4. \A i \in 1 .. n : i \notin stops => PassedOver(first, s[i])
    BY <1>1
  <1>5. CASE stops = {}
    <2>1. t = <<>>
      BY <1>5 DEF Reach
    <2>2. \A p \in 1 .. N : N - n < p => PassedOver(first, listing[p])
      BY <1>3, <1>4, <1>5
    <2> QED BY <1>1, <2>1, <2>2
  <1>6. CASE stops # {}
    <2>1. t = SubSeq(s, least, n)
      BY <1>1, <1>6 DEF Reach
    <2>2. stops \subseteq Nat
      BY <1>1, <1>2
    <2>3. \A i \in stops : i \in 1 .. n /\ ~PassedOver(first, s[i])
      BY <1>1
    <2> HIDE DEF stops, t
    <2>4. least \in stops /\ \A j \in stops : least <= j
      <3>1. \E i \in stops : \A j \in stops : i <= j
        BY <1>6, <2>2, Least
      <3> QED BY <3>1
    <2> HIDE DEF least
    <2>5. least \in 1 .. n /\ ~PassedOver(first, s[least])
      BY <2>3, <2>4
    <2>6. Len(t) = n - least + 1 /\ t[1] = s[least] /\ Head(t) = t[1]
      BY <1>1, <1>2, <2>1, <2>5
    <2>7. ASSUME NEW p \in 1 .. N, N - n < p, p <= N - Len(t)
          PROVE  PassedOver(first, listing[p])
      <3>1. p - (N - n) < least
        BY <1>2, <2>5, <2>6, <2>7
      <3>2. p - (N - n) \in 1 .. n /\ s[p - (N - n)] = listing[p]
        BY <1>3, <2>7
      <3>3. p - (N - n) \notin stops
        BY <1>2, <2>4, <2>5, <3>1, <3>2
      <3> QED BY <1>4, <3>2, <3>3
    <2> QED BY <1>1, <2>5, <2>6, <2>7 DEF t
  <1> QED BY <1>5, <1>6

LEMMA FirstPasses ==
    ASSUME listing \in Directories
    PROVE  /\ \A p \in 1 .. N : p <= N - Len(First) => PassedOver(TRUE, listing[p])
           /\ First # <<>> => ~PassedOver(TRUE, Head(First))
  <1>1. Suffix(listing) /\ N \in Nat /\ \A p \in 1 .. N : N - N < p
    BY SuffixWhole, ListingTyped
  <1> QED BY <1>1, ReachPasses DEF First, N

LEMMA LeftPasses ==
    ASSUME Typed, NEW w \in Vars, it[w] # End
    PROVE  /\ \A p \in 1 .. N :
                  N - Len(rest[it[w]]) + 1 < p /\ p <= N - Len(Left(w)) =>
                      PassedOver(FALSE, listing[p])
           /\ Left(w) # <<>> => ~PassedOver(FALSE, Head(Left(w)))
  <1> DEFINE s == rest[it[w]]
  <1>1. it[w] \in Streams /\ Suffix(s) /\ listing \in Directories /\ N \in Nat
    BY LengthsTyped DEF Typed
  <1>2. CASE s = <<>>
    <2>1. Left(w) = <<>> /\ Len(s) = 0
      BY <1>2 DEF Left
    <2>2. \A p \in 1 .. N : ~(N - 0 + 1 < p)
      BY <1>1
    <2> QED BY <2>1, <2>2
  <1>3. CASE s # <<>>
    <2>1. Left(w) = Reach(FALSE, Tail(s))
      BY <1>3 DEF Left
    <2> HIDE DEF s
    <2>2. Suffix(Tail(s)) /\ Len(Tail(s)) = Len(s) - 1
      BY <1>1, <1>3, SuffixTail
    <2>3. PICK n, m : n \in Nat /\ n = Len(s) /\ m = Len(Tail(s))
      BY <1>1 DEF Suffix
    <2>4. m = n - 1 /\ N \in Nat /\ n \in Nat
      BY <1>1, <2>2, <2>3
    <2>5. N - m = N - n + 1
      BY <2>4
    <2> QED BY <1>1, <2>1, <2>2, <2>3, <2>5, ReachPasses DEF s
  <1> QED BY <1>2, <1>3

-----------------------------------------------------------------------------
LEMMA PlaceIs ==
    ASSUME listing \in Directories
    PROVE  \A e \in Entries : place[e] \in 1 .. N /\ listing[place[e]] = e
  <1>1. \A e \in Entries : \E p \in 1 .. N : e = listing[p]
    BY DEF Entries, N
  <1> QED BY <1>1, PositionIs

LEMMA DueIs ==
    ASSUME listing \in Directories
    PROVE  \A e \in Entries :
               Due(e) <=> \/ shape[e] = "good"
                          \/ /\ kind = "category" /\ shape[e] = "odd"
                             /\ \E d \in Entries : shape[d] = "good" /\ place[d] < place[e]
  BY DEF Due, place

\* What can be built is due; a category can build nothing else than what is well named.
LEMMA BuiltIsDue ==
    ASSUME Shaped, NEW e \in Entries
    PROVE  /\ PassedOver(FALSE, e) => shape[e] = "other"
           /\ PassedOver(TRUE, e) => shape[e] # "good"
           /\ ~PassedOver(TRUE, e) /\ ~Refused(e) => shape[e] = "good"
           /\ ~PassedOver(FALSE, e) /\ ~Refused(e) =>
                  shape[e] = "good" \/ (kind = "category" /\ shape[e] = "odd")
           /\ Refused(e) => kind # "category" /\ shape[e] # "good"
  <1>1. kind \in {"vdb", "package", "category", "repository"} /\ shape[e] \in Shapes
    BY IteratorAssumption DEF Shaped
  <1>2. shape[e] \in {"good", "odd", "other"} /\ (kind = "repository" => shape[e] # "other")
    BY <1>1 DEF Shapes
  <1> QED BY <1>1, <1>2 DEF PassedOver, Refused

\* A step changes the directory of a vdb or repository only, at an entry that counts as changed.
LEMMA Unaltered ==
    ASSUME Shaped, [SNext]_svars
    PROVE  /\ UNCHANGED <<listing, kind>> /\ N' = N /\ Entries' = Entries /\ place' = place
           /\ changed \subseteq changed' /\ (shape' = shape \/ kind \in {"vdb", "repository"})
           /\ changed' = {} => shape' = shape
           /\ \A e \in Entries \ changed' : Due(e)' <=> Due(e)
           /\ Shaped'
  <1>1. UNCHANGED <<listing, kind>>
    BY DEF SNext, SBegin, SEnd, Visit, SAdvance, Finish, Others, Change, Calls, Begin, AssignEnd,
           Copy, PreIncrement, PostIncrement, svars, vars
  <1>2. N' = N /\ Entries' = Entries
    BY <1>1 DEF N, Entries
  <1>3. place' = place
    BY <1>1, <1>2 DEF place, Position
  <1>4. CASE shape' = shape /\ changed' = changed
    <2>1. \A e \in Entries : Due(e)' <=> Due(e)
      BY <1>1, <1>2, <1>4 DEF Due, Position
    <2>2. Shaped'
      BY <1>1, <1>2, <1>4 DEF Shaped, Shapes
    <2> QED BY <1>1, <1>2, <1>3, <1>4, <2>1, <2>2
  <1>5. CASE \E e \in Entries : Change(e)
    <2>1. PICK c \in Entries : Change(c)
      BY <1>5
    <2>2. kind \in {"vdb", "repository"} /\ changed' = changed \cup {c} /\ c \notin changed
      BY <2>1 DEF Change
    <2>3. \A e \in Entries : e # c => shape'[e] = shape[e]
      BY <2>1 DEF Change, Shaped
    <2>4. \A e \in Entries \ changed' : Due(e)' <=> Due(e)
      BY <1>1, <2>2, <2>3 DEF Due
    <2>5. shape' \in [Entries -> {"good", "odd"}]
      BY <2>1, <2>2 DEF Change, Shaped, Shapes
    <2>6. Shaped'
      BY <1>1, <1>2, <2>2, <2>5 DEF Shaped, Shapes
    <2> QED BY <1>1, <1>2, <1>3, <2>2, <2>4, <2>6
  <1>6. CASE Others
    BY <1>4, <1>6 DEF Others, Calls, Begin, AssignEnd, Copy, PreIncrement, PostIncrement
  <1>7. CASE SBegin \/ SEnd \/ SAdvance
    BY <1>4, <1>7 DEF SBegin, SEnd, SAdvance, Begin, PreIncrement
  <1>8. CASE Visit \/ Finish \/ UNCHANGED svars
    BY <1>4, <1>8 DEF Visit, Finish, svars, vars
  <1> QED BY <1>5, <1>6, <1>7, <1>8 DEF SNext

LEMMA MetKept ==
    ASSUME Shaped, [SNext]_svars, visited' = visited, NEW n, Met(n)
    PROVE  Met(n)'
  <1>1. \A e \in Entries : Got(e)' <=> Got(e)
    BY DEF Got
  <1>2. \A e \in Entries \ changed' : Due(e)' <=> Due(e)
    BY Unaltered
  <1>3. Entries' = Entries /\ place' = place /\ changed \subseteq changed'
    BY Unaltered
  <1> QED BY <1>1, <1>2, <1>3 DEF Met

LEMMA NamedKept == ASSUME Shaped, [SNext]_svars, NEW n, Named(n) PROVE Named(n)'
  <1>1. /\ UNCHANGED kind /\ Entries' = Entries /\ place' = place
        /\ shape' = shape \/ kind \in {"vdb", "repository"}
    BY Unaltered
  <1> QED BY <1>1 DEF Named

\* Steps that leave the loop's iterator alone.
LEMMA ThoroughCarried ==
    ASSUME IInv, Seen, Shaped, Thorough, [SNext]_svars, visited' = visited,
           ~disturbed' =>
               /\ ~disturbed /\ it'[v] = it[v]
               /\ it[v] # End => elem'[v] = elem[v] /\ rest'[it[v]] = rest[it[v]]
               /\ \/ stage' = stage
                  \/ stage = "test" /\ it[v] = End /\ stage' = "done"
                  \/ stage = "end" /\ stage' \in {"test", "failed"}
    PROVE  Thorough'
  <1> SUFFICES ASSUME ~disturbed' PROVE Thorough'
    BY DEF Thorough
  <1>1. PICK n : n = Here
    OBVIOUS
  <1>2. N' = N /\ place' = place /\ changed \subseteq changed'
    BY Unaltered
  <1>3. v \in Vars /\ N \in Nat
    BY ScanAssumption, LengthsTyped DEF IInv
  <1>4. it[v] # End => Here' = n
    BY <1>1, <1>2 DEF Here
  <1>5. (stage \in {"end", "test"} /\ it[v] = End) \/ stage = "done" => Met(N)'
    <2>1. PICK m : m = N
      OBVIOUS
    <2>2. Met(m) => Met(m)'
      BY MetKept
    <2>3. (stage \in {"end", "test"} /\ it[v] = End) \/ stage = "done" => Met(m)'
      BY <2>1, <2>2 DEF Thorough
    <2> QED BY <1>2, <2>1, <2>3 DEF Met
  <1>6. CASE stage \in {"end", "test"} /\ it[v] # End
    <2>1. place[elem[v]] = n /\ Met(n - 1) /\ Named(n) /\ (elem[v] \notin changed => Due(elem[v]))
      BY <1>1, <1>6 DEF Thorough
    <2>2. Met(n - 1)' /\ Named(n)'
      BY <2>1, MetKept, NamedKept
    <2>3. Met(Here - 1)' /\ Named(Here)'
      BY <1>4, <1>6, <2>2 DEF Met, Named
    <2>4. elem[v] \in Entries
      BY <1>3, <1>6, PositionHeld
    <2>5. elem[v] \notin changed' => Due(elem[v])'
      <3>1. \A e \in Entries \ changed' : Due(e)' <=> Due(e)
        BY Unaltered
      <3> SUFFICES ASSUME elem[v] \notin changed' PROVE Due(elem[v])'
        OBVIOUS
      <3>2. PICK e \in Entries \ changed' : e = elem[v]
        BY <2>4
      <3>3. Due(e)'
        BY <1>2, <2>1, <3>1, <3>2
      <3> QED BY <1>6, <3>2, <3>3 DEF Due
    <2> QED BY <1>2, <1>4, <1>6, <2>1, <2>3, <2>5 DEF Thorough
  <1>7. CASE stage = "advance"
    <2>1. Met(n) /\ Named(n)
      BY <1>1, <1>7 DEF Thorough
    <2>2. Met(n)' /\ Named(n)'
      BY <2>1, MetKept, NamedKept
    <2>3. Met(Here)' /\ Named(Here)'
      BY <1>4, <1>7, <2>2 DEF Seen, Met, Named
    <2> QED BY <1>7, <2>3 DEF Thorough
  <1>8. CASE stage \notin {"end", "test", "advance"} \/ (stage \in {"end", "test"} /\ it[v] = End)
    BY <1>5, <1>8 DEF Thorough
  <1> QED BY <1>6, <1>7, <1>8

LEMMA BeginThorough == ASSUME IInv, Seen, Shaped, SBegin PROVE Thorough'
  <1>1. /\ Typed /\ listing \in Directories /\ N \in Nat /\ v \in Vars /\ Begin(v)
        /\ visited = <<>> /\ visited' = <<>> /\ changed' = changed
        /\ stage' \in {"end", "failed"} /\ (stage' = "end" => outcome' = "returned")
    BY ScanAssumption, LengthsTyped DEF IInv, Typed, Seen, SBegin
  <1>2. /\ UNCHANGED <<listing, kind, shape>> /\ N' = N /\ Entries' = Entries /\ place' = place
        /\ [SNext]_svars
    BY <1>1, Unaltered DEF SNext, SBegin, Begin
  <1>3. \A e \in Entries \ changed' : Due(e)' <=> Due(e)
    BY <1>2, Unaltered
  <1>4. PICK n : n = N - Len(First)
    OBVIOUS
  <1>5. /\ \A e \in Entries : place[e] \in 1 .. N /\ listing[place[e]] = e
        /\ \A p \in 1 .. N : place[listing[p]] = p /\ listing[p] \in Entries
    BY <1>1, PlaceIs, PositionIs DEF Entries, N
  <1>6. \A e \in Entries : place[e] <= n => shape[e] # "good"
    <2> SUFFICES ASSUME NEW e \in Entries, place[e] <= n PROVE shape[e] # "good"
      OBVIOUS
    <2>1. PICK p \in 1 .. N : p = place[e] /\ p <= N - Len(First) /\ listing[p] = e
      BY <1>4, <1>5
    <2>2. PassedOver(TRUE, e)
      BY <1>1, <2>1, FirstPasses
    <2> QED BY <2>2, BuiltIsDue
  <1>7. \A e \in Entries : place[e] <= n => ~Due(e)
    <2>1. n \in Int
      <3>1. Len(First) \in 0 .. N
        BY <1>1, FirstStops DEF Suffix
      <3>2. PICK k : k = Len(First)
        OBVIOUS
      <3> QED BY <1>1, <1>4, <3>1, <3>2
    <2>2. ASSUME NEW e \in Entries, NEW d \in Entries, place[e] <= n, place[d] < place[e]
          PROVE  shape[d] # "good"
      BY <1>1, <1>5, <1>6, <2>1, <2>2
    <2> QED BY <1>1, <1>6, <2>2, DueIs
  <1>8. \A e \in Entries : ~Got(e)'
    BY <1>1 DEF Got
  <1>9. Met(n)'
    BY <1>2, <1>3, <1>7, <1>8 DEF Met
  <1> SUFFICES ASSUME stage' = "end" PROVE Thorough'
    BY <1>1 DEF Thorough
  <1>12. ~BeginThrows
    BY <1>1 DEF Begin, Fail
  <1>10. CASE First = <<>>
    <2>1. it'[v] = End
      BY <1>1, <1>10, <1>12 DEF Begin, Typed
    <2>2. n = N
      BY <1>1, <1>4, <1>10
    <2> QED BY <1>2, <1>9, <2>1, <2>2 DEF Thorough, Met
  <1>11. CASE First # <<>>
    <2>1. ~BeginThrows
      BY <1>12
    <2>2. PICK d \in Streams :
              it' = [it EXCEPT ![v] = d] /\ Close([rest EXCEPT ![d] = First])
      BY <1>1, <1>11, <2>1 DEF Begin
    <2>3. it'[v] = d /\ rest'[d] = First /\ elem'[v] = Head(First)
      BY <1>1, <1>11, <2>1, <2>2 DEF Begin, Typed, Close
    <2>4. Head(First) = listing[N - Len(First) + 1] /\ Len(First) \in 1 .. N
      BY <1>1, <1>11, FirstStops
    <2>5. PICK k : k = Len(First)
      OBVIOUS
    <2>6. n + 1 \in 1 .. N /\ n = N - k /\ n + 1 = N - k + 1 /\ n = n + 1 - 1
      BY <1>1, <1>4, <2>4, <2>5
    <2>7. Head(First) = listing[n + 1] /\ Here' = n + 1
      BY <1>2, <2>3, <2>4, <2>5, <2>6 DEF Here
    <2>8. Head(First) \in Entries /\ place[Head(First)] = n + 1
      BY <1>5, <2>6, <2>7
    <2>9. shape[Head(First)] = "good"
      <3>1. ~Refused(Head(First))
        BY <1>11, <2>1, <2>8 DEF BeginThrows
      <3> QED BY <1>1, <1>11, <2>8, <3>1, FirstPasses, BuiltIsDue
    <2>10. Due(Head(First))
      BY <2>9 DEF Due
    <2>11. Named(n + 1)'
      BY <1>2, <2>6, <2>8, <2>9 DEF Named
    <2>12. Met(Here - 1)' /\ Named(Here)'
      BY <1>9, <2>6, <2>7, <2>11 DEF Met, Named
    <2>13. elem'[v] \notin changed' => Due(elem[v])'
      <3> SUFFICES ASSUME elem'[v] \notin changed' PROVE Due(elem[v])'
        OBVIOUS
      <3>1. PICK e \in Entries \ changed' : e = elem'[v]
        BY <2>3, <2>8
      <3>2. Due(e)'
        BY <1>3, <2>3, <2>10, <3>1
      <3> QED BY <3>1, <3>2 DEF Due
    <2>14. place'[elem'[v]] = Here'
      BY <1>2, <2>3, <2>7, <2>8
    <2> QED BY <2>3, <2>12, <2>13, <2>14, IteratorAssumption DEF Thorough
  <1> QED BY <1>10, <1>11

LEMMA VisitThorough == ASSUME IInv, Seen, Shaped, Thorough, Visit PROVE Thorough'
  <1>1. /\ visited' = Append(visited, elem[v]) /\ stage = "test" /\ stage' = "advance"
        /\ it[v] # End /\ UNCHANGED <<vars, disturbed, changed>>
    BY DEF Visit
  <1> SUFFICES ASSUME ~disturbed PROVE Thorough'
    BY <1>1 DEF Thorough
  <1>2. /\ Typed /\ v \in Vars /\ N \in Nat /\ elem[v] \in Entries /\ visited \in Seq(Entries)
        /\ [SNext]_svars
    BY <1>1, ScanAssumption, LengthsTyped, PositionHeld DEF IInv, Seen, SNext
  <1>3. PICK n : n = Here
    OBVIOUS
  <1>4. /\ place[elem[v]] = n /\ Met(n - 1) /\ Named(n)
        /\ elem[v] \notin changed => Due(elem[v])
    BY <1>1, <1>3 DEF Thorough
  <1>5. N' = N /\ Here' = n /\ Named(n)' /\ Entries' = Entries /\ place' = place
    BY <1>1, <1>2, <1>3, <1>4, Unaltered, NamedKept DEF Here, vars
  <1>6. \A e \in Entries \ changed' : Due(e)' <=> Due(e)
    BY <1>2, Unaltered
  <1>7. \A e \in Entries : Got(e)' <=> Got(e) \/ e = elem[v]
    <2>1. PICK k \in Nat : k = Len(visited)
      BY <1>2
    <2>2. /\ DOMAIN visited' = 1 .. k + 1 /\ DOMAIN visited = 1 .. k
          /\ \A i \in 1 .. k : visited'[i] = visited[i] /\ visited'[k + 1] = elem[v]
          /\ visited'[k + 1] = elem[v] /\ k + 1 \in 1 .. k + 1
      BY <1>1, <1>2, <2>1
    <2>3. \A i \in 1 .. k + 1 : i = k + 1 \/ i \in 1 .. k
      OBVIOUS
    <2>4. \A i \in 1 .. k : i \in 1 .. k + 1
      OBVIOUS
    <2> QED BY <2>2, <2>3, <2>4 DEF Got
  <1>8. \A e \in Entries : place[e] \in 1 .. N /\ listing[place[e]] = e
    BY <1>2, PlaceIs DEF Typed
  <1>9. ASSUME NEW e \in Entries \ changed, place[e] <= n PROVE Due(e) <=> Got(e) \/ e = elem[v]
    <2>1. CASE place[e] <= n - 1
      <3>1. Due(e) <=> Got(e)
        BY <1>4, <2>1 DEF Met
      <3>2. e = elem[v] => Due(e)
        BY <1>4, <1>9
      <3> QED BY <3>1, <3>2
    <2>2. CASE place[e] = n
      <3>1. e = elem[v]
        BY <1>2, <1>4, <1>8, <2>2
      <3>2. Due(e)
        BY <1>4, <1>9, <3>1
      <3> QED BY <3>1, <3>2
    <2> QED BY <1>2, <1>4, <1>8, <1>9, <2>1, <2>2
  <1>10. Met(n)'
    BY <1>1, <1>5, <1>6, <1>7, <1>9 DEF Met
  <1>11. Met(Here)' /\ Named(Here)'
    BY <1>5, <1>10 DEF Met, Named
  <1> QED BY <1>1, <1>11 DEF Thorough

LEMMA AdvanceThorough == ASSUME IInv, Seen, Shaped, Thorough, SAdvance PROVE Thorough'
  <1>1. /\ stage = "advance" /\ PreIncrement(v) /\ it[v] # End
        /\ UNCHANGED <<visited, disturbed, changed, listing, kind, shape>> /\ [SNext]_svars
    BY DEF SAdvance, PreIncrement, Seen, SNext
  <1> SUFFICES ASSUME ~disturbed PROVE Thorough'
    BY <1>1 DEF Thorough
  <1>2. /\ Typed /\ v \in Vars /\ N \in Nat /\ it[v] \in Streams /\ DOMAIN elem = Vars
        /\ listing \in Directories /\ Len(rest[it[v]]) \in Nat
    BY <1>1, ScanAssumption, LengthsTyped DEF IInv, Typed
  <1>3. PICK h, n : h = Here /\ n = N - Len(Left(v))
    OBVIOUS
  <1>4. h \in Int /\ n \in Int /\ n <= N /\ (Left(v) # <<>> => n + 1 \in 1 .. N /\ h < n + 1)
    <2>1. Len(Left(v)) \in 0 .. N
      BY <1>2, LeftStops DEF Suffix
    <2>2. Left(v) # <<>> => Len(Left(v)) \in 1 .. N /\ Len(Left(v)) < Len(rest[it[v]])
      BY <1>2, LeftStops
    <2>3. PICK k, m : k = Len(Left(v)) /\ m = Len(rest[it[v]])
      OBVIOUS
    <2>4. h = N - m + 1 /\ n = N - k
      BY <1>3, <2>3 DEF Here
    <2>5. m \in Nat /\ k \in 0 .. N /\ (Left(v) # <<>> => k \in 1 .. N /\ k < m)
      BY <1>2, <2>1, <2>2, <2>3
    <2> QED BY <1>2, <2>4, <2>5
  <1>5. /\ \A e \in Entries : place[e] \in 1 .. N /\ listing[place[e]] = e
        /\ \A p \in 1 .. N : place[listing[p]] = p /\ listing[p] \in Entries
    BY <1>2, PlaceIs, PositionIs DEF Entries, N
  <1>6. Met(h) /\ Named(h)
    BY <1>1, <1>3 DEF Thorough
  <1>7. \A e \in Entries : h < place[e] => ~Got(e)
    <2>1. \A i \in DOMAIN visited : visited[i] \in Entries /\ place[visited[i]] <= h
      BY <1>1, <1>3 DEF Seen, Here
    <2> QED BY <1>4, <1>5, <2>1 DEF Got
  <1>8. \A e \in Entries : h < place[e] /\ place[e] <= n => PassedOver(FALSE, e)
    <2>1. \A p \in 1 .. N : h < p /\ p <= n => PassedOver(FALSE, listing[p])
      BY <1>1, <1>2, <1>3, LeftPasses DEF Here
    <2> QED BY <1>5, <2>1
  <1>9. Met(n)
    <2> SUFFICES ASSUME NEW e \in Entries \ changed, place[e] <= n PROVE Due(e) <=> Got(e)
      BY DEF Met
    <2>1. CASE place[e] <= h
      BY <1>6, <2>1 DEF Met
    <2>2. CASE h < place[e]
      <3>1. shape[e] = "other"
        BY <1>8, <2>2, BuiltIsDue
      <3>2. ~Due(e)
        BY <3>1 DEF Due
      <3> QED BY <1>7, <2>2, <3>2
    <2> QED BY <1>4, <1>5, <2>1, <2>2
  <1>10. N' = N /\ Entries' = Entries /\ place' = place /\ Met(n)' /\ Named(h)'
    BY <1>1, <1>6, <1>9, MetKept, NamedKept, Unaltered
  <1>11. \A e \in Entries \ changed : Due(e)' <=> Due(e)
    BY <1>1, Unaltered
  <1>12. CASE Left(v) = <<>>
    <2>1. it'[v] = End /\ stage' = "test"
      BY <1>1, <1>2, <1>12, MovedTyped DEF SAdvance, PreIncrement, BuildThrows, Return
    <2>2. n = N
      BY <1>2, <1>3, <1>12
    <2> QED BY <1>10, <2>1, <2>2 DEF Thorough, Met
  <1>13. CASE Left(v) # <<>>
    <2> DEFINE e == Head(Left(v))
    <2>1. it'[v] = it[v] /\ it'[v] # End /\ rest'[it[v]] = Left(v)
      BY <1>1, <1>2, <1>13, MovedTyped, AheadMoves DEF PreIncrement, Close
    <2>2. Here' = n + 1 /\ e = listing[n + 1]
      <3>1. e = listing[N - Len(Left(v)) + 1]
        BY <1>2, <1>13, LeftStops
      <3>2. Here' = N - Len(Left(v)) + 1
        BY <1>10, <2>1 DEF Here
      <3> QED BY <1>3, <3>1, <3>2
    <2>3. ~PassedOver(FALSE, e)
      BY <1>1, <1>2, <1>13, LeftPasses
    <2> HIDE DEF e
    <2>4. e \in Entries /\ place[e] = n + 1
      BY <1>4, <1>5, <1>13, <2>2
    <2>5. Named(n + 1)'
      <3> SUFFICES ASSUME kind' = "category"
                   PROVE  \E d \in Entries' : shape'[d] = "good" /\ place'[d] <= n + 1
        BY DEF Named
      <3>1. PICK d \in Entries : shape'[d] = "good" /\ place[d] <= h
        BY <1>10 DEF Named
      <3>2. place[d] <= n + 1
        BY <1>4, <1>5, <1>13, <3>1
      <3> QED BY <1>10, <3>1, <3>2
    <2>6. Named(Here)'
      BY <2>2, <2>5 DEF Named
    <2>7. CASE Refused(e)
      <3>1. stage' = "advance"
        BY <1>1, <1>13, <2>7, IteratorAssumption DEF SAdvance, PreIncrement, BuildThrows, Throw, e
      <3>2. ~Due(e)
        BY <1>2, <2>4, <2>7, DueIs, BuiltIsDue
      <3>3. Met(n + 1)
        <4> SUFFICES ASSUME NEW d \in Entries \ changed, place[d] <= n + 1
                     PROVE  Due(d) <=> Got(d)
          BY DEF Met
        <4>1. CASE place[d] <= n
          BY <1>9, <4>1 DEF Met
        <4>2. CASE place[d] = n + 1
          <5>1. d = e
            BY <1>5, <2>4, <4>2
          <5>2. ~Got(d)
            BY <1>4, <1>7, <1>13, <4>2
          <5> QED BY <3>2, <5>1, <5>2
        <4> QED BY <1>4, <1>5, <4>1, <4>2
      <3>4. Met(n + 1)'
        BY <1>1, <3>3, MetKept
      <3>5. Met(Here)'
        BY <2>2, <3>4 DEF Met
      <3> QED BY <2>6, <3>1, <3>5 DEF Thorough
    <2>8. CASE ~Refused(e)
      <3>1. stage' = "test" /\ elem'[v] = e
        BY <1>1, <1>2, <1>13, <2>8
           DEF SAdvance, PreIncrement, BuildThrows, NextElem, Return, e
      <3>2. Due(e)
        <4>1. CASE shape[e] = "good"
          BY <4>1 DEF Due
        <4>2. CASE kind = "category" /\ shape[e] = "odd"
          <5>1. PICK d \in Entries : shape[d] = "good" /\ place[d] <= h
            BY <1>6, <4>2 DEF Named
          <5>2. place[d] < place[e]
            BY <1>4, <1>5, <1>13, <2>4, <5>1
          <5> QED BY <1>2, <2>4, <4>2, <5>1, <5>2, DueIs
        <4> QED BY <2>3, <2>4, <2>8, <4>1, <4>2, BuiltIsDue
      <3>3. Met(Here - 1)'
        <4>1. Here' - 1 = n
          BY <1>4, <2>2
        <4> QED BY <1>10, <4>1 DEF Met
      <3>4. PICK d : d = e
        OBVIOUS
      <3>5. elem'[v] \notin changed' => Due(elem[v])'
        <4>1. d \in Entries /\ Due(d) /\ elem'[v] = d
          BY <2>4, <3>1, <3>2, <3>4
        <4>2. d \notin changed => Due(d)'
          BY <1>11, <4>1
        <4> QED BY <1>1, <4>1, <4>2 DEF Due
      <3>6. place'[elem'[v]] = Here'
        BY <1>10, <2>2, <2>4, <3>1
      <3> QED BY <2>1, <2>6, <3>1, <3>3, <3>5, <3>6 DEF Thorough
    <2> QED BY <2>7, <2>8
  <1> QED BY <1>12, <1>13

LEMMA ThoroughKept == IInv /\ Seen /\ Shaped /\ Thorough /\ [SNext]_svars => Thorough'
  <1> SUFFICES ASSUME IInv, Seen, Shaped, Thorough, [SNext]_svars PROVE Thorough'
    OBVIOUS
  <1>1. CASE SBegin
    BY <1>1, BeginThorough
  <1>2. CASE Visit
    BY <1>2, VisitThorough
  <1>3. CASE SAdvance
    BY <1>3, AdvanceThorough
  <1>4. CASE Others
    <2>1. visited' = visited /\ stage' = stage
      BY <1>4 DEF Others
    <2>2. CASE it[v] = End
      <3>1. it'[v] = it[v] /\ (~disturbed' => ~disturbed)
        BY <1>4, <2>2, OthersStay DEF Others, IInv
      <3> QED BY <2>1, <2>2, <3>1, ThoroughCarried
    <2>3. CASE it[v] # End
      <3>1. it'[v] = it[v] /\ elem'[v] = elem[v]
        BY <1>4, <2>3, OthersLeave DEF Others, IInv
      <3>2. ~disturbed' => ~disturbed /\ rest'[it[v]] = rest[it[v]]
        BY <1>4, <2>3 DEF Others
      <3> QED BY <2>1, <3>1, <3>2, ThoroughCarried
    <2> QED BY <2>2, <2>3
  <1>5. CASE SEnd \/ Finish \/ UNCHANGED svars \/ \E e \in Entries : Change(e)
    <2>1. UNCHANGED <<visited, disturbed, it, elem, rest>>
      BY <1>5 DEF SEnd, Finish, Change, svars, vars
    <2>2. \/ stage' = stage
          \/ stage = "test" /\ it[v] = End /\ stage' = "done"
          \/ stage = "end" /\ stage' \in {"test", "failed"}
      BY <1>5 DEF SEnd, Finish, Change, svars
    <2> QED BY <2>1, <2>2, ThoroughCarried
  <1> QED BY <1>1, <1>2, <1>3, <1>4, <1>5 DEF SNext

\* The loop visits every entry that can be built and nothing else, in the order of the
\* directory, however many entries throw and whatever packages are merged meanwhile, as
\* long as no copy of its iterator is advanced.
THEOREM VisitsEveryEntryAlways == SSpec => []VisitsEveryEntry
  <1>1. SInit => IInv /\ Seen /\ Shaped /\ Thorough
    <2>1. SInit => Seen
      BY DEF SInit, Seen, Ordered
    <2>2. SInit => Shaped
      BY DEF SInit, Init, Shaped
    <2>3. SInit => Thorough
      BY DEF SInit, Thorough
    <2> QED BY <2>1, <2>2, <2>3, InitKept
  <1>2. IInv /\ Seen /\ Shaped /\ Thorough /\ [SNext]_svars => (IInv /\ Seen /\ Shaped /\ Thorough)'
    BY StepKept, SeenKept, Unaltered, ThoroughKept
  <1>3. IInv /\ Thorough /\ Ascending => VisitsEveryEntry
    <2> SUFFICES ASSUME IInv, Thorough, stage = "done", ~disturbed, NEW e \in Entries \ changed
                 PROVE  Due(e) <=> \E i \in DOMAIN visited : visited[i] = e
      BY DEF VisitsEveryEntry
    <2>1. Met(N)
      BY DEF Thorough
    <2>2. place[e] <= N
      BY PositionIs, LengthsTyped DEF IInv, Typed
    <2> QED BY <2>1, <2>2 DEF Met, Got
  <1> QED BY <1>1, <1>2, <1>3, NeverTwice, PTL DEF SSpec

-----------------------------------------------------------------------------
LEMMA FailedKept == Shaped /\ Failed /\ [SNext]_svars => Failed'
  <1> SUFFICES ASSUME Shaped, Failed, [SNext]_svars, changed' = {} PROVE Failed'
    BY DEF Failed
  <1>1. changed = {} /\ UNCHANGED <<listing, kind, shape>>
    BY Unaltered
  <1>2. BeginThrows' <=> BeginThrows
    BY <1>1 DEF BeginThrows, First, Reach, PassedOver, Refused, Entries
  <1>3. kind \in {"vdb", "package", "category", "repository"}
    BY IteratorAssumption DEF Shaped
  <1>4. BeginThrows => kind \in {"vdb", "package", "repository"}
    BY DEF BeginThrows, Refused
  <1>5. /\ stage # "begin" => (stage = "failed" <=> BeginThrows)
        /\ outcome = "terminated" => BeginThrows /\ kind \in {"package", "repository"}
    BY <1>1 DEF Failed
  <1>6. ASSUME NEW u \in Vars, Begin(u) \/ AssignEnd(u)
        PROVE  outcome' = "terminated" => BeginThrows /\ kind \in {"package", "repository"}
    BY <1>4, <1>6 DEF Begin, AssignEnd, Fail, Return
  <1>7. ASSUME Begin(v) PROVE outcome' = "returned" <=> ~BeginThrows
    BY <1>7 DEF Begin, Fail, Return
  <1>8. CASE SBegin
    <2>1. stage' \in {"end", "failed"} /\ (stage' = "failed" <=> outcome' # "returned") /\ Begin(v)
      BY <1>8 DEF SBegin
    <2> QED BY <1>2, <1>1, <1>6, <1>7, <2>1, ScanAssumption DEF Failed
  <1>13. CASE SEnd
    <2>1. ~BeginThrows
      BY <1>5, <1>13 DEF SEnd
    <2>2. stage' = "test" /\ outcome' = "returned"
      BY <1>13, <2>1 DEF SEnd, Return
    <2> QED BY <1>2, <2>1, <2>2 DEF Failed
  <1>9. CASE SAdvance
    <2>1. stage = "advance" /\ stage' \in {"advance", "test"} /\ outcome' \in {"threw", "returned"}
      BY <1>9 DEF SAdvance, PreIncrement, Throw, Return
    <2> QED BY <1>1, <1>2, <1>5, <2>1 DEF Failed
  <1>10. CASE Others
    <2>1. stage' = stage
      BY <1>10 DEF Others
    <2>2. outcome' = "terminated" => BeginThrows /\ kind \in {"package", "repository"}
      <3>1. ASSUME NEW u \in Vars, NEW w \in Vars, Copy(u, w) \/ PreIncrement(w) \/ PostIncrement(u, w)
            PROVE  outcome' # "terminated"
        BY <3>1 DEF Copy, PreIncrement, PostIncrement, Throw, Return
      <3> QED BY <1>6, <1>10, <3>1 DEF Others, Calls
    <2> QED BY <1>1, <1>2, <1>5, <2>1, <2>2 DEF Failed
  <1>11. CASE Visit \/ Finish \/ UNCHANGED svars
    <2>1. /\ outcome' = outcome
          /\ stage' = stage \/ (stage \in {"test", "done"} /\ stage' \in {"advance", "done"})
      BY <1>11 DEF Visit, Finish, svars, vars
    <2> QED BY <1>1, <1>2, <1>5, <2>1 DEF Failed
  <1>12. ~\E e \in Entries : Change(e)
    BY DEF Change
  <1> QED BY <1>8, <1>9, <1>10, <1>11, <1>12, <1>13 DEF SNext

\* In a directory that nobody changes the loop gets no start exactly when the first entry
\* that is looked at cannot be built, or any line of profiles/categories is odd, and no
\* iterator ends the program for another reason.
THEOREM OneHidesAllAlways == SSpec => []OneHidesAll
  <1>1. SInit => IInv /\ Shaped /\ Failed
    <2>1. SInit => Shaped
      BY DEF SInit, Init, Shaped
    <2>2. SInit => Failed
      BY DEF SInit, Init, Failed
    <2> QED BY <2>1, <2>2, InitKept
  <1>2. IInv /\ Shaped /\ Failed /\ [SNext]_svars => (IInv /\ Shaped /\ Failed)'
    BY StepKept, Unaltered, FailedKept
  <1>3. IInv /\ Shaped /\ Failed => OneHidesAll
    <2> SUFFICES ASSUME IInv, Shaped, Failed, changed = {}
                 PROVE  LET hidden == \E e \in Entries :
                                /\ shape[e] = "odd"
                                /\ \/ kind = "repository"
                                   \/ /\ kind \in {"vdb", "package"}
                                      /\ \A d \in Entries :
                                             Position(d) < Position(e) => shape[d] = "other"
                        IN  /\ stage # "begin" => (stage = "failed" <=> hidden)
                            /\ outcome = "terminated" => hidden /\ kind \in {"package", "repository"}
      BY DEF OneHidesAll
    <2> DEFINE hides(e) == /\ kind \in {"vdb", "package"} /\ shape[e] = "odd"
                           /\ \A d \in Entries : place[d] < place[e] => shape[d] = "other"
    <2>1. listing \in Directories /\ N \in Nat
      BY LengthsTyped DEF IInv, Typed
    <2>2. PICK n : n = N - Len(First)
      OBVIOUS
    <2>3. /\ \A e \in Entries : place[e] \in 1 .. N /\ listing[place[e]] = e
          /\ \A p \in 1 .. N : place[listing[p]] = p /\ listing[p] \in Entries
      BY <2>1, PlaceIs, PositionIs DEF Entries, N
    <2>4. n \in Int /\ (First = <<>> => n = N) /\ (First # <<>> => n + 1 \in 1 .. N /\ Head(First) = listing[n + 1])
      <3>1. Len(First) \in 0 .. N
        BY <2>1, FirstStops DEF Suffix
      <3>2. PICK k : k = Len(First)
        OBVIOUS
      <3>3. n = N - k /\ k \in 0 .. N /\ (First = <<>> => k = 0) /\ (First # <<>> => k \in 1 .. N /\ Head(First) = listing[N - k + 1])
        BY <2>1, <2>2, <3>1, <3>2, FirstStops
      <3> QED BY <2>1, <3>3
    <2>5. \A e \in Entries : place[e] < n + 1 => PassedOver(TRUE, e)
      <3> SUFFICES ASSUME NEW e \in Entries, place[e] < n + 1 PROVE PassedOver(TRUE, e)
        OBVIOUS
      <3>1. place[e] \in 1 .. N /\ listing[place[e]] = e
        BY <2>3
      <3>2. place[e] <= n
        BY <2>4, <3>1
      <3> QED BY <2>1, <2>2, <3>1, <3>2, FirstPasses
    <2>6. ASSUME kind \in {"vdb", "package"}, NEW e \in Entries
          PROVE  PassedOver(TRUE, e) <=> shape[e] = "other"
      BY <2>6 DEF PassedOver
    <2>7. BeginThrows /\ kind # "repository" => \E e \in Entries : hides(e)
      <3> SUFFICES ASSUME BeginThrows, kind # "repository"
                   PROVE  hides(Head(First)) /\ Head(First) \in Entries
        OBVIOUS
      <3>1. First # <<>> /\ kind \in {"vdb", "package"} /\ shape[Head(First)] = "odd"
        BY DEF BeginThrows, Refused
      <3>2. Head(First) \in Entries /\ place[Head(First)] = n + 1
        BY <2>3, <2>4, <3>1
      <3>3. \A d \in Entries : place[d] < n + 1 => shape[d] = "other"
        BY <2>5, <2>6, <3>1
      <3> QED BY <3>1, <3>2, <3>3
    <2>8. ASSUME NEW e \in Entries, hides(e) PROVE BeginThrows
      <3>1. kind \in {"vdb", "package"} /\ ~PassedOver(TRUE, e)
        BY <2>6, <2>8
      <3>2. First # <<>>
        <4>1. ~(place[e] < n + 1) /\ place[e] \in 1 .. N
          BY <2>3, <2>5, <3>1
        <4>2. n # N
          BY <2>4, <4>1
        <4> QED BY <2>4, <4>2
      <3>3. Head(First) \in Entries /\ place[Head(First)] = n + 1 /\ ~PassedOver(TRUE, Head(First))
        BY <2>1, <2>3, <2>4, <3>2, FirstPasses
      <3>4. ~(place[e] < n + 1)
        BY <2>5, <3>1
      <3>5. ~(n + 1 < place[e])
        BY <2>6, <2>8, <3>1, <3>3
      <3>6. e = Head(First)
        BY <2>3, <2>4, <3>3, <3>4, <3>5
      <3> QED BY <2>8, <3>2, <3>6 DEF BeginThrows, Refused
    <2>9. \A e \in Entries : place[e] = Position(e)
      BY DEF place
    <2>10. kind = "repository" => (BeginThrows <=> \E e \in Entries : shape[e] = "odd")
      BY DEF BeginThrows, Refused
    <2>11. BeginThrows <=> \E e \in Entries :
              /\ shape[e] = "odd"
              /\ \/ kind = "repository"
                 \/ /\ kind \in {"vdb", "package"}
                    /\ \A d \in Entries : Position(d) < Position(e) => shape[d] = "other"
      <3>1. CASE kind = "repository"
        BY <2>10, <3>1
      <3>2. CASE kind # "repository"
        BY <2>7, <2>8, <2>9, <3>2
      <3> QED BY <3>1, <3>2
    <2> QED BY <2>11 DEF Failed
  <1> QED BY <1>1, <1>2, <1>3, PTL DEF SSpec
=============================================================================
