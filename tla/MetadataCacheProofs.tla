------------------------ MODULE MetadataCacheProofs ------------------------
(***************************************************************************)
(* For any number of threads and objects and any contents of the file,     *)
(* references that metadata() returns stay whole and an object is parsed   *)
(* once, as long as nobody uses an object during a call that may fill it.  *)
(***************************************************************************)
EXTENDS MetadataCache, TLAPS

Texts == {""} \cup (STRING \ {"none", "torn"})

Parsed == [Keys -> Texts]

Cells == Parsed \cup {None, Torn}

Places == {"idle", "test", "open", "read", "fill", "filling", "held"}

Typed ==
    /\ alive \subseteq Objects
    /\ cell \in [Objects -> Cells]
    /\ pc \in [Threads -> Places]
    /\ obj \in [Threads -> Objects]
    /\ meta \in [Threads -> Parsed]
    /\ got \in [Threads -> Cells]
    /\ file.content \in DOMAIN Contents
    /\ file.written \in 0 .. Len(Contents[file.content])
    /\ file.part \in Nat
    /\ file.part > 0 =>
          /\ file.written < Len(Contents[file.content])
          /\ file.part \in DOMAIN Contents[file.content][file.written + 1].fronts
    /\ stream \in [Threads -> [content : Nat, written : Nat, at : Nat]]
    /\ \A t \in Threads : stream[t].content \in {0} \cup DOMAIN Contents

\* Who is in a call or holds a reference does so with an object that exists.
UsesAlive == \A t \in Threads : pc[t] # "idle" => obj[t] \in alive

\* What a thread on its way from the test to the assignment knows of the object.
OnTheWay ==
    \A t \in Threads : obj[t] \notin spoilt =>
        /\ pc[t] \in {"open", "read", "fill"} => cell[obj[t]] = None
        /\ pc[t] = "filling" => cell[obj[t]] = Torn

\* Nobody is in a call on an object along with a call that may fill it.
Alone ==
    \A t, u \in Threads :
        t # u /\ obj[t] = obj[u] /\ obj[t] \notin spoilt
        /\ pc[t] \notin {"idle", "held"} /\ pc[u] \notin {"idle", "held"}
        => cell[obj[t]] \notin {None, Torn}

\* Only an assignment in progress leaves an object torn.
TornByOne ==
    \A o \in Objects \ spoilt : cell[o] = Torn =>
        \E t \in Threads : pc[t] = "filling" /\ obj[t] = o

IInv == Typed /\ UsesAlive /\ OnTheWay /\ Alone /\ TornByOne /\ HeldAreWhole

-----------------------------------------------------------------------------
LEMMA TextsAreTexts == "" \in Texts /\ \A x \in Texts : x \notin {"none", "torn"}
  <1>1. "" \notin {"none", "torn"}
    OBVIOUS
  <1> QED BY <1>1 DEF Texts

\* The three kinds of what an optional may hold are different.
LEMMA CellsDiffer == Blank \in Parsed /\ None # Torn /\ None \notin Parsed /\ Torn \notin Parsed
  <1>1. PICK k \in Keys : TRUE
    BY CacheAssumption
  <1>2. Blank[k] = "" /\ None[k] = "none" /\ Torn[k] = "torn"
    BY <1>1 DEF Blank, None, Torn
  <1>3. Blank \in Parsed
    BY TextsAreTexts DEF Blank, Parsed
  <1>4. \A m \in Parsed : m[k] # "none" /\ m[k] # "torn"
    BY <1>1, TextsAreTexts DEF Parsed
  <1>5. None \notin Parsed /\ Torn \notin Parsed
    BY <1>2, <1>4
  <1> QED BY <1>2, <1>3, <1>5

\* Every content is a sequence of lines, each of which may be there in pieces.
LEMMA ContentLines ==
    \A i \in DOMAIN Contents :
        Contents[i] \in Seq(Lines) /\ Len(Contents[i]) \in Nat
  BY CacheAssumption

LEMMA LinesAreTyped ==
    \A i \in DOMAIN Contents : \A n \in DOMAIN Contents[i] :
        /\ Contents[i][n].value \in Texts
        /\ Contents[i][n].fronts \in Seq(Readings)
        /\ \A j \in DOMAIN Contents[i][n].fronts : Contents[i][n].fronts[j].value \in Texts
  <1> SUFFICES ASSUME NEW i \in DOMAIN Contents, NEW n \in DOMAIN Contents[i]
               PROVE  /\ Contents[i][n].value \in Texts
                      /\ Contents[i][n].fronts \in Seq(Readings)
                      /\ \A j \in DOMAIN Contents[i][n].fronts :
                            Contents[i][n].fronts[j].value \in Texts
    OBVIOUS
  <1>1. Contents[i][n] \in Lines
    BY ContentLines
  <1>2. Contents[i][n].value \in STRING /\ Contents[i][n].fronts \in Seq(Readings)
    BY <1>1 DEF Lines
  <1>3. \A j \in DOMAIN Contents[i][n].fronts : Contents[i][n].fronts[j].value \in STRING
    <2> SUFFICES ASSUME NEW j \in DOMAIN Contents[i][n].fronts
                 PROVE  Contents[i][n].fronts[j].value \in STRING
      OBVIOUS
    <2>1. Contents[i][n].fronts[j] \in Readings
      BY <1>2
    <2> QED BY <2>1 DEF Readings
  <1> QED BY <1>2, <1>3, CacheAssumption DEF Texts

\* A line leaves what has been parsed so far a Metadata.
LEMMA TakeParsed ==
    ASSUME NEW m \in Parsed, NEW line, line.value \in Texts
    PROVE  Take(m, line) \in Parsed
  BY TextsAreTexts DEF Take, Parsed

LEMMA InitIInv == Init => IInv
  <1> SUFFICES ASSUME Init PROVE IInv
    OBVIOUS
  <1> USE DEF Init
  <1>1. 1 \in DOMAIN Contents /\ Len(Contents[1]) \in Nat
    BY CacheAssumption, ContentLines
  <1>2. Typed
    <2>1. (CHOOSE o \in Objects : TRUE) \in Objects
      BY CacheAssumption
    <2>2. NoStream \in [content : Nat, written : Nat, at : Nat] /\ NoStream.content = 0
      BY DEF NoStream
    <2>3. /\ cell \in [Objects -> Cells] /\ meta \in [Threads -> Parsed]
          /\ got \in [Threads -> Cells] /\ pc \in [Threads -> Places]
      BY CellsDiffer DEF Cells, Places
    <2>4. obj \in [Threads -> Objects] /\ alive \subseteq Objects
      BY <2>1
    <2>5. /\ file.content \in DOMAIN Contents
          /\ file.written \in 0 .. Len(Contents[file.content]) /\ file.part = 0
      BY <1>1
    <2>6. /\ stream \in [Threads -> [content : Nat, written : Nat, at : Nat]]
          /\ \A t \in Threads : stream[t].content \in {0} \cup DOMAIN Contents
      BY <2>2
    <2> QED BY <2>3, <2>4, <2>5, <2>6 DEF Typed
  <1>3. UsesAlive /\ OnTheWay /\ Alone /\ HeldAreWhole
    BY DEF UsesAlive, OnTheWay, Alone, HeldAreWhole
  <1>4. TornByOne
    BY CellsDiffer DEF TornByOne
  <1> QED BY <1>2, <1>3, <1>4 DEF IInv

\* What happens to the file concerns nobody's object.
LEMMA SyncKeeps == IInv /\ (Remove \/ Replace \/ WritePart \/ WriteLine) => IInv'
  <1> SUFFICES ASSUME IInv, Remove \/ Replace \/ WritePart \/ WriteLine PROVE IInv'
    OBVIOUS
  <1>1. UNCHANGED <<alive, cell, callVars, spoilt>>
    BY DEF Remove, Replace, WritePart, WriteLine
  <1>2. /\ file'.content \in DOMAIN Contents
        /\ file'.written \in 0 .. Len(Contents[file'.content])
        /\ file'.part \in Nat
        /\ file'.part > 0 =>
              /\ file'.written < Len(Contents[file'.content])
              /\ file'.part \in DOMAIN Contents[file'.content][file'.written + 1].fronts
    <2>1. CASE Remove
      BY <2>1 DEF Remove, IInv, Typed
    <2>2. CASE Replace
      BY <2>2, ContentLines, CacheAssumption DEF Replace, IInv, Typed
    <2>3. CASE WriteLine
      BY <2>3, ContentLines DEF WriteLine, Complete, IInv, Typed
    <2>4. CASE WritePart
      <3> DEFINE c == file.content
                 n == file.written + 1
      <3>1. PICK j \in DOMAIN Contents[c][n].fronts :
                j > file.part /\ file' = [file EXCEPT !.part = j]
        BY <2>4 DEF WritePart
      <3>2. file.written < Len(Contents[c]) /\ c \in DOMAIN Contents /\ n \in DOMAIN Contents[c]
        BY <2>4, ContentLines DEF WritePart, Complete, IInv, Typed
      <3>3. j \in Nat
        BY <3>1, <3>2, LinesAreTyped
      <3>4. file'.content = c /\ file'.written = file.written /\ file'.part = j
        BY <3>1, <2>4, <3>2 DEF WritePart, IInv, Typed
      <3> QED BY <3>1, <3>2, <3>3, <3>4 DEF IInv, Typed
    <2> QED BY <2>1, <2>2, <2>3, <2>4
  <1>3. Typed'
    BY <1>1, <1>2 DEF IInv, Typed, callVars
  <1>4. (UsesAlive /\ OnTheWay /\ Alone /\ TornByOne /\ HeldAreWhole)'
    BY <1>1 DEF IInv, UsesAlive, OnTheWay, Alone, TornByOne, HeldAreWhole, callVars
  <1> QED BY <1>3, <1>4 DEF IInv

\* The test for a value: the reference it may return is whole if the object is not spoilt.
LEMMA TestKeeps == ASSUME NEW t \in Threads PROVE IInv /\ Test(t) => IInv'
  <1> SUFFICES ASSUME IInv, Test(t) PROVE IInv'
    OBVIOUS
  <1> DEFINE o == obj[t]
  <1>1. /\ pc[t] = "test" /\ UNCHANGED <<file, alive, cell, obj, stream, meta, spoilt>>
        /\ o \in Objects /\ cell[o] \in Cells
        /\ \/ cell[o] # None /\ Goto(t, "held") /\ got' = [got EXCEPT ![t] = cell[o]]
           \/ cell[o] \in {None, Torn} /\ Goto(t, "open") /\ UNCHANGED got
    BY DEF Test, IInv, Typed
  <1>2. Typed'
    BY <1>1 DEF IInv, Typed, Goto, Places
  <1>3. o \notin spoilt => cell[o] # Torn
    BY <1>1 DEF IInv, TornByOne, Alone, Typed
  <1>4. UsesAlive' /\ TornByOne'
    BY <1>1 DEF IInv, UsesAlive, TornByOne, Typed, Goto
  <1>5. OnTheWay'
    BY <1>1, <1>3 DEF IInv, OnTheWay, Typed, Goto
  <1>6. Alone'
    BY <1>1 DEF IInv, Alone, Typed, Goto
  <1>7. HeldAreWhole'
    BY <1>1, <1>3 DEF IInv, HeldAreWhole, Typed, Goto
  <1> QED BY <1>2, <1>4, <1>5, <1>6, <1>7 DEF IInv

\* The piece of a line that a thread is about to read is one of the line after those that
\* it has read.
LEMMA FrontThere ==
    ASSUME IInv, NEW t \in Threads, ReadFront(t)
    PROVE  /\ stream[t].content \in DOMAIN Contents
           /\ stream[t].at \in Nat /\ stream[t].at < Len(Contents[stream[t].content])
           /\ stream[t].at + 1 \in DOMAIN Contents[stream[t].content]
           /\ PartOf(t) \in DOMAIN Contents[stream[t].content][stream[t].at + 1].fronts
  <1>1. stream[t].content = file.content /\ PartOf(t) = file.part /\ file.part > 0
    BY DEF ReadFront, PartOf
  <1>2. file.content # 0 /\ Available(t) = file.written
    BY <1>1, CacheAssumption DEF Available, IInv, Typed
  <1>3. stream[t].at = file.written
    BY <1>2 DEF ReadFront
  <1> QED BY <1>1, <1>3, ContentLines DEF IInv, Typed

\* Opening and reading the file touches what is the thread's own.
LEMMA ParseKeeps ==
    ASSUME NEW t \in Threads
    PROVE  IInv /\ (Open(t) \/ ReadLine(t) \/ ReadFront(t) \/ EndOfFile(t)) => IInv'
  <1> SUFFICES ASSUME IInv, Open(t) \/ ReadLine(t) \/ ReadFront(t) \/ EndOfFile(t) PROVE IInv'
    OBVIOUS
  <1>1. /\ UNCHANGED <<file, alive, cell, obj, got, spoilt>>
        /\ pc[t] \in {"open", "read"}
        /\ pc' = pc \/ pc' = [pc EXCEPT ![t] = "read"] \/ pc' = [pc EXCEPT ![t] = "fill"]
    BY DEF Open, ReadLine, ReadFront, EndOfFile, Goto
  <1>2. /\ meta' \in [Threads -> Parsed]
        /\ stream' \in [Threads -> [content : Nat, written : Nat, at : Nat]]
        /\ \A u \in Threads : stream'[u].content \in {0} \cup DOMAIN Contents
    <2>1. CASE Open(t)
      <3> DEFINE s == IF file.linked
                     THEN [content |-> file.content, written |-> file.written, at |-> 0]
                     ELSE NoStream
      <3>1. s \in [content : Nat, written : Nat, at : Nat] /\ s.content \in {0} \cup DOMAIN Contents
        BY ContentLines, CacheAssumption DEF IInv, Typed, NoStream
      <3>2. stream' = [stream EXCEPT ![t] = s] /\ meta' = [meta EXCEPT ![t] = Blank]
        BY <2>1 DEF Open
      <3> HIDE DEF s
      <3> QED BY <3>1, <3>2, CellsDiffer DEF IInv, Typed
    <2>2. CASE ReadLine(t)
      <3> DEFINE c == stream[t].content
                 n == stream[t].at + 1
      <3>1. c \in DOMAIN Contents /\ n \in DOMAIN Contents[c]
        BY <2>2, ContentLines, CacheAssumption DEF ReadLine, Available, IInv, Typed
      <3>2. Take(meta[t], Contents[c][n]) \in Parsed
        BY <3>1, TakeParsed, LinesAreTyped DEF IInv, Typed
      <3>3. /\ meta' = [meta EXCEPT ![t] = Take(meta[t], Contents[c][n])]
            /\ stream' = [stream EXCEPT ![t].at = @ + 1]
        BY <2>2 DEF ReadLine, IInv, Typed
      <3>4. /\ meta \in [Threads -> Parsed]
            /\ stream \in [Threads -> [content : Nat, written : Nat, at : Nat]]
            /\ \A u \in Threads : stream[u].content \in {0} \cup DOMAIN Contents
        BY DEF IInv, Typed
      <3> HIDE DEF c, n
      <3> QED BY <3>2, <3>3, <3>4
    <2>3. CASE EndOfFile(t)
      BY <2>3 DEF EndOfFile, IInv, Typed
    <2>4. CASE ReadFront(t)
      <3> DEFINE line == Contents[stream[t].content][stream[t].at + 1].fronts[PartOf(t)]
      <3>1. line.value \in Texts
        BY <2>4, FrontThere, LinesAreTyped
      <3>2. meta' = [meta EXCEPT ![t] = Take(meta[t], line)] /\ UNCHANGED stream
        BY <2>4 DEF ReadFront, IInv, Typed
      <3>3. meta[t] \in Parsed /\ meta \in [Threads -> Parsed]
        BY DEF IInv, Typed
      <3> HIDE DEF line
      <3>4. Take(meta[t], line) \in Parsed
        BY <3>1, <3>3, TakeParsed
      <3>5. meta' \in [Threads -> Parsed]
        BY <3>2, <3>3, <3>4
      <3>6. /\ stream \in [Threads -> [content : Nat, written : Nat, at : Nat]]
            /\ \A u \in Threads : stream[u].content \in {0} \cup DOMAIN Contents
        BY DEF IInv, Typed
      <3> QED BY <3>2, <3>5, <3>6, Zenon
    <2> QED BY <2>1, <2>2, <2>3, <2>4
  <1>3. Typed'
    BY <1>1, <1>2 DEF IInv, Typed, Places
  <1>4. (UsesAlive /\ OnTheWay /\ TornByOne)'
    BY <1>1 DEF IInv, UsesAlive, OnTheWay, TornByOne, Typed
  <1>5. (Alone /\ HeldAreWhole)'
    BY <1>1 DEF IInv, Alone, HeldAreWhole, Typed
  <1> QED BY <1>3, <1>4, <1>5 DEF IInv

\* The assignment: on an object that is not spoilt nobody else is between the test and the
\* end of it, or holds a reference.
LEMMA BeginFillKeeps == ASSUME NEW t \in Threads PROVE IInv /\ BeginFill(t) => IInv'
  <1> SUFFICES ASSUME IInv, BeginFill(t) PROVE IInv'
    OBVIOUS
  <1> DEFINE o == obj[t]
  <1>1. /\ pc[t] = "fill" /\ UNCHANGED <<file, alive, obj, stream, meta, got, spoilt>>
        /\ cell' = [cell EXCEPT ![o] = Torn] /\ pc' = [pc EXCEPT ![t] = "filling"]
        /\ o \in Objects
    BY DEF BeginFill, Goto, IInv, Typed
  <1>2. Typed'
    BY <1>1 DEF IInv, Typed, Places, Cells
  <1>3. o \notin spoilt => cell[o] = None
    BY <1>1 DEF IInv, OnTheWay
  <1>4. UsesAlive' /\ TornByOne'
    BY <1>1 DEF IInv, UsesAlive, TornByOne, Typed
  <1>5. o \notin spoilt => \A u \in Threads \ {t} : obj[u] = o => pc[u] = "idle"
    BY <1>1, <1>3 DEF IInv, Alone, HeldAreWhole, Typed, Places
  <1>6. OnTheWay'
    BY <1>1, <1>5 DEF IInv, OnTheWay, Typed
  <1>7. Alone'
    BY <1>1, <1>5 DEF IInv, Alone, Typed
  <1>8. HeldAreWhole'
    BY <1>1, <1>5 DEF IInv, HeldAreWhole, Typed
  <1> QED BY <1>2, <1>4, <1>6, <1>7, <1>8 DEF IInv

LEMMA EndFillKeeps == ASSUME NEW t \in Threads PROVE IInv /\ EndFill(t) => IInv'
  <1> SUFFICES ASSUME IInv, EndFill(t) PROVE IInv'
    OBVIOUS
  <1> DEFINE o == obj[t]
  <1>1. PICK m \in Parsed \cup {Torn} :
           /\ o \notin spoilt => m \in Parsed
           /\ cell' = [cell EXCEPT ![o] = m] /\ got' = [got EXCEPT ![t] = m]
    BY DEF EndFill, IInv, Typed
  <1>2. /\ pc[t] = "filling" /\ pc' = [pc EXCEPT ![t] = "held"]
        /\ stream' = [stream EXCEPT ![t] = NoStream] /\ meta' = [meta EXCEPT ![t] = Blank]
        /\ UNCHANGED <<file, alive, obj, spoilt>> /\ o \in Objects
    BY DEF EndFill, Goto, IInv, Typed
  <1>3. Typed'
    <2>1. NoStream \in [content : Nat, written : Nat, at : Nat] /\ NoStream.content = 0
      BY DEF NoStream
    <2> QED BY <1>1, <1>2, <2>1, CellsDiffer DEF IInv, Typed, Places, Cells
  <1>4. o \notin spoilt => cell[o] = Torn
    BY <1>2 DEF IInv, OnTheWay
  <1>5. o \notin spoilt => \A u \in Threads \ {t} : obj[u] = o => pc[u] = "idle"
    BY <1>2, <1>4 DEF IInv, Alone, HeldAreWhole, Typed, Places
  <1>6. UsesAlive'
    BY <1>2 DEF IInv, UsesAlive, Typed
  <1>7. TornByOne'
    BY <1>1, <1>2, CellsDiffer DEF IInv, TornByOne, Typed
  <1>8. OnTheWay'
    BY <1>1, <1>2, <1>5 DEF IInv, OnTheWay, Typed
  <1>9. Alone'
    BY <1>1, <1>2, <1>5 DEF IInv, Alone, Typed
  <1>10. HeldAreWhole'
    BY <1>1, <1>2, <1>5, CellsDiffer DEF IInv, HeldAreWhole, Typed
  <1> QED BY <1>3, <1>6, <1>7, <1>8, <1>9, <1>10 DEF IInv

LEMMA ReleaseKeeps == ASSUME NEW t \in Threads PROVE IInv /\ Release(t) => IInv'
  <1> SUFFICES ASSUME IInv, Release(t) PROVE IInv'
    OBVIOUS
  <1>1. /\ pc[t] = "held" /\ pc' = [pc EXCEPT ![t] = "idle"] /\ got' = [got EXCEPT ![t] = None]
        /\ UNCHANGED <<file, alive, cell, obj, stream, meta, spoilt>>
    BY DEF Release, Goto
  <1>2. Typed'
    BY <1>1 DEF IInv, Typed, Places, Cells
  <1>3. (UsesAlive /\ OnTheWay /\ TornByOne /\ Alone /\ HeldAreWhole)'
    BY <1>1 DEF IInv, UsesAlive, OnTheWay, TornByOne, Alone, HeldAreWhole, Typed
  <1> QED BY <1>2, <1>3 DEF IInv

\* A call on an object that another call may be filling spoils it; otherwise the caller
\* is the only one that may fill it, or it is filled.
LEMMA CallKeeps ==
    ASSUME NEW t \in Threads, NEW o \in Objects PROVE IInv /\ Call(t, o) => IInv'
  <1> SUFFICES ASSUME IInv, Call(t, o) PROVE IInv'
    OBVIOUS
  <1>1. /\ pc[t] = "idle" /\ o \in alive /\ UNCHANGED <<file, alive, cell, stream, meta, got>>
        /\ obj' = [obj EXCEPT ![t] = o] /\ pc' = [pc EXCEPT ![t] = "test"]
        /\ spoilt' = IF MayFill(o) THEN spoilt \cup {o} ELSE spoilt
    BY DEF Call, Goto
  <1>2. Typed'
    BY <1>1 DEF IInv, Typed, Places
  <1>3. spoilt \subseteq spoilt'
    BY <1>1
  <1>4. UsesAlive' /\ TornByOne'
    BY <1>1, <1>3 DEF IInv, UsesAlive, TornByOne, Typed
  <1>5. OnTheWay' /\ HeldAreWhole'
    BY <1>1, <1>3 DEF IInv, OnTheWay, HeldAreWhole, Typed
  <1>6. o \notin spoilt' =>
            \/ cell[o] \notin {None, Torn}
            \/ \A u \in Threads : obj[u] = o => pc[u] \in {"idle", "held"}
    BY <1>1 DEF MayFill, Inside
  <1>7. Alone'
    BY <1>1, <1>3, <1>6 DEF IInv, Alone, Typed
  <1> QED BY <1>2, <1>4, <1>5, <1>7 DEF IInv

\* Nobody is in a call on the copy yet, and it is not torn if it is not spoilt.
LEMMA CopyKeeps ==
    ASSUME NEW t \in Threads, NEW p \in Objects, NEW o \in Objects
    PROVE  IInv /\ Copy(t, p, o) => IInv'
  <1> SUFFICES ASSUME IInv, Copy(t, p, o) PROVE IInv'
    OBVIOUS
  <1>1. /\ o \notin alive /\ alive' = alive \cup {o}
        /\ cell' = [cell EXCEPT ![o] = cell[p]]
        /\ UNCHANGED <<file, pc, obj, stream, meta, got>>
    BY DEF Copy, callVars
  <1>2. /\ spoilt \subseteq spoilt'
        /\ o \notin spoilt' => ~MayFill(p) /\ p \notin spoilt
    BY DEF Copy
  <1>3. Typed'
    BY <1>1 DEF IInv, Typed
  <1>4. \A u \in Threads : obj[u] = o => pc[u] = "idle"
    BY <1>1 DEF IInv, UsesAlive
  <1>5. (UsesAlive /\ OnTheWay /\ Alone /\ HeldAreWhole)'
    BY <1>1, <1>2, <1>4 DEF IInv, UsesAlive, OnTheWay, Alone, HeldAreWhole, Typed
  <1>6. o \notin spoilt' => cell[p] # Torn
    BY <1>2 DEF IInv, TornByOne, MayFill, Inside
  <1>7. TornByOne'
    BY <1>1, <1>2, <1>6 DEF IInv, TornByOne, Typed
  <1> QED BY <1>3, <1>5, <1>7 DEF IInv

LEMMA StutterKeeps == IInv /\ UNCHANGED vars => IInv'
  BY DEF IInv, Typed, UsesAlive, OnTheWay, Alone, TornByOne, HeldAreWhole, vars, callVars

LEMMA Invariance == Spec => []IInv
  <1>1. IInv /\ [Next]_vars => IInv'
    BY SyncKeeps, TestKeeps, ParseKeeps, BeginFillKeeps, EndFillKeeps, ReleaseKeeps, CallKeeps,
       CopyKeeps, StutterKeeps DEF Next, Step
  <1> QED BY InitIInv, <1>1, PTL DEF Spec

\* A reference that metadata() returned refers to the same whole Metadata for as long as
\* it is held, unless somebody used the object during a call that may fill it.
THEOREM ReferencesStay == Spec => []HeldAreWhole
  <1>1. IInv => HeldAreWhole
    BY DEF IInv
  <1> QED BY Invariance, <1>1, PTL

\* The metadata of an object is parsed once and never changes afterwards, unless somebody
\* used the object during a call that may fill it.
THEOREM FilledForGood == Spec => ParsedOnce
  <1> DEFINE Kept == \A o \in alive \ spoilt' : cell[o] \notin {None, Torn} => cell'[o] = cell[o]
  <1>1. IInv /\ [Next]_vars => Kept
    <2> SUFFICES ASSUME IInv, [Next]_vars, NEW o \in alive \ spoilt', cell[o] \notin {None, Torn}
                 PROVE  cell'[o] = cell[o]
      OBVIOUS
    <2>1. CASE UNCHANGED cell
      BY <2>1
    <2>2. CASE \E t \in Threads : BeginFill(t) \/ EndFill(t)
      BY <2>2 DEF BeginFill, EndFill, IInv, OnTheWay, Typed
    <2>3. CASE \E t \in Threads : \E p, q \in Objects : Copy(t, p, q)
      BY <2>3 DEF Copy, IInv, Typed
    <2> QED
      BY <2>1, <2>2, <2>3
      DEF Next, Step, vars, Remove, Replace, WritePart, WriteLine,
          Test, Open, ReadLine, ReadFront, EndOfFile, Release, Call
  <1>2. IInv /\ [Next]_vars => [Kept]_vars
    BY <1>1
  <1> QED BY Invariance, <1>2, PTL DEF Spec, ParsedOnce

-----------------------------------------------------------------------------
(* What an object's metadata is made of, for any number of threads and     *)
(* objects and any contents of the file.                                   *)

\* The lines of the file that a stream was opened on.
LinesOf(s) == IF s.content = 0 THEN <<>> ELSE Contents[s.content]

\* What a thread has read and parsed are the first lines of one content and, once it is at
\* the end of the file, all those that the content had when it was opened, perhaps with
\* the front of another.
Reads(t, s) ==
    /\ s.content <= file.content
    /\ s.content = file.content => s.written <= file.written
    /\ s.written <= Len(LinesOf(s)) /\ s.at <= Len(LinesOf(s))
    /\ pc[t] = "read" => meta[t] = Says(SubSeq(LinesOf(s), 1, s.at))
    /\ pc[t] \in {"fill", "filling"} =>
          \E lines \in Seen(LinesOf(s), s.written) : meta[t] = Says(lines)

Reading == \A t \in Threads : pc[t] \in {"read", "fill", "filling"} => Reads(t, stream[t])

OriginTyped == DOMAIN origin = Objects

CInv == IInv /\ OriginTyped /\ Reading /\ CacheIsOneContent

-----------------------------------------------------------------------------
\* Lines say nothing of a key that none of them has.
LEMMA SaysNothing ==
    ASSUME NEW lines, NEW k \in Keys, \A m \in DOMAIN lines : lines[m].key # k
    PROVE  Says(lines)[k] = ""
  BY DEF Says

LEMMA SaysOfKeys ==
    \A lines : DOMAIN Says(lines) = Keys /\ Says(lines) = [k \in Keys |-> Says(lines)[k]]
  BY DEF Says

\* parse_metadata applied to one more line, of a key that has had none.
LEMMA TakeSays ==
    ASSUME NEW n \in Nat, NEW lines, NEW more,
           DOMAIN lines = 1 .. n, DOMAIN more = 1 .. n + 1, \A j \in 1 .. n : more[j] = lines[j],
           \A j \in 1 .. n : lines[j].key \in Keys => lines[j].key # more[n + 1].key,
           \A j, m \in 1 .. n : lines[j].key = lines[m].key /\ lines[j].key \in Keys => j = m
    PROVE  Take(Says(lines), more[n + 1]) = Says(more)
  <1> DEFINE old == Says(lines)
             new == Says(more)
             line == more[n + 1]
             taken == Take(old, line)
  <1>1. DOMAIN old = Keys /\ DOMAIN new = Keys /\ old = [k \in Keys |-> old[k]]
        /\ new = [k \in Keys |-> new[k]]
    BY SaysOfKeys, Zenon
  <1>2. taken = [k \in Keys |-> taken[k]]
    <2> HIDE DEF old, line
    <2> QED BY <1>1 DEF Take
  <1>3. n + 1 \in DOMAIN more /\ \A j \in DOMAIN more : j = n + 1 \/ j \in 1 .. n
    OBVIOUS
  <1>4. ASSUME NEW k \in Keys PROVE taken[k] = new[k]
    <2>1. CASE line.key = k
      <3>1. \A j \in DOMAIN more : more[j].key = k => j = n + 1
        BY <1>3, <2>1
      <3>2. new[k] = IF k \in Plain \/ line.parses = "all" THEN line.value ELSE ""
        <4>1. (CHOOSE j \in DOMAIN more : more[j].key = k) = n + 1
          BY <1>3, <2>1, <3>1
        <4>2. Says(more)[k] =
                IF \E j \in DOMAIN more : more[j].key = k /\ (k \in Plain \/ more[j].parses = "all")
                THEN more[n + 1].value ELSE ""
          BY <4>1 DEF Says
        <4>3. (\E j \in DOMAIN more : more[j].key = k /\ (k \in Plain \/ more[j].parses = "all"))
                <=> (k \in Plain \/ more[n + 1].parses = "all")
          BY <1>3, <2>1, <3>1
        <4> QED BY <4>2, <4>3
      <3> HIDE DEF old, new, line
      <3>3. taken[k] = IF k \in Plain \/ line.parses = "all" THEN line.value ELSE ""
        BY <1>1, <2>1 DEF Take
      <3> QED BY <3>2, <3>3
    <2>2. CASE line.key # k
      <3>1. taken[k] = old[k]
        <4> HIDE DEF old, line
        <4> QED BY <1>1, <2>2 DEF Take
      <3>2. CASE \E m \in 1 .. n : lines[m].key = k
        <4>1. PICK m \in 1 .. n : lines[m].key = k
          BY <3>2
        <4>2. m \in DOMAIN lines /\ \A j \in DOMAIN lines : lines[j].key = k => j = m
          BY <4>1
        <4>3. old[k] = IF k \in Plain \/ lines[m].parses = "all" THEN lines[m].value ELSE ""
          <5>1. (CHOOSE j \in DOMAIN lines : lines[j].key = k) = m
            BY <4>1, <4>2
          <5>2. Says(lines)[k] =
                  IF \E j \in DOMAIN lines : lines[j].key = k /\ (k \in Plain \/ lines[j].parses = "all")
                  THEN lines[m].value ELSE ""
            BY <5>1 DEF Says
          <5>3. (\E j \in DOMAIN lines : lines[j].key = k /\ (k \in Plain \/ lines[j].parses = "all"))
                  <=> (k \in Plain \/ lines[m].parses = "all")
            BY <4>1, <4>2
          <5> QED BY <5>2, <5>3
        <4>4. m \in DOMAIN more /\ more[m] = lines[m] /\ more[m].key = k
              /\ \A j \in DOMAIN more : more[j].key = k => j = m
          BY <1>3, <2>2, <4>1, <4>2
        <4>5. new[k] = IF k \in Plain \/ more[m].parses = "all" THEN more[m].value ELSE ""
          <5>1. (CHOOSE j \in DOMAIN more : more[j].key = k) = m
            BY <4>4
          <5>2. Says(more)[k] =
                  IF \E j \in DOMAIN more : more[j].key = k /\ (k \in Plain \/ more[j].parses = "all")
                  THEN more[m].value ELSE ""
            BY <5>1 DEF Says
          <5>3. (\E j \in DOMAIN more : more[j].key = k /\ (k \in Plain \/ more[j].parses = "all"))
                  <=> (k \in Plain \/ more[m].parses = "all")
            BY <4>4
          <5> QED BY <5>2, <5>3
        <4> QED BY <3>1, <4>3, <4>4, <4>5
      <3>3. CASE \A m \in 1 .. n : lines[m].key # k
        <4>1. \A m \in DOMAIN more : more[m].key # k
          BY <1>3, <2>2, <3>3
        <4>2. old[k] = "" /\ new[k] = ""
          BY <3>3, <4>1, SaysNothing
        <4> QED BY <3>1, <4>2
      <3> QED BY <3>2, <3>3
    <2> QED BY <2>1, <2>2
  <1> HIDE DEF old, new, taken
  <1>5. taken = new
    BY <1>1, <1>2, <1>4
  <1> QED BY <1>5 DEF old, new, taken, line

\* The first lines of a content have different keys, and so has the next one.
LEMMA FirstLines ==
    ASSUME NEW i \in DOMAIN Contents, NEW n \in Nat, n < Len(Contents[i])
    PROVE  /\ DOMAIN SubSeq(Contents[i], 1, n) = 1 .. n
           /\ SubSeq(Contents[i], 1, n) \in Seq(Lines) /\ Len(SubSeq(Contents[i], 1, n)) = n
           /\ \A j \in 1 .. n : SubSeq(Contents[i], 1, n)[j] = Contents[i][j]
           /\ n + 1 \in DOMAIN Contents[i]
           /\ \A j, m \in 1 .. n + 1 :
                  Contents[i][j].key = Contents[i][m].key /\ Contents[i][j].key \in Keys => j = m
  <1>1. PICK len : len = Len(Contents[i])
    OBVIOUS
  <1>2. Contents[i] \in Seq(Lines) /\ len \in Nat /\ DOMAIN Contents[i] = 1 .. len
    BY <1>1, ContentLines
  <1>3. \A j \in 1 .. n + 1 : j \in DOMAIN Contents[i]
    BY <1>1, <1>2
  <1>4. /\ DOMAIN SubSeq(Contents[i], 1, n) = 1 .. n /\ n + 1 \in DOMAIN Contents[i]
        /\ SubSeq(Contents[i], 1, n) \in Seq(Lines) /\ Len(SubSeq(Contents[i], 1, n)) = n
        /\ \A j \in 1 .. n : SubSeq(Contents[i], 1, n)[j] = Contents[i][j]
    BY <1>1, <1>2
  <1>5. \A j, m \in 1 .. n + 1 :
            Contents[i][j].key = Contents[i][m].key /\ Contents[i][j].key \in Keys => j = m
    BY <1>3, CacheAssumption
  <1> QED BY <1>4, <1>5

LEMMA TakeLine ==
    ASSUME NEW i \in DOMAIN Contents, NEW n \in Nat, n < Len(Contents[i])
    PROVE  Take(Says(SubSeq(Contents[i], 1, n)), Contents[i][n + 1])
               = Says(SubSeq(Contents[i], 1, n + 1))
  <1> DEFINE lines == SubSeq(Contents[i], 1, n)
             more == SubSeq(Contents[i], 1, n + 1)
  <1>1. DOMAIN more = 1 .. n + 1 /\ \A j \in 1 .. n + 1 : more[j] = Contents[i][j]
    BY ContentLines
  <1>2. \A j \in 1 .. n : more[j] = lines[j]
    BY <1>1, FirstLines
  <1>3. more[n + 1] = Contents[i][n + 1]
    BY <1>1
  <1>4. /\ \A j \in 1 .. n : lines[j].key \in Keys => lines[j].key # more[n + 1].key
        /\ \A j, m \in 1 .. n : lines[j].key = lines[m].key /\ lines[j].key \in Keys => j = m
        /\ DOMAIN lines = 1 .. n
    BY <1>3, FirstLines
  <1> HIDE DEF lines, more
  <1>5. Take(Says(lines), more[n + 1]) = Says(more)
    BY <1>1, <1>2, <1>4, TakeSays
  <1> QED BY <1>3, <1>5 DEF lines, more

LEMMA TakePiece ==
    ASSUME NEW i \in DOMAIN Contents, NEW n \in Nat, n < Len(Contents[i]),
           NEW j \in DOMAIN Contents[i][n + 1].fronts
    PROVE  Take(Says(SubSeq(Contents[i], 1, n)), Contents[i][n + 1].fronts[j])
               = Says(Append(SubSeq(Contents[i], 1, n), Contents[i][n + 1].fronts[j]))
  <1> DEFINE lines == SubSeq(Contents[i], 1, n)
             piece == Contents[i][n + 1].fronts[j]
             more == Append(lines, piece)
  <1>1. DOMAIN more = 1 .. n + 1 /\ more[n + 1] = piece /\ \A m \in 1 .. n : more[m] = lines[m]
    <2>1. lines \in Seq(Lines) /\ Len(lines) = n
      BY FirstLines
    <2> HIDE DEF lines, piece
    <2> QED BY <2>1
  <1>2. piece.key \in {Contents[i][n + 1].key, "other"}
    BY FirstLines, CacheAssumption
  <1>3. \A m \in 1 .. n : lines[m].key \in Keys => lines[m].key # piece.key
    <2>1. n + 1 \in 1 .. n + 1 /\ \A m \in 1 .. n : m # n + 1 /\ m \in 1 .. n + 1
      OBVIOUS
    <2> HIDE DEF piece
    <2> QED BY <1>2, <2>1, FirstLines, CacheAssumption
  <1>4. /\ \A m, l \in 1 .. n : lines[m].key = lines[l].key /\ lines[m].key \in Keys => m = l
        /\ DOMAIN lines = 1 .. n
    BY FirstLines
  <1> HIDE DEF lines, piece, more
  <1>5. Take(Says(lines), more[n + 1]) = Says(more)
    BY <1>1, <1>3, <1>4, TakeSays
  <1> QED BY <1>1, <1>5 DEF lines, piece, more

\* Before the first line.
LEMMA SaysNothingYet == \A lines : Says(SubSeq(lines, 1, 0)) = Blank
  <1> SUFFICES ASSUME NEW lines PROVE Says(SubSeq(lines, 1, 0)) = Blank
    OBVIOUS
  <1>1. DOMAIN SubSeq(lines, 1, 0) = {}
    OBVIOUS
  <1> QED BY <1>1 DEF Says, Blank
-----------------------------------------------------------------------------
LEMMA Initially == Init => CInv
  <1> SUFFICES ASSUME Init PROVE CInv
    OBVIOUS
  <1>1. IInv
    BY InitIInv
  <1>2. Reading /\ CacheIsOneContent
    BY DEF Init, Reading, CacheIsOneContent
  <1>3. OriginTyped
    BY DEF Init, OriginTyped
  <1> QED BY <1>1, <1>2, <1>3 DEF CInv

LEMMA StreamsTyped ==
    ASSUME IInv, NEW t \in Threads
    PROVE  /\ stream[t] \in [content : Nat, written : Nat, at : Nat]
           /\ stream[t].content \in {0} \cup DOMAIN Contents
           /\ file.content \in DOMAIN Contents /\ file.content \in Nat \ {0}
           /\ file.written \in Nat /\ file.written <= Len(Contents[file.content])
           /\ Len(Contents[file.content]) \in Nat
           /\ Len(LinesOf(stream[t])) \in Nat
  <1>1. /\ stream[t] \in [content : Nat, written : Nat, at : Nat]
        /\ stream[t].content \in {0} \cup DOMAIN Contents
        /\ file.content \in DOMAIN Contents
        /\ file.written \in 0 .. Len(Contents[file.content])
    BY DEF IInv, Typed
  <1>2. file.content \in Nat \ {0}
    BY <1>1, CacheAssumption
  <1>3. Len(Contents[file.content]) \in Nat
    BY <1>1, ContentLines
  <1>4. Len(LinesOf(stream[t])) \in Nat
    BY <1>1, ContentLines DEF LinesOf
  <1> QED BY <1>1, <1>2, <1>3, <1>4

\* An object keeps what it holds, and the content it is from.
LEMMA KeptContent ==
    ASSUME CacheIsOneContent, UNCHANGED <<cell, origin>>, spoilt \subseteq spoilt'
    PROVE  CacheIsOneContent'
  BY DEF CacheIsOneContent

\* The file only grows, or gives way to the next content.
LEMMA SyncReads == CInv /\ (Remove \/ Replace \/ WritePart \/ WriteLine) => CInv'
  <1> SUFFICES ASSUME CInv, Remove \/ Replace \/ WritePart \/ WriteLine PROVE CInv'
    OBVIOUS
  <1>1. UNCHANGED <<cell, pc, stream, meta, origin, spoilt>>
    BY DEF Remove, Replace, WritePart, WriteLine, callVars
  <1>2. IInv'
    BY SyncKeeps DEF CInv
  <1>3. CacheIsOneContent'
    BY <1>1, KeptContent DEF CInv
  <1>4. \/ file'.content = file.content /\ file'.written >= file.written
        \/ file'.content = file.content + 1
    <2>1. file.content \in Nat /\ file.written \in Nat
      BY CacheAssumption, ContentLines DEF CInv, IInv, Typed
    <2>2. CASE Remove
      BY <2>1, <2>2 DEF Remove
    <2>3. CASE Replace
      BY <2>1, <2>3 DEF Replace
    <2>4. CASE WriteLine
      BY <2>1, <2>4 DEF WriteLine
    <2>5. CASE WritePart
      BY <2>1, <2>5 DEF WritePart
    <2> QED BY <2>2, <2>3, <2>4, <2>5
  <1>5. ASSUME NEW t \in Threads, pc'[t] \in {"read", "fill", "filling"}
        PROVE  Reads(t, stream[t])'
    <2>1. Reads(t, stream[t])
      BY <1>1, <1>5 DEF CInv, Reading
    <2>2. stream'[t] = stream[t] /\ meta'[t] = meta[t] /\ pc'[t] = pc[t]
      BY <1>1
    <2>3. /\ stream[t].content \in Nat /\ stream[t].written \in Nat
          /\ file.content \in Nat /\ file.written \in Nat
      BY StreamsTyped DEF CInv
    <2>4. file'.content \in Nat /\ file'.written \in Nat
      BY <1>2, CacheAssumption, ContentLines DEF IInv, Typed
    <2>5. /\ stream[t].content <= file'.content
          /\ stream[t].content = file'.content => stream[t].written <= file'.written
      BY <1>4, <2>1, <2>3, <2>4 DEF Reads
    <2> QED BY <2>1, <2>2, <2>5 DEF Reads
  <1> QED BY <1>1, <1>2, <1>3, <1>5 DEF CInv, OriginTyped, Reading

\* Other threads read on where they are.
LEMMA OthersRead ==
    ASSUME CInv, NEW t \in Threads, UNCHANGED file,
           \A u \in Threads \ {t} :
               pc'[u] = pc[u] /\ stream'[u] = stream[u] /\ meta'[u] = meta[u],
           pc'[t] \in {"read", "fill", "filling"} => Reads(t, stream[t])'
    PROVE  Reading'
  BY DEF CInv, Reading, Reads

LEMMA OpenReads == ASSUME NEW t \in Threads PROVE CInv /\ Open(t) => CInv'
  <1> SUFFICES ASSUME CInv, Open(t) PROVE CInv'
    OBVIOUS
  <1> DEFINE s == IF file.linked
                  THEN [content |-> file.content, written |-> file.written, at |-> 0]
                  ELSE NoStream
  <1>1. /\ UNCHANGED <<file, cell, origin, spoilt>>
        /\ stream' = [stream EXCEPT ![t] = s] /\ meta' = [meta EXCEPT ![t] = Blank]
        /\ pc' = [pc EXCEPT ![t] = "read"]
    BY DEF Open, Goto
  <1>2. IInv'
    BY ParseKeeps DEF CInv
  <1>3. CacheIsOneContent'
    BY <1>1, KeptContent DEF CInv
  <1>4. /\ s.content <= file.content
        /\ s.content = file.content => s.written <= file.written
        /\ s.written <= Len(LinesOf(s)) /\ s.at = 0 /\ 0 <= Len(LinesOf(s))
    BY StreamsTyped DEF CInv, NoStream, LinesOf
  <1>5. /\ stream'[t] = s /\ meta'[t] = Blank /\ pc'[t] = "read"
        /\ \A u \in Threads \ {t} :
               pc'[u] = pc[u] /\ stream'[u] = stream[u] /\ meta'[u] = meta[u]
    BY <1>1 DEF CInv, IInv, Typed
  <1> HIDE DEF s
  <1>6. Reads(t, stream[t])'
    BY <1>1, <1>4, <1>5, SaysNothingYet DEF Reads
  <1>7. Reading'
    BY <1>1, <1>5, <1>6, OthersRead
  <1> QED BY <1>1, <1>2, <1>3, <1>7 DEF CInv, OriginTyped

LEMMA ReadLineReads == ASSUME NEW t \in Threads PROVE CInv /\ ReadLine(t) => CInv'
  <1> SUFFICES ASSUME CInv, ReadLine(t) PROVE CInv'
    OBVIOUS
  <1> DEFINE c == stream[t].content
             n == stream[t].at
  <1>1. /\ UNCHANGED <<file, pc, cell, origin, spoilt>> /\ pc[t] = "read" /\ n < Available(t)
        /\ meta' = [meta EXCEPT ![t] = Take(meta[t], Contents[c][n + 1])]
        /\ stream' = [stream EXCEPT ![t].at = n + 1]
    BY DEF ReadLine, CInv, IInv, Typed
  <1>2. IInv'
    BY ParseKeeps DEF CInv
  <1>3. CacheIsOneContent'
    BY <1>1, KeptContent DEF CInv
  <1>4. Reads(t, stream[t]) /\ stream[t] \in [content : Nat, written : Nat, at : Nat]
    BY <1>1, StreamsTyped DEF CInv, Reading
  <1>5. c # 0 /\ c \in DOMAIN Contents /\ n \in Nat /\ n < Len(Contents[c])
    BY <1>1, <1>4, StreamsTyped, ContentLines DEF CInv, Available
  <1>6. Take(meta[t], Contents[c][n + 1]) = Says(SubSeq(Contents[c], 1, n + 1))
    <2>1. meta[t] = Says(SubSeq(Contents[c], 1, n))
      BY <1>1, <1>4, <1>5 DEF Reads, LinesOf
    <2> QED BY <1>5, <2>1, TakeLine
  <1>7. /\ stream'[t].content = c /\ stream'[t].written = stream[t].written
        /\ stream'[t].at = n + 1 /\ meta'[t] = Says(SubSeq(Contents[c], 1, n + 1))
        /\ LinesOf(stream'[t]) = Contents[c] /\ LinesOf(stream[t]) = Contents[c]
        /\ \A u \in Threads \ {t} :
               pc'[u] = pc[u] /\ stream'[u] = stream[u] /\ meta'[u] = meta[u]
    BY <1>1, <1>4, <1>5, <1>6 DEF CInv, IInv, Typed, LinesOf
  <1>8. n + 1 <= Len(Contents[c])
    BY <1>5, ContentLines
  <1>9. Reads(t, stream[t])'
    BY <1>1, <1>4, <1>7, <1>8 DEF Reads
  <1>10. Reading'
    BY <1>1, <1>7, <1>9, OthersRead
  <1> QED BY <1>1, <1>2, <1>3, <1>10 DEF CInv, OriginTyped

\* At the end of the file a stream has read all that was there when it was opened.
LEMMA AllRead ==
    ASSUME CInv, NEW t \in Threads, Reads(t, stream[t]), stream[t].at = Available(t)
    PROVE  /\ stream[t].at \in stream[t].written .. Len(LinesOf(stream[t]))
           /\ stream[t].written <= stream[t].at
  <1>1. stream[t].written <= Available(t)
    BY StreamsTyped DEF CInv, Reads, Available, LinesOf
  <1> QED BY <1>1, StreamsTyped DEF CInv, Reads

LEMMA EndOfFileReads == ASSUME NEW t \in Threads PROVE CInv /\ EndOfFile(t) => CInv'
  <1> SUFFICES ASSUME CInv, EndOfFile(t) PROVE CInv'
    OBVIOUS
  <1>1. /\ UNCHANGED <<file, stream, meta, cell, origin, spoilt>> /\ pc[t] = "read"
        /\ pc' = [pc EXCEPT ![t] = "fill"] /\ stream[t].at = Available(t)
    BY DEF EndOfFile, Goto
  <1>2. IInv'
    BY ParseKeeps DEF CInv
  <1>3. CacheIsOneContent'
    BY <1>1, KeptContent DEF CInv
  <1>4. Reads(t, stream[t])
    BY <1>1 DEF CInv, Reading
  <1>5. stream[t].at \in stream[t].written .. Len(LinesOf(stream[t]))
    BY <1>1, <1>4, AllRead
  <1>6. SubSeq(LinesOf(stream[t]), 1, stream[t].at) \in Seen(LinesOf(stream[t]), stream[t].written)
    BY <1>5 DEF Seen
  <1>7. Reads(t, stream[t])'
    BY <1>1, <1>4, <1>6 DEF Reads, CInv, IInv, Typed
  <1>8. \A u \in Threads \ {t} : pc'[u] = pc[u]
    BY <1>1 DEF CInv, IInv, Typed
  <1>9. Reading'
    BY <1>1, <1>7, <1>8, OthersRead
  <1> QED BY <1>1, <1>2, <1>3, <1>9 DEF CInv, OriginTyped

\* A piece of a line is taken for a line, as the last one.
LEMMA ReadFrontReads == ASSUME NEW t \in Threads PROVE CInv /\ ReadFront(t) => CInv'
  <1> SUFFICES ASSUME CInv, ReadFront(t) PROVE CInv'
    OBVIOUS
  <1> DEFINE c == Contents[stream[t].content]
             n == stream[t].at
             j == PartOf(t)
             lines == Append(SubSeq(c, 1, n), c[n + 1].fronts[j])
  <1>1. /\ UNCHANGED <<file, stream, cell, origin, spoilt>> /\ pc[t] = "read"
        /\ pc' = [pc EXCEPT ![t] = "fill"] /\ n = Available(t)
        /\ meta' = [meta EXCEPT ![t] = Take(meta[t], c[n + 1].fronts[j])]
    BY DEF ReadFront, Goto, CInv, IInv, Typed
  <1>2. IInv'
    BY ParseKeeps DEF CInv
  <1>3. CacheIsOneContent'
    BY <1>1, KeptContent DEF CInv
  <1>4. Reads(t, stream[t])
    BY <1>1 DEF CInv, Reading
  <1>5. /\ stream[t].content \in DOMAIN Contents /\ stream[t].content # 0
        /\ n \in Nat /\ n < Len(c) /\ j \in DOMAIN c[n + 1].fronts
    BY FrontThere, CacheAssumption DEF CInv
  <1>6. LinesOf(stream[t]) = c
    BY <1>5 DEF LinesOf
  <1>7. stream[t].written <= n /\ stream[t].written \in Nat /\ Len(c) \in Nat
    BY <1>1, <1>4, <1>6, AllRead, StreamsTyped DEF CInv
  <1>8. lines \in Seen(c, stream[t].written)
    <2>1. n \in stream[t].written .. Len(c) - 1
      BY <1>5, <1>7
    <2>2. lines \in {Append(SubSeq(c, 1, n), c[n + 1].fronts[k]) : k \in DOMAIN c[n + 1].fronts}
      BY <1>5, Zenon
    <2>3. lines \in UNION {{Append(SubSeq(c, 1, m), c[m + 1].fronts[k]) :
                                k \in DOMAIN c[m + 1].fronts} :
                           m \in stream[t].written .. Len(c) - 1}
      <3> HIDE DEF c, n, j, lines
      <3> QED BY <2>1, <2>2, Zenon
    <2> HIDE DEF c, n, j, lines
    <2> QED BY <2>3, Zenon DEF Seen
  <1>9. Take(meta[t], c[n + 1].fronts[j]) = Says(lines)
    <2>1. meta[t] = Says(SubSeq(c, 1, n))
      BY <1>1, <1>4, <1>6 DEF Reads
    <2> QED BY <1>5, <2>1, TakePiece
  <1>10. pc'[t] = "fill" /\ meta'[t] = Says(lines)
        /\ \A u \in Threads \ {t} : pc'[u] = pc[u] /\ meta'[u] = meta[u]
    BY <1>1, <1>9 DEF CInv, IInv, Typed
  <1> HIDE DEF lines, c, n, j
  <1>11. Reads(t, stream[t])'
    BY <1>1, <1>4, <1>6, <1>8, <1>10 DEF Reads
  <1>12. Reading'
    BY <1>1, <1>10, <1>11, OthersRead
  <1> QED BY <1>1, <1>2, <1>3, <1>12 DEF CInv, OriginTyped

LEMMA BeginFillReads == ASSUME NEW t \in Threads PROVE CInv /\ BeginFill(t) => CInv'
  <1> SUFFICES ASSUME CInv, BeginFill(t) PROVE CInv'
    OBVIOUS
  <1>1. /\ UNCHANGED <<file, stream, meta, origin, spoilt>> /\ pc[t] = "fill"
        /\ pc' = [pc EXCEPT ![t] = "filling"] /\ cell' = [cell EXCEPT ![obj[t]] = Torn]
    BY DEF BeginFill, Goto
  <1>2. IInv'
    BY BeginFillKeeps DEF CInv
  <1>3. Reads(t, stream[t])' /\ \A u \in Threads \ {t} : pc'[u] = pc[u]
    BY <1>1 DEF CInv, Reading, Reads, IInv, Typed
  <1>4. Reading'
    BY <1>1, <1>3, OthersRead
  <1>5. \A o \in Objects : cell'[o] \notin {None, Torn} => cell'[o] = cell[o]
    BY <1>1 DEF CInv, IInv, Typed
  <1>6. CacheIsOneContent'
    BY <1>1, <1>5 DEF CInv, CacheIsOneContent
  <1> QED BY <1>1, <1>2, <1>4, <1>6 DEF CInv, OriginTyped

\* What is assigned to an object that is not spoilt is what the thread has read.
LEMMA EndFillReads == ASSUME NEW t \in Threads PROVE CInv /\ EndFill(t) => CInv'
  <1> SUFFICES ASSUME CInv, EndFill(t) PROVE CInv'
    OBVIOUS
  <1> DEFINE p == obj[t]
  <1>1. /\ UNCHANGED <<file, spoilt>> /\ pc[t] = "filling" /\ p \in Objects
        /\ pc' = [pc EXCEPT ![t] = "held"]
        /\ stream' = [stream EXCEPT ![t] = NoStream] /\ meta' = [meta EXCEPT ![t] = Blank]
        /\ origin' = [origin EXCEPT ![p] = [stream[t] EXCEPT !.at = 0]]
    BY DEF EndFill, Goto, CInv, IInv, Typed
  <1>2. IInv'
    BY EndFillKeeps DEF CInv
  <1>3. pc'[t] = "held"
        /\ \A u \in Threads \ {t} :
               pc'[u] = pc[u] /\ stream'[u] = stream[u] /\ meta'[u] = meta[u]
    BY <1>1 DEF CInv, IInv, Typed
  <1>4. Reading'
    BY <1>1, <1>3, OthersRead
  <1>5. /\ \A o \in Objects \ {p} : cell'[o] = cell[o]
        /\ p \notin spoilt => cell'[p] = meta[t]
    BY <1>1 DEF EndFill, CInv, IInv, Typed
  <1>6. Reads(t, stream[t]) /\ stream[t] \in [content : Nat, written : Nat, at : Nat]
        /\ Len(LinesOf(stream[t])) \in Nat
    BY <1>1, StreamsTyped DEF CInv, Reading
  <1>7. ASSUME NEW o \in Objects \ spoilt', cell'[o] \notin {None, Torn}
        PROVE  \E lines \in Seen(LinesOf(origin'[o]), origin'[o].written) :
                   cell'[o] = Says(lines)
    <2>1. CASE o # p
      BY <1>1, <1>5, <1>7, <2>1 DEF CInv, CacheIsOneContent, LinesOf, OriginTyped
    <2>2. CASE o = p
      <3>1. /\ origin'[o].content = stream[t].content
            /\ origin'[o].written = stream[t].written
        BY <1>1, <1>6, <2>2 DEF OriginTyped, CInv
      <3>2. LinesOf(origin'[o]) = LinesOf(stream[t])
        BY <3>1 DEF LinesOf
      <3>3. \E lines \in Seen(LinesOf(stream[t]), stream[t].written) : meta[t] = Says(lines)
        BY <1>1, <1>6 DEF Reads
      <3>4. cell'[o] = meta[t]
        BY <1>1, <1>5, <1>7, <2>2
      <3> QED BY <3>1, <3>2, <3>3, <3>4
    <2> QED BY <2>1, <2>2
  <1>8. CacheIsOneContent'
    BY <1>7 DEF CacheIsOneContent, LinesOf
  <1> QED BY <1>1, <1>2, <1>4, <1>8 DEF CInv, OriginTyped

\* Steps that concern neither the file nor a filled object.
LEMMA OtherStepsRead ==
    ASSUME NEW t \in Threads
    PROVE  CInv /\ (Test(t) \/ Release(t) \/ \E o \in Objects : Call(t, o)) => CInv'
  <1> SUFFICES ASSUME CInv, Test(t) \/ Release(t) \/ \E o \in Objects : Call(t, o)
               PROVE  CInv'
    OBVIOUS
  <1>1. /\ UNCHANGED <<file, stream, meta, cell, origin>> /\ spoilt \subseteq spoilt'
        /\ \E where \in {"open", "held", "idle", "test"} : pc' = [pc EXCEPT ![t] = where]
    BY DEF Test, Release, Call, Goto
  <1>2. IInv'
    BY TestKeeps, ReleaseKeeps, CallKeeps DEF CInv
  <1>3. CacheIsOneContent'
    BY <1>1, KeptContent DEF CInv
  <1>4. /\ pc'[t] \notin {"read", "fill", "filling"}
        /\ \A u \in Threads \ {t} : pc'[u] = pc[u]
    BY <1>1 DEF CInv, IInv, Typed
  <1>5. Reading'
    BY <1>1, <1>4, OthersRead
  <1> QED BY <1>1, <1>2, <1>3, <1>5 DEF CInv, OriginTyped

\* A copy has what the object it is made of has, from where that has it.
LEMMA CopyReads ==
    ASSUME NEW t \in Threads, NEW p \in Objects, NEW q \in Objects
    PROVE  CInv /\ Copy(t, p, q) => CInv'
  <1> SUFFICES ASSUME CInv, Copy(t, p, q) PROVE CInv'
    OBVIOUS
  <1>1. /\ UNCHANGED <<file, pc, stream, meta>> /\ spoilt \subseteq spoilt'
        /\ cell' = [cell EXCEPT ![q] = cell[p]] /\ origin' = [origin EXCEPT ![q] = origin[p]]
        /\ q \notin spoilt' => p \notin spoilt
    BY DEF Copy, callVars
  <1>2. IInv'
    BY CopyKeeps DEF CInv
  <1>3. Reading'
    BY <1>1 DEF CInv, Reading, Reads
  <1>4. ASSUME NEW o \in Objects \ spoilt'
        PROVE  \E r \in Objects \ spoilt : cell'[o] = cell[r] /\ origin'[o] = origin[r]
    BY <1>1 DEF CInv, IInv, Typed, OriginTyped
  <1>5. CacheIsOneContent'
    BY <1>4 DEF CInv, CacheIsOneContent
  <1> QED BY <1>1, <1>2, <1>3, <1>5 DEF CInv, OriginTyped

LEMMA StutterReads == CInv /\ UNCHANGED vars => CInv'
  BY StutterKeeps DEF CInv, OriginTyped, Reading, Reads, CacheIsOneContent, vars, callVars

\* The metadata of an object is what one content of the file says: all of it if it was
\* complete when it was opened; if the sync was writing it, all the lines that were there
\* then, perhaps later ones, and perhaps the front of another.  It is never a mixture of
\* two contents.  All this unless somebody used the object during a call that may fill it.
THEOREM OneContent == Spec => []CacheIsOneContent
  <1>1. CInv /\ [Next]_vars => CInv'
    BY SyncReads, OpenReads, ReadLineReads, ReadFrontReads, EndOfFileReads, BeginFillReads, EndFillReads,
       OtherStepsRead, CopyReads, StutterReads DEF Next, Step
  <1>2. CInv => CacheIsOneContent
    BY DEF CInv
  <1> QED BY Initially, <1>1, <1>2, PTL DEF Spec
=============================================================================
