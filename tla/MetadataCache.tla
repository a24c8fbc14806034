--------------------------- MODULE MetadataCache ---------------------------
(***************************************************************************)
(* Ebuild::metadata() of repo.cpp: the first call on an Ebuild parses the  *)
(* ebuild's file below metadata/md5-cache and keeps the result in a        *)
(* mutable optional of the object; later calls return a reference to it.   *)
(* The method is const and takes no lock.  The threads of a program call   *)
(* it on objects of one ebuild, which they may share and copy, while a     *)
(* sync of the repository replaces the file.                               *)
(***************************************************************************)
EXTENDS Naturals, Sequences

CONSTANTS
    Threads,
    Objects,    \* the Ebuild objects there can be
    Keys,       \* the keys of the file that have a member in Metadata
    Plain,      \* those whose member is the text itself: DESCRIPTION
    Contents    \* the successive contents of the file: sequences of lines

None  == [k \in Keys |-> "none"]     \* an optional without a value
Torn  == [k \in Keys |-> "torn"]     \* one that is being assigned
Blank == [k \in Keys |-> ""]

\* What the member's rule makes of the text after the key: all of it, the front of it
\* only, or nothing.
Parses   == {"all", "front", "nothing"}
Readings == [key : Keys \cup {"other"}, value : STRING, parses : Parses]

\* A line reaches the file piece by piece; `fronts' are what may be there of it before its
\* newline is, the shorter ones first, each as it reads when the file ends behind it.
Lines == [key : Keys \cup {"other"}, value : STRING, parses : Parses, fronts : Seq(Readings)]

\* No key is the front of another once its = is counted, so the front of a line has its
\* key or none; and the tools that write the cache write each key once.
ASSUME CacheAssumption ==
    /\ Objects # {} /\ Keys # {} /\ Plain \subseteq Keys /\ "other" \notin Keys
    /\ Contents \in Seq(Seq(Lines)) /\ Contents # <<>>
    /\ \A i \in DOMAIN Contents : \A n \in DOMAIN Contents[i] :
        /\ Contents[i][n].value \notin {"none", "torn"}
        /\ \A m \in DOMAIN Contents[i] :
              Contents[i][n].key = Contents[i][m].key /\ Contents[i][n].key \in Keys => n = m
        /\ \A j \in DOMAIN Contents[i][n].fronts :
              /\ Contents[i][n].fronts[j].key \in {Contents[i][n].key, "other"}
              /\ Contents[i][n].fronts[j].value \notin {"none", "torn"}

VARIABLES
    file,       \* the cache file: which content, how many of its lines are written, how
                \* much of the next one, and whether there is a file of that name
    alive,      \* the objects that exist so far
    cell,       \* _metadata of each object
    pc,         \* what each thread is about to do
    obj,        \* the object it does this to
    stream,     \* the file it has opened, and how many lines it has read
    meta,       \* the Metadata it has parsed so far
    got,        \* history: what the reference that metadata() returned referred to
    origin,     \* history: for each object, the stream its _metadata is from
    spoilt      \* history: the objects that were used during a call that may fill them

callVars == <<pc, obj, stream, meta, got>>
vars     == <<file, alive, cell, callVars, origin, spoilt>>

NoStream == [content |-> 0, written |-> 0, at |-> 0]

Init ==
    /\ file = [content |-> 1, written |-> Len(Contents[1]), part |-> 0, linked |-> TRUE]
    /\ alive \in SUBSET Objects
    /\ cell = [o \in Objects |-> None]
    /\ pc = [t \in Threads |-> "idle"]
    /\ obj \in [Threads -> {CHOOSE o \in Objects : TRUE}]
    /\ stream = [t \in Threads |-> NoStream]
    /\ meta = [t \in Threads |-> Blank]
    /\ got = [t \in Threads |-> None]
    /\ origin = [o \in Objects |-> NoStream]
    /\ spoilt = {}

Inside(t, o) == obj[t] = o /\ pc[t] \notin {"idle", "held"}
MayFill(o)   == cell[o] \in {None, Torn} /\ \E t \in Threads : Inside(t, o)

Goto(t, where) == pc' = [pc EXCEPT ![t] = where]

-----------------------------------------------------------------------------
(* The sync: the file is replaced at once, or removed and written again.   *)

Complete == file.written = Len(Contents[file.content])

Remove ==
    /\ file.linked /\ Complete
    /\ file' = [file EXCEPT !.linked = FALSE]
    /\ UNCHANGED <<alive, cell, callVars, origin, spoilt>>

Replace ==
    /\ Complete /\ file.content < Len(Contents)
    /\ \E n \in {0, Len(Contents[file.content + 1])} :
          /\ n = 0 => ~file.linked
          /\ file' = [content |-> file.content + 1, written |-> n, part |-> 0, linked |-> TRUE]
    /\ UNCHANGED <<alive, cell, callVars, origin, spoilt>>

\* A piece of the next line is written, at whatever place the writer's buffer ends.
WritePart ==
    /\ ~Complete
    /\ \E j \in DOMAIN Contents[file.content][file.written + 1].fronts :
          j > file.part /\ file' = [file EXCEPT !.part = j]
    /\ UNCHANGED <<alive, cell, callVars, origin, spoilt>>

\* The next line is written up to its newline.
WriteLine ==
    /\ ~Complete
    /\ file' = [file EXCEPT !.written = @ + 1, !.part = 0]
    /\ UNCHANGED <<alive, cell, callVars, origin, spoilt>>

-----------------------------------------------------------------------------
(* parse_metadata: one if per key, of which one at most takes the line.    *)

\* A mutant: what the rule has read of a line that it cannot read to the end is kept.
TakeFront(m, line) ==
    IF line.key \in Keys /\ line.parses # "nothing"
    THEN [m EXCEPT ![line.key] = line.value] ELSE m

\* metadata_parser resets the member when the rule leaves some of the line.
Take(m, line) ==
    IF line.key \notin Keys THEN m
    ELSE IF line.key \in Plain \/ line.parses = "all" THEN [m EXCEPT ![line.key] = line.value]
    ELSE [m EXCEPT ![line.key] = ""]

\* How many lines the thread's stream has at the moment, and how much of another.
Available(t) ==
    LET c == stream[t].content IN
    IF c = 0 THEN 0 ELSE IF c = file.content THEN file.written ELSE Len(Contents[c])

PartOf(t) == IF stream[t].content = file.content THEN file.part ELSE 0

\* A file that cannot be opened is a stream without lines, and no error.
Open(t) ==
    /\ pc[t] = "open"
    /\ stream' = [stream EXCEPT ![t] =
          IF file.linked
          THEN [content |-> file.content, written |-> file.written, at |-> 0] ELSE NoStream]
    /\ meta' = [meta EXCEPT ![t] = Blank]
    /\ Goto(t, "read")
    /\ UNCHANGED <<file, alive, cell, obj, got, origin, spoilt>>

ReadLine(t) ==
    /\ pc[t] = "read" /\ stream[t].at < Available(t)
    /\ meta' = [meta EXCEPT ![t] = Take(@, Contents[stream[t].content][stream[t].at + 1])]
    /\ stream' = [stream EXCEPT ![t].at = @ + 1]
    /\ UNCHANGED <<file, alive, cell, pc, obj, got, origin, spoilt>>

\* getline takes what is left of the file for a line, whether or not there is a newline.
ReadFront(t) ==
    /\ pc[t] = "read" /\ stream[t].at = Available(t) /\ PartOf(t) > 0
    /\ meta' = [meta EXCEPT ![t] =
          Take(@, Contents[stream[t].content][stream[t].at + 1].fronts[PartOf(t)])]
    /\ Goto(t, "fill")
    /\ UNCHANGED <<file, alive, cell, obj, stream, got, origin, spoilt>>

EndOfFile(t) ==
    /\ pc[t] = "read" /\ stream[t].at = Available(t) /\ PartOf(t) = 0
    /\ Goto(t, "fill")
    /\ UNCHANGED <<file, alive, cell, obj, stream, meta, got, origin, spoilt>>

-----------------------------------------------------------------------------
(* Ebuild::metadata() and its callers.                                     *)

Call(t, o) ==
    /\ pc[t] = "idle" /\ o \in alive
    /\ obj' = [obj EXCEPT ![t] = o]
    /\ spoilt' = IF MayFill(o) THEN spoilt \cup {o} ELSE spoilt
    /\ Goto(t, "test")
    /\ UNCHANGED <<file, alive, cell, stream, meta, got, origin>>

\* A mutant: metadata that says nothing is looked for again.
TestForMore(t) ==
    /\ pc[t] = "test"
    /\ IF cell[obj[t]] \in {None, Torn, Blank}
       THEN Goto(t, "open") /\ UNCHANGED got
       ELSE Goto(t, "held") /\ got' = [got EXCEPT ![t] = cell[obj[t]]]
    /\ UNCHANGED <<file, alive, cell, obj, stream, meta, origin, spoilt>>

\* A mutant: without the test.
NoTest(t) ==
    /\ pc[t] = "test"
    /\ Goto(t, "open")
    /\ UNCHANGED <<file, alive, cell, obj, stream, meta, got, origin, spoilt>>

\* has_value(), which during an assignment may say either.
Test(t) ==
    /\ pc[t] = "test"
    /\ \/ /\ cell[obj[t]] # None
          /\ Goto(t, "held") /\ got' = [got EXCEPT ![t] = cell[obj[t]]]
       \/ /\ cell[obj[t]] \in {None, Torn}
          /\ Goto(t, "open") /\ UNCHANGED got
    /\ UNCHANGED <<file, alive, cell, obj, stream, meta, origin, spoilt>>

\* _metadata = ...: it is not atomic.
BeginFill(t) ==
    /\ pc[t] = "fill"
    /\ cell' = [cell EXCEPT ![obj[t]] = Torn]
    /\ Goto(t, "filling")
    /\ UNCHANGED <<file, alive, obj, stream, meta, got, origin, spoilt>>

\* Two assignments at a time may leave anything behind.
EndFill(t) ==
    /\ pc[t] = "filling"
    /\ \E m \in {meta[t]} \cup (IF obj[t] \in spoilt THEN {Torn} ELSE {}) :
          /\ cell' = [cell EXCEPT ![obj[t]] = m]
          /\ got' = [got EXCEPT ![t] = m]
    /\ origin' = [origin EXCEPT ![obj[t]] = [stream[t] EXCEPT !.at = 0]]
    /\ stream' = [stream EXCEPT ![t] = NoStream]
    /\ meta' = [meta EXCEPT ![t] = Blank]
    /\ Goto(t, "held")
    /\ UNCHANGED <<file, alive, obj, spoilt>>

\* The caller is done with the reference.
Release(t) ==
    /\ pc[t] = "held"
    /\ Goto(t, "idle") /\ got' = [got EXCEPT ![t] = None]
    /\ UNCHANGED <<file, alive, cell, obj, stream, meta, origin, spoilt>>

\* An Ebuild is copied, with what its optional holds.
Copy(t, p, o) ==
    /\ pc[t] = "idle" /\ p \in alive /\ o \notin alive
    /\ alive' = alive \cup {o}
    /\ cell' = [cell EXCEPT ![o] = cell[p]]
    /\ origin' = [origin EXCEPT ![o] = origin[p]]
    /\ spoilt' = IF MayFill(p) THEN spoilt \cup {o, p}
                 ELSE IF p \in spoilt THEN spoilt \cup {o} ELSE spoilt
    /\ UNCHANGED <<file, callVars>>

Step(t) ==
    \/ Test(t) \/ Open(t) \/ ReadLine(t) \/ ReadFront(t) \/ EndOfFile(t)
    \/ BeginFill(t) \/ EndFill(t)

Next ==
    \/ Remove \/ Replace \/ WritePart \/ WriteLine
    \/ \E t \in Threads :
        \/ Step(t) \/ Release(t)
        \/ \E o \in Objects : Call(t, o) \/ \E p \in Objects : Copy(t, p, o)

Spec == Init /\ [][Next]_vars

-----------------------------------------------------------------------------
\* A reference that metadata() has returned refers to a whole Metadata, the one it
\* referred to at first, for as long as its holder likes, whatever other threads do with
\* the object: provided only that nobody used the object in a call or a copy while a
\* call that may fill it was under way.  To fill it before it is shared is enough.
HeldAreWhole ==
    \A t \in Threads :
        pc[t] = "held" /\ obj[t] \notin spoilt =>
            cell[obj[t]] = got[t] /\ got[t] \notin {None, Torn}

\* What the file says, line by line.
Says(lines) ==
    [k \in Keys |->
        IF \E n \in DOMAIN lines : lines[n].key = k /\ (k \in Plain \/ lines[n].parses = "all")
        THEN lines[CHOOSE n \in DOMAIN lines : lines[n].key = k].value ELSE ""]

\* What a stream that was opened on the content may have seen of it: a front of its lines,
\* all those that were there when it was opened and perhaps later ones, and behind them
\* perhaps the front of another line.
Seen(content, opened) ==
    {SubSeq(content, 1, n) : n \in opened .. Len(content)} \cup
    UNION {{Append(SubSeq(content, 1, n), content[n + 1].fronts[j]) :
               j \in DOMAIN content[n + 1].fronts} : n \in opened .. Len(content) - 1}

\* The metadata of an object is what one content of the file says, never a mixture of two,
\* and never the front of a value that the rule cannot read to the end: all of the content
\* if it was complete when it was opened, nothing if the file was not there.  Only of a
\* file that the sync was writing is it less, a front of the lines, of which the last may
\* be cut short.
CacheIsOneContent ==
    \A o \in Objects \ spoilt : cell[o] \notin {None, Torn} =>
        LET from    == origin[o]
            content == IF from.content = 0 THEN <<>> ELSE Contents[from.content]
        IN  \E lines \in Seen(content, from.written) : cell[o] = Says(lines)

\* An object's metadata is parsed once in its life: whatever was found, an incomplete file
\* or none, it never changes, even when the file does.
ParsedOnce ==
    [][\A o \in alive \ spoilt' : cell[o] \notin {None, Torn} => cell'[o] = cell[o]]_vars
=============================================================================
