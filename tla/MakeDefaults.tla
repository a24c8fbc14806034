---------------------------- MODULE MakeDefaults ----------------------------
(***************************************************************************)
(* Profile::init_make_defaults of profile.cpp: the evaluation of the       *)
(* make.defaults lines of a profile and its parents, concatenated in       *)
(* make_defaults_unevaluated_, into the map make_defaults_.                *)
(*                                                                         *)
(* A text is a sequence of words and spaces.  The value of a line is the   *)
(* sequence of its elements: words, references to variables and spaces.    *)
(***************************************************************************)
EXTENDS SequencesExt, Integers

CONSTANTS
    Words,          \* what a text is made of, besides spaces
    Dollars,        \* words with a '$' inside, as foo$BAR, which refer to nothing
    Odd,            \* words that make_defaults_shlex does not take, as it's
    Blank,          \* the character ' '
    Escape,         \* a newline with a backslash before it
    Newline,        \* any other space character that a value may have
    Incremental,    \* the keys whose values accumulate (USE, ENV_UNSET, ...)
    Lines,          \* the lines a make.defaults file may have
    MaxLines        \* bound: the length of the concatenation

Spaces == {Blank, Escape, Newline}

\* A word, which may be quoted with spaces in it; a reference to a variable; a space.
Elements ==
    [kind : {"word", "variable"}, name : Words] \cup [kind : {"space"}, name : Spaces]

\* How a text falls into elements: what follows a word up to a space is part of it,
\* an escaped newline too, with which a word may also begin.
WellFormed(value) ==
    /\ value # <<>> => Head(value).name # Escape
    /\ \A i \in 1 .. Len(value) - 1 :
           value[i].kind = "word" => value[i + 1].name \in {Blank, Newline}

VARIABLES
    unevaluated,    \* make_defaults_unevaluated_
    line,           \* the line the loop has reached
    elems,          \* the elements of parsed_line that are left
    expanded,       \* expanded_line
    defaults,       \* make_defaults_, a text for each key it has
    stage           \* where the function stands

vars == <<unevaluated, line, elems, expanded, defaults, stage>>

Joined(words) ==
    [i \in 1 .. 2 * Len(words) - 1 |->
        IF i % 2 = 1 THEN words[(i + 1) \div 2] ELSE Blank]

Names(value) == [i \in 1 .. Len(value) |-> value[i].name]

\* line.contains('$')
HasDollar(value) ==
    \E i \in 1 .. Len(value) : value[i].kind = "variable" \/ value[i].name \in Dollars

\* Mutants of set_or_append: a new value goes in front; every key accumulates.
set_or_prepend(map, key, text) ==
    LET prev  == IF key \in DOMAIN map THEN map[key] ELSE <<>>
        value == IF key \notin Incremental \/ prev = <<>> THEN text
                 ELSE IF text = <<>> THEN prev
                 ELSE text \o <<Blank>> \o prev
    IN  [k \in DOMAIN map \cup {key} |-> IF k = key THEN value ELSE map[k]]
always_append(map, key, text) ==
    LET prev  == IF key \in DOMAIN map THEN map[key] ELSE <<>>
        value == IF prev = <<>> THEN text
                 ELSE IF text = <<>> THEN prev
                 ELSE prev \o <<Blank>> \o text
    IN  [k \in DOMAIN map \cup {key} |-> IF k = key THEN value ELSE map[k]]

set_or_append(map, key, text) ==
    LET prev  == IF key \in DOMAIN map THEN map[key] ELSE <<>>
        value == IF key \notin Incremental \/ prev = <<>> THEN text
                 ELSE IF text = <<>> THEN prev
                 ELSE prev \o <<Blank>> \o text
    IN  [k \in DOMAIN map \cup {key} |-> IF k = key THEN value ELSE map[k]]

\* The function is called.
Start ==
    /\ line = 1
    /\ elems = <<>>
    /\ expanded = <<>>
    /\ defaults = [key \in {} |-> <<>>]
    /\ stage = "line"

Init == unevaluated \in BoundedSeq(Lines, MaxLines) /\ Start

Current == unevaluated[line]

AtLine == stage = "line" /\ line <= Len(unevaluated)

\* A line without a '$' is taken as it is, whatever spaces it has.
PlainLine ==
    /\ AtLine /\ ~HasDollar(Current.value)
    /\ defaults' = set_or_append(defaults, Current.key, Names(Current.value))
    /\ line' = line + 1
    /\ UNCHANGED <<unevaluated, elems, expanded, stage>>

\* Words and variables with blanks or escaped newlines between them: no space at an
\* end, no other space, nothing else directly after a variable.
Splits(value) ==
    /\ Head(value).kind # "space" /\ Last(value).kind # "space"
    /\ \A i \in 1 .. Len(value) : value[i].name \notin {Newline} \cup Odd
    /\ \A i \in 1 .. Len(value) - 1 :
           value[i].kind = "variable" => value[i + 1].kind = "space"

\* The elements of parsed_line.
Parsed(value) ==
    FlattenSeq([i \in 1 .. Len(value) |->
        IF value[i].kind = "space" THEN <<>> ELSE <<value[i]>>])

\* A line with a '$' is split into words and variables ...
SplitLine ==
    /\ AtLine /\ HasDollar(Current.value) /\ Splits(Current.value)
    /\ elems' = Parsed(Current.value)
    /\ expanded' = <<>>
    /\ stage' = "elements"
    /\ UNCHANGED <<unevaluated, line, defaults>>

\* ... or refused, and the constructor throws.
RefuseLine ==
    /\ AtLine /\ HasDollar(Current.value) /\ ~Splits(Current.value)
    /\ stage' = "thrown"
    /\ UNCHANGED <<unevaluated, line, elems, expanded, defaults>>

AtElement(kind) == stage = "elements" /\ elems # <<>> /\ Head(elems).kind = kind

AppendWord ==
    /\ AtElement("word")
    /\ expanded' = expanded \o <<Head(elems).name, Blank>>
    /\ elems' = Tail(elems)
    /\ UNCHANGED <<unevaluated, line, defaults, stage>>

\* The lookup is for what expanded_line holds, not for the variable's name.
AppendVariable ==
    /\ AtElement("variable")
    /\ LET found == {key \in DOMAIN defaults : expanded = <<key>>}
       IN  expanded' = IF found = {} THEN expanded
                       ELSE expanded \o defaults[CHOOSE key \in found : TRUE] \o <<Blank>>
    /\ elems' = Tail(elems)
    /\ UNCHANGED <<unevaluated, line, defaults, stage>>

\* Mutant of Stripped: the last blank stays.
Unstripped(text) == text

Stripped(text) == IF text # <<>> /\ Last(text) = Blank THEN Front(text) ELSE text

EndOfElements ==
    /\ stage = "elements" /\ elems = <<>>
    /\ defaults' = set_or_append(defaults, Current.key, Stripped(expanded))
    /\ line' = line + 1
    /\ stage' = "line"
    /\ UNCHANGED <<unevaluated, elems, expanded>>

EndOfLines ==
    /\ stage = "line" /\ line > Len(unevaluated)
    /\ stage' = "done"
    /\ UNCHANGED <<unevaluated, line, elems, expanded, defaults>>

Next ==
    \/ PlainLine \/ SplitLine \/ RefuseLine
    \/ AppendWord \/ AppendVariable \/ EndOfElements \/ EndOfLines

Spec == Init /\ [][Next]_vars

-----------------------------------------------------------------------------
\* Words, and exactly one blank between two of them: what the parsers separate the
\* elements of a variable by.
Spaced(text) ==
    \A i \in 1 .. Len(text) :
        text[i] \in Spaces =>
            text[i] = Blank /\ 1 < i /\ i < Len(text) /\ text[i + 1] \notin Spaces

\* The words of a value, its references to variables left out.
WordsOf(value) ==
    LET elements == Parsed(value)
    IN  FlattenSeq([i \in 1 .. Len(elements) |->
            IF elements[i].kind = "word" THEN <<elements[i].name>> ELSE <<>>])

\* What a line says: itself, or its words if it has to be taken apart.
Text(value) == IF HasDollar(value) THEN Joined(WordsOf(value)) ELSE Names(value)

\* What the evaluated lines that assign to a key say, in the order of the lines, with a
\* blank in front of each text that is not empty.
Said(key) ==
    FlattenSeq([i \in 1 .. line - 1 |->
        IF unevaluated[i].key = key /\ Text(unevaluated[i].value) # <<>>
        THEN <<Blank>> \o Text(unevaluated[i].value) ELSE <<>>])

\* An incremental key holds what every line that assigned to it says, of parents and
\* children alike, in the order of the concatenation, with one blank in between and
\* nothing lost or added.
Accumulates ==
    \A key \in Incremental \cap DOMAIN defaults :
        IF defaults[key] = <<>> THEN Said(key) = <<>>
        ELSE Said(key) = <<Blank>> \o defaults[key]

\* Any other key holds what the last line that assigns to it says: a child
\* overrides its parents, a later parent an earlier one.
LastWins ==
    \A key \in DOMAIN defaults \ Incremental :
        \E i \in 1 .. line - 1 :
            /\ unevaluated[i].key = key
            /\ \A j \in i + 1 .. line - 1 : unevaluated[j].key # key
            /\ defaults[key] = Text(unevaluated[i].value)

\* What profile.cpp says above combine_parents: a line of one parent may refer
\* to a variable that a line before it, of another parent, has set.  If the
\* line BAR="$FOO" is the last to assign to BAR, then BAR has the value of FOO.
ParentsShareVariables ==
    \A i, j \in 1 .. line - 1 :
        LET from == unevaluated[i]
            to   == unevaluated[j]
        IN  /\ i < j
            /\ ~HasDollar(from.value)
            /\ to.value = <<[kind |-> "variable", name |-> from.key]>>
            /\ {from.key, to.key} \cap Incremental = {}
            /\ \A n \in i + 1 .. j - 1 : unevaluated[n].key # from.key
            /\ \A n \in j + 1 .. line - 1 : unevaluated[n].key # to.key
            => defaults[to.key] = Names(from.value)
=============================================================================
