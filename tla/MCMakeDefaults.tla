--------------------------- MODULE MCMakeDefaults ---------------------------
(***************************************************************************)
(* Every concatenation of at most MaxLines lines, of an incremental key    *)
(* and two others, with values that are empty, plain, plain with two       *)
(* blanks together, made of a variable alone, of a variable on either      *)
(* side of a word, or refused.                                             *)
(***************************************************************************)
EXTENDS MakeDefaults

CONSTANTS ENV_UNSET, FOO, BAR, x, y

MCWords == {ENV_UNSET, FOO, BAR, x, y}

Word(name) == [kind |-> "word", name |-> name]
Variable(name) == [kind |-> "variable", name |-> name]
Space(name) == [kind |-> "space", name |-> name]

Values ==
    {<<>>, <<Word(x)>>, <<Word(y), Space(Blank), Space(Blank), Word(x)>>, <<Variable(FOO)>>,
     <<Word(FOO), Space(Blank), Variable(FOO)>>,
     <<Variable(ENV_UNSET), Space(Escape), Word(y)>>, <<Variable(FOO), Word(x)>>}

MCLines == [key : {ENV_UNSET, FOO, BAR}, value : Values]
=============================================================================
