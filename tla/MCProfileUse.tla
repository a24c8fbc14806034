---------------------------- MODULE MCProfileUse ----------------------------
(***************************************************************************)
(* A profile with two parents, the first of which inherits the second, and *)
(* a package with two flags.  Either make.defaults has any MaxLines lines, *)
(* with values that are empty, plain, plain with two blanks together or a  *)
(* newline in front, made of a variable alone, of one on either side of a  *)
(* word, with a '$' in a word, or refused; or any two other files of the   *)
(* hierarchy hold tokens; or one file of each kind does, under some        *)
(* variables; or package.use has any MaxTokens tokens, cut into lines in   *)
(* every way, for two packages.                                            *)
(***************************************************************************)
EXTENDS ProfileUse

CONSTANTS base, mid, leaf, f, g, FOO, dollar, odd

MCParents == [p \in {base, mid, leaf} |->
    CASE p = base -> <<>> [] p = mid -> <<base>> [] p = leaf -> <<mid, base>>]

MCRank == [p \in {base, mid, leaf} |-> CASE p = base -> 0 [] p = mid -> 1 [] p = leaf -> 2]

Elem(flag, default) == [flag |-> flag, default |-> default]

Ebuilds ==
    {<<Elem(f, "none")>>, <<Elem(f, "none"), Elem(g, "-"), Elem(f, "+")>>,
     <<Elem(f, "-"), Elem(Arch, "none")>>,
     <<Elem(Arch, "+"), Elem(g, "none"), Elem(f, "+")>>}

-----------------------------------------------------------------------------
MCWords == {USE_, IUSE_IMPLICIT, FOO, dollar, odd} \cup Tokens

MCInvalid == {All, dollar, odd}

Word(name) == [kind |-> "word", name |-> name]
Variable(name) == [kind |-> "variable", name |-> name]
Space(name) == [kind |-> "space", name |-> name]

Values ==
    {<<>>, <<Word(On(f))>>, <<Word(Nothing), Space(Blank), Word(Off(g))>>, <<Variable(FOO)>>,
     <<Word(FOO), Space(Blank), Variable(FOO)>>,
     <<Variable(USE_), Space(Escape), Word(On(g))>>, <<Variable(FOO), Word(On(f))>>,
     <<Word(On(g)), Space(Blank), Word(All)>>,
     <<Word(On(g)), Space(Blank), Space(Blank), Word(On(f))>>,
     <<Space(Newline), Word(On(f))>>, <<Word(dollar)>>, <<Word(odd), Space(Blank), Variable(FOO)>>}

\* What the two other keys are assigned.
Few ==
    {<<>>, <<Word(On(f))>>, <<Word(FOO), Space(Blank), Variable(FOO)>>,
     <<Word(On(g)), Space(Blank), Space(Blank), Word(On(f))>>,
     <<Word(Nothing), Space(Blank), Word(Off(g))>>}

MCLines == [key : {USE_}, value : Values] \cup [key : {IUSE_IMPLICIT, FOO}, value : Few]

-----------------------------------------------------------------------------
TokenSets == {{On(f)}, {Off(f)}, {All, Off(f)}, {Nothing, On(f)}}

MCLayers == {"use", "use_stable", "package", "package_stable"}

FilesFor(purpose) == {base, mid, leaf} \X {purpose} \X MCLayers

With(choice) ==
    [p \in {base, mid, leaf} |-> [purpose \in {"force", "mask"} |-> [layer \in MCLayers |->
        IF <<p, purpose, layer>> \in DOMAIN choice
        THEN choice[<<p, purpose, layer>>] ELSE {}]]]

NoFiles == With([x \in {} |-> {}])

\* Up to two files with tokens, both of force or both of mask.
Written ==
    {With(choice) : choice \in
        UNION {[{x, y} -> TokenSets] : <<x, y>> \in
            (FilesFor("force") \X FilesFor("force")) \cup (FilesFor("mask") \X FilesFor("mask"))}}

\* One file of each kind.
Opposed ==
    {With(choice) : choice \in
        [{<<base, "mask", "use">>, <<leaf, "force", "package">>} -> {{}} \cup TokenSets]}

\* The profile forces everything but f, and the ebuild enables f or is stable.
MCBrief ==
    [lines : {<<>>},
     files : {With([y \in {<<leaf, "force", "package">>} |-> {All, Off(f)}])},
     iuse : {<<Elem(f, "+"), Elem(g, "none")>>, <<Elem(f, "none"), Elem(Arch, "none")>>}]

Assign(key, value) == [key |-> key, value |-> value]

MCInputs ==
    [lines : BoundedSeq(MCLines, MaxLines), files : {NoFiles},
     iuse : {<<Elem(f, "none"), Elem(g, "-")>>}]
    \cup [lines : {<<>>}, files : Written, iuse : Ebuilds]
    \cup [lines : {<<>>, <<Assign(USE_, <<Word(Off(f))>>)>>,
                   <<Assign(USE_, <<Word(On(f)), Space(Blank), Word(Nothing)>>)>>,
                   <<Assign(IUSE_IMPLICIT, <<Word(On(f))>>)>>},
          files : Opposed, iuse : Ebuilds]
    \cup MCBrief
=============================================================================
