--------------------------- MODULE MCVersionOrder ---------------------------
(***************************************************************************)
(* Versions of one or two components, with leading and trailing zeros and  *)
(* numbers that are too large, and versions with letters, suffixes and     *)
(* revisions.                                                              *)
(***************************************************************************)
EXTENDS VersionOrder

Plain(numbers) ==
    [numbers |-> numbers, letter |-> NoLetter, suffixes |-> <<>>, revision |-> NoRevision]

Components == {<<0>>, <<1>>, <<0, 1>>, <<1, 0>>, <<0, 0, 1>>, <<0, 1, 0>>, <<2>>, <<2, 0>>}

\* 20 is out of range.
MCMaxUlong == 19

Numbered ==
    {Plain(<<a>>) : a \in Components} \cup {Plain(<<<<1>>, a>>) : a \in Components}
    \cup {Plain(<<<<1>>, a, <<1>>>>) : a \in Components}

Suffix(word, number) == [word |-> word, number |-> number]

SuffixLists ==
    {<<>>,
     <<Suffix("alpha", <<>>)>>,
     <<Suffix("p", <<2>>)>>,
     <<Suffix("p", <<1, 0>>)>>,
     <<Suffix("alpha", <<>>), Suffix("p", <<2>>)>>,
     <<Suffix("p", <<2>>), Suffix("rc", <<>>)>>}

Decorated ==
    {[numbers |-> <<<<1>>>>, letter |-> l, suffixes |-> s, revision |-> r] :
        l \in 0 .. 2, s \in SuffixLists, r \in {NoRevision, <<0>>, <<1>>, <<2, 0>>}}
    \ {Plain(<<<<1>>>>)}

MCVersions == Numbered \cup Decorated
=============================================================================
