--------------------------- MODULE DependGrammar ---------------------------
(***************************************************************************)
(* The grammar of depend_parser.hpp and of the expressions built on it in  *)
(* ebuild_parser.hpp, on the printer's tokens.  A parser applied to text s *)
(* at position i yields whether it matches, the position after the match   *)
(* and the attribute; alternatives are tried in order and repetition is    *)
(* greedy, as in Boost.Parser.  The expressions differ in the tokens that  *)
(* their rule for an element takes, which is the first alternative.        *)
(***************************************************************************)
EXTENDS Integers, Sequences

Fail == [ok |-> FALSE, next |-> 0, attr |-> <<>>]
Match(next, attr) == [ok |-> TRUE, next |-> next, attr |-> attr]

Is(s, i, kind) == i <= Len(s) /\ s[i].kind = kind

\* *aux::space
SkipSpaces(s, i) ==
    CHOOSE j \in i .. Len(s) + 1 :
        /\ ~Is(s, j, "space")
        /\ \A k \in i .. j - 1 : Is(s, k, "space")

\* -(conds >> +space): the position after it, the same where it does not match.
AfterHeader(s, i) ==
    IF Is(s, i, "header") /\ Is(s, i + 1, "space") THEN SkipSpaces(s, i + 1) ELSE i

HeaderAttr(s, i) == IF AfterHeader(s, i) = i THEN <<>> ELSE <<s[i].at>>

\* package_dep has a slash and license_elem is followed by a blank; uri has "://", and
\* required_use_elem is no use_cond.  None of them matches a header or a bracket.
package_dep == {"atom"}

\* +graph: every token but a blank.
restrict_elem == {"atom", "header", "open", "close"}

\* In what follows, later[j] is what `node % +space' yields at position j; a parser at
\* position i asks for it only behind i.

\* GroupTemplate1
group(s, later, i) ==
    LET open  == AfterHeader(s, i)
        nodes == later[SkipSpaces(s, open + 1)]
        close == SkipSpaces(s, nodes.next)
    IN  IF /\ Is(s, open, "open") /\ Is(s, open + 1, "space")
           /\ nodes.ok /\ Is(s, nodes.next, "space") /\ Is(s, close, "close")
        THEN Match(close + 1, [header |-> HeaderAttr(s, i), nodes |-> nodes.attr])
        ELSE Fail

\* element | group
parse_node(takes, s, later, i) ==
    IF \E kind \in takes : Is(s, i, kind) THEN Match(i + 1, s[i]) ELSE group(s, later, i)

\* node % +space: a separator not followed by a node is given back.
list(takes, s, later, i) ==
    LET first == parse_node(takes, s, later, i)
        rest  == later[SkipSpaces(s, first.next)]
    IN  IF ~first.ok THEN Fail
        ELSE IF Is(s, first.next, "space") /\ rest.ok
        THEN Match(rest.next, <<first.attr>> \o rest.attr)
        ELSE Match(first.next, <<first.attr>>)

lists(takes, s) ==
    LET f[i \in 1 .. Len(s) + 1] == list(takes, s, f, i)
    IN  f

\* GroupTemplate2, which has to match all of the text.
parse_nodes(takes, s) ==
    LET nodes == lists(takes, s)[SkipSpaces(s, 1)]
    IN  IF nodes.ok /\ SkipSpaces(s, nodes.next) = Len(s) + 1
        THEN Match(Len(s) + 1, [header |-> <<>>, nodes |-> nodes.attr])
        ELSE Fail
=============================================================================
