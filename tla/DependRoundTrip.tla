-------------------------- MODULE DependRoundTrip --------------------------
(***************************************************************************)
(* The printer and the grammar together: the text that operator            *)
(* std::string of depend.hpp makes of an expression, read by the parsers   *)
(* of depend_parser.hpp and ebuild_parser.hpp.                             *)
(***************************************************************************)
EXTENDS DependPrinter, DependGrammar

\* The expression, and each of its nodes, as the parser would build it.
Built ==
    LET built[p \in Nodes(ast) \cup {Root}] ==
            IF IsGroup(ast, p)
            THEN [header |-> IF p \in headed THEN <<p>> ELSE <<>>,
                  nodes  |-> [i \in 1 .. ast[p] |-> built[Append(p, i - 1)]]]
            ELSE Atom(p)
    IN  built

\* The text parsed with the rule for elements gives back the expression: its nodes, or
\* the one group it is when it has a header of its own.  An empty group, which the
\* parser never makes, is printed as text that it refuses.
ReadsBack(takes) ==
    stage = "done" /\ (\A p \in DOMAIN ast : ast[p] > 0) =>
        parse_nodes(takes, out) =
            Match(Len(out) + 1,
                  IF Root \in headed THEN [header |-> <<>>, nodes |-> <<Built[Root]>>]
                  ELSE Built[Root])

\* Printing DEPEND, LICENSE, HOMEPAGE or REQUIRED_USE and parsing it again gives back
\* the expression.
RoundTrip == ReadsBack(package_dep)

\* A node of RESTRICT, PROPERTIES or SRC_URI that is written as a group is parsed as a
\* group, as their node rules of ebuild_parser.hpp say that it may be.
GroupsAreRead == ReadsBack(restrict_elem)
=============================================================================
