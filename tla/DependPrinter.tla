--------------------------- MODULE DependPrinter ---------------------------
(***************************************************************************)
(* GroupExpr::operator std::string of depend.hpp: one forward scan of the  *)
(* iterator prints the expression.  The loop body prints the node reached, *)
(* the brackets and the line breaks come from the iterator's callbacks,    *)
(* called in the middle of operator++, and `spacing', the indentation the  *)
(* callbacks share, has to follow the depth of the iterator.               *)
(*                                                                         *)
(* The text is a sequence of tokens: an atom or a header is named by its   *)
(* node, and a line break, a tab or a blank is one unit of white space.    *)
(***************************************************************************)
EXTENDS DependIterator

VARIABLES
    headed,     \* the groups that have a conditional (a use flag or an operator)
    out,        \* ret: the tokens printed
    spacing,    \* the length of the string `spacing'
    stage       \* where operator std::string stands

printer == <<headed, out, spacing, stage>>
pvars   == <<vars, printer>>

Space     == [kind |-> "space"]
Open      == [kind |-> "open"]
Close     == [kind |-> "close"]
Atom(p)   == [kind |-> "atom", at |-> p]
Header(p) == [kind |-> "header", at |-> p]

Spaces(n) == [i \in 1 .. n |-> Space]

Top == IF Root \in headed THEN 1 ELSE 0

-----------------------------------------------------------------------------
\* Mutants of the callbacks: no indentation, no line break, no unindentation.
OnDownwardsFlat == out' = out \o <<Open, Space>> /\ UNCHANGED spacing
OnRightGlued    == UNCHANGED <<out, spacing>>
OnUpwardsStays  ==
    /\ UNCHANGED spacing
    /\ out' = out \o <<Space>> \o Spaces(spacing) \o <<Close>>

\* The callbacks the printer installs; callbacks.left stays empty.
OnDownwards == out' = out \o <<Open, Space>> /\ spacing' = spacing + 1
OnRight     == out' = Append(out, Space) /\ UNCHANGED spacing
OnUpwards   ==
    /\ spacing' = spacing - 1
    /\ out' = out \o <<Space>> \o Spaces(spacing - 1) \o <<Close>>

RunCallback ==
    \/ called' = "downwards" /\ OnDownwards
    \/ called' = "right" /\ OnRight
    \/ called' = "upwards" /\ OnUpwards
    \/ called' = "none" /\ UNCHANGED <<out, spacing>>

PInit ==
    /\ ast \in Trees
    /\ headed \in SUBSET (DOMAIN ast)
    /\ node = (IF ast[Root] = 0 THEN Null ELSE <<0>>) /\ index = node
    /\ called = "none" /\ pc = "idle"
    /\ out = <<>> /\ spacing = 0 /\ stage = "start"

\* The expression's own header, and its bracket: a topmost group without a
\* conditional gets none.
Start ==
    /\ stage = "start" /\ stage' = "loop"
    /\ IF Root \in headed
       THEN out' = <<Header(Root), Space, Open, Space>> /\ spacing' = spacing + 1
       ELSE UNCHANGED <<out, spacing>>
    /\ UNCHANGED <<vars, headed>>

AtEnd == Spaceship(index, node = Null, <<ast[Root]>>, TRUE) = 0

\* The loop's body: an atom, or the header of a group that has one.
Visit ==
    /\ stage = "loop" /\ ~AtEnd
    /\ out' = out \o (IF ~IsGroup(ast, node) THEN Append(Spaces(spacing), Atom(node))
                      ELSE IF node \in headed
                      THEN Spaces(spacing) \o <<Header(node), Space>>
                      ELSE <<>>)
    /\ stage' = "advance"
    /\ UNCHANGED <<vars, headed, spacing>>

\* iter++: its first step, and the steps of its loop; it returns when pc is idle.
Advance ==
    /\ stage = "advance"
    /\ IF pc = "idle" THEN Increment ELSE IncrementRight
    /\ RunCallback
    /\ stage' = IF pc' = "idle" THEN "loop" ELSE "advance"
    /\ UNCHANGED headed

Finish ==
    /\ stage = "loop" /\ AtEnd /\ stage' = "done"
    /\ IF Root \in headed THEN OnUpwards ELSE UNCHANGED <<out, spacing>>
    /\ UNCHANGED <<vars, headed>>

Printing == Start \/ Visit \/ Advance \/ Finish

\* When the text is there, the caller goes on with the iterator, in any way it likes
\* and without callbacks.  Headers play no part in that, so the expressions without
\* any stand for all.
Caller == stage = "done" /\ headed = {} /\ UNCHANGED printer
Use    == Caller /\ Next

PNext == Printing \/ Use

\* A call runs to its return, as does the printing.
PSpec ==
    /\ PInit /\ [][PNext]_pvars
    /\ WF_pvars(Printing) /\ WF_pvars(Caller /\ Step)

-----------------------------------------------------------------------------
Stages == {"start", "loop", "advance", "done"}

PTypeOK ==
    /\ TypeOK
    /\ headed \subseteq DOMAIN ast
    /\ spacing \in Nat
    /\ stage \in Stages
    /\ \A i \in 1 .. Len(out) :
          out[i].kind \in {"space", "open", "close", "atom", "header"}

\* The indentation follows the iterator: `spacing' is as long as the brackets
\* around the current node are many, so the callback upwards never pops a
\* character off an empty string, and each line is indented by its depth.
SpacingIsDepth ==
    spacing = IF stage \in {"start", "done"} THEN 0
              ELSE IF node = Null THEN Top
              ELSE Top + Len(index) - 1
=============================================================================
