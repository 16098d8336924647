------------------------------- MODULE MCSaves -------------------------------
(* What the core saves: its flash, as a file and in a state, and beside it the *)
(* format of a whole state.  FlashStore keeps the ROM that a state holds as a  *)
(* value, StateFormat knows how the state is written and found again, so a     *)
(* behaviour runs one of the two and the other stands still.                   *)
EXTENDS MCFlashStore, StateFormat

V(n, size) == [name |-> n, size |-> size]
S(n, vs) == [name |-> n, vars |-> vs]

\* The flash image has no size of its own in the list.
FlashSections == << S("FINF", <<V("FlashLength", 1)>>), S("FLSH", <<V("flashdata", 0)>>) >>

\* The later build has one section and one variable more, two variables of another
\* size, and lists them in another order; "b" is in two sections, in the earlier build
\* of the same size.
MCLayouts ==
    [early |-> << S("MAIN", <<V("a", 1), V("b", 2)>>), S("GFX", <<V("b", 2), V("c", 2)>>) >>
              \o FlashSections,
     late  |-> << S("GFX", <<V("c", 1), V("b", 1)>>), S("SND", <<V("d", 1)>>),
                  S("MAIN", <<V("b", 2), V("e", 1), V("a", 1)>>) >>
              \o FlashSections]

VARIABLE part    \* "flash" or "format"

Start ==
    /\ Init /\ FormatInit
    /\ \/ part = "format"
       \/ part = "flash" /\ build = "early" /\ memory = CHOOSE m \in Memories("early") : TRUE

Step ==
    \/ part = "flash" /\ Next /\ UNCHANGED <<formatVars, part>>
    \/ part = "format" /\ FormatNext /\ UNCHANGED <<vars, part>>

Saves == Start /\ [][Step]_<<vars, formatVars, part>> /\ WF_formatVars(Load)
===============================================================================
