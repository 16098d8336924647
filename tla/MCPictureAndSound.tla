------------------------- MODULE MCPictureAndSound -------------------------
(* Drawing and SoundChip side by side: Emulate() makes both the picture and *)
(* the sound of a frame, but neither looks at the other, so a behaviour    *)
(* runs one of them and the other stands still.                            *)
(*                                                                         *)
(* Programs for Drawing: a screen of four lines and five columns in a world *)
(* of eight by eight, tiles of two by two without any symmetry.             *)
EXTENDS Drawing, SoundChip, TLC

\* Shorter than the screen, just as long, longer, and the one that is never met.
MCPeriods == {1, 3, 4, 6, 7}

Tiles == [t \in 0..2 |-> [r \in 0..1 |-> [c \in 0..1 |-> CASE t = 0 -> 0 [] t = 1 -> (<<1, 0, 2, 3>>)[2 * r + c + 1] [] t = 2 -> 1 + r]]]
Cell(t, h, v, p) == [tile |-> t, hflip |-> h, vflip |-> v, pal |-> p, hi |-> p = 1]
Empty == [row \in 0..3 |-> [i \in 0..3 |-> Cell(0, FALSE, FALSE, 0)]]
Spotted == [row \in 0..3 |-> [i \in 0..3 |-> Cell((row + i) % 3, i = 1, row = 1, (row * i) % 2)]]
Full == [row \in 0..3 |-> [i \in 0..3 |-> Cell(2, FALSE, i = 2, row % 2)]]
At(x, y, priority, xchain, ychain) == [x |-> x, y |-> y, priority |-> priority, xchain |-> xchain, ychain |-> ychain]
Memory(one, two, sprites) == [tiles |-> Tiles, planes |-> <<one, two>>, sprites |-> sprites]

Still(memory, set, mono) == [first |-> memory, regs |-> set, mono |-> mono, busy |-> FALSE, writes |-> {}]

\* Three sprites, the second and third in a chain or not, among planes.
Chains == {Still(Memory(Spotted, Empty,
                 <<Cell(2, FALSE, FALSE, 0) @@ At(x, y, 2, FALSE, FALSE), Cell(1, x = 1, FALSE, 1) @@ At(1, 7, q, xc, yc),
                   Cell(1, FALSE, y = 7, 0) @@ At(2, 2, r, yc, xc)>>),
                 [PO_H |-> o, PO_V |-> o], mono) :
             x \in {1, 7}, y \in {0, 7}, q \in {0, 2, 3}, r \in 1..3, xc \in BOOLEAN, yc \in BOOLEAN, o \in {0, 6}, mono \in BOOLEAN}
\* Windows and scrolled planes, swapped or not, with a sprite between them.
Windows == {Still(Memory(Spotted, Full, <<Cell(1, TRUE, FALSE, 0) @@ At(7, 1, 2, FALSE, FALSE)>>),
                  [WBA_H |-> x, WSI_H |-> w, WBA_V |-> 1, WSI_V |-> h, S1SO_H |-> a, S2SO_H |-> 3, S1SO_V |-> 7, S2SO_V |-> a,
                   P_F |-> swap, NEG |-> swap], mono) :
              x \in {0, 2, 6}, w \in {0, 1, 2, 7}, h \in {2, 7}, a \in {0, 5}, swap \in BOOLEAN, mono \in BOOLEAN}
\* A program that writes while lines are drawn, and one that resets and changes the field.
One == <<Cell(1, FALSE, FALSE, 0) @@ At(1, 1, 2, FALSE, FALSE)>>
Writer == [Still(Memory(Spotted, Empty, One), [NEG |-> FALSE], FALSE) EXCEPT
             !.writes = {[S1SO_H |-> 1], [S2SO_V |-> 2], [K2GE_MODE |-> TRUE], [video |-> Memory(Empty, Spotted, One)]}]
Clock == [Still(Memory(Spotted, Empty, One), [NEG |-> FALSE], TRUE) EXCEPT !.busy = TRUE]

MCPrograms == Chains \cup Windows \cup {Writer, Clock}

-----------------------------------------------------------------------------
\* Programs for SoundChip: what they write, in this order, at any time.
L(d) == <<161, d>>
R(d) == <<160, d>>
On == <<184, 85>>
Off == <<184, 170>>
SaveKey == <<0, 0>>
LoadKey == <<1, 0>>
Melody == <<On, L(144), R(145), L(130), L(1), L(159), R(159), L(144), L(129), Off, On, R(144), L(130)>>
Hiss == <<On, L(240), R(229), R(231), R(194), L(255), L(240), Off, L(240), On, R(240)>>
MCTunes == {Melody, Hiss, <<On, L(144), L(131), SaveKey, L(178), L(163), L(128), LoadKey>>,
            <<On, R(240), R(224), SaveKey, R(255), R(229), LoadKey>>}
MCNoisePeriods == <<1, 2, 3>>

VARIABLE part   \* "picture" or "sound"

Step ==
  \/ part = "picture" /\ DrawingNext /\ UNCHANGED <<chipVars, part>>
  \/ part = "sound" /\ ChipNext /\ UNCHANGED <<vars, drawingVars, part>>
Start ==
  /\ DrawingInit /\ ChipInit
  /\ \/ part = "picture" /\ tune = Melody
     \/ part = "sound" /\ program = Clock
PictureAndSound == Start /\ [][Step]_<<vars, drawingVars, chipVars, part>> /\ WF_vars(Tick)
=============================================================================
