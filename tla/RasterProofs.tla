---------------------------- MODULE RasterProofs ----------------------------
(***************************************************************************)
(* Proofs about Raster, for every length of a line, height of the screen   *)
(* and set of field lengths.  The counter is followed alone: how many      *)
(* times the settings have been taken on the way to a line does not depend *)
(* on the length of the field, which may be any and change on every line.  *)
(*                                                                         *)
(* Then Drawing.  A line is composed tile by tile and sprite by sprite; a  *)
(* pixel is followed on its own: at each point it is the frontmost of the  *)
(* candidates met so far.  What is needed for that is that one tile of a   *)
(* plane lies on each column, whatever the scrolling, that both copies of  *)
(* the code find the same column of it, and that the sum a chain of        *)
(* sprites stands for is the one the loop carries along.  At last, which   *)
(* lines of the screen are known to show what the registers say, and       *)
(* since when.                                                             *)
(***************************************************************************)
EXTENDS Drawing, FiniteSetTheorems, NaturalsInduction, WellFoundedInduction, TLAPS

(* Every line but the last visible one, and those below the screen, has    *)
(* taken the settings once.                                                *)
Taken ==
  raster_line # 0 =>
    copies = IF raster_line < SCREEN_HEIGHT - 1 THEN raster_line ELSE SCREEN_HEIGHT - 1

Inv == TypeOK /\ BlankMatchesLine /\ Taken

-----------------------------------------------------------------------------

LEMMA PeriodBounds ==
  ASSUME NEW p \in Periods
  PROVE  p \in Nat /\ p <= LineLimit - 1
BY RasterAssumption

(* The counter goes to the next line, or round at its limit. *)
LEMMA NextLineCounts ==
  ASSUME Inv
  PROVE  /\ raster_line \in Nat /\ SCREEN_PERIOD \in Nat /\ raster_line < LineLimit /\ SCREEN_PERIOD < LineLimit
         /\ \/ raster_line + 1 < LineLimit /\ NextLine = raster_line + 1
            \/ raster_line + 1 = LineLimit /\ NextLine = 0
<1>1. raster_line \in Nat /\ SCREEN_PERIOD \in Nat /\ raster_line < LineLimit /\ SCREEN_PERIOD < LineLimit /\ LineLimit \in Nat
  BY RasterAssumption DEF Inv, TypeOK
<1>2. raster_line + 1 < LineLimit => (raster_line + 1) % LineLimit = raster_line + 1
  BY <1>1
<1>3. raster_line + 1 = LineLimit => (raster_line + 1) % LineLimit = 0
  BY <1>1
<1> QED BY <1>1, <1>2, <1>3 DEF NextLine

(* The end of a field is met on the line equal to it, the screen ends as   *)
(* its last line does.                                                     *)
LEMMA LineEnds ==
  ASSUME Inv
  PROVE  /\ Wraps <=> raster_line = SCREEN_PERIOD /\ raster_line + 1 < LineLimit
         /\ Blanks <=> raster_line + 1 = SCREEN_HEIGHT
<1>1. SCREEN_HEIGHT \in Nat /\ LineLimit \in Nat /\ 1 < SCREEN_HEIGHT /\ SCREEN_HEIGHT < LineLimit
  BY RasterAssumption
<1> QED BY <1>1, NextLineCounts DEF Wraps, Blanks

LEMMA Initial == Init => Inv
<1> SUFFICES ASSUME Init PROVE Inv
  OBVIOUS
<1>1. raster_line = 0 /\ BLNK = FALSE /\ astray = FALSE /\ copies = 0 /\ SCREEN_PERIOD \in Periods /\ timer_hint = 0
  BY RasterAssumption DEF Init
<1>2. TypeOK
  <2>1. BLNK \in BOOLEAN /\ emulating \in BOOLEAN /\ astray \in BOOLEAN /\ CONTROL_INT \subseteq {"vblank", "hblank"}
        /\ hint \subseteq {"vblank", "hblank"}
    BY Zenon DEF Init
  <2>2. timer_hint \in 0..(HINT_RATE - 1) /\ raster_line \in 0..(LineLimit - 1) /\ copies \in Nat
    BY <1>1, RasterAssumption
  <2>3. SCREEN_PERIOD \in 0..(LineLimit - 1)
    BY <1>1, RasterAssumption, PeriodBounds
  <2> QED BY <2>1, <2>2, <2>3 DEF TypeOK
<1>3. Taken
  BY <1>1 DEF Taken
<1>4. ~(raster_line >= SCREEN_HEIGHT)
  BY <1>1, RasterAssumption
<1>5. BlankMatchesLine
  BY <1>1, <1>4, Zenon DEF BlankMatchesLine
<1> QED BY <1>2, <1>3, <1>5 DEF Inv

(* The step at the end of a line. *)
LEMMA LineStep ==
  ASSUME Inv, NEW t \in 1..MaxTick, EndOfLine(t)
  PROVE  Inv'
<1> USE RasterAssumption
<1>1. /\ raster_line \in Nat /\ SCREEN_PERIOD \in Nat /\ copies \in Nat /\ raster_line < LineLimit
      /\ SCREEN_PERIOD' = SCREEN_PERIOD
  BY NextLineCounts DEF Inv, TypeOK, EndOfLine
<1>2. timer_hint' \in 0..(HINT_RATE - 1)
  BY DEF Inv, TypeOK, EndOfLine, HintAfterLine
<1>3. copies' = (IF raster_line = 0 THEN 0 ELSE copies) + (IF TakesSettings THEN 1 ELSE 0)
  BY DEF EndOfLine
<1>4. copies' \in Nat
  BY <1>1, <1>3 DEF TakesSettings
<1>5. BLNK' = (~Wraps /\ (Blanks \/ BLNK)) /\ astray' = (~Wraps /\ (NextLine = 0 \/ astray))
  BY DEF EndOfLine
<1>6. BLNK <=> raster_line >= SCREEN_HEIGHT \/ astray
  BY DEF Inv, BlankMatchesLine
<1>7. TypeOK'
  <2>1. raster_line' \in 0..(LineLimit - 1)
    <3>1. raster_line' = 0 \/ raster_line' = NextLine
      BY DEF EndOfLine
    <3> QED BY <3>1, NextLineCounts
  <2>2. emulating' \in BOOLEAN /\ hint' \subseteq {"vblank", "hblank"} /\ CONTROL_INT' = CONTROL_INT
    BY DEF Inv, TypeOK, EndOfLine
  <2>3. BLNK' \in BOOLEAN /\ astray' \in BOOLEAN
    BY <1>5, Zenon
  <2> QED BY <1>1, <1>2, <1>4, <2>1, <2>2, <2>3 DEF Inv, TypeOK
<1>8. CASE Wraps
  <2>1. raster_line' = 0
    BY <1>8 DEF EndOfLine
  <2>2. ~BLNK' /\ ~astray'
    BY <1>5, <1>8, Zenon
  <2>3. ~(raster_line' >= SCREEN_HEIGHT)
    BY <2>1
  <2>4. BlankMatchesLine'
    BY <2>2, <2>3, Zenon DEF BlankMatchesLine
  <2> QED BY <1>7, <2>1, <2>4 DEF Inv, Taken
<1>9. CASE ~Wraps /\ NextLine = 0
  <2>1. raster_line' = 0 /\ raster_line >= SCREEN_HEIGHT
    BY <1>9, NextLineCounts DEF EndOfLine
  <2>2. BLNK' /\ astray'
    BY <1>5, <1>6, <1>9, <2>1, Zenon
  <2>3. BlankMatchesLine'
    BY <2>2, Zenon DEF BlankMatchesLine
  <2> QED BY <1>7, <2>1, <2>3 DEF Inv, Taken
<1>10. CASE ~Wraps /\ NextLine # 0
  <2>1. raster_line' = raster_line + 1 /\ raster_line + 1 < LineLimit /\ raster_line # SCREEN_PERIOD
    BY <1>10, NextLineCounts, LineEnds DEF EndOfLine
  <2>2. BLNK' <=> raster_line + 1 = SCREEN_HEIGHT \/ raster_line >= SCREEN_HEIGHT \/ astray'
    <3>1. Blanks <=> raster_line + 1 = SCREEN_HEIGHT
      BY LineEnds
    <3> QED BY <1>5, <1>6, <1>10, <3>1, Zenon
  <2>3. raster_line' >= SCREEN_HEIGHT <=> raster_line + 1 = SCREEN_HEIGHT \/ raster_line >= SCREEN_HEIGHT
    BY <1>1, <2>1
  <2>4. BlankMatchesLine'
    BY <2>2, <2>3, Zenon DEF BlankMatchesLine
  <2>5. Taken'
    BY <1>1, <1>3, <2>1 DEF TakesSettings, Taken, Inv
  <2> QED BY <1>7, <2>4, <2>5 DEF Inv
<1> QED BY <1>8, <1>9, <1>10

LEMMA Step == Inv /\ [Next]_vars => Inv'
<1> SUFFICES ASSUME Inv, [Next]_vars PROVE Inv'
  OBVIOUS
<1> USE RasterAssumption DEF Inv, TypeOK, BlankMatchesLine, Taken
<1>1. ASSUME NEW t \in 1..MaxTick, WithinLine(t) PROVE Inv'
  <2>1. timer_hint' \in 0..(HINT_RATE - 1)
    BY <1>1 DEF WithinLine
  <2>2. UNCHANGED <<raster_line, SCREEN_PERIOD, BLNK, CONTROL_INT, emulating, copies, astray>> /\ hint' = {}
    BY <1>1 DEF WithinLine
  <2> QED BY <2>1, <2>2
<1>2. ASSUME NEW t \in 1..MaxTick, EndOfLine(t) PROVE Inv'
  BY <1>2, LineStep
<1>3. CASE StartFrame
  BY <1>3 DEF StartFrame
<1>4. ASSUME NEW p \in Periods, WritePeriod(p) PROVE Inv'
  BY <1>4, PeriodBounds DEF WritePeriod
<1>5. ASSUME NEW S \in SUBSET {"vblank", "hblank"}, WriteControl(S) PROVE Inv'
  BY <1>5 DEF WriteControl
<1>6. CASE Reset
  <2>1. /\ raster_line' = 0 /\ BLNK' = FALSE /\ astray' = FALSE /\ copies' = 0 /\ timer_hint' = 0
        /\ SCREEN_PERIOD' \in Periods
    BY <1>6 DEF Reset
  <2>2. CONTROL_INT' \subseteq {"vblank", "hblank"} /\ hint' \subseteq {"vblank", "hblank"} /\ emulating' \in BOOLEAN
    BY <1>6 DEF Reset
  <2>3. ~(raster_line' >= SCREEN_HEIGHT) /\ SCREEN_PERIOD' \in 0..(LineLimit - 1)
    BY <2>1, PeriodBounds
  <2>4. BlankMatchesLine'
    BY <2>1, <2>3, Zenon
  <2>5. timer_hint' \in 0..(HINT_RATE - 1) /\ raster_line' \in 0..(LineLimit - 1) /\ copies' \in Nat
    BY <2>1
  <2>6. BLNK' \in BOOLEAN /\ astray' \in BOOLEAN
    BY <2>1, Zenon
  <2> QED BY <2>1, <2>2, <2>3, <2>4, <2>5, <2>6, Zenon
<1>7. CASE UNCHANGED vars
  BY <1>7 DEF vars
<1> QED BY <1>1, <1>2, <1>3, <1>4, <1>5, <1>6, <1>7 DEF Next, Tick

LEMMA Invariance == Spec => []Inv
BY Initial, Step, PTL DEF Spec

(* The types, for every instance (updateTimers, ngpgfx_draw). *)
THEOREM TypeCorrect == Spec => []TypeOK
<1>1. Inv => TypeOK
  BY DEF Inv
<1> QED BY <1>1, Invariance, PTL

(* The blank flag is set exactly on the lines below the screen, whatever   *)
(* bytes a program writes to the length of the field and on whatever line, *)
(* until the counter comes round at its limit, and again from the next end *)
(* of a field on (ngpgfx_draw).                                            *)
THEOREM BlankFlagMatches == Spec => []BlankMatchesLine
<1>1. Inv => BlankMatchesLine
  BY DEF Inv
<1> QED BY <1>1, Invariance, PTL

(* A field that no reset cuts short takes the delayed settings once for    *)
(* each visible line it has, once less if its end was missed, for every    *)
(* height of the screen and however its length changes (ngpgfx_hint).      *)
THEOREM SettingsTakenOncePerLine == Spec => SettingsOncePerLine
<1>1. Inv /\ [Next]_vars =>
        [raster_line # 0 /\ raster_line' = 0 /\ ~Reset =>
           copies' = VisibleLinesTo(raster_line) - (IF raster_line = SCREEN_PERIOD THEN 0 ELSE 1)]_vars
  <2> SUFFICES ASSUME Inv, Next, raster_line # 0, raster_line' = 0, ~Reset
               PROVE  copies' = VisibleLinesTo(raster_line) - (IF raster_line = SCREEN_PERIOD THEN 0 ELSE 1)
    OBVIOUS
  <2>1. PICK t \in 1..MaxTick : EndOfLine(t)
    BY DEF Next, Tick, WithinLine, StartFrame, WritePeriod, WriteControl
  <2>2. copies' = copies + (IF TakesSettings THEN 1 ELSE 0)
    BY <2>1 DEF EndOfLine
  <2>3. copies = IF raster_line < SCREEN_HEIGHT - 1 THEN raster_line ELSE SCREEN_HEIGHT - 1
    BY DEF Inv, Taken
  <2>4. raster_line \in Nat /\ SCREEN_HEIGHT \in Nat /\ SCREEN_HEIGHT + 1 < LineLimit /\ 1 < SCREEN_HEIGHT /\ LineLimit \in Nat
    BY NextLineCounts, RasterAssumption
  <2>5. raster_line = SCREEN_PERIOD \/ raster_line + 1 = LineLimit
    <3>1. raster_line' = IF Wraps THEN 0 ELSE NextLine
      BY <2>1 DEF EndOfLine
    <3> QED BY <3>1, NextLineCounts, LineEnds
  <2>6. TakesSettings <=> raster_line < SCREEN_HEIGHT - 1 \/ raster_line = SCREEN_PERIOD
    BY DEF TakesSettings
  <2>7. CASE raster_line = SCREEN_PERIOD
    BY <2>2, <2>3, <2>4, <2>6, <2>7 DEF VisibleLinesTo
  <2>8. CASE raster_line # SCREEN_PERIOD
    BY <2>2, <2>3, <2>4, <2>5, <2>6, <2>8 DEF VisibleLinesTo
  <2> QED BY <2>7, <2>8
<1> QED BY <1>1, Invariance, PTL DEF Spec, SettingsOncePerLine

-----------------------------------------------------------------------------
(* What a line is drawn with: the places are coordinates, and the plane    *)
(* that goes in front is told by a flag.                                   *)
SettingsOK(s) ==
  /\ \A v \in {s.winx, s.winy, s.winw, s.winh, s.scrollsprx, s.scrollspry} : v \in Coordinate
  /\ \A p \in 1..2 : s.scrollx[p] \in Coordinate /\ s.scrolly[p] \in Coordinate
  /\ s.planeSwap \in BOOLEAN
Typed ==
  /\ program \in Programs /\ todo \subseteq program.writes
  /\ DOMAIN regs = DOMAIN ResetRegs /\ (\A r \in Places : regs[r] \in Coordinate) /\ regs.P_F \in BOOLEAN
  /\ SettingsOK(shown)
  /\ video.sprites \in Seq(SpriteCells)

\* Each line is put on the surface as FrontmostWins says.
Composed ==
  raster_line' # raster_line /\ raster_line \in Visible /\ ~Reset =>
    surface' = [surface EXCEPT ![raster_line] = Shown(shown', raster_line)]

\* What holds at 0 and goes from each number to the next holds up to n.
LEMMA UpTo ==
  ASSUME NEW n \in Nat, NEW T, 0 \in T, \A k \in 0..(n - 1) : k \in T => k + 1 \in T
  PROVE  \A k \in 0..n : k \in T
<1> SUFFICES ASSUME NEW c \in 0..n, c \notin T PROVE FALSE
  OBVIOUS
<1> DEFINE bad == {k \in 0..n : k \notin T}
<1>1. bad \subseteq Nat /\ bad # {}
  OBVIOUS
<1> HIDE DEF bad
<1>2. PICK x \in bad : \A y \in bad : ~(<<y, x>> \in OpToRel(<, Nat))
  <2>1. IsWellFoundedOn(OpToRel(<, Nat), Nat)
    BY NatLessThanWellFounded
  <2> QED BY <1>1, <2>1, WFMin, Zenon
<1>3. x \in 0..n /\ x \notin T
  BY <1>2 DEF bad
<1>4. x # 0
  BY <1>3
<1>5. x - 1 \in 0..(n - 1) /\ x - 1 \in 0..n /\ (x - 1) + 1 = x /\ x - 1 \in Nat /\ x - 1 < x
  BY <1>3, <1>4
<1>6. x - 1 \notin T
  BY <1>3, <1>5
<1>7. x - 1 \in bad
  BY <1>5, <1>6 DEF bad
<1>8. <<x - 1, x>> \in OpToRel(<, Nat)
  BY <1>3, <1>5 DEF OpToRel
<1> QED BY <1>2, <1>7, <1>8

-----------------------------------------------------------------------------
(* The sum over a chain of sprites. *)

Sum(f, S) == Sets!SumFunctionOnSet(f, S)
Pick(s) == CHOOSE x \in s : TRUE
\* g adds up f over the subsets of S, one element after the other.
Adds(g, f, S) == \A s \in SUBSET S : g[s] = IF s = {} THEN 0 ELSE f[Pick(s)] + g[s \ {Pick(s)}]
SumsUp(g, f, S) == g \in [SUBSET S -> Int] /\ Adds(g, f, S)
\* The subsets of S with up to n elements.
Small(S, n) == {s \in SUBSET S : Cardinality(s) <= n}

LEMMA OneLess ==
  ASSUME NEW S, IsFiniteSet(S), NEW s \in SUBSET S, NEW x \in s
  PROVE  /\ IsFiniteSet(s) /\ Cardinality(s) \in Nat /\ Cardinality(s) # 0
         /\ s \ {x} \in SUBSET S /\ Cardinality(s \ {x}) = Cardinality(s) - 1
<1>1. IsFiniteSet(s)
  BY FS_Subset
<1> QED BY <1>1, FS_CardinalityType, FS_RemoveElement, FS_EmptySet

LEMMA PickIn == ASSUME NEW s, s # {} PROVE Pick(s) \in s
BY DEF Pick

LEMMA SmallOnes ==
  ASSUME NEW S, IsFiniteSet(S)
  PROVE  /\ Small(S, 0) = {{}} /\ Small(S, Cardinality(S)) = SUBSET S
         /\ \A n \in Nat : \A s \in Small(S, n + 1) : s # {} => s \ {Pick(s)} \in Small(S, n)
<1>1. \A s \in SUBSET S : IsFiniteSet(s) /\ Cardinality(s) \in Nat /\ Cardinality(s) <= Cardinality(S)
  BY FS_Subset, FS_CardinalityType
<1>2. \A s \in SUBSET S : Cardinality(s) <= 0 <=> s = {}
  BY <1>1, FS_EmptySet
<1>3. ASSUME NEW n \in Nat, NEW s \in Small(S, n + 1), s # {} PROVE s \ {Pick(s)} \in Small(S, n)
  <2>1. s \in SUBSET S /\ Cardinality(s) <= n + 1 /\ Pick(s) \in s
    BY <1>3, PickIn DEF Small
  <2>2. s \ {Pick(s)} \in SUBSET S /\ Cardinality(s \ {Pick(s)}) = Cardinality(s) - 1 /\ Cardinality(s) \in Nat
    BY <2>1, OneLess
  <2> QED BY <2>1, <2>2 DEF Small
<1> QED BY <1>1, <1>2, <1>3 DEF Small

LEMMA AddsExist ==
  ASSUME NEW S, IsFiniteSet(S), NEW f, \A x \in S : f[x] \in Int
  PROVE  \E g \in [SUBSET S -> Int] : Adds(g, f, S)
<1> DEFINE Up(g, n) == \A s \in Small(S, n) : g[s] = IF s = {} THEN 0 ELSE f[Pick(s)] + g[s \ {Pick(s)}]
           T == {n \in Nat : \E g \in [Small(S, n) -> Int] : Up(g, n)}
<1>1. 0 \in T
  <2> DEFINE g == [s \in Small(S, 0) |-> 0]
  <2>1. g \in [Small(S, 0) -> Int] /\ Up(g, 0)
    BY SmallOnes
  <2> QED BY <2>1
<1>2. ASSUME NEW n \in Nat, n \in T PROVE n + 1 \in T
  <2>1. PICK g \in [Small(S, n) -> Int] : Up(g, n)
    BY <1>2
  <2> DEFINE Next1(s) == f[Pick(s)] + g[s \ {Pick(s)}]
             h == [s \in Small(S, n + 1) |-> IF s \in Small(S, n) THEN g[s] ELSE Next1(s)]
  <2>2. \A s \in Small(S, n) : s \in Small(S, n + 1)
    <3>1. \A s \in SUBSET S : Cardinality(s) \in Nat
      BY FS_Subset, FS_CardinalityType
    <3> QED BY <3>1 DEF Small
  <2>3. \A s \in Small(S, n + 1) : s # {} => s \ {Pick(s)} \in Small(S, n) /\ Pick(s) \in S
    BY SmallOnes, PickIn DEF Small
  <2>4. {} \in Small(S, n)
    BY FS_EmptySet DEF Small
  <2>5. h \in [Small(S, n + 1) -> Int]
    <3> SUFFICES ASSUME NEW s \in Small(S, n + 1) PROVE (IF s \in Small(S, n) THEN g[s] ELSE Next1(s)) \in Int
      BY Zenon
    <3>1. CASE s \in Small(S, n)
      BY <2>1, <3>1
    <3>2. CASE s \notin Small(S, n)
      <4>1. f[Pick(s)] \in Int /\ g[s \ {Pick(s)}] \in Int
        BY <2>1, <2>3, <2>4, <3>2
      <4> QED BY <3>2, <4>1
    <3> QED BY <3>1, <3>2
  <2>6. \A s \in Small(S, n) : h[s] = g[s]
    BY <2>2
  <2>7. ASSUME NEW s \in Small(S, n + 1), s # {} PROVE h[s] = f[Pick(s)] + h[s \ {Pick(s)}]
    <3>1. h[s \ {Pick(s)}] = g[s \ {Pick(s)}]
      BY <2>3, <2>6, <2>7
    <3>2. h[s] = Next1(s)
      BY <2>1, <2>7
    <3> QED BY <3>1, <3>2
  <2>8. h[{}] = 0
    BY <2>1, <2>4, <2>6
  <2> HIDE DEF h
  <2>9. Up(h, n + 1)
    BY <2>7, <2>8
  <2>10. \E e \in [Small(S, n + 1) -> Int] : Up(e, n + 1)
    BY <2>5, <2>9
  <2>11. n + 1 \in Nat
    OBVIOUS
  <2> QED BY <2>10, <2>11, Zenon
<1> HIDE DEF T
<1>3. Cardinality(S) \in Nat
  BY FS_CardinalityType
<1>4. \A k \in 0..Cardinality(S) : k \in T
  BY <1>1, <1>2, <1>3, UpTo
<1>5. Cardinality(S) \in T
  BY <1>3, <1>4
<1>6. PICK g \in [Small(S, Cardinality(S)) -> Int] : Up(g, Cardinality(S))
  BY <1>5 DEF T
<1> QED BY <1>6, SmallOnes DEF Adds

\* There is but one, and it depends on f and the elements alone.
LEMMA AddsAlike ==
  ASSUME NEW S, IsFiniteSet(S), NEW T \in SUBSET S, NEW f, NEW e, NEW g, NEW h, Adds(g, f, S), Adds(h, e, T),
         \A x \in T : f[x] = e[x]
  PROVE  g[T] = h[T]
<1> DEFINE A == {n \in Nat : \A s \in Small(T, n) : g[s] = h[s]}
<1>1. IsFiniteSet(T) /\ Cardinality(T) \in Nat
  BY FS_Subset, FS_CardinalityType
<1>2. 0 \in A
  BY <1>1, SmallOnes DEF Adds
<1>3. ASSUME NEW n \in Nat, n \in A PROVE n + 1 \in A
  <2>1. ASSUME NEW s \in Small(T, n + 1), s # {} PROVE g[s] = h[s]
    <3>1. s \in SUBSET T /\ s \in SUBSET S /\ s \ {Pick(s)} \in Small(T, n) /\ Pick(s) \in T
      BY <1>1, <2>1, SmallOnes, PickIn DEF Small
    <3>2. g[s \ {Pick(s)}] = h[s \ {Pick(s)}]
      BY <1>3, <3>1
    <3>3. g[s] = f[Pick(s)] + g[s \ {Pick(s)}] /\ h[s] = e[Pick(s)] + h[s \ {Pick(s)}]
      BY <2>1, <3>1 DEF Adds
    <3> QED BY <3>1, <3>2, <3>3
  <2>2. g[{}] = h[{}]
    BY DEF Adds
  <2> QED BY <2>1, <2>2
<1> HIDE DEF A
<1>4. Cardinality(T) \in A
  BY <1>1, <1>2, <1>3, UpTo
<1> QED BY <1>1, <1>4, SmallOnes DEF A

\* Any element may be taken first.
LEMMA AddsAny ==
  ASSUME NEW S, IsFiniteSet(S), NEW f, \A x \in S : f[x] \in Int, NEW g, SumsUp(g, f, S)
  PROVE  \A y \in S : g[S] = f[y] + g[S \ {y}]
<1> DEFINE A == {n \in Nat : \A s \in Small(S, n) : \A x \in s : g[s] = f[x] + g[s \ {x}]}
<1>1. 0 \in A
  BY SmallOnes
<1>2. ASSUME NEW n \in Nat, n \in A PROVE n + 1 \in A
  <2>1. ASSUME NEW s \in Small(S, n + 1), NEW x \in s PROVE g[s] = f[x] + g[s \ {x}]
    <3> DEFINE c == Pick(s)
               both == s \ {c, x}
    <3>1. c \in s /\ s \in SUBSET S /\ g[s] = f[c] + g[s \ {c}]
      BY PickIn DEF SumsUp, Adds, Small
    <3> HIDE DEF c
    <3>2. CASE x = c
      BY <3>1, <3>2
    <3>3. CASE x # c
      <4>1. s \ {c} \in Small(S, n) /\ s \ {x} \in Small(S, n)
        BY <3>1, OneLess DEF Small
      <4>2. x \in s \ {c} /\ c \in s \ {x} /\ (s \ {c}) \ {x} = both /\ (s \ {x}) \ {c} = both /\ both \in SUBSET S
        BY <3>1, <3>3
      <4>3. g[s \ {c}] = f[x] + g[both] /\ g[s \ {x}] = f[c] + g[both]
        BY <1>2, <4>1, <4>2
      <4>4. f[x] \in Int /\ f[c] \in Int /\ g[both] \in Int
        BY <3>1, <4>2 DEF SumsUp
      <4> QED BY <3>1, <4>3, <4>4
    <3> QED BY <3>2, <3>3
  <2> QED BY <2>1
<1> HIDE DEF A
<1>3. Cardinality(S) \in Nat
  BY FS_CardinalityType
<1>4. \A k \in 0..Cardinality(S) : k \in A
  BY <1>1, <1>2, <1>3, UpTo
<1>5. Cardinality(S) \in A
  BY <1>3, <1>4
<1> QED BY <1>5, SmallOnes DEF A

\* The library's sum is such a function's.
LEMMA SumIs ==
  ASSUME NEW S, IsFiniteSet(S), NEW f, \A x \in S : f[x] \in Int
  PROVE  \E g \in [SUBSET S -> Int] : Adds(g, f, S) /\ g[S] = Sum(f, S)
<1> DEFINE Is(g) == g = [s \in SUBSET S |-> IF s = {} THEN 0 ELSE f[Pick(s)] + g[s \ {Pick(s)}]]
<1>1. Sum(f, S) = (CHOOSE g : Is(g))[S]
  BY DEF Sum, Pick, Sets!SumFunctionOnSet, Sets!FoldFunctionOnSet, Sets!MapThenFoldSet
<1>2. PICK g \in [SUBSET S -> Int] : Adds(g, f, S)
  BY AddsExist
<1>3. Is(g)
  BY <1>2 DEF Adds
<1> HIDE DEF Is
<1>4. Is(CHOOSE h : Is(h))
  BY <1>3
<1> DEFINE h == CHOOSE h : Is(h)
<1> HIDE DEF h
<1>5. Is(h) /\ Sum(f, S) = h[S]
  BY <1>1, <1>4 DEF h
<1>6. Adds(h, f, S)
  BY <1>5 DEF Is, Adds
<1>7. g[S] = h[S]
  BY <1>2, <1>6, AddsAlike
<1> QED BY <1>2, <1>5, <1>7

LEMMA SumOfNone == ASSUME NEW f PROVE Sum(f, {}) = 0
<1>1. \E g : Adds(g, f, {}) /\ g[{}] = Sum(f, {})
  BY SumIs, FS_EmptySet
<1> QED BY <1>1 DEF Adds

LEMMA SumOfOneMore ==
  ASSUME NEW S, IsFiniteSet(S), NEW f, \A x \in S : f[x] \in Int, NEW y \in S,
         NEW e, \A x \in S \ {y} : e[x] = f[x]
  PROVE  Sum(f, S) = f[y] + Sum(e, S \ {y}) /\ Sum(f, S) \in Int
<1> DEFINE T == S \ {y}
<1>1. IsFiniteSet(T) /\ T \in SUBSET S /\ \A x \in T : e[x] \in Int
  BY FS_Subset
<1>2. PICK g \in [SUBSET S -> Int] : Adds(g, f, S) /\ g[S] = Sum(f, S)
  BY SumIs
<1>3. PICK h \in [SUBSET T -> Int] : Adds(h, e, T) /\ h[T] = Sum(e, T)
  BY <1>1, SumIs
<1>4. g[S] = f[y] + g[S \ {y}]
  <2>1. SumsUp(g, f, S)
    BY <1>2 DEF SumsUp
  <2> QED BY <2>1, AddsAny
<1>5. g[T] = h[T]
  BY <1>1, <1>2, <1>3, AddsAlike
<1> QED BY <1>2, <1>3, <1>4, <1>5

-----------------------------------------------------------------------------
(* Where a chain of sprites puts its last one. *)

Links(ch, k) == {j \in 1..k : \A i \in (j + 1)..k : ch[i]}
Along(ch, of, k) == Sum([j \in 1..k |-> of[j]], Links(ch, k))

LEMMA OneLink ==
  ASSUME NEW n \in Nat, NEW ch, NEW of, \A j \in 1..n : of[j] \in Int, NEW k \in 1..n
  PROVE  Along(ch, of, k) = of[k] + (IF ch[k] THEN Along(ch, of, k - 1) ELSE 0)
<1> DEFINE f == [j \in 1..k |-> of[j]]
           e == [j \in 1..(k - 1) |-> of[j]]
<1>1. k \in 1..k /\ k \in Links(ch, k) /\ k - 1 \in Nat
  BY DEF Links
<1>2. IsFiniteSet(Links(ch, k)) /\ Links(ch, k) \in SUBSET (1..k)
  <2>1. IsFiniteSet(1..k) /\ Links(ch, k) \in SUBSET (1..k)
    BY FS_Interval DEF Links
  <2> QED BY <2>1, FS_Subset
<1>3. \A j \in Links(ch, k) : f[j] \in Int
  BY <1>2
<1>4. Links(ch, k) \ {k} = IF ch[k] THEN Links(ch, k - 1) ELSE {}
  <2>1. CASE ch[k]
    <3>1. ASSUME NEW j \in Links(ch, k) \ {k} PROVE j \in Links(ch, k - 1)
      BY <3>1 DEF Links
    <3>2. ASSUME NEW j \in Links(ch, k - 1) PROVE j \in Links(ch, k) \ {k}
      <4>1. j \in 1..k /\ j # k
        BY <3>2 DEF Links
      <4>2. \A i \in (j + 1)..k : i = k \/ i \in (j + 1)..(k - 1)
        BY <4>1
      <4>3. \A i \in (j + 1)..k : ch[i]
        BY <2>1, <3>2, <4>2, Zenon DEF Links
      <4> QED BY <4>1, <4>3 DEF Links
    <3> QED BY <2>1, <3>1, <3>2
  <2>2. CASE ~ch[k]
    <3>1. ASSUME NEW j \in Links(ch, k) \ {k} PROVE FALSE
      <4>1. k \in (j + 1)..k
        BY DEF Links
      <4> QED BY <2>2, <4>1 DEF Links
    <3> QED BY <2>2, <3>1
  <2> QED BY <2>1, <2>2
<1>5. Along(ch, of, k) = Sum(f, Links(ch, k)) /\ f[k] = of[k]
  BY <1>1 DEF Along
<1> HIDE DEF f
<1>6. CASE ch[k]
  <2>1. \A j \in Links(ch, k) \ {k} : e[j] = f[j]
    <3>1. \A j \in Links(ch, k - 1) : j \in 1..(k - 1) /\ j \in 1..k
      BY DEF Links
    <3> QED BY <1>4, <1>6, <3>1 DEF f
  <2> HIDE DEF e
  <2>2. Sum(f, Links(ch, k)) = f[k] + Sum(e, Links(ch, k) \ {k})
    BY <1>1, <1>2, <1>3, <2>1, SumOfOneMore
  <2>3. Along(ch, of, k - 1) = Sum(e, Links(ch, k - 1))
    BY DEF Along, e
  <2> QED BY <1>4, <1>5, <1>6, <2>2, <2>3
<1>7. CASE ~ch[k]
  <2>1. \A j \in Links(ch, k) \ {k} : f[j] = f[j]
    OBVIOUS
  <2>2. Sum(f, Links(ch, k)) = f[k] + Sum(f, Links(ch, k) \ {k})
    BY <1>1, <1>2, <1>3, <2>1, SumOfOneMore
  <2> QED BY <1>4, <1>5, <1>7, <2>2, SumOfNone
<1> QED BY <1>6, <1>7

LEMMA NoLink == ASSUME NEW ch, NEW of PROVE Along(ch, of, 0) = 0
<1>1. Links(ch, 0) = {}
  BY DEF Links
<1> QED BY <1>1, SumOfNone DEF Along

LEMMA AlongIsNat ==
  ASSUME NEW n \in Nat, NEW ch, NEW of, \A j \in 1..n : of[j] \in Nat
  PROVE  \A k \in 0..n : Along(ch, of, k) \in Nat
<1> DEFINE T == {k \in 0..n : Along(ch, of, k) \in Nat}
<1>1. 0 \in T
  BY NoLink
<1>2. ASSUME NEW k \in 0..(n - 1), k \in T PROVE k + 1 \in T
  <2>1. k + 1 \in 1..n /\ (k + 1) - 1 = k /\ \A j \in 1..n : of[j] \in Int
    OBVIOUS
  <2>2. Along(ch, of, k + 1) = of[k + 1] + (IF ch[k + 1] THEN Along(ch, of, (k + 1) - 1) ELSE 0)
    BY <2>1, OneLink
  <2>3. of[k + 1] \in Nat /\ Along(ch, of, k) \in Nat
    BY <1>2, <2>1
  <2> QED BY <2>1, <2>2, <2>3
<1> HIDE DEF T
<1>3. \A k \in 0..n : k \in T
  BY <1>1, <1>2, UpTo
<1> QED BY <1>3 DEF T

-----------------------------------------------------------------------------
(* Positions on the circle of LineLimit places. *)

LEMMA Divides ==
  ASSUME NEW L \in Nat \ {0}, NEW a \in Int
  PROVE  a % L \in 0..(L - 1) /\ a \div L \in Int /\ a = ((a \div L) * L) + (a % L)
OBVIOUS

LEMMA Multiple ==
  ASSUME NEW L \in Nat \ {0}, NEW k \in Int, k * L < L, -L < k * L
  PROVE  k = 0
OBVIOUS

LEMMA DividesOnce ==
  ASSUME NEW L \in Nat \ {0}, NEW a \in Int, NEW q \in Int, NEW r \in 0..(L - 1), a = q * L + r
  PROVE  a % L = r /\ a \div L = q
<1> DEFINE d == a \div L
           m == a % L
<1>1. m \in 0..(L - 1) /\ d \in Int /\ a = d * L + m
  BY Divides
<1> HIDE DEF m, d
<1>2. (q - d) * L = m - r
  BY <1>1
<1>3. q - d = 0
  BY <1>1, <1>2, Multiple
<1>4. d = q /\ m = r
  BY <1>1, <1>2, <1>3
<1> QED BY <1>4 DEF d, m

\* Going round changes nothing.
LEMMA Round ==
  ASSUME NEW L \in Nat \ {0}, NEW a \in Int, NEW k \in Int
  PROVE  (a + k * L) % L = a % L
<1>1. a % L \in 0..(L - 1) /\ a \div L \in Int /\ a = ((a \div L) * L) + (a % L)
  BY Divides
<1>2. a + k * L = ((a \div L) + k) * L + (a % L)
  BY <1>1
<1>3. (a \div L) + k \in Int /\ a + k * L \in Int
  BY <1>1
<1> QED BY <1>1, <1>2, <1>3, DividesOnce

LEMMA OnceRound ==
  ASSUME NEW L \in Nat \ {0}, NEW a \in (-L)..(2 * L - 1)
  PROVE  a % L = IF a < 0 THEN a + L ELSE IF a < L THEN a ELSE a - L
<1>1. CASE a < 0
  <2>1. a = (-1) * L + (a + L) /\ a + L \in 0..(L - 1)
    BY <1>1
  <2> QED BY <1>1, <2>1, DividesOnce
<1>2. CASE 0 <= a /\ a < L
  <2>1. a = 0 * L + a /\ a \in 0..(L - 1)
    BY <1>2
  <2> QED BY <1>2, <2>1, DividesOnce
<1>3. CASE L <= a
  <2>1. a = 1 * L + (a - L) /\ a - L \in 0..(L - 1)
    BY <1>3
  <2> QED BY <1>3, <2>1, DividesOnce
<1> QED BY <1>1, <1>2, <1>3

LEMMA SumsAndDifferences ==
  ASSUME NEW L \in Nat \ {0}, NEW a \in 0..(L - 1), NEW b \in 0..(L - 1)
  PROVE  /\ (a - b) % L = IF a < b THEN a - b + L ELSE a - b
         /\ (a + b) % L = IF a + b < L THEN a + b ELSE a + b - L
<1> DEFINE d == a - b
           e == a + b
<1>1. d \in (-L)..(2 * L - 1) /\ e \in (-L)..(2 * L - 1) /\ (d < 0 <=> a < b) /\ ~(e < 0)
  OBVIOUS
<1> HIDE DEF d, e
<1>2. d % L = (IF d < 0 THEN d + L ELSE IF d < L THEN d ELSE d - L) /\ e % L = IF e < 0 THEN e + L ELSE IF e < L THEN e ELSE e - L
  BY <1>1, OnceRound
<1>3. d < L
  BY DEF d
<1>4. d % L = (IF a < b THEN d + L ELSE d) /\ e % L = IF e < L THEN e ELSE e - L
  BY <1>1, <1>2, <1>3
<1> QED BY <1>4 DEF d, e

LEMMA RoundWithin ==
  ASSUME NEW L \in Nat \ {0}, NEW a \in Int, NEW b \in Int
  PROVE  (a - (b % L)) % L = (a - b) % L /\ (a + (b % L)) % L = (a + b) % L
<1>1. b % L \in 0..(L - 1) /\ b \div L \in Int /\ b = ((b \div L) * L) + (b % L)
  BY Divides
<1> DEFINE q == b \div L
           r == b % L
<1> HIDE DEF q, r
<1>2. r \in Int /\ q \in Int /\ b = q * L + r
  BY <1>1 DEF q, r
<1>3. a - r = (a - b) + q * L /\ a + r = (a + b) + (-q) * L /\ -q \in Int /\ a - b \in Int /\ a + b \in Int
  BY <1>2
<1>4. \A c \in Int, k \in Int : (c + k * L) % L = c % L
  BY Round
<1>5. ((a - b) + q * L) % L = (a - b) % L /\ ((a + b) + (-q) * L) % L = (a + b) % L
  <2> HIDE DEF r, q
  <2> QED BY <1>2, <1>3, <1>4, Zenon
<1>6. (a - r) % L = (a - b) % L /\ (a + r) % L = (a + b) % L
  BY <1>3, <1>5, Zenon
<1> QED BY <1>6 DEF r

LEMMA Bounds ==
  /\ LineLimit \in Nat \ {0} /\ Side \in Nat \ {0} /\ SCREEN_WIDTH \in Nat \ {0} /\ SCREEN_WIDTH <= LineLimit - Side
  /\ SCREEN_HEIGHT \in Nat /\ SCREEN_HEIGHT <= LineLimit - Side
BY DrawingAssumption, RasterAssumption

-----------------------------------------------------------------------------
(* What a tile plots. *)

Inside(s, x) == x \in s.winx..(s.winx + s.winw - 1)
Palette(cell) == IF regs.K2GE_MODE THEN cell.hi ELSE cell.pal

LEMMA MaxOfThree ==
  ASSUME NEW a \in Int, NEW b \in Int, NEW c \in Int, NEW x \in Int
  PROVE  x >= Sets!Max({a, b, c}) <=> x >= a /\ x >= b /\ x >= c
<1>1. \E m \in {a, b, c} : \A y \in {a, b, c} : m >= y
  OBVIOUS
<1>2. Sets!Max({a, b, c}) \in {a, b, c} /\ \A y \in {a, b, c} : Sets!Max({a, b, c}) >= y
  BY <1>1 DEF Sets!Max
<1> QED BY <1>2

LEMMA MinOfTwo ==
  ASSUME NEW a \in Int, NEW b \in Int
  PROVE  Sets!Min({a, b}) = IF a <= b THEN a ELSE b
<1>1. \E m \in {a, b} : \A y \in {a, b} : m =< y
  OBVIOUS
<1>2. Sets!Min({a, b}) \in {a, b} /\ \A y \in {a, b} : Sets!Min({a, b}) =< y
  BY <1>1 DEF Sets!Min
<1> QED BY <1>2

LEMMA MaxOfOne ==
  ASSUME NEW a \in Int
  PROVE  Sets!Max({a}) = a
BY DEF Sets!Max

LEMMA MaxIsInt ==
  ASSUME NEW a \in Int, NEW b \in Int, NEW c \in Int
  PROVE  Sets!Max({a, b, c}) \in Int
<1>1. \E m \in {a, b, c} : \A y \in {a, b, c} : m >= y
  OBVIOUS
<1> QED BY <1>1 DEF Sets!Max

LEMMA ColourColumn ==
  ASSUME NEW x \in Columns, NEW screenx \in Coordinate
  PROVE  LET first == IF screenx > LineLimit - Side THEN screenx - LineLimit ELSE screenx
         IN  /\ x >= first /\ x <= first + Side - 1 <=> (x - screenx) % LineLimit < Side
             /\ x >= first /\ x <= first + Side - 1 => x - first = (x - screenx) % LineLimit
<1>1. x \in Nat /\ x < LineLimit - Side /\ screenx \in Nat /\ screenx < LineLimit /\ LineLimit \in Nat \ {0} /\ Side \in Nat \ {0}
  BY Bounds DEF Columns, Coordinate
<1>2. (x - screenx) % LineLimit = IF x < screenx THEN x - screenx + LineLimit ELSE x - screenx
  <2>1. x \in 0..(LineLimit - 1) /\ screenx \in 0..(LineLimit - 1)
    BY <1>1
  <2> QED BY <1>1, <2>1, SumsAndDifferences
<1> DEFINE column == (x - screenx) % LineLimit
<1> HIDE DEF column
<1>3. column = IF x < screenx THEN x - screenx + LineLimit ELSE x - screenx
  BY <1>2 DEF column
<1>4. /\ x >= screenx /\ x <= screenx + Side - 1 <=> x >= screenx /\ column < Side
      /\ screenx > LineLimit - Side => x < screenx /\ (x <= screenx - LineLimit + Side - 1 <=> column < Side)
      /\ ~(screenx > LineLimit - Side) /\ x < screenx => ~(column < Side)
  BY <1>1, <1>3
<1>5. CASE screenx > LineLimit - Side
  <2>1. x >= screenx - LineLimit /\ x - (screenx - LineLimit) = column
    BY <1>1, <1>3, <1>4, <1>5
  <2> QED BY <1>4, <1>5, <2>1 DEF column
<1>6. CASE ~(screenx > LineLimit - Side)
  <2>1. x >= screenx => x - screenx = column
    BY <1>1, <1>3
  <2> QED BY <1>1, <1>4, <1>6, <2>1 DEF column
<1> QED BY <1>5, <1>6

LEMMA ColourPattern ==
  ASSUME NEW s, SettingsOK(s), NEW x \in Columns, NEW screenx \in Coordinate,
         NEW pixel, NEW cell, NEW row, NEW layer, NEW depth
  PROVE  drawColourPattern(pixel, x, s, screenx, cell, row, layer, depth) =
           IF Inside(s, x) /\ (x - screenx) % LineLimit < Side
           THEN Plot(pixel, s, layer, cell.pal, Index(cell, row, (x - screenx) % LineLimit), depth) ELSE pixel
<1> DEFINE first == IF screenx > LineLimit - Side THEN screenx - LineLimit ELSE screenx
           left  == Sets!Max({first, s.winx, 0})
           right == Sets!Min({first + Side - 1, WindowEnd(s) - 1})
           column == (x - screenx) % LineLimit
<1>1. /\ x \in Nat /\ x < SCREEN_WIDTH /\ SCREEN_WIDTH \in Nat /\ first \in Int /\ Side \in Nat \ {0}
      /\ s.winx \in Nat /\ s.winw \in Nat
  BY Bounds DEF Columns, Coordinate, SettingsOK
<1>2. /\ x >= first /\ x <= first + Side - 1 <=> column < Side
      /\ x >= first /\ x <= first + Side - 1 => x - first = column
  BY ColourColumn
<1> HIDE DEF first, column
<1>3. x >= left <=> x >= first /\ x >= s.winx
  BY <1>1, MaxOfThree
<1>4. WindowEnd(s) = IF s.winx + s.winw <= SCREEN_WIDTH THEN s.winx + s.winw ELSE SCREEN_WIDTH
  BY <1>1, MinOfTwo DEF WindowEnd
<1>5. right = IF first + Side - 1 <= WindowEnd(s) - 1 THEN first + Side - 1 ELSE WindowEnd(s) - 1
  <2>1. first + Side - 1 \in Int /\ WindowEnd(s) - 1 \in Int
    BY <1>1, <1>4
  <2> QED BY <2>1, MinOfTwo
<1>6. left \in Int /\ right \in Int
  BY <1>1, <1>4, <1>5, MaxIsInt
<1> HIDE DEF left, right
<1>7. x \in left..right <=> Inside(s, x) /\ column < Side
  BY <1>1, <1>2, <1>3, <1>4, <1>5, <1>6 DEF Inside
<1>8. x \in left..right => x - first = column
  BY <1>1, <1>2, <1>3, <1>4, <1>5, <1>6
<1>9. drawColourPattern(pixel, x, s, screenx, cell, row, layer, depth) =
        IF x \in left..right THEN Plot(pixel, s, layer, cell.pal, Index(cell, row, x - first), depth) ELSE pixel
  BY DEF drawColourPattern, left, right, first
<1> QED BY <1>7, <1>8, <1>9 DEF column

LEMMA MonoPattern ==
  ASSUME NEW s, SettingsOK(s), NEW x \in Columns, NEW screenx \in Coordinate,
         NEW pixel, NEW cell, NEW row, NEW layer, NEW depth
  PROVE  drawMonoPattern(pixel, x, s, screenx, cell, row, layer, depth) =
           IF Inside(s, x) /\ (x - screenx) % LineLimit < Side
           THEN Plot(pixel, s, layer, cell.hi, Index(cell, row, (x - screenx) % LineLimit), depth) ELSE pixel
<1> DEFINE places == {k \in 0..(Side - 1) : x = (screenx + k) % LineLimit /\ x >= s.winx /\ x < s.winx + s.winw}
           column == (x - screenx) % LineLimit
<1>1. /\ x \in Nat /\ x < LineLimit - Side /\ LineLimit \in Nat \ {0} /\ Side \in Nat \ {0} /\ Side < LineLimit
      /\ screenx \in Nat /\ screenx < LineLimit /\ s.winx \in Nat /\ s.winw \in Nat
  BY Bounds DEF Columns, Coordinate, SettingsOK
<1>2. column = IF x < screenx THEN x - screenx + LineLimit ELSE x - screenx
  BY <1>1, SumsAndDifferences
<1> HIDE DEF column
<1>3. \A k \in 0..(Side - 1) : x = (screenx + k) % LineLimit <=> k = column
  <2> TAKE k \in 0..(Side - 1)
  <2>1. (screenx + k) % LineLimit = IF screenx + k < LineLimit THEN screenx + k ELSE screenx + k - LineLimit
    BY <1>1, SumsAndDifferences
  <2> QED BY <1>1, <1>2, <2>1
<1>4. column \in Int /\ column >= 0
  BY <1>1, <1>2
<1>5. places = IF Inside(s, x) /\ column < Side THEN {column} ELSE {}
  <2>1. Inside(s, x) <=> x >= s.winx /\ x < s.winx + s.winw
    BY <1>1 DEF Inside
  <2>2. places = {k \in 0..(Side - 1) : k = column /\ Inside(s, x)}
    BY <1>3, <2>1
  <2> HIDE DEF places
  <2> QED BY <1>1, <1>4, <2>2
<1>6. drawMonoPattern(pixel, x, s, screenx, cell, row, layer, depth) =
        IF places # {} THEN Plot(pixel, s, layer, cell.hi, Index(cell, row, Sets!Max(places)), depth) ELSE pixel
  BY DEF drawMonoPattern
<1> HIDE DEF places
<1> QED BY <1>4, <1>5, <1>6, MaxOfOne DEF column

\* Either copy plots the column of the tile that lies on x, if there is one.
LEMMA Pattern ==
  ASSUME NEW s, SettingsOK(s), NEW x \in Columns, NEW screenx \in Coordinate,
         NEW pixel, NEW cell, NEW row, NEW layer, NEW depth
  PROVE  drawPattern(pixel, x, s, screenx, cell, row, layer, depth) =
           IF Inside(s, x) /\ (x - screenx) % LineLimit < Side
           THEN Plot(pixel, s, layer, Palette(cell), Index(cell, row, (x - screenx) % LineLimit), depth) ELSE pixel
<1>1. CASE regs.K2GE_MODE
  BY <1>1, MonoPattern DEF drawPattern, Palette
<1>2. CASE ~regs.K2GE_MODE
  BY <1>2, ColourPattern DEF drawPattern, Palette
<1> QED BY <1>1, <1>2

\* Where Position puts a sprite.
SpriteX(k) == Position(k, LAMBDA c : c.xchain, LAMBDA c : c.x)
SpriteY(k) == Position(k, LAMBDA c : c.ychain, LAMBDA c : c.y)

LEMMA SpritesInChains ==
  ASSUME video.sprites \in Seq(SpriteCells)
  PROVE  /\ Len(video.sprites) \in Nat
         /\ \A k \in 0..Len(video.sprites) : SpriteX(k) \in Nat /\ SpriteY(k) \in Nat
         /\ SpriteX(0) = 0 /\ SpriteY(0) = 0
         /\ \A k \in 1..Len(video.sprites) :
              LET cell == video.sprites[k]
              IN  /\ SpriteX(k) = cell.x + (IF cell.xchain THEN SpriteX(k - 1) ELSE 0)
                  /\ SpriteY(k) = cell.y + (IF cell.ychain THEN SpriteY(k - 1) ELSE 0)
<1> DEFINE n == Len(video.sprites)
           xchain == [j \in 1..n |-> video.sprites[j].xchain]
           ychain == [j \in 1..n |-> video.sprites[j].ychain]
           xs == [j \in 1..n |-> video.sprites[j].x]
           ys == [j \in 1..n |-> video.sprites[j].y]
<1>1. n \in Nat /\ \A j \in 1..n : video.sprites[j] \in SpriteCells
  OBVIOUS
<1>2. \A j \in 1..n : xs[j] \in Nat /\ ys[j] \in Nat
  <2> TAKE j \in 1..n
  <2>1. video.sprites[j].x \in Coordinate /\ video.sprites[j].y \in Coordinate
    BY <1>1 DEF SpriteCells
  <2> QED BY <2>1, Bounds DEF Coordinate
<1> HIDE DEF n
<1>3. ASSUME NEW k \in 0..n PROVE SpriteX(k) = Along(xchain, xs, k) /\ SpriteY(k) = Along(ychain, ys, k)
  <2>1. \A j \in 1..k : j \in 1..n /\ \A i \in (j + 1)..k : i \in 1..n
    BY <1>1
  <2>2. {j \in 1..k : \A i \in (j + 1)..k : video.sprites[i].xchain} = Links(xchain, k)
    BY <2>1 DEF Links
  <2>3. {j \in 1..k : \A i \in (j + 1)..k : video.sprites[i].ychain} = Links(ychain, k)
    BY <2>1 DEF Links
  <2>4. [j \in 1..k |-> video.sprites[j].x] = [j \in 1..k |-> xs[j]] /\ [j \in 1..k |-> video.sprites[j].y] = [j \in 1..k |-> ys[j]]
    BY <2>1
  <2>5. SpriteX(k) = Sum([j \in 1..k |-> video.sprites[j].x], {j \in 1..k : \A i \in (j + 1)..k : video.sprites[i].xchain})
    BY Zenon DEF SpriteX, Position, Sum
  <2>6. SpriteY(k) = Sum([j \in 1..k |-> video.sprites[j].y], {j \in 1..k : \A i \in (j + 1)..k : video.sprites[i].ychain})
    BY Zenon DEF SpriteY, Position, Sum
  <2> QED BY <2>2, <2>3, <2>4, <2>5, <2>6, Zenon DEF Along
<1>4. \A k \in 0..n : SpriteX(k) \in Nat /\ SpriteY(k) \in Nat
  <2> HIDE DEF xchain, ychain, xs, ys
  <2> QED BY <1>1, <1>2, <1>3, AlongIsNat
<1>5. SpriteX(0) = 0 /\ SpriteY(0) = 0
  <2> HIDE DEF xchain, ychain, xs, ys
  <2> QED BY <1>1, <1>3, NoLink
<1>6. ASSUME NEW k \in 1..n
      PROVE  /\ SpriteX(k) = xs[k] + (IF xchain[k] THEN SpriteX(k - 1) ELSE 0)
             /\ SpriteY(k) = ys[k] + (IF ychain[k] THEN SpriteY(k - 1) ELSE 0)
  <2> HIDE DEF xchain, ychain, xs, ys
  <2>1. k \in 0..n /\ k - 1 \in 0..n /\ \A j \in 1..n : xs[j] \in Int /\ ys[j] \in Int
    BY <1>1, <1>2
  <2>2. Along(xchain, xs, k) = xs[k] + (IF xchain[k] THEN Along(xchain, xs, k - 1) ELSE 0)
    BY <1>1, <2>1, OneLink
  <2>3. Along(ychain, ys, k) = ys[k] + (IF ychain[k] THEN Along(ychain, ys, k - 1) ELSE 0)
    BY <1>1, <2>1, OneLink
  <2> QED BY <1>3, <2>1, <2>2, <2>3
<1> QED BY <1>1, <1>4, <1>5, <1>6 DEF n

-----------------------------------------------------------------------------
(* The frontmost candidate. *)

Front(C) == {c \in C : \A d \in C : c[1] > d[1] \/ (c[1] = d[1] /\ c[2] <= d[2])}
Pixel(s, ground, C) ==
  IF C = {} THEN [colour |-> ground, depth |-> 0]
  ELSE LET c == CHOOSE c \in Front(C) : TRUE IN [colour |-> <<c[3], s.negative>>, depth |-> c[1]]

Ordered(C) ==
  /\ \A c \in C : c[1] \in Nat \ {0} /\ c[2] \in Nat
  /\ \A c \in C, d \in C : c[1] = d[1] /\ c[2] = d[2] => c = d
  /\ C # {} => Front(C) # {}

Behind(C, depth, rank) == \A c \in C : c[1] = depth => c[2] < rank

LEMMA FrontIsOne ==
  ASSUME NEW C, Ordered(C), NEW c \in Front(C), NEW d \in Front(C)
  PROVE  c = d
<1>1. c[1] \in Nat /\ c[2] \in Nat /\ d[1] \in Nat /\ d[2] \in Nat /\ c \in C /\ d \in C
  BY DEF Front, Ordered
<1>2. (c[1] > d[1] \/ (c[1] = d[1] /\ c[2] <= d[2])) /\ (d[1] > c[1] \/ (d[1] = c[1] /\ d[2] <= c[2]))
  BY DEF Front
<1>3. c[1] = d[1] /\ c[2] = d[2]
  BY <1>1, <1>2
<1> QED BY <1>1, <1>3 DEF Ordered

LEMMA PixelIs ==
  ASSUME NEW s, NEW ground, NEW C, Ordered(C), NEW c \in Front(C)
  PROVE  Pixel(s, ground, C) = [colour |-> <<c[3], s.negative>>, depth |-> c[1]]
<1> DEFINE d == CHOOSE d \in Front(C) : TRUE
<1>1. d \in Front(C) /\ C # {}
  BY DEF Front
<1> HIDE DEF d
<1>2. d = c
  BY <1>1, FrontIsOne
<1> QED BY <1>1, <1>2 DEF Pixel, d

\* A plot adds a candidate, that lies behind those of its depth.
LEMMA OneMoreCandidate ==
  ASSUME NEW s, NEW ground, NEW C, Ordered(C), NEW depth \in Nat \ {0}, NEW rank \in Nat, NEW layer, NEW cell,
         NEW row, NEW column, Behind(C, depth, rank)
  PROVE  LET D == C \cup Candidate(depth, rank, layer, cell, row, column)
         IN  /\ Ordered(D)
             /\ Plot(Pixel(s, ground, C), s, layer, Palette(cell), Index(cell, row, column), depth) = Pixel(s, ground, D)
<1> DEFINE index == Index(cell, row, column)
           new == <<depth, rank, <<layer, Palette(cell), index>>>>
           D == C \cup Candidate(depth, rank, layer, cell, row, column)
           old == Pixel(s, ground, C)
           fresh == [colour |-> <<<<layer, Palette(cell), index>>, s.negative>>, depth |-> depth]
<1>1. Candidate(depth, rank, layer, cell, row, column) = IF index # 0 THEN {new} ELSE {}
  <2>1. Candidate(depth, rank, layer, cell, row, column) = {c \in {new} : c[3][3] # 0}
    BY Zenon DEF Candidate, Palette
  <2>2. new[3][3] = index
    OBVIOUS
  <2> HIDE DEF new, index
  <2> QED BY <2>1, <2>2
<1>2. Plot(old, s, layer, Palette(cell), index, depth) = IF index # 0 /\ depth > old.depth THEN fresh ELSE old
  BY Zenon DEF Plot
<1>3. new[1] = depth /\ new[2] = rank /\ new[3] = <<layer, Palette(cell), index>>
  OBVIOUS
<1> HIDE DEF new, index
<1> DEFINE Goal == Ordered(D) /\ Plot(old, s, layer, Palette(cell), index, depth) = Pixel(s, ground, D)
<1>4. ASSUME index = 0 PROVE Goal
  <2>1. D = C
    BY <1>1, <1>4
  <2> QED BY <1>2, <1>4, <2>1, Zenon
<1>5. ASSUME index # 0 PROVE Goal
  <2>1. D = C \cup {new}
    BY <1>1, <1>5
  <2>2. \A c \in C : c[1] \in Nat \ {0} /\ c[2] \in Nat
    BY DEF Ordered
  <2> HIDE DEF D
  <2>3. \A c \in D : c[1] \in Nat \ {0} /\ c[2] \in Nat
    BY <1>3, <2>1, <2>2
  <2>4. \A c \in D, d \in D : c[1] = d[1] /\ c[2] = d[2] => c = d
    <3>1. \A c \in C, d \in C : c[1] = d[1] /\ c[2] = d[2] => c = d
      BY DEF Ordered
    <3>2. \A c \in C : ~(c[1] = depth /\ c[2] = rank)
      BY <2>2 DEF Behind
    <3> QED BY <1>3, <2>1, <3>1, <3>2
  <2>5. CASE C = {}
    <3>1. Front(D) = {new}
      BY <1>3, <2>1, <2>5 DEF Front
    <3>2. Ordered(D)
      BY <2>3, <2>4, <3>1 DEF Ordered
    <3>3. Pixel(s, ground, D) = [colour |-> <<new[3], s.negative>>, depth |-> new[1]]
      BY <3>1, <3>2, PixelIs
    <3>4. Pixel(s, ground, D) = fresh
      BY <1>3, <3>3
    <3>5. old.depth = 0
      BY <2>5 DEF Pixel
    <3> QED BY <1>2, <1>5, <3>2, <3>4, <3>5
  <2>6. CASE C # {}
    <3>1. PICK c \in Front(C) : TRUE
      BY <2>6 DEF Ordered
    <3>2. c \in C /\ c[1] \in Nat /\ c[2] \in Nat /\ \A d \in C : c[1] > d[1] \/ (c[1] = d[1] /\ c[2] <= d[2])
      BY <2>2, <3>1 DEF Front
    <3>3. old = [colour |-> <<c[3], s.negative>>, depth |-> c[1]]
      BY <3>1, PixelIs
    <3>4. CASE depth > c[1]
      <4>1. \A d \in D : new[1] > d[1] \/ (new[1] = d[1] /\ new[2] <= d[2])
        BY <1>3, <2>1, <2>2, <3>2, <3>4
      <4>2. new \in Front(D)
        BY <2>1, <4>1 DEF Front
      <4>3. Ordered(D)
        BY <2>3, <2>4, <4>2 DEF Ordered
      <4>4. Pixel(s, ground, D) = [colour |-> <<new[3], s.negative>>, depth |-> new[1]]
        BY <4>2, <4>3, PixelIs
      <4>5. Pixel(s, ground, D) = fresh
        BY <1>3, <4>4
      <4> QED BY <1>2, <1>5, <3>3, <3>4, <4>3, <4>5
    <3>5. CASE ~(depth > c[1])
      <4>1. \A d \in D : c[1] > d[1] \/ (c[1] = d[1] /\ c[2] <= d[2])
        BY <1>3, <2>1, <2>2, <3>2, <3>5 DEF Behind
      <4>2. c \in Front(D)
        BY <2>1, <3>2, <4>1 DEF Front
      <4>3. Ordered(D)
        BY <2>3, <2>4, <4>2 DEF Ordered
      <4>4. Pixel(s, ground, D) = old
        BY <3>3, <4>2, <4>3, PixelIs
      <4>5. ~(depth > old.depth)
        BY <3>3, <3>5
      <4> QED BY <1>2, <4>3, <4>4, <4>5
    <3> QED BY <3>4, <3>5
  <2> QED BY <2>5, <2>6
<1> QED BY <1>4, <1>5, Zenon DEF index

-----------------------------------------------------------------------------
(* A scroll plane: one tile lies on each column. *)

PlaneTiles == LineLimit \div Side

LEMMA WholeTiles == PlaneTiles \in Nat /\ LineLimit = PlaneTiles * Side /\ \A i \in 0..(PlaneTiles - 1) : i * Side \in 0..(LineLimit - Side)
<1>1. LineLimit % Side = 0
  BY DrawingAssumption
<1>2. PlaneTiles \in Int /\ LineLimit = PlaneTiles * Side + 0
  BY <1>1, Bounds, Divides DEF PlaneTiles
<1>3. PlaneTiles \in Nat
  BY <1>2, Bounds
<1>4. ASSUME NEW i \in 0..(PlaneTiles - 1) PROVE i * Side \in 0..(LineLimit - Side)
  <2> DEFINE rest == PlaneTiles - 1 - i
  <2>1. rest \in Nat /\ LineLimit - Side - i * Side = rest * Side
    BY <1>2, <1>3, Bounds
  <2>2. i * Side \in Nat /\ rest * Side \in Nat
    BY <2>1, Bounds
  <2> HIDE DEF rest
  <2> QED BY <2>1, <2>2, Bounds
<1> QED BY <1>2, <1>3, <1>4, Bounds

LEMMA TileOnColumn ==
  ASSUME NEW x \in Coordinate, NEW scroll \in Coordinate, NEW i \in 0..(PlaneTiles - 1)
  PROVE  LET across == (x + scroll) % LineLimit
             column == (x - ((i * Side - scroll) % LineLimit)) % LineLimit
         IN  /\ column < Side <=> i = across \div Side
             /\ column < Side => column = across % Side
<1> DEFINE across == (x + scroll) % LineLimit
           left == i * Side
           column == (x - ((left - scroll) % LineLimit)) % LineLimit
           n == across \div Side
           m == across % Side
<1>1. x \in Int /\ scroll \in Int /\ left \in 0..(LineLimit - Side) /\ LineLimit \in Nat \ {0} /\ Side \in Nat \ {0} /\ i \in Int
      /\ left \in 0..(LineLimit - 1) /\ Side <= LineLimit
  BY WholeTiles, Bounds DEF Coordinate
<1>2. left = i * Side
  OBVIOUS
<1> HIDE DEF left
<1>3. across \in 0..(LineLimit - 1)
  BY <1>1, Divides
<1>4. column = (across - left) % LineLimit
  <2>1. column = (x - (left - scroll)) % LineLimit
    <3> DEFINE b == left - scroll
    <3>1. b \in Int
      BY <1>1
    <3> HIDE DEF b
    <3>2. (x - (b % LineLimit)) % LineLimit = (x - b) % LineLimit
      BY <1>1, <3>1, RoundWithin
    <3> QED BY <3>2 DEF b
  <2> DEFINE e == x + scroll
             d == -left
  <2>2. x - (left - scroll) = e + d /\ e \in Int /\ d \in Int
    BY <1>1
  <2>3. across = e % LineLimit
    OBVIOUS
  <2> HIDE DEF e, across
  <2>4. (d + (e % LineLimit)) % LineLimit = (d + e) % LineLimit
    <3> HIDE DEF d
    <3> QED BY <1>1, <2>2, RoundWithin
  <2>5. across - left = d + across /\ d + e = e + d
    BY <1>1, <1>3, <2>2
  <2>6. (across - left) % LineLimit = (e + d) % LineLimit
    BY <2>3, <2>4, <2>5, Zenon
  <2> HIDE DEF d
  <2> QED BY <2>1, <2>2, <2>6, Zenon
<1>5. m \in 0..(Side - 1) /\ n \in Int /\ across = n * Side + m
  BY <1>1, <1>3, Divides
<1> HIDE DEF across, column
<1>6. column = IF across < left THEN across - left + LineLimit ELSE across - left
  BY <1>1, <1>3, <1>4, SumsAndDifferences
<1> HIDE DEF m, n
<1>7. CASE across < left
  <2>1. ~(column < Side)
    BY <1>1, <1>3, <1>6, <1>7
  <2>2. i # n
    BY <1>1, <1>2, <1>5, <1>7
  <2> QED BY <2>1, <2>2 DEF across, column, left, n, m
<1>8. CASE ~(across < left)
  <2>1. column = across - left /\ column \in Nat
    BY <1>1, <1>3, <1>6, <1>8
  <2>2. (n - i) * Side + m = column
    BY <1>1, <1>2, <1>5, <2>1
  <2>3. column < Side => i = n
    <3>1. ASSUME column < Side PROVE (n - i) * Side < Side /\ -Side < (n - i) * Side
      BY <1>1, <1>5, <2>1, <2>2, <3>1
    <3>2. ASSUME column < Side PROVE n - i = 0
      BY <1>1, <1>5, <3>1, <3>2, Multiple
    <3> QED BY <1>1, <1>5, <3>2
  <2>4. i = n => column = m
    <3>1. ASSUME i = n PROVE (n - i) * Side = 0
      BY <1>1, <3>1
    <3> QED BY <1>1, <1>5, <2>2, <3>1
  <2> QED BY <1>1, <1>5, <2>3, <2>4 DEF across, column, left, n, m
<1> QED BY <1>7, <1>8

\* The pixel once the tiles before i are drawn.
LEMMA ScrollPlane ==
  ASSUME NEW s, SettingsOK(s), NEW x \in Columns, NEW p \in 1..2, NEW n \in Visible, NEW pixel, NEW depth
  PROVE  LET across == (x + s.scrollx[p]) % LineLimit
             down == (n + s.scrolly[p]) % LineLimit
             cell == video.planes[p][down \div Side][across \div Side]
         IN  draw_scroll(pixel, x, s, p, depth, n) =
               IF Inside(s, x) THEN Plot(pixel, s, p, Palette(cell), Index(cell, down % Side, across % Side), depth) ELSE pixel
<1> DEFINE across == (x + s.scrollx[p]) % LineLimit
           down == (n + s.scrolly[p]) % LineLimit
           t == across \div Side
           column == across % Side
           cell == video.planes[p][down \div Side][t]
           plotted == IF Inside(s, x) THEN Plot(pixel, s, p, Palette(cell), Index(cell, down % Side, column), depth) ELSE pixel
           Is(f) == f = [i \in 0..PlaneTiles |-> IF i = 0 THEN pixel ELSE Tile(f[i - 1], x, s, p, depth, down, i - 1)]
           drawn == CHOOSE f : Is(f)
           known == [i \in 0..PlaneTiles |-> IF t < i THEN plotted ELSE pixel]
<1>1. draw_scroll(pixel, x, s, p, depth, n) = drawn[PlaneTiles]
  BY Zenon DEF draw_scroll, PlaneTiles
<1>2. s.scrollx[p] \in Coordinate /\ x \in Coordinate
  BY Bounds DEF SettingsOK, Columns, Coordinate
<1>3. t \in 0..(PlaneTiles - 1)
  <2>1. across \in 0..(LineLimit - 1)
    <3>1. x + s.scrollx[p] \in Int
      BY <1>2, Bounds DEF Coordinate
    <3> QED BY <3>1, Bounds, Divides
  <2> HIDE DEF across
  <2>2. t \in Int /\ column \in 0..(Side - 1) /\ across = t * Side + column
    BY <2>1, Bounds, Divides
  <2> HIDE DEF t, column
  <2>3. t >= 0
    BY <2>1, <2>2, Bounds
  <2>4. t < PlaneTiles
    <3> DEFINE gap == PlaneTiles - t
    <3>1. gap * Side = LineLimit - across + column /\ gap \in Int
      BY <2>1, <2>2, WholeTiles, Bounds
    <3>2. gap * Side > 0
      BY <2>1, <2>2, <3>1, Bounds
    <3> HIDE DEF gap
    <3>3. gap > 0
      BY <3>1, <3>2, Bounds
    <3> QED BY <2>2, <3>3, WholeTiles DEF gap
  <2> QED BY <2>2, <2>3, <2>4, WholeTiles
<1>4. ASSUME NEW i \in 0..(PlaneTiles - 1), NEW l
      PROVE  Tile(l, x, s, p, depth, down, i) =
               IF Inside(s, x) /\ i = t
               THEN Plot(l, s, p, Palette(cell), Index(cell, down % Side, column), depth) ELSE l
  <2> DEFINE screenx == (i * Side - s.scrollx[p]) % LineLimit
             place == (x - screenx) % LineLimit
             at == video.planes[p][down \div Side][i]
  <2>1. i * Side - s.scrollx[p] \in Int
    BY <1>2, WholeTiles, Bounds DEF Coordinate
  <2>2. screenx \in Coordinate
    BY <2>1, Bounds, Divides DEF Coordinate
  <2>3. (place < Side <=> i = t) /\ (place < Side => place = column)
    BY <1>2, TileOnColumn, Zenon
  <2>4. Tile(l, x, s, p, depth, down, i) = drawPattern(l, x, s, screenx, at, down % Side, p, depth)
    BY Zenon DEF Tile
  <2> HIDE DEF screenx, place
  <2>5. drawPattern(l, x, s, screenx, at, down % Side, p, depth) =
          IF Inside(s, x) /\ (x - screenx) % LineLimit < Side
          THEN Plot(l, s, p, Palette(at), Index(at, down % Side, (x - screenx) % LineLimit), depth) ELSE l
    BY <2>2, Pattern
  <2>6. place = (x - screenx) % LineLimit
    BY DEF place
  <2> HIDE DEF t, column
  <2>7. i = t => at = cell
    OBVIOUS
  <2> HIDE DEF at, cell, down
  <2> QED BY <2>3, <2>4, <2>5, <2>6, <2>7, Zenon
<1> HIDE DEF t, column, cell, down
<1>5. Is(known)
  <2> SUFFICES ASSUME NEW i \in 0..PlaneTiles
               PROVE  (IF t < i THEN plotted ELSE pixel) = IF i = 0 THEN pixel ELSE Tile(known[i - 1], x, s, p, depth, down, i - 1)
    BY Zenon
  <2>1. CASE i = 0
    <3>1. ~(t < 0)
      BY <1>3, WholeTiles
    <3> QED BY <2>1, <3>1
  <2>2. CASE i # 0
    <3>1. i - 1 \in 0..(PlaneTiles - 1) /\ i - 1 \in 0..PlaneTiles
      BY <2>2, WholeTiles
    <3>2. known[i - 1] = IF t < i - 1 THEN plotted ELSE pixel
      BY <3>1
    <3>3. Tile(known[i - 1], x, s, p, depth, down, i - 1) =
            IF Inside(s, x) /\ i - 1 = t
            THEN Plot(known[i - 1], s, p, Palette(cell), Index(cell, down % Side, column), depth) ELSE known[i - 1]
      BY <1>4, <3>1
    <3>4. t < i <=> t < i - 1 \/ t = i - 1
      BY <1>3, WholeTiles
    <3>5. ~(t < i - 1 /\ t = i - 1)
      BY <1>3, WholeTiles
    <3> DEFINE over(l) == IF Inside(s, x) THEN Plot(l, s, p, Palette(cell), Index(cell, down % Side, column), depth) ELSE l
    <3>6. plotted = over(pixel)
      OBVIOUS
    <3> HIDE DEF plotted, known
    <3>9. Tile(known[i - 1], x, s, p, depth, down, i - 1) = IF i - 1 = t THEN over(known[i - 1]) ELSE known[i - 1]
      BY <3>3
    <3> HIDE DEF over
    <3>7. CASE t = i - 1
      <4>1. known[i - 1] = pixel /\ t < i
        BY <3>2, <3>4, <3>5, <3>7
      <4> QED BY <2>2, <3>6, <3>7, <3>9, <4>1
    <3>8. CASE t # i - 1
      BY <2>2, <3>2, <3>4, <3>8, <3>9
    <3> QED BY <3>7, <3>8
  <2> QED BY <2>1, <2>2
<1> HIDE DEF known
<1>6. Is(drawn)
  BY <1>5, Zenon
<1> HIDE DEF drawn
<1>7. \A i \in 0..PlaneTiles : drawn[i] = known[i]
  <2> DEFINE T == {i \in 0..PlaneTiles : drawn[i] = known[i]}
  <2>1. 0 \in T
    <3>1. 0 \in 0..PlaneTiles
      BY WholeTiles
    <3> QED BY <1>5, <1>6, <3>1, Zenon
  <2>2. ASSUME NEW i \in 0..(PlaneTiles - 1), i \in T PROVE i + 1 \in T
    <3>1. i + 1 \in 0..PlaneTiles /\ (i + 1) - 1 = i /\ i + 1 # 0
      BY WholeTiles
    <3>2. drawn[i + 1] = Tile(drawn[i], x, s, p, depth, down, i) /\ known[i + 1] = Tile(known[i], x, s, p, depth, down, i)
      BY <1>5, <1>6, <3>1, Zenon
    <3> QED BY <2>2, <3>1, <3>2
  <2> HIDE DEF T
  <2>3. \A i \in 0..PlaneTiles : i \in T
    BY <2>1, <2>2, WholeTiles, UpTo
  <2> QED BY <2>3 DEF T
<1>8. known[PlaneTiles] = plotted
  <2>1. PlaneTiles \in 0..PlaneTiles /\ t < PlaneTiles
    BY <1>3, WholeTiles
  <2> QED BY <2>1 DEF known
<1>9. draw_scroll(pixel, x, s, p, depth, n) = plotted
  <2>1. PlaneTiles \in 0..PlaneTiles
    BY WholeTiles
  <2> QED BY <1>1, <1>7, <1>8, <2>1
<1> QED BY <1>9, Zenon DEF cell, t, column, down

-----------------------------------------------------------------------------
(* The sprites. *)

LEMMA SpriteSpot ==
  ASSUME NEW v \in Nat, NEW n \in Visible
  PROVE  LET top == OffScreen(v)
             row == (n - v) % LineLimit
         IN  /\ n \in top..(top + Side - 1) <=> row < Side /\ ~(v >= LineLimit /\ v % LineLimit > LineLimit - Side)
             /\ n \in top..(top + Side - 1) => n - top = row
<1> DEFINE top == OffScreen(v)
           w == v % LineLimit
           row == (n - v) % LineLimit
<1>1. n \in Nat /\ n < LineLimit - Side /\ n \in 0..(LineLimit - 1) /\ LineLimit \in Nat \ {0} /\ Side \in Nat \ {0} /\ Side <= LineLimit
      /\ n \in Int /\ v \in Int
  BY Bounds DEF Visible
<1>2. w \in 0..(LineLimit - 1)
  BY <1>1, Divides
<1>3. v < LineLimit => w = v
  BY <1>1, OnceRound
<1>4. row = (n - w) % LineLimit
  BY <1>1, RoundWithin
<1>5. top = IF v > LineLimit - Side /\ v < LineLimit THEN v - LineLimit ELSE w
  BY DEF OffScreen
<1> HIDE DEF w, row, top
<1> DEFINE there == n \in top..(top + Side - 1)
           Goal == (there <=> row < Side /\ ~(v >= LineLimit /\ w > LineLimit - Side)) /\ (there => n - top = row)
<1>6. row = IF n < w THEN n - w + LineLimit ELSE n - w
  BY <1>1, <1>2, <1>4, SumsAndDifferences
<1>7. ASSUME v > LineLimit - Side, v < LineLimit PROVE Goal
  <2>1. n < w /\ top = w - LineLimit
    BY <1>1, <1>3, <1>5, <1>7
  <2>2. row = n - top /\ row \in Int /\ top \in Int /\ top <= n
    BY <1>1, <1>2, <1>6, <2>1
  <2>3. n \in top..(top + Side - 1) <=> row < Side
    BY <1>1, <2>2
  <2>4. ~(v >= LineLimit) /\ n - top = row
    BY <1>1, <1>7, <2>2
  <2> QED BY <2>3, <2>4
<1>8. ASSUME ~(v > LineLimit - Side /\ v < LineLimit) PROVE Goal
  <2>1. top = w
    BY <1>5, <1>8
  <2>2. CASE w > LineLimit - Side
    <3>1. v >= LineLimit
      BY <1>1, <1>3, <1>8, <2>2
    <3>2. ~(n \in top..(top + Side - 1))
      BY <1>1, <1>2, <2>1, <2>2
    <3> QED BY <2>2, <3>1, <3>2
  <2>3. CASE ~(w > LineLimit - Side)
    <3>1. CASE n < w
      <4>1. ~(row < Side) /\ ~(n \in top..(top + Side - 1))
        BY <1>1, <1>2, <1>6, <2>1, <2>3, <3>1
      <4> QED BY <2>3, <4>1
    <3>2. CASE ~(n < w)
      <4>1. row = n - top /\ (row < Side <=> n \in top..(top + Side - 1))
        BY <1>1, <1>2, <1>6, <2>1, <3>2
      <4> QED BY <2>3, <4>1
    <3> QED BY <3>1, <3>2
  <2> QED BY <2>2, <2>3
<1>9. Goal
  BY <1>7, <1>8
<1> QED BY <1>9 DEF top, row, w

LEMMA SpriteColumn ==
  ASSUME NEW v \in Nat, NEW x \in Columns
  PROVE  /\ OffScreen(v) % LineLimit \in Coordinate
         /\ (x - (OffScreen(v) % LineLimit)) % LineLimit = (x - v) % LineLimit
<1>1. LineLimit \in Nat \ {0} /\ Side \in Nat /\ v \in Int /\ x \in Int
  BY Bounds DEF Columns
<1> DEFINE w == v % LineLimit
<1>2. w \in 0..(LineLimit - 1)
  BY <1>1, Divides
<1>3. v < LineLimit => w = v
  BY <1>1, OnceRound
<1>4. (x - w) % LineLimit = (x - v) % LineLimit
  BY <1>1, RoundWithin
<1>5. OffScreen(v) = IF v > LineLimit - Side /\ v < LineLimit THEN v - LineLimit ELSE w
  BY DEF OffScreen
<1> HIDE DEF w
<1>6. OffScreen(v) = w \/ OffScreen(v) = w - LineLimit
  BY <1>1, <1>3, <1>5
<1>7. w \in (-LineLimit)..(2 * LineLimit - 1) /\ w - LineLimit \in (-LineLimit)..(2 * LineLimit - 1)
  BY <1>1, <1>2
<1>8. OffScreen(v) % LineLimit = w
  <2> DEFINE o == OffScreen(v)
  <2>1. o \in (-LineLimit)..(2 * LineLimit - 1) /\ (o = w \/ o = w - LineLimit)
    BY <1>6, <1>7
  <2> HIDE DEF o
  <2>2. o % LineLimit = IF o < 0 THEN o + LineLimit ELSE IF o < LineLimit THEN o ELSE o - LineLimit
    BY <1>1, <2>1, OnceRound
  <2>3. o % LineLimit = w
    BY <1>1, <1>2, <2>1, <2>2
  <2> QED BY <2>3 DEF o
<1> QED BY <1>2, <1>4, <1>8 DEF Coordinate

\* The candidates of the planes and the sprites up to k.
UpToSprite(s, x, n, k) == OfPlane(s, 1, x, n) \cup OfPlane(s, 2, x, n) \cup UNION {OfSprite(s, j, x, n) : j \in 1..k}

\* A pixel is left alone outside of the window.
Best(s, x, ground, C) == IF Inside(s, x) THEN Pixel(s, ground, C) ELSE [colour |-> ground, depth |-> 0]
Placed(s, x, ground, k, C) == [x |-> SpriteX(k), y |-> SpriteY(k), pixel |-> Best(s, x, ground, C)]

LEMMA OfSpriteIs ==
  ASSUME NEW s, NEW k, NEW x, NEW n
  PROVE  LET cell == video.sprites[k]
             y == SpriteY(k) + s.scrollspry
             column == (x - SpriteX(k) - s.scrollsprx) % LineLimit
             row == (n - y) % LineLimit
             lost == y >= LineLimit /\ y % LineLimit > LineLimit - Side
         IN  OfSprite(s, k, x, n) =
               IF cell.priority # 0 /\ column < Side /\ row < Side /\ ~lost
               THEN Candidate(2 * cell.priority, k, 0, cell, row, column) ELSE {}
BY Zenon DEF OfSprite, SpriteX, SpriteY, Position

LEMMA SpriteCell ==
  ASSUME video.sprites \in Seq(SpriteCells), NEW k \in 1..Len(video.sprites)
  PROVE  /\ video.sprites[k].priority \in 0..3 /\ video.sprites[k].x \in Nat /\ video.sprites[k].y \in Nat
         /\ video.sprites[k].xchain \in BOOLEAN /\ video.sprites[k].ychain \in BOOLEAN
<1> DEFINE cell == video.sprites[k]
<1>1. cell \in SpriteCells
  OBVIOUS
<1> HIDE DEF cell
<1>2. /\ cell.priority \in 0..3 /\ cell.x \in Coordinate /\ cell.y \in Coordinate
      /\ cell.xchain \in BOOLEAN /\ cell.ychain \in BOOLEAN
  BY <1>1 DEF SpriteCells
<1>3. Coordinate \subseteq Nat
  BY Bounds DEF Coordinate
<1>4. cell.x \in Nat /\ cell.y \in Nat
  BY <1>2, <1>3
<1> QED BY <1>2, <1>4 DEF cell

\* A sprite adds its candidate, in the window.
LEMMA OneMoreSprite ==
  ASSUME video.sprites \in Seq(SpriteCells), NEW s, SettingsOK(s), NEW x \in Columns, NEW n \in Visible,
         NEW k \in 1..Len(video.sprites), NEW ground, NEW C, Ordered(C), \A c \in C : c[2] < k
  PROVE  LET D == C \cup OfSprite(s, k, x, n)
         IN  /\ Ordered(D)
             /\ Sprite(Placed(s, x, ground, k - 1, C), video.sprites[k], x, s, n) = Placed(s, x, ground, k, D)
<1> DEFINE last == Placed(s, x, ground, k - 1, C)
           cell == video.sprites[k]
           sx == SpriteX(k) + s.scrollsprx
           sy == SpriteY(k) + s.scrollspry
           top == OffScreen(sy)
           row == (n - sy) % LineLimit
           place == OffScreen(sx) % LineLimit
           column == (x - sx) % LineLimit
           lost == sy >= LineLimit /\ sy % LineLimit > LineLimit - Side
           D == C \cup OfSprite(s, k, x, n)
           none == [colour |-> ground, depth |-> 0]
           there == cell.priority # 0 /\ n \in top..(top + Side - 1)
           drawn == IF there THEN drawPattern(last.pixel, x, s, place, cell, n - top, 0, 2 * cell.priority) ELSE last.pixel
           seen == cell.priority # 0 /\ column < Side /\ row < Side /\ ~lost
           own == Candidate(2 * cell.priority, k, 0, cell, row, column)
<1>1. /\ k \in 0..Len(video.sprites) /\ SpriteX(k) \in Nat /\ SpriteY(k) \in Nat
      /\ SpriteX(k) = cell.x + (IF cell.xchain THEN SpriteX(k - 1) ELSE 0)
      /\ SpriteY(k) = cell.y + (IF cell.ychain THEN SpriteY(k - 1) ELSE 0)
  BY SpritesInChains
<1>2. /\ s.scrollsprx \in Nat /\ s.scrollspry \in Nat /\ sx \in Nat /\ sy \in Nat /\ cell.priority \in 0..3 /\ k \in Nat
      /\ x \in Int
  <2>1. s.scrollsprx \in Coordinate /\ s.scrollspry \in Coordinate
    BY DEF SettingsOK
  <2>2. s.scrollsprx \in Nat /\ s.scrollspry \in Nat /\ x \in Int /\ k \in Nat
    BY <2>1, Bounds DEF Coordinate, Columns
  <2>3. cell.priority \in 0..3
    BY SpriteCell
  <2> HIDE DEF cell
  <2> QED BY <1>1, <2>2, <2>3
<1>3. Sprite(last, cell, x, s, n) = [x |-> SpriteX(k), y |-> SpriteY(k), pixel |-> drawn]
  <2>0. last.x = SpriteX(k - 1) /\ last.y = SpriteY(k - 1)
    BY DEF Placed
  <2>1. cell.x + (IF cell.xchain THEN last.x ELSE 0) = SpriteX(k) /\ cell.y + (IF cell.ychain THEN last.y ELSE 0) = SpriteY(k)
    BY <1>1, <2>0
  <2> QED BY <2>1, Zenon DEF Sprite
<1>11. last.pixel = IF Inside(s, x) THEN Pixel(s, ground, C) ELSE none
  BY DEF Placed, Best
<1> HIDE DEF last
<1>4. (n \in top..(top + Side - 1) <=> row < Side /\ ~lost) /\ (n \in top..(top + Side - 1) => n - top = row)
  BY <1>2, SpriteSpot
<1>5. place \in Coordinate /\ (x - place) % LineLimit = column
  BY <1>2, SpriteColumn
<1>6. OfSprite(s, k, x, n) = IF seen THEN own ELSE {}
  <2>1. x - SpriteX(k) - s.scrollsprx = x - sx
    BY <1>1, <1>2
  <2>2. (x - SpriteX(k) - s.scrollsprx) % LineLimit = column
    BY <2>1, Zenon
  <2> QED BY <2>2, OfSpriteIs, Zenon
<1> HIDE DEF top, row, place, column, lost
<1>7. ASSUME there
      PROVE  drawn = IF Inside(s, x) /\ column < Side
                     THEN Plot(last.pixel, s, 0, Palette(cell), Index(cell, row, column), 2 * cell.priority) ELSE last.pixel
  <2>1. n - top = row
    BY <1>4, <1>7
  <2>2. drawPattern(last.pixel, x, s, place, cell, row, 0, 2 * cell.priority) =
          IF Inside(s, x) /\ (x - place) % LineLimit < Side
          THEN Plot(last.pixel, s, 0, Palette(cell), Index(cell, row, (x - place) % LineLimit), 2 * cell.priority) ELSE last.pixel
    BY <1>5, Pattern
  <2> HIDE DEF cell, there
  <2> QED BY <1>5, <1>7, <2>1, <2>2
<1>8. seen <=> there /\ column < Side
  BY <1>4
<1> HIDE DEF cell, there, seen
<1>9. CASE seen
  <2>1. 2 * cell.priority \in Nat \ {0}
    BY <1>2, <1>9 DEF seen
  <2>2. \A c \in C : c[1] = 2 * cell.priority => c[2] < k
    OBVIOUS
  <2>3. /\ Ordered(C \cup own)
        /\ Plot(Pixel(s, ground, C), s, 0, Palette(cell), Index(cell, row, column), 2 * cell.priority)
             = Pixel(s, ground, C \cup own)
    <3> DEFINE depth == 2 * cell.priority
    <3>1. depth \in Nat \ {0} /\ Behind(C, depth, k)
      BY <2>1, <2>2 DEF Behind
    <3> HIDE DEF depth
    <3>2. /\ Ordered(C \cup Candidate(depth, k, 0, cell, row, column))
          /\ Plot(Pixel(s, ground, C), s, 0, Palette(cell), Index(cell, row, column), depth)
               = Pixel(s, ground, C \cup Candidate(depth, k, 0, cell, row, column))
      <4>1. Ordered(C) /\ k \in Nat
        BY <1>2
      <4> HIDE DEF own, D, drawn, none, sx, sy
      <4>2. Ordered(C \cup Candidate(depth, k, 0, cell, row, column))
        BY <3>1, <4>1, OneMoreCandidate
      <4>3. Plot(Pixel(s, ground, C), s, 0, Palette(cell), Index(cell, row, column), depth)
               = Pixel(s, ground, C \cup Candidate(depth, k, 0, cell, row, column))
        BY <3>1, <4>1, OneMoreCandidate
      <4> QED BY <4>2, <4>3
    <3> QED BY <3>2 DEF depth
  <2>4. D = C \cup own
    BY <1>6, <1>9
  <2>5. drawn = IF Inside(s, x) THEN Pixel(s, ground, D) ELSE none
    <3>1. CASE Inside(s, x)
      <4>1. last.pixel = Pixel(s, ground, C)
        BY <1>11, <3>1
      <4>2. drawn = Plot(Pixel(s, ground, C), s, 0, Palette(cell), Index(cell, row, column), 2 * cell.priority)
        BY <1>7, <1>8, <1>9, <3>1, <4>1
      <4> QED BY <2>3, <2>4, <3>1, <4>2
    <3>2. CASE ~Inside(s, x)
      <4>1. drawn = last.pixel
        BY <1>7, <1>8, <1>9, <3>2
      <4> QED BY <1>11, <3>2, <4>1
    <3> QED BY <3>1, <3>2
  <2>6. Ordered(D)
    BY <2>3, <2>4
  <2> HIDE DEF drawn, D
  <2> QED BY <1>3, <2>5, <2>6 DEF D, cell, last, Placed, Best
<1>10. CASE ~seen
  <2>1. D = C
    BY <1>6, <1>10
  <2>2. drawn = last.pixel
    BY <1>7, <1>8, <1>10
  <2>3. drawn = IF Inside(s, x) THEN Pixel(s, ground, D) ELSE none
    BY <1>11, <2>1, <2>2
  <2>4. Ordered(D)
    BY <2>1
  <2> HIDE DEF drawn, D
  <2> QED BY <1>3, <2>3, <2>4 DEF D, cell, last, Placed, Best
<1> QED BY <1>9, <1>10

LEMMA Ranks ==
  ASSUME NEW s, NEW x, NEW n
  PROVE  /\ \A p \in 1..2 : \A c \in OfPlane(s, p, x, n) : c[2] = 0 /\ c[1] = IF (p = 1) = s.planeSwap THEN 3 ELSE 5
         /\ \A k : \A c \in OfSprite(s, k, x, n) : c[2] = k
<1>1. ASSUME NEW depth, NEW rank, NEW layer, NEW cell, NEW row, NEW column, NEW c \in Candidate(depth, rank, layer, cell, row, column)
      PROVE  c[1] = depth /\ c[2] = rank
  <2>1. c = <<depth, rank, <<layer, Palette(cell), Index(cell, row, column)>>>>
    BY Zenon DEF Candidate, Palette
  <2> QED BY <2>1
<1>2. ASSUME NEW p \in 1..2, NEW c \in OfPlane(s, p, x, n)
      PROVE  c[2] = 0 /\ c[1] = IF (p = 1) = s.planeSwap THEN 3 ELSE 5
  <2> DEFINE across == (x + s.scrollx[p]) % LineLimit
             down == (n + s.scrolly[p]) % LineLimit
             depth == IF (p = 1) = s.planeSwap THEN 3 ELSE 5
  <2>1. c \in Candidate(depth, 0, p, video.planes[p][down \div Side][across \div Side], down % Side, across % Side)
    BY Zenon DEF OfPlane
  <2> HIDE DEF across, down, depth
  <2>2. c[1] = depth /\ c[2] = 0
    BY <1>1, <2>1
  <2> QED BY <2>2 DEF depth
<1>3. ASSUME NEW k, NEW c \in OfSprite(s, k, x, n) PROVE c[2] = k
  <2>1. PICK depth, row, column : c \in Candidate(depth, k, 0, video.sprites[k], row, column)
    BY OfSpriteIs
  <2> QED BY <1>1, <2>1
<1> QED BY <1>2, <1>3

\* The planes, the one in front and the one behind.
LEMMA PlanesDrawn ==
  ASSUME NEW s, SettingsOK(s), NEW x \in Columns, NEW n \in Visible, NEW ground
  PROVE  LET none == [colour |-> ground, depth |-> 0]
             behind == draw_scroll(none, x, s, IF s.planeSwap THEN 1 ELSE 2, 3, n)
             C == OfPlane(s, 1, x, n) \cup OfPlane(s, 2, x, n)
         IN  /\ Ordered(C)
             /\ draw_scroll(behind, x, s, IF s.planeSwap THEN 2 ELSE 1, 5, n) =
                  Best(s, x, ground, C)
<1> DEFINE none == [colour |-> ground, depth |-> 0]
           b == IF s.planeSwap THEN 1 ELSE 2
           f == IF s.planeSwap THEN 2 ELSE 1
           down(p) == (n + s.scrolly[p]) % LineLimit
           across(p) == (x + s.scrollx[p]) % LineLimit
           row(p) == down(p) % Side
           column(p) == across(p) % Side
           cell(p) == video.planes[p][down(p) \div Side][across(p) \div Side]
           own(p, depth) == Candidate(depth, 0, p, cell(p), row(p), column(p))
           over(l, p, depth) == Plot(l, s, p, Palette(cell(p)), Index(cell(p), row(p), column(p)), depth)
<1>1. b \in 1..2 /\ f \in 1..2 /\ {b, f} = {1, 2} /\ s.planeSwap \in BOOLEAN
  BY DEF SettingsOK
<1>2. \A l, depth : \A p \in 1..2 : draw_scroll(l, x, s, p, depth, n) = IF Inside(s, x) THEN over(l, p, depth) ELSE l
  <2> SUFFICES ASSUME NEW l, NEW depth, NEW p \in 1..2
               PROVE  draw_scroll(l, x, s, p, depth, n) = IF Inside(s, x) THEN over(l, p, depth) ELSE l
    BY Zenon
  <2> HIDE DEF none, b, f, own
  <2> QED BY ScrollPlane
<1>3. OfPlane(s, b, x, n) = own(b, 3) /\ OfPlane(s, f, x, n) = own(f, 5)
  <2>1. \A p : OfPlane(s, p, x, n) = own(p, IF (p = 1) = s.planeSwap THEN 3 ELSE 5)
    BY Zenon DEF OfPlane
  <2> HIDE DEF own
  <2>2. (IF (b = 1) = s.planeSwap THEN 3 ELSE 5) = 3 /\ (IF (f = 1) = s.planeSwap THEN 3 ELSE 5) = 5
    BY <1>1
  <2> QED BY <2>1, <2>2
<1>4. Ordered({}) /\ Pixel(s, ground, {}) = none /\ Behind({}, 3, 0)
  BY DEF Ordered, Pixel, Behind
<1>5. own(b, 3) = {} \cup own(b, 3)
  OBVIOUS
<1> HIDE DEF down, across, row, column, cell
<1>6. Ordered({} \cup own(b, 3)) /\ over(Pixel(s, ground, {}), b, 3) = Pixel(s, ground, {} \cup own(b, 3))
  <2>1. 3 \in Nat \ {0} /\ 0 \in Nat
    OBVIOUS
  <2>2. Ordered({} \cup own(b, 3))
    BY <1>4, <2>1, OneMoreCandidate
  <2>3. over(Pixel(s, ground, {}), b, 3) = Pixel(s, ground, {} \cup own(b, 3))
    BY <1>4, <2>1, OneMoreCandidate
  <2> QED BY <2>2, <2>3
<1>7. Behind(own(b, 3), 5, 0)
  <2>1. \A c \in own(b, 3) : c[1] = 3
    <3>1. \A c \in OfPlane(s, b, x, n) : c[1] = IF (b = 1) = s.planeSwap THEN 3 ELSE 5
      BY <1>1, Ranks
    <3>2. (IF (b = 1) = s.planeSwap THEN 3 ELSE 5) = 3
      BY <1>1
    <3> HIDE DEF b, own
    <3> QED BY <1>3, <3>1, <3>2
  <2> HIDE DEF own
  <2> QED BY <2>1 DEF Behind
<1>8. /\ Ordered(own(b, 3) \cup own(f, 5))
      /\ over(Pixel(s, ground, own(b, 3)), f, 5) = Pixel(s, ground, own(b, 3) \cup own(f, 5))
  <2>0. Ordered(own(b, 3))
    BY <1>5, <1>6, Zenon
  <2>1. 5 \in Nat \ {0} /\ 0 \in Nat /\ Ordered(own(b, 3))
    BY <2>0
  <2> DEFINE C == own(b, 3)
  <2>2. Behind(C, 5, 0) /\ Ordered(C)
    BY <1>7, <2>1
  <2> HIDE DEF C
  <2>3. Ordered(C \cup own(f, 5))
    BY <2>1, <2>2, OneMoreCandidate
  <2>4. over(Pixel(s, ground, C), f, 5) = Pixel(s, ground, C \cup own(f, 5))
    BY <2>1, <2>2, OneMoreCandidate
  <2> QED BY <2>3, <2>4 DEF C
<1> HIDE DEF own, over
<1>9. own(b, 3) \cup own(f, 5) = OfPlane(s, 1, x, n) \cup OfPlane(s, 2, x, n)
  BY <1>1, <1>3
<1>10. over(over(none, b, 3), f, 5) = Pixel(s, ground, own(b, 3) \cup own(f, 5))
  <2>1. over(Pixel(s, ground, {}), b, 3) = Pixel(s, ground, own(b, 3))
    BY <1>5, <1>6, Zenon
  <2>2. over(none, b, 3) = Pixel(s, ground, own(b, 3))
    BY <1>4, <2>1, Zenon
  <2>3. over(Pixel(s, ground, own(b, 3)), f, 5) = Pixel(s, ground, own(b, 3) \cup own(f, 5))
    BY <1>8
  <2> HIDE DEF none, b, f
  <2> QED BY <2>2, <2>3
<1>11. draw_scroll(draw_scroll(none, x, s, b, 3, n), x, s, f, 5, n) = IF Inside(s, x) THEN over(over(none, b, 3), f, 5) ELSE none
  BY <1>1, <1>2
<1>12. draw_scroll(draw_scroll(none, x, s, b, 3, n), x, s, f, 5, n)
        = Best(s, x, ground, OfPlane(s, 1, x, n) \cup OfPlane(s, 2, x, n))
  BY <1>9, <1>10, <1>11 DEF Best
<1> QED BY <1>8, <1>9, <1>12

LEMMA SpritesDrawn ==
  ASSUME video.sprites \in Seq(SpriteCells), NEW s, SettingsOK(s), NEW x \in Columns, NEW n \in Visible, NEW ground,
         Ordered(OfPlane(s, 1, x, n) \cup OfPlane(s, 2, x, n)), NEW pixel,
         pixel = Best(s, x, ground, OfPlane(s, 1, x, n) \cup OfPlane(s, 2, x, n))
  PROVE  LET all == UpToSprite(s, x, n, Len(video.sprites))
         IN  /\ Ordered(all)
             /\ draw_sprites(pixel, x, s, n) = Best(s, x, ground, all)
<1> DEFINE N == Len(video.sprites)
           C(k) == UpToSprite(s, x, n, k)
           first == [x |-> 0, y |-> 0, pixel |-> pixel]
           place(k) == Placed(s, x, ground, k, C(k))
           Is(g) == g = [k \in 0..N |-> IF k = 0 THEN first ELSE Sprite(g[k - 1], video.sprites[k], x, s, n)]
           drawn == CHOOSE g : Is(g)
           known == [k \in 0..N |-> place(k)]
<1>1. draw_sprites(pixel, x, s, n) = drawn[N].pixel
  BY Zenon DEF draw_sprites
<1>2. N \in Nat /\ SpriteX(0) = 0 /\ SpriteY(0) = 0
  BY SpritesInChains
<1>3. C(0) = OfPlane(s, 1, x, n) \cup OfPlane(s, 2, x, n)
  <2>1. UNION {OfSprite(s, j, x, n) : j \in 1..0} = {}
    OBVIOUS
  <2> QED BY <2>1 DEF UpToSprite
<1>4. \A k \in 0..(N - 1) : C(k + 1) = C(k) \cup OfSprite(s, k + 1, x, n)
  <2> TAKE k \in 0..(N - 1)
  <2>1. \A j : j \in 1..(k + 1) <=> j \in 1..k \/ j = k + 1
    BY <1>2
  <2>2. UNION {OfSprite(s, j, x, n) : j \in 1..(k + 1)} = (UNION {OfSprite(s, j, x, n) : j \in 1..k}) \cup OfSprite(s, k + 1, x, n)
    BY <2>1
  <2> QED BY <2>2 DEF UpToSprite
<1>5. \A k \in 0..(N - 1) : \A c \in C(k) : c[2] < k + 1
  <2> TAKE k \in 0..(N - 1)
  <2>1. ASSUME NEW c \in OfPlane(s, 1, x, n) \cup OfPlane(s, 2, x, n) PROVE c[2] < k + 1
    <3>1. c[2] = 0
      BY <2>1, Ranks
    <3> QED BY <1>2, <3>1
  <2>2. ASSUME NEW j \in 1..k, NEW c \in OfSprite(s, j, x, n) PROVE c[2] < k + 1
    <3>1. c[2] = j
      BY Ranks
    <3> QED BY <1>2, <3>1
  <2> QED BY <2>1, <2>2 DEF UpToSprite
<1>6. ASSUME NEW k \in 0..(N - 1), Ordered(C(k))
      PROVE  Ordered(C(k + 1)) /\ Sprite(place(k), video.sprites[k + 1], x, s, n) = place(k + 1)
  <2> DEFINE B == C(k)
             i == k + 1
  <2>1. i \in 1..Len(video.sprites) /\ i - 1 = k
    BY <1>2
  <2>2. Ordered(B) /\ \A c \in B : c[2] < i
    BY <1>5, <1>6
  <2>3. C(i) = B \cup OfSprite(s, i, x, n)
    BY <1>4
  <2>4. place(k) = Placed(s, x, ground, i - 1, B)
    BY <2>1, Zenon
  <2> HIDE DEF i, B, C
  <2>5. Ordered(B \cup OfSprite(s, i, x, n))
    BY <2>1, <2>2, OneMoreSprite
  <2>6. Sprite(Placed(s, x, ground, i - 1, B), video.sprites[i], x, s, n) = Placed(s, x, ground, i, B \cup OfSprite(s, i, x, n))
    BY <2>1, <2>2, OneMoreSprite
  <2>7. Sprite(place(k), video.sprites[i], x, s, n) = place(i)
    BY <2>3, <2>4, <2>6
  <2> HIDE DEF place
  <2> QED BY <2>3, <2>5, <2>7 DEF i
<1> HIDE DEF C
<1>7. \A k \in 0..N : Ordered(C(k))
  <2> DEFINE T == {k \in 0..N : Ordered(C(k))}
  <2>1. 0 \in T
    <3>1. Ordered(C(0))
      BY <1>3, Zenon
    <3>2. 0 \in 0..N
      BY <1>2
    <3> QED BY <3>1, <3>2
  <2>2. ASSUME NEW k \in 0..(N - 1), k \in T PROVE k + 1 \in T
    <3>1. Ordered(C(k + 1))
      BY <1>6, <2>2
    <3> QED BY <1>2, <3>1
  <2> HIDE DEF T
  <2>3. \A k \in 0..N : k \in T
    BY <1>2, <2>1, <2>2, UpTo
  <2> QED BY <2>3 DEF T
<1>8. first = place(0)
  BY <1>2, <1>3 DEF Placed
<1>9. \A k \in 0..(N - 1) : Sprite(place(k), video.sprites[k + 1], x, s, n) = place(k + 1)
  <2> TAKE k \in 0..(N - 1)
  <2>1. Ordered(C(k))
    BY <1>2, <1>7
  <2> HIDE DEF place
  <2> QED BY <1>6, <2>1
<1> HIDE DEF place, first
<1>10. Is(known)
  <2> SUFFICES ASSUME NEW k \in 0..N
               PROVE  place(k) = IF k = 0 THEN first ELSE Sprite(known[k - 1], video.sprites[k], x, s, n)
    BY Zenon
  <2>1. CASE k = 0
    BY <1>8, <2>1
  <2>2. CASE k # 0
    <3>1. k - 1 \in 0..(N - 1) /\ k - 1 \in 0..N /\ (k - 1) + 1 = k
      BY <1>2, <2>2
    <3>2. known[k - 1] = place(k - 1)
      BY <3>1
    <3>3. Sprite(place(k - 1), video.sprites[(k - 1) + 1], x, s, n) = place((k - 1) + 1)
      BY <1>9, <3>1
    <3> QED BY <2>2, <3>1, <3>2, <3>3
  <2> QED BY <2>1, <2>2
<1> HIDE DEF known
<1>11. Is(drawn)
  BY <1>10, Zenon
<1> HIDE DEF drawn
<1>12. \A k \in 0..N : drawn[k] = known[k]
  <2> DEFINE T == {k \in 0..N : drawn[k] = known[k]}
  <2>1. 0 \in T
    <3>1. 0 \in 0..N
      BY <1>2
    <3> QED BY <1>10, <1>11, <3>1, Zenon
  <2>2. ASSUME NEW k \in 0..(N - 1), k \in T PROVE k + 1 \in T
    <3>1. k + 1 \in 0..N /\ (k + 1) - 1 = k /\ k + 1 # 0
      BY <1>2
    <3>2. /\ drawn[k + 1] = Sprite(drawn[k], video.sprites[k + 1], x, s, n)
          /\ known[k + 1] = Sprite(known[k], video.sprites[k + 1], x, s, n)
      BY <1>10, <1>11, <3>1, Zenon
    <3> QED BY <2>2, <3>1, <3>2
  <2> HIDE DEF T
  <2>3. \A k \in 0..N : k \in T
    BY <1>2, <2>1, <2>2, UpTo
  <2> QED BY <2>3 DEF T
<1>13. drawn[N].pixel = Best(s, x, ground, C(N))
  <2>1. N \in 0..N
    BY <1>2
  <2>2. drawn[N] = place(N)
    BY <1>12, <2>1 DEF known
  <2> QED BY <2>2 DEF place, Placed
<1>14. Ordered(C(N))
  BY <1>2, <1>7
<1> QED BY <1>1, <1>13, <1>14 DEF C

\* A line is composed of the frontmost pixels.
LEMMA LineComposed ==
  ASSUME Typed, NEW s, SettingsOK(s), NEW n \in Visible
  PROVE  draw_scanline(s, n) = Shown(s, n)
<1> DEFINE N == Len(video.sprites)
           all(x) == UpToSprite(s, x, n, N)
           none(x) == [colour |-> Ground(s, n, x), depth |-> 0]
           behind(x) == draw_scroll(none(x), x, s, IF s.planeSwap THEN 1 ELSE 2, 3, n)
           front(x) == draw_scroll(behind(x), x, s, IF s.planeSwap THEN 2 ELSE 1, 5, n)
           drawn(x) == IF InWindow(s, n) THEN draw_sprites(front(x), x, s, n).colour ELSE Ground(s, n, x)
           inside(x) == InWindow(s, n) /\ Inside(s, x)
           seen(x) == IF inside(x) /\ Front(all(x)) # {} THEN <<(CHOOSE c \in Front(all(x)) : TRUE)[3], s.negative>> ELSE Ground(s, n, x)
<1>1. draw_scanline(s, n) = [x \in Columns |-> drawn(x)]
  BY Zenon DEF draw_scanline
<1>2. video.sprites \in Seq(SpriteCells)
  BY DEF Typed
<1>3. \A x : Candidates(s, x, n) = all(x)
  <2>1. DOMAIN video.sprites = 1..N
    BY <1>2
  <2> QED BY <2>1 DEF Candidates, UpToSprite
<1>4. Shown(s, n) = [x \in Columns |-> seen(x)]
  <2>1. Shown(s, n) =
          [x \in Columns |->
             IF inside(x) /\ Front(Candidates(s, x, n)) # {}
             THEN <<(CHOOSE c \in Front(Candidates(s, x, n)) : TRUE)[3], s.negative>> ELSE Ground(s, n, x)]
    BY Zenon DEF Shown, Front, Inside
  <2>2. ASSUME NEW x \in Columns
        PROVE  seen(x) = IF inside(x) /\ Front(Candidates(s, x, n)) # {}
                         THEN <<(CHOOSE c \in Front(Candidates(s, x, n)) : TRUE)[3], s.negative>> ELSE Ground(s, n, x)
    <3>1. all(x) = Candidates(s, x, n)
      BY <1>3
    <3> HIDE DEF all, none, behind, front, drawn
    <3> QED BY <3>1
  <2> HIDE DEF seen
  <2> QED BY <2>1, <2>2, Zenon
<1>5. ASSUME NEW x \in Columns PROVE drawn(x) = seen(x)
  <2> DEFINE C == all(x)
             pixel == draw_sprites(front(x), x, s, n)
  <2>1. /\ Ordered(OfPlane(s, 1, x, n) \cup OfPlane(s, 2, x, n))
        /\ front(x) = Best(s, x, Ground(s, n, x), OfPlane(s, 1, x, n) \cup OfPlane(s, 2, x, n))
    BY PlanesDrawn
  <2> HIDE DEF front
  <2>2. Ordered(C) /\ pixel = IF Inside(s, x) THEN Pixel(s, Ground(s, n, x), C) ELSE none(x)
    <3> DEFINE g == Ground(s, n, x)
               l == front(x)
    <3>1. l = Best(s, x, g, OfPlane(s, 1, x, n) \cup OfPlane(s, 2, x, n))
      BY <2>1
    <3> HIDE DEF g, l, none, behind, drawn, inside, seen
    <3>2. Ordered(UpToSprite(s, x, n, Len(video.sprites)))
      BY <1>2, <2>1, <3>1, SpritesDrawn
    <3>3. draw_sprites(l, x, s, n) = Best(s, x, g, UpToSprite(s, x, n, Len(video.sprites)))
      BY <1>2, <2>1, <3>1, SpritesDrawn
    <3> QED BY <3>2, <3>3 DEF l, g, none, Best
  <2> HIDE DEF pixel, all
  <2>3. CASE inside(x) /\ C # {}
    <3>1. pixel = Pixel(s, Ground(s, n, x), C) /\ Front(C) # {}
      BY <2>2, <2>3 DEF Ordered
    <3>2. pixel.colour = <<(CHOOSE c \in Front(C) : TRUE)[3], s.negative>>
      BY <2>3, <3>1 DEF Pixel
    <3> QED BY <2>3, <3>1, <3>2 DEF pixel
  <2>4. CASE inside(x) /\ C = {}
    <3>1. pixel.colour = Ground(s, n, x) /\ Front(C) = {}
      BY <2>2, <2>4 DEF Pixel, Front
    <3> QED BY <2>4, <3>1 DEF pixel
  <2>5. CASE ~inside(x)
    BY <2>2, <2>5 DEF pixel
  <2> QED BY <2>3, <2>4, <2>5
<1> HIDE DEF drawn, seen
<1> QED BY <1>1, <1>4, <1>5

-----------------------------------------------------------------------------
(* What the registers and the memory hold. *)

LEMMA Starts == \A mono : \A r \in Places : ResetRegs[r] \in Coordinate /\ Started(mono)[r] \in Coordinate
<1>1. 0 \in Coordinate /\ LineLimit - 1 \in Coordinate
  BY Bounds DEF Coordinate
<1>2. ASSUME NEW mono, NEW r \in Places PROVE ResetRegs[r] \in Coordinate /\ Started(mono)[r] \in Coordinate
  <2>1. ResetRegs[r] = 0 \/ ResetRegs[r] = LineLimit - 1
    <3>1. /\ ResetRegs["WBA_H"] = 0 /\ ResetRegs["WBA_V"] = 0
          /\ ResetRegs["WSI_H"] = LineLimit - 1 /\ ResetRegs["WSI_V"] = LineLimit - 1
          /\ ResetRegs["S1SO_H"] = 0 /\ ResetRegs["S1SO_V"] = 0 /\ ResetRegs["S2SO_H"] = 0 /\ ResetRegs["S2SO_V"] = 0
          /\ ResetRegs["PO_H"] = 0 /\ ResetRegs["PO_V"] = 0
      BY DEF ResetRegs
    <3> QED BY <3>1, Zenon DEF Places
  <2>2. Started(mono)[r] = ResetRegs[r]
    <3>1. r # "BG_COL" /\ r # "K2GE_MODE" /\ r \in DOMAIN ResetRegs
      BY DEF Places, ResetRegs
    <3> QED BY <3>1 DEF Started
  <2> QED BY <1>1, <2>1, <2>2
<1> QED BY <1>2

LEMMA StartedTyped ==
  ASSUME NEW mono
  PROVE  DOMAIN Started(mono) = DOMAIN ResetRegs /\ Started(mono).P_F \in BOOLEAN
BY DEF Started, ResetRegs

LEMMA PlacesAreRegs == Places \subseteq DOMAIN ResetRegs /\ "P_F" \in DOMAIN ResetRegs
BY DEF Places, ResetRegs

LEMMA TypedInit == DrawingInit => Typed
<1> SUFFICES ASSUME DrawingInit PROVE Typed
  OBVIOUS
<1>1. program \in Programs /\ todo = program.writes /\ video = program.first /\ shown = ResetSettings
  BY DEF DrawingInit
<1>2. regs = [r \in DOMAIN ResetRegs |-> IF r \in DOMAIN program.regs THEN program.regs[r] ELSE Started(program.mono)[r]]
  BY DEF DrawingInit
<1>3. /\ program.first.sprites \in Seq(SpriteCells)
      /\ \A r \in Places \cap DOMAIN program.regs : program.regs[r] \in Coordinate
      /\ "P_F" \in DOMAIN program.regs => program.regs.P_F \in BOOLEAN
  BY <1>1, ProgramsAssumption
<1>4. \A r \in Places : regs[r] \in Coordinate
  BY <1>2, <1>3, Starts, PlacesAreRegs
<1>5. regs.P_F \in BOOLEAN
  <2>1. regs["P_F"] = IF "P_F" \in DOMAIN program.regs THEN program.regs["P_F"] ELSE Started(program.mono)["P_F"]
    BY <1>2, PlacesAreRegs
  <2> QED BY <1>3, <2>1, StartedTyped
<1>6. SettingsOK(ResetSettings)
  <2>1. 0 \in Coordinate /\ LineLimit - 1 \in Coordinate
    BY Bounds DEF Coordinate
  <2> QED BY <2>1 DEF SettingsOK, ResetSettings
<1> QED BY <1>1, <1>2, <1>3, <1>4, <1>5, <1>6 DEF Typed

LEMMA DelayedTyped ==
  ASSUME Typed
  PROVE  SettingsOK(DelayedSettings)
<1>1. \A r \in Places : regs[r] \in Coordinate
  BY DEF Typed
<1>2. /\ regs.WBA_H \in Coordinate /\ regs.WBA_V \in Coordinate /\ regs.WSI_H \in Coordinate /\ regs.WSI_V \in Coordinate
      /\ regs.S1SO_H \in Coordinate /\ regs.S1SO_V \in Coordinate /\ regs.S2SO_H \in Coordinate /\ regs.S2SO_V \in Coordinate
      /\ regs.PO_H \in Coordinate /\ regs.PO_V \in Coordinate /\ regs.P_F \in BOOLEAN
  BY <1>1 DEF Places, Typed
<1>3. /\ DelayedSettings.winx = regs.WBA_H /\ DelayedSettings.winy = regs.WBA_V
      /\ DelayedSettings.winw = regs.WSI_H /\ DelayedSettings.winh = regs.WSI_V
      /\ DelayedSettings.scrollsprx = regs.PO_H /\ DelayedSettings.scrollspry = regs.PO_V
      /\ DelayedSettings.planeSwap = regs.P_F
      /\ DelayedSettings.scrollx = <<regs.S1SO_H, regs.S2SO_H>> /\ DelayedSettings.scrolly = <<regs.S1SO_V, regs.S2SO_V>>
  BY DEF DelayedSettings, Scroll2
<1> HIDE DEF DelayedSettings
<1> QED BY <1>2, <1>3 DEF SettingsOK

LEMMA ClearedTyped ==
  ASSUME NEW v, v.sprites \in Seq(SpriteCells)
  PROVE  Cleared(v).sprites \in Seq(SpriteCells)
<1> DEFINE sprite == [tile |-> 0, hflip |-> FALSE, vflip |-> FALSE, pal |-> 0, hi |-> FALSE,
                      x |-> 0, y |-> 0, priority |-> 0, xchain |-> FALSE, ychain |-> FALSE]
<1>1. 0 \in Coordinate /\ 0 \in 0..3 /\ 0 \in Nat
  BY Bounds DEF Coordinate
<1>2. sprite \in SpriteCells
  BY <1>1 DEF SpriteCells
<1>3. Cleared(v).sprites = [k \in DOMAIN v.sprites |-> sprite]
  BY DEF Cleared
<1> HIDE DEF sprite
<1>4. DOMAIN v.sprites = 1..Len(v.sprites) /\ Len(v.sprites) \in Nat
  OBVIOUS
<1> QED BY <1>2, <1>3, <1>4

LEMMA TypedStep ==
  ASSUME Typed, [DrawingNext]_<<vars, drawingVars>>
  PROVE  Typed'
<1>1. ASSUME UNCHANGED <<program, regs, video>>, todo' \subseteq todo, shown' = shown \/ shown' = DelayedSettings
      PROVE  Typed'
  <2>1. SettingsOK(shown')
    BY <1>1, DelayedTyped DEF Typed
  <2>2. SettingsOK(shown)'
    BY <2>1 DEF SettingsOK
  <2> QED BY <1>1, <2>2 DEF Typed
<1>2. ASSUME NEW w \in todo, Write(w) PROVE Typed'
  <2>1. /\ program' = program /\ shown' = shown /\ todo' = todo \ {w}
        /\ regs' = [r \in DOMAIN regs |-> IF r \in DOMAIN w THEN w[r] ELSE regs[r]]
        /\ video' = IF "video" \in DOMAIN w THEN w.video ELSE video
    BY <1>2 DEF Write
  <2>2. w \in program.writes /\ program \in Programs
    BY DEF Typed
  <2>3. /\ "video" \in DOMAIN w => w.video.sprites \in Seq(SpriteCells)
        /\ \A r \in Places \cap DOMAIN w : w[r] \in Coordinate
        /\ "P_F" \in DOMAIN w => w.P_F \in BOOLEAN
    BY <2>2, ProgramsAssumption
  <2>4. DOMAIN regs' = DOMAIN ResetRegs /\ \A r \in Places : regs'[r] \in Coordinate
    BY <2>1, <2>3, PlacesAreRegs DEF Typed
  <2>5. regs'.P_F \in BOOLEAN
    <3>1. regs'["P_F"] = IF "P_F" \in DOMAIN w THEN w["P_F"] ELSE regs["P_F"]
      BY <2>1, PlacesAreRegs DEF Typed
    <3> QED BY <2>3, <3>1 DEF Typed
  <2>6. video'.sprites \in Seq(SpriteCells)
    BY <2>1, <2>3 DEF Typed
  <2>7. SettingsOK(shown)'
    BY <2>1 DEF SettingsOK, Typed
  <2>8. program' \in Programs /\ todo' \subseteq program'.writes
    BY <2>1 DEF Typed
  <2> QED BY <2>4, <2>5, <2>6, <2>7, <2>8 DEF Typed
<1>3. ASSUME DrawReset PROVE Typed'
  <2>1. program' = program /\ todo' = todo /\ regs' = Started(program.mono) /\ shown' = ResetSettings /\ video' = Cleared(video)
    BY <1>3 DEF DrawReset
  <2>2. DOMAIN regs' = DOMAIN ResetRegs /\ (\A r \in Places : regs'[r] \in Coordinate) /\ regs'.P_F \in BOOLEAN
    BY <2>1, Starts, StartedTyped
  <2>3. video'.sprites \in Seq(SpriteCells)
    BY <2>1, ClearedTyped DEF Typed
  <2>4. SettingsOK(ResetSettings)
    <3>1. 0 \in Coordinate /\ LineLimit - 1 \in Coordinate
      BY Bounds DEF Coordinate
    <3> QED BY <3>1 DEF SettingsOK, ResetSettings
  <2>5. SettingsOK(shown)'
    BY <2>1, <2>4 DEF SettingsOK
  <2> QED BY <2>1, <2>2, <2>3, <2>5 DEF Typed
<1>4. ASSUME NEW t \in 1..MaxTick, DrawEndOfLine(t) PROVE Typed'
  BY <1>1, <1>4 DEF DrawEndOfLine
<1>5. ASSUME Same PROVE Typed'
  BY <1>1, <1>5 DEF Same
<1>6. ASSUME UNCHANGED <<vars, drawingVars>> PROVE Typed'
  BY <1>1, <1>6 DEF drawingVars
<1> QED BY <1>2, <1>3, <1>4, <1>5, <1>6 DEF DrawingNext, DrawTick

\* The end of a visible line puts it on the surface.
LEMMA DrawnAsShown ==
  ASSUME Typed, NEW t \in 1..MaxTick, DrawEndOfLine(t), raster_line \in Visible
  PROVE  surface' = [surface EXCEPT ![raster_line] = Shown(shown', raster_line)]
<1>1. SettingsOK(shown')
  BY DelayedTyped DEF DrawEndOfLine, Typed
<1>2. draw_scanline(shown', raster_line) = Shown(shown', raster_line)
  BY <1>1, LineComposed
<1> QED BY <1>2 DEF DrawEndOfLine

\* Only the end of a line puts anything on the surface.
LEMMA ComposedStep ==
  ASSUME Typed, [DrawingNext]_<<vars, drawingVars>>
  PROVE  [Composed]_<<vars, drawingVars>>
<1> SUFFICES ASSUME DrawingNext, raster_line' # raster_line, raster_line \in Visible, ~Reset
             PROVE  surface' = [surface EXCEPT ![raster_line] = Shown(shown', raster_line)]
  BY Zenon DEF Composed
<1>1. PICK t \in 1..MaxTick : DrawEndOfLine(t)
  BY DEF DrawingNext, DrawTick, WithinLine, StartFrame, WritePeriod, WriteControl, DrawReset, Write
<1> QED BY <1>1, DrawnAsShown

(* Every line that is drawn shows in each column of the window the         *)
(* frontmost opaque pixel, for any size of tiles and screen, any contents  *)
(* of the video memory, any number of sprites, chains, scrolling and       *)
(* windows, in both modes (drawColourPattern, MonoPlot, the sprite loops   *)
(* of draw_scanline_colour and draw_scanline_mono).                        *)
THEOREM FrontmostIsShown == DrawingSpec => FrontmostWins
<1>1. DrawingInit => Typed
  BY TypedInit
<1>2. Typed /\ [DrawingNext]_<<vars, drawingVars>> => Typed'
  BY TypedStep
<1>3. Typed /\ [DrawingNext]_<<vars, drawingVars>> =>
        [raster_line' # raster_line /\ raster_line \in Visible /\ ~Reset =>
           surface' = [surface EXCEPT ![raster_line] = Shown(shown', raster_line)]]_<<vars, drawingVars>>
  BY ComposedStep DEF Composed
<1> QED BY <1>1, <1>2, <1>3, PTL DEF DrawingSpec, FrontmostWins

-----------------------------------------------------------------------------
(* The picture.  With one frame complete since the last write, the lines    *)
(* above the one being drawn have been drawn since, with settings taken    *)
(* since: each but the last visible one takes them itself, and that one    *)
(* has those of the line before.  The frame that is completed next has     *)
(* therefore been drawn as a whole, and later lines are drawn the same.    *)
Fresh(n) == surface[n] = Shown(AsWritten, n)
Settled ==
  /\ DOMAIN surface = Visible /\ calm \in 0..2
  /\ calm = 1 /\ raster_line \in 1..(SCREEN_HEIGHT - 1) => shown = AsWritten
  /\ calm = 1 /\ raster_line < SCREEN_HEIGHT => \A n \in Visible : n < raster_line => Fresh(n)
  /\ calm = 2 => shown = AsWritten /\ \A n \in Visible : Fresh(n)

LEMMA ShownStays ==
  ASSUME UNCHANGED <<regs, video>>, NEW n
  PROVE  Shown(AsWritten, n)' = Shown(AsWritten, n)
<1>1. AsWritten' = AsWritten
  BY DEF AsWritten
<1> QED
  BY <1>1 DEF Shown, Candidates, OfPlane, OfSprite, Candidate, Index, Position, Ground, BorderEnd, InWindow, WindowEnd

LEMMA LineDrawn ==
  ASSUME Inv, Typed, Settled, NEW t \in 1..MaxTick, DrawEndOfLine(t)
  PROVE  Settled'
<1> USE RasterAssumption
<1> DEFINE r == raster_line
<1>1. /\ r \in Nat /\ calm \in 0..2 /\ SCREEN_HEIGHT \in Nat /\ 1 < SCREEN_HEIGHT
      /\ Blanks <=> r + 1 = SCREEN_HEIGHT
  BY NextLineCounts, LineEnds DEF Settled
<1>2. /\ raster_line' = (IF Wraps THEN 0 ELSE NextLine) /\ calm' = (IF Blanks /\ calm < 2 THEN calm + 1 ELSE calm)
      /\ shown' = (IF TakesSettings THEN DelayedSettings ELSE shown)
      /\ UNCHANGED <<regs, video>>
  BY Zenon DEF DrawEndOfLine, EndOfLine
<1>3. raster_line' \in {0, r + 1}
  BY <1>2, NextLineCounts
<1>4. DelayedSettings = AsWritten /\ AsWritten' = AsWritten
  BY <1>2 DEF DelayedSettings, AsWritten, Scroll2
<1>5. calm' \in 0..2
  BY <1>1, <1>2
<1>6. /\ DOMAIN surface' = Visible
      /\ \A n \in Visible : n # r => surface'[n] = surface[n]
      /\ r \in Visible => surface'[r] = Shown(shown', r)
  <2>1. CASE r \in Visible
    BY <2>1, DrawnAsShown DEF Settled
  <2>2. CASE r \notin Visible
    <3>1. surface' = surface
      BY <2>2, Zenon DEF DrawEndOfLine
    <3> QED BY <2>2, <3>1 DEF Settled
  <2> QED BY <2>1, <2>2
<1>7. \A n : Shown(AsWritten, n)' = Shown(AsWritten, n)
  BY <1>2, ShownStays
<1>8. ASSUME NEW n \in Visible, n # r, Fresh(n) PROVE Fresh(n)'
  BY <1>6, <1>7, <1>8 DEF Fresh
<1>9. ASSUME shown' = AsWritten, NEW n \in Visible, n = r PROVE Fresh(n)'
  <2>1. surface'[n] = Shown(AsWritten, n)
    BY <1>6, <1>9
  <2> QED BY <1>7, <2>1 DEF Fresh
\* A visible line but the last takes the settings itself, the last has them from the line before.
<1>10. r < SCREEN_HEIGHT - 1 => shown' = AsWritten
  BY <1>2, <1>4 DEF TakesSettings
<1>11. shown = AsWritten => shown' = AsWritten
  BY <1>2, <1>4
<1>12. calm = 1 /\ r < SCREEN_HEIGHT => shown' = AsWritten
  <2>1. calm = 1 /\ r \in 1..(SCREEN_HEIGHT - 1) => shown = AsWritten
    BY DEF Settled
  <2> QED BY <1>1, <1>10, <1>11, <2>1
<1>13. calm = 1 /\ r < SCREEN_HEIGHT => \A n \in Visible : n <= r => Fresh(n)'
  <2> SUFFICES ASSUME calm = 1, r < SCREEN_HEIGHT, NEW n \in Visible, n <= r PROVE Fresh(n)'
    OBVIOUS
  <2>1. CASE n = r
    BY <1>9, <1>12, <2>1
  <2>2. CASE n # r
    <3>1. n < r
      BY <1>1, <2>2 DEF Visible
    <3> QED BY <1>8, <2>2, <3>1 DEF Settled
  <2> QED BY <2>1, <2>2
<1>14. calm' = 2 => shown' = AsWritten /\ \A n \in Visible : Fresh(n)'
  <2>1. CASE calm = 2
    <3>1. shown' = AsWritten /\ \A n \in Visible : Fresh(n)
      BY <1>11, <2>1 DEF Settled
    <3>2. \A n \in Visible : Fresh(n)'
      BY <1>8, <1>9, <3>1
    <3> QED BY <3>1, <3>2
  <2>2. CASE calm # 2 /\ calm' = 2
    <3>1. calm = 1 /\ r = SCREEN_HEIGHT - 1
      BY <1>1, <1>2, <2>2
    <3>2. \A n \in Visible : n <= r
      BY <1>1, <3>1 DEF Visible
    <3> QED BY <1>1, <1>12, <1>13, <3>1, <3>2
  <2> QED BY <2>1, <2>2
<1>15. calm' = 1 /\ raster_line' \in 1..(SCREEN_HEIGHT - 1) => calm = 1 /\ r < SCREEN_HEIGHT - 1 /\ raster_line' = r + 1
  <2> SUFFICES ASSUME calm' = 1, raster_line' \in 1..(SCREEN_HEIGHT - 1)
               PROVE  calm = 1 /\ r < SCREEN_HEIGHT - 1 /\ raster_line' = r + 1
    OBVIOUS
  <2>1. raster_line' = r + 1 /\ r < SCREEN_HEIGHT - 1
    BY <1>1, <1>3
  <2>2. ~Blanks
    BY <1>1, <2>1
  <2> QED BY <1>2, <2>1, <2>2
<1>16. calm' = 1 /\ raster_line' \in 1..(SCREEN_HEIGHT - 1) => shown' = AsWritten
  BY <1>10, <1>15
<1>17. calm' = 1 /\ raster_line' < SCREEN_HEIGHT => \A n \in Visible : n < raster_line' => Fresh(n)'
  <2> SUFFICES ASSUME calm' = 1, raster_line' < SCREEN_HEIGHT, NEW n \in Visible, n < raster_line' PROVE Fresh(n)'
    OBVIOUS
  <2>1. n \in Nat /\ raster_line' \in 1..(SCREEN_HEIGHT - 1)
    BY <1>1, <1>3 DEF Visible
  <2>2. calm = 1 /\ r < SCREEN_HEIGHT /\ n <= r
    BY <1>1, <1>15, <2>1
  <2> QED BY <1>13, <2>2
<1>18. Visible' = Visible
  BY DEF Visible
<1> HIDE DEF r
<1> QED BY <1>4, <1>5, <1>6, <1>14, <1>16, <1>17, <1>18 DEF Settled

LEMMA StillSettled ==
  ASSUME Settled, raster_line' = raster_line, Same
  PROVE  Settled'
<1>1. \A n : Shown(AsWritten, n)' = Shown(AsWritten, n)
  BY ShownStays DEF Same
<1>2. AsWritten' = AsWritten
  BY DEF Same, AsWritten
<1>3. \A n : Fresh(n)' <=> Fresh(n)
  BY <1>1 DEF Fresh, Same
<1>4. DOMAIN surface' = DOMAIN surface /\ calm' = calm /\ shown' = shown /\ Visible' = Visible
  BY DEF Same, Visible
<1> QED BY <1>2, <1>3, <1>4 DEF Settled

\* Nothing is promised right after a write.
LEMMA WrittenSettled ==
  ASSUME Settled, Written, UNCHANGED surface
  PROVE  Settled'
<1>1. DOMAIN surface' = Visible' /\ Visible' = Visible
  BY DEF Settled, Visible
<1> QED BY <1>1 DEF Settled, Written

LEMMA SettledInit == DrawingInit => Settled
<1> SUFFICES ASSUME DrawingInit PROVE Settled
  OBVIOUS
<1>1. calm = 0 /\ DOMAIN surface = Visible
  BY DEF DrawingInit
<1> QED BY <1>1 DEF Settled

\* The scanline clock does not notice what is drawn.
LEMMA DrawingSteps ==
  ASSUME Inv, [DrawingNext]_<<vars, drawingVars>>
  PROVE  [Next]_vars
<1>1. ASSUME NEW w \in todo, Write(w) PROVE Next
  <2>1. WriteControl(CONTROL_INT)
    BY <1>1 DEF Write, WriteControl
  <2>2. CONTROL_INT \in SUBSET {"vblank", "hblank"}
    BY DEF Inv, TypeOK
  <2> QED BY <2>1, <2>2 DEF Next
<1>2. CASE DrawTick
  BY <1>2 DEF DrawTick, DrawEndOfLine, Next, Tick
<1> QED BY <1>1, <1>2 DEF DrawingNext, DrawReset, Next

LEMMA SettledStep ==
  ASSUME Inv, Typed, Settled, [DrawingNext]_<<vars, drawingVars>>
  PROVE  Settled'
<1>1. ASSUME NEW t \in 1..MaxTick, DrawEndOfLine(t) PROVE Settled'
  BY <1>1, LineDrawn
<1>2. ASSUME NEW t \in 1..MaxTick, WithinLine(t) /\ Same PROVE Settled'
  BY <1>2, StillSettled DEF WithinLine
<1>3. CASE StartFrame /\ Same
  BY <1>3, StillSettled DEF StartFrame
<1>4. ASSUME NEW p \in Periods, WritePeriod(p) /\ Same PROVE Settled'
  BY <1>4, StillSettled DEF WritePeriod
<1>5. ASSUME NEW S \in SUBSET {"vblank", "hblank"}, WriteControl(S) /\ Same PROVE Settled'
  BY <1>5, StillSettled DEF WriteControl
<1>6. CASE DrawReset
  BY <1>6, WrittenSettled DEF DrawReset
<1>7. ASSUME NEW w \in todo, Write(w) PROVE Settled'
  BY <1>7, WrittenSettled DEF Write
<1>8. CASE UNCHANGED <<vars, drawingVars>>
  BY <1>8, StillSettled DEF vars, drawingVars, Same
<1> QED BY <1>1, <1>2, <1>3, <1>4, <1>5, <1>6, <1>7, <1>8 DEF DrawingNext, DrawTick

(* The screen shows what the registers say once two frames are complete    *)
(* since the last write, for any size of the screen, any bytes written to  *)
(* the length of the field and any program: neither the delayed copy of    *)
(* the settings, nor the last visible line, which does not take it, nor    *)
(* fields that are too short or whose end is missed keep an old setting on *)
(* the screen (ngpgfx_hint, ngpgfx_draw, ngpgfx_delayed_settings).         *)
THEOREM PictureIsWritten == DrawingSpec => []WrittenIsShown
<1>1. DrawingInit => Inv /\ Settled /\ Typed
  BY Initial, SettledInit, TypedInit DEF DrawingInit
<1>2. Inv /\ Settled /\ Typed /\ [DrawingNext]_<<vars, drawingVars>> => Inv' /\ Settled' /\ Typed'
  BY DrawingSteps, Step, SettledStep, TypedStep
<1>3. Settled => WrittenIsShown
  BY DEF Settled, Fresh, WrittenIsShown
<1> QED BY <1>1, <1>2, <1>3, PTL DEF DrawingSpec
=============================================================================
