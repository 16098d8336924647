------------------------------- MODULE Raster -------------------------------
(***************************************************************************)
(* The scanline clock and the frame loop: the first half of updateTimers()  *)
(* (mednafen/ngp/interrupt.c), ngpgfx_hint() and ngpgfx_draw() (gfx.c), and *)
(* Emulate() (libretro.c), which runs instructions until a call of         *)
(* updateTimers() says that a frame is complete.                           *)
(*                                                                         *)
(* The program sets how many lines a field has (SCREEN_PERIOD) at any time, *)
(* to any byte.  The field ends on the line that is equal to it: behind    *)
(* the counter it is missed, and the counter runs on to its limit; at the  *)
(* limit it is never met; above the last visible line the frame loop, which *)
(* ends only when the counter passes that line, goes on.                   *)
(***************************************************************************)
EXTENDS Integers

CONSTANTS
  HINT_RATE,      \* CPU ticks of a scanline
  MaxTick,        \* ticks of the longest instruction
  SCREEN_HEIGHT,  \* visible lines
  LineLimit,      \* raster_line and SCREEN_PERIOD are below this (2^8)
  Periods,        \* values the program writes to SCREEN_PERIOD
  ResetPeriod     \* the one a reset leaves (0xC6)

ASSUME RasterAssumption ==
  /\ HINT_RATE \in Nat /\ MaxTick \in 1..HINT_RATE
  /\ SCREEN_HEIGHT \in Nat \ {0, 1} /\ LineLimit \in Nat
  /\ SCREEN_HEIGHT + 1 < LineLimit
  /\ Periods \subseteq 0..(LineLimit - 1)
  /\ ResetPeriod \in Periods

VARIABLES
  timer_hint,     \* ticks since the last scanline
  raster_line,    \* the line being drawn
  SCREEN_PERIOD,  \* number of the last line of a field
  BLNK,           \* vertical blank flag of the status register
  CONTROL_INT,    \* which of "vblank" and "hblank" may interrupt
  emulating,      \* inside Emulate()
  hint,           \* what the last tick asked for: set of "hblank", "vblank"
  copies,         \* history: times the delayed settings were taken this field
  astray          \* history: the counter came round at its limit, and no field has ended since

vars == <<timer_hint, raster_line, SCREEN_PERIOD, BLNK, CONTROL_INT, emulating, hint, copies, astray>>

TypeOK ==
  /\ timer_hint \in 0..(HINT_RATE - 1)
  /\ raster_line \in 0..(LineLimit - 1)
  /\ SCREEN_PERIOD \in 0..(LineLimit - 1)
  /\ BLNK \in BOOLEAN
  /\ CONTROL_INT \subseteq {"vblank", "hblank"}
  /\ emulating \in BOOLEAN
  /\ hint \subseteq {"vblank", "hblank"}
  /\ copies \in Nat
  /\ astray \in BOOLEAN

-----------------------------------------------------------------------------

Init ==
  /\ timer_hint = 0 /\ raster_line = 0 /\ BLNK = FALSE
  /\ SCREEN_PERIOD = ResetPeriod
  /\ CONTROL_INT = {"vblank", "hblank"}
  /\ emulating = FALSE /\ hint = {} /\ copies = 0 /\ astray = FALSE

(* Fault: one line too many. *)
TakesSettingsPastScreen == raster_line < SCREEN_HEIGHT \/ raster_line = SCREEN_PERIOD

(* ngpgfx_hint(): lines on which the delayed settings are taken over and   *)
(* the H-interrupt is raised.                                              *)
TakesSettings == raster_line < SCREEN_HEIGHT - 1 \/ raster_line = SCREEN_PERIOD

NextLine == (raster_line + 1) % LineLimit      \* a byte

(* Faults: the screen ends a line late, the field a line early.            *)
BlanksLate == NextLine = SCREEN_HEIGHT + 1
WrapsEarly == NextLine = SCREEN_PERIOD

Blanks == NextLine = SCREEN_HEIGHT             \* the frame is complete
Wraps == NextLine = SCREEN_PERIOD + 1          \* the field is complete; the sum is an int
HintAfterLine(t) == timer_hint + t - HINT_RATE

(* updateTimers() at the end of a scanline: ngpgfx_hint(), ngpgfx_draw(). *)
EndOfLine(t) ==
  /\ emulating
  /\ timer_hint + t >= HINT_RATE
  /\ timer_hint' = HintAfterLine(t)
  /\ hint' = CONTROL_INT \cap ((IF TakesSettings THEN {"hblank"} ELSE {})
                               \cup (IF Blanks THEN {"vblank"} ELSE {}))
  /\ copies' = (IF raster_line = 0 THEN 0 ELSE copies) + (IF TakesSettings THEN 1 ELSE 0)
  /\ raster_line' = IF Wraps THEN 0 ELSE NextLine
  /\ BLNK' = (~Wraps /\ (Blanks \/ BLNK))
  /\ astray' = (~Wraps /\ (NextLine = 0 \/ astray))
  /\ emulating' = ~Blanks
  /\ UNCHANGED <<SCREEN_PERIOD, CONTROL_INT>>

(* updateTimers() within a scanline. *)
WithinLine(t) ==
  /\ emulating
  /\ timer_hint + t < HINT_RATE
  /\ timer_hint' = timer_hint + t
  /\ hint' = {}
  /\ UNCHANGED <<raster_line, SCREEN_PERIOD, BLNK, CONTROL_INT, emulating, copies, astray>>

(* retro_run() calls Emulate() for the next frame. *)
StartFrame ==
  /\ ~emulating
  /\ emulating' = TRUE
  /\ hint' = {}
  /\ UNCHANGED <<timer_hint, raster_line, SCREEN_PERIOD, BLNK, CONTROL_INT, copies, astray>>

(* ngpgfx_write8(0x8006): on any line, whatever the line. *)
WritePeriod(p) ==
  /\ emulating
  /\ SCREEN_PERIOD' = p
  /\ hint' = {}
  /\ UNCHANGED <<timer_hint, raster_line, BLNK, CONTROL_INT, emulating, copies, astray>>

(* ngpgfx_write8(0x8000) *)
WriteControl(S) ==
  /\ emulating
  /\ CONTROL_INT' = S
  /\ hint' = {}
  /\ UNCHANGED <<timer_hint, raster_line, SCREEN_PERIOD, BLNK, emulating, copies, astray>>

(* neopop_reset(), by the host between frames or by the program (0x87E0):  *)
(* ngpgfx_power(), reset_timers(), and reset_memory() writes 0x8000, 0x8006. *)
Reset ==
  /\ timer_hint' = 0 /\ raster_line' = 0 /\ BLNK' = FALSE
  /\ SCREEN_PERIOD' = ResetPeriod
  /\ CONTROL_INT' = {"vblank", "hblank"}
  /\ hint' = {} /\ copies' = 0 /\ astray' = FALSE
  /\ UNCHANGED emulating

Tick == \E t \in 1..MaxTick : WithinLine(t) \/ EndOfLine(t)

Next ==
  \/ Tick
  \/ StartFrame
  \/ \E p \in Periods : WritePeriod(p)
  \/ \E S \in SUBSET {"vblank", "hblank"} : WriteControl(S)
  \/ Reset

(* Emulate() keeps running instructions; when the host runs the next frame *)
(* is its own affair.                                                      *)
Spec == Init /\ [][Next]_vars /\ WF_vars(Tick)

-----------------------------------------------------------------------------

(* The blank flag programs poll is set on every line below the screen and  *)
(* on no visible one, whatever they write to the length of the field and   *)
(* when, but for one case: the end of the field was missed and the counter *)
(* came round by itself.  Then the flag stays set over visible lines, and  *)
(* no longer than to the next end of a field (ngpgfx_draw).                *)
BlankMatchesLine == BLNK <=> raster_line >= SCREEN_HEIGHT \/ astray

VisibleLinesTo(last) == IF last < SCREEN_HEIGHT THEN last + 1 ELSE SCREEN_HEIGHT

(* Every field that is not cut short by a reset takes over the delayed      *)
(* settings, and raises the H-interrupt that clocks timer 0, once for each *)
(* visible line it has, however its length is rewritten on the way; once   *)
(* less if it ran past its end to the limit of the counter (ngpgfx_hint).  *)
SettingsOncePerLine ==
  [][raster_line # 0 /\ raster_line' = 0 /\ ~Reset =>
       copies' = VisibleLinesTo(raster_line) - (IF raster_line = SCREEN_PERIOD THEN 0 ELSE 1)]_vars

(* Emulate() returns, unless the program resets the machine again and again *)
(* or comes back again and again to a field that is shorter than the       *)
(* screen.  Lengths behind the line, lengths never met and lengths that    *)
(* change from line to line do not keep it from ending (libretro.c,        *)
(* Emulate; gfx.c, ngpgfx_draw).                                           *)
FrameEnds ==
  \/ []<><<Reset>>_vars
  \/ []<>(SCREEN_PERIOD < SCREEN_HEIGHT - 1)
  \/ emulating ~> ~emulating
=============================================================================
