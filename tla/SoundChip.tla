----------------------------- MODULE SoundChip -----------------------------
(***************************************************************************)
(* The T6W28 sound chip (mednafen/ngp/T6W28_Apu.cpp) and its time within a *)
(* frame (sound.cpp): three square waves and a noise, each with a volume   *)
(* on the left and on the right.  Nothing runs until a register is written *)
(* or the frame ends: then the oscillators catch up from last_time to now, *)
(* and add to the buffer by how much the level changes at which clock.     *)
(***************************************************************************)
EXTENDS Integers, Sequences

CONSTANTS
  LowUnit, HighUnit,  \* weights of the two parts of a period (16, 256)
  Audible,            \* 128
  NoisePeriods,       \* <<0x100, 0x200, 0x400>>
  ZeroPeriod,         \* 16
  ShifterBits,        \* 15
  MaxFrame,           \* processor ticks of the longest frame
  MaxTicks,           \* and of the longest step
  Squares,            \* the square waves (0..2)
  Tunes               \* programs: pairs of an address and a byte, written in this order

ASSUME ChipAssumption ==
  /\ LowUnit \in Nat /\ HighUnit \in Nat /\ Audible \in Nat
  /\ NoisePeriods \in [1..3 -> Nat] /\ ZeroPeriod \in Nat \ {0}
  /\ ShifterBits \in Nat \ {0, 1}
  /\ MaxFrame \in Nat /\ MaxTicks \in Nat
  /\ Tunes \subseteq Seq(Nat \X (0..255))

VARIABLES
  squares, noise,           \* the oscillators
  latch_left, latch_right,  \* the last byte with bit 7 set
  last_time,                \* how far the oscillators have run
  ngpc_soundTS,             \* processor ticks since the frame began
  schipenable,
  kept,                     \* a save state
  tune                      \* what the program has still to write

chipVars == <<squares, noise, latch_left, latch_right, last_time, ngpc_soundTS, schipenable, kept, tune>>

Now == ngpc_soundTS \div 2
Minus(v, w) == <<v[1] - w[1], v[2] - w[2]>>
Silent == <<0, 0>>
Opposite(v) == Minus(Silent, v)
Twice(v) == <<2 * v[1], 2 * v[2]>>

Period(o) == o.low * LowUnit + o.high * HighUnit
Signed(on, v) == IF on THEN v ELSE Opposite(v)

-----------------------------------------------------------------------------
(* A run returns the oscillator and what it added: pairs of a clock and a  *)
(* change of the level.                                                    *)

(* Faults: an edge on the way is left out; the level before the edges is    *)
(* remembered.                                                             *)
EdgesRoundedDown(first, end, p) == IF p = 0 \/ first >= end THEN 0 ELSE (end - first) \div p
LevelBefore(o, edges) == Signed(o.phase = 1, o.volume)

Edges(first, end, p) == IF p = 0 \/ first >= end THEN 0 ELSE (end - first + p - 1) \div p
LevelAfter(o, edges) == Signed((o.phase + edges) % 2 = 1, o.volume)

(* T6W28_Square::run(), whose silent half only counts the edges. *)
QuietSquare(o, time, end) ==
  LET p == Period(o)
      first == time + o.delay
      count == Edges(first, end, p)
  IN  [adds |-> <<<<time, Opposite(o.last)>>>>,
       osc |-> [o EXCEPT !.last = Silent, !.phase = (@ + count) % 2,
                         !.delay = IF p = 0 THEN 0 ELSE first + count * p - end]]
LoudSquare(o, time, end) ==
  LET p == Period(o)
      first == time + o.delay
      amp == Signed(o.phase = 1, o.volume)
      edges == CHOOSE n \in 0..(end - time) :
                 /\ first + n * p >= end
                 /\ \A m \in 0..(n - 1) : first + m * p < end
  IN  [adds |-> <<<<time, Minus(amp, o.last)>>>>
                  \o [k \in 1..edges |-> <<first + (k - 1) * p, Signed(k % 2 = 0, Twice(amp))>>],
       osc |-> [o EXCEPT !.last = LevelAfter(o, edges), !.phase = (@ + edges) % 2,
                         !.delay = first + edges * p - end]]
RunSquare(o, time, end) ==
  IF o.volume = Silent \/ Period(o) <= Audible THEN QuietSquare(o, time, end) ELSE LoudSquare(o, time, end)

(* T6W28_Noise::run() *)
NoisePeriod(o) ==
  LET p == IF o.select < 3 THEN NoisePeriods[o.select + 1] ELSE Period(o)
  IN  IF p = 0 THEN ZeroPeriod ELSE 2 * p
NewShifter == [k \in 1..ShifterBits |-> k = ShifterBits]
Shifted(o) == [o EXCEPT !.shifter = Append(Tail(@), IF o.tapped THEN @[1] # @[2] ELSE @[1])]
(* While time is before end: delta is what the next change of bit 0 adds.  *)
NoiseLoop(o, time, end) ==
  LET p == NoisePeriod(o)
      amp == Signed(~o.shifter[1], o.volume)
      n == CHOOSE n \in {0} \cup 1..(end - time) : time + n * p >= end /\ \A m \in 0..(n - 1) : time + m * p < end
      at[k \in 0..n] ==
        IF k = 0 THEN [osc |-> o, delta |-> Twice(amp), adds |-> <<>>]
        ELSE LET b == at[k - 1]
                 changed == b.osc.shifter[1] # b.osc.shifter[2]
                 delta == Signed(~changed, b.delta)
             IN  [osc |-> Shifted(b.osc), delta |-> delta,
                  adds |-> IF changed THEN Append(b.adds, <<time + (k - 1) * p, delta>>) ELSE b.adds]
  IN  [adds |-> at[n].adds,
       osc |-> [at[n].osc EXCEPT !.last = <<at[n].delta[1] \div 2, at[n].delta[2] \div 2>>,
                                 !.delay = time + n * p - end]]
RunNoise(o, time, end) ==
  LET amp == Signed(~o.shifter[1], o.volume)
      loop == NoiseLoop(o, IF o.volume = Silent THEN end ELSE time + o.delay, end)
  IN  [loop EXCEPT !.adds = <<<<time, Minus(amp, o.last)>>>> \o @]

(* run_until() *)
RunSquareUntil(i, end) == IF end > last_time THEN RunSquare(squares[i], last_time, end).osc ELSE squares[i]
RunNoiseUntil(end) == IF end > last_time THEN RunNoise(noise, last_time, end).osc ELSE noise
CaughtUp(end) == [squares |-> [i \in Squares |-> RunSquareUntil(i, end)], noise |-> RunNoiseUntil(end)]
Later(time) == IF time > last_time THEN time ELSE last_time

volumes == <<64, 50, 39, 31, 24, 19, 15, 12, 9, 7, 5, 4, 3, 2, 1, 0>>
Volume(data) == volumes[(data % 16) + 1]
Oscillator(latch) == (latch \div 32) % 4
OfVolume(latch) == (latch \div 16) % 2 = 1
\* A latched byte sets the lower part of a period, another one the upper part.
Digit(o, data) == IF data >= 128 THEN [o EXCEPT !.low = data % 16] ELSE [o EXCEPT !.high = data % 64]

write_data_left(data) ==
  LET run   == CaughtUp(Now)
      latch == IF data >= 128 THEN data ELSE latch_left
      k     == Oscillator(latch)
  IN  /\ schipenable
      /\ latch_left' = latch /\ last_time' = Later(Now)
      /\ squares' = IF k = 3 THEN run.squares
                    ELSE IF OfVolume(latch) THEN [run.squares EXCEPT ![k].volume[1] = Volume(data)]
                    ELSE [run.squares EXCEPT ![k] = Digit(@, data)]
      /\ noise' = IF k = 3 /\ OfVolume(latch) THEN [run.noise EXCEPT !.volume[1] = Volume(data)] ELSE run.noise
      /\ UNCHANGED <<latch_right, ngpc_soundTS, schipenable, kept>>

write_data_right(data) ==
  LET run   == CaughtUp(Now)
      latch == IF data >= 128 THEN data ELSE latch_right
      k     == Oscillator(latch)
  IN  /\ schipenable
      /\ latch_right' = latch /\ last_time' = Later(Now)
      /\ squares' = IF k # 3 /\ OfVolume(latch) THEN [run.squares EXCEPT ![k].volume[2] = Volume(data)]
                    ELSE run.squares
      /\ noise' = IF k = 3 /\ OfVolume(latch) THEN [run.noise EXCEPT !.volume[2] = Volume(data)]
                  ELSE IF k = 2 /\ ~OfVolume(latch) THEN Digit(run.noise, data)
                  ELSE IF k = 3 THEN [run.noise EXCEPT !.select = data % 4, !.tapped = (data \div 4) % 2 = 1,
                                                       !.shifter = NewShifter]
                  ELSE run.noise
      /\ UNCHANGED <<latch_left, ngpc_soundTS, schipenable, kept>>

-----------------------------------------------------------------------------
NewSquare == [volume |-> Silent, last |-> Silent, delay |-> 0, low |-> 0, high |-> 0, phase |-> 0]
\* T6W28_Noise::reset() keeps the period of its own.
NewNoise(o) ==
  [o EXCEPT !.volume = Silent, !.last = Silent, !.delay = 0, !.select = 0, !.tapped = TRUE, !.shifter = NewShifter]

ChipInit ==
  /\ squares = [i \in Squares |-> NewSquare]
  /\ noise = [volume |-> Silent, last |-> Silent, delay |-> 0, low |-> 0, high |-> 0, select |-> 0, tapped |-> TRUE,
              shifter |-> NewShifter]
  /\ latch_left = 0 /\ latch_right = 0 /\ last_time = 0 /\ ngpc_soundTS = 0
  /\ schipenable = FALSE /\ kept = <<>>
  /\ tune \in Tunes

(* MDFNNGPCSOUND_SetEnable(): turned off, the chip is reset. *)
SetEnable(set) ==
  /\ schipenable' = set
  /\ IF set THEN UNCHANGED <<squares, noise, latch_left, latch_right, last_time>>
     ELSE /\ squares' = [i \in Squares |-> NewSquare] /\ noise' = NewNoise(noise)
          /\ latch_left' = 0 /\ latch_right' = 0 /\ last_time' = 0
  /\ UNCHANGED <<ngpc_soundTS, kept>>

(* updateTimers() *)
Pass(t) ==
  /\ ngpc_soundTS' = ngpc_soundTS + t
  /\ UNCHANGED <<squares, noise, latch_left, latch_right, last_time, schipenable, kept>>

(* MDFNNGPCSOUND_Flush() at the end of Emulate(), and its next start. *)
Flush ==
  /\ squares' = CaughtUp(Now).squares /\ noise' = CaughtUp(Now).noise
  /\ last_time' = Later(Now) - Now /\ ngpc_soundTS' = 0
  /\ UNCHANGED <<latch_left, latch_right, schipenable, kept>>

(* MDFNNGPCSOUND_StateAction(): the levels added last are not in a state.  *)
Kept(o) == [o EXCEPT !.last = Silent]
SaveState ==
  /\ ngpc_soundTS = 0
  /\ kept' = [squares |-> [i \in Squares |-> Kept(squares[i])], noise |-> Kept(noise),
              latch_left |-> latch_left, latch_right |-> latch_right, schipenable |-> schipenable]
  /\ UNCHANGED <<squares, noise, latch_left, latch_right, last_time, ngpc_soundTS, schipenable>>
LoadState ==
  /\ ngpc_soundTS = 0 /\ kept # <<>>
  /\ squares' = [i \in Squares |-> [kept.squares[i] EXCEPT !.last = squares[i].last]]
  /\ noise' = [kept.noise EXCEPT !.last = noise.last]
  /\ latch_left' = kept.latch_left /\ latch_right' = kept.latch_right /\ schipenable' = kept.schipenable
  /\ UNCHANGED <<last_time, ngpc_soundTS, kept>>

(* storeB() to a port of the chip, by the main processor or the Z80; the   *)
(* chip takes nothing while it is off.  The addresses 0 and 1 stand for    *)
(* the player's save and load.                                             *)
Store ==
  /\ tune # <<>> /\ tune' = Tail(tune)
  /\ LET address == Head(tune)[1]
         data == Head(tune)[2]
     IN  \/ address = 161 /\ schipenable /\ write_data_left(data)
         \/ address = 160 /\ schipenable /\ write_data_right(data)
         \/ address \in {160, 161} /\ ~schipenable
            /\ UNCHANGED <<squares, noise, latch_left, latch_right, last_time, ngpc_soundTS, schipenable, kept>>
         \/ address = 184 /\ SetEnable(data = 85)
         \/ address = 0 /\ SaveState
         \/ address = 1 /\ LoadState

ChipNext ==
  \/ Store
  \/ \E t \in 1..MaxTicks : ngpc_soundTS + t <= MaxFrame /\ Pass(t) /\ UNCHANGED tune
  \/ Flush /\ UNCHANGED tune
ChipSpec == ChipInit /\ [][ChipNext]_chipVars

-----------------------------------------------------------------------------
(* Oscillators caught up with the present are those of ToneGenerator.      *)
Square(o) == [volume |-> o.volume, period |-> Period(o), delay |-> o.delay, phase |-> o.phase]
Noise(o) == [volume |-> o.volume, extra |-> Period(o), delay |-> o.delay, select |-> o.select, tapped |-> o.tapped,
             shifter |-> o.shifter]
Tones == INSTANCE ToneGenerator WITH
  clocks <- Now,
  squares <- [i \in Squares |-> Square(RunSquareUntil(i, Now))],
  noise <- Noise(RunNoiseUntil(Now)),
  kept <- IF kept = <<>> THEN <<>> ELSE <<[i \in Squares |-> Square(kept.squares[i])], Noise(kept.noise)>>

(* However writes cut the time into pieces, and over frames, mutes, resets *)
(* and save states, each oscillator is at every clock where one would be   *)
(* that runs clock by clock: catching up neither loses a part of a period  *)
(* nor an edge (T6W28_Square::run with the arithmetic of its silent half,  *)
(* T6W28_Noise::run, run_until, end_frame, save_state, load_state).        *)
RunsClockByClock == Tones!Spec

(* The changes a run adds to the buffer make up, at every clock, the level *)
(* of the oscillator at that clock, and the level it remembers for the     *)
(* next run is the one it left (last_amp_left, last_amp_right, the deltas  *)
(* of the loops).                                                          *)
Level(run, o, c) ==
  LET upto[k \in 0..Len(run.adds)] ==
        IF k = 0 THEN o.last
        ELSE IF run.adds[k][1] <= c THEN Minus(upto[k - 1], Opposite(run.adds[k][2])) ELSE upto[k - 1]
  IN  upto[Len(run.adds)]
Follows(run, o, At(_)) ==
  Now > last_time =>
    /\ \A c \in last_time..(Now - 1) : Level(run, o, c) = At(c - last_time + 1)
    /\ run.osc.last = Level(run, o, Now)
EdgesInTime ==
  /\ \A i \in Squares : Follows(RunSquare(squares[i], last_time, Now), squares[i],
                             LAMBDA n : Tones!SquareLevel(Tones!After(Tones!SquareClock, Square(squares[i]), n)))
  /\ Follows(RunNoise(noise, last_time, Now), noise,
             LAMBDA n : Tones!NoiseLevel(Tones!After(Tones!NoiseClock, Noise(noise), n)))
=============================================================================
