--------------------------- MODULE ToneGenerator ---------------------------
(***************************************************************************)
(* What the sound chip promises: its oscillators advance with every clock, *)
(* at the periods their registers hold at that clock, whatever the volumes *)
(* are and whenever they are written.  SoundChip implements it by catching *)
(* up in one go before each write.                                         *)
(***************************************************************************)
EXTENDS Integers, Sequences

CONSTANTS
  Audible,       \* square waves of this period or less are silent
  NoisePeriods,  \* the three fixed periods of the noise
  ZeroPeriod     \* the noise's when its own is 0

VARIABLES
  clocks,          \* since the frame began
  squares, noise,  \* the oscillators
  kept             \* those of a save state

Silent == <<0, 0>>
Opposite(v) == <<-v[1], -v[2]>>

\* One clock of a square wave: the edge comes when the delay is over.
SquareClock(o) ==
  IF o.period = 0 THEN [o EXCEPT !.delay = 0]
  ELSE IF o.delay = 0 THEN [o EXCEPT !.phase = 1 - @, !.delay = o.period - 1]
  ELSE [o EXCEPT !.delay = @ - 1]
SquareLevel(o) == IF o.period <= Audible THEN Silent ELSE IF o.phase = 1 THEN o.volume ELSE Opposite(o.volume)

\* One clock of the noise: its register stands still while it is mute.
NoisePeriod(o) == LET p == IF o.select < 3 THEN NoisePeriods[o.select + 1] ELSE o.extra
                  IN  IF p = 0 THEN ZeroPeriod ELSE 2 * p
Shift(o) == [o EXCEPT !.shifter = Append(Tail(@), IF o.tapped THEN @[1] # @[2] ELSE @[1])]
NoiseClock(o) ==
  IF o.volume = Silent THEN [o EXCEPT !.delay = 0]
  ELSE IF o.delay = 0 THEN [Shift(o) EXCEPT !.delay = NoisePeriod(o) - 1]
  ELSE [o EXCEPT !.delay = @ - 1]
NoiseLevel(o) == IF o.shifter[1] THEN Opposite(o.volume) ELSE o.volume

\* An oscillator after n clocks.
After(Clock(_), o, n) == LET after[k \in 0..n] == IF k = 0 THEN o ELSE Clock(after[k - 1]) IN after[n]

Pass ==
  /\ clocks' > clocks
  /\ squares' = [i \in DOMAIN squares |-> After(SquareClock, squares[i], clocks' - clocks)]
  /\ noise' = After(NoiseClock, noise, clocks' - clocks)
  /\ UNCHANGED kept
\* Volumes and periods may change, the place in the period and the phase do not.
SetRegisters ==
  /\ UNCHANGED <<clocks, kept>>
  /\ \A i \in DOMAIN squares : squares'[i].delay = squares[i].delay /\ squares'[i].phase = squares[i].phase
  /\ noise'.delay = noise.delay
  /\ noise'.shifter \in {noise.shifter, [k \in DOMAIN noise.shifter |-> k = Len(noise.shifter)]}
TurnOff ==
  /\ UNCHANGED <<clocks, kept>>
  /\ \A i \in DOMAIN squares : squares'[i] = [volume |-> Silent, period |-> 0, delay |-> 0, phase |-> 0]
  /\ noise'.volume = Silent /\ noise'.delay = 0
NewFrame == clocks' = 0 /\ UNCHANGED <<squares, noise, kept>>
Save == kept' = <<squares, noise>> /\ UNCHANGED <<clocks, squares, noise>>
Load == UNCHANGED <<clocks, kept>> /\ kept # <<>> /\ squares' = kept[1] /\ noise' = kept[2]

Next == Pass \/ NewFrame \/ SetRegisters \/ TurnOff \/ Save \/ Load
Spec == [][Next]_<<clocks, squares, noise, kept>>
=============================================================================
