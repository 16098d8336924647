------------------------------- MODULE Timers -------------------------------
(***************************************************************************)
(* The four 8-bit timers: the second half of updateTimers(), timer_write8() *)
(* and reset_timers() (mednafen/ngp/interrupt.c).                          *)
(*                                                                         *)
(* Each timer has a prescaler (timer_clock) that is fed whether or not the *)
(* timer runs.  Timer 0 can count H-interrupts instead, timers 1 and 3 can *)
(* count the expirations of timers 0 and 2.  A timer that reaches its      *)
(* threshold starts again from 0 and raises a request.                     *)
(*                                                                         *)
(* Timers 0 and 1 share nothing with timers 2 and 3 but the length of an   *)
(* instruction, so a behaviour follows one of the pairs.                   *)
(***************************************************************************)
EXTENDS Integers

CONSTANTS
  Pairs,         \* the sets of timers looked at, one in each behaviour
  T1, T4, T16, T256,   \* CPU ticks per count of the prescaler taps
  MaxTick,       \* ticks of the longest instruction
  TimerMod,      \* counters and thresholds wrap here (2^8)
  ClockMod,      \* prescalers wrap here (2^32)
  Modes,         \* clock selections the program uses
  Thresholds,    \* thresholds the program uses; 0 never matches
  ResetThreshold \* the thresholds a reset leaves

Driver(i) == i - 1       \* the timer a chained one (1, 3) counts

ASSUME TimersAssumption ==
  /\ Pairs \subseteq SUBSET (0..3)
  /\ \A S \in Pairs : \A i \in S \cap {1, 3} : Driver(i) \in S
  /\ T1 \in Nat \ {0, 1} /\ T4 \in Nat \ {0} /\ T16 \in Nat \ {0} /\ T256 \in Nat \ {0}
  /\ MaxTick \in Nat \ {0} /\ TimerMod \in Nat \ {0, 1}
  /\ T1 <= T4 /\ T4 <= T16 /\ T16 <= T256
  /\ ClockMod \in Nat /\ T256 + MaxTick < ClockMod
  /\ ResetThreshold \in [0..3 -> 1..(TimerMod - 1)]
  /\ Modes \subseteq 0..3 /\ Thresholds \subseteq 0..(TimerMod - 1)

VARIABLES
  Timers,        \* the timers of this behaviour
  TRUN,          \* the timers that run
  mode,          \* T01MOD and T23MOD, one field per timer
  timer_threshold,
  timer,
  timer_clock,
  h_int,         \* an H-interrupt timer 0 has not counted yet
  expired,       \* the timers that reached their threshold in the last tick
  synced,        \* history: timers that ran a tick since they were set up
  age            \* history: time into the current period of a synced timer

vars == <<Timers, TRUN, mode, timer_threshold, timer, timer_clock, h_int, expired, synced, age>>

TypeOK ==
  /\ Timers \in Pairs
  /\ TRUN \subseteq Timers
  /\ mode \in [Timers -> 0..3]
  /\ timer_threshold \in [Timers -> 0..(TimerMod - 1)]
  /\ timer \in [Timers -> 0..(TimerMod - 1)]
  /\ timer_clock \in [Timers -> 0..(ClockMod - 1)]
  /\ h_int \in BOOLEAN
  /\ expired \subseteq Timers
  /\ synced \subseteq Timers
  /\ age \in [Timers -> Nat]

-----------------------------------------------------------------------------

(* Ticks per count of timer i in mode m # 0; timer 2 halves the first tap. *)
Rate(i, m) ==
  CASE m = 1 -> IF i = 2 THEN T1 \div 2 ELSE T1
    [] m = 2 -> IF i \in {0, 2} THEN T4 ELSE T16
    [] m = 3 -> IF i \in {0, 2} THEN T16 ELSE T256

Counts(i) == i \in TRUN
Clock(i, t) == (timer_clock[i] + t) % ClockMod

(* Counts timer i takes in a tick of t; pulse is its mode 0 input. *)
Steps(i, t, pulse) ==
  IF mode[i] = 0 THEN (IF pulse THEN 1 ELSE 0) ELSE Clock(i, t) \div Rate(i, mode[i])

Counted(i, t, pulse) ==
  IF Counts(i) THEN (timer[i] + Steps(i, t, pulse)) % TimerMod ELSE timer[i]

Expires(i, t, pulse) ==
  /\ Counts(i)
  /\ timer_threshold[i] # 0
  /\ Counted(i, t, pulse) >= timer_threshold[i]

(* Fault: the rest of a count is thrown away. *)
ClockRestarted(i, t, pulse) ==
  IF Counts(i) /\ Steps(i, t, pulse) > 0 THEN 0 ELSE Clock(i, t)

ClockAfter(i, t, pulse) ==
  CASE ~Counts(i) -> Clock(i, t)
    [] Counts(i) /\ mode[i] = 0 -> IF pulse THEN 0 ELSE Clock(i, t)
    [] Counts(i) /\ mode[i] # 0 -> Clock(i, t) % Rate(i, mode[i])

(* The mode 0 input of each timer: the H-interrupt, the expiration of the  *)
(* timer below, nothing for timer 2.                                       *)
Pulse(i, t, h) ==
  CASE i = 0 -> h
    [] i = 2 -> FALSE
    [] i \in {1, 3} -> Expires(Driver(i), t, Driver(i) = 0 /\ h)

-----------------------------------------------------------------------------

(* History: the length of one count of timer i, its period in such counts, *)
(* and what the exact position in the period would be.                     *)
Period(i) == IF timer_threshold[i] = 0 THEN TimerMod ELSE timer_threshold[i]

Unit(i) == CASE i = 0 /\ mode[i] = 0 -> 1
             [] mode[i] # 0 -> Rate(i, mode[i])
             [] OTHER -> Period(Driver(i)) * Rate(Driver(i), mode[Driver(i)])

(* Timers whose period the history follows: not timer 2 without a clock,   *)
(* and chained ones only under a driver that has a clock and a threshold.  *)
Followed(i) ==
  \/ mode[i] # 0
  \/ i = 0
  \/ /\ i \in {1, 3}
     /\ Driver(i) \in synced /\ mode[Driver(i)] # 0 /\ timer_threshold[Driver(i)] # 0

Elapsed(i, t, h) == IF i = 0 /\ mode[i] = 0 THEN (IF h THEN 1 ELSE 0) ELSE t

(* The position of a timer in its period, from its registers alone. *)
Position(i) ==
  CASE i = 0 /\ mode[i] = 0 -> timer[i]
    [] mode[i] # 0 -> timer[i] * Unit(i) + timer_clock[i]
    [] OTHER -> timer[i] * Unit(i) + timer[Driver(i)] * Unit(Driver(i)) + timer_clock[Driver(i)]

(* A synced timer gets older by what elapsed; one that is not yet starts   *)
(* from where its registers are after the tick.                            *)
Follow(i, t, h) ==
  IF i \in synced THEN (age[i] + Elapsed(i, t, h)) % (Period(i) * Unit(i)) ELSE Position(i)'

-----------------------------------------------------------------------------

Zero == [i \in Timers |-> 0]

(* reset_memory() writes T01MOD = 3 and T23MOD = 5 over what reset_int()   *)
(* cleared, and the four thresholds.                                       *)
ResetMode == [i \in Timers |-> CASE i = 0 -> 3 [] i = 1 -> 0 [] i \in {2, 3} -> 1]
ResetLimits == [i \in Timers |-> ResetThreshold[i]]

Init ==
  /\ Timers \in Pairs
  /\ TRUN = {} /\ h_int = FALSE /\ expired = {} /\ synced = {}
  /\ mode = ResetMode /\ timer_threshold = ResetLimits
  /\ timer = Zero /\ timer_clock = Zero /\ age = Zero

(* updateTimers() after an instruction of t ticks; line is what            *)
(* ngpgfx_hint() answered if a scanline ended, else h_int stays.           *)
Tick(t, lineEnds, line) ==
  LET h == IF lineEnds THEN line ELSE h_int
      p(i) == Pulse(i, t, h)
  IN  /\ UNCHANGED <<Timers, TRUN, mode, timer_threshold>>
      /\ expired' = {i \in Timers : Expires(i, t, p(i))}
      /\ timer' = [i \in Timers |-> IF i \in expired' THEN 0 ELSE Counted(i, t, p(i))]
      /\ timer_clock' = [i \in Timers |-> ClockAfter(i, t, p(i))]
      /\ h_int' = (h /\ ~(0 \in TRUN /\ mode[0] = 0))
      /\ synced' = {i \in TRUN : Followed(i)}
      /\ age' = [i \in Timers |-> IF i \in synced' THEN Follow(i, t, h) ELSE 0]

(* A timer, and the one that counts it, have to be followed anew. *)
Resync(i) ==
  LET anew == {i} \cup ({i + 1} \cap {1, 3})
  IN  /\ synced' = synced \ anew
      /\ age' = [j \in Timers |-> IF j \in anew THEN 0 ELSE age[j]]
      /\ expired' = {}

(* timer_write8(0x20): stopping a timer clears its count, not its clock. *)
WriteTRUN(S) ==
  /\ TRUN' = S
  /\ timer' = [i \in Timers |-> IF i \in S THEN timer[i] ELSE 0]
  /\ synced' = {} /\ age' = Zero /\ expired' = {}
  /\ UNCHANGED <<Timers, mode, timer_threshold, timer_clock, h_int>>

(* timer_write8(0x22, 0x23, 0x26, 0x27) *)
WriteThreshold(i, v) ==
  /\ timer_threshold' = [timer_threshold EXCEPT ![i] = v]
  /\ Resync(i)
  /\ UNCHANGED <<Timers, TRUN, mode, timer, timer_clock, h_int>>

(* timer_write8(0x24, 0x28) *)
WriteMode(i, m) ==
  /\ mode' = [mode EXCEPT ![i] = m]
  /\ Resync(i)
  /\ UNCHANGED <<Timers, TRUN, timer_threshold, timer, timer_clock, h_int>>

(* neopop_reset() *)
Reset ==
  /\ TRUN' = {} /\ h_int' = FALSE /\ expired' = {} /\ synced' = {}
  /\ mode' = ResetMode /\ timer_threshold' = ResetLimits
  /\ timer' = Zero /\ timer_clock' = Zero /\ age' = Zero
  /\ UNCHANGED Timers

Next ==
  \/ \E t \in 1..MaxTick : Tick(t, FALSE, FALSE)
  \/ \E t \in 1..MaxTick, line \in BOOLEAN : Tick(t, TRUE, line)
  \/ \E S \in SUBSET Timers : WriteTRUN(S)
  \/ \E i \in Timers, v \in Thresholds : WriteThreshold(i, v)
  \/ \E i \in Timers, m \in Modes : WriteMode(i, m)
  \/ Reset

Spec == Init /\ [][Next]_vars

-----------------------------------------------------------------------------

(* A running timer keeps exact time: whatever lengths the instructions     *)
(* have and however thresholds, prescalers and chains cut it up, it expires *)
(* every Period(i) * Unit(i) ticks (or lines).  Timer 2 on its halved tap   *)
(* can take two counts in one instruction and is not held to this.         *)
Exact(i) == mode[i] # 0 => Rate(i, mode[i]) >= MaxTick

NoDrift ==
  \A i \in synced :
     Exact(i) /\ (mode[i] = 0 /\ i \in {1, 3} => Exact(Driver(i)))
        => age[i] = Position(i)

=============================================================================
