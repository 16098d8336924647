----------------------------- MODULE TimersProofs -----------------------------
(***************************************************************************)
(* Proofs about Timers, for any rates, counter widths, thresholds and       *)
(* lengths of instructions.  A timer is a wheel in a wheel: its prescaler   *)
(* turns in its counter, or a whole timer turns in the next one, and both   *)
(* cases are one lemma (Cycle).                                            *)
(***************************************************************************)
EXTENDS Timers, TLAPS

(* What the registers of a followed timer are between two ticks. *)
Rolling(i) ==
  /\ i \in TRUN
  /\ timer[i] < Period(i)
  /\ mode[i] # 0 => timer_clock[i] < Rate(i, mode[i])
  /\ mode[i] = 0 => \/ i = 0
                    \/ /\ i \in {1, 3} /\ Driver(i) \in synced
                       /\ mode[Driver(i)] # 0 /\ timer_threshold[Driver(i)] # 0

Inv == TypeOK /\ (\A i \in synced : Rolling(i)) /\ NoDrift

-----------------------------------------------------------------------------
(* Arithmetic. *)

LEMMA Division ==
  ASSUME NEW x \in Nat, NEW u \in Nat \ {0}
  PROVE  /\ x % u \in 0..(u - 1) /\ x \div u \in Nat
         /\ x < u => x \div u = 0 /\ x % u = x
         /\ u <= x /\ x < 2 * u => x \div u = 1 /\ x % u = x - u
<1>1. x % u \in 0..(u - 1) /\ x \div u \in Nat
  OBVIOUS
<1>2. ASSUME x < u PROVE x \div u = 0 /\ x % u = x
  BY <1>2
<1>3. ASSUME u <= x, x < 2 * u PROVE x \div u = 1 /\ x % u = x - u
  <2>1. x = u * 1 + (x - u) /\ x - u \in 0..(u - 1)
    BY <1>3
  <2> QED BY <1>3, <2>1
<1> QED BY <1>1, <1>2, <1>3

(* A wheel of u steps inside one of p turns, moved by t <= u steps. *)
LEMMA Cycle ==
  ASSUME NEW p \in Nat \ {0}, NEW u \in Nat \ {0}, NEW c \in 0..(p - 1), NEW k \in 0..(u - 1), NEW t \in 0..u
  PROVE  /\ c * u + k \in Nat /\ p * u \in Nat \ {0} /\ c * u + k < p * u
         /\ (c * u + k + t) % (p * u) =
              IF k + t < u THEN c * u + (k + t)
              ELSE IF c + 1 = p THEN k + t - u ELSE (c + 1) * u + (k + t - u)
         /\ (c * u + k + t) % (p * u) =
              IF k + t >= u /\ c + 1 = p THEN c * u + k + t - p * u ELSE c * u + k + t
<1>1. c * u \in Nat /\ p * u \in Nat \ {0} /\ (c + 1) * u = c * u + u
  OBVIOUS
<1>2. (c + 1) * u <= p * u
  <2>1. \A d \in Nat : (c + 1 + d) * u = (c + 1) * u + d * u /\ d * u \in Nat
    OBVIOUS
  <2>2. p - (c + 1) \in Nat /\ c + 1 + (p - (c + 1)) = p
    OBVIOUS
  <2> QED BY <1>1, <2>1, <2>2
<1>3. c + 1 # p => (c + 1) * u + u <= p * u
  <2>1. \A d \in Nat : (c + 2 + d) * u = (c + 1) * u + u + d * u /\ d * u \in Nat
    OBVIOUS
  <2>2. c + 1 # p => p - (c + 2) \in Nat /\ c + 2 + (p - (c + 2)) = p
    OBVIOUS
  <2> QED BY <1>1, <2>1, <2>2
<1>4. c + 1 = p => (c + 1) * u = p * u
  OBVIOUS
<1> DEFINE w == p * u
           a == c * u
           b == (c + 1) * u
<1>5. w \in Nat \ {0} /\ a \in Nat /\ b = a + u /\ b <= w /\ (c + 1 # p => b + u <= w) /\ (c + 1 = p => b = w)
  BY <1>1, <1>2, <1>3, <1>4
<1> HIDE DEF w, a, b
<1> DEFINE x == a + k + t
<1>6. x \in Nat /\ x < 2 * w
  BY <1>5
<1>7. (x < w => x % w = x) /\ (w <= x /\ x < 2 * w => x % w = x - w)
  BY <1>5, <1>6, Division
<1>8. CASE k + t < u
  <2>1. x < w /\ x = a + (k + t)
    BY <1>5, <1>8
  <2> QED BY <1>5, <1>7, <1>8, <2>1 DEF w, a, b
<1>9. CASE ~(k + t < u) /\ c + 1 = p
  <2>1. w <= x /\ x < 2 * w /\ x - w = k + t - u
    BY <1>5, <1>6, <1>9
  <2> QED BY <1>5, <1>7, <1>9, <2>1 DEF w, a, b
<1>10. CASE ~(k + t < u) /\ c + 1 # p
  <2>1. x < w /\ x = b + (k + t - u)
    BY <1>5, <1>6, <1>10
  <2> QED BY <1>5, <1>7, <1>10, <2>1 DEF w, a, b
<1> QED BY <1>8, <1>9, <1>10

LEMMA RateIs ==
  ASSUME NEW i \in 0..3, NEW m \in 1..3
  PROVE  Rate(i, m) \in Nat \ {0} /\ Rate(i, m) + MaxTick < ClockMod
<1>1. T1 \div 2 \in Nat \ {0} /\ T1 \div 2 <= T1
  BY TimersAssumption
<1> QED BY <1>1, TimersAssumption DEF Rate

LEMMA TypesAre ==
  ASSUME TypeOK
  PROVE  /\ Timers \subseteq 0..3 /\ (\A i \in Timers \cap {1, 3} : Driver(i) \in Timers /\ Driver(i) \in {0, 2})
         /\ TimerMod \in Nat \ {0, 1} /\ MaxTick \in Nat \ {0} /\ ClockMod \in Nat \ {0}
         /\ \A i \in Timers : /\ mode[i] \in 0..3 /\ (mode[i] # 0 => mode[i] \in 1..3)
                               /\ timer_threshold[i] \in 0..(TimerMod - 1) /\ timer[i] \in 0..(TimerMod - 1)
                               /\ timer_clock[i] \in 0..(ClockMod - 1) /\ age[i] \in Nat
                               /\ Period(i) \in Nat \ {0} /\ Period(i) <= TimerMod
BY TimersAssumption DEF TypeOK, Driver, Period

-----------------------------------------------------------------------------
(* One timer in one tick. *)

(* Its counter after the tick. *)
After(i, t, pulse) == IF Expires(i, t, pulse) THEN 0 ELSE Counted(i, t, pulse)

LEMMA StepsAre ==
  ASSUME TypeOK, NEW i \in Timers, NEW t \in 1..MaxTick, NEW pulse \in BOOLEAN
  PROVE  Clock(i, t) \in 0..(ClockMod - 1) /\ Steps(i, t, pulse) \in Nat
<1>1. Clock(i, t) \in 0..(ClockMod - 1) /\ Clock(i, t) \in Nat
  <2>1. timer_clock[i] + t \in Nat /\ ClockMod \in Nat \ {0}
    BY TypesAre
  <2>2. (timer_clock[i] + t) % ClockMod \in 0..(ClockMod - 1)
    BY <2>1, Division
  <2> QED BY <2>1, <2>2 DEF Clock
<1>2. CASE mode[i] = 0
  BY <1>1, <1>2 DEF Steps
<1>3. CASE mode[i] # 0
  <2>1. Rate(i, mode[i]) \in Nat \ {0}
    BY <1>3, TypesAre, RateIs
  <2>2. Clock(i, t) \div Rate(i, mode[i]) \in Nat
    BY <1>1, <2>1, Division
  <2> QED BY <1>1, <1>3, <2>2 DEF Steps
<1> QED BY <1>2, <1>3

(* However it was found, it is inside its period afterwards. *)
LEMMA TickRolls ==
  ASSUME TypeOK, NEW i \in TRUN, NEW t \in 1..MaxTick, NEW pulse \in BOOLEAN
  PROVE  /\ After(i, t, pulse) \in 0..(Period(i) - 1)
         /\ ClockAfter(i, t, pulse) \in 0..(ClockMod - 1)
         /\ mode[i] # 0 => ClockAfter(i, t, pulse) \in 0..(Rate(i, mode[i]) - 1)
<1>1. i \in Timers /\ i \in 0..3
  BY TypesAre DEF TypeOK
<1>2. Clock(i, t) \in 0..(ClockMod - 1) /\ Steps(i, t, pulse) \in Nat
  BY <1>1, StepsAre
<1>3. Counted(i, t, pulse) \in 0..(TimerMod - 1)
  <2>1. timer[i] + Steps(i, t, pulse) \in Nat /\ TimerMod \in Nat \ {0}
    BY <1>1, <1>2, TypesAre
  <2>2. Counted(i, t, pulse) = (timer[i] + Steps(i, t, pulse)) % TimerMod
    BY DEF Counted, Counts
  <2> QED BY <2>1, <2>2, Division
<1>4. After(i, t, pulse) \in 0..(Period(i) - 1)
  BY <1>1, <1>3, TypesAre DEF After, Expires, Counts, Period
<1>5. CASE mode[i] = 0
  <2>1. ClockAfter(i, t, pulse) \in {0, Clock(i, t)}
    BY <1>5 DEF ClockAfter, Counts
  <2> QED BY <1>1, <1>2, <1>4, <1>5, <2>1, TypesAre
<1>6. CASE mode[i] # 0
  <2>1. Rate(i, mode[i]) \in Nat \ {0} /\ Rate(i, mode[i]) < ClockMod
    BY <1>1, <1>6, TypesAre, RateIs
  <2>2. ClockAfter(i, t, pulse) = Clock(i, t) % Rate(i, mode[i])
    BY <1>6 DEF ClockAfter, Counts
  <2>3. Clock(i, t) % Rate(i, mode[i]) \in 0..(Rate(i, mode[i]) - 1)
    BY <1>2, <2>1, Division
  <2> QED BY <1>1, <1>4, <2>1, <2>2, <2>3, TypesAre
<1> QED BY <1>5, <1>6

(* A prescaler inside its count carries at most once. *)
LEMMA ClockMoves ==
  ASSUME TypeOK, NEW i \in TRUN, NEW t \in 1..MaxTick, NEW pulse \in BOOLEAN, mode[i] # 0,
         timer_clock[i] < Rate(i, mode[i]), t <= Rate(i, mode[i])
  PROVE  LET u == Rate(i, mode[i])
             x == timer_clock[i] + t
         IN  /\ Steps(i, t, pulse) = IF x < u THEN 0 ELSE 1
             /\ ClockAfter(i, t, pulse) = IF x < u THEN x ELSE x - u
<1> DEFINE u == Rate(i, mode[i])
           x == timer_clock[i] + t
<1>1. i \in Timers /\ i \in 0..3 /\ mode[i] \in 1..3 /\ ClockMod \in Nat \ {0} /\ timer_clock[i] \in Nat /\ t \in Nat
  BY TypesAre DEF TypeOK
<1>2. u \in Nat \ {0} /\ u + MaxTick < ClockMod
  BY <1>1, RateIs
<1>3. x \in Nat /\ x < 2 * u /\ x < ClockMod
  BY <1>1, <1>2, TypesAre
<1>4. Clock(i, t) = x
  BY <1>1, <1>3, Division DEF Clock
<1>5. Steps(i, t, pulse) = x \div u /\ ClockAfter(i, t, pulse) = x % u
  BY <1>4 DEF Steps, ClockAfter, Counts
<1> HIDE DEF u, x
<1>6. CASE x < u
  BY <1>2, <1>3, <1>5, <1>6, Division DEF u, x
<1>7. CASE u <= x
  <2>1. x \div u = 1 /\ x % u = x - u /\ ~(x < u)
    BY <1>2, <1>3, <1>7, Division
  <2> QED BY <1>5, <2>1 DEF u, x
<1> QED BY <1>2, <1>3, <1>6, <1>7

(* A counter inside its period that takes one count at most starts again   *)
(* when the period is full, by its threshold or by its width.              *)
LEMMA CounterMoves ==
  ASSUME TypeOK, NEW i \in TRUN, NEW t, NEW pulse, timer[i] < Period(i), Steps(i, t, pulse) \in {0, 1}
  PROVE  LET full == Steps(i, t, pulse) = 1 /\ timer[i] + 1 = Period(i)
         IN  /\ Expires(i, t, pulse) <=> full /\ timer_threshold[i] # 0
             /\ After(i, t, pulse) = IF full THEN 0 ELSE timer[i] + Steps(i, t, pulse)
<1>1. i \in Timers
  BY DEF TypeOK
<1>2. /\ TimerMod \in Nat \ {0, 1} /\ timer[i] \in 0..(TimerMod - 1) /\ Period(i) \in Nat \ {0} /\ Period(i) <= TimerMod
      /\ timer_threshold[i] \in 0..(TimerMod - 1)
      /\ Period(i) = IF timer_threshold[i] = 0 THEN TimerMod ELSE timer_threshold[i]
  BY <1>1, TypesAre DEF Period
<1> DEFINE x == timer[i] + Steps(i, t, pulse)
<1>3. x \in Nat /\ x < 2 * TimerMod /\ x <= TimerMod
  BY <1>2
<1>4. Counted(i, t, pulse) = x % TimerMod
  BY DEF Counted, Counts
<1>5. (x < TimerMod => x % TimerMod = x) /\ (x = TimerMod => x % TimerMod = 0)
  <2> HIDE DEF x
  <2>1. TimerMod \in Nat \ {0}
    BY <1>2
  <2>2. /\ x < TimerMod => x % TimerMod = x
        /\ TimerMod <= x /\ x < 2 * TimerMod => x % TimerMod = x - TimerMod
    BY <1>3, <2>1, Division
  <2> QED BY <1>3, <2>1, <2>2
<1>6. Expires(i, t, pulse) <=> timer_threshold[i] # 0 /\ x % TimerMod >= timer_threshold[i]
  BY <1>4 DEF Expires, Counts
<1> QED BY <1>2, <1>3, <1>4, <1>5, <1>6 DEF After

(* With a clock of its own a timer goes on by the ticks, modulo its period. *)
LEMMA DirectMoves ==
  ASSUME TypeOK, NEW i \in TRUN, NEW t \in 1..MaxTick, NEW pulse \in BOOLEAN, mode[i] # 0,
         timer[i] < Period(i), timer_clock[i] < Rate(i, mode[i]), Rate(i, mode[i]) >= MaxTick
  PROVE  LET u   == Rate(i, mode[i])
             w   == Period(i) * u
             pos == timer[i] * u + timer_clock[i]
         IN  /\ u \in Nat \ {0} /\ w \in Nat \ {0} /\ u <= w /\ pos \in Nat /\ pos < w
             /\ After(i, t, pulse) * u + ClockAfter(i, t, pulse) = (pos + t) % w
             /\ Expires(i, t, pulse) <=> timer_threshold[i] # 0 /\ pos + t >= w
<1> DEFINE u == Rate(i, mode[i])
           c == timer[i]
           k == timer_clock[i]
           p == Period(i)
           w == p * u
           x == c * u + k + t
           full == k + t >= u /\ c + 1 = p
<1>1. i \in Timers /\ i \in 0..3 /\ mode[i] \in 1..3
  BY TypesAre DEF TypeOK
<1>2. /\ u \in Nat \ {0} /\ p \in Nat \ {0} /\ c \in 0..(p - 1) /\ k \in 0..(u - 1)
      /\ t \in 0..u /\ t \in Nat /\ t <= u
  BY <1>1, RateIs, TypesAre
<1>3. /\ Steps(i, t, pulse) = (IF k + t < u THEN 0 ELSE 1)
      /\ ClockAfter(i, t, pulse) = IF k + t < u THEN k + t ELSE k + t - u
  BY <1>2, ClockMoves
<1>4. /\ Expires(i, t, pulse) <=> (Steps(i, t, pulse) = 1 /\ c + 1 = p) /\ timer_threshold[i] # 0
      /\ After(i, t, pulse) = IF Steps(i, t, pulse) = 1 /\ c + 1 = p THEN 0 ELSE c + Steps(i, t, pulse)
  BY <1>3, CounterMoves
<1> HIDE DEF u, c, k, p
<1>5. Steps(i, t, pulse) = 1 /\ c + 1 = p <=> full
  BY <1>2, <1>3
<1>6. /\ c * u + k \in Nat /\ w \in Nat \ {0} /\ c * u + k < w
      /\ x % w = (IF k + t < u THEN c * u + (k + t) ELSE IF c + 1 = p THEN k + t - u ELSE (c + 1) * u + (k + t - u))
      /\ x % w = IF full THEN x - w ELSE x
  <2>1. c * u + k \in Nat /\ w \in Nat \ {0} /\ c * u + k < w
    BY <1>2, Cycle
  <2>2. x % w = (IF k + t < u THEN c * u + (k + t) ELSE IF c + 1 = p THEN k + t - u ELSE (c + 1) * u + (k + t - u))
    BY <1>2, Cycle
  <2>3. x % w = IF k + t >= u /\ c + 1 = p THEN c * u + k + t - p * u ELSE c * u + k + t
    BY <1>2, Cycle
  <2> QED BY <2>1, <2>2, <2>3
<1>7. u <= w
  <2>1. (p - 1) * u \in Nat /\ w = (p - 1) * u + u
    BY <1>2
  <2> QED BY <1>2, <2>1
<1>8. After(i, t, pulse) * u + ClockAfter(i, t, pulse) = x % w
  <2>1. c * u \in Nat /\ (c + 1) * u \in Nat /\ 0 * u = 0 /\ c + 0 = c
    BY <1>2
  <2>2. CASE k + t < u
    <3>1. After(i, t, pulse) = c /\ ClockAfter(i, t, pulse) = k + t
      BY <1>2, <1>3, <1>4, <2>2
    <3> QED BY <1>6, <2>2, <3>1
  <2>3. CASE ~(k + t < u) /\ c + 1 = p
    <3>1. After(i, t, pulse) = 0 /\ ClockAfter(i, t, pulse) = k + t - u
      BY <1>3, <1>4, <2>3
    <3> QED BY <1>2, <1>6, <2>1, <2>3, <3>1
  <2>4. CASE ~(k + t < u) /\ c + 1 # p
    <3>1. After(i, t, pulse) = c + 1 /\ ClockAfter(i, t, pulse) = k + t - u
      BY <1>3, <1>4, <2>4
    <3> QED BY <1>6, <2>4, <3>1
  <2> QED BY <2>2, <2>3, <2>4
<1>9. full <=> x >= w
  <2>1. x \in Nat
    BY <1>2, <1>6
  <2>2. x % w \in 0..(w - 1)
    BY <1>6, <2>1, Division
  <2> HIDE DEF x, w, full
  <2> QED BY <1>6, <2>1, <2>2
<1> HIDE DEF full
<1>10. Expires(i, t, pulse) <=> timer_threshold[i] # 0 /\ x >= w
  BY <1>4, <1>5, <1>9
<1> QED BY <1>2, <1>6, <1>7, <1>8, <1>10 DEF u, c, k, p

(* A timer that counts another one is the outer wheel of the two. *)
LEMMA ChainedMoves ==
  ASSUME TypeOK, NEW i \in TRUN, NEW d \in TRUN, NEW t \in 1..MaxTick, NEW pulse \in BOOLEAN,
         mode[i] = 0, timer[i] < Period(i),
         mode[d] # 0, timer_threshold[d] # 0, timer[d] < Period(d), timer_clock[d] < Rate(d, mode[d]),
         Rate(d, mode[d]) >= MaxTick
  PROVE  LET u   == Rate(d, mode[d])
             w   == Period(d) * u
             pos == timer[i] * w + (timer[d] * u + timer_clock[d])
         IN  After(i, t, Expires(d, t, pulse)) * w + (After(d, t, pulse) * u + ClockAfter(d, t, pulse))
               = (pos + t) % (Period(i) * w)
<1> DEFINE u == Rate(d, mode[d])
           w == Period(d) * u
           q == timer[d] * u + timer_clock[d]
           r == After(d, t, pulse) * u + ClockAfter(d, t, pulse)
           e == Expires(d, t, pulse)
           c == timer[i]
           p == Period(i)
<1>1. /\ u \in Nat \ {0} /\ w \in Nat \ {0} /\ u <= w /\ q \in Nat /\ q < w /\ r = (q + t) % w
      /\ e <=> q + t >= w
  BY DirectMoves
<1>2. i \in Timers /\ t \in Nat /\ t <= u /\ e \in BOOLEAN /\ c \in 0..(p - 1) /\ p \in Nat \ {0}
  <2>1. i \in Timers /\ MaxTick \in Nat
    BY TypesAre DEF TypeOK
  <2>2. c \in 0..(p - 1) /\ p \in Nat \ {0}
    BY <2>1, TypesAre
  <2>3. e \in BOOLEAN
    BY DEF Expires
  <2> HIDE DEF e, c, p
  <2> QED BY <1>1, <2>1, <2>2, <2>3
<1>3. Steps(i, t, e) = IF e THEN 1 ELSE 0
  BY DEF Steps
<1>4. After(i, t, e) = IF Steps(i, t, e) = 1 /\ c + 1 = p THEN 0 ELSE c + Steps(i, t, e)
  <2>1. Steps(i, t, e) \in {0, 1}
    BY <1>3
  <2> HIDE DEF e
  <2> QED BY <2>1, CounterMoves
<1> HIDE DEF u, w, q, r, e, c, p
<1>5. r = IF q + t < w THEN q + t ELSE q + t - w
  <2> DEFINE y == q + t
  <2>1. y \in Nat /\ y < 2 * w
    BY <1>1, <1>2
  <2> HIDE DEF y
  <2>2. (y < w => y % w = y) /\ (w <= y /\ y < 2 * w => y % w = y - w)
    BY <1>1, <2>1, Division
  <2>3. y % w = IF y < w THEN y ELSE y - w
    BY <1>1, <2>1, <2>2
  <2> QED BY <1>1, <2>3 DEF y
<1>6. (c * w + q + t) % (p * w) =
        IF q + t < w THEN c * w + (q + t) ELSE IF c + 1 = p THEN q + t - w ELSE (c + 1) * w + (q + t - w)
  <2>1. q \in 0..(w - 1) /\ t \in 0..w
    BY <1>1, <1>2
  <2> QED BY <1>1, <1>2, <2>1, Cycle
<1>7. After(i, t, e) * w + r = (c * w + q + t) % (p * w)
  <2>1. c * w \in Nat /\ (c + 1) * w \in Nat /\ 0 * w = 0
    BY <1>1, <1>2
  <2>2. CASE q + t < w
    <3>1. After(i, t, e) = c
      BY <1>1, <1>2, <1>3, <1>4, <2>2
    <3> QED BY <1>5, <1>6, <2>2, <3>1
  <2>3. CASE ~(q + t < w) /\ c + 1 = p
    <3>1. After(i, t, e) = 0
      BY <1>1, <1>2, <1>3, <1>4, <2>3
    <3> QED BY <1>1, <1>2, <1>5, <1>6, <2>1, <2>3, <3>1
  <2>4. CASE ~(q + t < w) /\ c + 1 # p
    <3>1. After(i, t, e) = c + 1
      BY <1>1, <1>2, <1>3, <1>4, <2>4
    <3> QED BY <1>5, <1>6, <2>4, <3>1
  <2> QED BY <2>2, <2>3, <2>4
<1> QED BY <1>7 DEF u, w, q, r, e, c, p

(* Timer 0 on H-interrupts counts the lines. *)
LEMMA LineMoves ==
  ASSUME TypeOK, NEW i \in TRUN, NEW t \in 1..MaxTick, NEW h \in BOOLEAN, mode[i] = 0, timer[i] < Period(i)
  PROVE  After(i, t, h) = (timer[i] + (IF h THEN 1 ELSE 0)) % Period(i)
<1> DEFINE s == IF h THEN 1 ELSE 0
<1>1. i \in Timers /\ timer[i] \in Nat /\ Period(i) \in Nat \ {0}
  BY TypesAre DEF TypeOK
<1>2. Steps(i, t, h) = s /\ s \in {0, 1}
  BY DEF Steps
<1>3. After(i, t, h) = IF s = 1 /\ timer[i] + 1 = Period(i) THEN 0 ELSE timer[i] + s
  BY <1>2, CounterMoves
<1> HIDE DEF s
<1>4. timer[i] + s \in Nat /\ timer[i] + s <= Period(i)
  BY <1>1, <1>2
<1>5. After(i, t, h) = (timer[i] + s) % Period(i)
  <2> DEFINE y == timer[i] + s
             p == Period(i)
  <2>1. y \in Nat /\ y <= p /\ p \in Nat \ {0} /\ After(i, t, h) = IF y = p THEN 0 ELSE y
    BY <1>1, <1>2, <1>3, <1>4
  <2> HIDE DEF y, p
  <2>2. (y < p => y % p = y) /\ (p <= y /\ y < 2 * p => y % p = y - p)
    BY <2>1, Division
  <2>3. After(i, t, h) = y % p
    BY <2>1, <2>2
  <2> QED BY <2>3 DEF y, p
<1> QED BY <1>5 DEF s

-----------------------------------------------------------------------------
(* What the history says, by the three kinds of timer. *)

LEMMA FollowedIs ==
  ASSUME TypeOK, NEW i \in Timers, Followed(i)
  PROVE  /\ Unit(i) \in Nat \ {0}
         /\ mode[i] # 0 => Unit(i) = Rate(i, mode[i])
         /\ mode[i] = 0 /\ i = 0 => Unit(i) = 1
         /\ mode[i] = 0 /\ i # 0 =>
               /\ i \in {1, 3} /\ Driver(i) \in synced /\ mode[Driver(i)] # 0 /\ timer_threshold[Driver(i)] # 0
               /\ Unit(Driver(i)) = Rate(Driver(i), mode[Driver(i)])
               /\ Unit(i) = Period(Driver(i)) * Rate(Driver(i), mode[Driver(i)])
<1>1. i \in 0..3 /\ mode[i] \in 0..3
  BY TypesAre
<1>2. CASE mode[i] # 0
  <2>1. Unit(i) = Rate(i, mode[i])
    BY <1>2 DEF Unit
  <2> QED BY <1>1, <1>2, <2>1, RateIs
<1>3. CASE mode[i] = 0 /\ i = 0
  BY <1>3 DEF Unit
<1>4. CASE mode[i] = 0 /\ i # 0
  <2> DEFINE d == Driver(i)
  <2>1. i \in {1, 3} /\ d \in synced /\ mode[d] # 0 /\ timer_threshold[d] # 0
    BY <1>4 DEF Followed
  <2>2. d \in Timers /\ d \in 0..3 /\ mode[d] \in 1..3
    BY <2>1, TypesAre
  <2>3. Unit(d) = Rate(d, mode[d])
    BY <2>1 DEF Unit
  <2>4. Unit(i) = Period(d) * Rate(d, mode[d])
    BY <1>4 DEF Unit
  <2>5. Rate(d, mode[d]) \in Nat \ {0} /\ Period(d) \in Nat \ {0}
    BY <2>2, RateIs, TypesAre
  <2>6. Period(d) * Rate(d, mode[d]) \in Nat \ {0}
    <3> HIDE DEF d
    <3> QED BY <2>5
  <2> QED BY <1>4, <2>1, <2>3, <2>4, <2>6
<1> QED BY <1>2, <1>3, <1>4

LEMMA PulseIs ==
  ASSUME TypeOK, NEW i \in Timers, NEW t, NEW h \in BOOLEAN
  PROVE  Pulse(i, t, h) \in BOOLEAN
<1>1. i \in {0, 1, 2, 3}
  BY TypesAre
<1>2. \A j, pulse : Expires(j, t, pulse) \in BOOLEAN
  BY DEF Expires
<1> QED BY <1>1, <1>2 DEF Pulse

(* What a tick does to the registers. *)
LEMMA TickRegisters ==
  ASSUME TypeOK, NEW t \in 1..MaxTick, NEW lineEnds \in BOOLEAN, NEW line \in BOOLEAN, Tick(t, lineEnds, line)
  PROVE  \E h \in BOOLEAN :
           /\ UNCHANGED <<Timers, TRUN, mode, timer_threshold>>
           /\ h_int' \in BOOLEAN /\ expired' \subseteq Timers
           /\ synced' = {i \in TRUN : Followed(i)}
           /\ age' = [i \in Timers |-> IF i \in synced' THEN Follow(i, t, h) ELSE 0]
           /\ timer' = [i \in Timers |-> After(i, t, Pulse(i, t, h))]
           /\ timer_clock' = [i \in Timers |-> ClockAfter(i, t, Pulse(i, t, h))]
<1> DEFINE h == IF lineEnds THEN line ELSE h_int
<1>1. h \in BOOLEAN
  BY DEF TypeOK
<1>2. h_int' \in BOOLEAN
  BY DEF Tick
<1>3. expired' = {i \in Timers : Expires(i, t, Pulse(i, t, h))}
  BY DEF Tick
<1>4. timer' = [i \in Timers |-> IF i \in expired' THEN 0 ELSE Counted(i, t, Pulse(i, t, h))]
  BY DEF Tick
<1>5. timer' = [i \in Timers |-> After(i, t, Pulse(i, t, h))]
  BY <1>3, <1>4 DEF After
<1>6. /\ UNCHANGED <<Timers, TRUN, mode, timer_threshold>>
      /\ synced' = {i \in TRUN : Followed(i)}
      /\ age' = [i \in Timers |-> IF i \in synced' THEN Follow(i, t, h) ELSE 0]
      /\ timer_clock' = [i \in Timers |-> ClockAfter(i, t, Pulse(i, t, h))]
  BY DEF Tick
<1> HIDE DEF h
<1> QED BY <1>1, <1>2, <1>3, <1>5, <1>6

LEMMA TickKeepsInv ==
  ASSUME Inv, NEW t \in 1..MaxTick, NEW lineEnds \in BOOLEAN, NEW line \in BOOLEAN, Tick(t, lineEnds, line)
  PROVE  Inv'
<1>1. TypeOK /\ (\A i \in synced : Rolling(i)) /\ NoDrift /\ TRUN \subseteq Timers /\ synced \subseteq TRUN
  BY DEF Inv, TypeOK, Rolling
<1>2. PICK h \in BOOLEAN :
        /\ UNCHANGED <<Timers, TRUN, mode, timer_threshold>>
        /\ h_int' \in BOOLEAN /\ expired' \subseteq Timers
        /\ synced' = {i \in TRUN : Followed(i)}
        /\ age' = [i \in Timers |-> IF i \in synced' THEN Follow(i, t, h) ELSE 0]
        /\ timer' = [i \in Timers |-> After(i, t, Pulse(i, t, h))]
        /\ timer_clock' = [i \in Timers |-> ClockAfter(i, t, Pulse(i, t, h))]
  BY <1>1, TickRegisters
<1>3. \A i \in Timers : Pulse(i, t, h) \in BOOLEAN
  BY <1>1, PulseIs
<1>4. ASSUME NEW i \in TRUN
      PROVE  /\ timer'[i] \in 0..(Period(i) - 1) /\ timer_clock'[i] \in 0..(ClockMod - 1)
             /\ mode[i] # 0 => timer_clock'[i] \in 0..(Rate(i, mode[i]) - 1)
  <2>1. i \in Timers
    BY <1>1
  <2>2. /\ After(i, t, Pulse(i, t, h)) \in 0..(Period(i) - 1)
        /\ ClockAfter(i, t, Pulse(i, t, h)) \in 0..(ClockMod - 1)
        /\ mode[i] # 0 => ClockAfter(i, t, Pulse(i, t, h)) \in 0..(Rate(i, mode[i]) - 1)
    BY <1>1, <1>3, <2>1, TickRolls
  <2> QED BY <1>2, <2>1, <2>2
<1>5. \A i \in Timers : timer'[i] \in 0..(TimerMod - 1) /\ timer_clock'[i] \in 0..(ClockMod - 1)
  <2> SUFFICES ASSUME NEW i \in Timers
               PROVE  timer'[i] \in 0..(TimerMod - 1) /\ timer_clock'[i] \in 0..(ClockMod - 1)
    OBVIOUS
  <2>1. CASE i \in TRUN
    BY <1>1, <1>4, <2>1, TypesAre
  <2>2. CASE i \notin TRUN
    <3>1. After(i, t, Pulse(i, t, h)) = timer[i] /\ ClockAfter(i, t, Pulse(i, t, h)) = Clock(i, t)
      BY <2>2 DEF After, Expires, Counted, Counts, ClockAfter
    <3>2. Clock(i, t) \in 0..(ClockMod - 1)
      BY <1>1, <1>3, StepsAre
    <3> QED BY <1>1, <1>2, <3>1, <3>2, TypesAre
  <2> QED BY <2>1, <2>2
<1>6. \A i \in Timers : Period(i)' = Period(i) /\ Unit(i)' = Unit(i)
  BY <1>2 DEF Period, Unit, Driver
<1>7. ASSUME NEW i \in synced'
      PROVE  Rolling(i)'
  <2>1. i \in TRUN /\ i \in Timers /\ Followed(i) /\ mode[i] \in 0..3
    BY <1>1, <1>2, TypesAre
  <2>2. mode[i] = 0 => \/ i = 0
                       \/ /\ i \in {1, 3} /\ Driver(i) \in synced'
                          /\ mode[Driver(i)] # 0 /\ timer_threshold[Driver(i)] # 0
    <3>1. \A d \in synced : mode[d] # 0 => d \in synced'
      BY <1>1, <1>2 DEF Followed
    <3> QED BY <2>1, <3>1 DEF Followed
  <2>3. timer'[i] < Period(i) /\ (mode[i] # 0 => timer_clock'[i] < Rate(i, mode[i]))
    <3>1. Period(i) \in Nat /\ (mode[i] # 0 => Rate(i, mode[i]) \in Nat)
      BY <1>1, <2>1, TypesAre, RateIs
    <3> QED BY <1>4, <2>1, <3>1
  <2>4. Period(i)' = Period(i)
    BY <1>6, <2>1
  <2> QED BY <1>2, <2>1, <2>2, <2>3, <2>4 DEF Rolling
(* The position after the tick, by kinds. *)
<1>8. ASSUME NEW i \in synced'
      PROVE  /\ mode[i] # 0 => Position(i)' = timer'[i] * Rate(i, mode[i]) + timer_clock'[i]
             /\ mode[i] = 0 /\ i = 0 => Position(i)' = timer'[i]
             /\ mode[i] = 0 /\ i # 0 =>
                   Position(i)' = timer'[i] * Unit(i) + timer'[Driver(i)] * Unit(Driver(i)) + timer_clock'[Driver(i)]
  <2>1. i \in Timers /\ Followed(i)
    BY <1>1, <1>2
  <2>2. CASE mode[i] # 0
    <3>1. Unit(i)' = Rate(i, mode[i])
      BY <1>1, <1>6, <2>1, <2>2, FollowedIs
    <3> QED BY <1>2, <2>2, <3>1 DEF Position
  <2>3. CASE mode[i] = 0 /\ i = 0
    BY <1>2, <2>3 DEF Position
  <2>4. CASE mode[i] = 0 /\ i # 0
    <3>1. Driver(i) \in Timers
      BY <1>1, <2>1, <2>4, FollowedIs DEF TypeOK
    <3>2. Unit(i)' = Unit(i) /\ Unit(Driver(i))' = Unit(Driver(i))
      BY <1>6, <2>1, <3>1
    <3> QED BY <1>2, <2>4, <3>2 DEF Position
  <2> QED BY <2>2, <2>3, <2>4
<1>9. ASSUME NEW i \in synced'
      PROVE  Position(i)' \in Nat
  <2>1. i \in Timers /\ i \in TRUN /\ Followed(i) /\ timer'[i] \in Nat /\ timer_clock'[i] \in Nat
    BY <1>1, <1>2, <1>5, TypesAre
  <2>2. CASE mode[i] # 0
    <3>1. Rate(i, mode[i]) \in Nat
      BY <1>1, <2>1, <2>2, FollowedIs
    <3> QED BY <1>8, <2>1, <2>2, <3>1
  <2>3. CASE mode[i] = 0 /\ i = 0
    BY <1>8, <2>1, <2>3
  <2>4. CASE mode[i] = 0 /\ i # 0
    <3> DEFINE d == Driver(i)
    <3>1. d \in synced /\ d \in Timers /\ mode[d] # 0 /\ Unit(i) \in Nat
      BY <1>1, <2>1, <2>4, FollowedIs
    <3>2. Followed(d)
      BY <3>1 DEF Followed
    <3>3. Unit(d) \in Nat
      BY <1>1, <3>1, <3>2, FollowedIs
    <3>4. timer'[d] \in Nat /\ timer_clock'[d] \in Nat
      BY <1>5, <3>1
    <3>5. Position(i)' = timer'[i] * Unit(i) + timer'[d] * Unit(d) + timer_clock'[d]
      BY <1>8, <2>4
    <3> HIDE DEF d
    <3> QED BY <2>1, <3>1, <3>3, <3>4, <3>5
  <2> QED BY <2>2, <2>3, <2>4
<1>10. ASSUME NEW i \in Timers
       PROVE  age'[i] \in Nat
  <2>1. CASE i \notin synced'
    BY <1>2, <2>1
  <2>2. CASE i \in synced' /\ i \notin synced
    BY <1>2, <1>9, <2>2 DEF Follow
  <2>3. CASE i \in synced' /\ i \in synced
    <3>1. Unit(i) \in Nat \ {0} /\ Period(i) \in Nat \ {0} /\ age[i] \in Nat /\ Elapsed(i, t, h) \in Nat
      BY <1>1, <1>2, <2>3, FollowedIs, TypesAre DEF Elapsed
    <3>2. Period(i) * Unit(i) \in Nat \ {0} /\ age[i] + Elapsed(i, t, h) \in Nat
      BY <3>1
    <3>3. (age[i] + Elapsed(i, t, h)) % (Period(i) * Unit(i)) \in Nat
      BY <3>2, Division
    <3>4. age'[i] = (age[i] + Elapsed(i, t, h)) % (Period(i) * Unit(i))
      BY <1>2, <2>3 DEF Follow
    <3> QED BY <3>3, <3>4
  <2> QED BY <2>1, <2>2, <2>3
<1>11. TypeOK'
  <2>1. /\ timer' \in [Timers -> 0..(TimerMod - 1)] /\ timer_clock' \in [Timers -> 0..(ClockMod - 1)]
        /\ age' \in [Timers -> Nat] /\ synced' \subseteq Timers
    BY <1>1, <1>2, <1>5, <1>10
  <2> QED BY <1>1, <1>2, <2>1 DEF TypeOK
(* A timer followed before goes on by what elapsed. *)
<1>12. ASSUME NEW i \in synced', i \in synced, Exact(i), mode[i] = 0 /\ i \in {1, 3} => Exact(Driver(i))
       PROVE  age'[i] = Position(i)'
  <2>1. i \in Timers /\ i \in TRUN /\ Followed(i) /\ Rolling(i) /\ t <= MaxTick /\ t \in Nat /\ MaxTick \in Nat
    BY <1>1, <1>2, <1>12, TypesAre
  <2>2. age[i] = Position(i)
    BY <1>1, <1>12 DEF NoDrift
  <2>3. age'[i] = (Position(i) + Elapsed(i, t, h)) % (Period(i) * Unit(i))
    BY <1>2, <1>12, <2>1, <2>2 DEF Follow
  <2>4. timer'[i] = After(i, t, Pulse(i, t, h)) /\ timer_clock'[i] = ClockAfter(i, t, Pulse(i, t, h))
    BY <1>2, <2>1
  <2>5. CASE mode[i] # 0
    <3>1. Unit(i) = Rate(i, mode[i]) /\ Elapsed(i, t, h) = t
      BY <1>1, <2>1, <2>5, FollowedIs DEF Elapsed
    <3>2. Position(i) = timer[i] * Rate(i, mode[i]) + timer_clock[i]
      BY <2>5, <3>1 DEF Position
    <3>3. After(i, t, Pulse(i, t, h)) * Rate(i, mode[i]) + ClockAfter(i, t, Pulse(i, t, h))
            = (timer[i] * Rate(i, mode[i]) + timer_clock[i] + t) % (Period(i) * Rate(i, mode[i]))
      BY <1>1, <1>3, <1>12, <2>1, <2>5, DirectMoves DEF Rolling, Exact
    <3>4. Position(i)' = timer'[i] * Rate(i, mode[i]) + timer_clock'[i]
      BY <1>8, <2>5
    <3> QED BY <2>3, <2>4, <3>1, <3>2, <3>3, <3>4
  <2>6. CASE mode[i] = 0 /\ i = 0
    <3>1. Unit(i) = 1 /\ Elapsed(i, t, h) = (IF h THEN 1 ELSE 0) /\ Position(i) = timer[i] /\ Pulse(i, t, h) = h
      BY <1>1, <2>1, <2>6, FollowedIs DEF Elapsed, Position, Pulse
    <3>2. After(i, t, h) = (timer[i] + (IF h THEN 1 ELSE 0)) % Period(i)
      BY <1>1, <2>1, <2>6, LineMoves DEF Rolling
    <3>3. Period(i) * 1 = Period(i)
      BY <1>1, <2>1, TypesAre
    <3>4. Position(i)' = timer'[i]
      BY <1>8, <2>6
    <3> QED BY <2>3, <2>4, <3>1, <3>2, <3>3, <3>4
  <2>7. CASE mode[i] = 0 /\ i # 0
    <3> DEFINE d == Driver(i)
               u == Rate(d, mode[d])
               w == Period(d) * u
    <3>1. /\ i \in {1, 3} /\ d \in synced /\ d \in TRUN /\ d \in Timers /\ mode[d] # 0 /\ timer_threshold[d] # 0
          /\ Unit(d) = u /\ Unit(i) = w /\ Rolling(d)
      BY <1>1, <2>1, <2>7, FollowedIs
    <3>2. u >= MaxTick
      BY <1>12, <2>7, <3>1 DEF Exact
    <3>3. Pulse(i, t, h) = Expires(d, t, Pulse(d, t, h)) /\ Elapsed(i, t, h) = t
      <4>1. Pulse(i, t, h) = Expires(d, t, d = 0 /\ h) /\ d \in {0, 2} /\ Elapsed(i, t, h) = t
        BY <2>7, <3>1 DEF Pulse, Elapsed, Driver
      <4>2. \A first, second : Expires(d, t, first) = Expires(d, t, second)
        BY <3>1 DEF Expires, Counted, Steps
      <4> HIDE DEF d
      <4> QED BY <4>1, <4>2, Zenon
    <3>4. Position(i) = timer[i] * w + timer[d] * u + timer_clock[d]
      BY <2>7, <3>1 DEF Position
    <3>5. After(i, t, Expires(d, t, Pulse(d, t, h))) * w + (After(d, t, Pulse(d, t, h)) * u + ClockAfter(d, t, Pulse(d, t, h)))
            = (timer[i] * w + (timer[d] * u + timer_clock[d]) + t) % (Period(i) * w)
      <4>1. Pulse(d, t, h) \in BOOLEAN /\ timer[i] < Period(i) /\ timer[d] < Period(d) /\ timer_clock[d] < u
        BY <1>3, <2>1, <3>1 DEF Rolling
      <4> HIDE DEF d
      <4> QED BY <1>1, <2>1, <2>7, <3>1, <3>2, <4>1, ChainedMoves
    <3>6. Position(i)' = timer'[i] * w + timer'[d] * u + timer_clock'[d]
      BY <1>8, <2>7, <3>1
    <3>7. timer'[d] = After(d, t, Pulse(d, t, h)) /\ timer_clock'[d] = ClockAfter(d, t, Pulse(d, t, h))
      BY <1>2, <3>1
    <3>8. /\ timer[i] \in Nat /\ timer[d] \in Nat /\ timer_clock[d] \in Nat /\ u \in Nat /\ w \in Nat
          /\ timer'[i] \in Nat /\ timer'[d] \in Nat /\ timer_clock'[d] \in Nat
      <4>1. Period(d) \in Nat /\ u \in Nat
        BY <1>1, <3>1, TypesAre, RateIs
      <4>2. w \in Nat
        <5> HIDE DEF d, u
        <5> QED BY <4>1
      <4> QED BY <1>1, <1>5, <2>1, <3>1, <4>1, <4>2, TypesAre
    <3> HIDE DEF d, u, w
    <3>9. /\ timer[i] * w + (timer[d] * u + timer_clock[d]) = timer[i] * w + timer[d] * u + timer_clock[d]
          /\ timer'[i] * w + (timer'[d] * u + timer_clock'[d]) = timer'[i] * w + timer'[d] * u + timer_clock'[d]
      BY <3>8
    <3> QED BY <2>3, <2>4, <3>1, <3>3, <3>4, <3>5, <3>6, <3>7, <3>9
  <2> QED BY <2>5, <2>6, <2>7
<1>13. NoDrift'
  <2> SUFFICES ASSUME NEW i \in synced', Exact(i)', (mode[i] = 0 /\ i \in {1, 3} => Exact(Driver(i)))'
               PROVE  age'[i] = Position(i)'
    BY DEF NoDrift
  <2>1. Exact(i) /\ (mode[i] = 0 /\ i \in {1, 3} => Exact(Driver(i)))
    BY <1>2 DEF Exact
  <2>2. CASE i \in synced
    BY <1>12, <2>1, <2>2
  <2>3. CASE i \notin synced
    <3>1. i \in Timers
      BY <1>1, <1>2
    <3> QED BY <1>2, <2>3, <3>1 DEF Follow
  <2> QED BY <2>2, <2>3
<1> QED BY <1>7, <1>11, <1>13 DEF Inv

-----------------------------------------------------------------------------
(* A timer that a register write leaves alone stands where it stood. *)
LEMMA Untouched ==
  ASSUME Inv, TypeOK', NEW i \in Timers,
         timer' = timer, timer_clock' = timer_clock, TRUN' = TRUN,
         synced' = synced \ ({i} \cup ({i + 1} \cap {1, 3})),
         \A j \in synced' : age'[j] = age[j],
         \A j \in Timers \ {i} : mode'[j] = mode[j] /\ timer_threshold'[j] = timer_threshold[j]
  PROVE  Inv'
<1>1. TypeOK /\ (\A j \in synced : Rolling(j)) /\ NoDrift /\ synced \subseteq Timers
  BY DEF Inv, TypeOK
<1>2. ASSUME NEW j \in synced'
      PROVE  /\ j \in synced /\ Period(j)' = Period(j) /\ mode'[j] = mode[j] /\ Rolling(j)' /\ Exact(j)' = Exact(j)
             /\ j \in {1, 3} => Exact(Driver(j))' = Exact(Driver(j))
             /\ Position(j)' = Position(j)
  <2>1. j \in synced /\ j # i /\ j \in Timers /\ mode'[j] = mode[j] /\ timer_threshold'[j] = timer_threshold[j] /\ Rolling(j)
    BY <1>1
  <2>2. Period(j)' = Period(j) /\ Exact(j)' = Exact(j)
    BY <2>1 DEF Period, Exact
  <2>3. ASSUME j \in {1, 3}
        PROVE  /\ Driver(j) \in Timers /\ mode'[Driver(j)] = mode[Driver(j)]
               /\ timer_threshold'[Driver(j)] = timer_threshold[Driver(j)]
               /\ Driver(j) \in synced => Driver(j) \in synced'
    <3>1. Driver(j) \in Timers /\ Driver(j) \in {0, 2} /\ j = Driver(j) + 1
      BY <1>1, <2>1, <2>3, TypesAre DEF Driver
    <3>2. j \notin {i} \cup ({i + 1} \cap {1, 3}) /\ i \in 0..3
      BY <1>1, TypesAre
    <3>3. Driver(j) # i /\ Driver(j) \notin {i} \cup ({i + 1} \cap {1, 3})
      <4> DEFINE d == Driver(j)
      <4>1. d \in {0, 2} /\ j = d + 1 /\ j \in {1, 3}
        BY <2>3, <3>1
      <4> HIDE DEF d
      <4>2. d # i
        BY <3>2, <4>1
      <4>3. d \notin {i} \cup ({i + 1} \cap {1, 3})
        BY <4>1, <4>2
      <4> QED BY <4>2, <4>3 DEF d
    <3> QED BY <3>1, <3>3
  <2>4. Rolling(j)'
    BY <2>1, <2>2, <2>3 DEF Rolling
  <2>5. j \in {1, 3} => Exact(Driver(j))' = Exact(Driver(j)) /\ Period(Driver(j))' = Period(Driver(j))
    BY <2>3 DEF Exact, Period
  <2>6. Position(j)' = Position(j)
    <3>1. CASE mode[j] # 0
      BY <2>1, <3>1 DEF Position, Unit
    <3>2. CASE mode[j] = 0 /\ j = 0
      BY <2>1, <3>2 DEF Position
    <3>3. CASE mode[j] = 0 /\ j \in {1, 3}
      <4> DEFINE d == Driver(j)
      <4>1. d # 0 \/ mode[d] # 0
        BY <2>1, <3>3 DEF Rolling
      <4>2. mode[d] # 0 /\ mode'[d] = mode[d] /\ Period(d)' = Period(d)
        BY <2>1, <2>3, <2>5, <3>3 DEF Rolling
      <4>3. Unit(d)' = Unit(d) /\ Unit(j)' = Unit(j)
        BY <2>1, <3>3, <4>2 DEF Unit
      <4> QED BY <2>1, <3>3, <4>3 DEF Position
    <3> QED BY <2>1, <3>1, <3>2, <3>3 DEF Rolling
  <2> QED BY <2>1, <2>2, <2>4, <2>5, <2>6
<1>3. NoDrift'
  <2> SUFFICES ASSUME NEW j \in synced', Exact(j)', (mode[j] = 0 /\ j \in {1, 3} => Exact(Driver(j)))'
               PROVE  age'[j] = Position(j)'
    BY DEF NoDrift
  <2>1. Exact(j) /\ (mode[j] = 0 /\ j \in {1, 3} => Exact(Driver(j)))
    BY <1>2
  <2> QED BY <1>1, <1>2, <2>1 DEF NoDrift
<1> QED BY <1>2, <1>3 DEF Inv

LEMMA ResetState ==
  ASSUME NEW S \in Pairs
  PROVE  /\ [i \in S |-> CASE i = 0 -> 3 [] i = 1 -> 0 [] i \in {2, 3} -> 1] \in [S -> 0..3]
         /\ [i \in S |-> ResetThreshold[i]] \in [S -> 0..(TimerMod - 1)]
         /\ [i \in S |-> 0] \in [S -> 0..(TimerMod - 1)] /\ [i \in S |-> 0] \in [S -> 0..(ClockMod - 1)]
         /\ [i \in S |-> 0] \in [S -> Nat]
BY TimersAssumption

LEMMA InvInit == Init => Inv
<1> SUFFICES ASSUME Init PROVE Inv
  OBVIOUS
<1>1. TypeOK
  BY ResetState DEF Init, TypeOK, Zero, ResetMode, ResetLimits
<1> QED BY <1>1 DEF Init, Inv, NoDrift

LEMMA InvStep == Inv /\ [Next]_vars => Inv'
<1> SUFFICES ASSUME Inv, [Next]_vars PROVE Inv'
  OBVIOUS
<1>1. TypeOK
  BY DEF Inv
<1>2. ASSUME NEW t \in 1..MaxTick, Tick(t, FALSE, FALSE) PROVE Inv'
  BY <1>2, TickKeepsInv
<1>3. ASSUME NEW t \in 1..MaxTick, NEW line \in BOOLEAN, Tick(t, TRUE, line) PROVE Inv'
  BY <1>3, TickKeepsInv
<1>4. ASSUME NEW S \in SUBSET Timers, WriteTRUN(S) PROVE Inv'
  <2>1. TypeOK'
    BY <1>1, <1>4, TimersAssumption DEF WriteTRUN, TypeOK, Zero
  <2> QED BY <1>4, <2>1 DEF WriteTRUN, Inv, NoDrift
<1>5. ASSUME NEW i \in Timers, NEW v \in Thresholds, WriteThreshold(i, v) PROVE Inv'
  <2>1. v \in 0..(TimerMod - 1)
    BY TimersAssumption
  <2>2. TypeOK'
    BY <1>1, <1>5, <2>1 DEF WriteThreshold, Resync, TypeOK
  <2>3. /\ synced' = synced \ ({i} \cup ({i + 1} \cap {1, 3})) /\ synced' \subseteq Timers
        /\ \A j \in synced' : age'[j] = age[j]
    BY <1>1, <1>5 DEF WriteThreshold, Resync, TypeOK
  <2>4. /\ timer' = timer /\ timer_clock' = timer_clock /\ TRUN' = TRUN
        /\ \A j \in Timers \ {i} : mode'[j] = mode[j] /\ timer_threshold'[j] = timer_threshold[j]
    BY <1>1, <1>5 DEF WriteThreshold, TypeOK
  <2> QED BY <2>2, <2>3, <2>4, Untouched
<1>6. ASSUME NEW i \in Timers, NEW m \in Modes, WriteMode(i, m) PROVE Inv'
  <2>1. m \in 0..3
    BY TimersAssumption
  <2>2. TypeOK'
    BY <1>1, <1>6, <2>1 DEF WriteMode, Resync, TypeOK
  <2>3. /\ synced' = synced \ ({i} \cup ({i + 1} \cap {1, 3})) /\ synced' \subseteq Timers
        /\ \A j \in synced' : age'[j] = age[j]
    BY <1>1, <1>6 DEF WriteMode, Resync, TypeOK
  <2>4. /\ timer' = timer /\ timer_clock' = timer_clock /\ TRUN' = TRUN
        /\ \A j \in Timers \ {i} : mode'[j] = mode[j] /\ timer_threshold'[j] = timer_threshold[j]
    BY <1>1, <1>6 DEF WriteMode, TypeOK
  <2> QED BY <2>2, <2>3, <2>4, Untouched
<1>7. CASE Reset
  <2>1. TypeOK'
    BY <1>1, <1>7, ResetState DEF Reset, TypeOK, Zero, ResetMode, ResetLimits
  <2> QED BY <1>7, <2>1 DEF Reset, Inv, NoDrift
<1>8. CASE UNCHANGED vars
  BY <1>8 DEF vars, Inv, TypeOK, Rolling, NoDrift, Exact, Position, Unit, Period, Rate
<1> QED BY <1>2, <1>3, <1>4, <1>5, <1>6, <1>7, <1>8 DEF Next

(* Registers and prescalers keep their types, for any rates and widths      *)
(* (updateTimers, timer_write8, reset_timers).                             *)
THEOREM TypeCorrect == Spec => []TypeOK
<1>1. Inv => TypeOK
  BY DEF Inv
<1> QED BY <1>1, InvInit, InvStep, PTL DEF Spec

(* A running timer keeps exact time for any rates, widths, thresholds and   *)
(* lengths of instructions, chained or not (updateTimers).                 *)
THEOREM TimersKeepTime == Spec => []NoDrift
<1>1. Inv => NoDrift
  BY DEF Inv
<1> QED BY <1>1, InvInit, InvStep, PTL DEF Spec
=============================================================================
