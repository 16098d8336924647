--------------------------- MODULE SoundChipProofs ---------------------------
(***************************************************************************)
(* Proofs about SoundChip, for any periods, any number of square waves, any *)
(* length of the noise's shift register and any tunes: catching up in one   *)
(* go does what ToneGenerator does clock by clock, and what it adds to the *)
(* buffer makes up the levels of every clock.                              *)
(***************************************************************************)
EXTENDS SoundChip, SequenceTheorems, NaturalsInduction, WellFoundedInduction, TLAPS

-----------------------------------------------------------------------------
(* Counting. *)

\* What holds at 0 and goes from each number to the next holds up to n.
LEMMA UpTo ==
  ASSUME NEW n \in Nat, NEW T, 0 \in T, \A k \in 0..(n - 1) : k \in T => k + 1 \in T
  PROVE  \A k \in 0..n : k \in T
<1> SUFFICES ASSUME NEW c \in 0..n, c \notin T PROVE FALSE
  OBVIOUS
<1> DEFINE bad == {k \in 0..n : k \notin T}
<1>1. bad \subseteq Nat /\ bad # {}
  OBVIOUS
<1> HIDE DEF bad
<1>2. PICK x \in bad : \A y \in bad : ~(<<y, x>> \in OpToRel(<, Nat))
  <2>1. IsWellFoundedOn(OpToRel(<, Nat), Nat)
    BY NatLessThanWellFounded
  <2> QED BY <1>1, <2>1, WFMin, Zenon
<1>3. x \in 0..n /\ x \notin T
  BY <1>2 DEF bad
<1>4. x # 0
  BY <1>3
<1>5. x - 1 \in 0..(n - 1) /\ x - 1 \in 0..n /\ (x - 1) + 1 = x /\ x - 1 \in Nat /\ x - 1 < x
  BY <1>3, <1>4
<1>6. x - 1 \notin T
  BY <1>3, <1>5
<1>7. x - 1 \in bad
  BY <1>5, <1>6 DEF bad
<1>8. <<x - 1, x>> \in OpToRel(<, Nat)
  BY <1>3, <1>5 DEF OpToRel
<1> QED BY <1>2, <1>7, <1>8

\* f holds what the first k steps from o make, for each k up to n.
Steps(f, o, step, n) == f = [k \in 0..n |-> IF k = 0 THEN o ELSE step[<<k, f[k - 1]>>]]

\* There is such a function, and its values stay in a set its steps keep.
LEMMA StepsExist ==
  ASSUME NEW S, NEW o \in S, NEW n \in Nat, NEW step \in [Nat \X S -> S]
  PROVE  \E f \in [0..n -> S] : Steps(f, o, step, n)
<1> DEFINE Is(f, m) == f \in [0..m -> S] /\ f = [k \in 0..m |-> IF k = 0 THEN o ELSE step[<<k, f[k - 1]>>]]
           T == {m \in 0..n : \E f : Is(f, m)}
<1>1. 0 \in T
  <2> DEFINE f == [k \in 0..0 |-> o]
  <2>1. f = [k \in 0..0 |-> IF k = 0 THEN o ELSE step[<<k, f[k - 1]>>]]
    OBVIOUS
  <2>2. f \in [0..0 -> S]
    OBVIOUS
  <2> HIDE DEF f
  <2> QED BY <2>1, <2>2
<1>2. ASSUME NEW m \in 0..(n - 1), m \in T PROVE m + 1 \in T
  <2>1. PICK f : Is(f, m)
    BY <1>2
  <2> DEFINE new == step[<<m + 1, f[m]>>]
             g == [k \in 0..(m + 1) |-> IF k <= m THEN f[k] ELSE new]
             h == [k \in 0..(m + 1) |-> IF k = 0 THEN o ELSE step[<<k, g[k - 1]>>]]
  <2>2. f[m] \in S
    <3>1. m \in 0..m
      OBVIOUS
    <3> QED BY <2>1, <3>1
  <2>3. new \in S
    <3>1. <<m + 1, f[m]>> \in Nat \X S
      BY <2>2
    <3> QED BY <3>1
  <2> HIDE DEF new
  <2>4. g \in [0..(m + 1) -> S]
    <3> SUFFICES ASSUME NEW k \in 0..(m + 1) PROVE (IF k <= m THEN f[k] ELSE new) \in S
      BY Zenon
    <3>1. k <= m => k \in 0..m
      OBVIOUS
    <3>2. k <= m => f[k] \in S
      BY <2>1, <3>1
    <3> QED BY <2>3, <3>2
  <2>5. ASSUME NEW k \in 0..(m + 1) PROVE g[k] = h[k]
    <3>1. CASE k = 0
      <4>1. 0 \in 0..m /\ k <= m
        BY <3>1
      <4>2. f[0] = o
        BY <2>1, <4>1
      <4>3. g[k] = f[0] /\ h[k] = o
        BY <3>1, <4>1, Zenon
      <4> QED BY <4>2, <4>3
    <3>2. CASE k # 0 /\ k <= m
      <4>1. k \in 0..m /\ k - 1 \in 0..(m + 1) /\ k - 1 <= m
        BY <3>2
      <4>2. f[k] = step[<<k, f[k - 1]>>]
        BY <2>1, <3>2, <4>1, Zenon
      <4>3. g[k] = f[k] /\ g[k - 1] = f[k - 1]
        BY <3>2, <4>1, Zenon
      <4>4. h[k] = step[<<k, g[k - 1]>>]
        BY <3>2, Zenon
      <4> QED BY <4>2, <4>3, <4>4
    <3>3. CASE ~(k <= m)
      <4>1. k = m + 1 /\ k # 0 /\ k - 1 = m /\ m \in 0..(m + 1) /\ m <= m
        BY <3>3
      <4>2. g[k] = new /\ g[m] = f[m]
        BY <3>3, <4>1, Zenon
      <4>3. h[k] = step[<<m + 1, g[m]>>]
        BY <4>1
      <4> QED BY <4>2, <4>3 DEF new
    <3> QED BY <3>1, <3>2, <3>3
  <2>6. g = h
    BY <2>5, Zenon
  <2>7. Is(g, m + 1)
    BY <2>4, <2>6, Zenon
  <2>8. m + 1 \in 0..n
    OBVIOUS
  <2> HIDE DEF Is
  <2> QED BY <2>7, <2>8, Zenon
<1> HIDE DEF T
<1>3. n \in T
  <2>1. n \in 0..n
    OBVIOUS
  <2> QED BY <1>1, <1>2, <2>1, UpTo
<1> QED BY <1>3 DEF T, Steps

-----------------------------------------------------------------------------
(* Periods: after n clocks an oscillator with delay d and period p has had  *)
(* k edges.                                                                *)
Turned(d, p, n, k) == k \in Nat /\ d + k * p >= n /\ \A m \in 0..(k - 1) : d + m * p < n

LEMMA TurnedOnce ==
  ASSUME NEW d \in Nat, NEW p \in Nat, NEW n \in Nat, NEW k, NEW j, Turned(d, p, n, k), Turned(d, p, n, j)
  PROVE  j = k
<1>1. k \in Nat /\ j \in Nat /\ k * p \in Nat /\ j * p \in Nat
  BY DEF Turned
<1>2. ~(j < k)
  <2> SUFFICES ASSUME j < k PROVE FALSE
    OBVIOUS
  <2>1. j \in 0..(k - 1)
    BY <1>1
  <2>2. d + j * p < n /\ d + j * p >= n
    BY <2>1, Zenon DEF Turned
  <2> QED BY <1>1, <2>2
<1>3. ~(k < j)
  <2> SUFFICES ASSUME k < j PROVE FALSE
    OBVIOUS
  <2>1. k \in 0..(j - 1)
    BY <1>1
  <2>2. d + k * p < n /\ d + k * p >= n
    BY <2>1, Zenon DEF Turned
  <2> QED BY <1>1, <2>2
<1> QED BY <1>1, <1>2, <1>3

LEMMA Products ==
  ASSUME NEW k \in Nat, NEW p \in Nat
  PROVE  k * p \in Nat /\ (k + 1) * p = k * p + p
OBVIOUS

LEMMA ProductsGrow ==
  ASSUME NEW k \in Nat, NEW m \in Nat, NEW p \in Nat, m <= k
  PROVE  m * p <= k * p
<1>1. k = m + (k - m) /\ k - m \in Nat
  OBVIOUS
<1>2. k * p = m * p + (k - m) * p
  BY <1>1
<1>3. (k - m) * p \in Nat /\ m * p \in Nat
  BY <1>1
<1> QED BY <1>2, <1>3

\* The next clock: an edge if the delay is over.
LEMMA TurnedStep ==
  ASSUME NEW d \in Nat, NEW p \in Nat \ {0}, NEW n \in Nat, NEW k, Turned(d, p, n, k)
  PROVE  /\ d + k * p - n \in Nat
         /\ d + k * p - n = 0 => Turned(d, p, n + 1, k + 1) /\ d + (k + 1) * p - (n + 1) = p - 1
         /\ d + k * p - n # 0 => Turned(d, p, n + 1, k)
         /\ d + k * p - (n + 1) = (d + k * p - n) - 1
<1>1. k \in Nat /\ k * p \in Nat /\ (k + 1) * p = k * p + p /\ d + k * p >= n
  BY Products DEF Turned
<1> DEFINE kp == k * p
<1>2. ASSUME NEW m \in 0..(k - 1) PROVE d + m * p < n + 1
  <2>1. m \in Nat /\ m * p \in Nat
    BY <1>1, Products
  <2>2. d + m * p < n
    BY Zenon DEF Turned
  <2> QED BY <2>1, <2>2
<1>3. ASSUME d + k * p - n = 0
      PROVE  Turned(d, p, n + 1, k + 1) /\ d + (k + 1) * p - (n + 1) = p - 1
  <2>1. d + (k + 1) * p - (n + 1) = p - 1 /\ d + (k + 1) * p >= n + 1
    <3> HIDE DEF kp
    <3> QED BY <1>1, <1>3
  <2>2. ASSUME NEW m \in 0..k PROVE d + m * p < n + 1
    <3>1. CASE m = k
      BY <1>1, <1>3, <3>1
    <3>2. CASE m # k
      <4>1. m \in 0..(k - 1)
        BY <1>1, <3>2
      <4> QED BY <1>2, <4>1
    <3> QED BY <3>1, <3>2
  <2>3. (k + 1) - 1 = k /\ k + 1 \in Nat
    BY <1>1
  <2> QED BY <2>1, <2>2, <2>3 DEF Turned
<1>4. ASSUME d + k * p - n # 0 PROVE Turned(d, p, n + 1, k)
  <2>1. d + k * p >= n + 1
    BY <1>1, <1>4
  <2> QED BY <1>1, <1>2, <2>1 DEF Turned
<1>5. d + k * p - n \in Nat
  BY <1>1
<1>6. d + k * p - (n + 1) = (d + k * p - n) - 1
  <2>1. kp \in Nat
    BY <1>1
  <2> HIDE DEF kp
  <2>2. d + kp - (n + 1) = (d + kp - n) - 1
    BY <2>1
  <2> QED BY <2>2 DEF kp
<1> QED BY <1>3, <1>4, <1>5, <1>6

\* Some number of edges there is, at most one in each clock after the delay.
LEMMA TurnedExists ==
  ASSUME NEW d \in Nat, NEW p \in Nat \ {0}, NEW n \in Nat
  PROVE  \E k : Turned(d, p, n, k)
<1> DEFINE T == {j \in 0..n : \E k : Turned(d, p, j, k)}
<1>1. 0 \in T
  <2>1. Turned(d, p, 0, 0)
    BY DEF Turned
  <2> QED BY <2>1
<1>2. ASSUME NEW j \in 0..(n - 1), j \in T PROVE j + 1 \in T
  <2>1. PICK k : Turned(d, p, j, k)
    BY <1>2
  <2>2. \E i : Turned(d, p, j + 1, i)
    BY <2>1, TurnedStep
  <2> QED BY <1>2, <2>2
<1>3. n \in 0..n
  OBVIOUS
<1> HIDE DEF T
<1>4. n \in T
  BY <1>1, <1>2, <1>3, UpTo
<1> QED BY <1>4 DEF T

LEMMA TurnedBound ==
  ASSUME NEW d \in Nat, NEW p \in Nat \ {0}, NEW n \in Nat, NEW k, Turned(d, p, n, k)
  PROVE  k \in Nat /\ k <= n /\ (k = 0 \/ k <= n - d)
<1>1. k \in Nat
  BY DEF Turned
<1>2. CASE k # 0
  <2>1. k - 1 \in 0..(k - 1) /\ k - 1 \in Nat
    BY <1>1, <1>2
  <2>2. d + (k - 1) * p < n
    BY <2>1, Zenon DEF Turned
  <2>3. (k - 1) * p \in Nat /\ k - 1 <= (k - 1) * p
    <3>1. p = 1 + (p - 1) /\ p - 1 \in Nat
      OBVIOUS
    <3>2. (k - 1) * (p - 1) \in Nat /\ (k - 1) * p = (k - 1) + (k - 1) * (p - 1)
      BY <2>1, <3>1
    <3> QED BY <2>1, <3>2
  <2> QED BY <1>1, <2>1, <2>2, <2>3
<1> QED BY <1>1, <1>2

\* The silent half of T6W28_Square::run() counts the edges with a division.
LEMMA EdgesTurned ==
  ASSUME NEW time \in Nat, NEW d \in Nat, NEW p \in Nat \ {0}, NEW end \in Nat, time < end
  PROVE  Turned(d, p, end - time, Edges(time + d, end, p))
<1> DEFINE n == end - time
           x == n - d + p - 1
           q == x \div p
<1>1. n \in Nat /\ n # 0
  OBVIOUS
<1>2. CASE d >= n
  <2>1. Edges(time + d, end, p) = 0
    BY <1>2 DEF Edges
  <2> QED BY <1>1, <1>2, <2>1 DEF Turned
<1>3. CASE d < n
  <2>1. Edges(time + d, end, p) = q
    BY <1>3 DEF Edges
  <2>2. x \in Nat
    BY <1>1, <1>3
  <2>3. q \in Nat /\ q * p <= x /\ x < q * p + p
    <3> HIDE DEF x
    <3> QED BY <2>2
  <2> HIDE DEF q
  <2>4. d + q * p >= n
    <3>1. q * p \in Nat
      BY <2>3
    <3> QED BY <1>1, <2>3, <3>1
  <2>5. ASSUME NEW m \in 0..(q - 1) PROVE d + m * p < n
    <3>1. m \in Nat /\ q - 1 \in Nat /\ m <= q - 1 /\ (q - 1) + 1 = q
      BY <2>3
    <3>2. m * p <= (q - 1) * p /\ q * p = (q - 1) * p + p
      BY <3>1, ProductsGrow, Products
    <3>3. m * p \in Nat /\ (q - 1) * p \in Nat
      BY <3>1
    <3> QED BY <1>1, <2>3, <3>2, <3>3
  <2> QED BY <2>1, <2>3, <2>4, <2>5 DEF Turned
<1> QED BY <1>1, <1>2, <1>3

-----------------------------------------------------------------------------
(* What ToneGenerator does in n clocks. *)

SquareStates == [volume : Int \X Int, period : Nat, delay : Nat, phase : {0, 1}]
Shifters == {s \in Seq(BOOLEAN) : Len(s) = ShifterBits}
NoiseStates ==
  [volume : Int \X Int, extra : Nat, delay : Nat, select : 0..3, tapped : BOOLEAN, shifter : Shifters]

SquareAfter(o, n) == Tones!After(Tones!SquareClock, o, n)
NoiseAfter(o, n) == Tones!After(Tones!NoiseClock, o, n)

LEMMA SquareClockType ==
  ASSUME NEW o \in SquareStates
  PROVE  Tones!SquareClock(o) \in SquareStates
<1>1. o.period \in Nat /\ o.delay \in Nat /\ 1 - o.phase \in {0, 1}
  BY DEF SquareStates
<1>2. CASE o.period = 0
  BY <1>2 DEF SquareStates, Tones!SquareClock
<1>3. CASE o.period # 0 /\ o.delay = 0
  <2>1. Tones!SquareClock(o) = [o EXCEPT !.phase = 1 - o.phase, !.delay = o.period - 1]
    BY <1>3 DEF Tones!SquareClock
  <2>2. o.period - 1 \in Nat
    BY <1>1, <1>3
  <2> QED BY <1>1, <2>1, <2>2 DEF SquareStates
<1>4. CASE o.period # 0 /\ o.delay # 0
  <2>1. Tones!SquareClock(o) = [o EXCEPT !.delay = o.delay - 1]
    BY <1>4 DEF Tones!SquareClock
  <2>2. o.delay - 1 \in Nat
    BY <1>1, <1>4
  <2> QED BY <2>1, <2>2 DEF SquareStates
<1> QED BY <1>2, <1>3, <1>4

LEMMA ShiftedType ==
  ASSUME NEW s \in Shifters, NEW t \in BOOLEAN
  PROVE  Append(Tail(s), IF t THEN s[1] # s[2] ELSE s[1]) \in Shifters
<1>1. s \in Seq(BOOLEAN) /\ Len(s) = ShifterBits /\ ShifterBits \in Nat \ {0, 1}
  BY ChipAssumption DEF Shifters
<1>2. s[1] \in BOOLEAN
  BY <1>1
<1>3. (IF t THEN s[1] # s[2] ELSE s[1]) \in BOOLEAN
  BY <1>2, Zenon
<1> DEFINE b == IF t THEN s[1] # s[2] ELSE s[1]
<1>4. b \in BOOLEAN
  BY <1>3
<1> HIDE DEF b
<1>5. Append(Tail(s), b) \in Seq(BOOLEAN) /\ Len(Append(Tail(s), b)) = ShifterBits
  BY <1>1, <1>4
<1>6. Append(Tail(s), b) \in Shifters
  BY <1>5 DEF Shifters
<1> QED BY <1>6 DEF b

LEMMA NoisePeriodType ==
  ASSUME NEW o \in NoiseStates
  PROVE  Tones!NoisePeriod(o) \in Nat \ {0}
<1>1. o.select \in 0..3 /\ o.extra \in Nat
  BY DEF NoiseStates
<1> DEFINE p == IF o.select < 3 THEN NoisePeriods[o.select + 1] ELSE o.extra
<1>2. p \in Nat
  <2>1. o.select < 3 => o.select + 1 \in 1..3
    BY <1>1
  <2>2. o.select < 3 => NoisePeriods[o.select + 1] \in Nat
    BY <2>1, ChipAssumption
  <2> QED BY <1>1, <2>2
<1>3. Tones!NoisePeriod(o) = IF p = 0 THEN ZeroPeriod ELSE 2 * p
  BY DEF Tones!NoisePeriod
<1> HIDE DEF p
<1> QED BY <1>2, <1>3, ChipAssumption

LEMMA NoiseClockType ==
  ASSUME NEW o \in NoiseStates
  PROVE  Tones!NoiseClock(o) \in NoiseStates
<1> DEFINE s == Append(Tail(o.shifter), IF o.tapped THEN o.shifter[1] # o.shifter[2] ELSE o.shifter[1])
           p == Tones!NoisePeriod(o)
<1>1. s \in Shifters /\ p - 1 \in Nat
  <2>1. o.shifter \in Shifters /\ o.tapped \in BOOLEAN
    BY DEF NoiseStates
  <2> QED BY <2>1, ShiftedType, NoisePeriodType
<1>2. CASE o.volume = Tones!Silent
  <2>1. Tones!NoiseClock(o) = [o EXCEPT !.delay = 0]
    BY <1>2 DEF Tones!NoiseClock
  <2> QED BY <2>1 DEF NoiseStates
<1>3. CASE o.volume # Tones!Silent /\ o.delay = 0
  <2>1. Tones!NoiseClock(o) = [[o EXCEPT !.shifter = s] EXCEPT !.delay = p - 1]
    BY <1>3, Zenon DEF Tones!NoiseClock, Tones!Shift
  <2> HIDE DEF s, p
  <2> QED BY <1>1, <2>1 DEF NoiseStates
<1>4. CASE o.volume # Tones!Silent /\ o.delay # 0
  <2>1. Tones!NoiseClock(o) = [o EXCEPT !.delay = @ - 1]
    BY <1>4, Zenon DEF Tones!NoiseClock
  <2> HIDE DEF s, p
  <2> QED BY <1>4, <2>1 DEF NoiseStates
<1> QED BY <1>2, <1>3, <1>4

LEMMA SquareRuns ==
  ASSUME NEW o \in SquareStates, NEW n \in Nat
  PROVE  \E f \in [0..n -> SquareStates] :
           /\ f[0] = o /\ f[n] = SquareAfter(o, n)
           /\ \A k \in 0..(n - 1) : f[k + 1] = Tones!SquareClock(f[k])
<1> DEFINE step == [x \in Nat \X SquareStates |-> Tones!SquareClock(x[2])]
<1>1. step \in [Nat \X SquareStates -> SquareStates]
  BY SquareClockType
<1>2. \A k \in Nat, s \in SquareStates : step[<<k, s>>] = Tones!SquareClock(s)
  OBVIOUS
<1> HIDE DEF step
<1>3. PICK f \in [0..n -> SquareStates] : Steps(f, o, step, n)
  BY <1>1, StepsExist
<1> DEFINE Is(g) == g = [k \in 0..n |-> IF k = 0 THEN o ELSE Tones!SquareClock(g[k - 1])]
<1>4. Is(f)
  <2>1. ASSUME NEW k \in 0..n
        PROVE  (IF k = 0 THEN o ELSE step[<<k, f[k - 1]>>]) = (IF k = 0 THEN o ELSE Tones!SquareClock(f[k - 1]))
    <3>1. k # 0 => k \in Nat /\ k - 1 \in 0..n
      OBVIOUS
    <3>2. k # 0 => f[k - 1] \in SquareStates
      BY <3>1
    <3> QED BY <1>2, <3>1, <3>2, Zenon
  <2>2. f = [k \in 0..n |-> IF k = 0 THEN o ELSE Tones!SquareClock(f[k - 1])]
    BY <1>3, <2>1, Zenon DEF Steps
  <2> QED BY <2>2
<1> DEFINE c == CHOOSE g : Is(g)
<1>5. Is(c)
  BY <1>4, Zenon
<1>6. SquareAfter(o, n) = c[n]
  BY Zenon DEF SquareAfter, Tones!After
<1> HIDE DEF c
<1>7. c[0] = o /\ \A k \in 0..(n - 1) : c[k + 1] = Tones!SquareClock(c[k])
  <2>1. 0 \in 0..n
    OBVIOUS
  <2>2. c[0] = o
    BY <1>5, <2>1, Zenon
  <2>3. ASSUME NEW k \in 0..(n - 1) PROVE c[k + 1] = Tones!SquareClock(c[k])
    <3>1. k + 1 \in 0..n /\ k + 1 # 0 /\ (k + 1) - 1 = k
      OBVIOUS
    <3>2. c[k + 1] = Tones!SquareClock(c[(k + 1) - 1])
      BY <1>5, <3>1, Zenon
    <3> QED BY <3>1, <3>2
  <2> QED BY <2>2, <2>3
<1>8. c \in [0..n -> SquareStates]
  <2> DEFINE T == {k \in 0..n : c[k] \in SquareStates}
  <2>1. 0 \in T
    BY <1>7
  <2>2. \A k \in 0..(n - 1) : k \in T => k + 1 \in T
    <3> TAKE k \in 0..(n - 1)
    <3> HAVE k \in T
    <3>1. k + 1 \in 0..n
      OBVIOUS
    <3> QED BY <1>7, <3>1, SquareClockType
  <2> HIDE DEF T
  <2>3. \A k \in 0..n : k \in T
    BY <2>1, <2>2, UpTo
  <2>4. \A k \in 0..n : c[k] \in SquareStates
    BY <2>3, Zenon DEF T
  <2>5. c = [k \in 0..n |-> c[k]]
    BY <1>5, Zenon
  <2> QED BY <2>4, <2>5, Zenon
<1> QED BY <1>6, <1>7, <1>8, Zenon

\* One clock after another.
LEMMA SquareAfterNext ==
  ASSUME NEW o \in SquareStates, NEW n \in Nat
  PROVE  /\ SquareAfter(o, 0) = o /\ SquareAfter(o, n) \in SquareStates
         /\ SquareAfter(o, n + 1) = Tones!SquareClock(SquareAfter(o, n))
<1>1. PICK f \in [0..n -> SquareStates] :
        /\ f[0] = o /\ f[n] = SquareAfter(o, n)
        /\ \A k \in 0..(n - 1) : f[k + 1] = Tones!SquareClock(f[k])
  BY SquareRuns
<1>2. PICK g \in [0..(n + 1) -> SquareStates] :
        /\ g[0] = o /\ g[n + 1] = SquareAfter(o, n + 1)
        /\ \A k \in 0..((n + 1) - 1) : g[k + 1] = Tones!SquareClock(g[k])
  <2>1. n + 1 \in Nat
    OBVIOUS
  <2> QED BY <2>1, SquareRuns
<1>3. f[n] = g[n]
  <2> DEFINE T == {k \in 0..n : f[k] = g[k]}
  <2>1. 0 \in T
    BY <1>1, <1>2
  <2>2. \A k \in 0..(n - 1) : k \in T => k + 1 \in T
    <3> TAKE k \in 0..(n - 1)
    <3> HAVE k \in T
    <3>1. k + 1 \in 0..n /\ k \in 0..((n + 1) - 1)
      OBVIOUS
    <3> QED BY <1>1, <1>2, <3>1
  <2>3. n \in 0..n
    OBVIOUS
  <2> HIDE DEF T
  <2>4. n \in T
    BY <2>1, <2>2, <2>3, UpTo
  <2> QED BY <2>4, Zenon DEF T
<1>4. g[n + 1] = Tones!SquareClock(g[n])
  <2>1. n \in 0..((n + 1) - 1)
    OBVIOUS
  <2> QED BY <1>2, <2>1
<1>5. SquareAfter(o, 0) = o
  <2>1. PICK h \in [0..0 -> SquareStates] : h[0] = o /\ h[0] = SquareAfter(o, 0)
    <3>1. 0 \in Nat
      OBVIOUS
    <3> QED BY <3>1, SquareRuns
  <2> QED BY <2>1
<1>6. f[n] \in SquareStates
  <2>1. n \in 0..n
    OBVIOUS
  <2> QED BY <2>1
<1> QED BY <1>1, <1>2, <1>3, <1>4, <1>5, <1>6, Zenon

\* A part of the time and then the rest.
LEMMA SquareAfterSum ==
  ASSUME NEW o \in SquareStates, NEW m \in Nat, NEW n \in Nat
  PROVE  SquareAfter(SquareAfter(o, m), n) = SquareAfter(o, m + n)
<1> DEFINE q == SquareAfter(o, m)
           T == {k \in 0..n : SquareAfter(q, k) = SquareAfter(o, m + k)}
<1>1. q \in SquareStates
  BY SquareAfterNext
<1>2. 0 \in T
  <2>1. m + 0 = m
    OBVIOUS
  <2> HIDE DEF q
  <2>2. SquareAfter(q, 0) = q
    BY <1>1, SquareAfterNext
  <2>3. SquareAfter(q, 0) = SquareAfter(o, m + 0)
    BY <2>1, <2>2 DEF q
  <2> QED BY <2>3
<1> HIDE DEF q
<1>3. \A k \in 0..(n - 1) : k \in T => k + 1 \in T
  <2> TAKE k \in 0..(n - 1)
  <2> HAVE k \in T
  <2>1. k \in Nat /\ m + k \in Nat /\ m + (k + 1) = (m + k) + 1 /\ k + 1 \in 0..n
    OBVIOUS
  <2>2. SquareAfter(q, k + 1) = Tones!SquareClock(SquareAfter(q, k))
    BY <1>1, <2>1, SquareAfterNext
  <2>3. SquareAfter(o, (m + k) + 1) = Tones!SquareClock(SquareAfter(o, m + k))
    BY <2>1, SquareAfterNext
  <2>4. SquareAfter(q, k) = SquareAfter(o, m + k)
    OBVIOUS
  <2>5. SquareAfter(q, k + 1) = SquareAfter(o, m + (k + 1))
    BY <2>1, <2>2, <2>3, <2>4
  <2> QED BY <2>1, <2>5
<1>4. n \in 0..n
  OBVIOUS
<1> HIDE DEF T
<1>5. n \in T
  BY <1>2, <1>3, <1>4, UpTo
<1> QED BY <1>5 DEF T, q

(* The same of the noise.                                                 *)
LEMMA NoiseRuns ==
  ASSUME NEW o \in NoiseStates, NEW n \in Nat
  PROVE  \E f \in [0..n -> NoiseStates] :
           /\ f[0] = o /\ f[n] = NoiseAfter(o, n)
           /\ \A k \in 0..(n - 1) : f[k + 1] = Tones!NoiseClock(f[k])
<1> DEFINE step == [x \in Nat \X NoiseStates |-> Tones!NoiseClock(x[2])]
<1>1. step \in [Nat \X NoiseStates -> NoiseStates]
  BY NoiseClockType
<1>2. \A k \in Nat, s \in NoiseStates : step[<<k, s>>] = Tones!NoiseClock(s)
  OBVIOUS
<1> HIDE DEF step
<1>3. PICK f \in [0..n -> NoiseStates] : Steps(f, o, step, n)
  BY <1>1, StepsExist
<1> DEFINE Is(g) == g = [k \in 0..n |-> IF k = 0 THEN o ELSE Tones!NoiseClock(g[k - 1])]
<1>4. Is(f)
  <2>1. ASSUME NEW k \in 0..n
        PROVE  (IF k = 0 THEN o ELSE step[<<k, f[k - 1]>>]) = (IF k = 0 THEN o ELSE Tones!NoiseClock(f[k - 1]))
    <3>1. k # 0 => k \in Nat /\ k - 1 \in 0..n
      OBVIOUS
    <3>2. k # 0 => f[k - 1] \in NoiseStates
      BY <3>1
    <3> QED BY <1>2, <3>1, <3>2, Zenon
  <2>2. f = [k \in 0..n |-> IF k = 0 THEN o ELSE Tones!NoiseClock(f[k - 1])]
    BY <1>3, <2>1, Zenon DEF Steps
  <2> QED BY <2>2
<1> DEFINE c == CHOOSE g : Is(g)
<1>5. Is(c)
  BY <1>4, Zenon
<1>6. NoiseAfter(o, n) = c[n]
  BY Zenon DEF NoiseAfter, Tones!After
<1> HIDE DEF c
<1>7. c[0] = o /\ \A k \in 0..(n - 1) : c[k + 1] = Tones!NoiseClock(c[k])
  <2>1. 0 \in 0..n
    OBVIOUS
  <2>2. c[0] = o
    BY <1>5, <2>1, Zenon
  <2>3. ASSUME NEW k \in 0..(n - 1) PROVE c[k + 1] = Tones!NoiseClock(c[k])
    <3>1. k + 1 \in 0..n /\ k + 1 # 0 /\ (k + 1) - 1 = k
      OBVIOUS
    <3>2. c[k + 1] = Tones!NoiseClock(c[(k + 1) - 1])
      BY <1>5, <3>1, Zenon
    <3> QED BY <3>1, <3>2
  <2> QED BY <2>2, <2>3
<1>8. c \in [0..n -> NoiseStates]
  <2> DEFINE T == {k \in 0..n : c[k] \in NoiseStates}
  <2>1. 0 \in T
    BY <1>7
  <2>2. \A k \in 0..(n - 1) : k \in T => k + 1 \in T
    <3> TAKE k \in 0..(n - 1)
    <3> HAVE k \in T
    <3>1. k + 1 \in 0..n
      OBVIOUS
    <3> QED BY <1>7, <3>1, NoiseClockType
  <2> HIDE DEF T
  <2>3. \A k \in 0..n : k \in T
    BY <2>1, <2>2, UpTo
  <2>4. \A k \in 0..n : c[k] \in NoiseStates
    BY <2>3, Zenon DEF T
  <2>5. c = [k \in 0..n |-> c[k]]
    BY <1>5, Zenon
  <2> QED BY <2>4, <2>5, Zenon
<1> QED BY <1>6, <1>7, <1>8, Zenon

\* One clock after another.
LEMMA NoiseAfterNext ==
  ASSUME NEW o \in NoiseStates, NEW n \in Nat
  PROVE  /\ NoiseAfter(o, 0) = o /\ NoiseAfter(o, n) \in NoiseStates
         /\ NoiseAfter(o, n + 1) = Tones!NoiseClock(NoiseAfter(o, n))
<1>1. PICK f \in [0..n -> NoiseStates] :
        /\ f[0] = o /\ f[n] = NoiseAfter(o, n)
        /\ \A k \in 0..(n - 1) : f[k + 1] = Tones!NoiseClock(f[k])
  BY NoiseRuns
<1>2. PICK g \in [0..(n + 1) -> NoiseStates] :
        /\ g[0] = o /\ g[n + 1] = NoiseAfter(o, n + 1)
        /\ \A k \in 0..((n + 1) - 1) : g[k + 1] = Tones!NoiseClock(g[k])
  <2>1. n + 1 \in Nat
    OBVIOUS
  <2> QED BY <2>1, NoiseRuns
<1>3. f[n] = g[n]
  <2> DEFINE T == {k \in 0..n : f[k] = g[k]}
  <2>1. 0 \in T
    BY <1>1, <1>2
  <2>2. \A k \in 0..(n - 1) : k \in T => k + 1 \in T
    <3> TAKE k \in 0..(n - 1)
    <3> HAVE k \in T
    <3>1. k + 1 \in 0..n /\ k \in 0..((n + 1) - 1)
      OBVIOUS
    <3> QED BY <1>1, <1>2, <3>1
  <2>3. n \in 0..n
    OBVIOUS
  <2> HIDE DEF T
  <2>4. n \in T
    BY <2>1, <2>2, <2>3, UpTo
  <2> QED BY <2>4, Zenon DEF T
<1>4. g[n + 1] = Tones!NoiseClock(g[n])
  <2>1. n \in 0..((n + 1) - 1)
    OBVIOUS
  <2> QED BY <1>2, <2>1
<1>5. NoiseAfter(o, 0) = o
  <2>1. PICK h \in [0..0 -> NoiseStates] : h[0] = o /\ h[0] = NoiseAfter(o, 0)
    <3>1. 0 \in Nat
      OBVIOUS
    <3> QED BY <3>1, NoiseRuns
  <2> QED BY <2>1
<1>6. f[n] \in NoiseStates
  <2>1. n \in 0..n
    OBVIOUS
  <2> QED BY <2>1
<1> QED BY <1>1, <1>2, <1>3, <1>4, <1>5, <1>6, Zenon

\* A part of the time and then the rest.
LEMMA NoiseAfterSum ==
  ASSUME NEW o \in NoiseStates, NEW m \in Nat, NEW n \in Nat
  PROVE  NoiseAfter(NoiseAfter(o, m), n) = NoiseAfter(o, m + n)
<1> DEFINE q == NoiseAfter(o, m)
           T == {k \in 0..n : NoiseAfter(q, k) = NoiseAfter(o, m + k)}
<1>1. q \in NoiseStates
  BY NoiseAfterNext
<1>2. 0 \in T
  <2>1. m + 0 = m
    OBVIOUS
  <2> HIDE DEF q
  <2>2. NoiseAfter(q, 0) = q
    BY <1>1, NoiseAfterNext
  <2>3. NoiseAfter(q, 0) = NoiseAfter(o, m + 0)
    BY <2>1, <2>2 DEF q
  <2> QED BY <2>3
<1> HIDE DEF q
<1>3. \A k \in 0..(n - 1) : k \in T => k + 1 \in T
  <2> TAKE k \in 0..(n - 1)
  <2> HAVE k \in T
  <2>1. k \in Nat /\ m + k \in Nat /\ m + (k + 1) = (m + k) + 1 /\ k + 1 \in 0..n
    OBVIOUS
  <2>2. NoiseAfter(q, k + 1) = Tones!NoiseClock(NoiseAfter(q, k))
    BY <1>1, <2>1, NoiseAfterNext
  <2>3. NoiseAfter(o, (m + k) + 1) = Tones!NoiseClock(NoiseAfter(o, m + k))
    BY <2>1, NoiseAfterNext
  <2>4. NoiseAfter(q, k) = NoiseAfter(o, m + k)
    OBVIOUS
  <2>5. NoiseAfter(q, k + 1) = NoiseAfter(o, m + (k + 1))
    BY <2>1, <2>2, <2>3, <2>4
  <2> QED BY <2>1, <2>5
<1>4. n \in 0..n
  OBVIOUS
<1> HIDE DEF T
<1>5. n \in T
  BY <1>2, <1>3, <1>4, UpTo
<1> QED BY <1>5 DEF T, q

SquareTo(o, ph, dl) == [o EXCEPT !.phase = ph, !.delay = dl]

\* A square wave after j clocks and i edges.
SquareAt(o, j, i) == SquareTo(o, (o.phase + i) % 2, o.delay + i * o.period - j)

LEMMA SquareTurnsStep ==
  ASSUME NEW o \in SquareStates, o.period # 0, NEW j \in Nat, NEW i, Turned(o.delay, o.period, j, i)
  PROVE  \E k : Turned(o.delay, o.period, j + 1, k) /\ Tones!SquareClock(SquareAt(o, j, i)) = SquareAt(o, j + 1, k)
<1> DEFINE q == SquareAt(o, j, i)
           left == o.delay + i * o.period - j
<1>1. o.delay \in Nat /\ o.period \in Nat \ {0} /\ o.phase \in {0, 1} /\ i \in Nat
  BY DEF SquareStates, Turned
<1>2. /\ left \in Nat
      /\ left = 0 => Turned(o.delay, o.period, j + 1, i + 1) /\ o.delay + (i + 1) * o.period - (j + 1) = o.period - 1
      /\ left # 0 => Turned(o.delay, o.period, j + 1, i)
      /\ o.delay + i * o.period - (j + 1) = left - 1
  BY <1>1, TurnedStep
<1>3. q = [o EXCEPT !.phase = (o.phase + i) % 2, !.delay = left]
  BY DEF SquareAt, SquareTo
<1>4. q.period = o.period /\ q.delay = left /\ q.phase = (o.phase + i) % 2
  BY DEF SquareAt, SquareTo, SquareStates
<1> HIDE DEF q
<1>5. CASE left = 0
  <2>1. Tones!SquareClock(q) = [q EXCEPT !.phase = 1 - q.phase, !.delay = q.period - 1]
    BY <1>1, <1>4, <1>5 DEF Tones!SquareClock
  <2>2. 1 - ((o.phase + i) % 2) = (o.phase + (i + 1)) % 2
    BY <1>1
  <2>3. Tones!SquareClock(q) = [q EXCEPT !.phase = (o.phase + (i + 1)) % 2,
                                         !.delay = o.delay + (i + 1) * o.period - (j + 1)]
    BY <1>2, <1>4, <1>5, <2>1, <2>2, Zenon
  <2>4. Tones!SquareClock(q) = SquareAt(o, j + 1, i + 1)
    BY <1>3, <2>3 DEF SquareStates, SquareAt, SquareTo
  <2> QED BY <1>2, <1>5, <2>4 DEF q
<1>6. CASE left # 0
  <2>1. Tones!SquareClock(q) = [q EXCEPT !.delay = q.delay - 1]
    BY <1>1, <1>4, <1>6 DEF Tones!SquareClock
  <2>2. left - 1 = o.delay + i * o.period - (j + 1)
    BY <1>2
  <2>3. Tones!SquareClock(q) = [q EXCEPT !.delay = o.delay + i * o.period - (j + 1)]
    BY <1>4, <2>1, <2>2, Zenon
  <2>4. Tones!SquareClock(q) = SquareAt(o, j + 1, i)
    BY <1>3, <2>3 DEF SquareStates, SquareAt, SquareTo
  <2> QED BY <1>2, <1>6, <2>4 DEF q
<1> QED BY <1>5, <1>6

\* All edges of a square wave at once.
LEMMA SquareTurns ==
  ASSUME NEW o \in SquareStates, o.period # 0, NEW n \in Nat, NEW k, Turned(o.delay, o.period, n, k)
  PROVE  SquareAfter(o, n) = SquareAt(o, n, k)
<1> DEFINE Is(j, i) == Turned(o.delay, o.period, j, i) /\ SquareAfter(o, j) = SquareAt(o, j, i)
           T == {j \in 0..n : \E i : Is(j, i)}
<1>1. o.delay \in Nat /\ o.period \in Nat \ {0} /\ o.phase \in {0, 1}
  BY DEF SquareStates
<1>2. 0 \in T
  <2>1. Turned(o.delay, o.period, 0, 0)
    BY <1>1 DEF Turned
  <2>2. SquareAt(o, 0, 0) = o
    <3>1. o.delay + 0 * o.period - 0 = o.delay /\ (o.phase + 0) % 2 = o.phase
      BY <1>1
    <3>2. [o EXCEPT !.phase = o.phase, !.delay = o.delay] = o
      BY DEF SquareStates
    <3> QED BY <3>1, <3>2 DEF SquareAt, SquareTo
  <2>3. SquareAfter(o, 0) = SquareAt(o, 0, 0)
    BY <2>2, SquareAfterNext
  <2>4. Is(0, 0) /\ 0 \in 0..n
    BY <2>1, <2>3
  <2> HIDE DEF Is
  <2> QED BY <2>4
<1>3. ASSUME NEW j \in 0..(n - 1), j \in T PROVE j + 1 \in T
  <2>1. PICK i : Is(j, i)
    BY <1>3
  <2>2. j \in Nat /\ j + 1 \in 0..n
    OBVIOUS
  <2>3. SquareAfter(o, j + 1) = Tones!SquareClock(SquareAt(o, j, i))
    BY <2>1, <2>2, SquareAfterNext
  <2>4. PICK h : Turned(o.delay, o.period, j + 1, h) /\ Tones!SquareClock(SquareAt(o, j, i)) = SquareAt(o, j + 1, h)
    BY <2>1, <2>2, SquareTurnsStep
  <2>5. Is(j + 1, h)
    BY <2>3, <2>4
  <2> HIDE DEF Is
  <2> QED BY <2>2, <2>5
<1>4. n \in 0..n
  OBVIOUS
<1> HIDE DEF T
<1>5. n \in T
  BY <1>2, <1>3, <1>4, UpTo
<1>6. PICK i : Is(n, i)
  BY <1>5 DEF T
<1>7. i = k
  BY <1>1, <1>6, TurnedOnce
<1> QED BY <1>6, <1>7

\* A square wave without a period.
LEMMA SquareStands ==
  ASSUME NEW o \in SquareStates, o.period = 0, NEW n \in Nat, n # 0
  PROVE  SquareAfter(o, n) = [o EXCEPT !.delay = 0]
<1> DEFINE q == SquareAfter(o, n - 1)
           T == {j \in 0..(n - 1) : SquareAfter(o, j) \in {o, [o EXCEPT !.delay = 0]}}
<1>1. 0 \in T
  BY SquareAfterNext
<1>2. \A j \in 0..((n - 1) - 1) : j \in T => j + 1 \in T
  <2> TAKE j \in 0..((n - 1) - 1)
  <2> HAVE j \in T
  <2>1. j \in Nat /\ j + 1 \in 0..(n - 1)
    OBVIOUS
  <2>2. SquareAfter(o, j + 1) = Tones!SquareClock(SquareAfter(o, j))
    BY <2>1, SquareAfterNext
  <2> QED BY <2>1, <2>2 DEF Tones!SquareClock, SquareStates
<1>3. n - 1 \in 0..(n - 1) /\ n - 1 \in Nat /\ (n - 1) + 1 = n
  OBVIOUS
<1> HIDE DEF T
<1>4. n - 1 \in T
  BY <1>1, <1>2, <1>3, UpTo
<1>5. q = o \/ q = [o EXCEPT !.delay = 0]
  BY <1>4 DEF T
<1>6. SquareAfter(o, n) = Tones!SquareClock(q)
  BY <1>3, SquareAfterNext
<1> HIDE DEF q
<1> QED BY <1>5, <1>6 DEF Tones!SquareClock, SquareStates

\* A muted noise stands still.
LEMMA NoiseStands ==
  ASSUME NEW o \in NoiseStates, o.volume = Tones!Silent, NEW n \in Nat, n # 0
  PROVE  NoiseAfter(o, n) = [o EXCEPT !.delay = 0]
<1> DEFINE q == NoiseAfter(o, n - 1)
           T == {j \in 0..(n - 1) : NoiseAfter(o, j) \in {o, [o EXCEPT !.delay = 0]}}
<1>1. 0 \in T
  BY NoiseAfterNext
<1>2. \A j \in 0..((n - 1) - 1) : j \in T => j + 1 \in T
  <2> TAKE j \in 0..((n - 1) - 1)
  <2> HAVE j \in T
  <2>1. j \in Nat /\ j + 1 \in 0..(n - 1)
    OBVIOUS
  <2>2. NoiseAfter(o, j + 1) = Tones!NoiseClock(NoiseAfter(o, j))
    BY <2>1, NoiseAfterNext
  <2>3. Tones!NoiseClock(NoiseAfter(o, j)) = [o EXCEPT !.delay = 0]
    <3>1. CASE NoiseAfter(o, j) = o
      BY <3>1, Zenon DEF Tones!NoiseClock
    <3>2. CASE NoiseAfter(o, j) = [o EXCEPT !.delay = 0]
      <4>1. NoiseAfter(o, j).volume = Tones!Silent
        BY <3>2 DEF NoiseStates
      <4>2. [NoiseAfter(o, j) EXCEPT !.delay = 0] = [o EXCEPT !.delay = 0]
        BY <3>2 DEF NoiseStates
      <4> QED BY <4>1, <4>2, Zenon DEF Tones!NoiseClock
    <3> QED BY <3>1, <3>2
  <2> QED BY <2>1, <2>2, <2>3
<1>3. n - 1 \in 0..(n - 1) /\ n - 1 \in Nat /\ (n - 1) + 1 = n
  OBVIOUS
<1> HIDE DEF T
<1>4. n - 1 \in T
  BY <1>1, <1>2, <1>3, UpTo
<1>5. q = o \/ q = [o EXCEPT !.delay = 0]
  BY <1>4 DEF T
<1>6. NoiseAfter(o, n) = Tones!NoiseClock(q)
  BY <1>3, NoiseAfterNext
<1> HIDE DEF q
<1>7. q.volume = Tones!Silent /\ [q EXCEPT !.delay = 0] = [o EXCEPT !.delay = 0]
  BY <1>5 DEF NoiseStates
<1> QED BY <1>6, <1>7, Zenon DEF Tones!NoiseClock

-----------------------------------------------------------------------------
(* What a run of the chip does in one go. *)

SquareOscs ==
  [volume : Int \X Int, last : Int \X Int, delay : Nat, low : Nat, high : Nat, phase : {0, 1}]
NoiseOscs ==
  [volume : Int \X Int, last : Int \X Int, delay : Nat, low : Nat, high : Nat, select : 0..3,
   tapped : BOOLEAN, shifter : Shifters]

LEMMA Pairs ==
  ASSUME NEW v \in Int \X Int, NEW w \in Int \X Int, NEW on
  PROVE  /\ Silent \in Int \X Int /\ Minus(v, w) \in Int \X Int /\ Twice(v) \in Int \X Int
         /\ Opposite(v) \in Int \X Int /\ Signed(on, v) \in Int \X Int
<1>1. Silent \in Int \X Int
  BY DEF Silent
<1>2. Minus(v, w) \in Int \X Int /\ Twice(v) \in Int \X Int
  BY DEF Minus, Twice
<1>3. Opposite(v) \in Int \X Int
  BY <1>1 DEF Opposite, Minus
<1> QED BY <1>1, <1>2, <1>3 DEF Signed

LEMMA PeriodType ==
  ASSUME NEW l \in Nat, NEW h \in Nat
  PROVE  l * LowUnit + h * HighUnit \in Nat
<1>1. LowUnit \in Nat /\ HighUnit \in Nat
  BY ChipAssumption
<1>2. l * LowUnit \in Nat /\ h * HighUnit \in Nat
  BY <1>1
<1> QED BY <1>2

LEMMA SquareMaps ==
  ASSUME NEW o \in SquareOscs
  PROVE  /\ Square(o) \in SquareStates /\ Period(o) \in Nat
         /\ Square(o) = [volume |-> o.volume, period |-> Period(o), delay |-> o.delay, phase |-> o.phase]
<1>1. Period(o) \in Nat
  BY PeriodType DEF Period, SquareOscs
<1> QED BY <1>1 DEF Square, SquareStates, SquareOscs

LEMMA NoiseMaps ==
  ASSUME NEW o \in NoiseOscs
  PROVE  /\ Noise(o) \in NoiseStates /\ Period(o) \in Nat
         /\ Noise(o) = [volume |-> o.volume, extra |-> Period(o), delay |-> o.delay, select |-> o.select,
                        tapped |-> o.tapped, shifter |-> o.shifter]
         /\ NoisePeriod(o) = Tones!NoisePeriod(Noise(o)) /\ NoisePeriod(o) \in Nat \ {0}
<1>1. Period(o) \in Nat
  BY PeriodType DEF Period, NoiseOscs
<1>2. Noise(o) \in NoiseStates
  BY <1>1 DEF Noise, NoiseStates, NoiseOscs
<1>3. Noise(o).select = o.select /\ Noise(o).extra = Period(o)
  BY DEF Noise
<1>4. NoisePeriod(o) = Tones!NoisePeriod(Noise(o))
  BY <1>3, Zenon DEF NoisePeriod, Tones!NoisePeriod
<1> QED BY <1>1, <1>2, <1>4, NoisePeriodType DEF Noise

\* What the loops count by running: the least number of steps that reaches the end.
Least(S, first, p, end) ==
  CHOOSE n \in S : first + n * p >= end /\ \A m \in 0..(n - 1) : first + m * p < end

LEMMA ChoiceIs ==
  ASSUME NEW time \in Nat, NEW d \in Nat, NEW p \in Nat, NEW end \in Nat, time <= end,
         NEW k, Turned(d, p, end - time, k), NEW S, S \subseteq Nat, k \in S
  PROVE  Least(S, time + d, p, end) = k
<1> DEFINE P(n) == (time + d) + n * p >= end /\ \A m \in 0..(n - 1) : (time + d) + m * p < end
<1>1. ASSUME NEW n \in S PROVE P(n) <=> Turned(d, p, end - time, n)
  <2>1. n \in Nat /\ n * p \in Nat
    BY Products
  <2>2. (time + d) + n * p >= end <=> d + n * p >= end - time
    BY <2>1
  <2>3. ASSUME NEW m \in 0..(n - 1) PROVE (time + d) + m * p < end <=> d + m * p < end - time
    <3>1. m * p \in Nat
      BY <2>1, Products
    <3> QED BY <3>1
  <2> QED BY <2>1, <2>2, <2>3 DEF Turned
<1>2. P(k)
  BY <1>1
<1>3. ASSUME NEW n \in S, P(n) PROVE n = k
  <2>1. Turned(d, p, end - time, n) /\ end - time \in Nat
    BY <1>1, <1>3
  <2> QED BY <2>1, TurnedOnce
<1> HIDE DEF P
<1>4. (CHOOSE n \in S : P(n)) = k
  BY <1>2, <1>3, Zenon
<1> QED BY <1>4 DEF P, Least

\* What a run leaves of a square wave.
SquareLeft(o, v, ph, dl) == [o EXCEPT !.last = v, !.phase = ph, !.delay = dl]

LEMMA SquareChanged ==
  ASSUME NEW o \in SquareOscs, NEW v \in Int \X Int, NEW ph \in {0, 1}, NEW dl \in Nat
  PROVE  /\ SquareLeft(o, v, ph, dl) \in SquareOscs
         /\ Square(SquareLeft(o, v, ph, dl)) = SquareTo(Square(o), ph, dl)
<1> DEFINE r == SquareLeft(o, v, ph, dl)
<1>1. /\ r.volume = o.volume /\ r.low = o.low /\ r.high = o.high /\ r.phase = ph /\ r.delay = dl
      /\ r \in SquareOscs
  BY DEF SquareOscs, SquareLeft
<1> HIDE DEF r
<1>2. Period(r) = Period(o)
  BY <1>1 DEF Period
<1>3. Square(r) = [volume |-> o.volume, period |-> Period(o), delay |-> dl, phase |-> ph]
  BY <1>1, <1>2, Zenon DEF Square
<1>4. SquareTo(Square(o), ph, dl)
        = [volume |-> o.volume, period |-> Period(o), delay |-> dl, phase |-> ph]
  <2> DEFINE q == Square(o)
  <2>1. q \in SquareStates /\ q.volume = o.volume /\ q.period = Period(o)
    BY SquareMaps
  <2> HIDE DEF q
  <2>2. [q EXCEPT !.phase = ph, !.delay = dl] = [volume |-> q.volume, period |-> q.period, delay |-> dl, phase |-> ph]
    <3> DEFINE r1 == [q EXCEPT !.phase = ph]
    <3>1. r1 \in SquareStates /\ r1.volume = q.volume /\ r1.period = q.period /\ r1.phase = ph
      BY <2>1 DEF SquareStates
    <3> HIDE DEF r1
    <3>2. [r1 EXCEPT !.delay = dl] = [volume |-> r1.volume, period |-> r1.period, delay |-> dl, phase |-> r1.phase]
      BY <3>1 DEF SquareStates
    <3> QED BY <3>1, <3>2 DEF r1
  <2> QED BY <2>1, <2>2 DEF q, SquareTo
<1> QED BY <1>1, <1>3, <1>4 DEF r

LEMMA LoudEdges ==
  ASSUME NEW time \in Nat, NEW d \in Nat, NEW p \in Nat \ {0}, NEW end \in Nat, time < end,
         NEW k, Turned(d, p, end - time, k)
  PROVE  Least(0..(end - time), time + d, p, end) = k
<1>1. end - time \in Nat /\ 0..(end - time) \subseteq Nat
  OBVIOUS
<1>2. k \in 0..(end - time)
  BY <1>1, TurnedBound
<1>3. time <= end /\ p \in Nat
  OBVIOUS
<1> DEFINE S == 0..(end - time)
<1>4. S \subseteq Nat /\ k \in S
  BY <1>1, <1>2
<1> HIDE DEF S
<1>5. Least(S, time + d, p, end) = k
  BY <1>3, <1>4, ChoiceIs
<1> QED BY <1>5 DEF S

\* T6W28_Square::run()
LEMMA SquareCatchesUp ==
  ASSUME NEW o \in SquareOscs, NEW time \in Nat, NEW end \in Nat, time < end
  PROVE  /\ RunSquare(o, time, end).osc \in SquareOscs
         /\ Square(RunSquare(o, time, end).osc) = SquareAfter(Square(o), end - time)
<1> DEFINE p == Period(o)
           d == o.delay
           n == end - time
           s == Square(o)
<1>1. s \in SquareStates /\ p \in Nat /\ s.period = p /\ s.delay = d /\ s.phase = o.phase
  BY SquareMaps
<1>2. n \in Nat \ {0} /\ d \in Nat /\ o.phase \in {0, 1} /\ o.volume \in Int \X Int
  BY DEF SquareOscs
<1>3. CASE p = 0
  <2>1. RunSquare(o, time, end).osc = SquareLeft(o, Silent, (o.phase + 0) % 2, 0)
    <3>1. Period(o) <= Audible /\ Edges(time + d, end, p) = 0
      BY <1>3, ChipAssumption DEF Edges
    <3> QED BY <1>3, <3>1 DEF RunSquare, QuietSquare, SquareLeft
  <2>2. (o.phase + 0) % 2 = o.phase
    BY <1>2
  <2>3. /\ RunSquare(o, time, end).osc \in SquareOscs
        /\ Square(RunSquare(o, time, end).osc) = SquareTo(s, o.phase, 0)
    <3>1. Silent \in Int \X Int /\ 0 \in Nat
      BY DEF Silent
    <3>2. /\ SquareLeft(o, Silent, o.phase, 0) \in SquareOscs
          /\ Square(SquareLeft(o, Silent, o.phase, 0)) = SquareTo(s, o.phase, 0)
      BY <1>2, <3>1, SquareChanged
    <3> QED BY <2>1, <2>2, <3>2
  <2>4. SquareAfter(s, n) = [s EXCEPT !.delay = 0]
    BY <1>1, <1>2, <1>3, SquareStands
  <2>5. SquareTo(s, o.phase, 0) = [s EXCEPT !.delay = 0]
    BY <1>1 DEF SquareStates, SquareTo
  <2> QED BY <2>3, <2>4, <2>5
<1>4. CASE p # 0
  <2>1. PICK k : Turned(d, p, n, k)
    BY <1>1, <1>2, <1>4, TurnedExists
  <2>2. k \in Nat /\ k <= n
    BY <1>1, <1>2, <1>4, <2>1, TurnedBound
  <2>3. d + k * p - n \in Nat
    BY <1>1, <1>2, <1>4, <2>1, TurnedStep
  <2>4. (time + d) + k * p - end = d + k * p - n
    <3>1. k * p \in Nat
      BY <1>1, <2>2
    <3> QED BY <1>2, <3>1
  <2>5. \E v \in Int \X Int :
          RunSquare(o, time, end).osc = SquareLeft(o, v, (o.phase + k) % 2, (time + d) + k * p - end)
    <3>1. CASE o.volume = Silent \/ p <= Audible
      <4>1. Edges(time + d, end, p) = k
        <5>1. Turned(d, p, n, Edges(time + d, end, p))
          BY <1>1, <1>2, <1>4, EdgesTurned
        <5> QED BY <1>1, <1>2, <2>1, <5>1, TurnedOnce
      <4>2. QuietSquare(o, time, end).osc = SquareLeft(o, Silent, (o.phase + k) % 2, (time + d) + k * p - end)
        BY <1>4, <4>1 DEF QuietSquare, SquareLeft
      <4> QED BY <1>2, <3>1, <4>2, Pairs DEF RunSquare
    <3>2. CASE ~(o.volume = Silent \/ p <= Audible)
      <4> DEFINE edges == CHOOSE i \in 0..(end - time) :
                            /\ (time + d) + i * p >= end
                            /\ \A m \in 0..(i - 1) : (time + d) + m * p < end
      <4>1. edges = k
        <5>1. Least(0..(end - time), time + d, p, end) = k
          <6>1. p \in Nat \ {0} /\ d \in Nat /\ Turned(d, p, end - time, k)
            BY <1>1, <1>2, <1>4, <2>1
          <6> HIDE DEF p, d
          <6> QED BY <6>1, LoudEdges
        <5> QED BY <5>1 DEF Least
      <4>2. LoudSquare(o, time, end).osc =
              SquareLeft(o, LevelAfter(o, edges), (o.phase + edges) % 2, (time + d) + edges * p - end)
        BY DEF LoudSquare, SquareLeft
      <4> HIDE DEF edges
      <4>3. LevelAfter(o, k) \in Int \X Int
        BY <1>2, Pairs DEF LevelAfter
      <4> QED BY <3>2, <4>1, <4>2, <4>3 DEF RunSquare
    <3> QED BY <3>1, <3>2
  <2>6. PICK v \in Int \X Int :
          RunSquare(o, time, end).osc = SquareLeft(o, v, (o.phase + k) % 2, d + k * p - n)
    BY <2>4, <2>5
  <2>7. (o.phase + k) % 2 \in {0, 1}
    BY <1>2, <2>2
  <2>8. /\ RunSquare(o, time, end).osc \in SquareOscs
        /\ Square(RunSquare(o, time, end).osc) = SquareTo(s, (o.phase + k) % 2, d + k * p - n)
    <3>1. /\ SquareLeft(o, v, (o.phase + k) % 2, d + k * p - n) \in SquareOscs
          /\ Square(SquareLeft(o, v, (o.phase + k) % 2, d + k * p - n))
               = SquareTo(s, (o.phase + k) % 2, d + k * p - n)
      BY <2>3, <2>7, SquareChanged
    <3> QED BY <2>6, <3>1, Zenon
  <2>9. SquareAfter(s, n) = SquareAt(s, n, k)
    BY <1>1, <1>2, <1>4, <2>1, SquareTurns
  <2>10. SquareAt(s, n, k) = SquareTo(s, (o.phase + k) % 2, d + k * p - n)
    BY <1>1 DEF SquareAt
  <2> QED BY <2>8, <2>9, <2>10
<1> QED BY <1>3, <1>4

(* The loop of T6W28_Noise::run(). *)
Adds == Seq(Int \X (Int \X Int))
LoopStates == [osc : NoiseOscs, delta : Int \X Int, adds : Adds]

LoopStart(o) == [osc |-> o, delta |-> Twice(Signed(~o.shifter[1], o.volume)), adds |-> <<>>]
LoopNext(b, t) ==
  LET changed == b.osc.shifter[1] # b.osc.shifter[2]
      delta == Signed(~changed, b.delta)
  IN  [osc |-> Shifted(b.osc), delta |-> delta, adds |-> IF changed THEN Append(b.adds, <<t, delta>>) ELSE b.adds]

\* at holds what the loop has done after each of n edges, the first of them at a given clock.
LoopOf(at, o, n, first, p) ==
  /\ at \in [0..n -> LoopStates] /\ at[0] = LoopStart(o)
  /\ \A k \in 0..(n - 1) : at[k + 1] = LoopNext(at[k], first + k * p)

LEMMA BitType ==
  ASSUME NEW s \in Shifters
  PROVE  s[1] \in BOOLEAN /\ s[2] \in BOOLEAN
<1>1. s \in Seq(BOOLEAN) /\ Len(s) = ShifterBits /\ ShifterBits \in Nat \ {0, 1}
  BY ChipAssumption DEF Shifters
<1>2. 1 \in 1..Len(s) /\ 2 \in 1..Len(s)
  BY <1>1
<1> QED BY <1>1, <1>2, ElementOfSeq

LEMMA ShiftedParts ==
  ASSUME NEW o \in NoiseOscs
  PROVE  /\ Shifted(o) \in NoiseOscs
         /\ Shifted(o) = [o EXCEPT !.shifter = Append(Tail(o.shifter), IF o.tapped THEN o.shifter[1] # o.shifter[2]
                                                                                 ELSE o.shifter[1])]
<1> DEFINE s == Append(Tail(o.shifter), IF o.tapped THEN o.shifter[1] # o.shifter[2] ELSE o.shifter[1])
<1>1. o.shifter \in Shifters /\ o.tapped \in BOOLEAN
  BY DEF NoiseOscs
<1>2. s \in Shifters
  BY <1>1, ShiftedType
<1>3. Shifted(o) = [o EXCEPT !.shifter = s]
  BY DEF Shifted
<1> HIDE DEF s
<1>4. Shifted(o) \in NoiseOscs
  BY <1>2, <1>3 DEF NoiseOscs
<1> QED BY <1>3, <1>4 DEF s

LEMMA LoopStartType ==
  ASSUME NEW o \in NoiseOscs
  PROVE  LoopStart(o) \in LoopStates
<1>1. o.volume \in Int \X Int
  BY DEF NoiseOscs
<1>2. Signed(~o.shifter[1], o.volume) \in Int \X Int
  BY <1>1, Pairs
<1>3. Twice(Signed(~o.shifter[1], o.volume)) \in Int \X Int
  BY <1>2, Pairs
<1>4. <<>> \in Adds
  BY DEF Adds
<1> QED BY <1>3, <1>4 DEF LoopStart, LoopStates

LEMMA LoopNextType ==
  ASSUME NEW b \in LoopStates, NEW t \in Int
  PROVE  LoopNext(b, t) \in LoopStates
<1> DEFINE changed == b.osc.shifter[1] # b.osc.shifter[2]
           delta == Signed(~changed, b.delta)
           adds == IF changed THEN Append(b.adds, <<t, delta>>) ELSE b.adds
<1>1. b.osc \in NoiseOscs /\ b.delta \in Int \X Int /\ b.adds \in Adds
  BY DEF LoopStates
<1>2. Shifted(b.osc) \in NoiseOscs
  BY <1>1, ShiftedParts
<1>3. delta \in Int \X Int
  BY <1>1, Pairs
<1>4. LoopNext(b, t) = [osc |-> Shifted(b.osc), delta |-> delta, adds |-> adds]
  BY Zenon DEF LoopNext
<1> HIDE DEF delta
<1>5. adds \in Adds
  BY <1>1, <1>3 DEF Adds
<1> HIDE DEF adds
<1> QED BY <1>2, <1>3, <1>4, <1>5 DEF LoopStates

\* What the loop returns at its end.
Half(v) == <<v[1] \div 2, v[2] \div 2>>
NoiseStopped(q, v, dl) == [q EXCEPT !.last = v, !.delay = dl]
LoopResult(b, dl) == [adds |-> b.adds, osc |-> NoiseStopped(b.osc, Half(b.delta), dl)]

LoopRun(at, o, n, first, end) ==
  /\ LoopOf(at, o, n, first, NoisePeriod(o))
  /\ NoiseLoop(o, first, end) = LoopResult(at[n], first + n * NoisePeriod(o) - end)

\* The loop runs as often as there are edges.
LEMMA LoopRuns ==
  ASSUME NEW o \in NoiseOscs, NEW base \in Nat, NEW d \in Nat, NEW end \in Nat, base <= end,
         NEW n, Turned(d, NoisePeriod(o), end - base, n)
  PROVE  \E at : LoopRun(at, o, n, base + d, end)
<1> DEFINE p == NoisePeriod(o)
           time == base + d
<1>1. p \in Nat \ {0} /\ n \in Nat
  BY NoiseMaps DEF Turned
<1>2. Least({0} \cup 1..(end - time), time, p, end) = n
  <2> DEFINE S == {0} \cup 1..(end - time)
  <2>1. n = 0 \/ n <= (end - base) - d
    <3>1. end - base \in Nat /\ Turned(d, p, end - base, n)
      OBVIOUS
    <3> HIDE DEF p
    <3> QED BY <1>1, <3>1, TurnedBound
  <2>2. S \subseteq Nat /\ n \in S
    BY <1>1, <2>1
  <2> HIDE DEF S, p
  <2>3. p \in Nat
    BY <1>1
  <2>4. Least(S, base + d, p, end) = n
    BY <2>2, <2>3, ChoiceIs DEF p
  <2> QED BY <2>4 DEF S
<1> DEFINE step == [x \in Nat \X LoopStates |-> LoopNext(x[2], time + (x[1] - 1) * p)]
           Is(f) == f = [k \in 0..n |-> IF k = 0 THEN LoopStart(o) ELSE LoopNext(f[k - 1], time + (k - 1) * p)]
<1> HIDE DEF p
<1>3. step \in [Nat \X LoopStates -> LoopStates]
  <2> SUFFICES ASSUME NEW k \in Nat, NEW b \in LoopStates
               PROVE  LoopNext(b, time + (k - 1) * p) \in LoopStates
    OBVIOUS
  <2>1. time + (k - 1) * p \in Int
    BY <1>1
  <2> QED BY <2>1, LoopNextType
<1>4. \A k \in Nat, b \in LoopStates : step[<<k, b>>] = LoopNext(b, time + (k - 1) * p)
  OBVIOUS
<1> HIDE DEF step
<1>5. PICK f \in [0..n -> LoopStates] : Steps(f, LoopStart(o), step, n)
  BY <1>1, <1>3, LoopStartType, StepsExist
<1>6. Is(f)
  <2>1. ASSUME NEW k \in 0..n
        PROVE  (IF k = 0 THEN LoopStart(o) ELSE step[<<k, f[k - 1]>>])
                 = (IF k = 0 THEN LoopStart(o) ELSE LoopNext(f[k - 1], time + (k - 1) * p))
    <3>1. k # 0 => k \in Nat /\ k - 1 \in 0..n
      BY <1>1
    <3>2. k # 0 => f[k - 1] \in LoopStates
      BY <3>1
    <3> QED BY <1>4, <3>1, <3>2, Zenon
  <2> QED BY <1>5, <2>1, Zenon DEF Steps
<1> DEFINE at == CHOOSE f_1 : Is(f_1)
<1>7. Is(at)
  BY <1>6, Zenon
<1>8. NoiseLoop(o, time, end) = LoopResult(at[n], time + n * p - end)
  BY <1>2, Zenon DEF NoiseLoop, Least, LoopStart, LoopNext, LoopResult, NoiseStopped, Half, p
<1> HIDE DEF at
<1>9. /\ at[0] = LoopStart(o)
      /\ \A k \in 0..(n - 1) : at[k + 1] = LoopNext(at[k], time + k * p)
  <2>1. at[0] = LoopStart(o)
    <3>1. 0 \in 0..n
      BY <1>1
    <3> QED BY <1>7, <3>1, Zenon
  <2>2. ASSUME NEW k \in 0..(n - 1) PROVE at[k + 1] = LoopNext(at[k], time + k * p)
    <3>1. k + 1 \in 0..n /\ k + 1 # 0 /\ (k + 1) - 1 = k
      BY <1>1
    <3>2. at[k + 1] = LoopNext(at[(k + 1) - 1], time + ((k + 1) - 1) * p)
      BY <1>7, <3>1, Zenon
    <3> QED BY <3>1, <3>2
  <2> QED BY <2>1, <2>2
<1>10. at \in [0..n -> LoopStates]
  <2> DEFINE T == {k \in 0..n : at[k] \in LoopStates}
  <2>1. 0 \in T
    BY <1>1, <1>9, LoopStartType
  <2>2. ASSUME NEW k \in 0..(n - 1), k \in T PROVE k + 1 \in T
    <3>1. k + 1 \in 0..n /\ k \in Nat
      BY <1>1
    <3>2. time + k * p \in Int
      BY <1>1, <3>1
    <3>3. at[k + 1] = LoopNext(at[k], time + k * p) /\ at[k] \in LoopStates
      BY <1>9, <2>2
    <3> QED BY <3>1, <3>2, <3>3, LoopNextType
  <2> HIDE DEF T
  <2>3. \A k \in 0..n : k \in T
    BY <1>1, <2>1, <2>2, UpTo
  <2>4. \A k \in 0..n : at[k] \in LoopStates
    BY <2>3, Zenon DEF T
  <2>5. at = [k \in 0..n |-> at[k]]
    BY <1>7, Zenon
  <2> QED BY <2>4, <2>5, Zenon
<1>11. LoopOf(at, o, n, time, p)
  BY <1>9, <1>10, Zenon DEF LoopOf
<1>12. LoopRun(at, o, n, time, end)
  BY <1>8, <1>11, Zenon DEF LoopRun, p
<1> HIDE DEF time
<1>13. \E a : LoopRun(a, o, n, time, end)
  BY <1>12
<1> QED BY <1>13 DEF time

\* Less time, no more edges.
LEMMA TurnedEarlier ==
  ASSUME NEW d \in Nat, NEW p \in Nat, NEW j \in Nat, NEW n \in Nat, j <= n,
         NEW k, Turned(d, p, j, k), NEW e, Turned(d, p, n, e)
  PROVE  k \in 0..e
<1>1. k \in Nat /\ e \in Nat
  BY DEF Turned
<1>2. CASE e < k
  <2>1. e \in 0..(k - 1) /\ e * p \in Nat
    BY <1>1, <1>2, Products
  <2>2. d + e * p < j /\ d + e * p >= n
    BY <2>1, Zenon DEF Turned
  <2> QED BY <2>1, <2>2
<1> QED BY <1>1, <1>2

NoiseTo(q, s, dl) == [q EXCEPT !.shifter = s, !.delay = dl]
NextShifter(s, tapped) == Append(Tail(s), IF tapped THEN s[1] # s[2] ELSE s[1])

LEMMA NoiseTurnsStep ==
  ASSUME NEW q \in NoiseStates, q.volume # Tones!Silent, NEW s \in Shifters, NEW j \in Nat, NEW k,
         Turned(q.delay, Tones!NoisePeriod(q), j, k)
  PROVE  LET p == Tones!NoisePeriod(q)
         IN  \/ /\ Turned(q.delay, p, j + 1, k + 1) /\ q.delay + k * p - j = 0
                /\ Tones!NoiseClock(NoiseTo(q, s, q.delay + k * p - j))
                     = NoiseTo(q, NextShifter(s, q.tapped), q.delay + (k + 1) * p - (j + 1))
             \/ /\ Turned(q.delay, p, j + 1, k) /\ q.delay + k * p - j # 0
                /\ Tones!NoiseClock(NoiseTo(q, s, q.delay + k * p - j))
                     = NoiseTo(q, s, q.delay + k * p - (j + 1))
<1> DEFINE p == Tones!NoisePeriod(q)
           left == q.delay + k * p - j
           r == NoiseTo(q, s, left)
<1>1. p \in Nat \ {0} /\ q.delay \in Nat
  BY NoisePeriodType DEF NoiseStates
<1>2. /\ left \in Nat
      /\ left = 0 => Turned(q.delay, p, j + 1, k + 1) /\ q.delay + (k + 1) * p - (j + 1) = p - 1
      /\ left # 0 => Turned(q.delay, p, j + 1, k)
      /\ q.delay + k * p - (j + 1) = left - 1
  BY <1>1, TurnedStep
<1>3. /\ r.volume = q.volume /\ r.extra = q.extra /\ r.select = q.select /\ r.tapped = q.tapped
      /\ r.shifter = s /\ r.delay = left /\ r = NoiseTo(q, s, left)
  BY DEF NoiseTo, NoiseStates
<1>4. Tones!NoisePeriod(r) = p
  BY <1>3 DEF Tones!NoisePeriod
<1> HIDE DEF r, p
<1>5. CASE left = 0
  <2>1. Tones!Shift(r) = [r EXCEPT !.shifter = NextShifter(s, q.tapped)]
    BY <1>3, Zenon DEF Tones!Shift, NextShifter
  <2>2. Tones!NoiseClock(r) = [[r EXCEPT !.shifter = NextShifter(s, q.tapped)] EXCEPT !.delay = p - 1]
    BY <1>3, <1>4, <1>5, <2>1, Zenon DEF Tones!NoiseClock
  <2>3. [[r EXCEPT !.shifter = NextShifter(s, q.tapped)] EXCEPT !.delay = p - 1]
          = NoiseTo(q, NextShifter(s, q.tapped), p - 1)
    <3> DEFINE t == NextShifter(s, q.tapped)
    <3> HIDE DEF t
    <3>1. [[r EXCEPT !.shifter = t] EXCEPT !.delay = p - 1] = NoiseTo(q, t, p - 1)
      BY <1>3 DEF NoiseTo, NoiseStates
    <3> QED BY <3>1 DEF t
  <2> QED BY <1>2, <1>5, <2>2, <2>3 DEF r, p
<1>6. CASE left # 0
  <2>1. Tones!NoiseClock(r) = [r EXCEPT !.delay = left - 1]
    BY <1>3, <1>6, Zenon DEF Tones!NoiseClock
  <2>2. [r EXCEPT !.delay = left - 1] = NoiseTo(q, s, left - 1)
    BY <1>3 DEF NoiseTo, NoiseStates
  <2> QED BY <1>2, <1>6, <2>1, <2>2 DEF r, p
<1> QED BY <1>5, <1>6 DEF p

\* Only the shift register changes from one edge to the next.
LEMMA LoopKeeps ==
  ASSUME NEW o \in NoiseOscs, NEW n \in Nat, NEW first, NEW p, NEW at, LoopOf(at, o, n, first, p)
  PROVE  /\ \A k \in 0..n : /\ at[k] \in LoopStates /\ at[k].osc \in NoiseOscs /\ at[k].osc.shifter \in Shifters
                            /\ at[k].osc = [o EXCEPT !.shifter = at[k].osc.shifter]
         /\ at[0].osc.shifter = o.shifter
         /\ \A k \in 0..(n - 1) : at[k + 1].osc.shifter = NextShifter(at[k].osc.shifter, o.tapped)
<1> DEFINE Same(q) == q = [o EXCEPT !.shifter = q.shifter]
           T == {k \in 0..n : Same(at[k].osc)}
<1>1. ASSUME NEW k \in 0..n PROVE at[k] \in LoopStates /\ at[k].osc \in NoiseOscs /\ at[k].osc.shifter \in Shifters
  BY DEF LoopStates, NoiseOscs, LoopOf
<1>2. at[0].osc = o
  BY DEF LoopStart, LoopOf
<1>3. ASSUME NEW k \in 0..(n - 1), Same(at[k].osc)
      PROVE  Same(at[k + 1].osc) /\ at[k + 1].osc.shifter = NextShifter(at[k].osc.shifter, o.tapped)
  <2> DEFINE q == at[k].osc
             s == NextShifter(q.shifter, o.tapped)
  <2>1. k \in 0..n
    OBVIOUS
  <2>2. q \in NoiseOscs /\ q.tapped = o.tapped
    <3>1. q \in NoiseOscs
      BY <1>1, <2>1
    <3> HIDE DEF q
    <3> QED BY <1>3, <3>1 DEF NoiseOscs, q
  <2>3. at[k + 1].osc = Shifted(q)
    <3>1. at[k + 1] = LoopNext(at[k], first + k * p)
      BY Zenon DEF LoopOf
    <3> QED BY <3>1 DEF LoopNext
  <2>4. Shifted(q) = [q EXCEPT !.shifter = s]
    BY <2>2, ShiftedParts DEF NextShifter
  <2>5. q = [o EXCEPT !.shifter = q.shifter]
    BY <1>3
  <2> HIDE DEF q, s
  <2>6. [q EXCEPT !.shifter = s] = [o EXCEPT !.shifter = s] /\ [q EXCEPT !.shifter = s].shifter = s
    BY <2>2, <2>5 DEF NoiseOscs
  <2> QED BY <2>3, <2>4, <2>6, Zenon DEF q, s
<1>4. 0 \in T
  <2>1. [o EXCEPT !.shifter = o.shifter] = o
    BY DEF NoiseOscs
  <2> QED BY <1>2, <2>1
<1>5. ASSUME NEW k \in 0..(n - 1), k \in T PROVE k + 1 \in T
  <2>1. k + 1 \in 0..n
    OBVIOUS
  <2>2. Same(at[k].osc)
    BY <1>5
  <2>3. Same(at[k + 1].osc)
    BY <1>3, <2>2
  <2> HIDE DEF Same
  <2> QED BY <2>1, <2>3
<1> HIDE DEF T
<1>6. \A k \in 0..n : k \in T
  BY <1>4, <1>5, UpTo
<1>7. ASSUME NEW k \in 0..n PROVE Same(at[k].osc)
  BY <1>6, Zenon DEF T
<1>8. ASSUME NEW k \in 0..(n - 1) PROVE at[k + 1].osc.shifter = NextShifter(at[k].osc.shifter, o.tapped)
  <2>1. k \in 0..n
    OBVIOUS
  <2>2. Same(at[k].osc)
    BY <1>7, <2>1
  <2> HIDE DEF Same
  <2> QED BY <1>3, <2>2
<1> QED BY <1>1, <1>2, <1>7, <1>8

FollowedAt(at, o, j, k) ==
  /\ Turned(o.delay, NoisePeriod(o), j, k)
  /\ NoiseAfter(Noise(o), j) = NoiseTo(Noise(o), at[k].osc.shifter, o.delay + k * NoisePeriod(o) - j)

\* The register of the loop is that of the noise at every clock on the way.
LEMMA LoopFollows ==
  ASSUME NEW o \in NoiseOscs, o.volume # Silent, NEW m \in Nat, NEW n,
         Turned(o.delay, NoisePeriod(o), m, n), NEW first, NEW at, LoopOf(at, o, n, first, NoisePeriod(o))
  PROVE  \A j \in 0..m : \E k \in 0..n : FollowedAt(at, o, j, k)
<1> DEFINE p == NoisePeriod(o)
           d == o.delay
           q == Noise(o)
           At(j, k) == Turned(d, p, j, k) /\ NoiseAfter(q, j) = NoiseTo(q, at[k].osc.shifter, d + k * p - j)
           T == {j \in 0..m : \E k \in 0..n : At(j, k)}
<1>1. /\ p \in Nat \ {0} /\ p = Tones!NoisePeriod(q) /\ d \in Nat /\ n \in Nat
      /\ q \in NoiseStates /\ q.delay = d /\ q.volume # Tones!Silent /\ q.tapped = o.tapped /\ q.shifter = o.shifter
  BY NoiseMaps DEF NoiseOscs, Turned, Silent, Tones!Silent
<1>2. /\ \A k \in 0..n : at[k].osc.shifter \in Shifters
      /\ at[0].osc.shifter = o.shifter
      /\ \A k \in 0..(n - 1) : at[k + 1].osc.shifter = NextShifter(at[k].osc.shifter, o.tapped)
  <2>1. n \in Nat /\ LoopOf(at, o, n, first, NoisePeriod(o))
    BY <1>1
  <2>2. /\ \A k \in 0..n : /\ at[k] \in LoopStates /\ at[k].osc \in NoiseOscs /\ at[k].osc.shifter \in Shifters
                           /\ at[k].osc = [o EXCEPT !.shifter = at[k].osc.shifter]
        /\ at[0].osc.shifter = o.shifter
        /\ \A k \in 0..(n - 1) : at[k + 1].osc.shifter = NextShifter(at[k].osc.shifter, o.tapped)
    BY <2>1, LoopKeeps
  <2> QED BY <2>2, Zenon
<1>3. Turned(d, p, m, n)
  OBVIOUS
<1> HIDE DEF p, d, q
<1>4. 0 \in T
  <2>1. Turned(d, p, 0, 0) /\ d + 0 * p - 0 = d
    BY <1>1 DEF Turned
  <2>2. NoiseTo(q, q.shifter, q.delay) = q
    BY <1>1 DEF NoiseTo, NoiseStates
  <2>3. NoiseAfter(q, 0) = q
    BY <1>1, NoiseAfterNext
  <2>4. At(0, 0) /\ 0 \in 0..n /\ 0 \in 0..m
    BY <1>1, <1>2, <2>1, <2>2, <2>3
  <2> HIDE DEF At
  <2> QED BY <2>4
<1>5. ASSUME NEW j \in 0..(m - 1), j \in T PROVE j + 1 \in T
  <2>1. PICK k \in 0..n : At(j, k)
    BY <1>5
  <2>2. j \in Nat /\ j + 1 \in 0..m /\ j + 1 \in Nat /\ j + 1 <= m
    OBVIOUS
  <2>3. NoiseAfter(q, j + 1) = Tones!NoiseClock(NoiseTo(q, at[k].osc.shifter, d + k * p - j))
    BY <1>1, <2>1, <2>2, NoiseAfterNext
  <2> DEFINE s == at[k].osc.shifter
  <2>4. s \in Shifters /\ Turned(d, p, j, k)
    BY <1>2, <2>1
  <2> HIDE DEF s
  <2>5. \/ /\ Turned(d, p, j + 1, k + 1) /\ d + k * p - j = 0
           /\ Tones!NoiseClock(NoiseTo(q, s, d + k * p - j))
                = NoiseTo(q, NextShifter(s, q.tapped), d + (k + 1) * p - (j + 1))
        \/ /\ Turned(d, p, j + 1, k) /\ d + k * p - j # 0
           /\ Tones!NoiseClock(NoiseTo(q, s, d + k * p - j)) = NoiseTo(q, s, d + k * p - (j + 1))
    <3>1. Turned(q.delay, Tones!NoisePeriod(q), j, k)
      BY <1>1, <2>4
    <3>2. LET pp == Tones!NoisePeriod(q)
          IN  \/ /\ Turned(q.delay, pp, j + 1, k + 1) /\ q.delay + k * pp - j = 0
                 /\ Tones!NoiseClock(NoiseTo(q, s, q.delay + k * pp - j))
                      = NoiseTo(q, NextShifter(s, q.tapped), q.delay + (k + 1) * pp - (j + 1))
              \/ /\ Turned(q.delay, pp, j + 1, k) /\ q.delay + k * pp - j # 0
                 /\ Tones!NoiseClock(NoiseTo(q, s, q.delay + k * pp - j)) = NoiseTo(q, s, q.delay + k * pp - (j + 1))
      BY <1>1, <2>2, <2>4, <3>1, NoiseTurnsStep
    <3> QED BY <1>1, <3>2
  <2>6. CASE /\ Turned(d, p, j + 1, k + 1) /\ d + k * p - j = 0
             /\ Tones!NoiseClock(NoiseTo(q, s, d + k * p - j))
                  = NoiseTo(q, NextShifter(s, q.tapped), d + (k + 1) * p - (j + 1))
    <3>1. k + 1 \in 0..n
      BY <1>1, <1>3, <2>2, <2>6, TurnedEarlier
    <3>2. k \in 0..(n - 1)
      BY <3>1, <1>1
    <3>3. at[k + 1].osc.shifter = NextShifter(s, q.tapped)
      BY <1>1, <1>2, <3>2 DEF s
    <3>4. At(j + 1, k + 1)
      BY <2>3, <2>6, <3>3 DEF s
    <3> HIDE DEF At
    <3> QED BY <2>2, <3>1, <3>4
  <2>7. CASE /\ Turned(d, p, j + 1, k) /\ d + k * p - j # 0
             /\ Tones!NoiseClock(NoiseTo(q, s, d + k * p - j)) = NoiseTo(q, s, d + k * p - (j + 1))
    <3>1. At(j + 1, k)
      BY <2>3, <2>7 DEF s
    <3> HIDE DEF At
    <3> QED BY <2>2, <3>1
  <2> QED BY <2>5, <2>6, <2>7
<1> HIDE DEF T
<1>6. \A j \in 0..m : j \in T
  BY <1>4, <1>5, UpTo
<1>7. \A j \in 0..m : \E k \in 0..n : At(j, k)
  BY <1>6, Zenon DEF T
<1> QED BY <1>7, Zenon DEF FollowedAt, p, d, q

\* What a run leaves of the noise.
NoiseLeft(o, s, v, dl) == NoiseStopped([o EXCEPT !.shifter = s], v, dl)

LEMMA NoiseChanged ==
  ASSUME NEW o \in NoiseOscs, NEW s \in Shifters, NEW v \in Int \X Int, NEW dl \in Nat
  PROVE  /\ NoiseLeft(o, s, v, dl) \in NoiseOscs
         /\ Noise(NoiseLeft(o, s, v, dl)) = NoiseTo(Noise(o), s, dl)
<1> DEFINE r == NoiseLeft(o, s, v, dl)
<1>1. /\ r.volume = o.volume /\ r.low = o.low /\ r.high = o.high /\ r.select = o.select /\ r.tapped = o.tapped
      /\ r.shifter = s /\ r.delay = dl /\ r \in NoiseOscs
  <2> DEFINE t == [o EXCEPT !.shifter = s]
  <2>1. /\ t.volume = o.volume /\ t.low = o.low /\ t.high = o.high /\ t.select = o.select /\ t.tapped = o.tapped
        /\ t.shifter = s /\ t \in NoiseOscs
    BY DEF NoiseOscs
  <2>2. r = [t EXCEPT !.last = v, !.delay = dl]
    BY Zenon DEF NoiseLeft, NoiseStopped
  <2> HIDE DEF t, r
  <2> QED BY <2>1, <2>2 DEF NoiseOscs
<1> HIDE DEF r
<1>2. Period(r) = Period(o)
  BY <1>1 DEF Period
<1> DEFINE w == [volume |-> o.volume, extra |-> Period(o), delay |-> dl, select |-> o.select,
                 tapped |-> o.tapped, shifter |-> s]
<1>3. Noise(r) = w
  BY <1>1, <1>2, Zenon DEF Noise
<1>4. NoiseTo(Noise(o), s, dl) = w
  <2> DEFINE q == Noise(o)
             q1 == [q EXCEPT !.shifter = s]
  <2>1. /\ q \in NoiseStates /\ q.volume = o.volume /\ q.extra = Period(o) /\ q.select = o.select
        /\ q.tapped = o.tapped
    BY NoiseMaps
  <2> HIDE DEF q
  <2>2. /\ q1 \in NoiseStates /\ q1.volume = q.volume /\ q1.extra = q.extra /\ q1.select = q.select
        /\ q1.tapped = q.tapped /\ q1.shifter = s
    BY <2>1 DEF NoiseStates
  <2>3. NoiseTo(q, s, dl) = [q1 EXCEPT !.delay = dl]
    BY Zenon DEF NoiseTo
  <2> HIDE DEF q1
  <2>4. [q1 EXCEPT !.delay = dl] = [volume |-> q1.volume, extra |-> q1.extra, delay |-> dl, select |-> q1.select,
                                    tapped |-> q1.tapped, shifter |-> q1.shifter]
    BY <2>2 DEF NoiseStates
  <2> QED BY <2>1, <2>2, <2>3, <2>4, Zenon DEF q
<1> QED BY <1>1, <1>3, <1>4 DEF r

LEMMA HalfType ==
  ASSUME NEW v \in Int \X Int
  PROVE  Half(v) \in Int \X Int
<1>1. v[1] \in Int /\ v[2] \in Int
  OBVIOUS
<1>2. v[1] \div 2 \in Int /\ v[2] \div 2 \in Int
  BY <1>1
<1> QED BY <1>2 DEF Half

\* What is added first: the level may have been changed by a write.
FirstAdd(o, time) == <<<<time, Minus(Signed(~o.shifter[1], o.volume), o.last)>>>>

\* A run of the noise by n edges and the delay dl to the next, while it is muted none.
NoiseRun(o, time, end, n, at, first, dl) ==
  /\ n \in Nat /\ LoopOf(at, o, n, first, NoisePeriod(o))
  /\ RunNoise(o, time, end).osc = NoiseLeft(o, at[n].osc.shifter, Half(at[n].delta), dl)
  /\ RunNoise(o, time, end).adds = FirstAdd(o, time) \o at[n].adds
  /\ IF o.volume = Silent THEN n = 0 /\ dl = 0
     ELSE /\ Turned(o.delay, NoisePeriod(o), end - time, n) /\ first = time + o.delay
          /\ dl = o.delay + n * NoisePeriod(o) - (end - time)

LEMMA NoiseRunParts ==
  ASSUME NEW o \in NoiseOscs, NEW time \in Nat, NEW end \in Nat, time < end
  PROVE  \E n, at, first, dl : NoiseRun(o, time, end, n, at, first, dl)
<1> DEFINE p == NoisePeriod(o)
           from == IF o.volume = Silent THEN end ELSE time + o.delay
           loop == NoiseLoop(o, from, end)
<1>1. p \in Nat \ {0} /\ o.delay \in Nat /\ end - time \in Nat
  BY NoiseMaps DEF NoiseOscs
<1>2. RunNoise(o, time, end).osc = loop.osc /\ RunNoise(o, time, end).adds = FirstAdd(o, time) \o loop.adds
  <2>1. \E dl, b : loop = LoopResult(b, dl)
    <3>1. CASE o.volume = Silent
      <4>1. Turned(0, p, end - end, 0) /\ end <= end /\ 0 \in Nat
        BY <1>1 DEF Turned
      <4>2. PICK at : LoopRun(at, o, 0, end + 0, end)
        BY <4>1, LoopRuns
      <4>3. end + 0 = end
        OBVIOUS
      <4> QED BY <3>1, <4>2, <4>3, Zenon DEF LoopRun
    <3>2. CASE o.volume # Silent
      <4>1. PICK n : Turned(o.delay, p, end - time, n)
        BY <1>1, TurnedExists
      <4>2. time <= end
        OBVIOUS
      <4>3. PICK at : LoopRun(at, o, n, time + o.delay, end)
        BY <1>1, <4>1, <4>2, LoopRuns
      <4> QED BY <3>2, <4>3, Zenon DEF LoopRun
    <3> QED BY <3>1, <3>2
  <2>2. RunNoise(o, time, end) = [loop EXCEPT !.adds = FirstAdd(o, time) \o loop.adds]
    BY Zenon DEF RunNoise, FirstAdd
  <2> HIDE DEF loop
  <2> QED BY <2>1, <2>2 DEF LoopResult
<1>3. CASE o.volume = Silent
  <2>1. Turned(0, p, end - end, 0) /\ end <= end /\ 0 \in Nat
    BY <1>1 DEF Turned
  <2>2. PICK at : LoopRun(at, o, 0, end + 0, end)
    BY <2>1, LoopRuns
  <2>3. end + 0 = end /\ end + 0 * p - end = 0
    BY <1>1
  <2>4. LoopOf(at, o, 0, end, p) /\ NoiseLoop(o, end, end) = LoopResult(at[0], end + 0 * p - end)
    BY <2>2, <2>3 DEF LoopRun
  <2>5. at[0].osc = o /\ loop = LoopResult(at[0], 0)
    <3>1. at[0].osc = o
      BY <2>4 DEF LoopOf, LoopStart
    <3>2. loop = LoopResult(at[0], 0)
      BY <1>3, <2>3, <2>4, Zenon
    <3> QED BY <3>1, <3>2
  <2>6. [o EXCEPT !.shifter = o.shifter] = o
    BY DEF NoiseOscs
  <2>7. loop.adds = at[0].adds /\ loop.osc = NoiseLeft(o, at[0].osc.shifter, Half(at[0].delta), 0)
    <3> HIDE DEF loop
    <3> QED BY <2>5, <2>6 DEF LoopResult, NoiseLeft
  <2> HIDE DEF loop
  <2>8. NoiseRun(o, time, end, 0, at, end, 0)
    BY <1>2, <1>3, <2>1, <2>4, <2>7 DEF NoiseRun
  <2> QED BY <2>8, Zenon
<1>4. CASE o.volume # Silent
  <2>1. PICK n : Turned(o.delay, p, end - time, n)
    BY <1>1, TurnedExists
  <2>2. time <= end
    OBVIOUS
  <2>3. PICK at : LoopRun(at, o, n, time + o.delay, end)
    BY <1>1, <2>1, <2>2, LoopRuns
  <2>4. n \in Nat
    BY <2>1 DEF Turned
  <2> DEFINE dl == o.delay + n * p - (end - time)
  <2>5. (time + o.delay) + n * p - end = dl
    <3>1. n * p \in Nat
      BY <1>1, <2>4
    <3> HIDE DEF p
    <3> QED BY <1>1, <2>4, <3>1
  <2> HIDE DEF dl
  <2>6. loop = LoopResult(at[n], dl) /\ LoopOf(at, o, n, time + o.delay, p)
    BY <1>4, <2>3, <2>5, Zenon DEF LoopRun
  <2>7. at[n].osc = [o EXCEPT !.shifter = at[n].osc.shifter]
    <3>1. n \in 0..n
      BY <2>4
    <3> QED BY <2>4, <2>6, <3>1, LoopKeeps
  <2>8. loop.adds = at[n].adds /\ loop.osc = NoiseLeft(o, at[n].osc.shifter, Half(at[n].delta), dl)
    <3>1. loop.adds = at[n].adds /\ loop.osc = NoiseStopped(at[n].osc, Half(at[n].delta), dl)
      <4> HIDE DEF loop
      <4> QED BY <2>6 DEF LoopResult
    <3> HIDE DEF loop
    <3> QED BY <2>7, <3>1, Zenon DEF NoiseLeft
  <2> HIDE DEF loop
  <2>9. NoiseRun(o, time, end, n, at, time + o.delay, dl)
    BY <1>2, <1>4, <2>1, <2>4, <2>6, <2>8, Zenon DEF NoiseRun, dl
  <2> QED BY <2>9, Zenon
<1> QED BY <1>3, <1>4

\* The register and the rest of the delay are those of clock by clock.
LEMMA NoiseStops ==
  ASSUME NEW o \in NoiseOscs, o.volume # Silent, NEW m \in Nat, NEW n,
         Turned(o.delay, NoisePeriod(o), m, n), NEW first, NEW at, LoopOf(at, o, n, first, NoisePeriod(o))
  PROVE  NoiseAfter(Noise(o), m) = NoiseTo(Noise(o), at[n].osc.shifter, o.delay + n * NoisePeriod(o) - m)
<1>1. \A j \in 0..m : \E k \in 0..n : FollowedAt(at, o, j, k)
  BY LoopFollows
<1>2. m \in 0..m
  OBVIOUS
<1>3. PICK k \in 0..n :
        /\ Turned(o.delay, NoisePeriod(o), m, k)
        /\ NoiseAfter(Noise(o), m) = NoiseTo(Noise(o), at[k].osc.shifter, o.delay + k * NoisePeriod(o) - m)
  BY <1>1, <1>2, Zenon DEF FollowedAt
<1>4. k = n
  <2>1. o.delay \in Nat /\ NoisePeriod(o) \in Nat
    BY NoiseMaps DEF NoiseOscs
  <2> QED BY <1>3, <2>1, TurnedOnce
<1> QED BY <1>3, <1>4

\* T6W28_Noise::run()
LEMMA NoiseCatchesUp ==
  ASSUME NEW o \in NoiseOscs, NEW time \in Nat, NEW end \in Nat, time < end
  PROVE  /\ RunNoise(o, time, end).osc \in NoiseOscs
         /\ Noise(RunNoise(o, time, end).osc) = NoiseAfter(Noise(o), end - time)
<1> DEFINE m == end - time
           q == Noise(o)
<1>1. /\ m \in Nat /\ m # 0 /\ NoisePeriod(o) \in Nat \ {0} /\ o.delay \in Nat /\ o.shifter \in Shifters
      /\ q \in NoiseStates /\ q.volume = o.volume /\ q.shifter = o.shifter
  BY NoiseMaps DEF NoiseOscs
<1>0. PICK n, at, first, dl : NoiseRun(o, time, end, n, at, first, dl)
  BY NoiseRunParts, Zenon
<1>2. /\ n \in Nat /\ LoopOf(at, o, n, first, NoisePeriod(o))
      /\ RunNoise(o, time, end).osc = NoiseLeft(o, at[n].osc.shifter, Half(at[n].delta), dl)
      /\ IF o.volume = Silent THEN n = 0 /\ dl = 0
         ELSE /\ Turned(o.delay, NoisePeriod(o), end - time, n)
              /\ dl = o.delay + n * NoisePeriod(o) - (end - time)
  BY <1>0, Zenon DEF NoiseRun
<1> DEFINE v == Half(at[n].delta)
           s == at[n].osc.shifter
<1>3. s \in Shifters /\ v \in Int \X Int
  <2>1. n \in 0..n
    BY <1>2
  <2>2. at[n] \in LoopStates
    BY <1>2, <2>1 DEF LoopOf
  <2>3. at[n].delta \in Int \X Int
    BY <2>2 DEF LoopStates
  <2> QED BY <1>2, <2>1, <2>3, LoopKeeps, HalfType
<1>4. dl \in Nat /\ NoiseAfter(q, m) = NoiseTo(q, s, dl)
  <2>1. CASE o.volume = Silent
    <3>1. s = o.shifter /\ dl = 0
      BY <1>2, <2>1 DEF LoopOf, LoopStart
    <3>2. NoiseAfter(q, m) = [q EXCEPT !.delay = 0]
      <4>1. q.volume = Tones!Silent
        BY <1>1, <2>1 DEF Silent, Tones!Silent
      <4> HIDE DEF q, m
      <4> QED BY <1>1, <4>1, NoiseStands
    <3>3. NoiseTo(q, o.shifter, 0) = [q EXCEPT !.delay = 0]
      <4> HIDE DEF q
      <4>1. [q EXCEPT !.shifter = q.shifter] = q
        BY <1>1 DEF NoiseStates
      <4> QED BY <1>1, <4>1, Zenon DEF NoiseTo
    <3> QED BY <3>1, <3>2, <3>3
  <2>2. CASE o.volume # Silent
    <3>1. Turned(o.delay, NoisePeriod(o), m, n) /\ dl = o.delay + n * NoisePeriod(o) - m
      BY <1>2, <2>2
    <3>2. dl \in Nat
      BY <1>1, <3>1, TurnedStep
    <3>3. LoopOf(at, o, n, first, NoisePeriod(o))
      BY <1>2
    <3> HIDE DEF m
    <3> QED BY <1>1, <2>2, <3>1, <3>2, <3>3, NoiseStops
  <2> QED BY <2>1, <2>2
<1>5. RunNoise(o, time, end).osc = NoiseLeft(o, s, v, dl)
  BY <1>2
<1> HIDE DEF v, s
<1>6. NoiseLeft(o, s, v, dl) \in NoiseOscs /\ Noise(NoiseLeft(o, s, v, dl)) = NoiseTo(q, s, dl)
  BY <1>3, <1>4, NoiseChanged
<1> QED BY <1>4, <1>5, <1>6, Zenon
-----------------------------------------------------------------------------
(* The oscillators at the present. *)

\* An oscillator of the chip that has run up to one clock, at a later one.
SquareNow(o, from, now) == IF now > from THEN RunSquare(o, from, now).osc ELSE o
NoiseNow(o, from, now) == IF now > from THEN RunNoise(o, from, now).osc ELSE o

LEMMA SquareNowIs ==
  ASSUME NEW o \in SquareOscs, NEW from \in Nat, NEW now \in Nat, from <= now
  PROVE  /\ SquareNow(o, from, now) \in SquareOscs
         /\ Square(SquareNow(o, from, now)) = SquareAfter(Square(o), now - from)
<1>1. CASE now > from
  BY <1>1, SquareCatchesUp DEF SquareNow
<1>2. CASE ~(now > from)
  <2>1. SquareAfter(Square(o), 0) = Square(o)
    BY SquareMaps, SquareAfterNext
  <2>2. now - from = 0 /\ SquareNow(o, from, now) = o
    BY <1>2 DEF SquareNow
  <2> QED BY <2>1, <2>2
<1> QED BY <1>1, <1>2

LEMMA NoiseNowIs ==
  ASSUME NEW o \in NoiseOscs, NEW from \in Nat, NEW now \in Nat, from <= now
  PROVE  /\ NoiseNow(o, from, now) \in NoiseOscs
         /\ Noise(NoiseNow(o, from, now)) = NoiseAfter(Noise(o), now - from)
<1>1. CASE now > from
  BY <1>1, NoiseCatchesUp DEF NoiseNow
<1>2. CASE ~(now > from)
  <2>1. NoiseAfter(Noise(o), 0) = Noise(o)
    BY NoiseMaps, NoiseAfterNext
  <2>2. now - from = 0 /\ NoiseNow(o, from, now) = o
    BY <1>2 DEF NoiseNow
  <2> QED BY <2>1, <2>2
<1> QED BY <1>1, <1>2

-----------------------------------------------------------------------------
(* Types. *)

Keeps == [squares : [Squares -> SquareOscs], noise : NoiseOscs, latch_left : 0..255, latch_right : 0..255,
          schipenable : BOOLEAN]
ChipTypeOK ==
  /\ squares \in [Squares -> SquareOscs] /\ noise \in NoiseOscs
  /\ latch_left \in 0..255 /\ latch_right \in 0..255
  /\ last_time \in Nat /\ ngpc_soundTS \in Nat /\ last_time <= Now
  /\ schipenable \in BOOLEAN
  /\ kept # <<>> => kept \in Keeps
  /\ tune \in Seq(Nat \X (0..255))

LEMMA NowType ==
  ASSUME NEW t \in Nat
  PROVE  t \div 2 \in Nat /\ 0 \div 2 = 0
OBVIOUS

LEMMA VolumeType ==
  ASSUME NEW data \in 0..255
  PROVE  Volume(data) \in Nat
<1>1. (data % 16) + 1 \in 1..16
  OBVIOUS
<1> DEFINE i == (data % 16) + 1
<1>2. i \in 1..16
  BY <1>1
<1> HIDE DEF i
<1>3. volumes[i] \in Nat
  BY <1>2 DEF volumes
<1> QED BY <1>3 DEF Volume, i

LEMMA NewShifterType == NewShifter \in Shifters
<1>1. ShifterBits \in Nat
  BY ChipAssumption
<1>2. NewShifter \in [1..ShifterBits -> BOOLEAN]
  BY DEF NewShifter
<1> QED BY <1>1, <1>2 DEF Shifters

\* What a write may do to a square wave and to the noise.
SquareSet(q, o) == q \in SquareOscs /\ q.delay = o.delay /\ q.phase = o.phase
NoiseSet(q, o) == q \in NoiseOscs /\ q.delay = o.delay /\ q.shifter \in {o.shifter, NewShifter}

LEMMA SquareVolumes ==
  ASSUME NEW o \in SquareOscs, NEW x \in Nat, NEW j \in {1, 2}
  PROVE  SquareSet([o EXCEPT !.volume[j] = x], o)
<1> DEFINE v == [o.volume EXCEPT ![j] = x]
<1>1. v \in Int \X Int
  BY DEF SquareOscs
<1>2. [o EXCEPT !.volume[j] = x] = [o EXCEPT !.volume = v]
  OBVIOUS
<1> HIDE DEF v
<1>3. SquareSet([o EXCEPT !.volume = v], o)
  BY <1>1 DEF SquareOscs, SquareSet
<1> QED BY <1>2, <1>3, Zenon

LEMMA NoiseVolumes ==
  ASSUME NEW o \in NoiseOscs, NEW x \in Nat, NEW j \in {1, 2}
  PROVE  NoiseSet([o EXCEPT !.volume[j] = x], o)
<1> DEFINE v == [o.volume EXCEPT ![j] = x]
<1>1. v \in Int \X Int
  BY DEF NoiseOscs
<1>2. [o EXCEPT !.volume[j] = x] = [o EXCEPT !.volume = v]
  OBVIOUS
<1> HIDE DEF v
<1>3. NoiseSet([o EXCEPT !.volume = v], o)
  BY <1>1 DEF NoiseOscs, NoiseSet
<1> QED BY <1>2, <1>3, Zenon

LEMMA Digits ==
  ASSUME NEW data \in 0..255
  PROVE  /\ \A o \in SquareOscs : SquareSet(Digit(o, data), o)
         /\ \A o \in NoiseOscs : NoiseSet(Digit(o, data), o)
<1> DEFINE l == data % 16
           h == data % 64
<1>1. l \in Nat /\ h \in Nat
  OBVIOUS
<1>2. ASSUME NEW o PROVE Digit(o, data) = IF data >= 128 THEN [o EXCEPT !.low = l] ELSE [o EXCEPT !.high = h]
  BY Zenon DEF Digit
<1> HIDE DEF l, h
<1>3. ASSUME NEW o \in SquareOscs PROVE SquareSet(Digit(o, data), o)
  BY <1>1, <1>2 DEF SquareOscs, SquareSet
<1>4. ASSUME NEW o \in NoiseOscs PROVE NoiseSet(Digit(o, data), o)
  BY <1>1, <1>2 DEF NoiseOscs, NoiseSet
<1> QED BY <1>3, <1>4

LEMMA NoiseControls ==
  ASSUME NEW o \in NoiseOscs, NEW data \in 0..255
  PROVE  NoiseSet([o EXCEPT !.select = data % 4, !.tapped = (data \div 4) % 2 = 1, !.shifter = NewShifter], o)
<1> DEFINE sel == data % 4
           tap == (data \div 4) % 2 = 1
           q == [o EXCEPT !.select = sel]
           r == [q EXCEPT !.tapped = tap]
<1>1. sel \in 0..3 /\ tap \in BOOLEAN /\ NewShifter \in Shifters
  BY NewShifterType
<1>2. [o EXCEPT !.select = sel, !.tapped = tap, !.shifter = NewShifter] = [r EXCEPT !.shifter = NewShifter]
  BY Zenon
<1> HIDE DEF sel, tap
<1>3. q \in NoiseOscs /\ q.delay = o.delay
  BY <1>1 DEF NoiseOscs
<1> HIDE DEF q
<1>4. r \in NoiseOscs /\ r.delay = o.delay
  BY <1>1, <1>3 DEF NoiseOscs
<1> HIDE DEF r
<1>5. NoiseSet([r EXCEPT !.shifter = NewShifter], o)
  BY <1>1, <1>4 DEF NoiseOscs, NoiseSet
<1> QED BY <1>2, <1>5, Zenon DEF sel, tap

\* One square wave is written, or none.
LEMMA SquaresSet ==
  ASSUME NEW f \in [Squares -> SquareOscs], NEW k, NEW new, k \in Squares => SquareSet(new, f[k])
  PROVE  /\ [f EXCEPT ![k] = new] \in [Squares -> SquareOscs]
         /\ \A i \in Squares : SquareSet([f EXCEPT ![k] = new][i], f[i])
BY DEF SquareSet
\* A write: the oscillators catch up, and one of them is set.
Written ==
  /\ squares' \in [Squares -> SquareOscs]
  /\ \A i \in Squares : SquareSet(squares'[i], SquareNow(squares[i], last_time, Now))
  /\ NoiseSet(noise', NoiseNow(noise, last_time, Now))
  /\ latch_left' \in 0..255 /\ latch_right' \in 0..255 /\ last_time' = Now
  /\ UNCHANGED <<ngpc_soundTS, schipenable, kept>>

LEMMA Present ==
  ASSUME ChipTypeOK
  PROVE  /\ Now \in Nat /\ last_time \in Nat /\ last_time <= Now /\ Later(Now) = Now
         /\ CaughtUp(Now).squares = [i \in Squares |-> SquareNow(squares[i], last_time, Now)]
         /\ CaughtUp(Now).squares \in [Squares -> SquareOscs]
         /\ CaughtUp(Now).noise = NoiseNow(noise, last_time, Now) /\ CaughtUp(Now).noise \in NoiseOscs
<1>1. Now \in Nat /\ last_time \in Nat /\ last_time <= Now
  BY NowType DEF ChipTypeOK, Now
<1>2. Later(Now) = Now
  BY <1>1 DEF Later
<1>3. /\ CaughtUp(Now).squares = [i \in Squares |-> SquareNow(squares[i], last_time, Now)]
      /\ CaughtUp(Now).noise = NoiseNow(noise, last_time, Now)
  BY DEF CaughtUp, RunSquareUntil, RunNoiseUntil, SquareNow, NoiseNow
<1>4. ASSUME NEW i \in Squares PROVE SquareNow(squares[i], last_time, Now) \in SquareOscs
  <2>1. squares[i] \in SquareOscs
    BY DEF ChipTypeOK
  <2> QED BY <1>1, <2>1, SquareNowIs
<1>5. NoiseNow(noise, last_time, Now) \in NoiseOscs
  <2>1. noise \in NoiseOscs
    BY DEF ChipTypeOK
  <2> QED BY <1>1, <2>1, NoiseNowIs
<1> QED BY <1>1, <1>2, <1>3, <1>4, <1>5

LEMMA LeftWrites ==
  ASSUME ChipTypeOK, NEW data \in 0..255, write_data_left(data)
  PROVE  Written
<1> DEFINE run == CaughtUp(Now)
           latch == IF data >= 128 THEN data ELSE latch_left
           k == Oscillator(latch)
           f == run.squares
<1>1. /\ f \in [Squares -> SquareOscs] /\ run.noise \in NoiseOscs /\ Later(Now) = Now
      /\ \A i \in Squares : f[i] = SquareNow(squares[i], last_time, Now)
      /\ run.noise = NoiseNow(noise, last_time, Now)
  BY Present
<1>2. latch \in 0..255 /\ latch_right \in 0..255
  BY DEF ChipTypeOK
<1>3. /\ latch_left' = latch /\ last_time' = Later(Now)
      /\ squares' = IF k = 3 THEN f
                    ELSE IF OfVolume(latch) THEN [f EXCEPT ![k].volume[1] = Volume(data)]
                    ELSE [f EXCEPT ![k] = Digit(@, data)]
      /\ noise' = IF k = 3 /\ OfVolume(latch) THEN [run.noise EXCEPT !.volume[1] = Volume(data)] ELSE run.noise
      /\ UNCHANGED <<latch_right, ngpc_soundTS, schipenable, kept>>
  BY Zenon DEF write_data_left
<1> DEFINE q == run.noise
<1> HIDE DEF run, latch, k, f, q
<1>4. Volume(data) \in Nat
  BY VolumeType
<1>5. squares' \in [Squares -> SquareOscs] /\ \A i \in Squares : SquareSet(squares'[i], f[i])
  <2>1. CASE squares' = f
    BY <1>1, <2>1 DEF SquareSet
  <2>2. CASE squares' = [f EXCEPT ![k].volume[1] = Volume(data)]
    <3> DEFINE new == [f[k] EXCEPT !.volume[1] = Volume(data)]
    <3>1. k \in Squares => SquareSet(new, f[k])
      <4>1. k \in Squares => f[k] \in SquareOscs
        BY <1>1
      <4> QED BY <1>4, <4>1, SquareVolumes
    <3>2. squares' = [f EXCEPT ![k] = new]
      BY <2>2, Zenon
    <3> HIDE DEF new
    <3> QED BY <1>1, <3>1, <3>2, SquaresSet
  <2>3. CASE squares' = [f EXCEPT ![k] = Digit(@, data)]
    <3> DEFINE new == Digit(f[k], data)
    <3>1. k \in Squares => SquareSet(new, f[k])
      <4>1. k \in Squares => f[k] \in SquareOscs
        BY <1>1
      <4> QED BY <4>1, Digits
    <3>2. squares' = [f EXCEPT ![k] = new]
      BY <2>3, Zenon
    <3> HIDE DEF new
    <3> QED BY <1>1, <3>1, <3>2, SquaresSet
  <2> QED BY <1>3, <2>1, <2>2, <2>3, Zenon
<1>6. NoiseSet(noise', q)
  <2>1. CASE noise' = q
    BY <1>1, <2>1 DEF NoiseSet, q
  <2>2. CASE noise' = [q EXCEPT !.volume[1] = Volume(data)]
    BY <1>1, <1>4, <2>2, NoiseVolumes DEF q
  <2> QED BY <1>3, <2>1, <2>2, Zenon DEF q
<1>7. \A i \in Squares : SquareSet(squares'[i], SquareNow(squares[i], last_time, Now))
  BY <1>1, <1>5
<1> QED BY <1>1, <1>2, <1>3, <1>5, <1>6, <1>7 DEF Written, q

LEMMA RightWrites ==
  ASSUME ChipTypeOK, NEW data \in 0..255, write_data_right(data)
  PROVE  Written
<1> DEFINE run == CaughtUp(Now)
           latch == IF data >= 128 THEN data ELSE latch_right
           k == Oscillator(latch)
           f == run.squares
           q == run.noise
           control(o) == [o EXCEPT !.select = data % 4, !.tapped = (data \div 4) % 2 = 1, !.shifter = NewShifter]
<1>1. /\ f \in [Squares -> SquareOscs] /\ q \in NoiseOscs /\ Later(Now) = Now
      /\ \A i \in Squares : f[i] = SquareNow(squares[i], last_time, Now)
      /\ q = NoiseNow(noise, last_time, Now)
  BY Present
<1>2. latch \in 0..255 /\ latch_left \in 0..255
  BY DEF ChipTypeOK
<1>3. /\ latch_right' = latch /\ last_time' = Later(Now)
      /\ squares' = IF k # 3 /\ OfVolume(latch) THEN [f EXCEPT ![k].volume[2] = Volume(data)] ELSE f
      /\ noise' = IF k = 3 /\ OfVolume(latch) THEN [q EXCEPT !.volume[2] = Volume(data)]
                  ELSE IF k = 2 /\ ~OfVolume(latch) THEN Digit(q, data)
                  ELSE IF k = 3 THEN control(q) ELSE q
      /\ UNCHANGED <<latch_left, ngpc_soundTS, schipenable, kept>>
  <2>1. latch_right' = latch /\ last_time' = Later(Now) /\ UNCHANGED <<latch_left, ngpc_soundTS, schipenable, kept>>
    BY Zenon DEF write_data_right
  <2>2. squares' = IF k # 3 /\ OfVolume(latch) THEN [f EXCEPT ![k].volume[2] = Volume(data)] ELSE f
    BY Zenon DEF write_data_right
  <2>3. noise' = IF k = 3 /\ OfVolume(latch) THEN [q EXCEPT !.volume[2] = Volume(data)]
                 ELSE IF k = 2 /\ ~OfVolume(latch) THEN Digit(q, data)
                 ELSE IF k = 3 THEN control(q) ELSE q
    BY SMTT(20) DEF write_data_right
  <2> QED BY <2>1, <2>2, <2>3, Zenon
<1>4. Volume(data) \in Nat
  BY VolumeType
<1>5. NoiseSet(control(q), q)
  BY <1>1, NoiseControls, Zenon
<1> HIDE DEF run, latch, k, f, q, control
<1>6. squares' \in [Squares -> SquareOscs] /\ \A i \in Squares : SquareSet(squares'[i], f[i])
  <2>1. CASE squares' = f
    BY <1>1, <2>1 DEF SquareSet
  <2>2. CASE squares' = [f EXCEPT ![k].volume[2] = Volume(data)]
    <3> DEFINE new == [f[k] EXCEPT !.volume[2] = Volume(data)]
    <3>1. k \in Squares => SquareSet(new, f[k])
      <4>1. k \in Squares => f[k] \in SquareOscs
        BY <1>1
      <4> QED BY <1>4, <4>1, SquareVolumes
    <3>2. squares' = [f EXCEPT ![k] = new]
      BY <2>2, Zenon
    <3> HIDE DEF new
    <3> QED BY <1>1, <3>1, <3>2, SquaresSet
  <2> QED BY <1>3, <2>1, <2>2, Zenon
<1>7. NoiseSet(noise', q)
  <2>1. CASE noise' = q
    BY <1>1, <2>1 DEF NoiseSet
  <2>2. CASE noise' = [q EXCEPT !.volume[2] = Volume(data)]
    BY <1>1, <1>4, <2>2, NoiseVolumes
  <2>3. CASE noise' = Digit(q, data)
    BY <1>1, <2>3, Digits
  <2>4. CASE noise' = control(q)
    BY <1>5, <2>4
  <2> QED BY <1>3, <2>1, <2>2, <2>3, <2>4, Zenon
<1>8. \A i \in Squares : SquareSet(squares'[i], SquareNow(squares[i], last_time, Now))
  BY <1>1, <1>6
<1> QED BY <1>1, <1>2, <1>3, <1>6, <1>7, <1>8 DEF Written

LEMMA NewOscs ==
  /\ NewSquare \in SquareOscs
  /\ \A o \in NoiseOscs : NewNoise(o) \in NoiseOscs /\ NewNoise(o).volume = Silent /\ NewNoise(o).delay = 0
<1>1. Silent \in Int \X Int
  BY DEF Silent
<1>2. NewSquare \in SquareOscs
  BY <1>1 DEF NewSquare, SquareOscs
<1>3. ASSUME NEW o \in NoiseOscs
      PROVE  NewNoise(o) \in NoiseOscs /\ NewNoise(o).volume = Silent /\ NewNoise(o).delay = 0
  <2>1. NewShifter \in Shifters /\ 0 \in 0..3 /\ 0 \in Nat
    BY NewShifterType
  <2> QED BY <1>1, <2>1 DEF NewNoise, NoiseOscs
<1> QED BY <1>2, <1>3

LEMMA LastSet ==
  ASSUME NEW v \in Int \X Int
  PROVE  /\ \A o \in SquareOscs : /\ [o EXCEPT !.last = v] \in SquareOscs
                                  /\ Square([o EXCEPT !.last = v]) = Square(o)
         /\ \A o \in NoiseOscs : [o EXCEPT !.last = v] \in NoiseOscs /\ Noise([o EXCEPT !.last = v]) = Noise(o)
<1>1. ASSUME NEW o \in SquareOscs
      PROVE  [o EXCEPT !.last = v] \in SquareOscs /\ Square([o EXCEPT !.last = v]) = Square(o)
  BY DEF SquareOscs, Square, Period
<1>2. ASSUME NEW o \in NoiseOscs
      PROVE  [o EXCEPT !.last = v] \in NoiseOscs /\ Noise([o EXCEPT !.last = v]) = Noise(o)
  BY DEF NoiseOscs, Noise, Period
<1> QED BY <1>1, <1>2
\* What a step does, whoever makes it.
Untouched == UNCHANGED <<squares, noise, latch_left, latch_right, last_time, ngpc_soundTS, schipenable, kept>>
StepKinds ==
  \/ Untouched \/ Written
  \/ SetEnable(TRUE) \/ SetEnable(FALSE)
  \/ SaveState \/ LoadState \/ Flush
  \/ \E t \in Nat : Pass(t)

LEMMA StepCases ==
  ASSUME ChipTypeOK, [ChipNext]_chipVars
  PROVE  StepKinds /\ tune' \in Seq(Nat \X (0..255))
<1>1. tune \in Seq(Nat \X (0..255))
  BY DEF ChipTypeOK
<1>2. CASE Store
  <2> DEFINE address == Head(tune)[1]
             data == Head(tune)[2]
  <2>1. tune # <<>> /\ tune' = Tail(tune)
    BY <1>2, Zenon DEF Store
  <2>2. tune' \in Seq(Nat \X (0..255)) /\ Head(tune) \in Nat \X (0..255)
    BY <1>1, <2>1, HeadTailProperties
  <2>3. data \in 0..255
    BY <2>2
  <2>4. \/ write_data_left(data) \/ write_data_right(data)
        \/ Untouched
        \/ SetEnable(data = 85)
        \/ SaveState \/ LoadState
    BY <1>2, Zenon DEF Store, Untouched
  <2> HIDE DEF data, address
  <2>5. (data = 85) \in BOOLEAN
    OBVIOUS
  <2>6. SetEnable(data = 85) => SetEnable(TRUE) \/ SetEnable(FALSE)
    <3>1. CASE data = 85
      BY <3>1, Zenon DEF SetEnable
    <3>2. CASE data # 85
      BY <3>2, Zenon DEF SetEnable
    <3> QED BY <3>1, <3>2
  <2>7. write_data_left(data) => Written
    BY <2>3, LeftWrites, Zenon
  <2>8. write_data_right(data) => Written
    BY <2>3, RightWrites, Zenon
  <2> QED BY <2>2, <2>4, <2>6, <2>7, <2>8, Zenon DEF StepKinds
<1>3. CASE \E t \in 1..MaxTicks : ngpc_soundTS + t <= MaxFrame /\ Pass(t) /\ UNCHANGED tune
  <2>1. PICK t \in 1..MaxTicks : Pass(t) /\ UNCHANGED tune
    BY <1>3, Zenon
  <2>2. t \in Nat
    BY ChipAssumption
  <2> QED BY <1>1, <2>1, <2>2, Zenon DEF StepKinds
<1>4. CASE Flush /\ UNCHANGED tune
  BY <1>1, <1>4, Zenon DEF StepKinds
<1>5. CASE UNCHANGED chipVars
  <2>1. Untouched /\ tune' = tune
    BY <1>5, Zenon DEF chipVars, Untouched
  <2> QED BY <1>1, <2>1, Zenon DEF StepKinds
<1> QED BY <1>2, <1>3, <1>4, <1>5, Zenon DEF ChipNext

LEMMA InitType == ChipInit => ChipTypeOK
<1> SUFFICES ASSUME ChipInit PROVE ChipTypeOK
  OBVIOUS
<1>1. squares \in [Squares -> SquareOscs]
  BY NewOscs DEF ChipInit
<1>2. noise \in NoiseOscs
  <2>1. Silent \in Int \X Int
    BY DEF Silent
  <2> QED BY <2>1, NewShifterType DEF ChipInit, NoiseOscs
<1>3. tune \in Seq(Nat \X (0..255))
  BY ChipAssumption DEF ChipInit
<1>4. last_time = 0 /\ ngpc_soundTS = 0 /\ Now = 0 /\ latch_left = 0 /\ latch_right = 0
  BY DEF ChipInit, Now
<1>5. schipenable \in BOOLEAN /\ (kept # <<>> => kept \in Keeps)
  BY Zenon DEF ChipInit
<1>6. /\ latch_left \in 0..255 /\ latch_right \in 0..255
      /\ last_time \in Nat /\ ngpc_soundTS \in Nat /\ last_time <= Now
  BY <1>4
<1> QED BY <1>1, <1>2, <1>3, <1>5, <1>6, Zenon DEF ChipTypeOK

LEMMA SavedType ==
  ASSUME ChipTypeOK, SaveState
  PROVE  /\ kept' # <<>> /\ kept' \in Keeps
         /\ kept'.squares = [i \in Squares |-> Kept(squares[i])] /\ kept'.noise = Kept(noise)
         /\ \A i \in Squares : Square(Kept(squares[i])) = Square(squares[i])
         /\ Noise(Kept(noise)) = Noise(noise)
<1>1. Silent \in Int \X Int
  BY DEF Silent
<1>2. ASSUME NEW i \in Squares PROVE Kept(squares[i]) \in SquareOscs /\ Square(Kept(squares[i])) = Square(squares[i])
  <2>1. squares[i] \in SquareOscs
    BY DEF ChipTypeOK
  <2> QED BY <1>1, <2>1, LastSet DEF Kept
<1>3. Kept(noise) \in NoiseOscs /\ Noise(Kept(noise)) = Noise(noise)
  <2>1. noise \in NoiseOscs
    BY DEF ChipTypeOK
  <2> QED BY <1>1, <2>1, LastSet DEF Kept
<1> DEFINE sq == [i \in Squares |-> Kept(squares[i])]
           ns == Kept(noise)
<1>4. sq \in [Squares -> SquareOscs] /\ ns \in NoiseOscs
  BY <1>2, <1>3
<1>5. kept' = [squares |-> sq, noise |-> ns, latch_left |-> latch_left, latch_right |-> latch_right,
               schipenable |-> schipenable]
  BY Zenon DEF SaveState
<1> HIDE DEF sq, ns
<1>6. latch_left \in 0..255 /\ latch_right \in 0..255 /\ schipenable \in BOOLEAN
  BY DEF ChipTypeOK
<1>7. kept' \in Keeps /\ kept'.squares = sq /\ kept'.noise = ns
  BY <1>4, <1>5, <1>6 DEF Keeps
<1>8. kept' # <<>>
  <2>1. DOMAIN kept' = {"squares", "noise", "latch_left", "latch_right", "schipenable"}
    BY <1>5
  <2>2. DOMAIN <<>> = {}
    OBVIOUS
  <2> QED BY <2>1, <2>2
<1> QED BY <1>2, <1>3, <1>7, <1>8 DEF sq, ns

LEMMA LoadedType ==
  ASSUME ChipTypeOK, LoadState
  PROVE  /\ kept # <<>> /\ squares' \in [Squares -> SquareOscs] /\ noise' \in NoiseOscs
         /\ latch_left' \in 0..255 /\ latch_right' \in 0..255 /\ schipenable' \in BOOLEAN
         /\ \A i \in Squares : Square(squares'[i]) = Square(kept.squares[i])
         /\ Noise(noise') = Noise(kept.noise)
<1>1. /\ kept # <<>>
      /\ squares' = [i \in Squares |-> [kept.squares[i] EXCEPT !.last = squares[i].last]]
      /\ noise' = [kept.noise EXCEPT !.last = noise.last]
      /\ latch_left' = kept.latch_left /\ latch_right' = kept.latch_right /\ schipenable' = kept.schipenable
  BY Zenon DEF LoadState
<1>2. kept \in Keeps
  BY <1>1 DEF ChipTypeOK
<1>3. /\ kept.squares \in [Squares -> SquareOscs] /\ kept.noise \in NoiseOscs
      /\ kept.latch_left \in 0..255 /\ kept.latch_right \in 0..255 /\ kept.schipenable \in BOOLEAN
  BY <1>2 DEF Keeps
<1>4. ASSUME NEW i \in Squares
      PROVE  squares'[i] \in SquareOscs /\ Square(squares'[i]) = Square(kept.squares[i])
  <2>1. squares'[i] = [kept.squares[i] EXCEPT !.last = squares[i].last] /\ kept.squares[i] \in SquareOscs
    BY <1>1, <1>3
  <2>2. squares[i].last \in Int \X Int
    BY DEF ChipTypeOK, SquareOscs
  <2> QED BY <2>1, <2>2, LastSet
<1>5. noise' \in NoiseOscs /\ Noise(noise') = Noise(kept.noise)
  <2>1. noise.last \in Int \X Int
    BY DEF ChipTypeOK, NoiseOscs
  <2> QED BY <1>1, <1>3, <2>1, LastSet
<1>6. squares' \in [Squares -> SquareOscs]
  BY <1>1, <1>4
<1> QED BY <1>1, <1>3, <1>4, <1>5, <1>6

LEMMA StepType == ChipTypeOK /\ [ChipNext]_chipVars => ChipTypeOK'
<1> SUFFICES ASSUME ChipTypeOK, [ChipNext]_chipVars PROVE ChipTypeOK'
  OBVIOUS
<1>1. StepKinds /\ tune' \in Seq(Nat \X (0..255))
  BY StepCases
<1>2. /\ squares \in [Squares -> SquareOscs] /\ noise \in NoiseOscs
      /\ latch_left \in 0..255 /\ latch_right \in 0..255
      /\ last_time \in Nat /\ ngpc_soundTS \in Nat /\ last_time <= Now
      /\ schipenable \in BOOLEAN
      /\ kept # <<>> => kept \in Keeps
  BY DEF ChipTypeOK
<1>3. Now \in Nat
  BY Present
<1>4. Now' = ngpc_soundTS' \div 2
  BY DEF Now
<1>5. CASE Untouched
  <2>1. Now' = Now
    BY <1>5 DEF Now, Untouched
  <2> QED BY <1>1, <1>2, <1>5, <2>1 DEF ChipTypeOK, Untouched
<1>6. CASE Written
  <2>1. Now' = Now
    BY <1>6 DEF Now, Written
  <2> QED BY <1>1, <1>2, <1>3, <1>6, <2>1 DEF ChipTypeOK, Written, NoiseSet
<1>7. CASE SetEnable(TRUE)
  <2>1. Now' = Now
    BY <1>7 DEF Now, SetEnable
  <2> QED BY <1>1, <1>2, <1>7, <2>1 DEF ChipTypeOK, SetEnable
<1>8. CASE SetEnable(FALSE)
  <2>1. Now' = Now
    BY <1>8 DEF Now, SetEnable
  <2>2. squares' \in [Squares -> SquareOscs] /\ noise' \in NoiseOscs
    BY <1>2, <1>8, NewOscs DEF SetEnable
  <2>3. latch_left' = 0 /\ latch_right' = 0 /\ last_time' = 0 /\ ngpc_soundTS' = ngpc_soundTS /\ kept' = kept
    BY <1>8 DEF SetEnable
  <2>4. schipenable' \in BOOLEAN
    BY <1>8, Zenon DEF SetEnable
  <2>5. /\ latch_left' \in 0..255 /\ latch_right' \in 0..255
        /\ last_time' \in Nat /\ ngpc_soundTS' \in Nat /\ last_time' <= Now'
    BY <1>2, <1>3, <2>1, <2>3
  <2>6. kept' # <<>> => kept' \in Keeps
    BY <1>2, <2>3, Zenon
  <2> QED BY <1>1, <2>2, <2>4, <2>5, <2>6, Zenon DEF ChipTypeOK
<1>9. CASE SaveState
  <2>1. Now' = Now
    BY <1>9 DEF Now, SaveState
  <2>2. kept' \in Keeps
    BY <1>9, SavedType
  <2> QED BY <1>1, <1>2, <1>9, <2>1, <2>2 DEF ChipTypeOK, SaveState
<1>10. CASE LoadState
  <2>1. Now' = Now /\ kept' = kept /\ last_time' = last_time /\ ngpc_soundTS' = ngpc_soundTS
    BY <1>10 DEF Now, LoadState
  <2>2. /\ squares' \in [Squares -> SquareOscs] /\ noise' \in NoiseOscs
        /\ latch_left' \in 0..255 /\ latch_right' \in 0..255 /\ schipenable' \in BOOLEAN
    BY <1>10, LoadedType
  <2> QED BY <1>1, <1>2, <2>1, <2>2 DEF ChipTypeOK
<1>11. CASE Flush
  <2>1. /\ squares' \in [Squares -> SquareOscs] /\ noise' \in NoiseOscs
        /\ last_time' = 0 /\ ngpc_soundTS' = 0 /\ Now' = 0
    BY <1>3, <1>4, <1>11, Present DEF Flush
  <2> QED BY <1>1, <1>2, <1>11, <2>1 DEF ChipTypeOK, Flush
<1>12. ASSUME NEW t \in Nat, Pass(t) PROVE ChipTypeOK'
  <2>1. ngpc_soundTS' \in Nat /\ last_time' <= Now' /\ last_time' = last_time
    <3>1. ngpc_soundTS' = ngpc_soundTS + t /\ last_time' = last_time
      BY <1>12 DEF Pass
    <3>2. ngpc_soundTS \div 2 <= (ngpc_soundTS + t) \div 2 /\ (ngpc_soundTS + t) \div 2 \in Nat
      BY <1>2
    <3> QED BY <1>2, <1>3, <1>4, <3>1, <3>2 DEF Now
  <2> QED BY <1>1, <1>2, <1>12, <2>1 DEF ChipTypeOK, Pass
<1> QED BY <1>1, <1>5, <1>6, <1>7, <1>8, <1>9, <1>10, <1>11, <1>12, Zenon DEF StepKinds

\* The oscillators keep to the ranges of their registers, and never run ahead of the present.
THEOREM ChipTypeCorrect == ChipSpec => []ChipTypeOK
BY InitType, StepType, PTL DEF ChipSpec
-----------------------------------------------------------------------------
(* Every step is one of ToneGenerator, or leaves its variables alone. *)

PresentSquares == [i \in Squares |-> Square(RunSquareUntil(i, Now))]
PresentNoise == Noise(RunNoiseUntil(Now))
KeptTones == IF kept = <<>> THEN <<>> ELSE <<[i \in Squares |-> Square(kept.squares[i])], Noise(kept.noise)>>

SquaresAt(f, from, now) == [i \in Squares |-> Square(SquareNow(f[i], from, now))]
NoiseAt(o, from, now) == Noise(NoiseNow(o, from, now))

LEMMA AtNow ==
  ASSUME NEW f \in [Squares -> SquareOscs], NEW o \in NoiseOscs, NEW from \in Nat, NEW now \in Nat, from <= now
  PROVE  /\ \A i \in Squares : /\ SquaresAt(f, from, now)[i] = SquareAfter(Square(f[i]), now - from)
                               /\ SquaresAt(f, from, now)[i] \in SquareStates
                               /\ Square(f[i]) \in SquareStates
         /\ NoiseAt(o, from, now) = NoiseAfter(Noise(o), now - from)
         /\ NoiseAt(o, from, now) \in NoiseStates /\ Noise(o) \in NoiseStates
<1>1. ASSUME NEW i \in Squares
      PROVE  /\ SquaresAt(f, from, now)[i] = SquareAfter(Square(f[i]), now - from)
             /\ SquaresAt(f, from, now)[i] \in SquareStates
             /\ Square(f[i]) \in SquareStates
  <2>1. f[i] \in SquareOscs
    OBVIOUS
  <2>2. SquareNow(f[i], from, now) \in SquareOscs
        /\ Square(SquareNow(f[i], from, now)) = SquareAfter(Square(f[i]), now - from)
    BY <2>1, SquareNowIs
  <2>3. SquaresAt(f, from, now)[i] = Square(SquareNow(f[i], from, now))
    BY DEF SquaresAt
  <2> QED BY <2>1, <2>2, <2>3, SquareMaps
<1>2. /\ NoiseAt(o, from, now) = NoiseAfter(Noise(o), now - from)
      /\ NoiseAt(o, from, now) \in NoiseStates /\ Noise(o) \in NoiseStates
  BY NoiseNowIs, NoiseMaps DEF NoiseAt
<1> QED BY <1>1, <1>2

\* An oscillator that has caught up.
LEMMA AtOnce ==
  ASSUME NEW f \in [Squares -> SquareOscs], NEW o \in NoiseOscs, NEW now \in Nat
  PROVE  SquaresAt(f, now, now) = [i \in Squares |-> Square(f[i])] /\ NoiseAt(o, now, now) = Noise(o)
BY DEF SquaresAt, NoiseAt, SquareNow, NoiseNow

\* More time: the oscillators at the first clock run on to the second.
LEMMA AtLater ==
  ASSUME NEW f \in [Squares -> SquareOscs], NEW o \in NoiseOscs, NEW from \in Nat, NEW now \in Nat,
         NEW then \in Nat, from <= now, now <= then
  PROVE  /\ \A i \in Squares : SquaresAt(f, from, then)[i] = SquareAfter(SquaresAt(f, from, now)[i], then - now)
         /\ NoiseAt(o, from, then) = NoiseAfter(NoiseAt(o, from, now), then - now)
<1>1. now - from \in Nat /\ then - now \in Nat /\ (now - from) + (then - now) = then - from /\ from <= then
  OBVIOUS
<1>2. ASSUME NEW i \in Squares
      PROVE  SquaresAt(f, from, then)[i] = SquareAfter(SquaresAt(f, from, now)[i], then - now)
  <2>1. /\ SquaresAt(f, from, now)[i] = SquareAfter(Square(f[i]), now - from)
        /\ Square(f[i]) \in SquareStates
    BY AtNow
  <2>2. SquaresAt(f, from, then)[i] = SquareAfter(Square(f[i]), then - from)
    BY <1>1, AtNow
  <2>3. SquareAfter(SquareAfter(Square(f[i]), now - from), then - now)
          = SquareAfter(Square(f[i]), (now - from) + (then - now))
    BY <1>1, <2>1, SquareAfterSum
  <2> QED BY <1>1, <2>1, <2>2, <2>3
<1>3. NoiseAt(o, from, then) = NoiseAfter(NoiseAt(o, from, now), then - now)
  <2>1. NoiseAt(o, from, now) = NoiseAfter(Noise(o), now - from) /\ Noise(o) \in NoiseStates
    BY AtNow
  <2>2. NoiseAt(o, from, then) = NoiseAfter(Noise(o), then - from)
    BY <1>1, AtNow
  <2>3. NoiseAfter(NoiseAfter(Noise(o), now - from), then - now)
          = NoiseAfter(Noise(o), (now - from) + (then - now))
    BY <1>1, <2>1, NoiseAfterSum
  <2> QED BY <1>1, <2>1, <2>2, <2>3
<1> QED BY <1>2, <1>3

NewSquares == [j \in Squares |-> NewSquare]
OffSquare == [volume |-> Tones!Silent, period |-> 0, delay |-> 0, phase |-> 0]

\* Oscillators switched off do not move.
LEMMA OffStays ==
  ASSUME NEW o \in NoiseOscs, NEW from \in Nat, NEW now \in Nat, from <= now
  PROVE  /\ \A i \in Squares : SquaresAt(NewSquares, from, now)[i] = OffSquare
         /\ NoiseAt(NewNoise(o), from, now).volume = Tones!Silent /\ NoiseAt(NewNoise(o), from, now).delay = 0
<1> DEFINE n == now - from
           s == OffSquare
           q == NewNoise(o)
<1>1. n \in Nat
  OBVIOUS
<1>2. Square(NewSquare) = s
  <2>1. Period(NewSquare) = 0
    BY ChipAssumption DEF Period, NewSquare
  <2> QED BY <2>1 DEF Square, NewSquare, Silent, Tones!Silent, OffSquare
<1>3. s \in SquareStates
  BY DEF SquareStates, Tones!Silent, OffSquare
<1>4. SquareAfter(s, n) = s
  <2>1. CASE n = 0
    BY <1>3, <2>1, SquareAfterNext
  <2>2. CASE n # 0
    <3>1. SquareAfter(s, n) = [s EXCEPT !.delay = 0]
      BY <1>1, <1>3, <2>2, SquareStands DEF OffSquare
    <3> QED BY <3>1 DEF OffSquare
  <2> QED BY <2>1, <2>2
<1>5. ASSUME NEW i \in Squares PROVE SquaresAt(NewSquares, from, now)[i] = s
  <2> DEFINE f == NewSquares
  <2>1. f \in [Squares -> SquareOscs] /\ f[i] = NewSquare
    BY NewOscs DEF NewSquares
  <2> HIDE DEF f
  <2>2. SquaresAt(f, from, now)[i] = SquareAfter(Square(f[i]), now - from)
    BY <2>1, AtNow
  <2> QED BY <1>2, <1>4, <2>1, <2>2 DEF f
<1>6. q \in NoiseOscs /\ q.volume = Silent /\ q.delay = 0
  BY NewOscs
<1> HIDE DEF q
<1>7. Noise(q) \in NoiseStates /\ Noise(q).volume = Tones!Silent /\ Noise(q).delay = 0
  BY <1>6, NoiseMaps DEF Silent, Tones!Silent
<1>8. NoiseAt(q, from, now) = NoiseAfter(Noise(q), n)
  <2>1. NoiseNow(q, from, now) \in NoiseOscs /\ Noise(NoiseNow(q, from, now)) = NoiseAfter(Noise(q), now - from)
    BY <1>6, NoiseNowIs
  <2> QED BY <2>1 DEF NoiseAt
<1> HIDE DEF n
<1>9. NoiseAfter(Noise(q), n).volume = Tones!Silent /\ NoiseAfter(Noise(q), n).delay = 0
  <2> DEFINE w == Noise(q)
  <2> HIDE DEF w
  <2>1. w \in NoiseStates /\ w.volume = Tones!Silent /\ w.delay = 0
    BY <1>7 DEF w
  <2>2. CASE n = 0
    BY <2>1, <2>2, NoiseAfterNext DEF w
  <2>3. CASE n # 0
    <3>1. NoiseAfter(w, n) = [w EXCEPT !.delay = 0]
      BY <1>1, <2>1, <2>3, NoiseStands
    <3>2. [w EXCEPT !.delay = 0].volume = w.volume /\ [w EXCEPT !.delay = 0].delay = 0
      BY <2>1 DEF NoiseStates
    <3> QED BY <2>1, <3>1, <3>2 DEF w
  <2> QED BY <2>2, <2>3
<1> QED BY <1>5, <1>8, <1>9 DEF q
LEMMA PresentAt ==
  /\ PresentSquares = SquaresAt(squares, last_time, Now) /\ PresentNoise = NoiseAt(noise, last_time, Now)
  /\ PresentSquares' = SquaresAt(squares', last_time', Now') /\ PresentNoise' = NoiseAt(noise', last_time', Now')
BY DEF PresentSquares, PresentNoise, SquaresAt, NoiseAt, SquareNow, NoiseNow, RunSquareUntil, RunNoiseUntil

LEMMA WriteSets ==
  ASSUME ChipTypeOK, Written
  PROVE  /\ Now' = Now /\ KeptTones' = KeptTones
         /\ \A i \in Squares : /\ PresentSquares'[i].delay = PresentSquares[i].delay
                               /\ PresentSquares'[i].phase = PresentSquares[i].phase
         /\ PresentNoise'.delay = PresentNoise.delay
         /\ PresentNoise'.shifter \in
              {PresentNoise.shifter, [k \in DOMAIN PresentNoise.shifter |-> k = Len(PresentNoise.shifter)]}
<1>1. Now' = Now /\ KeptTones' = KeptTones
  BY DEF Written, Now, KeptTones
<1>2. last_time' = Now /\ Now \in Nat
  BY Present DEF Written
<1>3. /\ squares' \in [Squares -> SquareOscs] /\ noise' \in NoiseOscs
      /\ \A i \in Squares : SquareSet(squares'[i], SquareNow(squares[i], last_time, Now))
      /\ NoiseSet(noise', NoiseNow(noise, last_time, Now))
  BY DEF Written, NoiseSet
<1>4. PresentSquares' = [i \in Squares |-> Square(squares'[i])] /\ PresentNoise' = Noise(noise')
  BY <1>1, <1>2, <1>3, AtOnce, PresentAt
<1>5. ASSUME NEW i \in Squares
      PROVE  PresentSquares'[i].delay = PresentSquares[i].delay /\ PresentSquares'[i].phase = PresentSquares[i].phase
  <2>1. PresentSquares[i] = Square(SquareNow(squares[i], last_time, Now)) /\ PresentSquares'[i] = Square(squares'[i])
    BY <1>4, PresentAt DEF SquaresAt
  <2>2. \A o : Square(o).delay = o.delay /\ Square(o).phase = o.phase
    BY DEF Square
  <2> QED BY <1>3, <2>1, <2>2 DEF SquareSet
<1> DEFINE o == NoiseNow(noise, last_time, Now)
<1>6. PresentNoise = Noise(o) /\ o \in NoiseOscs /\ NoiseSet(noise', o)
  BY <1>3, Present, PresentAt DEF NoiseAt
<1> HIDE DEF o
<1>7. \A q : Noise(q).delay = q.delay /\ Noise(q).shifter = q.shifter
  BY DEF Noise
<1>8. NewShifter = [k \in DOMAIN o.shifter |-> k = Len(o.shifter)]
  <2>1. o.shifter \in Shifters
    BY <1>6 DEF NoiseOscs
  <2>2. DOMAIN o.shifter = 1..ShifterBits /\ Len(o.shifter) = ShifterBits
    BY <2>1 DEF Shifters
  <2> QED BY <2>2 DEF NewShifter
<1> QED BY <1>1, <1>4, <1>5, <1>6, <1>7, <1>8 DEF NoiseSet

LEMMA StepRuns ==
  ASSUME ChipTypeOK, ChipTypeOK', [ChipNext]_chipVars
  PROVE  [Tones!Next]_<<Now, PresentSquares, PresentNoise, KeptTones>>
<1> DEFINE Same == UNCHANGED <<Now, PresentSquares, PresentNoise, KeptTones>>
<1>1. StepKinds
  BY StepCases
<1>2. /\ squares \in [Squares -> SquareOscs] /\ noise \in NoiseOscs
      /\ squares' \in [Squares -> SquareOscs] /\ noise' \in NoiseOscs
      /\ last_time \in Nat /\ last_time' \in Nat /\ last_time <= Now /\ last_time' <= Now'
      /\ ngpc_soundTS \in Nat /\ ngpc_soundTS' \in Nat
  BY DEF ChipTypeOK
<1>3. Now \in Nat /\ Now' \in Nat /\ Now = ngpc_soundTS \div 2 /\ Now' = ngpc_soundTS' \div 2
  BY <1>2, NowType DEF Now
<1>4. DOMAIN PresentSquares = Squares
  BY DEF PresentSquares
<1>5. CASE Untouched
  <2>1. Same
    BY <1>5 DEF Untouched, Now, PresentSquares, PresentNoise, KeptTones, RunSquareUntil, RunNoiseUntil
  <2> QED BY <2>1
<1>6. CASE Written
  <2>1. /\ Now' = Now /\ KeptTones' = KeptTones
        /\ \A i \in DOMAIN PresentSquares : /\ PresentSquares'[i].delay = PresentSquares[i].delay
                                           /\ PresentSquares'[i].phase = PresentSquares[i].phase
        /\ PresentNoise'.delay = PresentNoise.delay
        /\ PresentNoise'.shifter \in
             {PresentNoise.shifter, [k \in DOMAIN PresentNoise.shifter |-> k = Len(PresentNoise.shifter)]}
    BY <1>4, <1>6, WriteSets
  <2>2. Tones!SetRegisters
    BY <2>1, Zenon DEF Tones!SetRegisters, PresentSquares, PresentNoise, KeptTones
  <2> QED BY <2>2 DEF Tones!Next
<1>7. CASE SetEnable(TRUE)
  <2>1. Same
    BY <1>7 DEF SetEnable, Now, PresentSquares, PresentNoise, KeptTones, RunSquareUntil, RunNoiseUntil
  <2> QED BY <2>1
<1>8. CASE SetEnable(FALSE)
  <2>1. squares' = NewSquares /\ noise' = NewNoise(noise) /\ Now' = Now /\ KeptTones' = KeptTones
    BY <1>8 DEF SetEnable, Now, KeptTones, NewSquares
  <2>2. /\ \A i \in Squares : PresentSquares'[i] = OffSquare
        /\ PresentNoise'.volume = Tones!Silent /\ PresentNoise'.delay = 0
    <3>1. /\ \A i \in Squares : SquaresAt(NewSquares, last_time', Now')[i] = OffSquare
          /\ NoiseAt(NewNoise(noise), last_time', Now').volume = Tones!Silent
          /\ NoiseAt(NewNoise(noise), last_time', Now').delay = 0
      <4>1. noise \in NoiseOscs /\ last_time' \in Nat /\ Now' \in Nat /\ last_time' <= Now'
        BY <1>2, <1>3
      <4> QED BY ONLY <4>1, OffStays, Zenon
    <3>2. PresentSquares' = SquaresAt(NewSquares, last_time', Now') /\ PresentNoise' = NoiseAt(NewNoise(noise), last_time', Now')
      BY <2>1, PresentAt
    <3> QED BY <3>1, <3>2
  <2>3. /\ Now' = Now /\ KeptTones' = KeptTones
        /\ \A i \in DOMAIN PresentSquares : PresentSquares'[i] = OffSquare
        /\ PresentNoise'.volume = Tones!Silent /\ PresentNoise'.delay = 0
    BY <1>4, <2>1, <2>2
  <2>4. Tones!TurnOff
    BY <2>3, Zenon DEF Tones!TurnOff, OffSquare, PresentSquares, PresentNoise, KeptTones
  <2> QED BY <2>4 DEF Tones!Next
<1>9. CASE SaveState
  <2>1. /\ Now = 0 /\ Now' = 0 /\ last_time = 0 /\ last_time' = 0 /\ squares' = squares /\ noise' = noise
    BY <1>2, <1>3, <1>9 DEF SaveState
  <2>2. /\ PresentSquares = [i \in Squares |-> Square(squares[i])] /\ PresentNoise = Noise(noise)
        /\ PresentSquares' = PresentSquares /\ PresentNoise' = PresentNoise
    BY <1>2, <2>1, AtOnce, PresentAt
  <2>3. KeptTones' = <<PresentSquares, PresentNoise>>
    <3>1. KeptTones' = <<[i \in Squares |-> Square(kept'.squares[i])], Noise(kept'.noise)>>
      BY <1>9, SavedType DEF KeptTones
    <3>2. Noise(kept'.noise) = PresentNoise
      BY <1>9, <2>2, SavedType
    <3>3. [i \in Squares |-> Square(kept'.squares[i])] = PresentSquares
      BY <1>9, <2>2, SavedType
    <3> QED BY <3>1, <3>2, <3>3
  <2>4. Tones!Save
    BY <2>1, <2>2, <2>3 DEF Tones!Save, PresentSquares, PresentNoise, KeptTones
  <2> QED BY <2>4 DEF Tones!Next
<1>10. CASE LoadState
  <2>1. /\ Now = 0 /\ Now' = Now /\ last_time' = 0 /\ KeptTones' = KeptTones /\ kept # <<>>
    BY <1>2, <1>3, <1>10 DEF LoadState, KeptTones
  <2>2. PresentSquares' = [i \in Squares |-> Square(squares'[i])] /\ PresentNoise' = Noise(noise')
    BY <1>2, <2>1, AtOnce, PresentAt
  <2>3. KeptTones = <<[i \in Squares |-> Square(kept.squares[i])], Noise(kept.noise)>>
    BY <2>1 DEF KeptTones
  <2>4. PresentSquares' = KeptTones[1] /\ PresentNoise' = KeptTones[2] /\ KeptTones # <<>>
    BY <1>10, <2>2, <2>3, LoadedType
  <2>5. Tones!Load
    BY <2>1, <2>4 DEF Tones!Load, PresentSquares, PresentNoise, KeptTones
  <2> QED BY <2>5 DEF Tones!Next
<1>11. CASE Flush
  <2>1. /\ squares' = CaughtUp(Now).squares /\ noise' = CaughtUp(Now).noise
        /\ last_time' = 0 /\ Now' = 0 /\ KeptTones' = KeptTones
    BY <1>3, <1>11, Present DEF Flush, KeptTones
  <2>2. PresentSquares' = [i \in Squares |-> Square(squares'[i])] /\ PresentNoise' = Noise(noise')
    BY <1>2, <2>1, AtOnce, PresentAt
  <2>3. PresentSquares' = PresentSquares /\ PresentNoise' = PresentNoise
    BY <2>1, <2>2, Present, PresentAt DEF SquaresAt, NoiseAt
  <2>4. Tones!NewFrame
    BY <2>1, <2>3 DEF Tones!NewFrame, PresentSquares, PresentNoise, KeptTones
  <2> QED BY <2>4 DEF Tones!Next
<1>12. ASSUME NEW t \in Nat, Pass(t)
       PROVE  [Tones!Next]_<<Now, PresentSquares, PresentNoise, KeptTones>>
  <2>1. squares' = squares /\ noise' = noise /\ last_time' = last_time /\ KeptTones' = KeptTones
        /\ ngpc_soundTS' = ngpc_soundTS + t
    BY <1>12 DEF Pass, KeptTones
  <2>2. Now <= Now'
    BY <1>2, <1>3, <2>1
  <2>3. CASE Now' = Now
    <3>1. Same
      BY <2>1, <2>3, PresentAt
    <3> QED BY <3>1
  <2>4. CASE Now' # Now
    <3>1. Now' > Now
      BY <1>3, <2>2, <2>4
    <3>2. /\ \A i \in Squares : PresentSquares'[i] = SquareAfter(PresentSquares[i], Now' - Now)
          /\ PresentNoise' = NoiseAfter(PresentNoise, Now' - Now)
      BY <1>2, <1>3, <2>1, <2>2, AtLater, PresentAt
    <3>3. PresentSquares' = [i \in DOMAIN PresentSquares |-> SquareAfter(PresentSquares[i], Now' - Now)]
      <4>1. PresentSquares' = [i \in Squares |-> PresentSquares'[i]]
        BY DEF PresentSquares
      <4> QED BY <1>4, <3>2, <4>1
    <3>4. Tones!Pass
      BY <2>1, <3>1, <3>2, <3>3, Zenon
         DEF Tones!Pass, SquareAfter, NoiseAfter, PresentSquares, PresentNoise, KeptTones
    <3> QED BY <3>4 DEF Tones!Next
  <2> QED BY <2>3, <2>4
<1> QED BY <1>1, <1>5, <1>6, <1>7, <1>8, <1>9, <1>10, <1>11, <1>12, Zenon DEF StepKinds

\* However writes, frames, mutes, resets and save states cut the time into pieces,
\* catching up in one go leaves every oscillator where one that runs clock by clock is.
THEOREM ChipRunsClockByClock == ChipSpec => RunsClockByClock
<1>1. ChipTypeOK /\ ChipTypeOK' /\ [ChipNext]_chipVars
        => [Tones!Next]_<<Now, PresentSquares, PresentNoise, KeptTones>>
  BY StepRuns
<1> QED BY <1>1, ChipTypeCorrect, PTL
        DEF ChipSpec, RunsClockByClock, Tones!Spec, PresentSquares, PresentNoise, KeptTones
-----------------------------------------------------------------------------
(* The level the additions of a run make up. *)

Plus(v, w) == Minus(v, Opposite(w))
Added(v, a, c) == IF a[1] <= c THEN Plus(v, a[2]) ELSE v
LevelOf(adds, last, c) ==
  LET upto[k \in 0..Len(adds)] == IF k = 0 THEN last ELSE Added(upto[k - 1], adds[k], c)
  IN  upto[Len(adds)]
Additions(u, adds, last, c) ==
  /\ u \in [0..Len(adds) -> Int \X Int] /\ u[0] = last
  /\ \A k \in 0..(Len(adds) - 1) : u[k + 1] = Added(u[k], adds[k + 1], c)

LEMMA PlusType ==
  ASSUME NEW v \in Int \X Int, NEW w \in Int \X Int
  PROVE  Plus(v, w) \in Int \X Int /\ Plus(v, w) = <<v[1] + w[1], v[2] + w[2]>>
<1>1. Silent \in Int \X Int /\ v[1] \in Int /\ v[2] \in Int /\ w[1] \in Int /\ w[2] \in Int
  BY DEF Silent
<1>2. Opposite(w) = <<0 - w[1], 0 - w[2]>>
  BY DEF Opposite, Minus, Silent
<1>3. Plus(v, w) = <<v[1] - (0 - w[1]), v[2] - (0 - w[2])>>
  BY <1>2 DEF Plus, Minus
<1> QED BY <1>1, <1>3

LEMMA LevelIs == \A run, o, c : Level(run, o, c) = LevelOf(run.adds, o.last, c)
BY Zenon DEF Level, LevelOf, Added, Plus

LEMMA LevelRuns ==
  ASSUME NEW adds \in Adds, NEW last \in Int \X Int, NEW c \in Int
  PROVE  \E u : Additions(u, adds, last, c) /\ u[Len(adds)] = LevelOf(adds, last, c)
<1> DEFINE n == Len(adds)
           S == Int \X Int
           step == [x \in Nat \X S |-> IF x[1] \in 1..n THEN Added(x[2], adds[x[1]], c) ELSE x[2]]
           Is(f) == f = [k \in 0..n |-> IF k = 0 THEN last ELSE Added(f[k - 1], adds[k], c)]
<1>1. n \in Nat
  BY DEF Adds
<1> HIDE DEF n
<1>2. ASSUME NEW k \in 1..n, NEW v \in S PROVE Added(v, adds[k], c) \in S
  <2>1. adds[k] \in Int \X S
    <3>1. adds \in Seq(Int \X S) /\ k \in 1..Len(adds)
      BY DEF Adds, n
    <3> QED BY <3>1, ElementOfSeq
  <2>2. adds[k][2] \in S
    BY <2>1
  <2> QED BY <2>2, PlusType DEF Added
<1>3. step \in [Nat \X S -> S]
  <2> SUFFICES ASSUME NEW k \in Nat, NEW v \in S
               PROVE  (IF k \in 1..n THEN Added(v, adds[k], c) ELSE v) \in S
    OBVIOUS
  <2> QED BY <1>2
<1>4. \A k \in 1..n, v \in S : step[<<k, v>>] = Added(v, adds[k], c)
  <2> TAKE k \in 1..n, v \in S
  <2>1. k \in Nat /\ <<k, v>> \in Nat \X S
    BY <1>1
  <2>2. step[<<k, v>>] = IF k \in 1..n THEN Added(v, adds[k], c) ELSE v
    BY <2>1
  <2> QED BY <2>2
<1> HIDE DEF step
<1>5. PICK f \in [0..n -> S] : Steps(f, last, step, n)
  <2> HIDE DEF S
  <2>1. last \in S
    BY DEF S
  <2> QED BY <1>1, <1>3, <2>1, StepsExist
<1>6. Is(f)
  <2>1. ASSUME NEW k \in 0..n
        PROVE  (IF k = 0 THEN last ELSE step[<<k, f[k - 1]>>]) = (IF k = 0 THEN last ELSE Added(f[k - 1], adds[k], c))
    <3>1. k # 0 => k \in 1..n /\ k - 1 \in 0..n
      BY <1>1
    <3>2. k # 0 => f[k - 1] \in S
      BY <1>5, <3>1
    <3> HIDE DEF S
    <3> QED BY <1>4, <3>1, <3>2, Zenon
  <2> QED BY <1>5, <2>1, Zenon DEF Steps
<1> DEFINE u == CHOOSE g : Is(g)
<1>7. Is(u)
  BY <1>6, Zenon
<1>8. LevelOf(adds, last, c) = u[n]
  BY Zenon DEF LevelOf, n
<1> HIDE DEF u
<1>9. u[0] = last
  <2>1. 0 \in 0..n
    BY <1>1
  <2> QED BY <1>7, <2>1, Zenon
<1>10. \A k \in 0..(n - 1) : u[k + 1] = Added(u[k], adds[k + 1], c)
  <2> TAKE k \in 0..(n - 1)
  <2>1. k + 1 \in 0..n /\ k + 1 # 0 /\ (k + 1) - 1 = k
    BY <1>1
  <2>2. u[k + 1] = Added(u[(k + 1) - 1], adds[k + 1], c)
    BY <1>7, <2>1, Zenon
  <2> QED BY <2>1, <2>2
<1>11. u \in [0..n -> S]
  <2> DEFINE T == {k \in 0..n : u[k] \in S}
  <2>1. 0 \in T
    BY <1>1, <1>9
  <2>2. \A k \in 0..(n - 1) : k \in T => k + 1 \in T
    <3> TAKE k \in 0..(n - 1)
    <3> HAVE k \in T
    <3>1. k + 1 \in 0..n /\ k + 1 \in 1..n
      BY <1>1
    <3>2. u[k] \in S
      OBVIOUS
    <3>3. u[k + 1] \in S
      BY <1>2, <1>10, <3>1, <3>2
    <3> QED BY <3>1, <3>3
  <2> HIDE DEF T
  <2>3. \A k \in 0..n : k \in T
    BY <1>1, <2>1, <2>2, UpTo
  <2>4. \A k \in 0..n : u[k] \in S
    BY <2>3, Zenon DEF T
  <2>5. u = [k \in 0..n |-> u[k]]
    BY <1>7, Zenon
  <2> QED BY <2>4, <2>5, Zenon
<1> QED BY <1>8, <1>9, <1>10, <1>11, Zenon DEF Additions, n

LEMMA LevelEmpty ==
  ASSUME NEW last \in Int \X Int, NEW c \in Int
  PROVE  LevelOf(<<>>, last, c) = last
<1>1. <<>> \in Adds /\ Len(<<>>) = 0
  BY DEF Adds
<1>2. PICK e : Additions(e, <<>>, last, c) /\ e[Len(<<>>)] = LevelOf(<<>>, last, c)
  BY <1>1, LevelRuns
<1> QED BY <1>1, <1>2 DEF Additions

\* One addition more.
LEMMA LevelNext ==
  ASSUME NEW adds \in Adds, NEW last \in Int \X Int, NEW c \in Int, NEW a \in Int \X (Int \X Int)
  PROVE  /\ LevelOf(adds, last, c) \in Int \X Int
         /\ LevelOf(Append(adds, a), last, c) = Added(LevelOf(adds, last, c), a, c)
<1> DEFINE n == Len(adds)
           more == Append(adds, a)
<1>1. /\ n \in Nat /\ more \in Adds /\ Len(more) = n + 1 /\ more[n + 1] = a
      /\ \A k \in 1..n : more[k] = adds[k]
  BY DEF Adds
<1>2. PICK u : Additions(u, adds, last, c) /\ u[n] = LevelOf(adds, last, c)
  BY LevelRuns
<1> HIDE DEF more
<1>3. PICK w : Additions(w, more, last, c) /\ w[Len(more)] = LevelOf(more, last, c)
  BY <1>1, LevelRuns
<1>4. /\ u[0] = last /\ \A k \in 0..(n - 1) : u[k + 1] = Added(u[k], adds[k + 1], c)
      /\ u \in [0..n -> Int \X Int]
  BY <1>2, Zenon DEF Additions
<1> HIDE DEF n
<1>5. w[0] = last /\ \A k \in 0..n : w[k + 1] = Added(w[k], more[k + 1], c)
  <2>1. Len(more) - 1 = n
    BY <1>1
  <2> QED BY <1>3, <2>1 DEF Additions
<1>6. w[n] = u[n]
  <2> DEFINE T == {k \in 0..n : w[k] = u[k]}
  <2>1. 0 \in T
    BY <1>1, <1>4, <1>5
  <2>2. \A k \in 0..(n - 1) : k \in T => k + 1 \in T
    <3> TAKE k \in 0..(n - 1)
    <3> HAVE k \in T
    <3>1. k + 1 \in 0..n /\ k \in 0..n /\ k + 1 \in 1..n
      BY <1>1
    <3>2. more[k + 1] = adds[k + 1]
      BY <1>1, <3>1
    <3> QED BY <1>4, <1>5, <3>1, <3>2
  <2>3. n \in 0..n
    BY <1>1
  <2> HIDE DEF T
  <2>4. n \in T
    BY <1>1, <2>1, <2>2, <2>3, UpTo
  <2> QED BY <2>4, Zenon DEF T
<1>7. LevelOf(more, last, c) = Added(LevelOf(adds, last, c), a, c)
  <2>1. n \in 0..n /\ w[Len(more)] = w[n + 1]
    BY <1>1
  <2> QED BY <1>1, <1>2, <1>3, <1>5, <1>6, <2>1
<1>8. LevelOf(adds, last, c) \in Int \X Int
  <2>1. n \in 0..n
    BY <1>1
  <2> QED BY <1>2, <1>4, <2>1
<1> QED BY <1>7, <1>8 DEF more

LEMMA FirstAdded ==
  ASSUME NEW last \in Int \X Int, NEW v \in Int \X Int, NEW time \in Int, NEW c \in Int, time <= c
  PROVE  Added(last, <<time, Minus(v, last)>>, c) = v
<1> DEFINE a == <<time, Minus(v, last)>>
<1>1. Added(last, a, c) = v
  <2>1. Added(last, a, c) = Plus(last, Minus(v, last))
    BY DEF Added
  <2>2. Plus(last, Minus(v, last)) = <<last[1] + Minus(v, last)[1], last[2] + Minus(v, last)[2]>>
    BY Pairs, PlusType
  <2>3. Minus(v, last)[1] = v[1] - last[1] /\ Minus(v, last)[2] = v[2] - last[2]
    BY DEF Minus
  <2>4. v = <<v[1], v[2]>> /\ v[1] \in Int /\ v[2] \in Int /\ last[1] \in Int /\ last[2] \in Int
    OBVIOUS
  <2>5. last[1] + (v[1] - last[1]) = v[1] /\ last[2] + (v[2] - last[2]) = v[2]
    BY <2>4
  <2> QED BY <2>1, <2>2, <2>3, <2>4, <2>5
<1> QED BY <1>1

\* The first addition brings the remembered level to the one that is wanted.
LEMMA LevelFirst ==
  ASSUME NEW last \in Int \X Int, NEW v \in Int \X Int, NEW time \in Int, NEW c \in Int, time <= c
  PROVE  /\ <<<<time, Minus(v, last)>>>> \in Adds
         /\ LevelOf(<<<<time, Minus(v, last)>>>>, last, c) = v
<1> DEFINE a == <<time, Minus(v, last)>>
<1>1. a \in Int \X (Int \X Int)
  BY Pairs
<1>2. <<>> \in Adds
  BY DEF Adds
<1>3. Append(<<>>, a) = <<a>>
  OBVIOUS
<1>4. Added(last, a, c) = v
  BY FirstAdded
<1> HIDE DEF a
<1>5. LevelOf(<<a>>, last, c) = v
  <2> DEFINE e == <<>>
  <2>1. e \in Adds /\ Append(e, a) = <<a>> /\ LevelOf(e, last, c) = LevelOf(<<>>, last, c)
    BY <1>2, <1>3
  <2> HIDE DEF e
  <2>2. LevelOf(Append(e, a), last, c) = Added(LevelOf(e, last, c), a, c)
    <3>1. e \in Adds
      BY <2>1
    <3>2. a \in Int \X (Int \X Int)
      BY <1>1
    <3>3. /\ LevelOf(e, last, c) \in Int \X Int
          /\ LevelOf(Append(e, a), last, c) = Added(LevelOf(e, last, c), a, c)
      BY <3>1, <3>2, LevelNext
    <3> QED BY <3>3
  <2>3. LevelOf(<<>>, last, c) = last
    BY LevelEmpty
  <2> QED BY <1>4, <2>1, <2>2, <2>3
<1>6. <<a>> \in Adds
  BY <1>1 DEF Adds
<1> QED BY <1>5, <1>6 DEF a

\* A level and twice its opposite make the opposite.

LEMMA Flips ==
  ASSUME NEW v \in Int \X Int, NEW on \in BOOLEAN
  PROVE  Plus(Signed(on, v), Twice(Signed(~on, v))) = Signed(~on, v)
<1>1. /\ v = <<v[1], v[2]>> /\ v[1] \in Int /\ v[2] \in Int
      /\ Opposite(v) = <<0 - v[1], 0 - v[2]>>
  BY DEF Opposite, Minus, Silent
<1>2. v \in Int \X Int /\ Opposite(v) \in Int \X Int /\ Twice(v) \in Int \X Int /\ Twice(Opposite(v)) \in Int \X Int
  BY Pairs
<1>3. Plus(v, Twice(Opposite(v))) = Opposite(v)
  <2>1. Twice(Opposite(v)) = <<2 * (0 - v[1]), 2 * (0 - v[2])>>
    BY <1>1 DEF Twice
  <2>2. Plus(v, Twice(Opposite(v))) = <<v[1] + Twice(Opposite(v))[1], v[2] + Twice(Opposite(v))[2]>>
    BY <1>2, PlusType
  <2>3. v[1] + 2 * (0 - v[1]) = 0 - v[1] /\ v[2] + 2 * (0 - v[2]) = 0 - v[2]
    BY <1>1
  <2> QED BY <1>1, <2>1, <2>2, <2>3
<1>4. Plus(Opposite(v), Twice(v)) = v
  <2>1. Twice(v) = <<2 * v[1], 2 * v[2]>>
    BY DEF Twice
  <2>2. Plus(Opposite(v), Twice(v)) = <<Opposite(v)[1] + Twice(v)[1], Opposite(v)[2] + Twice(v)[2]>>
    BY <1>2, PlusType
  <2>3. Opposite(v)[1] = 0 - v[1] /\ Opposite(v)[2] = 0 - v[2] /\ Twice(v)[1] = 2 * v[1] /\ Twice(v)[2] = 2 * v[2]
    BY <1>1, <2>1
  <2>4. (0 - v[1]) + 2 * v[1] = v[1] /\ (0 - v[2]) + 2 * v[2] = v[2]
    BY <1>1
  <2>5. Plus(Opposite(v), Twice(v)) = <<v[1], v[2]>>
    BY <2>2, <2>3, <2>4, Zenon
  <2> QED BY <1>1, <2>5, Zenon
<1>5. CASE on
  BY <1>3, <1>5 DEF Signed
<1>6. CASE ~on
  BY <1>4, <1>6 DEF Signed
<1> QED BY <1>5, <1>6

LEMMA HalfTwice ==
  ASSUME NEW v \in Int \X Int
  PROVE  Half(Twice(v)) = v
<1>1. v = <<v[1], v[2]>> /\ v[1] \in Int /\ v[2] \in Int
  OBVIOUS
<1>2. Twice(v) = <<2 * v[1], 2 * v[2]>>
  BY DEF Twice
<1>3. (2 * v[1]) \div 2 = v[1] /\ (2 * v[2]) \div 2 = v[2]
  BY <1>1
<1>4. Half(Twice(v)) = <<(2 * v[1]) \div 2, (2 * v[2]) \div 2>>
  <2>1. Twice(v)[1] = 2 * v[1] /\ Twice(v)[2] = 2 * v[2]
    BY <1>2
  <2> QED BY <2>1, Zenon DEF Half
<1>5. Half(Twice(v)) = <<v[1], v[2]>>
  BY <1>3, <1>4, Zenon
<1> QED BY <1>1, <1>5, Zenon

LEMMA OppositeIs ==
  ASSUME NEW v \in Int \X Int
  PROVE  Tones!Opposite(v) = Opposite(v)
<1>1. v[1] \in Int /\ v[2] \in Int
  OBVIOUS
<1>2. -v[1] = 0 - v[1] /\ -v[2] = 0 - v[2]
  BY <1>1
<1>3. Opposite(v) = <<0 - v[1], 0 - v[2]>>
  BY DEF Opposite, Minus, Silent
<1>4. Tones!Opposite(v) = <<-v[1], -v[2]>>
  BY Zenon DEF Tones!Opposite
<1> QED BY <1>2, <1>3, <1>4, Zenon

LEMMA MutedSigned ==
  ASSUME NEW on
  PROVE  Signed(on, Silent) = Silent /\ Tones!Opposite(Silent) = Silent /\ Tones!Silent = Silent
<1>1. Opposite(Silent) = Silent /\ Tones!Silent = Silent /\ Silent \in Int \X Int
  BY DEF Opposite, Minus, Silent, Tones!Silent
<1>2. Tones!Opposite(Silent) = Opposite(Silent)
  BY <1>1, OppositeIs
<1> QED BY <1>1, <1>2 DEF Signed

\* j edges come up to clock c, of those before the n-th.
EdgesBy(first, p, n, c, j) == j \in 0..n /\ \A k \in 0..(n - 1) : first + k * p <= c <=> k < j

LEMMA EdgesAt ==
  ASSUME NEW time \in Nat, NEW d \in Nat, NEW p \in Nat, NEW c \in Nat, time <= c, NEW n \in Nat,
         NEW j \in 0..n, Turned(d, p, c - time + 1, j)
  PROVE  EdgesBy(time + d, p, n, c, j)
<1>1. j \in Nat /\ j * p \in Nat /\ d + j * p >= c - time + 1
  BY Products DEF Turned
<1>2. ASSUME NEW k \in 0..(n - 1) PROVE (time + d) + k * p <= c <=> k < j
  <2>1. k \in Nat /\ k * p \in Nat
    BY Products
  <2>2. CASE k < j
    <3>1. k \in 0..(j - 1)
      BY <1>1, <2>1, <2>2
    <3>2. d + k * p < c - time + 1
      BY <3>1, Zenon DEF Turned
    <3> QED BY <2>1, <2>2, <3>2
  <2>3. CASE ~(k < j)
    <3>1. j <= k
      BY <1>1, <2>1, <2>3
    <3>2. j * p <= k * p
      BY <1>1, <2>1, <3>1, ProductsGrow
    <3> QED BY <1>1, <2>1, <2>3, <3>2
  <2> QED BY <2>2, <2>3
<1> QED BY <1>2 DEF EdgesBy

\* At the end all edges have come.
LEMMA EdgesAll ==
  ASSUME NEW time \in Nat, NEW d \in Nat, NEW p \in Nat, NEW end \in Nat, time <= end, NEW n,
         Turned(d, p, end - time, n)
  PROVE  EdgesBy(time + d, p, n, end, n)
<1>1. n \in Nat
  BY DEF Turned
<1>2. ASSUME NEW k \in 0..(n - 1) PROVE (time + d) + k * p <= end <=> k < n
  <2>1. k \in Nat /\ k * p \in Nat
    BY <1>1, Products
  <2>2. d + k * p < end - time
    BY Zenon DEF Turned
  <2> QED BY <1>1, <2>1, <2>2
<1> QED BY <1>1, <1>2 DEF EdgesBy

LEMMA SignedTwice ==
  ASSUME NEW v \in Int \X Int, NEW a \in BOOLEAN, NEW b \in BOOLEAN
  PROVE  Signed(b, Twice(Signed(a, v))) = Twice(Signed(a <=> b, v))
<1>1. /\ v = <<v[1], v[2]>> /\ v[1] \in Int /\ v[2] \in Int
      /\ Opposite(v) = <<0 - v[1], 0 - v[2]>>
  BY DEF Opposite, Minus, Silent
<1>2. Twice(v) = <<2 * v[1], 2 * v[2]>>
  BY DEF Twice
<1>3. Twice(Opposite(v)) = <<2 * (0 - v[1]), 2 * (0 - v[2])>>
  <2>1. Opposite(v)[1] = 0 - v[1] /\ Opposite(v)[2] = 0 - v[2]
    BY <1>1
  <2> QED BY <2>1, Zenon DEF Twice
<1>4. \A w : Opposite(w) = <<0 - w[1], 0 - w[2]>>
  BY DEF Opposite, Minus, Silent
<1>5. Opposite(Twice(v)) = Twice(Opposite(v))
  <2>1. Twice(v)[1] = 2 * v[1] /\ Twice(v)[2] = 2 * v[2]
    BY <1>2
  <2>2. Opposite(Twice(v)) = <<0 - Twice(v)[1], 0 - Twice(v)[2]>>
    BY <1>4, Zenon
  <2>3. 0 - 2 * v[1] = 2 * (0 - v[1]) /\ 0 - 2 * v[2] = 2 * (0 - v[2])
    BY <1>1
  <2> QED BY <1>3, <2>1, <2>2, <2>3, Zenon
<1>6. Opposite(Twice(Opposite(v))) = Twice(v)
  <2>1. Twice(Opposite(v))[1] = 2 * (0 - v[1]) /\ Twice(Opposite(v))[2] = 2 * (0 - v[2])
    BY <1>3
  <2>2. Opposite(Twice(Opposite(v))) = <<0 - Twice(Opposite(v))[1], 0 - Twice(Opposite(v))[2]>>
    BY <1>4, Zenon
  <2>3. 0 - 2 * (0 - v[1]) = 2 * v[1] /\ 0 - 2 * (0 - v[2]) = 2 * v[2]
    BY <1>1
  <2> QED BY <1>2, <2>1, <2>2, <2>3, Zenon
<1>7. CASE a
  BY <1>5, <1>7 DEF Signed
<1>8. CASE ~a
  BY <1>6, <1>8 DEF Signed
<1> QED BY <1>7, <1>8

LEMMA Parity ==
  ASSUME NEW ph \in {0, 1}, NEW k \in Nat
  PROVE  /\ (ph + (k + 1)) % 2 = 1 <=> ~((ph + k) % 2 = 1)
         /\ ((ph = 1) <=> ((k + 1) % 2 = 0)) <=> (ph + (k + 1)) % 2 = 1
         /\ (ph + 0) % 2 = 1 <=> ph = 1
<1>1. (ph + (k + 1)) % 2 = 1 <=> ~((ph + k) % 2 = 1)
  OBVIOUS
<1>2. ((ph = 1) <=> ((k + 1) % 2 = 0)) <=> (ph + (k + 1)) % 2 = 1
  OBVIOUS
<1>3. (ph + 0) % 2 = 1 <=> ph = 1
  OBVIOUS
<1> QED BY <1>1, <1>2, <1>3

\* Additions of the loop of T6W28_Square::run().
FirstStep(o, time) == <<time, Minus(Signed(o.phase = 1, o.volume), o.last)>>
EdgeSteps(o, first, p, e) ==
  [k \in 1..e |-> <<first + (k - 1) * p, Signed(k % 2 = 0, Twice(Signed(o.phase = 1, o.volume)))>>]
SquareSteps(o, time, first, p, e) == <<FirstStep(o, time)>> \o EdgeSteps(o, first, p, e)

StepsOf(adds, a, t, e) ==
  adds \in Adds /\ Len(adds) = e + 1 /\ adds[1] = a /\ \A k \in 1..e : adds[k + 1] = t[k]

LEMMA SquareStepsType ==
  ASSUME NEW o \in SquareOscs, NEW time \in Nat, NEW first \in Nat, NEW p \in Nat, NEW e \in Nat
  PROVE  StepsOf(SquareSteps(o, time, first, p, e), FirstStep(o, time), EdgeSteps(o, first, p, e), e)
<1> DEFINE S == Int \X (Int \X Int)
           a == FirstStep(o, time)
           t == EdgeSteps(o, first, p, e)
           amp == Signed(o.phase = 1, o.volume)
<1>1. o.volume \in Int \X Int /\ o.last \in Int \X Int
  BY DEF SquareOscs
<1>2. amp \in Int \X Int
  BY <1>1, Pairs
<1> HIDE DEF amp
<1>3. a \in S
  BY <1>1, <1>2, Pairs DEF FirstStep, amp
<1>4. t \in Seq(S) /\ Len(t) = e
  <2>1. ASSUME NEW k \in 1..e PROVE <<first + (k - 1) * p, Signed(k % 2 = 0, Twice(amp))>> \in S
    <3>1. Twice(amp) \in Int \X Int
      BY <1>2, Pairs
    <3>2. Signed(k % 2 = 0, Twice(amp)) \in Int \X Int
      BY <3>1, Pairs
    <3>3. first + (k - 1) * p \in Int
      OBVIOUS
    <3> QED BY <3>2, <3>3
  <2>2. t = [k \in 1..e |-> <<first + (k - 1) * p, Signed(k % 2 = 0, Twice(amp))>>]
    BY Zenon DEF EdgeSteps, amp
  <2> HIDE DEF t
  <2>3. t \in [1..e -> S]
    BY <2>1, <2>2
  <2> HIDE DEF S
  <2> QED BY <2>3
<1> HIDE DEF a, t, S
<1>5. /\ <<a>> \o t \in Seq(S) /\ Len(<<a>> \o t) = e + 1 /\ (<<a>> \o t)[1] = a
      /\ \A k \in 1..e : (<<a>> \o t)[k + 1] = t[k]
  BY <1>3, <1>4
<1> QED BY <1>5, Zenon DEF SquareSteps, StepsOf, Adds, a, t, S

LEMMA LoudLevels ==
  ASSUME NEW o \in SquareOscs, NEW time \in Nat, NEW first \in Nat, NEW p \in Nat, NEW e \in Nat,
         NEW c \in Nat, time <= c, NEW j, EdgesBy(first, p, e, c, j)
  PROVE  LevelOf(SquareSteps(o, time, first, p, e), o.last, c) = Signed((o.phase + j) % 2 = 1, o.volume)
<1> DEFINE v == o.volume
           ph == o.phase
           amp == Signed(ph = 1, v)
           adds == SquareSteps(o, time, first, p, e)
           min(k) == IF k <= j THEN k ELSE j
           L(k) == Signed((ph + min(k)) % 2 = 1, v)
<1>1. /\ v \in Int \X Int /\ o.last \in Int \X Int /\ ph \in {0, 1} /\ j \in 0..e /\ j \in Nat
      /\ \A k \in 0..(e - 1) : first + k * p <= c <=> k < j
  BY DEF SquareOscs, EdgesBy
<1>2. /\ adds \in Adds /\ Len(adds) = e + 1 /\ adds[1] = <<time, Minus(amp, o.last)>>
      /\ \A k \in 1..e : adds[k + 1] = <<first + (k - 1) * p, Signed(k % 2 = 0, Twice(amp))>>
  <2>1. \A k \in 1..e : EdgeSteps(o, first, p, e)[k] = <<first + (k - 1) * p, Signed(k % 2 = 0, Twice(amp))>>
    BY Zenon DEF EdgeSteps
  <2>2. /\ adds \in Adds /\ Len(adds) = e + 1 /\ adds[1] = FirstStep(o, time)
        /\ \A k \in 1..e : adds[k + 1] = EdgeSteps(o, first, p, e)[k]
    <3>1. StepsOf(SquareSteps(o, time, first, p, e), FirstStep(o, time), EdgeSteps(o, first, p, e), e)
      BY SquareStepsType
    <3> QED BY <3>1, Zenon DEF StepsOf
  <2> HIDE DEF adds
  <2> QED BY <2>1, <2>2, Zenon DEF FirstStep
<1> HIDE DEF adds
<1>3. PICK u : Additions(u, adds, o.last, c) /\ u[Len(adds)] = LevelOf(adds, o.last, c)
  BY <1>1, <1>2, LevelRuns
<1>4. u[0] = o.last /\ \A k \in 0..e : u[k + 1] = Added(u[k], adds[k + 1], c)
  BY <1>2, <1>3 DEF Additions
<1>5. amp \in Int \X Int
  BY <1>1, Pairs
<1> HIDE DEF v, ph, amp
<1>6. u[1] = amp
  <2>1. u[0 + 1] = Added(o.last, <<time, Minus(amp, o.last)>>, c)
    BY <1>2, <1>4
  <2> QED BY <1>1, <1>5, <2>1, FirstAdded
<1> DEFINE T == {k \in 0..e : u[k + 1] = L(k)}
<1>7. 0 \in T
  <2>1. min(0) = 0
    BY <1>1
  <2>2. L(0) = amp
    BY <1>1, <2>1, Parity DEF Signed, amp
  <2> QED BY <1>6, <2>2
<1>8. ASSUME NEW k \in 0..(e - 1), k \in T PROVE k + 1 \in T
  <2> DEFINE b == (k + 1) % 2 = 0
  <2>1. k \in Nat /\ k + 1 \in 0..e /\ k + 1 \in 1..e /\ (k + 1) - 1 = k
    OBVIOUS
  <2>2. u[(k + 1) + 1] = Added(u[k + 1], <<first + k * p, Signed(b, Twice(amp))>>, c)
    <3>1. u[(k + 1) + 1] = Added(u[k + 1], adds[(k + 1) + 1], c)
      BY <1>4, <2>1, Zenon
    <3>2. adds[(k + 1) + 1] = <<first + ((k + 1) - 1) * p, Signed(b, Twice(amp))>>
      BY <1>2, <2>1, Zenon
    <3> QED BY <2>1, <3>1, <3>2, Zenon
  <2>3. u[k + 1] = L(k)
    BY <1>8
  <2>4. CASE k < j
    <3>1. min(k) = k /\ min(k + 1) = k + 1 /\ first + k * p <= c
      BY <1>1, <2>1, <2>4
    <3> DEFINE on == (ph + k) % 2 = 1
    <3>2. L(k) = Signed(on, v)
      BY <3>1
    <3>3. L(k + 1) = Signed(~on, v)
      BY <1>1, <2>1, <3>1, Parity DEF Signed
    <3>4. Signed(b, Twice(amp)) = Twice(Signed(~on, v))
      <4>1. Signed(b, Twice(Signed(ph = 1, v))) = Twice(Signed((ph = 1) <=> b, v))
        BY <1>1, SignedTwice
      <4>2. ((ph = 1) <=> b) <=> ~on
        BY <1>1, <2>1, Parity
      <4>3. Signed((ph = 1) <=> b, v) = Signed(~on, v)
        <5> HIDE DEF b, on
        <5> QED BY <4>2 DEF Signed
      <4> QED BY <4>1, <4>3, Zenon DEF amp
    <3>5. on \in BOOLEAN
      OBVIOUS
    <3> HIDE DEF L, b, on
    <3>6. Added(L(k), <<first + k * p, Signed(b, Twice(amp))>>, c) = Plus(L(k), Signed(b, Twice(amp)))
      BY <3>1 DEF Added
    <3>7. u[(k + 1) + 1] = Plus(Signed(on, v), Twice(Signed(~on, v)))
      BY <2>2, <2>3, <3>2, <3>4, <3>6
    <3>8. u[(k + 1) + 1] = L(k + 1)
      BY <1>1, <3>3, <3>5, <3>7, Flips
    <3> QED BY <2>1, <3>8
  <2>5. CASE ~(k < j)
    <3>1. min(k) = j /\ min(k + 1) = j /\ ~(first + k * p <= c)
      BY <1>1, <2>1, <2>5
    <3>2. L(k) = L(k + 1)
      BY <3>1
    <3> HIDE DEF L
    <3>3. u[(k + 1) + 1] = L(k)
      BY <2>2, <2>3, <3>1 DEF Added
    <3> QED BY <2>1, <3>2, <3>3
  <2> QED BY <2>4, <2>5
<1> HIDE DEF T
<1>9. e \in T
  <2>1. e \in 0..e
    OBVIOUS
  <2> QED BY <1>7, <1>8, <2>1, UpTo
<1>10. u[e + 1] = L(e)
  BY <1>9 DEF T
<1>11. L(e) = Signed((ph + j) % 2 = 1, v)
  <2>1. min(e) = j
    BY <1>1
  <2> QED BY <2>1
<1> HIDE DEF L
<1> QED BY <1>2, <1>3, <1>10, <1>11 DEF adds, ph, v
\* Time changes neither volume nor period.
LEMMA SquareKeeps ==
  ASSUME NEW s \in SquareStates, NEW n \in Nat
  PROVE  SquareAfter(s, n).volume = s.volume /\ SquareAfter(s, n).period = s.period
<1>1. CASE n = 0
  BY <1>1, SquareAfterNext
<1>2. CASE n # 0 /\ s.period = 0
  <2>1. SquareAfter(s, n) = [s EXCEPT !.delay = 0]
    BY <1>2, SquareStands
  <2> QED BY <2>1 DEF SquareStates
<1>3. CASE s.period # 0
  <2>1. s.delay \in Nat /\ s.period \in Nat \ {0}
    BY <1>3 DEF SquareStates
  <2>2. PICK k : Turned(s.delay, s.period, n, k)
    BY <2>1, TurnedExists
  <2>3. SquareAfter(s, n) = SquareAt(s, n, k)
    BY <1>3, <2>2, SquareTurns
  <2>4. SquareAt(s, n, k).volume = s.volume /\ SquareAt(s, n, k).period = s.period
    BY DEF SquareAt, SquareTo, SquareStates
  <2> QED BY <2>3, <2>4
<1> QED BY <1>1, <1>2, <1>3

\* T6W28_Square::run() while the wave is not to be heard.
LEMMA QuietInTime ==
  ASSUME NEW o \in SquareOscs, NEW time \in Nat, NEW end \in Nat, time < end,
         o.volume = Silent \/ Period(o) <= Audible
  PROVE  /\ RunSquare(o, time, end).osc.last = Silent
         /\ \A c \in Nat : time <= c => LevelOf(RunSquare(o, time, end).adds, o.last, c) = Silent
         /\ \A n \in Nat : Tones!SquareLevel(SquareAfter(Square(o), n)) = Silent
<1>1. RunSquare(o, time, end) = QuietSquare(o, time, end)
  BY DEF RunSquare
<1>2. QuietSquare(o, time, end).adds = <<<<time, Minus(Silent, o.last)>>>>
  BY DEF QuietSquare, Opposite
<1>3. QuietSquare(o, time, end).osc.last = Silent
  BY DEF QuietSquare, SquareOscs
<1>4. ASSUME NEW c \in Nat, time <= c PROVE LevelOf(<<<<time, Minus(Silent, o.last)>>>>, o.last, c) = Silent
  <2>1. o.last \in Int \X Int /\ Silent \in Int \X Int
    BY DEF SquareOscs, Silent
  <2> QED BY <1>4, <2>1, LevelFirst
<1>5. ASSUME NEW n \in Nat PROVE Tones!SquareLevel(SquareAfter(Square(o), n)) = Silent
  <2> DEFINE q == SquareAfter(Square(o), n)
  <2>1. q.volume = o.volume /\ q.period = Period(o)
    BY SquareMaps, SquareKeeps
  <2> HIDE DEF q
  <2>2. Tones!Silent = Silent /\ Tones!Opposite(Silent) = Silent
    BY MutedSigned
  <2> QED BY <2>1, <2>2 DEF Tones!SquareLevel, q
<1> QED BY <1>1, <1>2, <1>3, <1>4, <1>5

\* T6W28_Square::run() otherwise.
LEMMA LoudInTime ==
  ASSUME NEW o \in SquareOscs, NEW time \in Nat, NEW end \in Nat, time < end,
         ~(o.volume = Silent \/ Period(o) <= Audible)
  PROVE  /\ \A c \in time..(end - 1) :
              LevelOf(RunSquare(o, time, end).adds, o.last, c)
                = Tones!SquareLevel(SquareAfter(Square(o), c - time + 1))
         /\ RunSquare(o, time, end).osc.last = LevelOf(RunSquare(o, time, end).adds, o.last, end)
<1> DEFINE p == Period(o)
           d == o.delay
           s == Square(o)
           first == time + d
           amp == Signed(o.phase = 1, o.volume)
           edges == CHOOSE n \in 0..(end - time) :
                      first + n * p >= end /\ \A m \in 0..(n - 1) : first + m * p < end
           On(j) == (o.phase + j) % 2 = 1
<1>1. /\ s \in SquareStates /\ p \in Nat \ {0} /\ s.period = p /\ s.delay = d /\ s.phase = o.phase /\ s.volume = o.volume
      /\ p > Audible /\ d \in Nat /\ o.phase \in {0, 1} /\ o.volume \in Int \X Int /\ end - time \in Nat /\ first \in Nat
  <2>1. /\ s \in SquareStates /\ p \in Nat
        /\ s = [volume |-> o.volume, period |-> p, delay |-> d, phase |-> o.phase]
    BY SquareMaps
  <2>2. d \in Nat /\ o.phase \in {0, 1} /\ o.volume \in Int \X Int
    BY DEF SquareOscs
  <2> HIDE DEF p, d, s
  <2>3. s.period = p /\ s.delay = d /\ s.phase = o.phase /\ s.volume = o.volume
    BY <2>1
  <2>4. p > Audible /\ p # 0 /\ first \in Nat /\ end - time \in Nat
    BY <2>1, <2>2, ChipAssumption DEF p
  <2> QED BY <2>1, <2>2, <2>3, <2>4
<1>2. PICK e : Turned(d, p, end - time, e)
  BY <1>1, TurnedExists
<1>3. e \in Nat
  BY <1>2 DEF Turned
<1>4. edges = e
  <2>1. Least(0..(end - time), time + d, p, end) = e
    <3>1. p \in Nat \ {0} /\ d \in Nat /\ Turned(d, p, end - time, e)
      BY <1>1, <1>2
    <3> HIDE DEF p, d
    <3> QED BY <3>1, LoudEdges
  <2> QED BY <2>1 DEF Least
<1>5. /\ RunSquare(o, time, end).adds = SquareSteps(o, time, first, p, e)
      /\ RunSquare(o, time, end).osc.last = LevelAfter(o, e)
  <2>1. RunSquare(o, time, end) = LoudSquare(o, time, end)
    BY DEF RunSquare
  <2>2. LoudSquare(o, time, end).adds = SquareSteps(o, time, first, p, edges)
    BY Zenon DEF LoudSquare, SquareSteps, FirstStep, EdgeSteps
  <2>3. LoudSquare(o, time, end).osc = [o EXCEPT !.last = LevelAfter(o, edges), !.phase = (@ + edges) % 2,
                                                !.delay = first + edges * p - end]
    BY Zenon DEF LoudSquare
  <2>4. LoudSquare(o, time, end).osc.last = LevelAfter(o, edges)
    <3> HIDE DEF edges
    <3> QED BY <2>3 DEF SquareOscs
  <2> QED BY <1>4, <2>1, <2>2, <2>4
<1> HIDE DEF edges
<1>6. ASSUME NEW c \in Nat, time <= c, NEW j, EdgesBy(first, p, e, c, j)
      PROVE  LevelOf(RunSquare(o, time, end).adds, o.last, c) = Signed(On(j), o.volume)
  <2> HIDE DEF p, first
  <2>1. p \in Nat /\ first \in Nat
    BY <1>1
  <2>2. LevelOf(SquareSteps(o, time, first, p, e), o.last, c) = Signed((o.phase + j) % 2 = 1, o.volume)
    BY <1>3, <1>6, <2>1, LoudLevels
  <2> QED BY <1>5, <2>2
<1>7. RunSquare(o, time, end).osc.last = LevelOf(RunSquare(o, time, end).adds, o.last, end)
  <2>1. EdgesBy(first, p, e, end, e)
    <3>1. d \in Nat /\ p \in Nat /\ Turned(d, p, end - time, e) /\ time <= end
      BY <1>1, <1>2
    <3> HIDE DEF p, d
    <3> QED BY <3>1, EdgesAll
  <2>2. LevelOf(RunSquare(o, time, end).adds, o.last, end) = Signed(On(e), o.volume)
    BY <1>6, <2>1
  <2> QED BY <1>5, <2>2 DEF LevelAfter
<1>8. ASSUME NEW c \in time..(end - 1)
      PROVE  LevelOf(RunSquare(o, time, end).adds, o.last, c) = Tones!SquareLevel(SquareAfter(s, c - time + 1))
  <2> DEFINE n == c - time + 1
  <2>1. n \in Nat /\ n <= end - time /\ c \in Nat /\ time <= c
    OBVIOUS
  <2>2. PICK j : Turned(d, p, n, j)
    BY <1>1, <2>1, TurnedExists
  <2>3. j \in 0..e
    BY <1>1, <1>2, <2>1, <2>2, TurnedEarlier
  <2>4. EdgesBy(first, p, e, c, j)
    <3>1. d \in Nat /\ p \in Nat
      BY <1>1
    <3> HIDE DEF p, d
    <3> QED BY <1>3, <2>1, <2>2, <2>3, <3>1, EdgesAt
  <2>5. LevelOf(RunSquare(o, time, end).adds, o.last, c) = Signed(On(j), o.volume)
    BY <1>6, <2>1, <2>4
  <2>6. SquareAfter(s, n) = SquareAt(s, n, j)
    BY <1>1, <2>1, <2>2, SquareTurns
  <2> DEFINE q == SquareAt(s, n, j)
  <2>7. q.period = p /\ q.phase = (o.phase + j) % 2 /\ q.volume = o.volume
    <3> HIDE DEF n, s
    <3> QED BY <1>1 DEF SquareAt, SquareTo, SquareStates
  <2> HIDE DEF q
  <2>8. Tones!SquareLevel(q) = Signed(On(j), o.volume)
    <3>1. ~(q.period <= Audible) /\ Audible \in Nat
      BY <1>1, <2>7, ChipAssumption
    <3>2. Tones!Opposite(o.volume) = Opposite(o.volume)
      BY <1>1, OppositeIs
    <3> QED BY <2>7, <3>1, <3>2, Zenon DEF Tones!SquareLevel, Signed
  <2> QED BY <2>5, <2>6, <2>8 DEF q
<1> QED BY <1>7, <1>8

LEMMA NextBit ==
  ASSUME NEW s \in Shifters, NEW tapped
  PROVE  NextShifter(s, tapped)[1] = s[2]
<1> DEFINE b == IF tapped THEN s[1] # s[2] ELSE s[1]
           t == Tail(s)
<1>1. s \in Seq(BOOLEAN) /\ Len(s) = ShifterBits /\ ShifterBits \in Nat \ {0, 1}
  BY ChipAssumption DEF Shifters
<1>2. s # <<>> /\ 1 \in 1..(Len(s) - 1)
  BY <1>1
<1>3. t \in Seq(BOOLEAN) /\ Len(t) = Len(s) - 1 /\ t[1] = s[2]
  BY <1>1, <1>2
<1> HIDE DEF t
<1> HIDE DEF b
<1>4. Append(t, b)[1] = t[1]
  BY <1>1, <1>2, <1>3
<1> QED BY <1>3, <1>4 DEF NextShifter, t, b

\* The level while the register stands at s.
NoiseAmp(o, s) == Signed(~s[1], o.volume)

\* What the loop has added after k edges, if only j of all edges have come.
NoiseLevelAt(at, o, time, k, j, c) ==
  /\ at[k].delta = Twice(NoiseAmp(o, at[k].osc.shifter))
  /\ FirstAdd(o, time) \o at[k].adds \in Adds
  /\ LevelOf(FirstAdd(o, time) \o at[k].adds, o.last, c)
       = NoiseAmp(o, at[IF k <= j THEN k ELSE j].osc.shifter)

LEMMA NoiseLevelStart ==
  ASSUME NEW o \in NoiseOscs, NEW time \in Nat, NEW c \in Nat, time <= c, NEW j \in Nat,
         NEW at, at[0] = LoopStart(o)
  PROVE  NoiseLevelAt(at, o, time, 0, j, c)
<1> DEFINE amp == NoiseAmp(o, o.shifter)
<1>1. o.volume \in Int \X Int /\ o.last \in Int \X Int
  BY DEF NoiseOscs
<1>2. amp \in Int \X Int
  BY <1>1, Pairs DEF NoiseAmp
<1>3. at[0].osc = o /\ at[0].delta = Twice(amp) /\ at[0].adds = <<>>
  BY DEF LoopStart, NoiseAmp
<1>4. FirstAdd(o, time) = <<<<time, Minus(amp, o.last)>>>>
  BY Zenon DEF FirstAdd, NoiseAmp
<1> HIDE DEF amp
<1>5. FirstAdd(o, time) \in Adds /\ LevelOf(FirstAdd(o, time), o.last, c) = amp
  BY <1>1, <1>2, <1>4, LevelFirst
<1>6. FirstAdd(o, time) \o at[0].adds = FirstAdd(o, time)
  <2>1. FirstAdd(o, time) \in Seq(Int \X (Int \X Int))
    BY <1>5 DEF Adds
  <2> QED BY <1>3, <2>1, ConcatEmptySeq
<1>7. (IF 0 <= j THEN 0 ELSE j) = 0
  OBVIOUS
<1> QED BY <1>3, <1>5, <1>6, <1>7, Zenon DEF NoiseLevelAt, amp

LEMMA NoiseLevelStep ==
  ASSUME NEW o \in NoiseOscs, NEW time \in Nat, NEW c \in Nat, NEW n \in Nat, NEW first \in Nat, NEW p \in Nat,
         NEW at, LoopOf(at, o, n, first, p), NEW j, EdgesBy(first, p, n, c, j),
         NEW k \in 0..(n - 1), NoiseLevelAt(at, o, time, k, j, c)
  PROVE  NoiseLevelAt(at, o, time, k + 1, j, c)
<1> DEFINE b == at[k]
           s == b.osc.shifter
           t == at[k + 1].osc.shifter
           changed == s[1] # s[2]
           clock == first + k * p
           delta == Signed(~changed, b.delta)
           v == o.volume
           before == FirstAdd(o, time) \o b.adds
           after == FirstAdd(o, time) \o at[k + 1].adds
           a == <<clock, delta>>
           min(i) == IF i <= j THEN i ELSE j
<1>1. k \in Nat /\ k \in 0..n /\ k + 1 \in 0..n /\ j \in Nat /\ (clock <= c <=> k < j) /\ clock \in Int
  <2>1. k \in Nat /\ k \in 0..n /\ k + 1 \in 0..n /\ j \in Nat /\ (clock <= c <=> k < j)
    BY DEF EdgesBy
  <2>2. k * p \in Nat
    BY <2>1
  <2> QED BY <2>1, <2>2
<1>2. at[k + 1] = LoopNext(at[k], clock)
  BY Zenon DEF LoopOf
<1>3. at[k + 1].delta = delta /\ at[k + 1].adds = IF changed THEN Append(b.adds, a) ELSE b.adds
  BY <1>2 DEF LoopNext
<1>4. s \in Shifters /\ t = NextShifter(s, o.tapped) /\ b \in LoopStates
  <2>1. /\ \A m \in 0..n : /\ at[m] \in LoopStates /\ at[m].osc \in NoiseOscs /\ at[m].osc.shifter \in Shifters
                            /\ at[m].osc = [o EXCEPT !.shifter = at[m].osc.shifter]
        /\ at[0].osc.shifter = o.shifter
        /\ \A m \in 0..(n - 1) : at[m + 1].osc.shifter = NextShifter(at[m].osc.shifter, o.tapped)
    BY LoopKeeps
  <2>2. \A m \in 0..n : at[m] \in LoopStates /\ at[m].osc.shifter \in Shifters
    BY <2>1, Zenon
  <2>3. \A m \in 0..(n - 1) : at[m + 1].osc.shifter = NextShifter(at[m].osc.shifter, o.tapped)
    BY <2>1, Zenon
  <2> QED BY <1>1, <2>2, <2>3, Zenon
<1>5. s[1] \in BOOLEAN /\ s[2] \in BOOLEAN /\ t[1] = s[2]
  BY <1>4, BitType, NextBit
<1>6. v \in Int \X Int /\ o.last \in Int \X Int /\ b.adds \in Adds /\ b.delta \in Int \X Int
  BY <1>4 DEF NoiseOscs, LoopStates
<1>7. /\ b.delta = Twice(NoiseAmp(o, s)) /\ before \in Adds
      /\ LevelOf(before, o.last, c) = NoiseAmp(o, at[min(k)].osc.shifter)
  BY Zenon DEF NoiseLevelAt
<1>8. FirstAdd(o, time) \in Seq(Int \X (Int \X Int))
  <2>1. NoiseAmp(o, o.shifter) \in Int \X Int
    BY <1>6, Pairs DEF NoiseAmp
  <2>2. Minus(NoiseAmp(o, o.shifter), o.last) \in Int \X Int
    BY <1>6, <2>1, Pairs
  <2>3. <<time, Minus(NoiseAmp(o, o.shifter), o.last)>> \in Int \X (Int \X Int)
    BY <2>2
  <2> DEFINE w == <<time, Minus(NoiseAmp(o, o.shifter), o.last)>>
             S == Int \X (Int \X Int)
  <2>4. FirstAdd(o, time) = <<w>>
    BY Zenon DEF FirstAdd, NoiseAmp
  <2>5. w \in S
    BY <2>3
  <2> HIDE DEF w, S
  <2>6. <<w>> \in Seq(S)
    BY <2>5
  <2> QED BY <2>4, <2>6 DEF S
<1> HIDE DEF b, s, t, v
<1>9. delta = Twice(NoiseAmp(o, t)) /\ delta \in Int \X Int
  <2>1. Signed(~changed, Twice(Signed(~s[1], v))) = Twice(Signed((~s[1]) <=> ~changed, v))
    BY <1>5, <1>6, SignedTwice
  <2>2. ((~s[1]) <=> ~changed) <=> ~t[1]
    BY <1>5, Zenon
  <2>3. Signed((~s[1]) <=> ~changed, v) = Signed(~t[1], v)
    BY <2>2, Zenon DEF Signed
  <2>4. delta = Twice(NoiseAmp(o, t))
    BY <1>7, <2>1, <2>3, Zenon DEF NoiseAmp, v
  <2>5. delta \in Int \X Int
    BY <1>6, Pairs
  <2> QED BY <2>4, <2>5
<1> HIDE DEF delta, clock
<1>10. a \in Int \X (Int \X Int)
  BY <1>1, <1>9
<1>11. after = IF changed THEN Append(before, a) ELSE before
  <2>1. CASE changed
    <3> DEFINE S == Int \X (Int \X Int)
               f == FirstAdd(o, time)
               q == b.adds
    <3>1. f \in Seq(S) /\ q \in Seq(S) /\ a \in S
      BY <1>6, <1>8, <1>10 DEF Adds
    <3>2. at[k + 1].adds = Append(q, a)
      BY <1>3, <2>1, Zenon
    <3> HIDE DEF S, f, q, a
    <3>3. f \o Append(q, a) = Append(f \o q, a)
      BY <3>1
    <3> QED BY <2>1, <3>2, <3>3, Zenon DEF f, q
  <2>2. CASE ~changed
    BY <1>3, <2>2, Zenon
  <2> QED BY <2>1, <2>2
<1> HIDE DEF changed, before, after, a
<1>12. after \in Adds
  <2>1. changed => Append(before, a) \in Adds
    BY <1>7, <1>10 DEF Adds
  <2> QED BY <1>7, <1>11, <2>1
<1>13. LevelOf(after, o.last, c) = IF changed THEN Added(LevelOf(before, o.last, c), a, c) ELSE LevelOf(before, o.last, c)
  <2>1. LevelOf(Append(before, a), o.last, c) = Added(LevelOf(before, o.last, c), a, c)
    <3>1. /\ LevelOf(before, o.last, c) \in Int \X Int
          /\ LevelOf(Append(before, a), o.last, c) = Added(LevelOf(before, o.last, c), a, c)
      BY <1>6, <1>7, <1>10, LevelNext
    <3> QED BY <3>1
  <2> QED BY <1>11, <2>1
<1>14. LevelOf(after, o.last, c) = NoiseAmp(o, at[min(k + 1)].osc.shifter)
  <2>1. CASE k < j
    <3>1. min(k) = k /\ min(k + 1) = k + 1 /\ clock <= c
      BY <1>1, <2>1
    <3>2. NoiseAmp(o, at[min(k)].osc.shifter) = NoiseAmp(o, s) /\ NoiseAmp(o, at[min(k + 1)].osc.shifter) = NoiseAmp(o, t)
      BY <3>1 DEF s, t, b
    <3>3. CASE changed
      <4>1. Added(NoiseAmp(o, s), a, c) = Plus(NoiseAmp(o, s), delta)
        BY <3>1 DEF Added, a
      <4>2. (~s[1]) \in BOOLEAN /\ (~t[1] <=> s[1])
        BY <1>5, <3>3, Zenon DEF changed
      <4>3. Plus(Signed(~s[1], v), Twice(Signed(~~s[1], v))) = Signed(~~s[1], v)
        BY <1>6, <4>2, Flips
      <4>4. Signed(~~s[1], v) = Signed(~t[1], v)
        BY <4>2, Zenon DEF Signed
      <4>5. Plus(NoiseAmp(o, s), delta) = NoiseAmp(o, t)
        BY <1>9, <4>3, <4>4, Zenon DEF NoiseAmp, v
      <4> QED BY <1>7, <1>13, <3>2, <3>3, <4>1, <4>5
    <3>4. CASE ~changed
      <4>1. s[1] = t[1]
        BY <1>5, <3>4, Zenon DEF changed
      <4>2. NoiseAmp(o, s) = NoiseAmp(o, t)
        BY <4>1, Zenon DEF NoiseAmp
      <4> QED BY <1>7, <1>13, <3>2, <3>4, <4>2
    <3> QED BY <3>3, <3>4
  <2>2. CASE ~(k < j)
    <3>1. min(k) = min(k + 1) /\ ~(clock <= c)
      BY <1>1, <2>2
    <3>2. Added(LevelOf(before, o.last, c), a, c) = LevelOf(before, o.last, c)
      BY <3>1 DEF Added, a
    <3> QED BY <1>7, <1>13, <3>1, <3>2
  <2> QED BY <2>1, <2>2
<1> QED BY <1>3, <1>9, <1>12, <1>14, Zenon DEF NoiseLevelAt, t, after
\* The level of a run of n edges after those that come up to clock c.
LEMMA NoiseLevels ==
  ASSUME NEW o \in NoiseOscs, NEW time \in Nat, NEW c \in Nat, time <= c, NEW n \in Nat, NEW first \in Nat, NEW p \in Nat,
         NEW at, LoopOf(at, o, n, first, p), NEW j, EdgesBy(first, p, n, c, j)
  PROVE  NoiseLevelAt(at, o, time, n, j, c)
<1> DEFINE T == {k \in 0..n : NoiseLevelAt(at, o, time, k, j, c)}
<1>1. j \in Nat /\ at[0] = LoopStart(o) /\ 0 \in 0..n /\ n \in 0..n
  BY DEF EdgesBy, LoopOf
<1>2. 0 \in T
  BY <1>1, NoiseLevelStart
<1>3. ASSUME NEW k \in 0..(n - 1), k \in T PROVE k + 1 \in T
  <2>1. NoiseLevelAt(at, o, time, k, j, c)
    BY <1>3
  <2>2. NoiseLevelAt(at, o, time, k + 1, j, c)
    BY <2>1, NoiseLevelStep
  <2>3. k + 1 \in 0..n
    OBVIOUS
  <2> QED BY <2>2, <2>3
<1> HIDE DEF T
<1>4. \A k \in 0..n : k \in T
  BY <1>2, <1>3, UpTo
<1> QED BY <1>1, <1>4 DEF T

\* The noise's own clock by clock has the level of its register.
LEMMA NoiseLevelIs ==
  ASSUME NEW o \in NoiseOscs, NEW s \in Shifters, NEW dl
  PROVE  Tones!NoiseLevel(NoiseTo(Noise(o), s, dl)) = NoiseAmp(o, s)
<1> DEFINE q == Noise(o)
           q1 == [q EXCEPT !.shifter = s]
           r == NoiseTo(q, s, dl)
<1>1. q \in NoiseStates /\ q.volume = o.volume /\ o.volume \in Int \X Int
  BY NoiseMaps DEF NoiseOscs
<1> HIDE DEF q
<1>2. q1 \in NoiseStates /\ q1.volume = q.volume /\ q1.shifter = s
  BY <1>1 DEF NoiseStates
<1>3. r = [q1 EXCEPT !.delay = dl]
  BY Zenon DEF NoiseTo
<1> HIDE DEF q1, r
<1>4. r.volume = o.volume /\ r.shifter = s
  BY <1>1, <1>2, <1>3 DEF NoiseStates
<1>5. Tones!NoiseLevel(r) = IF s[1] THEN Tones!Opposite(o.volume) ELSE o.volume
  BY <1>4, Zenon DEF Tones!NoiseLevel
<1>6. Tones!Opposite(o.volume) = Opposite(o.volume) /\ s[1] \in BOOLEAN
  BY <1>1, OppositeIs, BitType
<1> QED BY <1>5, <1>6, Zenon DEF NoiseAmp, Signed, r, q

\* T6W28_Noise::run() while it is muted.
LEMMA MuteInTime ==
  ASSUME NEW o \in NoiseOscs, o.volume = Silent, NEW m \in Nat
  PROVE  Tones!NoiseLevel(NoiseAfter(Noise(o), m)) = Silent
<1> DEFINE q == Noise(o)
           r == NoiseAfter(q, m)
<1>1. q \in NoiseStates /\ q.volume = Silent
  BY NoiseMaps
<1>2. Tones!Silent = Silent /\ Tones!Opposite(Silent) = Silent
  BY MutedSigned
<1> HIDE DEF q
<1>3. r.volume = Silent
  <2>1. CASE m = 0
    <3>1. NoiseAfter(q, 0) = q
      BY <1>1, NoiseAfterNext
    <3> QED BY <1>1, <2>1, <3>1
  <2>2. CASE m # 0
    <3>1. r = [q EXCEPT !.delay = 0]
      BY <1>1, <1>2, <2>2, NoiseStands
    <3> HIDE DEF r
    <3> QED BY <1>1, <3>1 DEF NoiseStates
  <2> QED BY <2>1, <2>2
<1> HIDE DEF r
<1> QED BY <1>2, <1>3, Zenon DEF Tones!NoiseLevel, r, q

\* T6W28_Noise::run()
LEMMA NoiseInTime ==
  ASSUME NEW o \in NoiseOscs, NEW time \in Nat, NEW end \in Nat, time < end
  PROVE  /\ \A c \in time..(end - 1) :
              LevelOf(RunNoise(o, time, end).adds, o.last, c)
                = Tones!NoiseLevel(NoiseAfter(Noise(o), c - time + 1))
         /\ RunNoise(o, time, end).osc.last = LevelOf(RunNoise(o, time, end).adds, o.last, end)
<1> DEFINE d == o.delay
           p == NoisePeriod(o)
           run == RunNoise(o, time, end)
<1>1. /\ p \in Nat \ {0} /\ d \in Nat /\ o.volume \in Int \X Int /\ o.shifter \in Shifters
      /\ end - time \in Nat /\ time <= end
  BY NoiseMaps DEF NoiseOscs
<1>0. PICK n, at, first, dl : NoiseRun(o, time, end, n, at, first, dl)
  BY NoiseRunParts, Zenon
<1>2. /\ n \in Nat /\ LoopOf(at, o, n, first, p)
      /\ run.osc = NoiseLeft(o, at[n].osc.shifter, Half(at[n].delta), dl)
      /\ run.adds = FirstAdd(o, time) \o at[n].adds
      /\ IF o.volume = Silent THEN n = 0 /\ dl = 0
         ELSE /\ Turned(d, p, end - time, n) /\ first = time + d
              /\ dl = d + n * p - (end - time)
  BY <1>0, Zenon DEF NoiseRun
<1> HIDE DEF p, d, run
<1>3. \A k \in 0..n : at[k] \in LoopStates /\ at[k].osc.shifter \in Shifters
  <2>1. /\ \A m \in 0..n : /\ at[m] \in LoopStates /\ at[m].osc \in NoiseOscs /\ at[m].osc.shifter \in Shifters
                            /\ at[m].osc = [o EXCEPT !.shifter = at[m].osc.shifter]
        /\ at[0].osc.shifter = o.shifter
        /\ \A m \in 0..(n - 1) : at[m + 1].osc.shifter = NextShifter(at[m].osc.shifter, o.tapped)
    BY <1>2, LoopKeeps
  <2> QED BY <2>1, Zenon
<1>4. run.osc.last = Half(at[n].delta)
  <2> DEFINE q == [o EXCEPT !.shifter = at[n].osc.shifter]
             v == Half(at[n].delta)
  <2>1. n \in 0..n
    BY <1>2
  <2>2. q \in NoiseOscs
    BY <1>3, <2>1 DEF NoiseOscs
  <2>3. run.osc = [q EXCEPT !.last = v, !.delay = dl]
    BY <1>2, Zenon DEF NoiseLeft, NoiseStopped
  <2> HIDE DEF q, v
  <2>4. [q EXCEPT !.last = v, !.delay = dl].last = v
    BY <2>2 DEF NoiseOscs
  <2> QED BY <2>3, <2>4 DEF v
\* The level after the edges up to clock c is that of the register after them.
<1>5. ASSUME NEW f \in Nat, LoopOf(at, o, n, f, p), NEW c \in Nat, time <= c, NEW j, EdgesBy(f, p, n, c, j)
      PROVE  /\ LevelOf(run.adds, o.last, c) = NoiseAmp(o, at[j].osc.shifter)
             /\ Half(at[n].delta) = NoiseAmp(o, at[n].osc.shifter)
  <2>1. NoiseLevelAt(at, o, time, n, j, c)
    BY <1>1, <1>2, <1>5, NoiseLevels
  <2>2. (IF n <= j THEN n ELSE j) = j
    BY <1>2, <1>5 DEF EdgesBy
  <2>3. at[n].delta = Twice(NoiseAmp(o, at[n].osc.shifter))
    BY <2>1, Zenon DEF NoiseLevelAt
  <2>4. LevelOf(run.adds, o.last, c) = NoiseAmp(o, at[j].osc.shifter)
    BY <1>2, <2>1, <2>2, Zenon DEF NoiseLevelAt
  <2>5. NoiseAmp(o, at[n].osc.shifter) \in Int \X Int
    BY <1>1, Pairs DEF NoiseAmp
  <2> QED BY <2>3, <2>4, <2>5, HalfTwice
<1>6. CASE o.volume = Silent
  <2>1. n = 0
    BY <1>2, <1>6
  <2>2. ASSUME NEW s PROVE NoiseAmp(o, s) = Silent
    BY <1>6, MutedSigned DEF NoiseAmp
  <2>3. LoopOf(at, o, n, 0, p)
    BY <1>2, <2>1 DEF LoopOf
  <2>4. ASSUME NEW c \in Nat, time <= c
        PROVE  LevelOf(run.adds, o.last, c) = Silent /\ Half(at[n].delta) = Silent
    <3>1. EdgesBy(0, p, n, c, 0)
      BY <2>1 DEF EdgesBy
    <3>2. /\ LevelOf(run.adds, o.last, c) = NoiseAmp(o, at[0].osc.shifter)
          /\ Half(at[n].delta) = NoiseAmp(o, at[n].osc.shifter)
      BY <1>5, <2>3, <2>4, <3>1
    <3> QED BY <2>2, <3>2
  <2>5. ASSUME NEW c \in time..(end - 1)
        PROVE  LevelOf(run.adds, o.last, c) = Tones!NoiseLevel(NoiseAfter(Noise(o), c - time + 1))
    <3>1. c \in Nat /\ time <= c /\ c - time + 1 \in Nat
      OBVIOUS
    <3>2. LevelOf(run.adds, o.last, c) = Silent
      BY <2>4, <3>1
    <3>3. Tones!NoiseLevel(NoiseAfter(Noise(o), c - time + 1)) = Silent
      BY <1>6, <3>1, MuteInTime
    <3> QED BY <3>2, <3>3
  <2>6. run.osc.last = LevelOf(run.adds, o.last, end)
    BY <1>1, <1>4, <2>4
  <2> QED BY <2>5, <2>6 DEF run
<1>7. CASE o.volume # Silent
  <2>1. Turned(d, p, end - time, n) /\ first = time + d /\ first \in Nat
    <3>1. Turned(d, p, end - time, n) /\ first = time + d
      BY <1>2, <1>7
    <3> QED BY <1>1, <3>1
  <2>2. ASSUME NEW c \in time..(end - 1)
        PROVE  LevelOf(run.adds, o.last, c) = Tones!NoiseLevel(NoiseAfter(Noise(o), c - time + 1))
    <3> DEFINE m == c - time + 1
    <3>1. c \in Nat /\ time <= c /\ m \in Nat /\ m <= end - time /\ m \in 0..(end - time)
      OBVIOUS
    <3> HIDE DEF m
    <3>2. \A i \in 0..(end - time) : \E k \in 0..n : FollowedAt(at, o, i, k)
      BY <1>1, <1>2, <1>7, <2>1, LoopFollows DEF p, d
    <3>3. PICK j \in 0..n : FollowedAt(at, o, m, j)
      BY <3>1, <3>2, Zenon
    <3>4. /\ Turned(d, p, m, j)
          /\ NoiseAfter(Noise(o), m) = NoiseTo(Noise(o), at[j].osc.shifter, d + j * p - m)
      BY <3>3, Zenon DEF FollowedAt, d, p
    <3>5. EdgesBy(first, p, n, c, j)
      <4>1. Turned(d, p, c - time + 1, j)
        BY <3>4 DEF m
      <4> QED BY <1>1, <1>2, <2>1, <3>1, <3>3, <4>1, EdgesAt
    <3>6. LevelOf(run.adds, o.last, c) = NoiseAmp(o, at[j].osc.shifter)
      BY <1>2, <1>5, <2>1, <3>1, <3>5
    <3>7. Tones!NoiseLevel(NoiseAfter(Noise(o), m)) = NoiseAmp(o, at[j].osc.shifter)
      <4>1. at[j].osc.shifter \in Shifters
        BY <1>3, <3>3
      <4> QED BY <3>4, <4>1, NoiseLevelIs
    <3> QED BY <3>6, <3>7 DEF m
  <2>3. run.osc.last = LevelOf(run.adds, o.last, end)
    <3>1. EdgesBy(first, p, n, end, n)
      BY <1>1, <2>1, EdgesAll
    <3>2. /\ LevelOf(run.adds, o.last, end) = NoiseAmp(o, at[n].osc.shifter)
          /\ Half(at[n].delta) = NoiseAmp(o, at[n].osc.shifter)
      BY <1>1, <1>2, <1>5, <2>1, <3>1
    <3> QED BY <1>4, <3>2
  <2> QED BY <2>2, <2>3 DEF run
<1> QED BY <1>6, <1>7

\* The same in the terms of the property.
SquareInTime(o, time, end) ==
  /\ \A c \in time..(end - 1) :
       Level(RunSquare(o, time, end), o, c) = Tones!SquareLevel(Tones!After(Tones!SquareClock, Square(o), c - time + 1))
  /\ RunSquare(o, time, end).osc.last = Level(RunSquare(o, time, end), o, end)
NoiseInTimeOf(o, time, end) ==
  /\ \A c \in time..(end - 1) :
       Level(RunNoise(o, time, end), o, c) = Tones!NoiseLevel(Tones!After(Tones!NoiseClock, Noise(o), c - time + 1))
  /\ RunNoise(o, time, end).osc.last = Level(RunNoise(o, time, end), o, end)

LEMMA SquaresInTime ==
  ASSUME NEW o \in SquareOscs, NEW time \in Nat, NEW end \in Nat, time < end
  PROVE  SquareInTime(o, time, end)
<1>1. /\ \A c \in time..(end - 1) :
           LevelOf(RunSquare(o, time, end).adds, o.last, c) = Tones!SquareLevel(SquareAfter(Square(o), c - time + 1))
      /\ RunSquare(o, time, end).osc.last = LevelOf(RunSquare(o, time, end).adds, o.last, end)
  <2>1. CASE o.volume = Silent \/ Period(o) <= Audible
    <3>1. /\ RunSquare(o, time, end).osc.last = Silent
          /\ \A c \in Nat : time <= c => LevelOf(RunSquare(o, time, end).adds, o.last, c) = Silent
          /\ \A n \in Nat : Tones!SquareLevel(SquareAfter(Square(o), n)) = Silent
      BY <2>1, QuietInTime
    <3>2. ASSUME NEW c \in time..(end - 1) PROVE c \in Nat /\ time <= c /\ c - time + 1 \in Nat
      OBVIOUS
    <3>3. end \in Nat /\ time <= end
      OBVIOUS
    <3> QED BY <3>1, <3>2, <3>3, Zenon
  <2>2. CASE ~(o.volume = Silent \/ Period(o) <= Audible)
    BY <2>2, LoudInTime
  <2> QED BY <2>1, <2>2
<1>2. \A run, q, c : Level(run, q, c) = LevelOf(run.adds, q.last, c)
  BY LevelIs
<1> QED BY <1>1, <1>2, Zenon DEF SquareInTime, SquareAfter

LEMMA NoisesInTime ==
  ASSUME NEW o \in NoiseOscs, NEW time \in Nat, NEW end \in Nat, time < end
  PROVE  NoiseInTimeOf(o, time, end)
<1>1. /\ \A c \in time..(end - 1) :
           LevelOf(RunNoise(o, time, end).adds, o.last, c) = Tones!NoiseLevel(NoiseAfter(Noise(o), c - time + 1))
      /\ RunNoise(o, time, end).osc.last = LevelOf(RunNoise(o, time, end).adds, o.last, end)
  BY NoiseInTime
<1>2. \A run, q, c : Level(run, q, c) = LevelOf(run.adds, q.last, c)
  BY LevelIs
<1> QED BY <1>1, <1>2, Zenon DEF NoiseInTimeOf, NoiseAfter

(* Whenever the oscillators catch up, what each adds to the buffer makes   *)
(* up at every clock the level it has there clock by clock, and the level  *)
(* it remembers is the one it left: no change of a level is lost, doubled  *)
(* or late, whatever was written when (T6W28_Square::run,                  *)
(* T6W28_Noise::run).                                                      *)
THEOREM ChipEdgesInTime == ChipSpec => []EdgesInTime
<1>1. ChipTypeOK => EdgesInTime
  <2> SUFFICES ASSUME ChipTypeOK PROVE EdgesInTime
    OBVIOUS
  <2>1. Now \in Nat /\ last_time \in Nat /\ noise \in NoiseOscs
    BY Present DEF ChipTypeOK
  <2>2. ASSUME NEW i \in Squares, Now > last_time PROVE SquareInTime(squares[i], last_time, Now)
    <3>1. squares[i] \in SquareOscs
      BY DEF ChipTypeOK
    <3>2. last_time < Now
      BY <2>1, <2>2
    <3> QED BY <2>1, <3>1, <3>2, SquaresInTime
  <2>3. ASSUME Now > last_time PROVE NoiseInTimeOf(noise, last_time, Now)
    <3>1. last_time < Now
      BY <2>1, <2>3
    <3> QED BY <2>1, <3>1, NoisesInTime
  <2>4. ASSUME NEW i \in Squares
        PROVE  Follows(RunSquare(squares[i], last_time, Now), squares[i],
                       LAMBDA n : Tones!SquareLevel(Tones!After(Tones!SquareClock, Square(squares[i]), n)))
    BY <2>2, Zenon DEF Follows, SquareInTime
  <2>5. Follows(RunNoise(noise, last_time, Now), noise,
                LAMBDA n : Tones!NoiseLevel(Tones!After(Tones!NoiseClock, Noise(noise), n)))
    BY <2>3, Zenon DEF Follows, NoiseInTimeOf
  <2> QED BY <2>4, <2>5, Zenon DEF EdgesInTime
<1> QED BY <1>1, ChipTypeCorrect, PTL
=============================================================================
