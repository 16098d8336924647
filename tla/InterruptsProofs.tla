-------------------------- MODULE InterruptsProofs --------------------------
(***************************************************************************)
(* Proofs about Interrupts, for every set of sources, channels and levels  *)
(* and every bound.  The step operators act on one controller record, so   *)
(* each gets a lemma that says it keeps a record good; the actions then    *)
(* follow by composing them.                                               *)
(***************************************************************************)
EXTENDS Interrupts, TLAPS, WellFoundedInduction

(* The mask a frame leaves in force when its handler starts. *)
Entered(f) == IF f.level < 7 THEN f.level + 1 ELSE 7

Served(m) == m.frames = <<>> => Deliverable(m) = {}

Armed(m) == \A ch \in Channels : m.vec[ch] # NoVector => m.count[ch] > 0

(* Masks grow along the stack of frames: the one in force, and the one each *)
(* frame will restore, are at least what every outer handler runs under.   *)
Chain(m) ==
  /\ \A i \in DOMAIN m.frames : Entered(m.frames[i]) <= m.iff
  /\ \A j \in DOMAIN m.frames : \A i \in 1..(j - 1) :
        Entered(m.frames[i]) <= m.frames[j].iff
  /\ \A j \in DOMAIN m.frames :
        m.frames[j].src \in Sources =>
           m.frames[j].level \in 1..6 /\ m.frames[j].iff <= m.frames[j].level

Disciplined(m) == ~HandlersMayEI => Chain(m)

(* What holds between the calls of one step, and what holds after it. *)
Sound(m) == m \in Controller /\ Armed(m) /\ Disciplined(m)
Good(m) == Sound(m) /\ Served(m)

Inv == Good(ic) /\ cache \in [Sources -> 0..7]

USE DEF NoVector

(* A nonempty set of naturals has a first element. *)
LEMMA FirstIsIn ==
  ASSUME NEW S, S \subseteq Nat, S # {}
  PROVE  First(S) \in S
<1>1. PICK x \in S : \A y \in S : ~(<<y, x>> \in OpToRel(<, Nat))
  <2>1. IsWellFoundedOn(OpToRel(<, Nat), Nat)
    BY NatLessThanWellFounded
  <2> QED BY <2>1, WFMin, Zenon
<1>2. \A y \in S : x <= y
  <2> SUFFICES ASSUME NEW y \in S, ~(x <= y) PROVE FALSE
    OBVIOUS
  <2>1. x \in Nat /\ y \in Nat /\ y < x
    OBVIOUS
  <2>2. <<y, x>> \in OpToRel(<, Nat)
    BY <2>1 DEF OpToRel
  <2> QED BY <2>2, <1>1
<1> QED BY <1>1, <1>2 DEF First

LEMMA SourcesAreSmall ==
  /\ Sources \subseteq Nat /\ Channels \subseteq Nat
  /\ \A ch \in Channels : EndOf(ch) \in Handlers /\ EndOf(ch) \notin Sources
BY SourcesAssumption, BoundsAssumption DEF EndOf, Handlers

LEMMA EnteredIsMask ==
  ASSUME NEW f \in Frame
  PROVE  Entered(f) \in 0..7
BY DEF Frame, Entered

(* Entering a handler above the mask, or at level 7, keeps the chain. *)
LEMMA EnterSound ==
  ASSUME NEW m, Sound(m), NEW x \in Handlers, NEW level \in 0..7,
         \/ x \in Sources /\ level \in 1..6 /\ StatusIFF(m) <= level
         \/ x \notin Sources /\ level = 7
  PROVE  Sound(Enter(m, x, level)) /\ Enter(m, x, level).frames # <<>>
<1> DEFINE f == [src |-> x, level |-> level, iff |-> m.iff]
           n == Enter(m, x, level)
<1>0. m \in Controller /\ m.iff \in 0..7 /\ m.frames \in Seq(Frame)
  BY DEF Sound, Controller
<1>1. f \in Frame
  BY <1>0 DEF Frame
<1>2. n.frames = Append(m.frames, f) /\ n.iff = Entered(f)
      /\ n.vec = m.vec /\ n.count = m.count /\ n.pending = m.pending /\ n.prio = m.prio
  BY <1>0 DEF Enter, Entered, Controller
<1>3. Entered(f) \in 0..7
  BY DEF Entered
<1>4. n \in Controller
  <2>1. Append(m.frames, f) \in Seq(Frame)
    BY <1>0, <1>1
  <2>2. n = [m EXCEPT !.frames = Append(m.frames, f), !.iff = Entered(f)]
    BY DEF Enter, Entered
  <2> QED BY <1>0, <1>3, <2>1, <2>2 DEF Controller
<1>5. Armed(n)
  BY <1>2 DEF Sound, Armed
<1>6. ASSUME ~HandlersMayEI PROVE Chain(n)
  <2>1. Chain(m)
    BY <1>6 DEF Sound, Disciplined
  <2>2. /\ Len(n.frames) = Len(m.frames) + 1
        /\ n.frames[Len(m.frames) + 1] = f
        /\ \A i \in 1..Len(m.frames) : n.frames[i] = m.frames[i] /\ m.frames[i] \in Frame
        /\ DOMAIN n.frames = 1..(Len(m.frames) + 1)
        /\ DOMAIN m.frames = 1..Len(m.frames)
        /\ Len(m.frames) \in Nat
    BY <1>0, <1>1, <1>2
  <2>3. m.iff <= Entered(f)
    BY <1>0 DEF Entered, StatusIFF
  <2>4. \A i \in 1..Len(m.frames) : Entered(m.frames[i]) \in Int
    <3> HIDE DEF f, n
    <3>1. \A i \in 1..Len(m.frames) : m.frames[i] \in Frame
      BY <2>2
    <3> QED BY <3>1, EnteredIsMask
  <2>5. \A i \in DOMAIN n.frames : Entered(n.frames[i]) <= n.iff
    BY <1>0, <1>2, <1>3, <2>1, <2>2, <2>3, <2>4 DEF Chain
  <2>6. \A j \in DOMAIN n.frames : \A i \in 1..(j - 1) :
           Entered(n.frames[i]) <= n.frames[j].iff
    <3> SUFFICES ASSUME NEW j \in DOMAIN n.frames, NEW i \in 1..(j - 1)
                 PROVE  Entered(n.frames[i]) <= n.frames[j].iff
      OBVIOUS
    <3>1. CASE j \in 1..Len(m.frames)
      <4>1. i \in 1..Len(m.frames)
        BY <2>2, <3>1
      <4>2. Entered(m.frames[i]) <= m.frames[j].iff
        BY <2>1, <2>2, <3>1 DEF Chain
      <4> QED BY <2>2, <3>1, <4>1, <4>2
    <3>2. CASE j = Len(m.frames) + 1
      <4>1. i \in 1..Len(m.frames)
        BY <2>2, <3>2
      <4>2. n.frames[i] = m.frames[i] /\ n.frames[j].iff = m.iff
        BY <2>2, <3>2, <4>1
      <4>3. Entered(m.frames[i]) <= m.iff
        BY <2>1, <2>2, <4>1 DEF Chain
      <4> HIDE DEF f, n
      <4> QED BY <4>2, <4>3
    <3> QED BY <2>2, <3>1, <3>2
  <2>7. \A j \in DOMAIN n.frames : n.frames[j].src \in Sources =>
           n.frames[j].level \in 1..6 /\ n.frames[j].iff <= n.frames[j].level
    <3>1. f.src \in Sources => f.level \in 1..6 /\ f.iff <= f.level
      BY <1>0 DEF StatusIFF
    <3> SUFFICES ASSUME NEW j \in DOMAIN n.frames, n.frames[j].src \in Sources
                 PROVE  n.frames[j].level \in 1..6 /\ n.frames[j].iff <= n.frames[j].level
      OBVIOUS
    <3>2. CASE j \in 1..Len(m.frames)
      <4>1. n.frames[j] = m.frames[j] /\ j \in DOMAIN m.frames
        BY <2>2, <3>2
      <4> HIDE DEF f, n
      <4> QED BY <2>1, <4>1 DEF Chain
    <3>3. CASE j = Len(m.frames) + 1
      <4>1. n.frames[j] = f
        BY <2>2, <3>3
      <4> HIDE DEF f, n
      <4> QED BY <3>1, <4>1
    <3> QED BY <2>2, <3>2, <3>3
  <2> QED BY <2>5, <2>6, <2>7 DEF Chain
<1>7. n.frames # <<>>
  BY <1>0, <1>1, <1>2
<1> QED BY <1>4, <1>5, <1>6, <1>7 DEF Sound, Disciplined

(* After int_check_pending nothing deliverable is left to main-line code. *)
LEMMA CheckPendingGood ==
  ASSUME NEW m, Sound(m)
  PROVE  Good(CheckPending(m))
<1>1. CASE Deliverable(m) = {}
  BY <1>1 DEF CheckPending, Good, Served
<1>2. CASE Deliverable(m) # {}
  <2> DEFINE x == First(Deliverable(m))
             k == [m EXCEPT !.pending = m.pending \ {x}]
  <2>0. m \in Controller
    BY DEF Sound
  <2>1. x \in Deliverable(m)
    BY <1>2, FirstIsIn, SourcesAreSmall DEF Deliverable
  <2>2. x \in Sources /\ m.prio[x] \in 1..6 /\ StatusIFF(m) <= m.prio[x]
    BY <2>0, <2>1 DEF Deliverable, Controller
  <2>3. Sound(k) /\ StatusIFF(k) = StatusIFF(m)
    <3>1. /\ k.frames = m.frames /\ k.iff = m.iff /\ k.vec = m.vec /\ k.count = m.count
          /\ k \in Controller
      BY <2>0 DEF Controller
    <3> QED BY <3>1 DEF Sound, Armed, Disciplined, Chain, StatusIFF
  <2>4. Sound(Enter(k, x, m.prio[x])) /\ Enter(k, x, m.prio[x]).frames # <<>>
    <3> HIDE DEF k, x
    <3> QED BY <2>2, <2>3, EnterSound DEF Handlers
  <2>5. CheckPending(m) = Enter(k, x, m.prio[x])
    BY <1>2 DEF CheckPending
  <2> HIDE DEF k, x
  <2> QED BY <2>4, <2>5 DEF Good, Served
<1> QED BY <1>1, <1>2

LEMMA SetInterruptGood ==
  ASSUME NEW m, Sound(m), NEW x \in Sources \cup SwiLatches
  PROVE  Good(SetInterrupt(m, x))
<1> DEFINE k == [m EXCEPT !.pending = m.pending \cup {x}]
<1>1. /\ k.frames = m.frames /\ k.iff = m.iff /\ k.vec = m.vec /\ k.count = m.count
      /\ k \in Controller
  BY DEF Sound, Controller
<1>2. Sound(k)
  BY <1>1 DEF Sound, Armed, Disciplined, Chain
<1> HIDE DEF k
<1>3. Good(CheckPending(k))
  BY <1>2, CheckPendingGood
<1> QED BY <1>3 DEF SetInterrupt, k

(* The last transfer enters the end handler and disarms the channel; any   *)
(* earlier one only counts.                                                *)
LEMMA DMAUpdateGood ==
  ASSUME NEW m, Good(m), NEW ch \in Channels
  PROVE  Good(DMAUpdate(m, ch))
<1>0. m \in Controller /\ Sound(m) /\ m.count[ch] \in Nat
  BY BoundsAssumption DEF Good, Sound, Controller
<1>1. CASE m.count[ch] = 0
  BY <1>1 DEF DMAUpdate
<1> DEFINE n == [m EXCEPT !.count[ch] = m.count[ch] - 1]
<1>2. /\ n.frames = m.frames /\ n.iff = m.iff /\ n.vec = m.vec
      /\ n.pending = m.pending /\ n.prio = m.prio
      /\ n.count = [m.count EXCEPT ![ch] = m.count[ch] - 1]
  BY <1>0 DEF Controller
<1>3. ASSUME m.count[ch] # 0 PROVE n \in Controller
  <2>1. [m.count EXCEPT ![ch] = m.count[ch] - 1] \in [Channels -> 0..MaxCount]
    BY <1>0, <1>3, BoundsAssumption DEF Controller
  <2> QED BY <1>0, <2>1 DEF Controller
<1>4. CASE m.count[ch] > 1
  <2>1. Armed(n)
    BY <1>0, <1>2, <1>4 DEF Sound, Armed, Controller
  <2>2. Disciplined(n) /\ Served(n)
    BY <1>2 DEF Good, Sound, Disciplined, Chain, Served, Deliverable, StatusIFF
  <2>3. DMAUpdate(m, ch) = n
    BY <1>4, <1>0 DEF DMAUpdate
  <2> QED BY <1>0, <1>3, <1>4, <2>1, <2>2, <2>3 DEF Good, Sound
<1>5. CASE m.count[ch] = 1
  <2> DEFINE e == Enter(n, EndOf(ch), 7)
             r == [e EXCEPT !.vec[ch] = NoVector]
             k == [n EXCEPT !.vec[ch] = NoVector]
  <2>1. DMAUpdate(m, ch) = r
    BY <1>5 DEF DMAUpdate
  <2>2. /\ k.frames = m.frames /\ k.iff = m.iff /\ k.count = n.count
        /\ k.vec = [m.vec EXCEPT ![ch] = NoVector]
        /\ k \in Controller
    <3>0. n \in Controller
      BY <1>3, <1>5
    <3> HIDE DEF n
    <3>1. [n.vec EXCEPT ![ch] = NoVector] \in [Channels -> Sources \cup {NoVector}]
      BY <3>0 DEF Controller
    <3> QED BY <1>2, <3>0, <3>1 DEF Controller
  <2>3. Armed(k)
    BY <1>0, <1>2, <2>2 DEF Sound, Armed, Controller
  <2>4. Sound(k)
    BY <1>0, <2>2, <2>3 DEF Sound, Disciplined, Chain
  <2>5. Sound(Enter(k, EndOf(ch), 7)) /\ Enter(k, EndOf(ch), 7).frames # <<>>
    <3> HIDE DEF k
    <3> QED BY <2>4, EnterSound, SourcesAreSmall
  <2>6. r = Enter(k, EndOf(ch), 7)
    BY <1>0, <1>2, <1>3, <1>5 DEF Enter, Controller
  <2> HIDE DEF k, r
  <2> QED BY <2>1, <2>5, <2>6 DEF Good, Served
<1> QED BY <1>0, <1>1, <1>4, <1>5

LEMMA TestIntHDMAGood ==
  ASSUME NEW m, Good(m), NEW x \in Sources
  PROVE  Good(TestIntHDMA(m, x))
<1> DEFINE waiting == {ch \in Channels : m.vec[ch] = x}
<1>1. CASE waiting # {}
  <2>1. First(waiting) \in Channels
    BY <1>1, FirstIsIn, SourcesAreSmall
  <2> QED BY <1>1, <2>1, DMAUpdateGood DEF TestIntHDMA
<1>2. CASE waiting = {}
  BY <1>2, SetInterruptGood DEF TestIntHDMA, Good
<1> QED BY <1>1, <1>2

LEMMA RequestGood ==
  ASSUME NEW m, Good(m), NEW R, R \subseteq Sources, NEW i \in 1..5
  PROVE  Good(Request(m, R, i))
BY TestIntHDMAGood DEF Request

LEMMA DevicesGood ==
  ASSUME NEW m, Good(m), NEW R, R \subseteq Sources
  PROVE  Good(Devices(m, R))
<1> DEFINE m1 == Request(m, R, 1)
           m2 == Request(m1, R, 2)
           m3 == Request(m2, R, 3)
           m4 == Request(m3, R, 4)
<1>1. Good(m1) BY RequestGood
<1> HIDE DEF m1
<1>2. Good(m2) BY <1>1, RequestGood
<1> HIDE DEF m2
<1>3. Good(m3) BY <1>2, RequestGood
<1> HIDE DEF m3
<1>4. Good(m4) BY <1>3, RequestGood
<1> HIDE DEF m4
<1>5. Good(Request(m4, R, 5)) BY <1>4, RequestGood
<1> QED BY <1>5 DEF Devices, m1, m2, m3, m4

(* Changes that leave frames, mask and channels alone, then a check. *)
LEMMA RecheckGood ==
  ASSUME NEW m, Sound(m), NEW k \in Controller,
         k.frames = m.frames, k.iff = m.iff, k.vec = m.vec, k.count = m.count
  PROVE  Good(CheckPending(k))
<1>1. Sound(k)
  BY DEF Sound, Armed, Disciplined, Chain
<1> QED BY <1>1, CheckPendingGood

LEMMA WriteRegisterGood ==
  ASSUME NEW m, Good(m), NEW x \in Sources, NEW low \in 0..7, NEW high \in 0..7, NEW keep
  PROVE  Good(WriteRegister(m, x, low, high, keep))
<1> DEFINE pair == {x, Sibling(x)}
           lo   == First(pair)
           p    == [m.prio EXCEPT ![lo] = low, ![Sibling(lo)] = high]
           k    == [m EXCEPT !.pending = m.pending \ (pair \ keep), !.prio = p]
<1>0. m \in Controller /\ Sound(m)
  BY DEF Good, Sound
<1>1. p \in [Sources -> 0..7]
  BY <1>0 DEF Controller
<1> HIDE DEF p
<1>2. /\ k \in Controller
      /\ k.frames = m.frames /\ k.iff = m.iff /\ k.vec = m.vec /\ k.count = m.count
  BY <1>0, <1>1 DEF Controller
<1>3. Good(CheckPending(k))
  <2> HIDE DEF k
  <2> QED BY <1>0, <1>2, RecheckGood
<1> QED BY <1>3 DEF WriteRegister, p

(* A new mask: free in main-line code, raised only inside handlers. *)
LEMMA NewMaskGood ==
  ASSUME NEW m, Good(m), NEW n \in 0..7,
         HandlersMayEI \/ m.frames = <<>> \/ n >= m.iff
  PROVE  Good(CheckPending([m EXCEPT !.iff = n]))
<1> DEFINE k == [m EXCEPT !.iff = n]
<1>1. /\ k \in Controller
      /\ k.frames = m.frames /\ k.iff = n /\ k.vec = m.vec /\ k.count = m.count
  BY DEF Good, Sound, Controller
<1>2. ASSUME ~HandlersMayEI PROVE Chain(k)
  <2>1. CASE m.frames = <<>>
    BY <1>1, <2>1 DEF Chain
  <2>2. CASE n >= m.iff
    <3>1. Chain(m) /\ m.iff \in 0..7 /\ m.frames \in Seq(Frame)
      BY <1>2 DEF Good, Sound, Disciplined, Controller
    <3>2. \A i \in DOMAIN m.frames : m.frames[i].level \in Int
      <4>1. \A i \in DOMAIN m.frames : m.frames[i] \in Frame
        BY <3>1
      <4> QED BY <4>1 DEF Frame
    <3>3. \A i \in DOMAIN m.frames : Entered(m.frames[i]) \in Int
      BY <3>2 DEF Entered
    <3> QED BY <1>1, <2>2, <3>1, <3>3 DEF Chain
  <2> QED BY <1>2, <2>1, <2>2
<1>3. Sound(k)
  BY <1>1, <1>2 DEF Good, Sound, Armed, Disciplined
<1> HIDE DEF k
<1>4. Good(CheckPending(k))
  BY <1>3, CheckPendingGood
<1> QED BY <1>4 DEF k

(* RETI pops the newest frame and brings its mask back. *)
LEMMA ReturnGood ==
  ASSUME NEW m, Good(m), m.frames # <<>>
  PROVE  Good(CheckPending([m EXCEPT !.iff    = m.frames[Len(m.frames)].iff,
                                     !.frames = SubSeq(m.frames, 1, Len(m.frames) - 1)]))
<1> DEFINE l == Len(m.frames)
           s == SubSeq(m.frames, 1, l - 1)
           k == [m EXCEPT !.iff = m.frames[l].iff, !.frames = s]
<1>0. m \in Controller /\ m.frames \in Seq(Frame) /\ l \in Nat \ {0}
  BY DEF Good, Sound, Controller
<1>1. /\ s \in Seq(Frame) /\ DOMAIN s = 1..(l - 1) /\ DOMAIN m.frames = 1..l
      /\ \A i \in 1..(l - 1) : s[i] = m.frames[i]
      /\ m.frames[l] \in Frame
  BY <1>0
<1> HIDE DEF s
<1>2. /\ k \in Controller
      /\ k.frames = s /\ k.iff = m.frames[l].iff /\ k.vec = m.vec /\ k.count = m.count
  BY <1>0, <1>1 DEF Controller, Frame
<1>3. ASSUME ~HandlersMayEI PROVE Chain(k)
  <2>1. Chain(m)
    BY <1>3 DEF Good, Sound, Disciplined
  <2>2. \A i \in 1..(l - 1) : Entered(m.frames[i]) <= m.frames[l].iff
    <3>1. l \in DOMAIN m.frames
      BY <1>0, <1>1
    <3>2. \A i \in 1..(l - 1) : Entered(m.frames[i]) <= m.frames[l].iff
      <4> HIDE DEF l, k
      <4> QED BY <2>1, <3>1, Zenon DEF Chain
    <3> QED BY <3>2
  <2>3. \A j \in 1..(l - 1) : \A i \in 1..(j - 1) :
           Entered(s[i]) <= s[j].iff
    <3> SUFFICES ASSUME NEW j \in 1..(l - 1), NEW i \in 1..(j - 1)
                 PROVE  Entered(s[i]) <= s[j].iff
      OBVIOUS
    <3>1. i \in 1..(l - 1) /\ j \in 1..l
      BY <1>0
    <3>2. Entered(m.frames[i]) <= m.frames[j].iff
      BY <1>1, <2>1, <3>1 DEF Chain
    <3> QED BY <1>1, <3>1, <3>2
  <2>4. \A j \in 1..(l - 1) : s[j].src \in Sources =>
           s[j].level \in 1..6 /\ s[j].iff <= s[j].level
    <3> SUFFICES ASSUME NEW j \in 1..(l - 1), s[j].src \in Sources
                 PROVE  s[j].level \in 1..6 /\ s[j].iff <= s[j].level
      OBVIOUS
    <3>1. j \in DOMAIN m.frames /\ s[j] = m.frames[j]
      BY <1>0, <1>1
    <3> QED BY <2>1, <3>1 DEF Chain
  <2>5. \A i \in 1..(l - 1) : Entered(s[i]) <= m.frames[l].iff
    BY <1>1, <2>2
  <2> HIDE DEF k
  <2> QED BY <1>1, <1>2, <2>3, <2>4, <2>5 DEF Chain
<1>4. Sound(k)
  BY <1>2, <1>3 DEF Good, Sound, Armed, Disciplined
<1>5. Good(CheckPending(k))
  <2> HIDE DEF k
  <2> QED BY <1>4, CheckPendingGood
<1> QED BY <1>5 DEF s

LEMMA ResetGood == Good(ResetController) /\ ResetLevel \in [Sources -> 0..7]
<1>1. ResetLevel \in [Sources -> 0..7]
  BY DEF ResetLevel
<1>2. ResetController \in Controller
  BY <1>1, BoundsAssumption DEF ResetController, Controller
<1> QED
  BY <1>1, <1>2 DEF Good, Sound, Served, Armed, Disciplined, Chain, ResetController, Deliverable

-----------------------------------------------------------------------------

LEMMA Initial == Init => Inv
BY ResetGood DEF Init, Inv

(* Every action keeps the controller good and the cache typed. *)
LEMMA Step == Inv /\ [Next]_vars => Inv'
<1> SUFFICES ASSUME Inv, [Next]_vars PROVE Inv'
  OBVIOUS
<1>0. Good(ic) /\ Sound(ic) /\ ic \in Controller /\ cache \in [Sources -> 0..7]
      /\ Levels \subseteq 0..7 /\ Masks \subseteq 0..7
  BY BoundsAssumption DEF Inv, Good, Sound
<1>1. ASSUME NEW R \in SUBSET (Sources \cap {5, 7, 8, 9, 10}), UpdateTimers(R) PROVE Inv'
  BY <1>0, <1>1, DevicesGood DEF UpdateTimers, Inv
<1>2. ASSUME NEW x \in Sources, ExternalRequest(x) PROVE Inv'
  BY <1>0, <1>2, TestIntHDMAGood DEF ExternalRequest, Inv
<1>3. ASSUME NEW x \in SwiLatches, SoftwareInterrupt(x) PROVE Inv'
  BY <1>0, <1>3, SetInterruptGood DEF SoftwareInterrupt, Inv
<1>4. ASSUME NEW n \in Masks, SetMask(n) PROVE Inv'
  BY <1>0, <1>4, NewMaskGood DEF SetMask, Inv
<1>5. CASE ChangeBank
  BY <1>0, <1>5, CheckPendingGood DEF ChangeBank, Inv
<1>6. CASE ReturnFromInterrupt
  BY <1>0, <1>6, ReturnGood DEF ReturnFromInterrupt, Inv
<1>7. ASSUME NEW x \in Sources, NEW low \in Levels, NEW high \in Levels, NEW keep,
             WritePriority(x, low, high, keep) PROVE Inv'
  BY <1>0, <1>7, WriteRegisterGood DEF WritePriority, Inv
<1>8. ASSUME NEW x \in Sources, NEW level \in Levels, IntLvSet(x, level) PROVE Inv'
  <2> DEFINE c  == [cache EXCEPT ![x] = level]
             lo == First({x, Sibling(x)})
  <2>1. c \in [Sources -> 0..7]
    BY <1>0
  <2>2. x \in 5..12 /\ Sibling(x) \in Sources /\ lo \in Sources /\ Sibling(lo) \in Sources
    <3>1. {x, Sibling(x)} \subseteq Nat /\ {x, Sibling(x)} \subseteq Sources
      BY SourcesAssumption, SourcesAreSmall
    <3>2. lo \in {x, Sibling(x)}
      BY <3>1, FirstIsIn
    <3> QED BY <3>1, <3>2, SourcesAssumption
  <2>3. cache' = c /\ ic' = WriteRegister(ic, x, c[lo], c[Sibling(lo)], {})
    BY <1>8 DEF IntLvSet
  <2>4. c[lo] \in 0..7 /\ c[Sibling(lo)] \in 0..7
    BY <2>1, <2>2
  <2> HIDE DEF c, lo
  <2>5. Good(ic')
    BY <1>0, <2>3, <2>4, WriteRegisterGood
  <2> QED BY <2>1, <2>3, <2>5 DEF Inv
<1>9. ASSUME NEW ch \in Channels, NEW v \in Sources \cup {NoVector}, WriteVector(ch, v)
      PROVE Inv'
  <2>1. /\ ic'.vec = [ic.vec EXCEPT ![ch] = v]
        /\ ic'.frames = ic.frames /\ ic'.iff = ic.iff /\ ic'.count = ic.count
        /\ ic'.pending = ic.pending /\ ic'.prio = ic.prio
        /\ ic' \in Controller
    BY <1>0, <1>9 DEF WriteVector, Controller
  <2>2. Armed(ic')
    BY <1>0, <1>9, <2>1 DEF WriteVector, Sound, Armed, Controller
  <2>3. Disciplined(ic') /\ Served(ic')
    BY <1>0, <2>1 DEF Good, Sound, Disciplined, Chain, Served, Deliverable, StatusIFF
  <2> QED BY <1>0, <1>9, <2>1, <2>2, <2>3 DEF WriteVector, Inv, Good, Sound
<1>10. ASSUME NEW ch \in Channels, NEW n \in 0..MaxCount, LoadCount(ch, n)
       PROVE Inv'
  <2>1. /\ ic'.count = [ic.count EXCEPT ![ch] = n]
        /\ ic'.frames = ic.frames /\ ic'.iff = ic.iff /\ ic'.vec = ic.vec
        /\ ic'.pending = ic.pending /\ ic'.prio = ic.prio
        /\ ic' \in Controller
    BY <1>0, <1>10 DEF LoadCount, Controller
  <2>2. Armed(ic')
    BY <1>0, <1>10, <2>1 DEF LoadCount, Sound, Armed, Controller
  <2>3. Disciplined(ic') /\ Served(ic')
    BY <1>0, <2>1 DEF Good, Sound, Disciplined, Chain, Served, Deliverable, StatusIFF
  <2> QED BY <1>0, <1>10, <2>1, <2>2, <2>3 DEF LoadCount, Inv, Good, Sound
<1>11. CASE Reset
  BY <1>11, ResetGood DEF Reset, Inv
<1>12. CASE UNCHANGED vars
  BY <1>12 DEF vars, Inv
<1> QED
  BY <1>1, <1>2, <1>3, <1>4, <1>5, <1>6, <1>7, <1>8, <1>9, <1>10, <1>11, <1>12 DEF Next

LEMMA Invariance == Spec => []Inv
BY Initial, Step, PTL DEF Spec

-----------------------------------------------------------------------------

(* The controller, its channels and the frames keep their types. *)
THEOREM TypeCorrect == Spec => []TypeOK
<1>1. Inv => TypeOK
  BY DEF Inv, Good, Sound, TypeOK
<1> QED BY <1>1, Invariance, PTL

(* No deliverable interrupt ever waits under main-line code: every place   *)
(* that latches one, lowers the mask or raises a level looks at the latches. *)
THEOREM MainlineIsServed == Spec => []MainlineServed
<1>1. Inv => MainlineServed
  BY DEF Inv, Good, Served, MainlineServed
<1> QED BY <1>1, Invariance, PTL

(* Without EI in handlers the stacked handlers have increasing levels. *)
THEOREM PreemptionIsByPriority == Spec => []PreemptionByPriority
<1>1. Inv => PreemptionByPriority
  <2> SUFFICES ASSUME Inv, ~HandlersMayEI,
                      NEW j \in DOMAIN ic.frames, NEW i \in 1..(j - 1),
                      ic.frames[j].src \in Sources
               PROVE  ic.frames[i].level < ic.frames[j].level
    BY DEF PreemptionByPriority
  <2>1. Chain(ic) /\ ic.frames \in Seq(Frame)
    BY DEF Inv, Good, Sound, Disciplined, Controller
  <2>2. ic.frames[i] \in Frame /\ ic.frames[j] \in Frame
    BY <2>1
  <2>3. /\ Entered(ic.frames[i]) <= ic.frames[j].iff
        /\ ic.frames[j].level \in 1..6 /\ ic.frames[j].iff <= ic.frames[j].level
    BY <2>1 DEF Chain
  <2> QED BY <2>2, <2>3 DEF Entered, Frame
<1> QED BY <1>1, Invariance, PTL

(* No channel is left armed with nothing to transfer. *)
THEOREM ArmedChannelsCount == Spec => []ArmedMeansCounting
<1>1. Inv => ArmedMeansCounting
  BY DEF Inv, Good, Sound, Armed, ArmedMeansCounting
<1> QED BY <1>1, Invariance, PTL

-----------------------------------------------------------------------------

(* The levels change in WriteRegister only: every other operator passes on *)
(* the record's prio.                                                      *)
LEMMA EnterKeepsLevels ==
  ASSUME NEW m \in Controller, NEW x, NEW level
  PROVE  Enter(m, x, level).prio = m.prio
BY DEF Enter, Controller

LEMMA CheckPendingKeepsLevels ==
  ASSUME NEW m \in Controller
  PROVE  CheckPending(m).prio = m.prio
<1>1. CASE Deliverable(m) = {}
  BY <1>1 DEF CheckPending
<1>2. CASE Deliverable(m) # {}
  <2> DEFINE x == First(Deliverable(m))
             k == [m EXCEPT !.pending = m.pending \ {x}]
  <2>1. k \in Controller /\ k.prio = m.prio
    BY DEF Controller
  <2>2. CheckPending(m) = Enter(k, x, m.prio[x])
    BY <1>2 DEF CheckPending
  <2> HIDE DEF k
  <2> QED BY <2>1, <2>2, EnterKeepsLevels
<1> QED BY <1>1, <1>2

LEMMA SetInterruptKeepsLevels ==
  ASSUME NEW m \in Controller, NEW x \in Sources \cup SwiLatches
  PROVE  SetInterrupt(m, x).prio = m.prio
<1> DEFINE k == [m EXCEPT !.pending = m.pending \cup {x}]
<1>1. k \in Controller /\ k.prio = m.prio
  BY DEF Controller
<1>2. SetInterrupt(m, x) = CheckPending(k)
  BY DEF SetInterrupt
<1> HIDE DEF k
<1> QED BY <1>1, <1>2, CheckPendingKeepsLevels

LEMMA DMAUpdateKeepsLevels ==
  ASSUME NEW m, Good(m), NEW ch \in Channels
  PROVE  DMAUpdate(m, ch).prio = m.prio
<1> DEFINE n == [m EXCEPT !.count[ch] = m.count[ch] - 1]
<1>0. m \in Controller
  BY DEF Good, Sound
<1>1. n.prio = m.prio /\ DOMAIN n = DOMAIN m
  BY <1>0 DEF Controller
<1>2. DMAUpdate(m, ch) \in {m, n, [Enter(n, EndOf(ch), 7) EXCEPT !.vec[ch] = NoVector]}
  BY DEF DMAUpdate
<1>3. [Enter(n, EndOf(ch), 7) EXCEPT !.vec[ch] = NoVector].prio = n.prio
  BY <1>0 DEF Enter, Controller
<1> QED BY <1>1, <1>2, <1>3

LEMMA RequestKeepsLevels ==
  ASSUME NEW m, Good(m), NEW R, R \subseteq Sources, NEW i \in 1..5
  PROVE  Good(Request(m, R, i)) /\ Request(m, R, i).prio = m.prio
<1>1. ASSUME NEW x \in Sources PROVE TestIntHDMA(m, x).prio = m.prio
  <2> DEFINE waiting == {ch \in Channels : m.vec[ch] = x}
  <2>1. CASE waiting # {}
    <3>1. First(waiting) \in Channels
      BY <2>1, FirstIsIn, SourcesAreSmall
    <3> QED BY <2>1, <3>1, DMAUpdateKeepsLevels DEF TestIntHDMA
  <2>2. CASE waiting = {}
    BY <2>2, SetInterruptKeepsLevels DEF TestIntHDMA, Good, Sound
  <2> QED BY <2>1, <2>2
<1> QED BY <1>1, RequestGood DEF Request

LEMMA DevicesKeepLevels ==
  ASSUME NEW m, Good(m), NEW R, R \subseteq Sources
  PROVE  Devices(m, R).prio = m.prio
<1> DEFINE m1 == Request(m, R, 1)
           m2 == Request(m1, R, 2)
           m3 == Request(m2, R, 3)
           m4 == Request(m3, R, 4)
<1>1. Good(m1) /\ m1.prio = m.prio
  BY RequestKeepsLevels
<1> HIDE DEF m1
<1>2. Good(m2) /\ m2.prio = m1.prio
  BY <1>1, RequestKeepsLevels
<1> HIDE DEF m2
<1>3. Good(m3) /\ m3.prio = m2.prio
  BY <1>2, RequestKeepsLevels
<1> HIDE DEF m3
<1>4. Good(m4) /\ m4.prio = m3.prio
  BY <1>3, RequestKeepsLevels
<1> HIDE DEF m4
<1>5. Request(m4, R, 5).prio = m4.prio
  BY <1>4, RequestKeepsLevels
<1> QED BY <1>1, <1>2, <1>3, <1>4, <1>5 DEF Devices, m1, m2, m3, m4

(* Setting one level through the BIOS writes the sibling's cached level    *)
(* over the register's: they are the same, so the pair ends as the cache.  *)
LEMMA IntLvSetMirrors ==
  ASSUME Inv, cache = ic.prio, NEW x \in Sources, NEW level \in Levels, IntLvSet(x, level)
  PROVE  cache' = ic'.prio
<1> DEFINE c    == [cache EXCEPT ![x] = level]
           lo   == First({x, Sibling(x)})
           p    == [ic.prio EXCEPT ![lo] = c[lo], ![Sibling(lo)] = c[Sibling(lo)]]
           k    == [ic EXCEPT !.pending = ic.pending \ ({x, Sibling(x)} \ {}), !.prio = p]
<1>1. ic \in Controller /\ cache \in [Sources -> 0..7] /\ c \in [Sources -> 0..7]
  BY BoundsAssumption DEF Inv, Good, Sound
<1>2. cache' = c /\ ic' = CheckPending(k)
  BY DEF IntLvSet, WriteRegister
<1>3. {x, Sibling(x)} \subseteq Nat /\ {x, Sibling(x)} \subseteq Sources /\ x \in 5..12
  BY SourcesAssumption, SourcesAreSmall
<1>4. lo \in {x, Sibling(x)}
  BY <1>3, FirstIsIn
<1>5. {lo, Sibling(lo)} = {x, Sibling(x)}
  BY <1>3, <1>4 DEF Sibling
<1> HIDE DEF lo
<1>6. lo \in Sources /\ Sibling(lo) \in Sources /\ (x = lo \/ x = Sibling(lo))
  BY <1>3, <1>5
<1>7. p = c
  BY <1>1, <1>6
<1> HIDE DEF p, c
<1>8. k \in Controller /\ k.prio = p
  BY <1>1, <1>7 DEF Controller
<1> HIDE DEF k
<1> QED BY <1>2, <1>7, <1>8, CheckPendingKeepsLevels

LEMMA MirrorStep == Inv /\ CacheMirrorsPriority /\ [Next]_vars => CacheMirrorsPriority'
<1> SUFFICES ASSUME Inv, ~DirectWrites, cache = ic.prio, [Next]_vars PROVE cache' = ic'.prio
  BY DEF CacheMirrorsPriority
<1>0. Good(ic) /\ ic \in Controller
  BY DEF Inv, Good, Sound
<1>1. ASSUME NEW R \in SUBSET (Sources \cap {5, 7, 8, 9, 10}), UpdateTimers(R) PROVE cache' = ic'.prio
  BY <1>0, <1>1, DevicesKeepLevels DEF UpdateTimers
<1>2. ASSUME NEW x \in Sources, ExternalRequest(x) PROVE cache' = ic'.prio
  <2> DEFINE waiting == {ch \in Channels : ic.vec[ch] = x}
  <2>1. CASE waiting # {}
    <3>1. First(waiting) \in Channels
      BY <2>1, FirstIsIn, SourcesAreSmall
    <3> QED BY <1>0, <1>2, <2>1, <3>1, DMAUpdateKeepsLevels DEF ExternalRequest, TestIntHDMA
  <2>2. CASE waiting = {}
    BY <1>0, <1>2, <2>2, SetInterruptKeepsLevels DEF ExternalRequest, TestIntHDMA
  <2> QED BY <2>1, <2>2
<1>3. ASSUME NEW x \in SwiLatches, SoftwareInterrupt(x) PROVE cache' = ic'.prio
  BY <1>0, <1>3, SetInterruptKeepsLevels DEF SoftwareInterrupt
<1>4. ASSUME NEW n \in Masks, SetMask(n) PROVE cache' = ic'.prio
  <2> DEFINE k == [ic EXCEPT !.iff = n]
  <2>1. k \in Controller /\ k.prio = ic.prio
    BY <1>0, BoundsAssumption DEF Controller
  <2>2. ic' = CheckPending(k) /\ cache' = cache
    BY <1>4 DEF SetMask
  <2> HIDE DEF k
  <2> QED BY <2>1, <2>2, CheckPendingKeepsLevels
<1>5. CASE ChangeBank
  BY <1>0, <1>5, CheckPendingKeepsLevels DEF ChangeBank
<1>6. CASE ReturnFromInterrupt
  <2> DEFINE n == Len(ic.frames)
             k == [ic EXCEPT !.iff = ic.frames[n].iff, !.frames = SubSeq(ic.frames, 1, n - 1)]
  <2>1. ic.frames \in Seq(Frame) /\ ic.frames # <<>>
    BY <1>0, <1>6 DEF Controller, ReturnFromInterrupt
  <2>2. ic.frames[n] \in Frame /\ SubSeq(ic.frames, 1, n - 1) \in Seq(Frame)
    BY <2>1
  <2>3. k \in Controller /\ k.prio = ic.prio
    BY <1>0, <2>2 DEF Controller, Frame
  <2>4. ic' = CheckPending(k) /\ cache' = cache
    BY <1>6 DEF ReturnFromInterrupt
  <2> HIDE DEF k
  <2> QED BY <2>3, <2>4, CheckPendingKeepsLevels
<1>7. ASSUME NEW x \in Sources, NEW low \in Levels, NEW high \in Levels, NEW keep, WritePriority(x, low, high, keep)
      PROVE cache' = ic'.prio
  BY <1>7 DEF WritePriority
<1>8. ASSUME NEW x \in Sources, NEW level \in Levels, IntLvSet(x, level) PROVE cache' = ic'.prio
  BY <1>8, IntLvSetMirrors
<1>9. ASSUME NEW ch \in Channels, NEW v \in Sources \cup {NoVector}, WriteVector(ch, v) PROVE cache' = ic'.prio
  BY <1>0, <1>9 DEF WriteVector, Controller
<1>10. ASSUME NEW ch \in Channels, NEW n \in 0..MaxCount, LoadCount(ch, n) PROVE cache' = ic'.prio
  BY <1>0, <1>10 DEF LoadCount, Controller
<1>11. CASE Reset
  BY <1>11 DEF Reset, ResetController
<1>12. CASE UNCHANGED vars
  BY <1>12 DEF vars
<1> QED
  BY <1>1, <1>2, <1>3, <1>4, <1>5, <1>6, <1>7, <1>8, <1>9, <1>10, <1>11, <1>12 DEF Next

(* As long as programs set levels through the BIOS, the levels it remembers *)
(* are those of the controller, for every set of sources and whatever      *)
(* happens between two calls (VECT_INTLVSET over int_write8).              *)
THEOREM CacheIsRight == Spec => []CacheMirrorsPriority
<1>1. Init => CacheMirrorsPriority
  BY DEF Init, CacheMirrorsPriority, ResetController
<1> QED BY <1>1, MirrorStep, Invariance, PTL DEF Spec

-----------------------------------------------------------------------------
(* What becomes of a request.  From one controller value to a later one of *)
(* the same step, handlers are only added, a latch is given up only for     *)
(* its handler, transfers only run down and channels are only disarmed.    *)
Srcs(m) == {m.frames[i].src : i \in DOMAIN m.frames}

Later(m, n) ==
  /\ Srcs(m) \subseteq Srcs(n)
  /\ m.pending \ n.pending \subseteq Srcs(n)
  /\ \A ch \in Channels : n.count[ch] <= m.count[ch] /\ n.vec[ch] \in {m.vec[ch], NoVector}

Answered(m, n, x) ==
  \/ x \in n.pending
  \/ x \in Srcs(n)
  \/ \E ch \in Channels : m.vec[ch] = x /\ n.count[ch] < m.count[ch]

LEMMA CountsAre ==
  ASSUME NEW m \in Controller, NEW ch \in Channels
  PROVE  m.count[ch] \in Nat
BY BoundsAssumption DEF Controller

LEMMA LaterIsTransitive ==
  ASSUME NEW k \in Controller, NEW m \in Controller, NEW n \in Controller, Later(k, m), Later(m, n)
  PROVE  Later(k, n)
BY CountsAre DEF Later

(* An answer is not taken back, and one given later counts from the start. *)
LEMMA AnsweredStays ==
  ASSUME NEW k \in Controller, NEW m \in Controller, NEW n \in Controller, NEW x \in Sources,
         Later(k, m), Later(m, n), Answered(k, m, x) \/ Answered(m, n, x)
  PROVE  Answered(k, n, x)
<1>1. x # NoVector
  BY SourcesAssumption
<1>2. CASE Answered(k, m, x)
  BY <1>2, CountsAre DEF Later, Answered
<1>3. CASE Answered(m, n, x)
  BY <1>1, <1>3, CountsAre DEF Later, Answered
<1> QED BY <1>2, <1>3

LEMMA EnterAdds ==
  ASSUME NEW m \in Controller, NEW x \in Handlers, NEW level \in 0..7
  PROVE  /\ Srcs(Enter(m, x, level)) = Srcs(m) \cup {x}
         /\ Enter(m, x, level).pending = m.pending
         /\ Enter(m, x, level).count = m.count /\ Enter(m, x, level).vec = m.vec
<1> DEFINE f == [src |-> x, level |-> level, iff |-> m.iff]
           n == Enter(m, x, level)
<1>1. m.frames \in Seq(Frame) /\ f \in Frame
  BY DEF Controller, Frame
<1>2. n.frames = Append(m.frames, f) /\ n.pending = m.pending /\ n.count = m.count /\ n.vec = m.vec
  BY DEF Enter, Controller
<1>3. /\ DOMAIN m.frames = 1..Len(m.frames) /\ Len(m.frames) \in Nat
      /\ DOMAIN n.frames = 1..(Len(m.frames) + 1)
      /\ n.frames[Len(m.frames) + 1] = f
      /\ \A i \in 1..Len(m.frames) : n.frames[i] = m.frames[i]
  BY <1>1, <1>2
<1> HIDE DEF n
<1>4. Srcs(n) = Srcs(m) \cup {x}
  <2>1. Srcs(n) \subseteq Srcs(m) \cup {x}
    <3> SUFFICES ASSUME NEW i \in DOMAIN n.frames
                 PROVE  n.frames[i].src \in Srcs(m) \cup {x}
      BY DEF Srcs
    <3>1. i = Len(m.frames) + 1 \/ i \in DOMAIN m.frames
      BY <1>3
    <3> QED BY <1>3, <3>1 DEF Srcs
  <2>2. Srcs(m) \subseteq Srcs(n)
    <3> SUFFICES ASSUME NEW i \in DOMAIN m.frames
                 PROVE  m.frames[i].src \in Srcs(n)
      BY DEF Srcs
    <3>1. i \in DOMAIN n.frames /\ n.frames[i] = m.frames[i]
      BY <1>3
    <3> QED BY <3>1 DEF Srcs
  <2>3. x \in Srcs(n)
    <3>1. Len(m.frames) + 1 \in DOMAIN n.frames /\ n.frames[Len(m.frames) + 1].src = x
      BY <1>3
    <3> QED BY <3>1 DEF Srcs
  <2> QED BY <2>1, <2>2, <2>3
<1> QED BY <1>2, <1>4 DEF n

LEMMA CheckPendingLater ==
  ASSUME NEW m \in Controller
  PROVE  Later(m, CheckPending(m))
<1>1. CASE Deliverable(m) = {}
  BY <1>1, CountsAre DEF CheckPending, Later
<1>2. CASE Deliverable(m) # {}
  <2> DEFINE x == First(Deliverable(m))
             k == [m EXCEPT !.pending = m.pending \ {x}]
  <2>0. x \in Deliverable(m)
    BY <1>2, FirstIsIn, SourcesAreSmall DEF Deliverable
  <2>1. x \in Sources /\ m.prio[x] \in 0..7
    <3> HIDE DEF x
    <3> QED BY <2>0 DEF Deliverable, Controller
  <2>2. k \in Controller /\ k.pending = m.pending \ {x} /\ k.count = m.count /\ k.vec = m.vec /\ k.frames = m.frames
    BY DEF Controller
  <2>3. CheckPending(m) = Enter(k, x, m.prio[x])
    BY <1>2 DEF CheckPending
  <2> HIDE DEF k, x
  <2>4. /\ Srcs(CheckPending(m)) = Srcs(k) \cup {x} /\ CheckPending(m).pending = k.pending
        /\ CheckPending(m).count = k.count /\ CheckPending(m).vec = k.vec
    BY <2>1, <2>2, <2>3, EnterAdds DEF Handlers
  <2>5. Srcs(k) = Srcs(m)
    BY <2>2 DEF Srcs
  <2> QED BY <2>2, <2>4, <2>5, CountsAre DEF Later
<1> QED BY <1>1, <1>2

LEMMA SetInterruptLater ==
  ASSUME NEW m \in Controller, NEW x \in Sources \cup SwiLatches
  PROVE  Later(m, SetInterrupt(m, x)) /\ Answered(m, SetInterrupt(m, x), x)
<1> DEFINE k == [m EXCEPT !.pending = m.pending \cup {x}]
<1>1. k \in Controller /\ k.pending = m.pending \cup {x} /\ k.count = m.count /\ k.vec = m.vec /\ k.frames = m.frames
  BY DEF Controller
<1>2. SetInterrupt(m, x) = CheckPending(k)
  BY DEF SetInterrupt
<1> HIDE DEF k
<1>3. Later(k, CheckPending(k))
  BY <1>1, CheckPendingLater
<1>4. Srcs(k) = Srcs(m)
  BY <1>1 DEF Srcs
<1> QED BY <1>1, <1>2, <1>3, <1>4 DEF Later, Answered

LEMMA DMAUpdateLater ==
  ASSUME NEW m \in Controller, NEW ch \in Channels
  PROVE  /\ Later(m, DMAUpdate(m, ch))
         /\ m.count[ch] > 0 => DMAUpdate(m, ch).count[ch] < m.count[ch]
<1> DEFINE n == [m EXCEPT !.count[ch] = m.count[ch] - 1]
           e == Enter(n, EndOf(ch), 7)
           r == [e EXCEPT !.vec[ch] = NoVector]
<1>1. m.count[ch] \in 0..MaxCount /\ m.count[ch] \in Nat /\ m.count \in [Channels -> 0..MaxCount]
  BY CountsAre DEF Controller
<1>2. CASE m.count[ch] = 0
  BY <1>2, CountsAre DEF DMAUpdate, Later
<1>3. ASSUME m.count[ch] # 0
      PROVE  /\ n \in Controller /\ n.pending = m.pending /\ n.vec = m.vec /\ n.frames = m.frames
             /\ n.count = [m.count EXCEPT ![ch] = m.count[ch] - 1]
  <2>1. [m.count EXCEPT ![ch] = m.count[ch] - 1] \in [Channels -> 0..MaxCount]
    BY <1>1, <1>3, BoundsAssumption
  <2> QED BY <2>1 DEF Controller
<1>4. ASSUME m.count[ch] # 0
      PROVE  \A c \in Channels : n.count[c] <= m.count[c] /\ (c = ch => n.count[c] < m.count[c])
  BY <1>1, <1>3, <1>4, CountsAre
<1>5. CASE m.count[ch] > 1
  <2>1. DMAUpdate(m, ch) = n
    BY <1>5, <1>1 DEF DMAUpdate
  <2> HIDE DEF n
  <2>2. Srcs(n) = Srcs(m)
    BY <1>3, <1>5 DEF Srcs
  <2> QED BY <1>3, <1>4, <1>5, <2>1, <2>2 DEF Later
<1>6. CASE m.count[ch] = 1
  <2>1. DMAUpdate(m, ch) = r
    BY <1>6 DEF DMAUpdate
  <2>2. n \in Controller
    BY <1>3, <1>6
  <2>3. Srcs(n) = Srcs(m)
    BY <1>3, <1>6 DEF Srcs
  <2>4. e.vec = m.vec /\ r.pending = e.pending /\ r.count = e.count /\ r.frames = e.frames /\ r.vec = [m.vec EXCEPT ![ch] = NoVector]
    BY <1>3, <1>6 DEF Enter, Controller
  <2> HIDE DEF n
  <2>5. Srcs(e) = Srcs(n) \cup {EndOf(ch)} /\ e.pending = n.pending /\ e.count = n.count
    BY <2>2, EnterAdds, SourcesAreSmall
  <2> HIDE DEF e, r
  <2>6. Srcs(r) = Srcs(e)
    BY <2>4 DEF Srcs
  <2>7. \A c \in Channels : r.vec[c] \in {m.vec[c], NoVector}
    BY <2>4 DEF Controller
  <2> QED BY <1>3, <1>4, <1>6, <2>1, <2>3, <2>4, <2>5, <2>6, <2>7 DEF Later
<1> QED BY <1>1, <1>2, <1>5, <1>6

(* A request becomes a transfer or a latch, which may be served at once. *)
LEMMA TestIntHDMALater ==
  ASSUME NEW m, Good(m), NEW x \in Sources
  PROVE  Later(m, TestIntHDMA(m, x)) /\ Answered(m, TestIntHDMA(m, x), x)
<1> DEFINE waiting == {ch \in Channels : m.vec[ch] = x}
<1>0. m \in Controller /\ Armed(m)
  BY DEF Good, Sound
<1>1. CASE waiting # {}
  <2> DEFINE ch == First(waiting)
  <2>1. ch \in Channels /\ m.vec[ch] = x
    BY <1>1, FirstIsIn, SourcesAreSmall
  <2>2. x # NoVector
    BY SourcesAssumption
  <2>3. TestIntHDMA(m, x) = DMAUpdate(m, ch)
    BY <1>1 DEF TestIntHDMA
  <2> HIDE DEF ch
  <2>4. m.count[ch] > 0
    BY <1>0, <2>1, <2>2 DEF Armed
  <2> QED BY <1>0, <2>1, <2>3, <2>4, DMAUpdateLater DEF Answered
<1>2. CASE waiting = {}
  BY <1>0, <1>2, SetInterruptLater DEF TestIntHDMA
<1> QED BY <1>1, <1>2

LEMMA RequestLater ==
  ASSUME NEW m, Good(m), NEW R, R \subseteq Sources, NEW i \in 1..5
  PROVE  /\ Request(m, R, i) \in Controller /\ Later(m, Request(m, R, i))
         /\ TimerOrder[i] \in R => Answered(m, Request(m, R, i), TimerOrder[i])
<1>1. Request(m, R, i) \in Controller /\ m \in Controller
  BY RequestGood DEF Good, Sound
<1>2. CASE TimerOrder[i] \in R
  BY <1>1, <1>2, TestIntHDMALater DEF Request
<1>3. CASE TimerOrder[i] \notin R
  BY <1>1, <1>3, CountsAre DEF Request, Later
<1> QED BY <1>1, <1>2, <1>3

LEMMA DevicesLater ==
  ASSUME NEW m, Good(m), NEW R, R \subseteq Sources \cap {5, 7, 8, 9, 10}
  PROVE  Later(m, Devices(m, R)) /\ \A x \in R : Answered(m, Devices(m, R), x)
<1> DEFINE m1 == Request(m, R, 1)
           m2 == Request(m1, R, 2)
           m3 == Request(m2, R, 3)
           m4 == Request(m3, R, 4)
           m5 == Request(m4, R, 5)
<1>0. m \in Controller /\ R \subseteq Sources
  BY DEF Good, Sound
<1>1. Good(m1) /\ m1 \in Controller /\ Later(m, m1) /\ (TimerOrder[1] \in R => Answered(m, m1, TimerOrder[1]))
  BY <1>0, RequestGood, RequestLater
<1> HIDE DEF m1
<1>2. Good(m2) /\ m2 \in Controller /\ Later(m1, m2) /\ (TimerOrder[2] \in R => Answered(m1, m2, TimerOrder[2]))
  BY <1>0, <1>1, RequestGood, RequestLater
<1> HIDE DEF m2
<1>3. Good(m3) /\ m3 \in Controller /\ Later(m2, m3) /\ (TimerOrder[3] \in R => Answered(m2, m3, TimerOrder[3]))
  BY <1>0, <1>2, RequestGood, RequestLater
<1> HIDE DEF m3
<1>4. Good(m4) /\ m4 \in Controller /\ Later(m3, m4) /\ (TimerOrder[4] \in R => Answered(m3, m4, TimerOrder[4]))
  BY <1>0, <1>3, RequestGood, RequestLater
<1> HIDE DEF m4
<1>5. m5 \in Controller /\ Later(m4, m5) /\ (TimerOrder[5] \in R => Answered(m4, m5, TimerOrder[5]))
  BY <1>0, <1>4, RequestLater
<1>6. Devices(m, R) = m5
  BY DEF Devices, m1, m2, m3, m4
<1> HIDE DEF m5
<1>7. Later(m, m2) /\ Later(m, m3) /\ Later(m, m4) /\ Later(m, m5)
  BY <1>0, <1>1, <1>2, <1>3, <1>4, <1>5, LaterIsTransitive
<1>8. Later(m1, m5) /\ Later(m2, m5) /\ Later(m3, m5)
  BY <1>1, <1>2, <1>3, <1>4, <1>5, LaterIsTransitive
<1>9. ASSUME NEW x \in R
      PROVE  Answered(m, m5, x)
  <2>1. x \in Sources /\ \E i \in 1..5 : x = TimerOrder[i]
    BY DEF TimerOrder
  <2>2. CASE x = TimerOrder[1]
    BY <1>0, <1>1, <1>5, <1>8, <2>1, <2>2, AnsweredStays
  <2>3. CASE x = TimerOrder[2]
    <3>1. Answered(m, m2, x)
      BY <1>0, <1>1, <1>2, <2>1, <2>3, AnsweredStays
    <3> QED BY <1>0, <1>2, <1>5, <1>7, <1>8, <2>1, <3>1, AnsweredStays
  <2>4. CASE x = TimerOrder[3]
    <3>1. Answered(m, m3, x)
      BY <1>0, <1>2, <1>3, <1>7, <2>1, <2>4, AnsweredStays
    <3> QED BY <1>0, <1>3, <1>5, <1>7, <1>8, <2>1, <3>1, AnsweredStays
  <2>5. CASE x = TimerOrder[4]
    <3>1. Answered(m, m4, x)
      BY <1>0, <1>3, <1>4, <1>7, <2>1, <2>5, AnsweredStays
    <3> QED BY <1>0, <1>4, <1>5, <1>7, <2>1, <3>1, AnsweredStays
  <2>6. CASE x = TimerOrder[5]
    BY <1>0, <1>4, <1>5, <1>7, <2>1, <2>6, AnsweredStays
  <2> QED BY <2>1, <2>2, <2>3, <2>4, <2>5, <2>6
<1> QED BY <1>6, <1>7, <1>9

(* No request of a tick is lost, whatever the others of that tick did to    *)
(* mask, channels and handlers: for any sources, channels and levels       *)
(* (updateTimers, TestIntHDMA, DMA_update).                                *)
THEOREM RequestsAreAnswered == Spec => NoRequestSwallowed
<1>1. Inv /\ [Next]_vars =>
        [\A R \in SUBSET (Sources \cap {5, 7, 8, 9, 10}) :
           UpdateTimers(R) =>
             \A x \in R : \/ x \in ic'.pending
                          \/ Running(x)
                          \/ \E ch \in Channels : ic.vec[ch] = x /\ ic'.count[ch] < ic.count[ch]]_vars
  <2> SUFFICES ASSUME Inv, NEW R \in SUBSET (Sources \cap {5, 7, 8, 9, 10}), UpdateTimers(R), NEW x \in R
               PROVE  \/ x \in ic'.pending
                      \/ Running(x)
                      \/ \E ch \in Channels : ic.vec[ch] = x /\ ic'.count[ch] < ic.count[ch]
    OBVIOUS
  <2>1. Answered(ic, ic', x)
    BY DevicesLater DEF Inv, UpdateTimers
  <2> QED BY <2>1 DEF Answered, Srcs, Running
<1> QED BY <1>1, Initial, Step, PTL DEF Spec, NoRequestSwallowed

-----------------------------------------------------------------------------
(* What becomes of a latch. *)
LEMMA PairIs ==
  ASSUME NEW x \in Sources
  PROVE  Sibling(x) \in Sources /\ Sibling(Sibling(x)) = x
BY SourcesAssumption DEF Sibling

(* A changed controller that is then looked at gives up latches to their    *)
(* handlers only, besides the ones the change itself cleared.              *)
LEMMA RecheckServes ==
  ASSUME NEW k \in Controller, NEW x \in k.pending, x \notin CheckPending(k).pending
  PROVE  x \in Srcs(CheckPending(k))
BY CheckPendingLater DEF Later

(* A write to a register clears latches of its pair only, kept ones aside. *)
LEMMA WriteRegisterServes ==
  ASSUME NEW x \in Sources, NEW low \in 0..7, NEW high \in 0..7, NEW keep, ic \in Controller,
         NEW y \in ic.pending, y \notin WriteRegister(ic, x, low, high, keep).pending
  PROVE  y \in Srcs(WriteRegister(ic, x, low, high, keep)) \/ y \in {x, Sibling(x)} \ keep
<1> DEFINE pair == {x, Sibling(x)}
           lo   == First(pair)
           p    == [ic.prio EXCEPT ![lo] = low, ![Sibling(lo)] = high]
           k    == [ic EXCEPT !.pending = ic.pending \ (pair \ keep), !.prio = p]
<1>1. WriteRegister(ic, x, low, high, keep) = CheckPending(k)
  BY DEF WriteRegister
<1>2. k.pending = ic.pending \ (pair \ keep) /\ k \in Controller
  <2>1. p \in [Sources -> 0..7]
    BY DEF Controller
  <2> HIDE DEF p
  <2> QED BY <2>1 DEF Controller
<1> HIDE DEF k, pair
<1>3. CASE y \in k.pending
  BY <1>1, <1>2, <1>3, RecheckServes
<1>4. CASE y \notin k.pending
  BY <1>2, <1>4 DEF pair
<1> QED BY <1>3, <1>4

(* A latch is cleared by the handler it starts or by a write to its own     *)
(* register (or a reset), for any sources, levels and channels: no service *)
(* of one request, and no DMA transfer, costs another (int_check_pending,   *)
(* int_write8).                                                            *)
THEOREM LatchesAreServed == Spec => LatchLeavesOnlyByService
<1> DEFINE Leaves(x) ==
             \/ Running(x)
             \/ Reset
             \/ \E y \in {x, Sibling(x)} \cap Sources, level \in Levels : IntLvSet(y, level)
             \/ \E low, high \in Levels, keep \in SUBSET {Sibling(x)} : WritePriority(x, low, high, keep)
<1>1. ASSUME Inv, Next, NEW x \in ic.pending \ ic'.pending
      PROVE  Leaves(x)
  <2>0. Good(ic) /\ Sound(ic) /\ ic \in Controller /\ Levels \subseteq 0..7 /\ Masks \subseteq 0..7
    BY <1>1, BoundsAssumption DEF Inv, Good, Sound
  <2>1. x \in Srcs(ic') => Leaves(x)
    BY DEF Srcs, Running
  <2>2. Later(ic, ic') => Leaves(x)
    BY <2>1 DEF Later
  <2> HIDE DEF Leaves
  <2>3. ASSUME NEW R \in SUBSET (Sources \cap {5, 7, 8, 9, 10}), UpdateTimers(R) PROVE Leaves(x)
    BY <2>0, <2>2, <2>3, DevicesLater DEF UpdateTimers
  <2>4. ASSUME NEW y \in Sources, ExternalRequest(y) PROVE Leaves(x)
    BY <2>0, <2>2, <2>4, TestIntHDMALater DEF ExternalRequest
  <2>5. ASSUME NEW y \in SwiLatches, SoftwareInterrupt(y) PROVE Leaves(x)
    BY <2>0, <2>2, <2>5, SetInterruptLater DEF SoftwareInterrupt
  <2>6. ASSUME NEW n \in Masks, SetMask(n) PROVE Leaves(x)
    <3> DEFINE k == [ic EXCEPT !.iff = n]
    <3>1. k \in Controller /\ k.pending = ic.pending /\ ic' = CheckPending(k)
      BY <2>0, <2>6 DEF Controller, SetMask
    <3> HIDE DEF k
    <3> QED BY <2>1, <3>1, RecheckServes
  <2>7. CASE ChangeBank
    BY <2>0, <2>2, <2>7, CheckPendingLater DEF ChangeBank
  <2>8. CASE ReturnFromInterrupt
    <3> DEFINE n == Len(ic.frames)
               k == [ic EXCEPT !.iff = ic.frames[n].iff, !.frames = SubSeq(ic.frames, 1, n - 1)]
    <3>1. ic.frames \in Seq(Frame) /\ ic.frames # <<>>
      BY <2>0, <2>8 DEF Controller, ReturnFromInterrupt
    <3>2. ic.frames[n] \in Frame /\ SubSeq(ic.frames, 1, n - 1) \in Seq(Frame)
      BY <3>1
    <3>3. k \in Controller /\ k.pending = ic.pending
      BY <2>0, <3>2 DEF Controller, Frame
    <3>4. ic' = CheckPending(k)
      BY <2>8 DEF ReturnFromInterrupt
    <3> HIDE DEF k
    <3> QED BY <2>1, <3>3, <3>4, RecheckServes
  <2>9. ASSUME NEW y \in Sources, NEW low \in Levels, NEW high \in Levels, NEW keep \in SUBSET {y, Sibling(y)},
               WritePriority(y, low, high, keep)
        PROVE  Leaves(x)
    <3>1. ic' = WriteRegister(ic, y, low, high, keep)
      BY <2>9 DEF WritePriority
    <3>2. x \in Srcs(ic') \/ x \in {y, Sibling(y)} \ keep
      BY <2>0, <3>1, WriteRegisterServes
    <3>3. ASSUME x \in {y, Sibling(y)} \ keep PROVE Leaves(x)
      <4>1. Sibling(y) \in Sources /\ Sibling(Sibling(y)) = y
        BY PairIs
      <4>2. {x, Sibling(x)} = {y, Sibling(y)} /\ keep \in SUBSET {Sibling(x)}
        BY <3>3, <4>1
      <4>3. WritePriority(x, low, high, keep)
        BY <2>9, <4>2 DEF WritePriority, WriteRegister
      <4> QED BY <4>2, <4>3 DEF Leaves
    <3> QED BY <2>1, <3>2, <3>3
  <2>10. ASSUME NEW y \in Sources, NEW level \in Levels, IntLvSet(y, level)
         PROVE  Leaves(x)
    <3> DEFINE c  == [cache EXCEPT ![y] = level]
               lo == First({y, Sibling(y)})
    <3>1. ic' = WriteRegister(ic, y, c[lo], c[Sibling(lo)], {})
      BY <2>10 DEF IntLvSet
    <3>2. c[lo] \in 0..7 /\ c[Sibling(lo)] \in 0..7
      <4>1. {y, Sibling(y)} \subseteq Nat /\ {y, Sibling(y)} \subseteq Sources
        BY PairIs, SourcesAreSmall
      <4>2. lo \in {y, Sibling(y)}
        BY <4>1, FirstIsIn
      <4>3. lo \in Sources /\ Sibling(lo) \in Sources
        BY <4>1, <4>2, PairIs
      <4> HIDE DEF lo
      <4>4. c \in [Sources -> 0..7]
        BY <1>1, <2>0 DEF Inv
      <4> QED BY <4>3, <4>4
    <3> HIDE DEF c, lo
    <3>3. x \in Srcs(ic') \/ x \in {y, Sibling(y)}
      BY <2>0, <3>1, <3>2, WriteRegisterServes
    <3>4. ASSUME x \in {y, Sibling(y)} PROVE Leaves(x)
      <4>1. y \in {x, Sibling(x)} \cap Sources
        BY <3>4, PairIs
      <4> QED BY <2>10, <4>1 DEF Leaves
    <3> QED BY <2>1, <3>3, <3>4
  <2>11. ASSUME NEW ch \in Channels, NEW v \in Sources \cup {NoVector}, WriteVector(ch, v) PROVE Leaves(x)
    BY <2>0, <2>11 DEF WriteVector, Controller
  <2>12. ASSUME NEW ch \in Channels, NEW n \in 0..MaxCount, LoadCount(ch, n) PROVE Leaves(x)
    BY <2>0, <2>12 DEF LoadCount, Controller
  <2>13. CASE Reset
    BY <2>13 DEF Leaves
  <2> QED
    BY <1>1, <2>3, <2>4, <2>5, <2>6, <2>7, <2>8, <2>9, <2>10, <2>11, <2>12, <2>13 DEF Next
<1>2. Inv /\ [Next]_vars => [\A x \in ic.pending \ ic'.pending : Leaves(x)]_vars
  <2> HIDE DEF Leaves
  <2> QED BY <1>1
<1> QED BY <1>2, Initial, Step, PTL DEF Spec, LatchLeavesOnlyByService
=============================================================================
