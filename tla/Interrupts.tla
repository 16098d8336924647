----------------------------- MODULE Interrupts -----------------------------
(***************************************************************************)
(* The interrupt controller of the Neo Geo Pocket core                     *)
(* (mednafen/ngp/interrupt.c), the micro-DMA channels it shares its        *)
(* requests with (dma.c), the mask and the exception frames of the         *)
(* TLCS-900H (TLCS900h_registers.c, TLCS900h_interpret_single.c) and the   *)
(* priority cache of the HLE BIOS (biosHLE.c).                             *)
(*                                                                         *)
(* A latch is not looked at on every instruction: int_check_pending runs   *)
(* at certain points only, serves at most one latch each time, and takes   *)
(* the first deliverable one in index order.  What that leaves waiting,    *)
(* and for how long, is what this module is about.                         *)
(***************************************************************************)
EXTENDS Integers, Sequences, FiniteSets

CONSTANTS
  Sources,        \* maskable interrupts, by their index in ipending[]
  SwiLatches,     \* latches that only SWI 3..6 set
  Channels,       \* micro-DMA channels
  Levels,         \* priority levels software writes
  Masks,          \* interrupt masks software loads into SR
  MaxCount,       \* largest transfer count software loads
  MaxFrames,      \* software stops nesting handlers at this depth
  HandlersMayEI,  \* TRUE if handlers may lower the mask themselves
  DirectWrites    \* TRUE if software also writes 0x71..0x77 itself

(* The two interrupts that share a priority register. *)
Sibling(x) == IF x % 2 = 1 THEN x + 1 ELSE x - 1

ASSUME SourcesAssumption ==
  /\ Sources \subseteq 5..12
  /\ \A x \in Sources : Sibling(x) \in Sources
  /\ SwiLatches \subseteq 0..3
ASSUME BoundsAssumption ==
  /\ Channels \subseteq 0..3
  /\ Levels \subseteq 0..7
  /\ Masks \subseteq 0..7
  /\ MaxCount \in Nat \ {0}
  /\ MaxFrames \in Nat
  /\ HandlersMayEI \in BOOLEAN
  /\ DirectWrites \in BOOLEAN

VARIABLES
  ic,     \* controller, DMA channels and CPU mask, see Controller
  cache   \* CacheIntPrio: the levels the BIOS believes are set

vars == <<ic, cache>>

NoVector == 0                \* a start vector that matches no request
EndOf(ch) == 14 + ch         \* interrupt index of "channel ch is done"
Handlers == Sources \cup {EndOf(ch) : ch \in Channels}

(* An exception frame: what was entered, at which level, and the mask that *)
(* was pushed with SR and comes back with RETI.                            *)
Frame == [src : Handlers, level : 0..7, iff : 0..7]

Controller ==
  [pending : SUBSET (Sources \cup SwiLatches),
   prio    : [Sources -> 0..7],
   iff     : 0..7,
   frames  : Seq(Frame),
   vec     : [Channels -> Sources \cup {NoVector}],
   count   : [Channels -> 0..MaxCount]]

TypeOK ==
  /\ ic \in Controller
  /\ cache \in [Sources -> 0..7]

-----------------------------------------------------------------------------

(* The mask as int_check_pending reads it: level 1 counts as 0. *)
StatusIFF(m) == IF m.iff = 1 THEN 0 ELSE m.iff

First(S) == CHOOSE x \in S : \A y \in S : x <= y

(* Faults: the mask stays at the level entered; it has no upper bound. *)
EnterAtLevel(m, x, level) ==
  [m EXCEPT !.frames = Append(m.frames, [src |-> x, level |-> level, iff |-> m.iff]),
            !.iff    = level]

EnterUnbounded(m, x, level) == [EnterAtLevel(m, x, level) EXCEPT !.iff = level + 1]

(* interrupt(): push PC and SR, raise the mask above the level, jump. *)
Enter(m, x, level) ==
  [m EXCEPT !.frames = Append(m.frames, [src |-> x, level |-> level, iff |-> m.iff]),
            !.iff    = IF level < 7 THEN level + 1 ELSE 7]

Deliverable(m) ==
  {x \in m.pending \cap Sources :
      StatusIFF(m) <= m.prio[x] /\ m.prio[x] \notin {0, 7}}

(* Fault: serving a latch clears its whole register. *)
CheckPendingBoth(m) ==
  IF Deliverable(m) = {} THEN m
  ELSE LET x == First(Deliverable(m))
       IN  Enter([m EXCEPT !.pending = m.pending \ {x, Sibling(x)}], x, m.prio[x])

(* int_check_pending(): the first deliverable latch, and only that one. *)
CheckPending(m) ==
  IF Deliverable(m) = {} THEN m
  ELSE LET x == First(Deliverable(m))
       IN  Enter([m EXCEPT !.pending = m.pending \ {x}], x, m.prio[x])

(* Fault: a request that cannot be taken at once is forgotten. *)
SetInterruptIfDeliverable(m, x) ==
  LET n == [m EXCEPT !.pending = m.pending \cup {x}]
  IN  IF x \in Deliverable(n) THEN CheckPending(n) ELSE m

(* set_interrupt(index, true) *)
SetInterrupt(m, x) == CheckPending([m EXCEPT !.pending = m.pending \cup {x}])

(* Fault: a channel that is done stays armed. *)
DMAUpdateArmed(m, ch) ==
  IF m.count[ch] = 0 THEN m
  ELSE LET n == [m EXCEPT !.count[ch] = m.count[ch] - 1]
       IN  IF m.count[ch] > 1 THEN n ELSE Enter(n, EndOf(ch), 7)

(* DMA_update(): nothing when the count is 0; the last transfer raises the *)
(* end interrupt whatever the mask is and clears the start vector.         *)
DMAUpdate(m, ch) ==
  IF m.count[ch] = 0 THEN m
  ELSE LET n == [m EXCEPT !.count[ch] = m.count[ch] - 1]
       IN  IF m.count[ch] > 1 THEN n
           ELSE [Enter(n, EndOf(ch), 7) EXCEPT !.vec[ch] = NoVector]

(* TestIntHDMA(): a request starts the first channel waiting for it, and   *)
(* only if there is none becomes an interrupt.                             *)
TestIntHDMA(m, x) ==
  LET waiting == {ch \in Channels : m.vec[ch] = x}
  IN  IF waiting # {} THEN DMAUpdate(m, First(waiting)) ELSE SetInterrupt(m, x)

(* The level half of int_write8() on a priority register: latches written  *)
(* back as 0 are cleared, the levels replaced, the latches looked at.      *)
WriteRegister(m, x, low, high, keep) ==
  LET pair == {x, Sibling(x)}
      lo   == First(pair)
  IN  CheckPending([m EXCEPT !.pending = m.pending \ (pair \ keep),
                             !.prio    = [m.prio EXCEPT ![lo] = low, ![Sibling(lo)] = high]])

-----------------------------------------------------------------------------

(* neopop_reset(): INT4 at 2 and INT5 at 3, everything masked. *)
ResetLevel == [x \in Sources |-> CASE x = 5 -> 2 [] x = 6 -> 3 [] OTHER -> 0]

ResetController ==
  [pending |-> {}, prio |-> ResetLevel, iff |-> 7, frames |-> <<>>,
   vec |-> [ch \in Channels |-> NoVector], count |-> [ch \in Channels |-> 0]]

Init ==
  /\ ic = ResetController
  /\ cache = ResetLevel

(* One call of updateTimers(): vertical blank first, then timers 0 to 3.   *)
TimerOrder == <<5, 7, 8, 9, 10>>

Request(m, R, i) ==
  IF TimerOrder[i] \in R THEN TestIntHDMA(m, TimerOrder[i]) ELSE m

Devices(m, R) ==
  Request(Request(Request(Request(Request(m, R, 1), R, 2), R, 3), R, 4), R, 5)

UpdateTimers(R) ==
  /\ Len(ic.frames) < MaxFrames
  /\ ic' = Devices(ic, R)
  /\ UNCHANGED cache

(* The Z80 writes its 0xC000, or a serial BIOS call finds data. *)
ExternalRequest(x) ==
  /\ x \in {6, 11, 12}
  /\ Len(ic.frames) < MaxFrames
  /\ ic' = TestIntHDMA(ic, x)
  /\ UNCHANGED cache

(* SWI 3..6 latch an index that int_check_pending never looks at. *)
SoftwareInterrupt(x) ==
  /\ ic' = SetInterrupt(ic, x)
  /\ UNCHANGED cache

(* Fault: the mask changes and nothing is looked at. *)
SetMaskUnchecked(n) ==
  /\ HandlersMayEI \/ ic.frames = <<>> \/ n >= ic.iff
  /\ Len(ic.frames) < MaxFrames
  /\ ic' = [ic EXCEPT !.iff = n]
  /\ UNCHANGED cache

(* EI n (and DI, which is EI 7), POP SR: a new mask, then the latches. *)
SetMask(n) ==
  /\ HandlersMayEI \/ ic.frames = <<>> \/ n >= ic.iff
  /\ Len(ic.frames) < MaxFrames
  /\ ic' = CheckPending([ic EXCEPT !.iff = n])
  /\ UNCHANGED cache

(* LDF, INCF, DECF: a register bank change goes through changedSP() too. *)
ChangeBank ==
  /\ ic' = CheckPending(ic)
  /\ UNCHANGED cache

ReturnFromInterrupt ==
  /\ ic.frames # <<>>
  /\ LET n == Len(ic.frames)
     IN  ic' = CheckPending([ic EXCEPT !.iff    = ic.frames[n].iff,
                                       !.frames = SubSeq(ic.frames, 1, n - 1)])
  /\ UNCHANGED cache

(* A program writes a priority register; keep is the latches whose bit it  *)
(* writes as 1.                                                            *)
WritePriority(x, low, high, keep) ==
  /\ DirectWrites
  /\ ic' = WriteRegister(ic, x, low, high, keep)
  /\ UNCHANGED cache

(* Fault: the other nibble of the register is written as 0. *)
IntLvSetNibble(x, level) ==
  /\ x \in 6..10
  /\ cache' = [cache EXCEPT ![x] = level]
  /\ ic' = IF x % 2 = 1 THEN WriteRegister(ic, x, level, 0, {})
           ELSE WriteRegister(ic, x, 0, level, {})

(* VECT_INTLVSET: one nibble of the cached register is replaced and the    *)
(* whole register written, both latch bits as 0.  Index 5 cannot be named. *)
IntLvSet(x, level) ==
  LET c  == [cache EXCEPT ![x] = level]
      lo == First({x, Sibling(x)})
  IN  /\ x \in 6..10
      /\ cache' = c
      /\ ic' = WriteRegister(ic, x, c[lo], c[Sibling(lo)], {})

(* int_write8(0x7C + ch): software arms a channel it has loaded a count    *)
(* for, or disarms it.                                                     *)
WriteVector(ch, v) ==
  /\ v # NoVector => ic.count[ch] > 0
  /\ ic' = [ic EXCEPT !.vec[ch] = v]
  /\ UNCHANGED cache

(* dmaStoreW(): software does not load 0 into a channel it has armed. *)
LoadCount(ch, n) ==
  /\ ic.vec[ch] # NoVector => n > 0
  /\ ic' = [ic EXCEPT !.count[ch] = n]
  /\ UNCHANGED cache

Reset ==
  /\ ic' = ResetController
  /\ cache' = ResetLevel

Next ==
  \/ \E R \in SUBSET (Sources \cap {5, 7, 8, 9, 10}) : UpdateTimers(R)
  \/ \E x \in Sources : ExternalRequest(x)
  \/ \E x \in SwiLatches : SoftwareInterrupt(x)
  \/ \E n \in Masks : SetMask(n)
  \/ ChangeBank
  \/ ReturnFromInterrupt
  \/ \E x \in Sources, low, high \in Levels :
        \E keep \in SUBSET {x, Sibling(x)} : WritePriority(x, low, high, keep)
  \/ \E x \in Sources, level \in Levels : IntLvSet(x, level)
  \/ \E ch \in Channels, v \in Sources \cup {NoVector} : WriteVector(ch, v)
  \/ \E ch \in Channels, n \in 0..MaxCount : LoadCount(ch, n)
  \/ Reset

Spec == Init /\ [][Next]_vars

-----------------------------------------------------------------------------

(* Main-line code never runs over an interrupt it could take: one latch is *)
(* served per check, so a deliverable one may be left behind, but only     *)
(* under a handler whose RETI looks again.                                 *)
MainlineServed == ic.frames = <<>> => Deliverable(ic) = {}

(* A handler is preempted by higher levels only, whatever levels software  *)
(* changes meanwhile, unless a handler lowers the mask itself; the end of  *)
(* a DMA transfer, which ignores the mask, is the exception.               *)
PreemptionByPriority ==
  ~HandlersMayEI =>
    \A j \in DOMAIN ic.frames : \A i \in 1..(j - 1) :
       ic.frames[j].src \in Sources => ic.frames[i].level < ic.frames[j].level

(* A channel stays armed exactly as long as it has transfers left, so no   *)
(* request is ever spent on a channel that is done.                        *)
ArmedMeansCounting ==
  \A ch \in Channels : ic.vec[ch] # NoVector => ic.count[ch] > 0

(* While programs set levels through the BIOS only, its cache is what the  *)
(* controller has: setting one level leaves the one sharing its register.  *)
CacheMirrorsPriority == ~DirectWrites => cache = ic.prio

(* Each request of a tick is latched, served or spent on a DMA transfer,   *)
(* whatever the earlier requests of that tick did to mask and channels.    *)
Running(x) == \E i \in DOMAIN ic'.frames : ic'.frames[i].src = x

NoRequestSwallowed ==
  [][\A R \in SUBSET (Sources \cap {5, 7, 8, 9, 10}) :
        UpdateTimers(R) =>
          \A x \in R : \/ x \in ic'.pending
                       \/ Running(x)
                       \/ \E ch \in Channels : ic.vec[ch] = x /\ ic'.count[ch] < ic.count[ch]]_vars

(* A latch goes away only because its handler now runs, or because software *)
(* wrote the register of that very latch (or reset the machine).           *)
LatchLeavesOnlyByService ==
  [][\A x \in ic.pending \ ic'.pending :
        \/ Running(x)
        \/ Reset
        \/ \E y \in {x, Sibling(x)} \cap Sources, level \in Levels : IntLvSet(y, level)
        \/ \E low, high \in Levels, keep \in SUBSET {Sibling(x)} :
              WritePriority(x, low, high, keep)]_vars

=============================================================================
