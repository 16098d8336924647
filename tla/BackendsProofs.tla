--------------------------- MODULE BackendsProofs ---------------------------
(***************************************************************************)
(* Proofs about the two backends of the launcher.  First AudioRing, for a   *)
(* ring of any size and any set of frames: the ring is a queue wherever its *)
(* two positions stand.  What makes this more than arithmetic is the slot  *)
(* kept free: with it the positions alone tell an empty ring from a full    *)
(* one.                                                                    *)
(*                                                                         *)
(* Then PvrPresent, for every set of pictures.  The invariant says where   *)
(* the newest frame is; its strengthening says what a frame will be        *)
(* compared with while a transfer is under way: the front buffer then      *)
(* holds the frame before the newest one.                                  *)
(***************************************************************************)
EXTENDS AudioRing, PvrPresent, SequenceTheorems, TLAPS

(* A write under way has something to do and runs on a started stream. *)
UnderWay == pc # "idle" => started /\ todo # <<>>

Inv == TypeOK /\ UnderWay

-----------------------------------------------------------------------------
(* Positions. *)

(* One turn is all that positions are ever apart. *)
LEMMA Modulo ==
  ASSUME NEW x \in 0..(2 * RING - 1)
  PROVE  x % RING = IF x < RING THEN x ELSE x - RING
<1>1. RING \in Nat \ {0}
  BY AudioAssumption
<1>2. CASE x < RING
  BY <1>1, <1>2
<1>3. CASE x >= RING
  <2>1. x = RING * 1 + (x - RING) /\ x - RING \in 0..(RING - 1)
    BY <1>1, <1>3
  <2> QED BY <1>1, <1>3, <2>1
<1> QED BY <1>1, <1>2, <1>3

(* How far a position r is behind a position w. *)
LEMMA DistanceIs ==
  ASSUME NEW r \in 0..(RING - 1), NEW w \in 0..(RING - 1)
  PROVE  /\ (w + RING - r) % RING = IF w >= r THEN w - r ELSE w + RING - r
         /\ (w + RING - r) % RING \in 0..(RING - 1)
<1>1. RING \in Nat \ {0, 1}
  BY AudioAssumption
<1> DEFINE x == w + RING - r
<1>2. x \in 0..(2 * RING - 1)
  BY <1>1
<1> HIDE DEF x
<1>3. x % RING = IF x < RING THEN x ELSE x - RING
  BY <1>2, Modulo
<1> QED BY <1>1, <1>3 DEF x

LEMMA UsedIs ==
  ASSUME TypeOK
  PROVE  /\ Used = IF write_pos >= read_pos THEN write_pos - read_pos ELSE write_pos + RING - read_pos
         /\ Used \in 0..(RING - 1)
BY DistanceIs DEF TypeOK, Used

LEMMA LeastIs ==
  ASSUME NEW a \in Int, NEW b \in Int
  PROVE  Least(a, b) \in {a, b} /\ Least(a, b) <= a /\ Least(a, b) <= b
BY DEF Least

LEMMA AdvanceIs ==
  ASSUME NEW p \in 0..(RING - 1), NEW n \in 0..(RING - 1)
  PROVE  /\ Advance(p, n) = IF p + n < RING THEN p + n ELSE p + n - RING
         /\ Advance(p, n) \in 0..(RING - 1)
<1>1. RING \in Nat \ {0, 1}
  BY AudioAssumption
<1> DEFINE x == p + n
<1>2. x \in 0..(2 * RING - 1)
  BY <1>1
<1> HIDE DEF x
<1>3. x % RING = IF x < RING THEN x ELSE x - RING
  BY <1>2, Modulo
<1> QED BY <1>1, <1>3 DEF x, Advance

(* The slot of the i-th frame behind r, and what n slots hold. *)
Slot(r, i) == IF r + i - 1 < RING THEN r + i - 1 ELSE r + i - 1 - RING

LEMMA SlotIs ==
  ASSUME NEW r \in 0..(RING - 1), NEW i \in 1..RING
  PROVE  (r + i - 1) % RING = Slot(r, i) /\ Slot(r, i) \in 0..(RING - 1)
<1>1. RING \in Nat \ {0, 1}
  BY AudioAssumption
<1> DEFINE x == r + i - 1
<1>2. x \in 0..(2 * RING - 1)
  BY <1>1
<1> HIDE DEF x
<1>3. x % RING = IF x < RING THEN x ELSE x - RING
  BY <1>2, Modulo
<1> QED BY <1>1, <1>3 DEF x, Slot

LEMMA SlotsAre ==
  ASSUME NEW g \in [0..(RING - 1) -> Frames], NEW r \in 0..(RING - 1), NEW n \in 0..(RING - 1)
  PROVE  LET s == [i \in 1..n |-> g[(r + i - 1) % RING]]
         IN  s \in Seq(Frames) /\ Len(s) = n /\ \A i \in 1..n : s[i] = g[Slot(r, i)]
<1> DEFINE s == [i \in 1..n |-> g[(r + i - 1) % RING]]
<1>1. RING \in Nat \ {0, 1} /\ n \in Nat
  BY AudioAssumption
<1>2. \A i \in 1..n : s[i] = g[Slot(r, i)] /\ s[i] \in Frames
  <2> SUFFICES ASSUME NEW i \in 1..n
               PROVE  s[i] = g[Slot(r, i)] /\ s[i] \in Frames
    OBVIOUS
  <2>1. i \in 1..RING
    BY <1>1
  <2> QED BY <2>1, SlotIs
<1>3. s \in [1..n -> Frames]
  BY <1>2
<1>4. s \in Seq(Frames)
  BY <1>1, <1>3, SeqDef
<1>5. Len(s) = n
  BY <1>1, <1>3, <1>4, LenProperties
<1> QED BY <1>2, <1>4, <1>5

LEMMA ContentsAre ==
  ASSUME TypeOK
  PROVE  /\ Contents \in Seq(Frames) /\ Len(Contents) = Used
         /\ \A i \in 1..Used : Contents[i] = ring[Slot(read_pos, i)]
<1>1. read_pos \in 0..(RING - 1) /\ Used \in 0..(RING - 1) /\ ring \in [0..(RING - 1) -> Frames]
  BY UsedIs DEF TypeOK
<1> QED BY <1>1, SlotsAre DEF Contents

LEMMA FitsIs ==
  ASSUME TypeOK
  PROVE  /\ Len(todo) \in Nat /\ Fits \in 0..Len(todo) /\ Used + Fits <= RING - 1 /\ Fits \in 0..(RING - 1)
         /\ Fits < Len(todo) => Used + Fits = RING - 1
<1>1. Len(todo) \in Nat
  BY LenProperties DEF TypeOK
<1> QED BY <1>1, UsedIs, AudioAssumption, LeastIs DEF Fits

-----------------------------------------------------------------------------
(* What a write stores comes behind what is there. *)

LEMMA QueuedTypes ==
  ASSUME TypeOK, Queued, todo # <<>>
  PROVE  /\ ring' \in [0..(RING - 1) -> Frames] /\ write_pos' \in 0..(RING - 1) /\ last' \in Frames
         /\ write_pos' = IF write_pos + Fits < RING THEN write_pos + Fits ELSE write_pos + Fits - RING
         /\ \A p \in 0..(RING - 1) :
              ring'[p] = IF (IF p >= write_pos THEN p - write_pos ELSE p + RING - write_pos) < Fits
                         THEN todo[(IF p >= write_pos THEN p - write_pos ELSE p + RING - write_pos) + 1]
                         ELSE ring[p]
<1>1. /\ RING \in Nat \ {0, 1} /\ write_pos \in 0..(RING - 1)
      /\ ring \in [0..(RING - 1) -> Frames] /\ todo \in Seq(Frames)
      /\ Len(todo) \in Nat /\ Fits \in 0..Len(todo) /\ Fits \in 0..(RING - 1)
  BY FitsIs, AudioAssumption DEF TypeOK
<1>2. \A k \in 1..Len(todo) : todo[k] \in Frames
  BY <1>1, ElementOfSeq
<1>3. /\ write_pos' = IF write_pos + Fits < RING THEN write_pos + Fits ELSE write_pos + Fits - RING
      /\ write_pos' \in 0..(RING - 1)
  BY <1>1, AdvanceIs DEF Queued
<1> DEFINE offset(p) == IF p >= write_pos THEN p - write_pos ELSE p + RING - write_pos
<1>4. ASSUME NEW p \in 0..(RING - 1)
      PROVE  ring'[p] = (IF offset(p) < Fits THEN todo[offset(p) + 1] ELSE ring[p]) /\ ring'[p] \in Frames
  <2> DEFINE b == offset(p)
  <2>1. (p + RING - write_pos) % RING = b /\ b \in 0..(RING - 1)
    BY <1>1, DistanceIs
  <2> HIDE DEF b
  <2>2. ring'[p] = IF b < Fits THEN todo[b + 1] ELSE ring[p]
    BY <2>1 DEF Queued
  <2>3. b < Fits => b + 1 \in 1..Len(todo)
    BY <1>1, <2>1
  <2>4. ring'[p] \in Frames
    BY <1>1, <1>2, <2>2, <2>3
  <2> QED BY <2>2, <2>4 DEF b
<1>5. ring' \in [0..(RING - 1) -> Frames]
  <2>1. \A p \in 0..(RING - 1) : ring'[p] \in Frames
    BY <1>4
  <2>2. ring' = [p \in 0..(RING - 1) |-> ring'[p]]
    BY DEF Queued
  <2> QED BY <2>1, <2>2
<1>6. last' \in Frames
  <2>1. Len(todo) \in Nat \ {0}
    BY <1>1, EmptySeq
  <2>2. Least(Fits + 1, Len(todo)) \in 1..Len(todo)
    BY <1>1, <2>1 DEF Least
  <2> QED BY <1>2, <2>2 DEF Queued, Remembered
<1> QED BY <1>3, <1>4, <1>5, <1>6

LEMMA QueuedAppends ==
  ASSUME TypeOK, Queued, read_pos' = read_pos, todo # <<>>
  PROVE  /\ Used' = Used + Fits /\ SubSeq(todo, 1, Fits) \in Seq(Frames) /\ Len(SubSeq(todo, 1, Fits)) = Fits
         /\ Contents' = Contents \o SubSeq(todo, 1, Fits)
<1> DEFINE tail == SubSeq(todo, 1, Fits)
<1>1. /\ RING \in Nat \ {0, 1} /\ write_pos \in 0..(RING - 1) /\ read_pos \in 0..(RING - 1) /\ Used \in 0..(RING - 1)
      /\ todo \in Seq(Frames) /\ Len(todo) \in Nat /\ Fits \in 0..Len(todo) /\ Used + Fits <= RING - 1
  BY UsedIs, FitsIs, AudioAssumption DEF TypeOK
<1>2. Used = IF write_pos >= read_pos THEN write_pos - read_pos ELSE write_pos + RING - read_pos
  BY UsedIs
<1>3. /\ write_pos' = IF write_pos + Fits < RING THEN write_pos + Fits ELSE write_pos + Fits - RING
      /\ write_pos' \in 0..(RING - 1) /\ ring' \in [0..(RING - 1) -> Frames]
  BY QueuedTypes
<1>4. Used' = IF write_pos' >= read_pos THEN write_pos' - read_pos ELSE write_pos' + RING - read_pos
  BY <1>1, <1>3, DistanceIs DEF Used
<1>5. Used' = Used + Fits
  BY <1>1, <1>2, <1>3, <1>4
<1>6. tail \in Seq(Frames) /\ Len(tail) = Fits /\ \A i \in 1..Fits : tail[i] = todo[i]
  <2>1. \A k \in 1..Fits : todo[k] \in Frames
    BY <1>1, ElementOfSeq
  <2>2. tail \in Seq(Frames) /\ Len(tail) = (IF 1 <= Fits THEN Fits - 1 + 1 ELSE 0)
        /\ \A i \in 1..(Fits - 1 + 1) : tail[i] = todo[1 + i - 1]
    BY <1>1, <2>1, SubSeqProperties
  <2> QED BY <1>1, <2>2
<1>7. /\ Contents \in Seq(Frames) /\ Len(Contents) = Used
      /\ \A i \in 1..Used : Contents[i] = ring[Slot(read_pos, i)]
  BY ContentsAre
<1>8. /\ Contents' \in Seq(Frames) /\ Len(Contents') = Used'
      /\ \A i \in 1..Used' : Contents'[i] = ring'[Slot(read_pos, i)]
  <2>1. Used' \in 0..(RING - 1)
    BY <1>1, <1>5
  <2>2. Contents' = [i \in 1..Used' |-> ring'[(read_pos + i - 1) % RING]]
    BY DEF Contents
  <2>3. \A g \in [0..(RING - 1) -> Frames], n \in 0..(RING - 1) :
          LET s == [i \in 1..n |-> g[(read_pos + i - 1) % RING]]
          IN  s \in Seq(Frames) /\ Len(s) = n /\ \A i \in 1..n : s[i] = g[Slot(read_pos, i)]
    BY <1>1, SlotsAre
  <2> QED BY <1>3, <2>1, <2>2, <2>3
<1> HIDE DEF tail
<1>9. /\ Contents \o tail \in Seq(Frames) /\ Len(Contents \o tail) = Used + Fits
      /\ \A i \in 1..(Used + Fits) :
           (Contents \o tail)[i] = IF i <= Used THEN Contents[i] ELSE tail[i - Used]
  BY <1>6, <1>7, ConcatProperties
<1>10. ASSUME NEW i \in 1..(Used + Fits)
       PROVE  Contents'[i] = (Contents \o tail)[i]
  <2> DEFINE p == Slot(read_pos, i)
             k == IF p >= write_pos THEN p - write_pos ELSE p + RING - write_pos
  <2>1. p = (IF read_pos + i - 1 < RING THEN read_pos + i - 1 ELSE read_pos + i - 1 - RING) /\ p \in 0..(RING - 1)
    BY <1>1 DEF Slot
  <2>2. k = IF p >= write_pos THEN p - write_pos ELSE p + RING - write_pos
    OBVIOUS
  <2>3. ring'[p] = IF k < Fits THEN todo[k + 1] ELSE ring[p]
    BY <2>1, QueuedTypes
  <2>4. Contents'[i] = ring'[p]
    BY <1>5, <1>8
  <2>5. i <= Used => Contents[i] = ring[p]
    BY <1>1, <1>7
  <2> HIDE DEF p, k
  <2>6. CASE i <= Used
    <3>1. ~(k < Fits)
      BY <1>1, <1>2, <2>1, <2>2, <2>6
    <3> QED BY <1>9, <2>3, <2>4, <2>5, <2>6, <3>1
  <2>7. CASE i > Used
    <3>1. k = i - Used - 1 /\ k < Fits /\ i - Used \in 1..Fits
      BY <1>1, <1>2, <2>1, <2>2, <2>7
    <3>2. ring'[p] = todo[i - Used]
      BY <1>1, <2>3, <3>1
    <3>3. (Contents \o tail)[i] = tail[i - Used]
      BY <1>1, <1>9, <2>7
    <3> QED BY <1>6, <2>4, <3>1, <3>2, <3>3
  <2>8. i <= Used \/ i > Used
    BY <1>1
  <2> QED BY <2>6, <2>7, <2>8
<1>11. Contents' = Contents \o tail
  BY <1>5, <1>8, <1>9, <1>10, SeqEqual
<1> QED BY <1>5, <1>6, <1>11 DEF tail

-----------------------------------------------------------------------------
(* What the callback takes was in front. *)

LEMMA CallbackTypes ==
  ASSUME TypeOK, NEW req \in Requests, Callback(req)
  PROVE  read_pos' \in 0..(RING - 1) /\ played' \in Seq(Frames)
<1> DEFINE n == Least(req, Used)
           all == [i \in 1..req |-> IF i <= n THEN ring[(read_pos + i - 1) % RING] ELSE last]
<1>1. /\ RING \in Nat \ {0, 1} /\ req \in Nat \ {0} /\ read_pos \in 0..(RING - 1) /\ last \in Frames
      /\ ring \in [0..(RING - 1) -> Frames] /\ Used \in 0..(RING - 1)
  BY UsedIs, AudioAssumption DEF TypeOK
<1>2. n \in 0..(RING - 1) /\ n \in 0..req /\ n <= Used
  BY <1>1 DEF Least
<1>3. read_pos' = Advance(read_pos, n) /\ played' = SubSeq(all, 1, (req \div 2) * 2)
  BY DEF Callback
<1>4. \A i \in 1..req : all[i] \in Frames
  <2> SUFFICES ASSUME NEW i \in 1..req
               PROVE  (IF i <= n THEN ring[(read_pos + i - 1) % RING] ELSE last) \in Frames
    OBVIOUS
  <2> HIDE DEF n
  <2>1. CASE i <= n
    <3>1. i \in 1..RING
      BY <1>1, <1>2, <2>1
    <3>2. (read_pos + i - 1) % RING \in 0..(RING - 1)
      BY <1>1, <3>1, SlotIs
    <3> QED BY <1>1, <2>1, <3>2
  <2>2. CASE ~(i <= n)
    BY <1>1, <2>2
  <2> QED BY <2>1, <2>2
<1> HIDE DEF n, all
<1>5. read_pos' \in 0..(RING - 1)
  BY <1>1, <1>2, <1>3, AdvanceIs
<1>6. played' \in Seq(Frames)
  <2>1. (req \div 2) * 2 \in Int /\ (req \div 2) * 2 <= req
    BY <1>1
  <2>2. \A i \in 1..((req \div 2) * 2) : all[i] \in Frames
    BY <1>1, <1>4, <2>1
  <2> QED BY <1>3, <2>1, <2>2, SubSeqProperties
<1> QED BY <1>5, <1>6

(* An even request plays the front of the queue, then one frame again; an   *)
(* odd one would take a frame that it does not hand over.                  *)
LEMMA CallbackPlays ==
  ASSUME TypeOK, NEW req \in Requests, req % 2 = 0, Callback(req)
  PROVE  \E n \in 0..(RING - 1), fill \in 0..Len(played') :
           /\ n <= Len(Contents) /\ (fill > 0 => n = Len(Contents))
           /\ played' = SubSeq(Contents, 1, n) \o Queue!Const(last, fill)
           /\ Contents' = SubSeq(Contents, n + 1, Len(Contents))
<1> DEFINE n == Least(req, Used)
           fill == req - n
           all == [i \in 1..req |-> IF i <= n THEN ring[(read_pos + i - 1) % RING] ELSE last]
           front == SubSeq(Contents, 1, n)
           rest == SubSeq(Contents, n + 1, Used)
           again == Queue!Const(last, fill)
<1>1. /\ RING \in Nat \ {0, 1} /\ req \in Nat \ {0} /\ read_pos \in 0..(RING - 1) /\ last \in Frames
      /\ ring \in [0..(RING - 1) -> Frames] /\ Used \in 0..(RING - 1) /\ write_pos \in 0..(RING - 1)
  BY UsedIs, AudioAssumption DEF TypeOK
<1>2. n \in 0..(RING - 1) /\ n \in 0..req /\ n <= Used /\ (n < req => n = Used)
  BY <1>1 DEF Least
<1>3. /\ read_pos' = Advance(read_pos, n) /\ played' = SubSeq(all, 1, (req \div 2) * 2)
      /\ ring' = ring /\ write_pos' = write_pos
  BY DEF Callback
<1>4. /\ Contents \in Seq(Frames) /\ Len(Contents) = Used
      /\ \A i \in 1..Used : Contents[i] = ring[Slot(read_pos, i)]
  BY ContentsAre
<1>5. \A i \in 1..Used : Contents[i] \in Frames
  BY <1>1, <1>4, ElementOfSeq
<1>6. \A i \in 1..req : all[i] = (IF i <= n THEN Contents[i] ELSE last) /\ all[i] \in Frames
  <2> SUFFICES ASSUME NEW i \in 1..req
               PROVE  /\ (IF i <= n THEN ring[(read_pos + i - 1) % RING] ELSE last)
                            = (IF i <= n THEN Contents[i] ELSE last)
                      /\ (IF i <= n THEN ring[(read_pos + i - 1) % RING] ELSE last) \in Frames
    OBVIOUS
  <2> HIDE DEF n
  <2>1. CASE i <= n
    <3>1. i \in 1..RING /\ i \in 1..Used
      BY <1>1, <1>2, <2>1
    <3>2. (read_pos + i - 1) % RING = Slot(read_pos, i)
      BY <1>1, <3>1, SlotIs
    <3> QED BY <1>4, <1>5, <2>1, <3>1, <3>2
  <2>2. CASE ~(i <= n)
    BY <1>1, <2>2
  <2> QED BY <2>1, <2>2
<1>7. fill \in Nat /\ fill \in 0..req /\ n + fill = req
  BY <1>1, <1>2
<1>8. again \in Seq(Frames) /\ Len(again) = fill /\ \A i \in 1..fill : again[i] = last
  <2>1. again \in [1..fill -> Frames] /\ \A i \in 1..fill : again[i] = last
    BY <1>1 DEF Queue!Const
  <2>2. again \in Seq(Frames)
    BY <1>7, <2>1, SeqDef
  <2> HIDE DEF again, fill
  <2> QED BY <1>7, <2>1, <2>2, LenProperties
<1> HIDE DEF n, fill, all, again
<1>9. front \in Seq(Frames) /\ Len(front) = n /\ \A i \in 1..n : front[i] = Contents[i]
  <2>1. \A i \in 1..n : Contents[i] \in Frames
    BY <1>1, <1>2, <1>5
  <2>2. front \in Seq(Frames) /\ Len(front) = (IF 1 <= n THEN n - 1 + 1 ELSE 0)
        /\ \A i \in 1..(n - 1 + 1) : front[i] = Contents[1 + i - 1]
    BY <1>2, <2>1, SubSeqProperties
  <2> QED BY <1>2, <2>2
<1>10. rest \in Seq(Frames) /\ Len(rest) = Used - n /\ \A i \in 1..(Used - n) : rest[i] = Contents[n + i]
  <2>1. \A i \in (n + 1)..Used : Contents[i] \in Frames
    BY <1>1, <1>2, <1>5
  <2>2. rest \in Seq(Frames) /\ Len(rest) = (IF n + 1 <= Used THEN Used - (n + 1) + 1 ELSE 0)
        /\ \A i \in 1..(Used - (n + 1) + 1) : rest[i] = Contents[n + 1 + i - 1]
    BY <1>1, <1>2, <2>1, SubSeqProperties
  <2> QED BY <1>1, <1>2, <2>2
<1> HIDE DEF front, rest
<1>11. played' = front \o again
  <2>1. (req \div 2) * 2 = req
    BY <1>1
  <2>2. played' \in Seq(Frames) /\ Len(played') = req /\ \A i \in 1..req : played'[i] = all[i]
    <3>1. played' = SubSeq(all, 1, req)
      BY <1>3, <2>1
    <3>2. \A i \in 1..req : all[i] \in Frames
      BY <1>6
    <3>3. /\ SubSeq(all, 1, req) \in Seq(Frames)
          /\ Len(SubSeq(all, 1, req)) = (IF 1 <= req THEN req - 1 + 1 ELSE 0)
          /\ \A i \in 1..(req - 1 + 1) : SubSeq(all, 1, req)[i] = all[1 + i - 1]
      BY <1>1, <3>2, SubSeqProperties
    <3> QED BY <1>1, <3>1, <3>3
  <2>3. /\ front \o again \in Seq(Frames) /\ Len(front \o again) = req
        /\ \A i \in 1..req : (front \o again)[i] = IF i <= n THEN front[i] ELSE again[i - n]
    <3>1. /\ front \o again \in Seq(Frames) /\ Len(front \o again) = Len(front) + Len(again)
          /\ \A i \in 1..(Len(front) + Len(again)) :
               (front \o again)[i] = IF i <= Len(front) THEN front[i] ELSE again[i - Len(front)]
      BY <1>8, <1>9, ConcatProperties
    <3>2. Len(front) = n /\ Len(again) = fill /\ Len(front) + Len(again) = req
      BY <1>7, <1>8, <1>9
    <3> QED BY <3>1, <3>2
  <2>4. \A i \in 1..req : played'[i] = (front \o again)[i]
    <3> SUFFICES ASSUME NEW i \in 1..req
                 PROVE  played'[i] = (front \o again)[i]
      OBVIOUS
    <3>1. i <= n => i \in 1..n
      BY <1>1, <1>2
    <3>2. ~(i <= n) => i - n \in 1..fill
      BY <1>1, <1>2, <1>7
    <3> QED BY <1>6, <1>8, <1>9, <2>2, <2>3, <3>1, <3>2
  <2> QED BY <2>2, <2>3, <2>4, SeqEqual
<1>12. Used' = Used - n
  <2>1. /\ read_pos' = (IF read_pos + n < RING THEN read_pos + n ELSE read_pos + n - RING)
        /\ read_pos' \in 0..(RING - 1)
    BY <1>1, <1>2, <1>3, AdvanceIs
  <2>2. Used' = IF write_pos >= read_pos' THEN write_pos - read_pos' ELSE write_pos + RING - read_pos'
    BY <1>1, <1>3, <2>1, DistanceIs DEF Used
  <2>3. Used = IF write_pos >= read_pos THEN write_pos - read_pos ELSE write_pos + RING - read_pos
    BY UsedIs
  <2> QED BY <1>1, <1>2, <2>1, <2>2, <2>3
<1>13. Contents' = rest
  <2>1. read_pos' \in 0..(RING - 1)
        /\ read_pos' = (IF read_pos + n < RING THEN read_pos + n ELSE read_pos + n - RING)
    BY <1>1, <1>2, <1>3, AdvanceIs
  <2>2. Contents' = [i \in 1..(Used - n) |-> ring[(read_pos' + i - 1) % RING]] /\ Used - n \in 0..(RING - 1)
    BY <1>1, <1>2, <1>3, <1>12 DEF Contents
  <2>3. /\ Contents' \in Seq(Frames) /\ Len(Contents') = Used - n
        /\ \A i \in 1..(Used - n) : Contents'[i] = ring[Slot(read_pos', i)]
    <3>1. \A r \in 0..(RING - 1), k \in 0..(RING - 1) :
            LET s == [i \in 1..k |-> ring[(r + i - 1) % RING]]
            IN  s \in Seq(Frames) /\ Len(s) = k /\ \A i \in 1..k : s[i] = ring[Slot(r, i)]
      BY <1>1, SlotsAre
    <3> QED BY <2>1, <2>2, <3>1
  <2>4. \A i \in 1..(Used - n) : Contents'[i] = rest[i]
    <3> SUFFICES ASSUME NEW i \in 1..(Used - n)
                 PROVE  Contents'[i] = rest[i]
      OBVIOUS
    <3>1. n + i \in 1..Used
      BY <1>1, <1>2
    <3>2. Slot(read_pos', i) = Slot(read_pos, n + i)
      BY <1>1, <1>2, <2>1 DEF Slot
    <3> QED BY <1>4, <1>10, <2>3, <3>1, <3>2
  <2> QED BY <1>10, <2>3, <2>4, SeqEqual
<1>14. Len(played') = req
  BY <1>7, <1>8, <1>9, <1>11, ConcatProperties
<1>15. fill > 0 => n = Used
  BY <1>1, <1>2, <1>7
<1> QED BY <1>2, <1>4, <1>7, <1>11, <1>13, <1>14, <1>15 DEF front, rest, again

-----------------------------------------------------------------------------
(* The invariant. *)

LEMMA InvInit == Init => Inv
<1> SUFFICES ASSUME Init PROVE Inv
  OBVIOUS
<1>1. RING \in Nat \ {0, 1} /\ Silence \in Frames /\ MaxWait \in Nat
  BY AudioAssumption
<1>2. <<>> \in Seq(Frames)
  BY EmptySeq
<1> QED BY <1>1, <1>2 DEF Init, Inv, TypeOK, UnderWay

LEMMA WriteQueueKeepsInv ==
  ASSUME Inv, WriteQueue
  PROVE  Inv'
<1>1. /\ TypeOK /\ Queued /\ todo # <<>> /\ started /\ read_pos' = read_pos
      /\ UNCHANGED <<read_pos, started, enabled, played, nonblock>>
  BY DEF Inv, UnderWay, WriteQueue
<1>2. ring' \in [0..(RING - 1) -> Frames] /\ write_pos' \in 0..(RING - 1) /\ last' \in Frames
  BY <1>1, QueuedTypes
<1>3. CASE pc' = "idle" /\ todo' = <<>> /\ round' = 0
  <2>1. <<>> \in Seq(Frames) /\ MaxWait \in Nat
    BY EmptySeq, AudioAssumption
  <2> QED BY <1>1, <1>2, <1>3, <2>1 DEF Inv, TypeOK, UnderWay
<1>4. CASE /\ ~(Fits = Len(todo)) /\ pc' = "poll" /\ round' = Least(round + 1, MaxWait)
           /\ todo' = SubSeq(todo, Fits + 1, Len(todo))
  <2>1. todo \in Seq(Frames) /\ Len(todo) \in Nat /\ Fits \in 0..Len(todo) /\ round \in 0..MaxWait /\ MaxWait \in Nat
    BY <1>1, FitsIs, AudioAssumption DEF TypeOK
  <2>2. round' \in 0..MaxWait
    BY <1>4, <2>1 DEF Least
  <2>3. todo' \in Seq(Frames) /\ todo' # <<>>
    <3>1. \A i \in (Fits + 1)..Len(todo) : todo[i] \in Frames
      BY <2>1, ElementOfSeq
    <3>2. todo' \in Seq(Frames) /\ Len(todo') = (IF Fits + 1 <= Len(todo) THEN Len(todo) - (Fits + 1) + 1 ELSE 0)
      BY <1>4, <2>1, <3>1, SubSeqProperties
    <3>3. Len(todo') # 0
      BY <1>4, <2>1, <3>2
    <3> QED BY <3>2, <3>3, EmptySeq
  <2> QED BY <1>1, <1>2, <1>4, <2>2, <2>3 DEF Inv, TypeOK, UnderWay
<1> QED BY <1>3, <1>4 DEF WriteQueue

LEMMA InvStep == Inv /\ [Next]_vars => Inv'
<1> SUFFICES ASSUME Inv, [Next]_vars PROVE Inv'
  OBVIOUS
<1>1. TypeOK /\ RING \in Nat \ {0, 1} /\ MaxWait \in Nat
  BY AudioAssumption DEF Inv
<1>2. CASE Poll
  <2>1. PICK req \in Requests : Callback(req)
    BY <1>2 DEF Poll
  <2>2. read_pos' \in 0..(RING - 1) /\ played' \in Seq(Frames)
    BY <1>1, <2>1, CallbackTypes
  <2>3. UNCHANGED <<ring, write_pos, last, started, enabled, pc, todo, nonblock, round>>
    BY <1>2, <2>1 DEF Poll, Callback, writer
  <2> QED BY <2>2, <2>3 DEF Inv, TypeOK, UnderWay
<1>3. ASSUME NEW k \in 1..MaxWrite, NEW data \in [1..k -> Frames], NEW nb \in BOOLEAN, StartWrite(data, nb)
      PROVE  Inv'
  <2>1. data \in Seq(Frames) /\ data # <<>>
    <3>1. k \in Nat \ {0}
      BY AudioAssumption
    <3>2. data \in Seq(Frames)
      BY <3>1, SeqDef
    <3>3. Len(data) = k
      BY <3>1, <3>2, LenProperties
    <3> QED BY <3>1, <3>2, <3>3, EmptySeq
  <2>2. 0 \in 0..MaxWait
    BY <1>1
  <2> QED BY <1>3, <2>1, <2>2 DEF StartWrite, Inv, TypeOK, UnderWay
<1>4. CASE WritePoll
  <2>1. pc = "poll" /\ pc' = "queue" /\ UNCHANGED <<todo, nonblock, round>>
    BY <1>4 DEF WritePoll
  <2>2. /\ read_pos' \in 0..(RING - 1) /\ played' \in Seq(Frames)
        /\ UNCHANGED <<ring, write_pos, last, started, enabled>>
    <3>1. ASSUME NEW req \in Requests, Callback(req)
          PROVE  /\ read_pos' \in 0..(RING - 1) /\ played' \in Seq(Frames)
                 /\ UNCHANGED <<ring, write_pos, last, started, enabled>>
      <4>1. read_pos' \in 0..(RING - 1) /\ played' \in Seq(Frames)
        BY <1>1, <3>1, CallbackTypes
      <4> QED BY <3>1, <4>1 DEF Callback
    <3>2. CASE UNCHANGED <<ring, read_pos, write_pos, last, started, enabled, played>>
      BY <1>1, <3>2 DEF TypeOK
    <3> QED BY <1>4, <3>1, <3>2 DEF WritePoll, StreamPoll
  <2> QED BY <2>1, <2>2 DEF Inv, TypeOK, UnderWay
<1>5. CASE WriteQueue
  BY <1>5, WriteQueueKeepsInv
<1>6. CASE Pause
  <2>1. 0 \in 0..(RING - 1)
    BY <1>1
  <2> QED BY <1>6, <2>1 DEF Pause, Inv, TypeOK, UnderWay, writer
<1>7. CASE Resume
  <2>1. 0 \in 0..(RING - 1)
    BY <1>1
  <2> QED BY <1>7, <2>1 DEF Resume, Inv, TypeOK, UnderWay, writer
<1>8. ASSUME NEW on \in BOOLEAN, SetEnabled(on)
      PROVE  Inv'
  BY <1>8 DEF SetEnabled, Inv, TypeOK, UnderWay, writer
<1>9. CASE UNCHANGED vars
  BY <1>9 DEF vars, Inv, TypeOK, UnderWay
<1> QED BY <1>2, <1>3, <1>4, <1>5, <1>6, <1>7, <1>8, <1>9 DEF Next, Writing

(* The ring, its two positions and what the backend remembers keep their   *)
(* types for a ring of any size (dc_audio.c).                              *)
THEOREM TypeCorrect == Spec => []TypeOK
<1>1. Inv => TypeOK
  BY DEF Inv
<1> QED BY <1>1, InvInit, InvStep, PTL DEF Spec

-----------------------------------------------------------------------------
(* A write that keeps frames back has waited its full time and leaves the   *)
(* ring full, whatever the sound chip asks for meanwhile (dc_audio_write). *)
THEOREM FramesAreLostLate == Spec => LosesOnlyAfterWait
<1>1. Inv /\ [Next]_vars =>
        [WriteQueue /\ ~nonblock /\ Fits < Len(todo) /\ todo' = <<>> => round = MaxWait /\ Used' = RING - 1]_vars
  <2> SUFFICES ASSUME Inv, WriteQueue, ~nonblock, Fits < Len(todo), todo' = <<>>
               PROVE  round = MaxWait /\ Used' = RING - 1
    OBVIOUS
  <2>1. TypeOK /\ todo # <<>> /\ Queued /\ read_pos' = read_pos
    BY DEF Inv, UnderWay, WriteQueue
  <2>2. /\ Len(todo) \in Nat /\ Fits \in 0..Len(todo) /\ Used + Fits = RING - 1 /\ todo \in Seq(Frames)
    BY <2>1, FitsIs DEF TypeOK
  <2>3. Used' = RING - 1
    BY <2>1, <2>2, QueuedAppends
  <2>4. GivesUp
    <3>1. SUFFICES ASSUME ~GivesUp PROVE FALSE
      OBVIOUS
    <3>2. Fits # Len(todo)
      BY <2>2
    <3>3. todo' = SubSeq(todo, Fits + 1, Len(todo))
      BY <3>1, <3>2 DEF WriteQueue
    <3>4. \A i \in (Fits + 1)..Len(todo) : todo[i] \in Frames
      BY <2>2, ElementOfSeq
    <3> DEFINE left == SubSeq(todo, Fits + 1, Len(todo))
    <3>5. left \in Seq(Frames) /\ Len(left) = (IF Fits + 1 <= Len(todo) THEN Len(todo) - (Fits + 1) + 1 ELSE 0)
      BY ONLY <2>2, <3>4, SubSeqProperties
    <3> HIDE DEF left
    <3>6. Len(left) # 0
      BY <2>2, <3>2, <3>5
    <3>7. left # <<>>
      BY ONLY <3>5, <3>6, EmptySeq
    <3> QED BY <3>3, <3>7 DEF left
  <2> QED BY <2>3, <2>4 DEF GivesUp
<1> QED BY <1>1, InvInit, InvStep, PTL DEF Spec, LosesOnlyAfterWait

(* The frame an underrun would repeat is the newest of the queue, once a    *)
(* write has queued everything (dc_audio_queue, dc_audio_stream_callback). *)
THEOREM NewestIsRepeated == Spec => RepeatsNewest
<1>1. Inv /\ [Next]_vars => [WriteQueue /\ Fits = Len(todo) => last' = Contents'[Used']]_vars
  <2> SUFFICES ASSUME Inv, WriteQueue, Fits = Len(todo)
               PROVE  last' = Contents'[Used']
    OBVIOUS
  <2>1. TypeOK /\ todo # <<>> /\ Queued /\ read_pos' = read_pos /\ todo \in Seq(Frames)
    BY DEF Inv, UnderWay, WriteQueue, TypeOK
  <2>2. Len(todo) \in Nat \ {0} /\ Used \in Nat
    BY <2>1, EmptySeq, UsedIs
  <2>3. last' = todo[Len(todo)]
    BY <2>1, <2>2 DEF Queued, Remembered, Least
  <2> DEFINE tail == SubSeq(todo, 1, Fits)
  <2>4. Used' = Used + Fits /\ tail \in Seq(Frames) /\ Len(tail) = Fits /\ Contents' = Contents \o tail
    BY <2>1, QueuedAppends
  <2>5. Contents \in Seq(Frames) /\ Len(Contents) = Used
    BY <2>1, ContentsAre
  <2>6. tail[Fits] = todo[Fits]
    <3>1. \A i \in 1..Fits : todo[i] \in Frames
      BY <2>1, ElementOfSeq
    <3>2. \A i \in 1..(Fits - 1 + 1) : tail[i] = todo[1 + i - 1]
      BY <2>2, <3>1, SubSeqProperties
    <3> HIDE DEF tail
    <3>3. tail[Fits] = todo[1 + Fits - 1] /\ 1 + Fits - 1 = Fits
      BY <2>2, <3>2
    <3> QED BY <3>3
  <2> HIDE DEF tail
  <2>7. \A i \in 1..(Used + Fits) : (Contents \o tail)[i] = IF i <= Used THEN Contents[i] ELSE tail[i - Used]
    BY <2>4, <2>5, ConcatProperties
  <2>8. (Contents \o tail)[Used + Fits] = tail[Fits]
    <3>1. Used + Fits \in 1..(Used + Fits) /\ ~(Used + Fits <= Used) /\ (Used + Fits) - Used = Fits
      BY <2>2
    <3> QED BY <2>7, <3>1
  <2> QED BY <2>3, <2>4, <2>6, <2>8
<1> QED BY <1>1, InvInit, InvStep, PTL DEF Spec, RepeatsNewest

-----------------------------------------------------------------------------
(* The ring implements the queue. *)

(* Both ends of a pause throw away what is there. *)
LEMMA Emptied ==
  ASSUME RING \in Nat \ {0, 1}, read_pos' = 0, write_pos' = 0
  PROVE  Contents' = <<>>
<1>1. (0 + RING - 0) % RING = IF 0 >= 0 THEN 0 - 0 ELSE 0 + RING - 0
  BY DistanceIs
<1>2. Used' = 0
  BY <1>1 DEF Used
<1> QED BY <1>2 DEF Contents

LEMMA StartsEmpty == Init => Queue!AInit
<1> SUFFICES ASSUME Init PROVE Queue!AInit
  OBVIOUS
<1>1. RING \in Nat \ {0, 1}
  BY AudioAssumption
<1>2. (0 + RING - 0) % RING = IF 0 >= 0 THEN 0 - 0 ELSE 0 + RING - 0
  BY <1>1, DistanceIs
<1>3. Used = 0
  BY <1>2 DEF Init, Used
<1>4. Contents = <<>>
  BY <1>3 DEF Contents
<1> QED BY <1>4 DEF Init, Queue!AInit

(* A callback on a started stream is a Play of the queue. *)
LEMMA CallbackIsPlay ==
  ASSUME TypeOK, started, NEW req \in Requests, req % 2 = 0, Callback(req)
  PROVE  Queue!ANext
<1>1. PICK n \in 0..(RING - 1), fill \in 0..Len(played') :
        /\ n <= Len(Contents) /\ (fill > 0 => n = Len(Contents))
        /\ played' = SubSeq(Contents, 1, n) \o Queue!Const(last, fill)
        /\ Contents' = SubSeq(Contents, n + 1, Len(Contents))
  BY CallbackPlays
<1>2. last \in Frames /\ started' = started
  BY DEF TypeOK, Callback
<1>3. Queue!Play(n, last, fill)
  BY <1>1, <1>2 DEF Queue!Play
<1> QED BY <1>1, <1>2, <1>3 DEF Queue!ANext

(* Frames that fit are accepted; a write that stores none is no step.      *)
LEMMA WriteQueueIsAccept ==
  ASSUME Inv, WriteQueue
  PROVE  Queue!ANext \/ UNCHANGED <<Contents, played, started>>
<1> DEFINE fs == SubSeq(todo, 1, Fits)
<1>1. TypeOK /\ started /\ todo # <<>> /\ Queued /\ UNCHANGED <<read_pos, played, started>>
  BY DEF Inv, UnderWay, WriteQueue
<1>2. /\ Used' = Used + Fits /\ fs \in Seq(Frames) /\ Len(fs) = Fits /\ Contents' = Contents \o fs
      /\ Contents \in Seq(Frames) /\ Len(Contents) = Used
  BY <1>1, QueuedAppends, ContentsAre
<1>3. Fits \in 0..(RING - 1) /\ Used \in 0..(RING - 1) /\ Used + Fits <= RING - 1 /\ RING \in Nat
  BY <1>1, FitsIs, UsedIs, AudioAssumption
<1> HIDE DEF fs
<1>4. CASE Fits = 0
  <2>1. fs = <<>>
    BY <1>2, <1>4, EmptySeq
  <2>2. Contents \o <<>> = Contents
    BY <1>2, ConcatEmptySeq
  <2> QED BY <1>1, <1>2, <2>1, <2>2
<1>5. CASE Fits # 0
  <2>1. Fits \in 1..(RING - 1)
    BY <1>3, <1>5
  <2>2. fs \in [1..Fits -> Frames]
    BY <1>2, LenProperties
  <2>3. Len(Contents \o fs) = Used + Fits
    BY <1>2, ConcatProperties
  <2>4. Queue!Accept(fs)
    BY <1>1, <1>2, <1>3, <2>3 DEF Queue!Accept
  <2> QED BY <2>1, <2>2, <2>4 DEF Queue!ANext
<1> QED BY <1>4, <1>5

LEMMA EveryStep ==
  ASSUME \A req \in Requests : req % 2 = 0, Inv, [Next]_vars
  PROVE  [Queue!ANext]_<<Contents, played, started>>
<1>1. TypeOK /\ UnderWay /\ RING \in Nat \ {0, 1}
  BY AudioAssumption DEF Inv
<1>2. UNCHANGED <<ring, read_pos, write_pos, played, started>> => UNCHANGED <<Contents, played, started>>
  <2> SUFFICES ASSUME UNCHANGED <<ring, read_pos, write_pos, played, started>>
               PROVE  UNCHANGED <<Contents, played, started>>
    OBVIOUS
  <2>1. Used' = Used
    BY DEF Used
  <2> QED BY <2>1 DEF Contents
<1>3. CASE Poll
  BY <1>1, <1>3, CallbackIsPlay DEF Poll
<1>4. ASSUME NEW k \in 1..MaxWrite, NEW data \in [1..k -> Frames], NEW nb \in BOOLEAN, StartWrite(data, nb)
      PROVE  [Queue!ANext]_<<Contents, played, started>>
  BY <1>2, <1>4 DEF StartWrite
<1>5. CASE WritePoll
  <2>1. started
    BY <1>1, <1>5 DEF WritePoll, UnderWay
  <2>2. ASSUME NEW req \in Requests, Callback(req)
        PROVE  Queue!ANext
    BY <1>1, <2>1, <2>2, CallbackIsPlay
  <2> QED BY <1>2, <1>5, <2>2 DEF WritePoll, StreamPoll
<1>6. CASE WriteQueue
  BY <1>6, WriteQueueIsAccept
<1>7. CASE Pause \/ Resume
  <2>1. Contents' = <<>>
    BY <1>1, <1>7, Emptied DEF Pause, Resume
  <2>2. started' = ~started /\ played' = played
    BY <1>7 DEF Pause, Resume
  <2> QED BY <2>1, <2>2 DEF Queue!ANext, Queue!Discard
<1>8. ASSUME NEW on \in BOOLEAN, SetEnabled(on)
      PROVE  [Queue!ANext]_<<Contents, played, started>>
  BY <1>2, <1>8 DEF SetEnabled
<1>9. CASE UNCHANGED vars
  BY <1>2, <1>9 DEF vars
<1> QED BY <1>3, <1>4, <1>5, <1>6, <1>7, <1>8, <1>9 DEF Next, Writing

(* The ring plays what it was given, in order and once each, for a ring of  *)
(* any size and requests of any even number of frames, which is how         *)
(* KallistiOS asks (dc_audio_stream_callback rounds its answer to them).   *)
THEOREM RingIsAQueue ==
  ASSUME \A req \in Requests : req % 2 = 0
  PROVE  Spec => PlaysInOrder
<1>1. Inv /\ [Next]_vars => [Queue!ANext]_<<Contents, played, started>>
  BY EveryStep
<1> QED BY <1>1, StartsEmpty, InvInit, InvStep, PTL DEF Spec, PlaysInOrder, Queue!ASpec

-----------------------------------------------------------------------------
(* The pictures.                                                           *)

(* Nothing was sent since the buffers were cleared. *)
Fresh == ~pvr_has_frame => ~pvr_dma_inflight /\ stage # "scene"
                           /\ pvr_staging[pvr_front_idx] = (IF stage = "idle" THEN presented ELSE before)

(* The channel only works on a transfer the program knows of. *)
Known == busy => pvr_dma_inflight

(* Outside an upload the newest frame is in the buffer it was sent from,   *)
(* and nothing else is; if it is not in front yet, the one before is.      *)
Sent ==
  stage # "upload" /\ pvr_has_frame /\ pvr_dma_inflight =>
    /\ pvr_staging[pvr_dma_idx] = presented
    /\ busy => sent = {presented}
    /\ ~busy => pvr_texture[pvr_dma_idx] = presented
    /\ pvr_dma_idx # pvr_front_idx => pvr_staging[pvr_front_idx] = before

Settled ==
  stage # "upload" /\ pvr_has_frame /\ ~pvr_dma_inflight =>
    pvr_staging[pvr_front_idx] = presented /\ pvr_texture[pvr_front_idx] = presented

(* About to be sent: from the other buffer, while the front one holds the  *)
(* frame before, unless the wait is going to change the front.             *)
Waiting ==
  stage = "upload" =>
    /\ back = 1 - pvr_front_idx /\ pvr_staging[back] = presented
    /\ (pvr_dma_inflight /\ pvr_dma_idx = back) \/ pvr_staging[pvr_front_idx] = before

PvrInv == PvrTypeOK /\ Fresh /\ Known /\ Sent /\ Settled /\ Waiting

-----------------------------------------------------------------------------

LEMMA ReceivedAlone ==
  ASSUME NEW f, NEW s, s = {f}
  PROVE  Received(s) = f
<1>1. (CHOOSE g \in s : TRUE) \in s
  OBVIOUS
<1> QED BY <1>1 DEF Received

LEMMA ReceivedType ==
  ASSUME NEW s, s \subseteq Pictures
  PROVE  Received(s) \in Pictures \cup {Torn}
<1>1. CASE \E f \in s : s = {f}
  <2> PICK f \in s : s = {f}
    BY <1>1
  <2> QED BY ReceivedAlone
<1>2. CASE ~(\E f \in s : s = {f})
  BY <1>2 DEF Received
<1> QED BY <1>1, <1>2

LEMMA BothType ==
  /\ Both(Blank) \in [0..1 -> Pictures]
  /\ Both(Torn) \in [0..1 -> Pictures \cup {Torn}]
BY PvrAssumption DEF Both

(* PvrTypeOK holds in every reachable state, whatever pictures come. *)
LEMMA TypeStep == PvrTypeOK /\ [PvrNext]_pvrVars => PvrTypeOK'
<1> SUFFICES ASSUME PvrTypeOK, [PvrNext]_pvrVars PROVE PvrTypeOK'
  OBVIOUS
<1>1. ASSUME NEW f \in Pictures, Present(f) PROVE PvrTypeOK'
  <2>1. back' \in 0..1
    BY <1>1 DEF Present, Back, PvrTypeOK
  <2> QED BY <1>1, <2>1 DEF Present, PvrTypeOK
<1>2. CASE PresentDup
  BY <1>2 DEF PresentDup, PvrTypeOK, dma
<1>3. CASE Upload
  BY <1>3 DEF Upload, FrontAfterWait, PvrTypeOK
<1>4. CASE Scene
  BY <1>4 DEF Scene, Notices, PvrTypeOK
<1>5. CASE TransferEnds
  <2>1. Received(sent) \in Pictures \cup {Torn}
    BY ReceivedType DEF PvrTypeOK
  <2> QED BY <1>5, <2>1 DEF TransferEnds, PvrTypeOK
<1>6. CASE Restart
  <2>1. /\ stage' \in {"idle", "upload", "scene"}
        /\ back' \in 0..1 /\ pvr_front_idx' \in 0..1 /\ pvr_dma_idx' \in 0..1
    BY <1>6 DEF Restart, PvrTypeOK
  <2>2. pvr_has_frame' \in BOOLEAN /\ pvr_dma_inflight' \in BOOLEAN /\ busy' \in BOOLEAN
    BY <1>6, Zenon DEF Restart, PvrTypeOK
  <2>3. sent' \subseteq Pictures /\ presented' \in Pictures /\ before' \in Pictures
    BY <1>6, PvrAssumption DEF Restart, PvrTypeOK
  <2>4. pvr_staging' \in [0..1 -> Pictures] /\ pvr_texture' \in [0..1 -> Pictures \cup {Torn}]
    BY <1>6, BothType DEF Restart
  <2> QED BY <2>1, <2>2, <2>3, <2>4 DEF PvrTypeOK
<1>7. CASE UNCHANGED pvrVars
  BY <1>7 DEF pvrVars, PvrTypeOK
<1> QED BY <1>1, <1>2, <1>3, <1>4, <1>5, <1>6, <1>7 DEF PvrNext

LEMMA TypeInit == PvrInit => PvrTypeOK
<1> SUFFICES ASSUME PvrInit PROVE PvrTypeOK
  OBVIOUS
<1>1. Both(Blank) \in [0..1 -> Pictures] /\ Both(Torn) \in [0..1 -> Pictures \cup {Torn}]
  BY BothType
<1>2. /\ stage \in {"idle", "upload", "scene"}
      /\ back \in 0..1 /\ pvr_front_idx \in 0..1 /\ pvr_dma_idx \in 0..1
  BY DEF PvrInit
<1>3. pvr_has_frame \in BOOLEAN /\ pvr_dma_inflight \in BOOLEAN /\ busy \in BOOLEAN
  BY Zenon DEF PvrInit
<1>4. sent \subseteq Pictures /\ presented \in Pictures /\ before \in Pictures
  BY PvrAssumption DEF PvrInit
<1>5. pvr_staging \in [0..1 -> Pictures] /\ pvr_texture \in [0..1 -> Pictures \cup {Torn}]
  BY <1>1 DEF PvrInit
<1> QED BY <1>2, <1>3, <1>4, <1>5 DEF PvrTypeOK

(* PvrSpec => []PvrTypeOK: the state of dc_pvr.c keeps its types. *)
THEOREM PicturesTypeCorrect == PvrSpec => []PvrTypeOK
BY TypeInit, TypeStep, PTL DEF PvrSpec

-----------------------------------------------------------------------------

LEMMA PvrInvInit == PvrInit => PvrInv
BY TypeInit DEF PvrInit, Both, PvrInv, Fresh, Known, Sent, Settled, Waiting

(* A frame that is skipped is the newest one again; one that is not will   *)
(* be sent from the buffer that does not hold the frame before it.         *)
LEMMA PresentKeeps ==
  ASSUME PvrInv, ~Reverts, NEW f \in Pictures, Present(f)
  PROVE  (Fresh /\ Known /\ Sent /\ Settled /\ Waiting)'
<1> DEFINE F == pvr_front_idx
           B == 1 - pvr_front_idx
<1>1. /\ F \in 0..1 /\ B \in 0..1 /\ B # F /\ back' = B
      /\ pvr_staging' = [pvr_staging EXCEPT ![B] = f]
      /\ pvr_staging'[B] = f /\ pvr_staging'[F] = pvr_staging[F]
      /\ pvr_dma_idx \in 0..1 /\ (pvr_dma_idx = B \/ pvr_dma_idx = F)
  BY DEF PvrInv, PvrTypeOK, Present, Back
<1>2. /\ stage = "idle" /\ (f = presented \/ f # before)
      /\ presented' = f /\ before' = presented
      /\ pvr_texture' = pvr_texture /\ pvr_front_idx' = F
      /\ pvr_has_frame' = pvr_has_frame
      /\ pvr_dma_inflight' = pvr_dma_inflight /\ pvr_dma_idx' = pvr_dma_idx /\ busy' = busy
  BY DEF Present
<1>3. /\ pvr_staging[F] = presented \/ (pvr_has_frame /\ pvr_dma_inflight /\ pvr_dma_idx = B)
      /\ pvr_dma_inflight /\ pvr_dma_idx = B => pvr_staging[F] = before
      /\ ~pvr_has_frame => ~pvr_dma_inflight
  BY <1>1, <1>2 DEF PvrInv, Fresh, Sent, Settled
<1>4. CASE Skips(f)
  <2>1. stage' = "scene" /\ pvr_has_frame /\ f = pvr_staging[F]
    BY <1>4 DEF Present, Skips
  <2>2. f = presented /\ presented' = presented
    BY <1>2, <1>3, <2>1
  <2>3. (Fresh /\ Known /\ Waiting)'
    BY <1>2, <2>1 DEF PvrInv, Known, Fresh, Waiting
  <2>4. CASE pvr_dma_inflight
    <3>1. /\ pvr_staging[pvr_dma_idx] = presented
          /\ busy => sent = {presented}
          /\ ~busy => pvr_texture[pvr_dma_idx] = presented
      BY <1>2, <2>1, <2>4 DEF PvrInv, Sent
    <3>2. pvr_staging'[pvr_dma_idx] = f
      BY <1>1, <2>2, <3>1
    <3>3. busy => sent' = {f}
      BY <2>2, <3>1 DEF Present
    <3>4. pvr_staging'[F] = before'
      BY <1>1, <1>2, <2>1, <2>2
    <3> QED BY <1>2, <2>2, <2>3, <2>4, <3>1, <3>2, <3>3, <3>4 DEF Sent, Settled
  <2>5. CASE ~pvr_dma_inflight
    <3>1. pvr_texture[F] = presented
      BY <1>2, <2>1, <2>5 DEF PvrInv, Settled
    <3> QED BY <1>1, <1>2, <2>1, <2>2, <2>3, <2>5, <3>1 DEF Sent, Settled
  <2> QED BY <2>4, <2>5
<1>5. CASE ~Skips(f)
  <2>1. stage' = "upload"
    BY <1>5 DEF Present
  <2>2. Waiting'
    BY <1>1, <1>2, <1>3, <2>1 DEF Waiting
  <2>3. Fresh'
    <3>1. ~pvr_has_frame => pvr_staging'[F] = before'
      BY <1>1, <1>2, <1>3
    <3> QED BY <1>2, <1>3, <2>1, <3>1 DEF Fresh
  <2> QED BY <1>2, <2>1, <2>2, <2>3 DEF PvrInv, Known, Sent, Settled
<1> QED BY <1>4, <1>5

(* The wait brings the earlier transfer to the front, so the buffer that   *)
(* is sent now is not in front, or is sent again from there.               *)
LEMMA UploadKeeps ==
  ASSUME PvrInv, Upload
  PROVE  (Fresh /\ Known /\ Sent /\ Settled /\ Waiting)'
<1>1. /\ back \in 0..1 /\ pvr_front_idx \in 0..1 /\ stage = "upload"
      /\ pvr_staging[back] = presented /\ back = 1 - pvr_front_idx
      /\ (pvr_dma_inflight /\ pvr_dma_idx = back) \/ pvr_staging[pvr_front_idx] = before
      /\ pvr_dma_idx \in 0..1
  BY DEF PvrInv, PvrTypeOK, Waiting, Upload
<1>2. /\ stage' = "scene" /\ pvr_has_frame' /\ pvr_dma_inflight' /\ busy'
      /\ pvr_dma_idx' = back /\ sent' = {presented} /\ pvr_front_idx' = FrontAfterWait
      /\ pvr_staging' = pvr_staging /\ presented' = presented /\ before' = before
  BY <1>1 DEF Upload
<1>3. back # FrontAfterWait => pvr_staging[FrontAfterWait] = before
  BY <1>1 DEF FrontAfterWait
<1> QED BY <1>1, <1>2, <1>3 DEF Fresh, Known, Sent, Settled, Waiting

LEMMA SceneKeeps ==
  ASSUME PvrInv, Scene
  PROVE  (Fresh /\ Known /\ Sent /\ Settled /\ Waiting)'
<1>1. /\ stage = "scene" /\ stage' = "idle" /\ pvr_has_frame
      /\ pvr_staging' = pvr_staging /\ pvr_texture' = pvr_texture
      /\ pvr_has_frame' = pvr_has_frame /\ pvr_dma_idx' = pvr_dma_idx
      /\ busy' = busy /\ sent' = sent /\ presented' = presented /\ before' = before
  BY DEF PvrInv, Fresh, Scene
<1>2. CASE pvr_dma_inflight /\ ~busy
  <2>1. pvr_front_idx' = pvr_dma_idx /\ ~pvr_dma_inflight'
    BY <1>2 DEF Scene, Notices
  <2> QED BY <1>1, <1>2, <2>1 DEF PvrInv, Fresh, Known, Sent, Settled, Waiting
<1>3. CASE ~(pvr_dma_inflight /\ ~busy)
  <2>1. pvr_front_idx' = pvr_front_idx /\ pvr_dma_inflight' = pvr_dma_inflight
    BY <1>3 DEF Scene, Notices
  <2> QED BY <1>1, <2>1 DEF PvrInv, Fresh, Known, Sent, Settled, Waiting
<1> QED BY <1>2, <1>3

(* Outside an upload a transfer delivers the newest frame. *)
LEMMA TransferKeeps ==
  ASSUME PvrInv, TransferEnds
  PROVE  (Fresh /\ Known /\ Sent /\ Settled /\ Waiting)'
<1>1. /\ busy /\ ~busy' /\ pvr_dma_inflight
      /\ pvr_texture' = [pvr_texture EXCEPT ![pvr_dma_idx] = Received(sent)]
      /\ stage' = stage /\ back' = back /\ pvr_staging' = pvr_staging
      /\ pvr_front_idx' = pvr_front_idx /\ pvr_has_frame' = pvr_has_frame
      /\ pvr_dma_inflight' = pvr_dma_inflight /\ pvr_dma_idx' = pvr_dma_idx
      /\ presented' = presented /\ before' = before
  BY DEF PvrInv, Known, TransferEnds
<1>2. pvr_texture'[pvr_dma_idx] = Received(sent)
  BY <1>1 DEF PvrInv, PvrTypeOK
<1>3. stage # "upload" /\ pvr_has_frame => sent = {presented}
  BY <1>1 DEF PvrInv, Sent
<1>4. sent = {presented} => Received(sent) = presented
  BY ReceivedAlone
<1>5. Sent'
  BY <1>1, <1>2, <1>3, <1>4 DEF PvrInv, Sent
<1> QED BY <1>1, <1>5 DEF PvrInv, Fresh, Known, Settled, Waiting

LEMMA RestartKeeps ==
  ASSUME PvrInv, Restart
  PROVE  (Fresh /\ Known /\ Sent /\ Settled /\ Waiting)'
<1>1. /\ stage' = "idle" /\ ~pvr_has_frame' /\ ~pvr_dma_inflight' /\ ~busy'
      /\ pvr_front_idx' = 0 /\ pvr_staging' = Both(Blank) /\ presented' = Blank
  BY DEF Restart, Waited
<1>2. pvr_staging'[pvr_front_idx'] = presented'
  BY <1>1 DEF Both
<1> QED BY <1>1, <1>2 DEF Fresh, Known, Sent, Settled, Waiting

LEMMA Step == PvrInv /\ ~Reverts /\ [PvrNext]_pvrVars => PvrInv'
<1> SUFFICES ASSUME PvrInv, ~Reverts, [PvrNext]_pvrVars PROVE PvrInv'
  OBVIOUS
<1>1. PvrTypeOK'
  BY TypeStep DEF PvrInv
<1> SUFFICES (Fresh /\ Known /\ Sent /\ Settled /\ Waiting)'
  BY <1>1 DEF PvrInv
<1>2. CASE \E f \in Pictures : Present(f)
  BY <1>2, PresentKeeps
<1>3. CASE PresentDup
  <2>1. /\ stage = "idle" /\ pvr_has_frame /\ stage' = "scene"
        /\ UNCHANGED <<back, pvr_staging, pvr_texture, pvr_front_idx, pvr_has_frame>>
        /\ UNCHANGED <<pvr_dma_inflight, pvr_dma_idx, busy, sent, presented, before>>
    BY <1>3 DEF PresentDup, dma
  <2> QED BY <2>1 DEF PvrInv, Fresh, Known, Sent, Settled, Waiting
<1>4. CASE Upload
  BY <1>4, UploadKeeps
<1>5. CASE Scene
  BY <1>5, SceneKeeps
<1>6. CASE TransferEnds
  BY <1>6, TransferKeeps
<1>7. CASE Restart
  BY <1>7, RestartKeeps
<1>8. CASE UNCHANGED pvrVars
  BY <1>8 DEF PvrInv, Fresh, Known, Sent, Settled, Waiting, pvrVars
<1> QED BY <1>2, <1>3, <1>4, <1>5, <1>6, <1>7, <1>8 DEF PvrNext

LEMMA InvImplies == PvrInv => LatestIsComing
BY DEF PvrInv, Known, Sent, Settled, LatestIsComing

(* If no picture comes back right after another, the newest frame is always *)
(* on its way or on display, however long the transfers take.              *)
THEOREM LatestFrameIsComing ==
  ASSUME ~Reverts
  PROVE  PvrSpec => []LatestIsComing
<1>1. PvrInv /\ [PvrNext]_pvrVars => PvrInv'
  BY Step
<1> QED BY <1>1, PvrInvInit, InvImplies, PTL DEF PvrSpec
=============================================================================
