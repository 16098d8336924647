----------------------------- MODULE AudioQueue -----------------------------
(***************************************************************************)
(* What the Dreamcast sound backend promises: a queue of stereo frames.     *)
(* Frames are played in the order they were accepted, each once; when the   *)
(* queue runs dry one frame is repeated; a pause throws the queue away.     *)
(***************************************************************************)
EXTENDS Integers, Sequences

CONSTANTS Capacity, Frames

VARIABLES
  queue,
  played,    \* the answer to the last request
  on         \* the stream is started

Const(x, n) == [i \in 1..n |-> x]

AInit == queue = <<>> /\ played = <<>> /\ on = TRUE

Accept(fs) ==
  /\ on
  /\ Len(queue \o fs) <= Capacity
  /\ queue' = queue \o fs
  /\ UNCHANGED <<played, on>>

Play(n, x, fill) ==
  /\ on
  /\ n <= Len(queue) /\ (fill > 0 => n = Len(queue))
  /\ played' = SubSeq(queue, 1, n) \o Const(x, fill)
  /\ queue' = SubSeq(queue, n + 1, Len(queue))
  /\ UNCHANGED on

(* Only stopping and starting the stream throws frames away. *)
Discard == queue' = <<>> /\ on' = ~on /\ UNCHANGED played

ANext ==
  \/ \E k \in 1..Capacity : \E fs \in [1..k -> Frames] : Accept(fs)
  \/ \E n \in 0..Capacity, x \in Frames, fill \in 0..Len(played') : Play(n, x, fill)
  \/ Discard

ASpec == AInit /\ [][ANext]_<<queue, played, on>>
=============================================================================
