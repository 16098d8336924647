----------------------------- MODULE AudioRing ------------------------------
(***************************************************************************)
(* The Dreamcast sound backend (dreamcast/dc_audio.c): a ring of stereo     *)
(* frames between retro_run(), which writes the frames it has emulated, and *)
(* the stream callback, which KallistiOS calls from snd_stream_poll() when  *)
(* the sound chip wants more.  A blocking write polls and sleeps until all  *)
(* its frames fit, at most a bounded number of times.                      *)
(*                                                                         *)
(* Positions count frames here; the code counts samples, two per frame.    *)
(***************************************************************************)
EXTENDS Integers, Sequences

CONSTANTS
  RING,       \* frames of the ring (DC_AUDIO_RING_SAMPLES)
  Frames,     \* stereo frames the core produces
  Silence,    \* the frame repeated before the first one
  Requests,   \* frames the stream asks for at a time
  MaxWrite,   \* frames of the longest write
  MaxWait     \* milliseconds a blocking write waits (5000)

ASSUME AudioAssumption ==
  /\ RING \in Nat \ {0, 1}
  /\ Silence \in Frames
  /\ Requests \subseteq Nat \ {0}
  /\ MaxWrite \in Nat /\ MaxWait \in Nat \ {0}

VARIABLES
  ring, read_pos, write_pos,
  last,       \* last_left, last_right
  started, enabled,
  pc,         \* "idle", or inside dc_audio_write(): "poll", "queue"
  todo,       \* frames that write has not queued yet
  nonblock,
  round,      \* times that write has gone back to poll
  played      \* frames handed over by the last callback

vars == <<ring, read_pos, write_pos, last, started, enabled, pc, todo, nonblock, round, played>>
writer == <<pc, todo, nonblock, round>>

TypeOK ==
  /\ ring \in [0..(RING - 1) -> Frames]
  /\ read_pos \in 0..(RING - 1) /\ write_pos \in 0..(RING - 1)
  /\ last \in Frames
  /\ {started, enabled, nonblock} \subseteq BOOLEAN
  /\ pc \in {"idle", "poll", "queue"}
  /\ todo \in Seq(Frames) /\ played \in Seq(Frames)
  /\ round \in 0..MaxWait

-----------------------------------------------------------------------------

Used == (write_pos + RING - read_pos) % RING
Least(a, b) == IF a < b THEN a ELSE b

Advance(p, n) == (p + n) % RING

(* The frames between the two positions, oldest first. *)
Contents == [i \in 1..Used |-> ring[(read_pos + i - 1) % RING]]

Init ==
  /\ ring = [p \in 0..(RING - 1) |-> Silence]
  /\ read_pos = 0 /\ write_pos = 0 /\ last = Silence
  /\ started = TRUE /\ enabled = TRUE
  /\ pc = "idle" /\ todo = <<>> /\ nonblock = FALSE /\ round = 0
  /\ played = <<>>

(* dc_audio_stream_callback(): frames from the ring, then the last known   *)
(* one again; the byte count is rounded down to pairs of frames.           *)
Callback(req) ==
  LET n   == Least(req, Used)
      all == [i \in 1..req |-> IF i <= n THEN ring[(read_pos + i - 1) % RING] ELSE last]
  IN  /\ read_pos' = Advance(read_pos, n)
      /\ played' = SubSeq(all, 1, (req \div 2) * 2)
      /\ UNCHANGED <<ring, write_pos, last, started, enabled>>

(* snd_stream_poll(): the chip wants more frames, or it does not. *)
StreamPoll ==
  \/ \E req \in Requests : Callback(req)
  \/ UNCHANGED <<ring, read_pos, write_pos, last, started, enabled, played>>

(* The main loop polls once per frame. *)
Poll ==
  /\ pc = "idle" /\ started
  /\ \E req \in Requests : Callback(req)
  /\ UNCHANGED writer

StartWrite(data, nb) ==
  /\ pc = "idle" /\ started /\ enabled
  /\ pc' = "poll" /\ todo' = data /\ nonblock' = nb /\ round' = 0
  /\ UNCHANGED <<ring, read_pos, write_pos, last, started, enabled, played>>

WritePoll ==
  /\ pc = "poll"
  /\ StreamPoll
  /\ pc' = "queue"
  /\ UNCHANGED <<todo, nonblock, round>>

(* dc_audio_queue(): as many frames as fit with one slot left free; the    *)
(* last one stored, or else the one that did not fit, is remembered.       *)
FitsAll == Least(Len(todo), RING - Used)          \* fault: no slot left free
Fits == Least(Len(todo), RING - 1 - Used)

RememberedFirst == todo[1]                        \* fault: the oldest one
Remembered == todo[Least(Fits + 1, Len(todo))]

Queued ==
  /\ ring' = [p \in 0..(RING - 1) |->
                LET i == (p + RING - write_pos) % RING
                IN  IF i < Fits THEN todo[i + 1] ELSE ring[p]]
  /\ write_pos' = Advance(write_pos, Fits)
  /\ last' = Remembered

GivesUpEarly == nonblock \/ round = MaxWait - 1   \* fault: one round short
GivesUpNever == nonblock                          \* fault: no time limit
GivesUp == nonblock \/ round = MaxWait

(* The write returns when all is queued, when it may not block, or when it *)
(* has waited long enough; what is left of its frames is then lost.        *)
WriteQueue ==
  /\ pc = "queue"
  /\ Queued
  /\ IF Fits = Len(todo) \/ GivesUp
     THEN pc' = "idle" /\ todo' = <<>> /\ round' = 0
     ELSE /\ pc' = "poll" /\ round' = Least(round + 1, MaxWait)
          /\ todo' = SubSeq(todo, Fits + 1, Len(todo))
  /\ UNCHANGED <<read_pos, started, enabled, played, nonblock>>

(* dc_audio_pause(): stopped and flushed; dc_audio_resume() starts again. *)
Pause ==
  /\ pc = "idle" /\ started
  /\ started' = FALSE /\ read_pos' = 0 /\ write_pos' = 0
  /\ UNCHANGED <<ring, last, enabled, played, writer>>

Resume ==
  /\ pc = "idle" /\ ~started
  /\ started' = TRUE /\ read_pos' = 0 /\ write_pos' = 0
  /\ UNCHANGED <<ring, last, enabled, played, writer>>

SetEnabled(on) ==
  /\ pc = "idle"
  /\ enabled' = on
  /\ UNCHANGED <<ring, read_pos, write_pos, last, started, played, writer>>

Writing == WritePoll \/ WriteQueue

Next ==
  \/ Poll
  \/ \E k \in 1..MaxWrite : \E data \in [1..k -> Frames], nb \in BOOLEAN : StartWrite(data, nb)
  \/ Writing
  \/ Pause \/ Resume
  \/ \E on \in BOOLEAN : SetEnabled(on)

(* The writer is the one thread of the launcher: it goes on. *)
Spec == Init /\ [][Next]_vars /\ WF_vars(Writing)

-----------------------------------------------------------------------------

Queue == INSTANCE AudioQueue WITH Capacity <- RING - 1, queue <- Contents, on <- started

(* The ring is a queue: however positions wrap, frames come out once each,  *)
(* in the order they went in, none is lost but by a pause, and repeats come *)
(* only when there is no frame left.                                       *)
PlaysInOrder == Queue!ASpec

(* A write returns even if the sound chip never asks for anything again,   *)
(* so the launcher cannot hang in it.                                      *)
WriteReturns == pc # "idle" ~> pc = "idle"

(* A blocking write keeps what it could not queue until it has waited its   *)
(* full time; then at least a full ring of frames is on its way.           *)
LosesOnlyAfterWait ==
  [][WriteQueue /\ ~nonblock /\ Fits < Len(todo) /\ todo' = <<>>
        => round = MaxWait /\ Used' = RING - 1]_vars

(* After a write that queued everything, the frame an underrun would repeat *)
(* is the newest one in the ring: the sound goes on from where it stopped.  *)
RepeatsNewest ==
  [][WriteQueue /\ Fits = Len(todo) => last' = Contents'[Used']]_vars
=============================================================================
