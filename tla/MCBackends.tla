------------------------------ MODULE MCBackends ------------------------------
(* The two backends of the launcher side by side.  A frame of the core goes to *)
(* both, but neither looks at the other, so a behaviour runs one of them and  *)
(* the other stands still.  A ring of three frames, requests of whole frame   *)
(* pairs as the stream makes them, writes longer than the ring; three         *)
(* pictures.                                                                  *)
EXTENDS AudioRing, PvrPresent

MCRequests == {2, 4}

VARIABLE part   \* "sound" or "picture"

Start == Init /\ PvrInit /\ part \in {"sound", "picture"}

Step ==
  \/ part = "sound" /\ Next /\ UNCHANGED <<pvrVars, part>>
  \/ part = "picture" /\ PvrNext /\ UNCHANGED <<vars, part>>

Backends ==
  Start /\ [][Step]_<<vars, pvrVars, part>> /\ WF_vars(Writing) /\ WF_pvrVars(TransferEnds)
===============================================================================
