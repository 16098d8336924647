----------------------------- MODULE PvrPresent -----------------------------
(***************************************************************************)
(* Presenting frames through the PowerVR (dreamcast/dc_pvr.c).  A frame is   *)
(* copied to one of two staging buffers and sent from there to the texture *)
(* of the same number by a DMA transfer that goes on while the program     *)
(* does.  A frame equal to the one on display is not sent at all.  The     *)
(* front texture, the one that is drawn, changes when the program notices  *)
(* that the transfer is over.                                              *)
(***************************************************************************)
EXTENDS Naturals

CONSTANTS
  Pictures,    \* what the core presents
  Blank,     \* the one of a cleared buffer
  Torn,      \* what is in a texture that holds no single frame
  Reverts    \* TRUE if a picture may come back right after the one between

ASSUME PvrAssumption ==
  /\ Blank \in Pictures /\ Torn \notin Pictures
  /\ Reverts \in BOOLEAN

VARIABLES
  stage,          \* "idle", or inside dc_pvr_present(): "upload", "scene"
  back,           \* back_idx
  pvr_staging, pvr_texture,
  pvr_front_idx, pvr_has_frame,
  pvr_dma_inflight, pvr_dma_idx,
  busy,           \* the DMA channel is at work
  sent,           \* the pictures its staging buffer has held meanwhile
  presented, before    \* history: the last two frames presented

pvrVars == <<stage, back, pvr_staging, pvr_texture, pvr_front_idx, pvr_has_frame,
          pvr_dma_inflight, pvr_dma_idx, busy, sent, presented, before>>
dma == <<pvr_dma_inflight, pvr_dma_idx, busy, sent>>

PvrTypeOK ==
  /\ stage \in {"idle", "upload", "scene"}
  /\ back \in 0..1 /\ pvr_front_idx \in 0..1 /\ pvr_dma_idx \in 0..1
  /\ pvr_staging \in [0..1 -> Pictures]
  /\ pvr_texture \in [0..1 -> Pictures \cup {Torn}]
  /\ pvr_has_frame \in BOOLEAN /\ pvr_dma_inflight \in BOOLEAN /\ busy \in BOOLEAN
  /\ sent \subseteq Pictures
  /\ presented \in Pictures /\ before \in Pictures

-----------------------------------------------------------------------------

Both(x) == [i \in 0..1 |-> x]

(* dc_pvr_init(): cleared buffers, textures with anything in them. *)
PvrInit ==
  /\ stage = "idle" /\ back = 0
  /\ pvr_staging = Both(Blank) /\ pvr_texture = Both(Torn)
  /\ pvr_front_idx = 0 /\ pvr_has_frame = FALSE
  /\ pvr_dma_inflight = FALSE /\ pvr_dma_idx = 0 /\ busy = FALSE /\ sent = {}
  /\ presented = Blank /\ before = Blank

(* Faults: a frame like the one before is skipped, whatever is on display; *)
(* the back buffer is the front one.                                       *)
SkipsOld(f) == pvr_has_frame /\ f = pvr_staging[1 - pvr_front_idx]
BackIsNext == 2 - pvr_front_idx

Skips(f) == pvr_has_frame /\ f = pvr_staging[pvr_front_idx]
Back == 1 - pvr_front_idx

(* A frame is copied to the back buffer, even if that is still being sent, *)
(* and compared with the front one.                                        *)
Present(f) ==
  /\ stage = "idle"
  /\ Reverts \/ f = presented \/ f # before
  /\ back' = Back
  /\ pvr_staging' = [pvr_staging EXCEPT ![back'] = f]
  /\ sent' = IF busy /\ pvr_dma_idx = back' THEN sent \cup {f} ELSE sent
  /\ stage' = IF Skips(f) THEN "scene" ELSE "upload"
  /\ presented' = f /\ before' = presented
  /\ UNCHANGED <<pvr_texture, pvr_front_idx, pvr_has_frame, pvr_dma_inflight, pvr_dma_idx, busy>>

(* A frame equal to the last one for the core: no picture is passed. *)
PresentDup ==
  /\ stage = "idle" /\ pvr_has_frame
  /\ stage' = "scene"
  /\ UNCHANGED <<back, pvr_staging, pvr_texture, pvr_front_idx, pvr_has_frame, dma, presented, before>>

(* pvr_dma_wait(): until the channel is ready. *)
Waited == ~busy

FrontAfterWait == IF pvr_dma_inflight THEN pvr_dma_idx ELSE pvr_front_idx

(* pvr_upload_texture_async() *)
Upload ==
  /\ stage = "upload" /\ Waited
  /\ pvr_front_idx' = FrontAfterWait
  /\ pvr_dma_inflight' = TRUE /\ pvr_dma_idx' = back
  /\ busy' = TRUE /\ sent' = {pvr_staging[back]}
  /\ pvr_texture' = [pvr_texture EXCEPT ![back] = Torn]
  /\ pvr_has_frame' = TRUE
  /\ stage' = "scene"
  /\ UNCHANGED <<back, pvr_staging, presented, before>>

(* A buffer that was overwritten meanwhile leaves parts of both pictures. *)
Received(pictures) ==
  IF \E f \in pictures : pictures = {f} THEN CHOOSE f \in pictures : TRUE ELSE Torn

(* The transfer ends at any time. *)
TransferEnds ==
  /\ busy
  /\ busy' = FALSE /\ sent' = {}
  /\ pvr_texture' = [pvr_texture EXCEPT ![pvr_dma_idx] = Received(sent)]
  /\ UNCHANGED <<stage, back, pvr_staging, pvr_front_idx, pvr_has_frame,
                 pvr_dma_inflight, pvr_dma_idx, presented, before>>

(* Fault: only the wait for a transfer notices its end. *)
NoticesNever == FALSE
Notices == pvr_dma_inflight /\ ~busy

(* The end of dc_pvr_present(): a finished transfer is noticed, and the    *)
(* front texture is drawn.                                                 *)
Scene ==
  /\ stage = "scene"
  /\ IF Notices
     THEN pvr_front_idx' = pvr_dma_idx /\ pvr_dma_inflight' = FALSE
     ELSE UNCHANGED <<pvr_front_idx, pvr_dma_inflight>>
  /\ stage' = "idle"
  /\ UNCHANGED <<back, pvr_staging, pvr_texture, pvr_has_frame, pvr_dma_idx, busy, sent, presented, before>>

(* dc_pvr_shutdown(), dc_pvr_init(): the renderer is switched off and on. *)
Restart ==
  /\ stage = "idle" /\ Waited
  /\ pvr_staging' = Both(Blank) /\ pvr_texture' = Both(Torn)
  /\ pvr_front_idx' = 0 /\ pvr_has_frame' = FALSE
  /\ pvr_dma_inflight' = FALSE /\ pvr_dma_idx' = 0
  /\ presented' = Blank /\ before' = Blank
  /\ UNCHANGED <<stage, back, busy, sent>>

PvrNext ==
  \/ \E f \in Pictures : Present(f)
  \/ PresentDup \/ Upload \/ Scene \/ TransferEnds \/ Restart

(* A transfer ends; nothing is assumed of the program. *)
PvrSpec == PvrInit /\ [][PvrNext]_pvrVars /\ WF_pvrVars(TransferEnds)

-----------------------------------------------------------------------------

(* Between two calls the newest frame is on its way, or on display: in the *)
(* buffer of a transfer that sends nothing else, in the texture that one   *)
(* has filled, or in the front texture.  It holds of a core that does not  *)
(* present a picture, another, and the first again.                        *)
LatestIsComing ==
  stage = "idle" /\ pvr_has_frame =>
    CASE busy -> sent = {presented} /\ pvr_staging[pvr_dma_idx] = presented
      [] ~busy /\ pvr_dma_inflight -> pvr_texture[pvr_dma_idx] = presented
      [] OTHER -> pvr_texture[pvr_front_idx] = presented

(* A picture that stands still is shown for good, if the core goes on       *)
(* presenting it or saying that nothing changed.                           *)
StillFrameShows ==
  \A f \in Pictures :
    <>[](pvr_has_frame /\ presented = f) /\ []<><<Scene>>_pvrVars
      => <>[](pvr_texture[pvr_front_idx] = f)

-----------------------------------------------------------------------------

(* HARDWARE_RENDERING.md, "Dirty frame skip": "Skip DMA when staging        *)
(* matches last frame".  A frame that is not sent equals the one presented *)
(* before it.                                                              *)
SkipsOnlyRepeats == [][\A f \in Pictures : Present(f) /\ stage' = "scene" => f = presented]_pvrVars
=============================================================================
