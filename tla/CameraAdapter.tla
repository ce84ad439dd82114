----------------------------- MODULE CameraAdapter -----------------------------
(***************************************************************************)
(* Libcamera2OpenCvCameraAdapter, the camera of the hardware build: it     *)
(* numbers the images of Libcam2OpenCV and decides once, on the first      *)
(* colour image, whether rows are padded.                                  *)
(* Threads: the owner in start() and stop(), the thread of Libcam2OpenCV   *)
(* that calls onFrame_().  External: Libcam2OpenCV; its stop() waits for a *)
(* callback in progress.                                                   *)
(***************************************************************************)
EXTENDS Naturals

CONSTANT MaxFrame   (* bound: images over all sessions                      *)

VARIABLES
    owner,      (* where the owner is                                       *)
    running,    (* running_                                                 *)
    source,     (* Libcam2OpenCV delivers                                   *)
    delivered,  (* the last id handed to the callback in this session       *)
    next_frame_id,
    stride_checked,
    compensate, (* detected_stride_ > 0                                     *)
    padded,     (* external: rows of colour images are padded               *)
    image       (* what onFrame_() works on: "none", "gray", "colour"       *)

vars == <<owner, running, source, delivered, next_frame_id, stride_checked,
          compensate, padded, image>>

TypeOK ==
    /\ owner \in {"down", "starting", "up", "stopping"}
    /\ image \in {"none", "gray", "colour"}
    /\ delivered \in Nat /\ next_frame_id \in Nat
    /\ \A b \in {running, source, stride_checked, compensate, padded} : b \in BOOLEAN

Init ==
    /\ owner = "down" /\ running = FALSE /\ source = FALSE /\ delivered = 0
    /\ next_frame_id = 1
    /\ stride_checked = FALSE /\ compensate = FALSE
    /\ padded \in BOOLEAN
    /\ image = "none"

layoutVars == <<stride_checked, compensate, padded>>

OwnerGo(from, to) == owner = from /\ owner' = to

-----------------------------------------------------------------------------
\* start() with a registered callback: images may come before running_ is set.
Start ==
    /\ ~running
    /\ OwnerGo("down", "starting")
    /\ source' = TRUE
    /\ delivered' = 0
    /\ UNCHANGED <<running, next_frame_id, layoutVars, image>>

\* camera_.start() returns or throws; when it throws nothing delivers.
SetRunning ==
    /\ \/ OwnerGo("starting", "up") /\ running' = TRUE /\ UNCHANGED source
       \/ /\ image = "none" /\ delivered = 0
          /\ OwnerGo("starting", "down") /\ running' = FALSE /\ source' = FALSE
    /\ UNCHANGED <<delivered, next_frame_id, layoutVars, image>>

Stop ==
    /\ running /\ image = "none"
    /\ OwnerGo("up", "stopping")
    /\ source' = FALSE
    /\ UNCHANGED <<running, delivered, next_frame_id, layoutVars, image>>

ClearRunning ==
    /\ OwnerGo("stopping", "down")
    /\ running' = FALSE
    /\ UNCHANGED <<source, delivered, next_frame_id, layoutVars, image>>

-----------------------------------------------------------------------------
\* detectStrideMismatch_() compares row 0 with the row a third further down.
\* Whether they agree depends on the scene, with padded rows as without.
detectStrideMismatch(rowsAgree) ==
    /\ stride_checked' = TRUE
    /\ compensate' = rowsAgree
    /\ UNCHANGED padded

\* onFrame_() with an image that is not empty, up to the copy.
Take ==
    /\ source /\ image = "none" /\ next_frame_id <= MaxFrame
    /\ next_frame_id' = next_frame_id + 1
    /\ \/ image' = "gray" /\ UNCHANGED layoutVars
       \/ /\ image' = "colour"
          /\ IF stride_checked THEN UNCHANGED layoutVars
             ELSE \E rowsAgree \in BOOLEAN : detectStrideMismatch(rowsAgree)
    /\ UNCHANGED <<owner, running, source, delivered>>

\* The frame callback.
Emit ==
    /\ image # "none"
    /\ image' = "none"
    /\ delivered' = next_frame_id - 1
    /\ UNCHANGED <<owner, running, source, next_frame_id, layoutVars>>

Next == Start \/ SetRunning \/ Stop \/ ClearRunning \/ Take \/ Emit

Spec == Init /\ [][Next]_vars

=============================================================================
