---------------------------- MODULE CameraBackends ----------------------------
(***************************************************************************)
(* SystemFactory::makeCamera_(): the configuration picks one backend for   *)
(* the life of the system, and SystemManager knows it as an ICamera only.  *)
(* LibcameraPublisher is the alternative the sources keep beside the two   *)
(* the factory can build.                                                  *)
(***************************************************************************)
EXTENDS Naturals

CONSTANTS Backends, MaxFrame, Requests, Rows, RowBytes, Planes

ASSUME BackendAssumption ==
    /\ Backends \subseteq {"Simulated", "Adapter", "Libcamera"}
    /\ MaxFrame \in Nat
    /\ Rows \in Nat \ {0} /\ RowBytes \in Nat \ {0}
    /\ Planes \subseteq [length : Nat, stride : Nat]

VARIABLES
    backend,                                  (* cfg.camera_backend         *)
    owner, running, worker, delivered,        (* any of them                *)
    fds, signalled, due,                      (* SimulatedPublisher         *)
    held, request, handler, plane, pool, refused, missed, (* LibcameraPublisher *)
    source, next_frame_id, stride_checked, compensate, padded, image,
    frame_id                                  (* Simulated, Libcamera       *)

Sim == INSTANCE SimulatedPublisher
Lib == INSTANCE LibcameraPublisher
Ada == INSTANCE CameraAdapter

commonVars == <<owner, running, delivered>>
simVars == <<fds, signalled, due>>
libVars == <<held, request, handler, plane, pool, refused, missed>>
adaVars == <<source, next_frame_id, stride_checked, compensate, padded, image>>
vars == <<backend, commonVars, worker, frame_id, simVars, libVars, adaVars>>

\* One backend is in its initial state; what belongs to the others is not used.
Init ==
    /\ backend \in Backends
    /\ owner = "down" /\ running = FALSE /\ worker = "none" /\ delivered = 0
    /\ frame_id = IF backend = "Simulated" THEN 1 ELSE 0
    /\ fds = {} /\ signalled = FALSE /\ due = FALSE
    /\ held = {} /\ request = [r \in Requests |-> "away"] /\ handler = "idle"
    /\ plane = Lib!NoPlane /\ pool = {} /\ refused = {} /\ missed = FALSE
    /\ source = FALSE /\ next_frame_id = 1 /\ image = "none"
    /\ stride_checked = FALSE /\ compensate = FALSE
    /\ padded \in IF backend = "Adapter" THEN BOOLEAN ELSE {FALSE}

Next ==
    \/ backend = "Simulated" /\ Sim!Next /\ UNCHANGED <<backend, libVars, adaVars>>
    \/ backend = "Libcamera" /\ Lib!Next /\ UNCHANGED <<backend, simVars, adaVars>>
    \/ /\ backend = "Adapter" /\ Ada!Next
       /\ UNCHANGED <<backend, worker, frame_id, simVars, libVars>>

\* The fairness of the backend in use.
Fairness ==
    /\ WF_vars(backend = "Simulated" /\ Sim!OwnerStep /\ UNCHANGED <<backend, libVars, adaVars>>)
    /\ WF_vars(backend = "Simulated" /\ Sim!WorkerStep /\ UNCHANGED <<backend, libVars, adaVars>>)
    /\ WF_vars(backend = "Libcamera" /\ Lib!OwnerStep /\ UNCHANGED <<backend, simVars, adaVars>>)
    /\ WF_vars(backend = "Libcamera" /\ (Lib!WorkerStep \/ Lib!GiveUp)
               /\ UNCHANGED <<backend, simVars, adaVars>>)
    /\ WF_vars(backend = "Libcamera" /\ Lib!HandlerStep /\ UNCHANGED <<backend, simVars, adaVars>>)

Spec == Init /\ [][Next]_vars /\ Fairness

-----------------------------------------------------------------------------
(* Properties.                                                             *)

\* Whichever backend was chosen, SystemManager gets what ICamera promises.
AbstractCamera == INSTANCE Camera
                  WITH session <- owner \notin {"down", "aborted"}
CameraSpec == AbstractCamera!Spec

\* No worker loses the descriptors it polls, and no way out of a start() or of a
\* worker leaves a descriptor or a libcamera object behind.
NothingLeaked == /\ backend = "Simulated" => Sim!NothingLeaked
                 /\ backend = "Libcamera" => Lib!NothingLeaked

\* LibcameraPublisher loses no request of its pool; see there.
PoolKept == backend = "Libcamera" => Lib!PoolKept

\* LibcameraPublisher emits all rows of a plane or nothing, and reads them where
\* the driver put them unless the plane has slack; see there.
WholeFrames == backend = "Libcamera" => Lib!WholeFrames

\* A stop() that waits for the worker waits for one that has been told and hears
\* it: the eventfd is signalled, or the worker neither sleeps nor is about to.
StopIsHeard ==
    /\ backend = "Simulated" /\ owner = "join" => ~running /\ signalled /\ worker # "none"
    /\ backend = "Libcamera" /\ owner = "join" /\ ~missed
           => ~running /\ worker \notin {"none", "sleep", "asleep"}

\* stop() returns whatever the worker does and however it ends, unless
\* LibcameraPublisher notified a worker that was about to sleep.
StopReturns ==
    owner \in {"notify", "wake", "join", "close"} ~> owner = "down" \/ missed

=============================================================================
