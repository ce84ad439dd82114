------------------------- MODULE CameraBackendsProofs -------------------------
(***************************************************************************)
(* Theorems about the cameras: each backend implements ICamera's promise   *)
(* (module Camera) and leaks nothing; libcamera's requests and rows are     *)
(* accounted for, with any number of requests, image size and planes.      *)
(*                                                                         *)
(* The invariant has one part per backend, which holds when that backend   *)
(* was chosen; the step lemmas take the parts one by one.                  *)
(***************************************************************************)
EXTENDS CameraBackends, TLAPS

-----------------------------------------------------------------------------
(* The inductive invariants.                                               *)

\* SimulatedPublisher: descriptors and worker follow the owner, and the worker's
\* next id is above the last one delivered.
SimInv ==
    /\ owner \in {"down", "open", "up", "wake", "join", "close"}
    /\ worker \in {"none", "test", "poll", "emit", "ended"}
    /\ delivered \in Nat /\ frame_id \in Nat
    /\ owner \in {"down", "open"} => fds = {} /\ worker = "none"
    /\ owner \in {"up", "wake", "join"} => fds = {"timer", "wake"} /\ delivered < frame_id
    /\ owner = "open" => delivered = 0
    /\ owner = "close" => worker = "none"
    /\ owner \in {"up", "wake", "join"} => worker # "none"
    /\ owner \in {"wake", "join"} => ~running
    /\ owner = "join" => signalled

\* LibcameraPublisher: what run_() holds is a function of where it is.
Holds(point) ==
    CASE point \in {"none", "ended", "manager"}  -> {}
      [] point \in {"cameras", "acquire"}        -> {"manager"}
      [] point \in {"configure", "allocate"}     -> {"manager", "camera"}
      [] point = "start"                         -> {"manager", "camera", "buffers"}
      [] OTHER                                   -> {"manager", "camera", "buffers", "stream"}

Serving == {"check", "sleep", "asleep", "teardown"}

LibTypes ==
    /\ owner \in {"down", "up", "notify", "join", "aborted"}
    /\ worker \in {"none", "ended", "manager", "cameras", "acquire", "configure", "allocate",
                   "start", "fill"} \cup Serving
    /\ running \in BOOLEAN
    /\ delivered \in Nat /\ frame_id \in Nat
    /\ plane \in [length : Nat, stride : Nat]
    /\ request \in [Requests -> {"away", "queued", "handled"}]
    /\ handler \in {"idle", "buffer", "copy", "emit", "requeue"}
    /\ pool \subseteq Requests

\* The worker ends by itself only with running_ cleared, and start() finds it ended.
LibThreads ==
    /\ owner \in {"down", "aborted"} => ~running /\ worker \in {"none", "ended"}
    /\ owner = "up" => worker \notin {"none", "teardown"} /\ (~running => worker = "ended")
    /\ owner \in {"notify", "join"} => ~running /\ worker # "none"
    /\ owner = "join" /\ ~missed => worker \notin {"sleep", "asleep"}

LibHeld ==
    /\ held = Holds(worker)
    /\ worker \notin Serving => handler = "idle" /\ \A r \in Requests : request[r] = "away"

LibFrames ==
    /\ delivered <= frame_id
    /\ handler \in {"copy", "emit"} => delivered < frame_id
    /\ handler = "emit" => plane.length >= Rows * RowBytes

LibInv == LibTypes /\ LibThreads /\ LibHeld /\ LibFrames /\ Lib!PoolKept

\* Libcamera2OpenCvCameraAdapter: ids count on over all sessions.
AdaInv ==
    /\ owner \in {"down", "starting", "up", "stopping"}
    /\ image \in {"none", "gray", "colour"}
    /\ delivered \in Nat /\ next_frame_id \in Nat
    /\ source => owner \in {"starting", "up"}
    /\ image # "none" => source
    /\ delivered < next_frame_id
    /\ image # "none" => delivered < next_frame_id - 1

CamerasInv ==
    /\ backend \in {"Simulated", "Adapter", "Libcamera"}
    /\ backend = "Simulated" => SimInv
    /\ backend = "Libcamera" => LibInv
    /\ backend = "Adapter"   => AdaInv

-----------------------------------------------------------------------------
(* The stride that strideFromPlane() estimates.                            *)

\* Of a plane that holds all rows, the quotient is at least a row.
LEMMA LongPlaneQuotient ==
    ASSUME NEW length \in Nat, length >= Rows * RowBytes,
           Rows \in Nat \ {0}, RowBytes \in Nat \ {0}
    PROVE  length \div Rows >= RowBytes
<1> DEFINE s == length \div Rows
<1>1. s \in Nat /\ Rows * s <= length /\ length < Rows * s + Rows
  BY SMT
<1>2. SUFFICES ASSUME s + 1 <= RowBytes PROVE FALSE
  BY <1>1
<1>3. Rows * (s + 1) <= Rows * RowBytes
  BY <1>1, <1>2, SMT
<1>4. Rows * (s + 1) = Rows * s + Rows
  BY <1>1, SMT
<1> QED BY <1>1, <1>3, <1>4

\* Such a plane is copied whole: with the quotient as the stride the last byte of
\* the last row is inside.
LEMMA LongPlaneCopied ==
    ASSUME NEW length \in Nat, length >= Rows * RowBytes,
           Rows \in Nat \ {0}, RowBytes \in Nat \ {0}
    PROVE  Lib!Copies(length)
<1> DEFINE s == length \div Rows
<1>1. s \in Nat /\ Rows * s <= length /\ length < Rows * s + Rows
  BY SMT
<1>2. s >= RowBytes
  BY LongPlaneQuotient
<1>3. Lib!stride(length) = s
  BY <1>1, <1>2 DEF Lib!stride
<1>4. ASSUME NEW y \in 0..Rows-1 PROVE y * s + RowBytes <= length
  <2>1. (y + 1) * s <= Rows * s
    BY <1>1, <1>4, SMT
  <2>2. (y + 1) * s = y * s + s
    BY <1>1, <1>4, SMT
  <2>3. y * s \in Nat /\ Rows * s \in Nat
    BY <1>1, <1>4, SMT
  <2> QED BY <1>1, <1>2, <2>1, <2>2, <2>3
<1>5. length > 0
  <2>1. Rows * RowBytes > 0
    BY SMT
  <2> QED BY <2>1
<1> QED BY <1>3, <1>4, <1>5 DEF Lib!Copies

\* A plane that is copied holds all rows: the estimate is never below a row.
LEMMA CopiedPlaneLong ==
    ASSUME NEW length \in Nat, Lib!Copies(length),
           Rows \in Nat \ {0}, RowBytes \in Nat \ {0}
    PROVE  length >= Rows * RowBytes
<1> DEFINE s == Lib!stride(length)
<1>1. s \in Nat /\ s >= RowBytes
  BY SMT DEF Lib!stride
<1>2. (Rows - 1) * s + RowBytes <= length
  BY SMT DEF Lib!Copies
<1>3. (Rows - 1) * RowBytes <= (Rows - 1) * s
  BY <1>1, SMT
<1>4. (Rows - 1) * RowBytes = Rows * RowBytes - RowBytes
  BY SMT
<1>5. (Rows - 1) * s \in Nat /\ Rows * RowBytes \in Nat
  BY <1>1, SMT
<1> HIDE DEF s
<1> QED BY <1>2, <1>3, <1>4, <1>5

\* From a plane that holds all rows the driver's stride is recovered exactly when
\* there is little slack.
LEMMA StrideRecovered ==
    ASSUME NEW p \in [length : Nat, stride : Nat], p.length >= Rows * RowBytes,
           Rows \in Nat \ {0}, RowBytes \in Nat \ {0}
    PROVE  Lib!stride(p.length) = p.stride <=> Lib!LittleSlack(p)
<1> DEFINE s == p.length \div Rows
<1>1. s \in Nat /\ Rows * s <= p.length /\ p.length < Rows * s + Rows
  BY SMT
<1>2. Lib!stride(p.length) = s
  BY <1>1, LongPlaneQuotient DEF Lib!stride
<1>3. p.stride \in Nat /\ p.length \in Nat
  OBVIOUS
<1> HIDE DEF s
<1>4. \A t \in Nat : Rows * (t + 1) = Rows * t + Rows /\ Rows * t \in Nat
  BY SMT
<1>5. CASE s < p.stride
  <2>1. Rows * (s + 1) <= Rows * p.stride
    BY <1>1, <1>3, <1>5, SMT
  <2> QED BY <1>1, <1>2, <1>3, <1>4, <1>5, <2>1 DEF Lib!LittleSlack
<1>6. CASE s > p.stride
  <2>1. Rows * (p.stride + 1) <= Rows * s
    BY <1>1, <1>3, <1>6, SMT
  <2> QED BY <1>1, <1>2, <1>3, <1>4, <1>6, <2>1 DEF Lib!LittleSlack
<1>7. CASE s = p.stride
  BY <1>1, <1>2, <1>3, <1>4, <1>7 DEF Lib!LittleSlack
<1> QED BY <1>1, <1>3, <1>5, <1>6, <1>7

-----------------------------------------------------------------------------
(* One lemma per backend: the steps keep its invariant and are steps of    *)
(* AbstractCamera.                                                         *)

AbstractStep == [AbstractCamera!Next]_<<owner \notin {"down", "aborted"}, delivered>>

LEMMA SimStep ==
    ASSUME SimInv, [Sim!Next]_<<owner, running, worker, delivered, fds, signalled, due, frame_id>>
    PROVE  SimInv' /\ AbstractStep
<1> USE DEF SimInv, AbstractStep, AbstractCamera!Next, AbstractCamera!Start,
            AbstractCamera!Deliver, AbstractCamera!Stop, Sim!OwnerGo, Sim!WorkerGo
<1>1. CASE Sim!Start      BY <1>1 DEF Sim!Start
<1>2. CASE Sim!Stop       BY <1>2 DEF Sim!Stop
<1>3. CASE Sim!OpenFails  BY <1>3 DEF Sim!OpenFails
<1>4. CASE Sim!Open       BY <1>4 DEF Sim!Open
<1>5. CASE Sim!Wake       BY <1>5 DEF Sim!Wake
<1>6. CASE Sim!Join       BY <1>6 DEF Sim!Join
<1>7. CASE Sim!Close      BY <1>7 DEF Sim!Close
<1>8. CASE Sim!TestRunning BY <1>8 DEF Sim!TestRunning
<1>9. CASE Sim!Poll       BY <1>9 DEF Sim!Poll
<1>10. CASE Sim!Emit      BY <1>10 DEF Sim!Emit
<1>11. CASE Sim!PollFails BY <1>11 DEF Sim!PollFails
<1>12. CASE Sim!Expire    BY <1>12 DEF Sim!Expire
<1>13. CASE UNCHANGED <<owner, running, worker, delivered, fds, signalled, due, frame_id>>
  BY <1>13
<1> QED
  BY <1>1, <1>2, <1>3, <1>4, <1>5, <1>6, <1>7, <1>8, <1>9, <1>10, <1>11, <1>12, <1>13
  DEF Sim!Next, Sim!OwnerStep, Sim!WorkerStep

LEMMA AdaStep ==
    ASSUME AdaInv, [Ada!Next]_<<owner, running, delivered, adaVars>>
    PROVE  AdaInv' /\ AbstractStep
<1> USE DEF AdaInv, AbstractStep, AbstractCamera!Next, AbstractCamera!Start,
            AbstractCamera!Deliver, AbstractCamera!Stop, Ada!OwnerGo, Ada!layoutVars
<1>1. CASE Ada!Start        BY <1>1 DEF Ada!Start
<1>2. CASE Ada!SetRunning   BY <1>2 DEF Ada!SetRunning
<1>3. CASE Ada!Stop         BY <1>3 DEF Ada!Stop
<1>4. CASE Ada!ClearRunning BY <1>4 DEF Ada!ClearRunning
<1>5. CASE Ada!Take         BY <1>5 DEF Ada!Take, Ada!detectStrideMismatch
<1>6. CASE Ada!Emit         BY <1>6 DEF Ada!Emit
<1>7. CASE UNCHANGED <<owner, running, delivered, adaVars>>
  BY <1>7 DEF adaVars
<1> QED
  BY <1>1, <1>2, <1>3, <1>4, <1>5, <1>6, <1>7 DEF Ada!Next

LibVars == <<owner, running, worker, delivered, held, request, handler, plane,
             frame_id, pool, refused, missed>>

LEMMA LibStep ==
    ASSUME LibInv, [Lib!Next]_LibVars, BackendAssumption
    PROVE  LibInv' /\ AbstractStep
<1> USE DEF LibInv, LibTypes, LibThreads, LibHeld, LibFrames, Lib!PoolKept, Lib!WaitPoints,
            AbstractStep, AbstractCamera!Next, AbstractCamera!Start,
            AbstractCamera!Deliver, AbstractCamera!Stop,
            Lib!poolVars, Lib!handlerVars, Holds, Serving
<1>1. CASE Lib!Start        BY <1>1 DEF Lib!Start
<1>2. CASE Lib!StartAborts  BY <1>2 DEF Lib!StartAborts
<1>3. CASE Lib!Stop         BY <1>3 DEF Lib!Stop
<1>4. CASE Lib!Notify       BY <1>4 DEF Lib!Notify
<1>5. CASE Lib!Join         BY <1>5 DEF Lib!Join
<1>6. CASE Lib!StartManager BY <1>6 DEF Lib!StartManager, Lib!Gain
<1>7. CASE Lib!FindCamera   BY <1>7 DEF Lib!FindCamera, Lib!Gain
<1>8. CASE Lib!AcquireCamera BY <1>8 DEF Lib!AcquireCamera, Lib!Gain
<1>9. CASE Lib!Configure    BY <1>9 DEF Lib!Configure, Lib!Gain
<1>10. CASE Lib!Allocate    BY <1>10 DEF Lib!Allocate, Lib!Gain
<1>11. CASE Lib!StartCamera BY <1>11 DEF Lib!StartCamera, Lib!Gain
<1>12. CASE Lib!GiveUp      BY <1>12 DEF Lib!GiveUp, Lib!SetupPoints, Lib!Releases
<1>13. CASE Lib!AllocateNone BY <1>13 DEF Lib!AllocateNone, Lib!Releases
<1>14. CASE Lib!Fill        BY <1>14 DEF Lib!Fill
<1>15. CASE Lib!Check       BY <1>15 DEF Lib!Check
<1>16. CASE Lib!Sleep       BY <1>16 DEF Lib!Sleep
<1>17. CASE Lib!SpuriousWake BY <1>17 DEF Lib!SpuriousWake
<1>18. CASE Lib!Teardown    BY <1>18 DEF Lib!Teardown
<1>19. CASE \E r \in Requests : Lib!Complete(r) BY <1>19 DEF Lib!Complete
<1>20. CASE Lib!Inspect     BY <1>20 DEF Lib!Inspect, BackendAssumption
<1>21. CASE Lib!Copy        BY <1>21, CopiedPlaneLong DEF Lib!Copy, BackendAssumption
<1>22. CASE Lib!Emit        BY <1>22 DEF Lib!Emit
<1>23. CASE Lib!Requeue     BY <1>23 DEF Lib!Requeue, Lib!NoPlane
<1>24. CASE \E r \in Requests : Lib!Cancel(r) BY <1>24 DEF Lib!Cancel
<1>25. CASE UNCHANGED LibVars BY <1>25 DEF LibVars
<1> QED
  BY <1>1, <1>2, <1>3, <1>4, <1>5, <1>6, <1>7, <1>8, <1>9, <1>10, <1>11, <1>12, <1>13, <1>14,
     <1>15, <1>16, <1>17, <1>18, <1>19, <1>20, <1>21, <1>22, <1>23, <1>24, <1>25
  DEF Lib!Next, Lib!OwnerStep, Lib!WorkerStep, Lib!HandlerStep

-----------------------------------------------------------------------------
(* The composition.                                                        *)

LEMMA CamerasInit == BackendAssumption /\ Init => CamerasInv /\ AbstractCamera!Init
<1> SUFFICES ASSUME BackendAssumption, Init PROVE CamerasInv /\ AbstractCamera!Init
  OBVIOUS
<1>1. backend = "Simulated" => SimInv
  BY DEF Init, SimInv
<1>2. LibInv
  <2>1. /\ running \in BOOLEAN
        /\ LibThreads
    BY Zenon DEF Init, LibThreads
  <2>2. /\ owner = "down" /\ worker = "none" /\ handler = "idle" /\ pool = {}
        /\ delivered = 0 /\ frame_id \in {0, 1} /\ plane \in [length : Nat, stride : Nat]
        /\ request \in [Requests -> {"away", "queued", "handled"}]
    BY DEF Init, Lib!NoPlane
  <2>3. LibTypes /\ LibFrames
    BY <2>1, <2>2 DEF LibTypes, LibFrames
  <2>4. LibHeld /\ Lib!PoolKept
    BY DEF Init, LibHeld, Holds, Serving, Lib!PoolKept, Lib!WaitPoints
  <2> QED BY <2>1, <2>3, <2>4 DEF LibInv
<1>3. AdaInv
  BY DEF Init, AdaInv
<1>4. AbstractCamera!Init
  BY DEF Init, AbstractCamera!Init
<1> QED BY <1>1, <1>2, <1>3, <1>4 DEF Init, BackendAssumption, CamerasInv

LEMMA CamerasStep ==
    BackendAssumption /\ CamerasInv /\ [Next]_vars => CamerasInv' /\ AbstractStep
<1> SUFFICES ASSUME BackendAssumption, CamerasInv, [Next]_vars
             PROVE  CamerasInv' /\ AbstractStep
  OBVIOUS
<1> USE DEF CamerasInv
<1>0. backend' = backend
  BY DEF Next, vars
<1>1. CASE backend = "Simulated"
  <2>1. [Sim!Next]_<<owner, running, worker, delivered, fds, signalled, due, frame_id>>
    BY <1>1 DEF Next, vars, commonVars, simVars
  <2> QED BY <1>0, <1>1, <2>1, SimStep
<1>2. CASE backend = "Libcamera"
  <2>1. [Lib!Next]_LibVars
    BY <1>2 DEF Next, vars, commonVars, libVars, LibVars
  <2> QED BY <1>0, <1>2, <2>1, LibStep
<1>3. CASE backend = "Adapter"
  <2>1. [Ada!Next]_<<owner, running, delivered, adaVars>>
    BY <1>3 DEF Next, vars, commonVars
  <2> QED BY <1>0, <1>3, <2>1, AdaStep
<1> QED BY <1>1, <1>2, <1>3

LEMMA CamerasInvariant == Spec => []CamerasInv
  BY CamerasInit, CamerasStep, BackendAssumption, PTL DEF Spec

\* Whichever backend SystemFactory chooses, SystemManager sees frames only
\* between start() and the return of stop(), with ids that increase.
THEOREM CamerasImplementICamera == Spec => CameraSpec
<1>1. AbstractStep
      => [AbstractCamera!Next]_<<owner \notin {"down", "aborted"}, delivered>>
  BY DEF AbstractStep
<1> QED
  BY <1>1, CamerasInit, CamerasStep, CamerasInvariant, BackendAssumption, PTL
  DEF Spec, CameraSpec, AbstractCamera!Spec

\* No failure of start(), of a worker or of libcamera, and no race of stop(), leaves
\* a descriptor or a libcamera object behind, or a thread without what it uses.
THEOREM CamerasLeakNothing == Spec => []NothingLeaked
<1>1. CamerasInv => NothingLeaked
  BY DEF CamerasInv, NothingLeaked, SimInv, LibInv, LibTypes, LibHeld, LibThreads, Holds,
         Serving, Sim!NothingLeaked, Lib!NothingLeaked
<1> QED BY <1>1, CamerasInvariant, PTL

\* Nobody waits for a worker that was not told: what the return of stop() rests on
\* beyond the scheduling of the threads.
THEOREM StopsAreHeard == Spec => []StopIsHeard
<1>1. CamerasInv => StopIsHeard
  BY DEF CamerasInv, SimInv, LibInv, LibThreads, StopIsHeard
<1> QED BY <1>1, CamerasInvariant, PTL

\* The program gives back every request it gets: while the camera runs, only what
\* the camera itself cancelled or refused is gone.
THEOREM RequestsAreKept == Spec => []PoolKept
<1>1. CamerasInv => PoolKept
  BY DEF CamerasInv, LibInv, PoolKept
<1> QED BY <1>1, CamerasInvariant, PTL

\* Every frame emitted has all its rows, and they were read at the driver's stride
\* exactly when the plane has little slack, for any image size and any plane.
THEOREM FramesAreWhole == Spec => []WholeFrames
<1>1. CamerasInv => WholeFrames
  <2> SUFFICES ASSUME CamerasInv, backend = "Libcamera" PROVE Lib!WholeFrames
    BY DEF WholeFrames
  <2>1. /\ plane \in [length : Nat, stride : Nat] /\ plane.length \in Nat
        /\ handler = "emit" => plane.length >= Rows * RowBytes
    BY DEF CamerasInv, LibInv, LibTypes, LibFrames
  <2>2. plane.length >= Rows * RowBytes =>
            /\ Lib!Copies(plane.length)
            /\ Lib!stride(plane.length) = plane.stride <=> Lib!LittleSlack(plane)
    BY <2>1, LongPlaneCopied, StrideRecovered, BackendAssumption DEF BackendAssumption
  <2> QED BY <2>1, <2>2 DEF Lib!WholeFrames
<1> QED BY <1>1, CamerasInvariant, PTL

=============================================================================
