------------------------------- MODULE Guidance -------------------------------
(***************************************************************************)
(* From a measurement to servo angles: SunTracker, Controller and the      *)
(* manual paths, the IMU correction and Kinematics3RRS, as SystemManager's *)
(* callbacks connect them.  One step is one measurement on its whole way;  *)
(* the steps of the threads in between are the business of SystemManager.  *)
(***************************************************************************)
EXTENDS SunTracker, Controller, Kinematics3RRS

CONSTANTS
    Frames, Thresholds, Confidences, Tilts,   (* what may be measured or set *)
    Voltages, GuiValues,
    Live                                      (* imu_feedback_mode_ is Live  *)

\* With min_confidence 0 an image without the sun would be followed to its corner.
ASSUME GuidanceAssumption ==
    /\ ControllerMinConfidence \in 1..100
    /\ Deadband \in 0..99 /\ PotDeadband \in 0..99
    /\ Gain \in Nat /\ MaxAngle \in Nat /\ MaxManual \in Nat
    /\ ImuGain \in Nat /\ ImuDeadband \in Nat /\ MaxCorrection \in Nat
    /\ FullScale \in Int /\ Supply \in Int
    /\ MinPixels \in Nat /\ ConfidenceScale \in Nat
    /\ Geometries \subseteq BOOLEAN /\ Live \in BOOLEAN
    /\ Confidences \subseteq Int /\ Voltages \subseteq Int
    /\ ImageWidth \in Int /\ ImageHeight \in Int
    /\ \A f \in Frames : /\ {f.width, f.height, f.stride, f.size} \subseteq Int
                         /\ f.bpp \in Nat
                         /\ \A p \in Pixels(f) : f.luma[p] \in Nat

VARIABLES
    threshold,       (* SunTracker's threshold                              *)
    minConfidence,   (* SystemManager's config_.controller.min_confidence   *)
    state,           (* state_, of a started system                         *)
    imu,             (* latest_imu_valid_ and latest_imu_tilt_rad_          *)
    input,           (* history: what was measured last                     *)
    setpoint,        (* the setpoint it led to                              *)
    corrected        (* and what the kinematics got of it                   *)

vars == <<threshold, minConfidence, state, imu, input, setpoint, corrected, kinematicsVars>>

GuidanceInit ==
    /\ Init
    /\ threshold \in Thresholds /\ minConfidence = ControllerMinConfidence
    /\ state \in {"SEARCHING", "MANUAL"}
    /\ imu = [valid |-> FALSE, tilt |-> 0]
    /\ input = [kind |-> "none"]
    /\ setpoint = Neutral /\ corrected = Neutral

\* applyImuCorrection() and onSetpoint(); an invalid configuration is a fault.
Send(sp, mode) ==
    /\ setpoint' = sp
    /\ state' = IF valid THEN mode ELSE "FAULT"
    /\ corrected' = IF Live THEN Corrected(sp, imu.valid, imu.tilt) ELSE sp
    /\ Solve(corrected')

\* A malformed frame yields no estimate, and none is processed in MANUAL or FAULT.
Frame(f) ==
    /\ state \in {"SEARCHING", "TRACKING"} /\ isFrameValid(f)
    /\ LET estimate == Estimate(f, threshold)
       IN  /\ Send(OnEstimate(estimate),
                   IF estimate.confidence >= minConfidence THEN "TRACKING" ELSE "SEARCHING")
           /\ input' = [kind |-> "frame", frame |-> f, threshold |-> threshold]
    /\ UNCHANGED <<threshold, minConfidence, imu>>

Pot(tilt, pan) ==
    /\ state = "MANUAL"
    /\ input' = [kind |-> "pot", tilt |-> tilt, pan |-> pan]
    /\ Send(FromPot(tilt, pan), state)
    /\ UNCHANGED <<threshold, minConfidence, imu>>

Gui(tilt, pan) ==
    /\ state = "MANUAL"
    /\ input' = [kind |-> "gui", tilt |-> tilt, pan |-> pan]
    /\ Send(FromGui(tilt, pan), state)
    /\ UNCHANGED <<threshold, minConfidence, imu>>

\* updateImuSample() with the estimate of ImuTiltEstimator.
ImuSample(tilt) ==
    /\ imu' = [valid |-> TRUE, tilt |-> tilt]
    /\ UNCHANGED <<threshold, minConfidence, state, input, setpoint, corrected,
                   kinematicsVars>>

EnterManual ==
    /\ state' = "MANUAL"
    /\ UNCHANGED <<threshold, minConfidence, imu, input, setpoint, corrected,
                   kinematicsVars>>

ExitManual ==
    /\ state' = "SEARCHING"
    /\ UNCHANGED <<threshold, minConfidence, imu, input, setpoint, corrected,
                   kinematicsVars>>

SetTrackerThreshold(t) ==
    /\ threshold' = t
    /\ UNCHANGED <<minConfidence, state, imu, input, setpoint, corrected,
                   kinematicsVars>>

\* The Controller keeps the threshold it was constructed with.
SetMinConfidence(c) ==
    /\ minConfidence' = c
    /\ UNCHANGED <<threshold, state, imu, input, setpoint, corrected,
                   kinematicsVars>>

Next ==
    \/ \E f \in Frames : Frame(f)
    \/ \E tilt, pan \in Voltages : Pot(tilt, pan)
    \/ \E tilt, pan \in GuiValues : Gui(tilt, pan)
    \/ \E tilt \in Tilts : ImuSample(tilt)
    \/ EnterManual \/ ExitManual
    \/ \E t \in Thresholds : SetTrackerThreshold(t)
    \/ \E c \in Confidences : SetMinConfidence(c)

Spec == GuidanceInit /\ [][Next]_vars

-----------------------------------------------------------------------------
(* Properties.                                                             *)

\* The tracker never reads past the end of a frame it accepted, whatever
\* geometry a camera claims for it.
ReadsInside ==
    input.kind = "frame" =>
        \A p \in Pixels(input.frame) : BytesRead(input.frame, p) \subseteq 0 .. input.frame.size - 1

\* A sun on one side of the image never drives the platform to the other side,
\* through centroid, deadband, gain and limit.
SteersTowardsSun ==
    input.kind = "frame" =>
        LET sun == {p \in Pixels(input.frame) : input.frame.luma[p] >= input.threshold}
        IN  /\ (\A p \in sun : 2 * p[1] >= ImageWidth) => setpoint.pan >= 0
            /\ (\A p \in sun : 2 * (p[1] + 1) <= ImageWidth) => setpoint.pan <= 0
            /\ (\A p \in sun : 2 * p[2] >= ImageHeight) => setpoint.tilt >= 0
            /\ (\A p \in sun : 2 * (p[2] + 1) <= ImageHeight) => setpoint.tilt <= 0

\* The ends and the middle of a potentiometer's travel are those of the
\* platform's manual range, through converter, scaling, mapping and limits.
PotTravel ==
    input.kind = "pot" =>
        /\ input.pan = 0 => setpoint.pan = -Within(MaxManual, MaxAngle)
        /\ input.pan >= Supply => setpoint.pan = Within(MaxManual, MaxAngle)
        /\ 2 * input.pan = Supply => setpoint.pan = 0
        /\ input.tilt = input.pan =>
               setpoint.tilt = IF InvertTilt THEN -setpoint.pan ELSE setpoint.pan

\* The solutions of a leg in which the horn points up.
Uprights(sp, leg) ==
    IF Reachable(sp, leg) THEN {q \in {wrapAngle(Branches(sp, leg)[i]) : i \in 1..2} : Upward(q)}
    ELSE {}

\* The pose alone decides: a leg with a single upright solution stands in it,
\* whatever poses came before.  The solver starts from the branch it was in and
\* switches when that points down, so that its history might show.
PoseDecides ==
    valid /\ input.kind # "none" =>
        \A leg \in Legs : \A q \in Uprights(corrected, leg) :
            Uprights(corrected, leg) = {q} => command.targets[leg] = Servo(q)

\* A leg with two upright solutions stands in one that depends on its history, but
\* does not move while the pose is asked for again.  Without an upright one it
\* alternates between the two that point down.
Repeatable ==
    [][(input.kind # "none" /\ corrected' = corrected) =>
           \A leg \in Legs : ~Reachable(corrected, leg) \/ Uprights(corrected, leg) # {}
                             => command'.targets[leg] = command.targets[leg]]_vars

\* A leg that cannot be solved, or any leg of an impossible platform, stays where
\* it was, whatever the others do, and the command says so.
FallbackHolds ==
    [][(command' # command) =>
           /\ \A leg \in Legs : ~valid \/ ~Reachable(corrected', leg) =>
                                    command'.targets[leg] = command.targets[leg]
           /\ (command'.status = "Ok") =
                  (valid /\ \A leg \in Legs : Reachable(corrected', leg))]_vars

=============================================================================
