-------------------------- MODULE BackendCoordinator --------------------------
(***************************************************************************)
(* BackendCoordinator: the potentiometer input and the IMU, started and    *)
(* stopped together by SystemManager, each with a GPIO thread of its own;  *)
(* and the IMU half of ManualImuCoordinator, where their samples meet: an  *)
(* IMU sample is stored, and a potentiometer sample becomes a setpoint     *)
(* corrected by the latest one.                                            *)
(***************************************************************************)
EXTENDS Naturals, Sequences

CONSTANTS
    Configurations,   (* pairs of the backends requested and the feedback   *)
                      (* mode (config_.imu_feedback_mode)                   *)
    HasSpare, StartupDiscard, MaxEdges

ASSUME BackendAssumption ==
    /\ Configurations \subseteq
           [requested: SUBSET {"manual", "imu"}, mode: {"Disabled", "Shadow", "Live"}]
    /\ HasSpare \in BOOLEAN
    /\ StartupDiscard \in Nat /\ MaxEdges \in Nat \ {0}

VARIABLES
    requested,   (* manual_backend_requested_, imu_backend_requested_       *)
    call,        (* where SystemManager's start() or stop() is              *)
    sysRunning,  (* SystemManager::running_                                 *)
    mode,        (* imu_feedback_mode_                                      *)
    session,     (* history: alternates with each start()                   *)
    latest,      (* latest_imu_valid_, and the session of the sample        *)
    correction,  (* the sample the last setpoint was corrected with         *)
    owner, mutex, running, awaiting, phase, bus, gpio, edges, converting,
    result, parts, silenced, rested,                (* ADS1115ManualInput   *)
    imuOwner, imuRunning, imuBus, imuPin, imuEdges, ready, discard

callVars == <<requested, call, sysRunning, mode, session, latest, correction>>
adsVars == <<owner, mutex, running, awaiting, phase, bus, gpio, edges, converting,
             result, parts, silenced, rested>>
imuVars == <<imuOwner, imuRunning, imuBus, imuPin, imuEdges, ready, discard>>
vars == <<callVars, adsVars, imuVars>>

Ads == INSTANCE ADS1115ManualInput
Imu == INSTANCE Mpu6050Publisher

TypeOK ==
    /\ requested \subseteq {"manual", "imu"}
    /\ call \in {"down", "startManual", "manualStarting", "startImu", "imuStarting",
                 "up", "stopImu", "imuStopping", "stopManual", "manualStopping"}
    /\ sysRunning \in BOOLEAN
    /\ mode \in {"Disabled", "Shadow", "Live"}
    /\ session \in {"even", "odd"}
    /\ latest \in {"none", "even", "odd"}
    /\ correction \in {"none", "even", "odd"}
    /\ Ads!TypeOK /\ Imu!TypeOK

Init ==
    /\ \E c \in Configurations : requested = c.requested /\ mode = c.mode
    /\ call = "down" /\ sysRunning = FALSE
    /\ session = "even" /\ latest = "none" /\ correction = "none"
    /\ Ads!Init /\ Imu!Init

Go(from, to) == call = from /\ call' = to

-----------------------------------------------------------------------------
(* ManualImuCoordinator.                                                   *)

\* Mutant of Reset: the source is reset, the IMU sample is kept.
ResetSourceOnly == UNCHANGED latest

Reset == latest' = "none"

UpdateImuSample == latest' = session

\* A sample never expires, and without one a setpoint is not corrected.
ApplyImuCorrection == correction' = IF mode = "Live" THEN latest ELSE "none"

-----------------------------------------------------------------------------
(* start()                                                                 *)

Start ==
    /\ Go("down", "startManual")
    /\ sysRunning' = TRUE
    /\ session' = IF session = "even" THEN "odd" ELSE "even"
    /\ Reset
    /\ correction' = "none"
    /\ UNCHANGED <<requested, mode, adsVars, imuVars>>

\* SystemManager::start() calls stop() for a backend it cannot do without.
GiveUp == call' = "stopImu" /\ sysRunning' = FALSE

SkipManual ==
    /\ "manual" \notin requested
    /\ Go("startManual", "startImu")
    /\ UNCHANGED <<requested, session, sysRunning, mode, latest, correction, adsVars, imuVars>>

StartManual ==
    /\ "manual" \in requested
    /\ Go("startManual", "manualStarting")
    /\ Ads!Prepare
    /\ UNCHANGED <<requested, session, sysRunning, mode, latest, correction, imuVars>>

\* The bus, the thresholds or the GPIO line: ADS1115ManualInput closed them again.
ManualRefused ==
    /\ "manual" \in requested
    /\ call = "startManual"
    /\ GiveUp
    /\ UNCHANGED <<requested, session, mode, latest, correction, adsVars, imuVars>>

ManualStarted ==
    /\ call = "manualStarting"
    /\ \/ owner = "up" /\ call' = "startImu" /\ UNCHANGED sysRunning
       \/ owner = "down" /\ GiveUp
    /\ UNCHANGED <<requested, session, mode, latest, correction, adsVars, imuVars>>

StartImu ==
    /\ call = "startImu"
    /\ IF "imu" \in requested
       THEN call' = "imuStarting" /\ Imu!Open
       ELSE call' = "up" /\ UNCHANGED imuVars
    /\ UNCHANGED <<requested, session, sysRunning, mode, latest, correction, adsVars>>

\* Mutant of ImuStarted: start() returns without stopping what it started.
ImuStartedOrLeft ==
    /\ call = "imuStarting"
    /\ \/ imuOwner = "up" /\ call' = "up" /\ UNCHANGED <<sysRunning, mode>>
       \/ imuOwner = "down" /\ mode # "Live" /\ call' = "up" /\ mode' = "Disabled"
          /\ UNCHANGED sysRunning
       \/ imuOwner = "down" /\ mode = "Live" /\ call' = "down" /\ sysRunning' = FALSE
          /\ UNCHANGED mode
    /\ UNCHANGED <<requested, session, latest, correction, adsVars, imuVars>>

\* A system that is not LIVE goes on without its IMU.
ImuStarted ==
    /\ call = "imuStarting"
    /\ \/ imuOwner = "up" /\ call' = "up" /\ UNCHANGED <<sysRunning, mode>>
       \/ imuOwner = "down" /\ mode # "Live" /\ call' = "up" /\ mode' = "Disabled"
          /\ UNCHANGED sysRunning
       \/ imuOwner = "down" /\ mode = "Live" /\ GiveUp /\ UNCHANGED mode
    /\ UNCHANGED <<requested, session, latest, correction, adsVars, imuVars>>

-----------------------------------------------------------------------------
(* stop(): the IMU first, then the potentiometers.                         *)

Stop ==
    /\ Go("up", "stopImu")
    /\ sysRunning' = FALSE
    /\ UNCHANGED <<requested, session, mode, latest, correction, adsVars, imuVars>>

StopImu ==
    /\ call = "stopImu"
    /\ IF imuOwner = "up" THEN call' = "imuStopping" /\ Imu!Stop
       ELSE call' = "stopManual" /\ UNCHANGED imuVars
    /\ UNCHANGED <<requested, session, sysRunning, mode, latest, correction, adsVars>>

ImuStopped ==
    /\ imuOwner = "down"
    /\ Go("imuStopping", "stopManual")
    /\ UNCHANGED <<requested, session, sysRunning, mode, latest, correction, adsVars, imuVars>>

StopManual ==
    /\ call = "stopManual"
    /\ IF owner = "up" THEN call' = "manualStopping" /\ Ads!ClearRunning
       ELSE call' = "down" /\ UNCHANGED adsVars
    /\ UNCHANGED <<requested, session, sysRunning, mode, latest, correction, imuVars>>

ManualStopped ==
    /\ owner = "down"
    /\ Go("manualStopping", "down")
    /\ UNCHANGED <<requested, session, sysRunning, mode, latest, correction, adsVars, imuVars>>

-----------------------------------------------------------------------------
(* The callbacks.                                                          *)

\* onManualPotSample_() on the thread of the ALERT/RDY pin; the mode and the
\* source (SystemManager) decide whether it makes a setpoint.
PotSample ==
    /\ Ads!Emit
    /\ (sysRunning /\ ApplyImuCorrection) \/ UNCHANGED correction
    /\ UNCHANGED <<requested, session, call, sysRunning, mode, latest, imuVars>>

\* onImuSample_() on the thread of the data-ready pin.
ImuSample ==
    /\ Imu!Emit
    /\ IF sysRunning THEN UpdateImuSample ELSE UNCHANGED latest
    /\ UNCHANGED <<requested, session, call, sysRunning, mode, correction, adsVars>>

\* Steps the backends take by themselves.
AdsOwnerStep ==
    (Ads!StartStep \/ Ads!StopStep) /\ UNCHANGED <<callVars, imuVars>>
AdsPinStep ==
    \/ (Ads!TakeEdge \/ Ads!Ignore \/ Ads!ReadFails \/ Ads!Read)
       /\ UNCHANGED <<callVars, imuVars>>
    \/ PotSample
AdsConverts == Ads!ConversionDone /\ UNCHANGED <<callVars, imuVars>>
ImuOwnerStep ==
    (Imu!StartStep \/ Imu!StopStep) /\ UNCHANGED <<callVars, adsVars>>
ImuPinStep ==
    \/ Imu!ReadStep /\ UNCHANGED <<callVars, adsVars>>
    \/ ImuSample
ImuMeasures == Imu!Measure /\ UNCHANGED <<callVars, adsVars>>

CallStep ==
    \/ SkipManual \/ StartManual \/ ManualRefused \/ ManualStarted \/ StartImu \/ ImuStarted
    \/ StopImu \/ ImuStopped \/ StopManual \/ ManualStopped

Next ==
    \/ Start \/ Stop \/ CallStep
    \/ AdsOwnerStep \/ AdsPinStep \/ AdsConverts
    \/ ImuOwnerStep \/ ImuPinStep \/ ImuMeasures

\* The threads are scheduled and the converter converts; nothing obliges the
\* application to start or stop, nor the sensor to measure.
Fairness ==
    /\ WF_vars(CallStep) /\ WF_vars(AdsOwnerStep) /\ WF_vars(ImuOwnerStep)
    /\ WF_vars(AdsPinStep) /\ WF_vars(ImuPinStep) /\ WF_vars(AdsConverts)

Spec == Init /\ [][Next]_vars /\ Fairness

-----------------------------------------------------------------------------
(* Properties.                                                             *)

\* What SystemManager sees: a backend is up while it has a thread, a flag or an
\* open bus, and calls while its thread hands on a sample.
Phase == CASE call = "down" -> "down"
           [] call \in {"startManual", "manualStarting", "startImu", "imuStarting"} -> "starting"
           [] call = "up" -> "up"
           [] OTHER -> "stopping"

PotView == IF gpio = "emit" THEN "calling"
           ELSE IF gpio # "off" \/ running \/ bus THEN "on" ELSE "off"

ImuView == IF imuPin = "emit" THEN "calling"
           ELSE IF imuPin # "off" \/ imuRunning \/ imuBus THEN "on" ELSE "off"

Contract == INSTANCE BackendContract WITH phase <- Phase, pot <- PotView, imu <- ImuView

\* The two devices, each with its threads and failures, under their coordinator
\* are the backends that SystemManager is written for.
BackendSpec == Contract!Spec

\* A stopped system, and one whose start() failed half-way, has no GPIO thread
\* and no open bus left.
NothingLeftRunning ==
    call = "down" => /\ gpio = "off" /\ imuPin = "off"
                     /\ ~bus /\ ~imuBus /\ ~running /\ ~imuRunning

\* No setpoint is ever corrected with the attitude of an earlier session.
CorrectionOfSession == correction \in {"none", session}

\* See ADS1115ManualInput.
SampleIsWhole  == Ads!SampleIsWhole
BusOutlivesUse == Ads!BusOutlivesUse /\ Imu!BusOutlivesUse
SamplesCome    == Ads!SamplesCome
ChainUnbroken  == Ads!ChainUnbroken
JoinsNotBlocked == Ads!JoinsNotBlocked

\* Each start() and stop() comes back, though each joins threads that may be in
\* a callback.
CallsReturn == call \notin {"down", "up"} ~> call \in {"down", "up"}

=============================================================================
