---------------------------- MODULE SystemManager ----------------------------
(***************************************************************************)
(* The runtime core: SystemManager with the GuiManualDispatcher it owns,   *)
(* the manual/IMU backends it starts and the policy flags it shares with   *)
(* ManualImuCoordinator.                                                   *)
(*                                                                         *)
(* Threads: the application thread (CLI event loop or Qt thread) that      *)
(* calls start(), stop() and the mode API; the camera thread; the control  *)
(* thread; the actuator thread; the ADS1115 callback thread; the GUI       *)
(* dispatcher's worker.  Each has a program counter; one step is one       *)
(* access to shared state (an atomic load or store, a queue operation, the *)
(* locked solve of Kinematics3RRS).  Queue operations are indivisible and  *)
(* a blocked wait_pop() is a step that is not enabled: that is what        *)
(* ThreadSafeQueue is shown to implement.                                  *)
(*                                                                         *)
(* A frame is only as good as the session it was captured in, a command    *)
(* likewise: "new" and "motion" become "old" when a later start() begins.  *)
(***************************************************************************)
EXTENDS LatestQueue, FiniteSets

CONSTANTS
    FrameCap,        (* capacity of frame_q_ (2 in the code)                *)
    CmdCap,          (* capacity of cmd_q_ (8 in the code)                  *)
    HasCamera,       (* camera_ is not null                                 *)
    GeometryValid,   (* Kinematics3RRS::Config describes a real platform    *)
    ManualStartup,   (* config_.startup_mode == Manual                      *)
    InitialImuMode,  (* config_.imu_feedback_mode                           *)
    Backends,        (* requested backends, a subset of {"manual", "imu"}   *)
    MayFail          (* what may fail to start: "driver", "manual", "imu",  *)
                     (* "camera"                                            *)

ImuModes == {"Disabled", "Shadow", "Live"}

ASSUME SystemAssumption ==
    /\ FrameCap \in Nat \ {0}
    /\ CmdCap \in Nat \ {0}
    /\ HasCamera \in BOOLEAN
    /\ GeometryValid \in BOOLEAN
    /\ ManualStartup \in BOOLEAN
    /\ InitialImuMode \in ImuModes
    /\ Backends \subseteq {"manual", "imu"}
    /\ MayFail \subseteq {"driver", "manual", "imu", "camera"}

VARIABLES
    app,        (* application thread                                       *)
    failing,    (* the stop() in progress was called by a failing start()   *)
    popped,     (* maybe_cmd of applyNeutralOnce_()                         *)
    running,    (* running_                                                 *)
    state,      (* state_                                                   *)
    source,     (* manual_source_                                           *)
    imuMode,    (* imu_feedback_mode_                                       *)
    driver,     (* ServoDriver::running_                                    *)
    camera,     (* the camera delivers frames                               *)
    imu,        (* the IMU backend is started                               *)
    ctl,        (* control thread                                           *)
    act,        (* actuator thread                                          *)
    pot,        (* ADS1115 callback thread                                  *)
    gui,        (* GuiManualDispatcher::worker_                             *)
    guiRun,     (* GuiManualDispatcher::running_                            *)
    frameQ, frameStop,     (* frame_q_                                      *)
    cmdQ, cmdStop,         (* cmd_q_                                        *)
    guiQ, guiStop          (* GuiManualDispatcher::queue_                   *)

appVars   == <<app, failing, popped>>
modeVars  == <<state, source, imuMode>>
unitVars  == <<driver, camera, imu>>
frameVars == <<frameQ, frameStop>>
cmdVars   == <<cmdQ, cmdStop>>
guiVars   == <<guiQ, guiStop>>

vars == <<app, failing, popped, running, state, source, imuMode, driver, camera,
          imu, ctl, act, pot, gui, guiRun, frameQ, frameStop, cmdQ, cmdStop,
          guiQ, guiStop>>

TrackerStates == {"IDLE", "STARTUP", "NEUTRAL", "SEARCHING", "TRACKING",
                  "MANUAL", "STOPPING", "FAULT"}

\* The stage each program counter is about to execute.
StartPoints == {"startDriver", "startThreads", "startManual", "startImu",
                "startCamera", "setNeutral", "park", "parkApply", "setMode",
                "setSource"}
StopPoints  == {"setStopping", "stopCamera", "stopImu", "joinPot", "stopGui",
                "stopGuiQueue", "joinGui", "stopFrames", "stopCommands",
                "joinControl", "joinActuator", "neutral", "popLeftover",
                "last", "lastApply", "stopDriver", "setIdle", "setFault"}
AppPoints   == {"idle", "setManual"} \cup StartPoints \cup StopPoints
CtlPoints   == {"none", "wait", "running", "mode", "track", "estRunning",
                "estMode", "setMode", "estAgain", "spRunning", "spMode",
                "solve", "done"}
ActPoints   == {"none", "wait", "running", "command", "apply", "done"}
PotPoints   == {"off", "wait", "mode", "source", "buildMode", "buildSource", "solve"}
GuiPoints   == {"none", "wait", "running", "mode", "source", "buildMode",
                "own", "solve", "done"}

Commands == {"motion", "neutral", "old"}

TypeOK ==
    /\ app \in AppPoints /\ failing \in BOOLEAN
    /\ popped \in Commands \cup {"none"}
    /\ running \in BOOLEAN
    /\ state \in TrackerStates
    /\ source \in {"Pot", "Gui"}
    /\ imuMode \in ImuModes
    /\ driver \in BOOLEAN /\ camera \in BOOLEAN /\ imu \in BOOLEAN
    /\ ctl \in CtlPoints /\ act \in ActPoints
    /\ pot \in PotPoints /\ gui \in GuiPoints
    /\ guiRun \in BOOLEAN
    /\ frameQ \in Seq({"new", "old"}) /\ frameStop \in BOOLEAN
    /\ cmdQ \in Seq(Commands) /\ cmdStop \in BOOLEAN
    /\ guiQ \in Seq({"new", "old"}) /\ guiStop \in BOOLEAN

Init ==
    /\ app = "idle" /\ failing = FALSE /\ popped = "none"
    /\ running = FALSE
    /\ state = "IDLE"
    /\ source = "Pot"
    /\ imuMode = InitialImuMode
    /\ driver = FALSE /\ camera = FALSE /\ imu = FALSE
    /\ ctl = "none" /\ act = "none" /\ pot = "off" /\ gui = "none"
    /\ guiRun = FALSE
    /\ frameQ = <<>> /\ frameStop = FALSE
    /\ cmdQ = <<>> /\ cmdStop = FALSE
    /\ guiQ = <<>> /\ guiStop = FALSE

-----------------------------------------------------------------------------
(* Shared operations.                                                      *)

CanAutoProcess(s) == s \in {"SEARCHING", "TRACKING"}

AppGo(from, to) == app = from /\ app' = to
CtlGo(from, to) == ctl = from /\ ctl' = to
ActGo(from, to) == act = from /\ act' = to
PotGo(from, to) == pot = from /\ pot' = to
GuiGo(from, to) == gui = from /\ gui' = to

\* Mutant of Solve: the command of an invalid configuration is queued as well.
SolveUnchecked(command) ==
    /\ cmdQ' = IF cmdStop THEN cmdQ ELSE KeepLatest(cmdQ, CmdCap, command)
    /\ state' = IF GeometryValid THEN state ELSE "FAULT"

\* Kinematics3RRS::onSetpoint() and the command callback it runs under
\* ik_mtx_: an invalid configuration faults, a solved command is queued.
Solve(command) ==
    IF GeometryValid
    THEN /\ cmdQ' = IF cmdStop THEN cmdQ ELSE KeepLatest(cmdQ, CmdCap, command)
         /\ UNCHANGED state
    ELSE state' = "FAULT" /\ UNCHANGED cmdQ

\* What an earlier session left in a queue.
Aged(q) == [i \in DOMAIN q |-> "old"]

-----------------------------------------------------------------------------
(* start()                                                                 *)

\* A start that fails after the threads exist calls stop() itself.
FailStart ==
    /\ app' = "setStopping"
    /\ failing' = TRUE
    /\ running' = FALSE
    /\ UNCHANGED popped

StartCall ==
    /\ ~running
    /\ AppGo("idle", "startDriver")
    /\ running' = TRUE
    /\ state' = "STARTUP"
    /\ frameQ' = Aged(frameQ) /\ cmdQ' = Aged(cmdQ) /\ guiQ' = Aged(guiQ)
    /\ UNCHANGED <<failing, popped, source, imuMode, unitVars, ctl, act, pot, gui,
                   guiRun, frameStop, cmdStop, guiStop>>

\* Null camera, or ServoDriver::start() failed: nothing to undo.
StartRefused ==
    /\ ~HasCamera \/ "driver" \in MayFail
    /\ AppGo("startDriver", "idle")
    /\ state' = "FAULT"
    /\ running' = FALSE
    /\ UNCHANGED <<failing, popped, source, imuMode, unitVars, ctl, act, pot, gui,
                   guiRun, frameVars, cmdVars, guiVars>>

StartDriver ==
    /\ HasCamera
    /\ AppGo("startDriver", "startThreads")
    /\ driver' = TRUE
    /\ UNCHANGED <<failing, popped, running, modeVars, camera, imu, ctl, act, pot,
                   gui, guiRun, frameVars, cmdVars, guiVars>>

\* Mutant of StartThreads: cmd_q_ is reset but not cleared.
StartThreadsUncleared ==
    /\ AppGo("startThreads", "startManual")
    /\ frameQ' = <<>> /\ frameStop' = FALSE
    /\ cmdStop' = FALSE
    /\ source' = "Pot"
    /\ guiStop' = FALSE /\ guiRun' = TRUE /\ gui' = "wait"
    /\ ctl' = "wait" /\ act' = "wait"
    /\ UNCHANGED <<failing, popped, running, state, imuMode, unitVars, pot, cmdQ, guiQ>>

\* Queues cleared and reset, coordinator reset, dispatcher and workers
\* spawned.  No other thread exists before this step.
StartThreads ==
    /\ AppGo("startThreads", "startManual")
    /\ frameQ' = <<>> /\ frameStop' = FALSE
    /\ cmdQ' = <<>> /\ cmdStop' = FALSE
    /\ source' = "Pot"
    /\ guiStop' = FALSE /\ guiRun' = TRUE /\ gui' = "wait"
    /\ ctl' = "wait" /\ act' = "wait"
    /\ UNCHANGED <<failing, popped, running, state, imuMode, unitVars, pot, guiQ>>

StartManual ==
    /\ app = "startManual"
    /\ \/ /\ app' = "startImu"
          /\ pot' = IF "manual" \in Backends THEN "wait" ELSE "off"
          /\ UNCHANGED <<failing, popped, running>>
       \/ /\ "manual" \in Backends \cap MayFail
          /\ FailStart
          /\ UNCHANGED pot
    /\ UNCHANGED <<modeVars, unitVars, ctl, act, gui, guiRun, frameVars, cmdVars,
                   guiVars>>

\* Mutant of StartImu: a failed IMU is only logged.
StartImuTolerant ==
    /\ AppGo("startImu", "startCamera")
    /\ imu' \in {"imu" \in Backends, "imu" \in Backends \ MayFail}
    /\ UNCHANGED <<failing, popped, running, modeVars, driver, camera, ctl, act, pot,
                   gui, guiRun, frameVars, cmdVars, guiVars>>

\* Only a LIVE system refuses to run without its IMU; others go on, and the
\* downgrade is never undone.
StartImu ==
    /\ app = "startImu"
    /\ \/ /\ app' = "startCamera"
          /\ imu' = ("imu" \in Backends)
          /\ UNCHANGED <<failing, popped, running, imuMode>>
       \/ /\ "imu" \in Backends \cap MayFail
          /\ imuMode # "Live"
          /\ app' = "startCamera"
          /\ imuMode' = "Disabled"
          /\ UNCHANGED <<failing, popped, running, imu>>
       \/ /\ "imu" \in Backends \cap MayFail
          /\ imuMode = "Live"
          /\ FailStart
          /\ UNCHANGED <<imu, imuMode>>
    /\ UNCHANGED <<state, source, driver, camera, ctl, act, pot, gui, guiRun,
                   frameVars, cmdVars, guiVars>>

\* Mutant of StartCamera: start() fails without calling stop().
StartCameraAbandoned ==
    /\ app = "startCamera"
    /\ \/ app' = "setNeutral" /\ camera' = TRUE /\ UNCHANGED <<running, state>>
       \/ /\ "camera" \in MayFail
          /\ app' = "idle" /\ running' = FALSE /\ state' = "FAULT"
          /\ UNCHANGED camera
    /\ UNCHANGED <<failing, popped, source, imuMode, driver, imu, ctl, act, pot, gui,
                   guiRun, frameVars, cmdVars, guiVars>>

StartCamera ==
    /\ app = "startCamera"
    /\ \/ /\ app' = "setNeutral"
          /\ camera' = TRUE
          /\ UNCHANGED <<failing, popped, running>>
       \/ /\ "camera" \in MayFail
          /\ FailStart
          /\ UNCHANGED camera
    /\ UNCHANGED <<modeVars, driver, imu, ctl, act, pot, gui, guiRun, frameVars,
                   cmdVars, guiVars>>

SetNeutral ==
    /\ AppGo("setNeutral", "park")
    /\ state' = "NEUTRAL"
    /\ UNCHANGED <<failing, popped, running, source, imuMode, unitVars, ctl, act,
                   pot, gui, guiRun, frameVars, cmdVars, guiVars>>

\* applyParkOnce_(): ActuatorManager::onCommand() on the calling thread, first
\* its slew-limited history, then the driver.
Park ==
    /\ \/ AppGo("park", "parkApply")
       \/ AppGo("parkApply", "setMode")
    /\ UNCHANGED <<failing, popped, running, modeVars, unitVars, ctl, act, pot,
                   gui, guiRun, frameVars, cmdVars, guiVars>>

SetStartupMode ==
    /\ app = "setMode"
    /\ IF ManualStartup
       THEN app' = "setSource" /\ state' = "MANUAL"
       ELSE app' = "idle" /\ state' = "SEARCHING"
    /\ UNCHANGED <<failing, popped, running, source, imuMode, unitVars, ctl, act,
                   pot, gui, guiRun, frameVars, cmdVars, guiVars>>

SetStartupSource ==
    /\ AppGo("setSource", "idle")
    /\ source' = "Pot"
    /\ UNCHANGED <<failing, popped, running, state, imuMode, unitVars, ctl, act,
                   pot, gui, guiRun, frameVars, cmdVars, guiVars>>

-----------------------------------------------------------------------------
(* stop(), called by the application or by a failing start().              *)

StopCall ==
    /\ running
    /\ AppGo("idle", "setStopping")
    /\ running' = FALSE
    /\ UNCHANGED <<failing, popped, modeVars, unitVars, ctl, act, pot, gui, guiRun,
                   frameVars, cmdVars, guiVars>>

SetStopping ==
    /\ AppGo("setStopping", "stopCamera")
    /\ state' = "STOPPING"
    /\ UNCHANGED <<failing, popped, running, source, imuMode, unitVars, ctl, act,
                   pot, gui, guiRun, frameVars, cmdVars, guiVars>>

StopCamera ==
    /\ AppGo("stopCamera", "stopImu")
    /\ camera' = FALSE
    /\ UNCHANGED <<failing, popped, running, modeVars, driver, imu, ctl, act, pot,
                   gui, guiRun, frameVars, cmdVars, guiVars>>

\* BackendCoordinator::stop(): the IMU, then the manual input, whose callback
\* thread is joined; from here on no new ADS1115 callback begins.
StopImu ==
    /\ AppGo("stopImu", "joinPot")
    /\ imu' = FALSE
    /\ UNCHANGED <<failing, popped, running, modeVars, driver, camera, ctl, act,
                   pot, gui, guiRun, frameVars, cmdVars, guiVars>>

JoinPot ==
    /\ pot \in {"off", "wait"}
    /\ AppGo("joinPot", "stopGui")
    /\ pot' = "off"
    /\ UNCHANGED <<failing, popped, running, modeVars, unitVars, ctl, act, gui,
                   guiRun, frameVars, cmdVars, guiVars>>

\* GuiManualDispatcher::stop().
StopGui ==
    /\ AppGo("stopGui", "stopGuiQueue")
    /\ guiRun' = FALSE
    /\ UNCHANGED <<failing, popped, running, modeVars, unitVars, ctl, act, pot, gui,
                   frameVars, cmdVars, guiVars>>

StopGuiQueue ==
    /\ AppGo("stopGuiQueue", "joinGui")
    /\ guiStop' = TRUE
    /\ UNCHANGED <<failing, popped, running, modeVars, unitVars, ctl, act, pot, gui,
                   guiRun, frameVars, cmdVars, guiQ>>

JoinGui ==
    /\ gui = "done"
    /\ AppGo("joinGui", "stopFrames")
    /\ gui' = "none"
    /\ UNCHANGED <<failing, popped, running, modeVars, unitVars, ctl, act, pot,
                   guiRun, frameVars, cmdVars, guiVars>>

StopFrames ==
    /\ AppGo("stopFrames", "stopCommands")
    /\ frameStop' = TRUE
    /\ UNCHANGED <<failing, popped, running, modeVars, unitVars, ctl, act, pot, gui,
                   guiRun, frameQ, cmdVars, guiVars>>

\* Mutant of StopCommands: cmd_q_ is not stopped.
StopCommandsForgotten ==
    /\ AppGo("stopCommands", "joinControl")
    /\ UNCHANGED <<failing, popped, running, modeVars, unitVars, ctl, act, pot, gui,
                   guiRun, frameVars, cmdVars, guiVars>>

StopCommands ==
    /\ AppGo("stopCommands", "joinControl")
    /\ cmdStop' = TRUE
    /\ UNCHANGED <<failing, popped, running, modeVars, unitVars, ctl, act, pot, gui,
                   guiRun, frameVars, cmdQ, guiVars>>

JoinControl ==
    /\ ctl = "done"
    /\ AppGo("joinControl", "joinActuator")
    /\ ctl' = "none"
    /\ UNCHANGED <<failing, popped, running, modeVars, unitVars, act, pot, gui,
                   guiRun, frameVars, cmdVars, guiVars>>

\* Mutant of JoinActuator: the thread is detached, not joined.
DetachActuator ==
    /\ AppGo("joinActuator", "neutral")
    /\ UNCHANGED <<failing, popped, running, modeVars, unitVars, ctl, act, pot, gui,
                   guiRun, frameVars, cmdVars, guiVars>>

JoinActuator ==
    /\ act = "done"
    /\ AppGo("joinActuator", "neutral")
    /\ act' = "none"
    /\ UNCHANGED <<failing, popped, running, modeVars, unitVars, ctl, pot, gui,
                   guiRun, frameVars, cmdVars, guiVars>>

\* applyNeutralOnce_(): solve for (0, 0), then take one command from the
\* queue and act on it.
SolveNeutral ==
    /\ AppGo("neutral", "popLeftover")
    /\ Solve("neutral")
    /\ UNCHANGED <<failing, popped, running, source, imuMode, unitVars, ctl, act,
                   pot, gui, guiRun, frameVars, cmdStop, guiVars>>

PopLeftover ==
    /\ app = "popLeftover"
    /\ IF cmdQ = <<>>
       THEN app' = "stopDriver" /\ UNCHANGED <<popped, cmdQ>>
       ELSE app' = "last" /\ popped' = Head(cmdQ) /\ cmdQ' = Tail(cmdQ)
    /\ UNCHANGED <<failing, running, modeVars, unitVars, ctl, act, pot, gui, guiRun,
                   frameVars, cmdStop, guiVars>>

LastCommand ==
    /\ \/ AppGo("last", "lastApply") /\ UNCHANGED popped
       \/ AppGo("lastApply", "stopDriver") /\ popped' = "none"
    /\ UNCHANGED <<failing, running, modeVars, unitVars, ctl, act, pot, gui, guiRun,
                   frameVars, cmdVars, guiVars>>

StopDriver ==
    /\ AppGo("stopDriver", "setIdle")
    /\ driver' = FALSE
    /\ UNCHANGED <<failing, popped, running, modeVars, camera, imu, ctl, act, pot,
                   gui, guiRun, frameVars, cmdVars, guiVars>>

SetIdle ==
    /\ AppGo("setIdle", IF failing THEN "setFault" ELSE "idle")
    /\ state' = "IDLE"
    /\ UNCHANGED <<failing, popped, running, source, imuMode, unitVars, ctl, act,
                   pot, gui, guiRun, frameVars, cmdVars, guiVars>>

\* start() reports its failure after the stop() it made.
SetFault ==
    /\ AppGo("setFault", "idle")
    /\ state' = "FAULT"
    /\ failing' = FALSE
    /\ UNCHANGED <<popped, running, source, imuMode, unitVars, ctl, act, pot, gui,
                   guiRun, frameVars, cmdVars, guiVars>>

-----------------------------------------------------------------------------
(* The mode API, between two lifecycle calls.                              *)

\* enterManual(): the source first, then the state; running_ is not read.
EnterManual ==
    /\ \/ AppGo("idle", "setManual") /\ source' = "Pot" /\ UNCHANGED state
       \/ AppGo("setManual", "idle") /\ state' = "MANUAL" /\ UNCHANGED source
    /\ UNCHANGED <<failing, popped, running, imuMode, unitVars, ctl, act, pot, gui,
                   guiRun, frameVars, cmdVars, guiVars>>

ExitManual ==
    /\ AppGo("idle", "idle")
    /\ state' = IF running THEN "SEARCHING" ELSE "IDLE"
    /\ UNCHANGED <<failing, popped, running, source, imuMode, unitVars, ctl, act,
                   pot, gui, guiRun, frameVars, cmdVars, guiVars>>

SelectSource(src) ==
    /\ AppGo("idle", "idle")
    /\ source' = src
    /\ UNCHANGED <<failing, popped, running, state, imuMode, unitVars, ctl, act, pot,
                   gui, guiRun, frameVars, cmdVars, guiVars>>

\* setManualSetpoint(): dropped when the dispatcher is not running; its queue
\* holds one setpoint, the latest.
SetManualSetpoint ==
    /\ AppGo("idle", "idle")
    /\ guiRun /\ ~guiStop
    /\ guiQ' = KeepLatest(guiQ, 1, "new")
    /\ UNCHANGED <<failing, popped, running, modeVars, unitVars, ctl, act, pot, gui,
                   guiRun, frameVars, cmdVars, guiStop>>

-----------------------------------------------------------------------------
(* Camera thread: onFrame_().                                              *)

CameraFrame ==
    /\ camera /\ ~frameStop
    /\ frameQ' = KeepLatest(frameQ, FrameCap, "new")
    /\ UNCHANGED <<appVars, running, modeVars, unitVars, ctl, act, pot, gui, guiRun,
                   frameStop, cmdVars, guiVars>>

-----------------------------------------------------------------------------
(* Control thread: controlLoop_() and, through the callbacks it runs, the  *)
(* estimate, setpoint and command callbacks of initialiseCallbacks_().     *)

CtlUnchanged == UNCHANGED <<appVars, running, source, imuMode, unitVars, act, pot,
                            gui, guiRun, frameStop, cmdStop, guiVars>>

CtlPop ==
    /\ CtlGo("wait", "running")
    /\ frameQ # <<>>
    /\ frameQ' = Tail(frameQ)
    /\ CtlUnchanged /\ UNCHANGED <<state, cmdQ>>

CtlNone ==
    /\ CtlGo("wait", "done")
    /\ frameQ = <<>> /\ frameStop
    /\ CtlUnchanged /\ UNCHANGED <<state, frameQ, cmdQ>>

CtlRunning ==
    /\ CtlGo("running", IF running THEN "mode" ELSE "done")
    /\ CtlUnchanged /\ UNCHANGED <<state, frameQ, cmdQ>>

\* Frames are drained, not processed, outside the automatic states.
CtlMode ==
    /\ CtlGo("mode", IF CanAutoProcess(state) THEN "track" ELSE "wait")
    /\ CtlUnchanged /\ UNCHANGED <<state, frameQ, cmdQ>>

\* SunTracker::onFrame() ignores a malformed frame.
CtlTrack ==
    /\ CtlGo("track", "estRunning") \/ CtlGo("track", "wait")
    /\ CtlUnchanged /\ UNCHANGED <<state, frameQ, cmdQ>>

EstimateRunning ==
    /\ CtlGo("estRunning", IF running THEN "estMode" ELSE "wait")
    /\ CtlUnchanged /\ UNCHANGED <<state, frameQ, cmdQ>>

EstimateMode ==
    /\ CtlGo("estMode", IF CanAutoProcess(state) THEN "setMode" ELSE "wait")
    /\ CtlUnchanged /\ UNCHANGED <<state, frameQ, cmdQ>>

\* The confidence of the estimate decides, whatever state_ has become.
EstimateSetMode ==
    /\ CtlGo("setMode", "estAgain")
    /\ state' \in {"SEARCHING", "TRACKING"}
    /\ CtlUnchanged /\ UNCHANGED <<frameQ, cmdQ>>

EstimateAgain ==
    /\ CtlGo("estAgain", IF CanAutoProcess(state) THEN "spRunning" ELSE "wait")
    /\ CtlUnchanged /\ UNCHANGED <<state, frameQ, cmdQ>>

SetpointRunning ==
    /\ CtlGo("spRunning", IF running THEN "spMode" ELSE "wait")
    /\ CtlUnchanged /\ UNCHANGED <<state, frameQ, cmdQ>>

SetpointMode ==
    /\ CtlGo("spMode", IF CanAutoProcess(state) THEN "solve" ELSE "wait")
    /\ CtlUnchanged /\ UNCHANGED <<state, frameQ, cmdQ>>

CtlSolve ==
    /\ CtlGo("solve", "wait")
    /\ Solve("motion")
    /\ CtlUnchanged /\ UNCHANGED frameQ

CtlStep ==
    \/ CtlPop \/ CtlNone \/ CtlRunning \/ CtlMode \/ CtlTrack
    \/ EstimateRunning \/ EstimateMode \/ EstimateSetMode \/ EstimateAgain
    \/ SetpointRunning \/ SetpointMode \/ CtlSolve

-----------------------------------------------------------------------------
(* Actuator thread: actuatorLoop_(), ActuatorManager::onCommand(), driver. *)

ActUnchanged == UNCHANGED <<appVars, running, modeVars, unitVars, ctl, pot, gui,
                            guiRun, frameVars, cmdStop, guiVars>>

ActPop ==
    /\ ActGo("wait", "running")
    /\ cmdQ # <<>>
    /\ cmdQ' = Tail(cmdQ)
    /\ ActUnchanged

ActNone ==
    /\ ActGo("wait", "done")
    /\ cmdQ = <<>> /\ cmdStop
    /\ ActUnchanged /\ UNCHANGED cmdQ

ActRunning ==
    /\ ActGo("running", IF running THEN "command" ELSE "done")
    /\ ActUnchanged /\ UNCHANGED cmdQ

\* onCommand(): the history is updated under its lock, the driver is called
\* after the lock is released.
ActCommand ==
    /\ ActGo("command", "apply") \/ ActGo("apply", "wait")
    /\ ActUnchanged /\ UNCHANGED cmdQ

ActStep == ActPop \/ ActNone \/ ActRunning \/ ActCommand

-----------------------------------------------------------------------------
(* ADS1115 callback thread: onManualPotSample_() and                       *)
(* ManualImuCoordinator::buildManualSetpointFromPot().                     *)

PotUnchanged == UNCHANGED <<appVars, running, source, imuMode, unitVars, ctl, act,
                            gui, guiRun, frameVars, cmdStop, guiVars>>

\* Mutant of PotSample: running_ is not read.
PotSampleLate ==
    /\ PotGo("wait", "mode")
    /\ PotUnchanged /\ UNCHANGED <<state, cmdQ>>

PotSample ==
    /\ PotGo("wait", "mode")
    /\ running
    /\ PotUnchanged /\ UNCHANGED <<state, cmdQ>>

PotMode ==
    /\ \/ PotGo("mode", IF state = "MANUAL" THEN "source" ELSE "wait")
       \/ PotGo("buildMode", IF state = "MANUAL" THEN "buildSource" ELSE "wait")
    /\ PotUnchanged /\ UNCHANGED <<state, cmdQ>>

PotSource ==
    /\ \/ PotGo("source", IF source = "Pot" THEN "buildMode" ELSE "wait")
       \/ PotGo("buildSource", IF source = "Pot" THEN "solve" ELSE "wait")
    /\ PotUnchanged /\ UNCHANGED <<state, cmdQ>>

PotSolve ==
    /\ PotGo("solve", "wait")
    /\ Solve("motion")
    /\ PotUnchanged

PotStep == PotMode \/ PotSource \/ PotSolve

-----------------------------------------------------------------------------
(* GUI dispatcher worker: workerLoop_() and dispatch_(), with              *)
(* ManualImuCoordinator::buildManualSetpointFromGui().                     *)

GuiUnchanged == UNCHANGED <<appVars, running, imuMode, unitVars, ctl, act, pot,
                            guiRun, frameVars, cmdStop, guiStop>>

GuiPop ==
    /\ GuiGo("wait", "running")
    /\ guiQ # <<>>
    /\ guiQ' = Tail(guiQ)
    /\ GuiUnchanged /\ UNCHANGED <<state, source, cmdQ>>

GuiNone ==
    /\ GuiGo("wait", "done")
    /\ guiQ = <<>> /\ guiStop
    /\ GuiUnchanged /\ UNCHANGED <<state, source, cmdQ, guiQ>>

GuiRunning ==
    /\ GuiGo("running", IF guiRun THEN "mode" ELSE "done")
    /\ GuiUnchanged /\ UNCHANGED <<state, source, cmdQ, guiQ>>

GuiMode ==
    /\ \/ GuiGo("mode", IF state = "MANUAL" THEN "source" ELSE "wait")
       \/ GuiGo("buildMode", IF state = "MANUAL" THEN "own" ELSE "wait")
    /\ GuiUnchanged /\ UNCHANGED <<state, source, cmdQ, guiQ>>

GuiSource ==
    /\ GuiGo("source", IF source = "Gui" THEN "buildMode" ELSE "wait")
    /\ GuiUnchanged /\ UNCHANGED <<state, source, cmdQ, guiQ>>

\* The coordinator gives the path to the GUI, whoever owns it by now.
GuiOwn ==
    /\ GuiGo("own", "solve")
    /\ source' = "Gui"
    /\ GuiUnchanged /\ UNCHANGED <<state, cmdQ, guiQ>>

GuiSolve ==
    /\ GuiGo("solve", "wait")
    /\ Solve("motion")
    /\ GuiUnchanged /\ UNCHANGED <<source, guiQ>>

GuiStep == GuiPop \/ GuiNone \/ GuiRunning \/ GuiMode \/ GuiSource \/ GuiOwn \/ GuiSolve

-----------------------------------------------------------------------------
\* The steps start() and stop() take once called.
LifecycleStep ==
    \/ StartRefused \/ StartDriver \/ StartThreads \/ StartManual \/ StartImu
    \/ StartCamera \/ SetNeutral \/ Park \/ SetStartupMode \/ SetStartupSource
    \/ SetStopping \/ StopCamera \/ StopImu \/ JoinPot \/ StopGui \/ StopGuiQueue
    \/ JoinGui \/ StopFrames \/ StopCommands \/ JoinControl \/ JoinActuator
    \/ SolveNeutral \/ PopLeftover \/ LastCommand \/ StopDriver \/ SetIdle
    \/ SetFault

ModeStep ==
    \/ EnterManual \/ ExitManual \/ SetManualSetpoint
    \/ \E src \in {"Pot", "Gui"} : SelectSource(src)

AppStep == StartCall \/ StopCall \/ LifecycleStep \/ ModeStep

Next ==
    \/ AppStep \/ CameraFrame \/ CtlStep \/ ActStep \/ PotSample \/ PotStep \/ GuiStep

\* The operating system schedules every thread that can run; nothing obliges
\* the operator to call, the camera to deliver or the converter to sample.
Fairness ==
    /\ WF_vars(LifecycleStep \/ (app = "setManual" /\ EnterManual))
    /\ WF_vars(CtlStep) /\ WF_vars(ActStep) /\ WF_vars(PotStep) /\ WF_vars(GuiStep)

Spec == Init /\ [][Next]_vars /\ Fairness

-----------------------------------------------------------------------------
(* Properties.                                                             *)

\* The application thread is inside ActuatorManager::onCommand().
InStage == app \in {"park", "parkApply", "last", "lastApply"}

\* What its owner sees of it: the call in progress, whether anything is up, and
\* who commands the servos.
Phase ==
    IF app \in StopPoints THEN IF failing THEN "failing" ELSE "stopping"
    ELSE IF app \in StartPoints \ {"setSource"} THEN "starting"
    ELSE IF running THEN "up" ELSE "down"

Busy == driver \/ camera \/ imu \/ guiRun \/ ctl # "none" \/ act # "none"
        \/ gui # "none" \/ pot # "off"

Inside == (IF InStage THEN {"caller"} ELSE {})
          \cup (IF act \in {"command", "apply"} THEN {"worker"} ELSE {})

Contract == INSTANCE Lifecycle
            WITH phase <- Phase, busy <- Busy, inside <- Inside, CanFault <- ~GeometryValid

\* stop() and every failing start() leave nothing behind: when the application
\* is back and running_ is false, no thread, backend, camera or driver is up.
QuietWhenStopped ==
    app = "idle" /\ ~running =>
        /\ ctl = "none" /\ act = "none" /\ gui = "none" /\ pot = "off"
        /\ ~driver /\ ~camera /\ ~imu /\ ~guiRun /\ ~failing

\* applyParkOnce_() and applyNeutralOnce_() use the actuator stage from the
\* application thread without a lock; the actuator thread is never inside it
\* at the same time, so history and hardware see commands in one order.
StageExclusive == InStage => act \notin {"running", "command", "apply"}

\* The plain bool running_ of ServoDriver is set before and cleared after
\* every use of the driver, whichever thread makes it.
DriverOutlivesUsers == InStage \/ act \in {"command", "apply"} => driver

\* Nothing that an earlier session left in frame_q_ or cmd_q_ reaches a worker
\* or the driver after a restart.
SessionFresh ==
    /\ ctl # "none" => \A i \in 1..Len(frameQ) : frameQ[i] # "old"
    /\ act # "none" => \A i \in 1..Len(cmdQ) : cmdQ[i] # "old"
    /\ popped # "old"

\* Nothing moves in FAULT, neither on the actuator thread nor on the caller's.
FaultSilent == state = "FAULT" => act \in {"none", "wait", "done"} /\ ~InStage

\* A system whose IMU feedback is LIVE never operates without its IMU.
LiveNeedsImu ==
    running /\ app = "idle" /\ imuMode = "Live" /\ "imu" \in Backends => imu

\* No worker disturbs start-up: STARTUP leads to NEUTRAL, STOPPING or FAULT,
\* NEUTRAL only to the configured mode, and nothing else leads to NEUTRAL.
StartupOrder ==
    [][ /\ state = "STARTUP" => state' \in {"NEUTRAL", "STOPPING", "FAULT"}
        /\ state = "NEUTRAL" => state' = IF ManualStartup THEN "MANUAL" ELSE "SEARCHING"
        /\ state' = "NEUTRAL" => state = "STARTUP" ]_state

\* SystemManager keeps the contract of Lifecycle: whatever its threads do, what
\* its owner sees is a step of that module or none.
LifecycleSpec == Contract!Spec

\* How far start() and stop() are with the two backends, and what these do.
UnitPhase ==
    IF app \in {"startManual", "startImu"} THEN "starting"
    ELSE IF app \in {"setStopping", "stopCamera", "stopImu", "joinPot"} THEN "stopping"
    ELSE IF running /\ app \notin {"startDriver", "startThreads"} THEN "up" ELSE "down"

PotUnit == IF pot = "off" THEN "off" ELSE IF pot = "wait" THEN "on" ELSE "calling"
ImuUnit == IF imu THEN "on" ELSE "off"

Units == INSTANCE BackendContract
         WITH phase <- UnitPhase, requested <- Backends, mode <- imuMode,
              pot <- PotUnit, imu <- ImuUnit

\* SystemManager asks of its backends no more than BackendCoordinator gives, calls
\* them in its order, and runs LIVE only with the IMU.
UnitsSpec == Units!Spec

\* The thread stop() waits for, and the steps it has left at most: those of the
\* item in hand and a round for each item in its queue.
Joins == {"joinPot", "joinGui", "joinControl", "joinActuator"}

Joined == CASE app = "joinPot"     -> pot
            [] app = "joinGui"     -> gui
            [] app = "joinControl" -> ctl
            [] OTHER               -> act

PotLeft == CASE pot = "mode" -> 5 [] pot = "source" -> 4 [] pot = "buildMode" -> 3
             [] pot = "buildSource" -> 2 [] pot = "solve" -> 1 [] OTHER -> 0

GuiLeft == CASE gui = "running" -> 7 [] gui = "mode" -> 6 [] gui = "source" -> 5
             [] gui = "buildMode" -> 4 [] gui = "own" -> 3 [] gui = "solve" -> 2
             [] gui = "wait" -> 1 [] OTHER -> 0

CtlLeft == CASE ctl = "running" -> 11 [] ctl = "mode" -> 10 [] ctl = "track" -> 9
             [] ctl = "estRunning" -> 8 [] ctl = "estMode" -> 7 [] ctl = "setMode" -> 6
             [] ctl = "estAgain" -> 5 [] ctl = "spRunning" -> 4 [] ctl = "spMode" -> 3
             [] ctl = "solve" -> 2 [] ctl = "wait" -> 1 [] OTHER -> 0

ActLeft == CASE act = "running" -> 4 [] act = "command" -> 3 [] act = "apply" -> 2
             [] act = "wait" -> 1 [] OTHER -> 0

StepsLeft == CASE app = "joinPot"     -> PotLeft
               [] app = "joinGui"     -> 8 * Len(guiQ) + GuiLeft
               [] app = "joinControl" -> 12 * Len(frameQ) + CtlLeft
               [] OTHER               -> 5 * Len(cmdQ) + ActLeft

\* No thread stop() waits for sleeps on a queue that nobody will notify again.
JoinedIsAwake ==
    /\ app = "joinGui"      => gui # "wait" \/ guiQ # <<>> \/ guiStop
    /\ app = "joinControl"  => ctl # "wait" \/ frameQ # <<>> \/ frameStop
    /\ app = "joinActuator" => act # "wait" \/ cmdQ # <<>> \/ cmdStop

\* While stop() waits, every step of that thread brings its end nearer and no
\* other thread gives it more to do.
JoinsEnd ==
    [][(app \in Joins /\ app' = app) =>
           /\ StepsLeft' <= StepsLeft
           /\ (Joined' # Joined => StepsLeft' < StepsLeft)]_vars

\* Every start(), stop() and enterManual() returns: the joins end, so no worker
\* is left blocked or looping after the queues were stopped.
CallsReturn == app # "idle" ~> app = "idle"

=============================================================================
