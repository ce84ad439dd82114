--------------------------- MODULE SystemManagerInv ---------------------------
(***************************************************************************)
(* The inductive invariant of SystemManager: where every thread can be     *)
(* while the application thread is at a given point of start() or stop().  *)
(***************************************************************************)
EXTENDS SystemManager

\* Between a start() that succeeded and the next stop().
Operating == app \in {"idle", "setManual"} /\ running

\* start() has spawned the threads and has not yet returned.
Starting == app \in {"startManual", "startImu", "startCamera", "setNeutral", "park",
                     "parkApply", "setMode", "setSource"}

\* stop() has been called and has not yet got past the point named.
StoppingGui == app \in {"setStopping", "stopCamera", "stopImu", "joinPot", "stopGui",
                        "stopGuiQueue", "joinGui"}
StoppingCtl == StoppingGui \/ app \in {"stopFrames", "stopCommands", "joinControl"}
StoppingAct == StoppingCtl \/ app = "joinActuator"
StoppingDriver ==
    StoppingAct \/ app \in {"neutral", "popLeftover", "last", "lastApply", "stopDriver"}

\* Which call is in progress, and what running_ says meanwhile.
CallInv ==
    /\ app \in StartPoints => running
    /\ app \in StopPoints => ~running
    /\ failing => app \in StopPoints
    /\ app = "setFault" => failing
    /\ popped # "none" <=> app \in {"last", "lastApply"}

\* Which threads and units exist at each point of the two calls.
LifeInv ==
    /\ ctl # "none" <=> Operating \/ Starting \/ StoppingCtl
    /\ act # "none" <=> Operating \/ Starting \/ StoppingAct
    /\ gui # "none" <=> Operating \/ Starting \/ StoppingGui
    /\ driver <=> Operating \/ Starting \/ StoppingDriver \/ app = "startThreads"
    /\ pot # "off" =>
         \/ Operating \/ (Starting /\ app # "startManual")
         \/ app \in {"setStopping", "stopCamera", "stopImu", "joinPot"}
    /\ camera =>
         \/ Operating \/ app \in {"setStopping", "stopCamera"}
         \/ app \in {"setNeutral", "park", "parkApply", "setMode", "setSource"}
    /\ imu =>
         \/ Operating \/ (Starting /\ app \notin {"startManual", "startImu"})
         \/ app \in {"setStopping", "stopCamera", "stopImu"}
    /\ guiRun <=>
         \/ Operating \/ Starting
         \/ app \in {"setStopping", "stopCamera", "stopImu", "joinPot", "stopGui"}

\* Until start() selects a mode no worker gets past its check of state_, so no
\* command exists and the actuator thread has nothing to do.
CalmInv ==
    /\ app \in {"startDriver", "startThreads", "startManual", "startImu",
                "startCamera", "setNeutral"} => state = "STARTUP"
    /\ app \in {"park", "parkApply", "setMode"} <=> state = "NEUTRAL"
    /\ state = "STARTUP" =>
         app \in {"startDriver", "startThreads", "startManual", "startImu",
                 "startCamera", "setNeutral", "setStopping"}
    /\ (Starting /\ app # "setSource") \/ (app = "setStopping" /\ state = "STARTUP") =>
         /\ ctl \in {"wait", "running", "mode", "done"}
         /\ pot \in {"off", "wait", "mode"}
         /\ gui \in {"wait", "running", "mode", "done"}
         /\ act = "wait" \/ act = "done"
         /\ cmdQ = <<>>

NoOld(q) == \A i \in 1..Len(q) : q[i] # "old"

FreshInv ==
    /\ ctl # "none" => NoOld(frameQ)
    /\ Operating \/ Starting \/ StoppingDriver => NoOld(cmdQ)
    /\ popped # "old"

\* The two ways into FAULT: a failed start, after which nothing runs, and an
\* invalid geometry, with which no command is ever produced.
FaultInv ==
    /\ GeometryValid /\ state = "FAULT" => ~running /\ app \in {"idle", "setManual"}
    /\ ~GeometryValid =>
         /\ cmdQ = <<>>
         /\ act \in {"none", "wait", "done"}
         /\ app \notin {"last", "lastApply"}

ImuInv ==
    (Operating \/ app \in {"startCamera", "setNeutral", "park", "parkApply", "setMode",
                           "setSource"})
    /\ imuMode = "Live" /\ "imu" \in Backends => imu

IInv == TypeOK /\ CallInv /\ LifeInv /\ CalmInv /\ FreshInv /\ FaultInv /\ ImuInv

\* A start() that fails has given no mode: no worker gets past its check of state_
\* until it ends, and FAULT is reported after IDLE.
FailInv ==
    /\ failing =>
         /\ state \in {"STARTUP", "STOPPING", "IDLE", "FAULT"}
         /\ ctl \in {"none", "wait", "running", "mode", "done"}
         /\ pot \in {"off", "wait", "mode"}
         /\ gui \in {"none", "wait", "running", "mode", "done"}
         /\ act \in {"none", "wait", "done"}
         /\ act # "none" => cmdQ = <<>>
    /\ app = "setFault" => state = "IDLE"

\* stop() stops the queue of a worker before it joins the worker.
StopInv ==
    /\ app = "joinGui" => guiStop
    /\ app \in {"stopCommands", "joinControl"} => frameStop
    /\ app \in {"joinControl", "joinActuator"} => cmdStop

\* The IMU is started only with the potentiometers up.
PotInv == app = "startImu" /\ "manual" \in Backends => pot # "off"

\* Every safety invariant of SystemManager follows from the inductive one.
Safety ==
    /\ QuietWhenStopped /\ StageExclusive /\ DriverOutlivesUsers
    /\ SessionFresh /\ FaultSilent /\ LiveNeedsImu

=============================================================================
