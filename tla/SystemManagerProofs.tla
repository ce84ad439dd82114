------------------------- MODULE SystemManagerProofs -------------------------
(***************************************************************************)
(* Proofs about SystemManager, for any queue capacities, any configuration *)
(* and any set of units that may fail to start.                            *)
(***************************************************************************)
EXTENDS SystemManagerInv, SequenceTheorems, TLAPS

USE SystemAssumption DEF SystemAssumption

-----------------------------------------------------------------------------
(* Queues.                                                                 *)

\* push_latest() keeps the type of a queue and brings in nothing but its item.
LEMMA KeepLatestLaws ==
    ASSUME NEW S, NEW q \in Seq(S), NEW cap \in Nat \ {0}, NEW x \in S
    PROVE  /\ KeepLatest(q, cap, x) \in Seq(S)
           /\ NoOld(q) /\ x # "old" => NoOld(KeepLatest(q, cap, x))
<1> DEFINE r == IF HasRoom(q, cap) THEN q ELSE Tail(q)
<1>1. r \in Seq(S) /\ (NoOld(q) => NoOld(r))
  BY DEF HasRoom, NoOld
<1>2. KeepLatest(q, cap, x) = Append(r, x)
  BY DEF KeepLatest
<1> HIDE DEF r
<1>3. Append(r, x) \in Seq(S) /\ (NoOld(r) /\ x # "old" => NoOld(Append(r, x)))
  BY <1>1 DEF NoOld
<1> QED BY <1>1, <1>2, <1>3

\* Taking the oldest item.
LEMMA TailLaws ==
    ASSUME NEW S, NEW q \in Seq(S), q # <<>>
    PROVE  /\ Tail(q) \in Seq(S) /\ Head(q) \in S
           /\ NoOld(q) => NoOld(Tail(q)) /\ Head(q) # "old"
  BY EmptySeq DEF NoOld

\* Ageing a queue.
LEMMA AgedLaws ==
    ASSUME NEW S, NEW q \in Seq(S), "old" \in S
    PROVE  Aged(q) \in Seq(S) /\ (q = <<>> => Aged(q) = <<>>)
<1>1. Aged(q) \in Seq(S) /\ Len(Aged(q)) = Len(q)
  BY DEF Aged
<1>2. q = <<>> => Len(Aged(q)) = 0
  BY <1>1, EmptySeq
<1> QED BY <1>1, <1>2, EmptySeq

\* The empty queue.
LEMMA EmptyLaws == ASSUME NEW S PROVE <<>> \in Seq(S) /\ NoOld(<<>>)
  BY EmptySeq DEF NoOld

-----------------------------------------------------------------------------
(* Types.                                                                  *)

USE DEF appVars, modeVars, unitVars, frameVars, cmdVars, guiVars,
        AppGo, CtlGo, ActGo, PotGo, GuiGo, CanAutoProcess

\* Types across the steps of start().
LEMMA StartTypes ==
    ASSUME TypeOK,
           \/ StartRefused \/ StartDriver \/ StartManual \/ StartImu \/ StartCamera
           \/ SetNeutral \/ Park \/ SetStartupMode \/ SetStartupSource
    PROVE  TypeOK'
<1>1. CASE StartRefused
  BY <1>1 DEF StartRefused, TypeOK, AppPoints, StartPoints, StopPoints, TrackerStates
<1>2. CASE StartDriver
  BY <1>2 DEF StartDriver, TypeOK, AppPoints, StartPoints, StopPoints
<1>3. CASE StartManual
  <2>1. app' \in AppPoints /\ failing' \in BOOLEAN /\ running' \in BOOLEAN
    BY <1>3 DEF StartManual, FailStart, TypeOK, AppPoints, StartPoints, StopPoints
  <2>2. pot' \in PotPoints
    BY <1>3 DEF StartManual, TypeOK, PotPoints
  <2>3. UNCHANGED <<popped, modeVars, unitVars, ctl, act, gui, guiRun, frameVars,
                    cmdVars, guiVars>>
    BY <1>3 DEF StartManual, FailStart
  <2> QED BY <2>1, <2>2, <2>3 DEF TypeOK
<1>4. CASE StartImu
  <2>1. app' \in AppPoints /\ failing' \in BOOLEAN /\ running' \in BOOLEAN
    BY <1>4 DEF StartImu, FailStart, TypeOK, AppPoints, StartPoints, StopPoints
  <2>2. imu' \in BOOLEAN /\ imuMode' \in ImuModes
    <3>1. imu \in BOOLEAN /\ ("imu" \in Backends) \in BOOLEAN /\ imuMode \in ImuModes
          /\ "Disabled" \in ImuModes
      BY DEF TypeOK, ImuModes
    <3> QED BY <1>4, <3>1 DEF StartImu
  <2>3. UNCHANGED <<popped, state, source, driver, camera, ctl, act, pot, gui, guiRun,
                    frameVars, cmdVars, guiVars>>
    BY <1>4 DEF StartImu, FailStart
  <2> QED BY <2>1, <2>2, <2>3 DEF TypeOK
<1>5. CASE StartCamera
  <2>1. app' \in AppPoints /\ failing' \in BOOLEAN /\ running' \in BOOLEAN
    BY <1>5 DEF StartCamera, FailStart, TypeOK, AppPoints, StartPoints, StopPoints
  <2>2. camera' \in BOOLEAN
    BY <1>5 DEF StartCamera, TypeOK
  <2>3. UNCHANGED <<popped, modeVars, driver, imu, ctl, act, pot, gui, guiRun, frameVars,
                    cmdVars, guiVars>>
    BY <1>5 DEF StartCamera, FailStart
  <2> QED BY <2>1, <2>2, <2>3 DEF TypeOK
<1>6. CASE SetNeutral
  BY <1>6 DEF SetNeutral, TypeOK, AppPoints, StartPoints, StopPoints, TrackerStates
<1>7. CASE Park
  BY <1>7 DEF Park, TypeOK, AppPoints, StartPoints, StopPoints
<1>8. CASE SetStartupMode
  BY <1>8 DEF SetStartupMode, TypeOK, AppPoints, StartPoints, StopPoints, TrackerStates
<1>9. CASE SetStartupSource
  BY <1>9 DEF SetStartupSource, TypeOK, AppPoints, StartPoints, StopPoints
<1> QED BY <1>1, <1>2, <1>3, <1>4, <1>5, <1>6, <1>7, <1>8, <1>9

\* Types across the steps of stop().
LEMMA StopTypes ==
    ASSUME TypeOK,
           \/ StopCall \/ SetStopping \/ StopCamera \/ StopImu \/ JoinPot \/ StopGui
           \/ StopGuiQueue \/ JoinGui \/ StopFrames \/ StopCommands \/ JoinControl
           \/ JoinActuator \/ LastCommand \/ StopDriver \/ SetIdle \/ SetFault
    PROVE  TypeOK'
<1>1. CASE StopCall
  BY <1>1 DEF StopCall, TypeOK, AppPoints, StartPoints, StopPoints
<1>2. CASE SetStopping
  BY <1>2 DEF SetStopping, TypeOK, AppPoints, StartPoints, StopPoints, TrackerStates
<1>3. CASE StopCamera
  BY <1>3 DEF StopCamera, TypeOK, AppPoints, StartPoints, StopPoints
<1>4. CASE StopImu
  BY <1>4 DEF StopImu, TypeOK, AppPoints, StartPoints, StopPoints
<1>5. CASE JoinPot
  BY <1>5 DEF JoinPot, TypeOK, AppPoints, StartPoints, StopPoints, PotPoints
<1>6. CASE StopGui
  BY <1>6 DEF StopGui, TypeOK, AppPoints, StartPoints, StopPoints
<1>7. CASE StopGuiQueue
  BY <1>7 DEF StopGuiQueue, TypeOK, AppPoints, StartPoints, StopPoints
<1>8. CASE JoinGui
  BY <1>8 DEF JoinGui, TypeOK, AppPoints, StartPoints, StopPoints, GuiPoints
<1>9. CASE StopFrames
  BY <1>9 DEF StopFrames, TypeOK, AppPoints, StartPoints, StopPoints
<1>10. CASE StopCommands
  BY <1>10 DEF StopCommands, TypeOK, AppPoints, StartPoints, StopPoints
<1>11. CASE JoinControl
  BY <1>11 DEF JoinControl, TypeOK, AppPoints, StartPoints, StopPoints, CtlPoints
<1>12. CASE JoinActuator
  BY <1>12 DEF JoinActuator, TypeOK, AppPoints, StartPoints, StopPoints, ActPoints
<1>13. CASE LastCommand
  BY <1>13 DEF LastCommand, TypeOK, AppPoints, StartPoints, StopPoints, Commands
<1>14. CASE StopDriver
  BY <1>14 DEF StopDriver, TypeOK, AppPoints, StartPoints, StopPoints
<1>15. CASE SetIdle
  BY <1>15 DEF SetIdle, TypeOK, AppPoints, StartPoints, StopPoints, TrackerStates
<1>16. CASE SetFault
  BY <1>16 DEF SetFault, TypeOK, AppPoints, StartPoints, StopPoints, TrackerStates
<1> QED BY <1>1, <1>2, <1>3, <1>4, <1>5, <1>6, <1>7, <1>8, <1>9, <1>10, <1>11, <1>12, <1>13, <1>14, <1>15, <1>16

\* Types across the mode API.
LEMMA ModeTypes ==
    ASSUME TypeOK, EnterManual \/ ExitManual \/ \E src \in {"Pot", "Gui"} : SelectSource(src)
    PROVE  TypeOK'
<1> USE DEF TypeOK, AppPoints, TrackerStates
<1>1. CASE EnterManual
  BY <1>1 DEF EnterManual
<1>2. CASE ExitManual
  BY <1>2 DEF ExitManual
<1>3. CASE \E src \in {"Pot", "Gui"} : SelectSource(src)
  BY <1>3 DEF SelectSource
<1> QED BY <1>1, <1>2, <1>3

-----------------------------------------------------------------------------
(* The application thread.                                                 *)

\* The invariant without the types.
Rest == CallInv /\ LifeInv /\ CalmInv /\ FreshInv /\ FaultInv /\ ImuInv

USE DEF Rest, CallInv, LifeInv, CalmInv, FreshInv, FaultInv, ImuInv,
        Operating, Starting, StoppingGui, StoppingCtl, StoppingAct, StoppingDriver,
        StartPoints, StopPoints, NoOld

\* start(), except for the steps that change a queue.
LEMMA StartSteps ==
    ASSUME TypeOK, Rest,
           \/ StartRefused \/ StartDriver \/ StartManual \/ StartImu \/ StartCamera
           \/ SetNeutral \/ Park \/ SetStartupMode \/ SetStartupSource
    PROVE  Rest'
<1>1. CASE StartRefused
  BY <1>1 DEF StartRefused
<1>2. CASE StartDriver
  BY <1>2 DEF StartDriver
<1>3. CASE StartManual
  <2>1. CASE app' = "setStopping"
    <3>1. /\ app = "startManual" /\ failing' /\ ~running'
          /\ UNCHANGED <<popped, modeVars, unitVars, ctl, act, pot, gui, guiRun, frameVars,
                         cmdVars, guiVars>>
      BY <1>3, <2>1 DEF StartManual, FailStart
    <3> QED BY <2>1, <3>1
  <2>2. CASE app' # "setStopping"
    <3>1. /\ app = "startManual" /\ app' = "startImu" /\ pot' \in {"wait", "off"}
          /\ UNCHANGED <<failing, popped, running, modeVars, unitVars, ctl, act, gui, guiRun,
                         frameVars, cmdVars, guiVars>>
      BY <1>3, <2>2 DEF StartManual, FailStart
    <3> QED BY <3>1
  <2> QED BY <2>1, <2>2
<1>4. CASE StartImu
  <2>1. CASE app' = "setStopping"
    <3>1. /\ app = "startImu" /\ failing' /\ ~running'
          /\ UNCHANGED <<popped, modeVars, unitVars, ctl, act, pot, gui, guiRun, frameVars,
                         cmdVars, guiVars>>
      BY <1>4, <2>1 DEF StartImu, FailStart
    <3> QED BY <2>1, <3>1
  <2>2. CASE app' # "setStopping"
    <3>1. /\ app = "startImu" /\ app' = "startCamera"
          /\ imuMode' = "Live" /\ "imu" \in Backends => imu'
          /\ UNCHANGED <<failing, popped, running, state, source, driver, camera, ctl, act,
                         pot, gui, guiRun, frameVars, cmdVars, guiVars>>
      BY <1>4, <2>2 DEF StartImu, FailStart
    <3> QED BY <3>1
  <2> QED BY <2>1, <2>2
<1>5. CASE StartCamera
  <2>1. CASE app' = "setStopping"
    <3>1. /\ app = "startCamera" /\ failing' /\ ~running'
          /\ UNCHANGED <<popped, modeVars, unitVars, ctl, act, pot, gui, guiRun, frameVars,
                         cmdVars, guiVars>>
      BY <1>5, <2>1 DEF StartCamera, FailStart
    <3> QED BY <2>1, <3>1
  <2>2. CASE app' # "setStopping"
    <3>1. /\ app = "startCamera" /\ app' = "setNeutral"
          /\ UNCHANGED <<failing, popped, running, modeVars, driver, imu, ctl, act, pot, gui,
                         guiRun, frameVars, cmdVars, guiVars>>
      BY <1>5, <2>2 DEF StartCamera, FailStart
    <3> QED BY <3>1
  <2> QED BY <2>1, <2>2
<1>6. CASE SetNeutral
  BY <1>6 DEF SetNeutral
<1>7. CASE Park
  BY <1>7 DEF Park
<1>8. CASE SetStartupMode
  BY <1>8 DEF SetStartupMode
<1>9. CASE SetStartupSource
  BY <1>9 DEF SetStartupSource
<1> QED BY <1>1, <1>2, <1>3, <1>4, <1>5, <1>6, <1>7, <1>8, <1>9

\* stop(), likewise.
LEMMA StopSteps ==
    ASSUME TypeOK, Rest,
           \/ StopCall \/ SetStopping \/ StopCamera \/ StopImu \/ JoinPot \/ StopGui
           \/ StopGuiQueue \/ JoinGui \/ StopFrames \/ StopCommands \/ JoinControl
           \/ JoinActuator \/ LastCommand \/ StopDriver \/ SetIdle \/ SetFault
    PROVE  Rest'
<1>1. CASE StopCall
  BY <1>1 DEF StopCall
<1>2. CASE SetStopping
  BY <1>2 DEF SetStopping
<1>3. CASE StopCamera
  BY <1>3 DEF StopCamera
<1>4. CASE StopImu
  BY <1>4 DEF StopImu
<1>5. CASE JoinPot
  BY <1>5 DEF JoinPot
<1>6. CASE StopGui
  BY <1>6 DEF StopGui
<1>7. CASE StopGuiQueue
  BY <1>7 DEF StopGuiQueue
<1>8. CASE JoinGui
  BY <1>8 DEF JoinGui
<1>9. CASE StopFrames
  BY <1>9 DEF StopFrames
<1>10. CASE StopCommands
  BY <1>10 DEF StopCommands
<1>11. CASE JoinControl
  BY <1>11 DEF JoinControl
<1>12. CASE JoinActuator
  BY <1>12 DEF JoinActuator
<1>13. CASE LastCommand
  BY <1>13 DEF LastCommand
<1>14. CASE StopDriver
  BY <1>14 DEF StopDriver
<1>15. CASE SetIdle
  BY <1>15 DEF SetIdle
<1>16. CASE SetFault
  BY <1>16 DEF SetFault
<1> QED BY <1>1, <1>2, <1>3, <1>4, <1>5, <1>6, <1>7, <1>8, <1>9, <1>10, <1>11, <1>12, <1>13, <1>14, <1>15, <1>16

\* The mode API.
LEMMA ModeSteps ==
    ASSUME TypeOK, Rest,
           EnterManual \/ ExitManual \/ \E src \in {"Pot", "Gui"} : SelectSource(src)
    PROVE  Rest'
<1>1. CASE EnterManual
  BY <1>1 DEF EnterManual
<1>2. CASE ExitManual
  BY <1>2 DEF ExitManual
<1>3. CASE \E src \in {"Pot", "Gui"} : SelectSource(src)
  BY <1>3 DEF SelectSource
<1> QED BY <1>1, <1>2, <1>3

-----------------------------------------------------------------------------
(* The application steps that change a queue.                              *)

HIDE DEF NoOld

\* A solve queues one fresh command, or faults and queues nothing.
LEMMA SolveLaws ==
    ASSUME TypeOK, NEW command \in {"motion", "neutral"}, Solve(command)
    PROVE  /\ cmdQ' \in Seq(Commands)
           /\ NoOld(cmdQ) => NoOld(cmdQ')
           /\ GeometryValid => state' = state
           /\ ~GeometryValid => state' = "FAULT" /\ cmdQ' = cmdQ
<1>1. cmdQ \in Seq(Commands) /\ command \in Commands /\ command # "old"
  BY DEF TypeOK, Commands
<1>2. KeepLatest(cmdQ, CmdCap, command) \in Seq(Commands)
      /\ (NoOld(cmdQ) => NoOld(KeepLatest(cmdQ, CmdCap, command)))
  BY <1>1, KeepLatestLaws
<1> QED BY <1>1, <1>2 DEF Solve

\* start() begins: what the queues hold is old, and nothing else runs.
LEMMA StartCallStep == ASSUME TypeOK, Rest, StartCall PROVE TypeOK' /\ Rest'
<1>1. /\ Aged(frameQ) \in Seq({"new", "old"}) /\ Aged(guiQ) \in Seq({"new", "old"})
      /\ Aged(cmdQ) \in Seq(Commands) /\ (cmdQ = <<>> => Aged(cmdQ) = <<>>)
  BY AgedLaws DEF TypeOK, Commands
<1>2. TypeOK'
  BY <1>1 DEF StartCall, TypeOK, AppPoints, TrackerStates
<1>3. Rest'
  BY <1>1 DEF StartCall
<1> QED BY <1>2, <1>3

\* start() empties both pipeline queues before it spawns the workers.
LEMMA StartThreadsStep == ASSUME TypeOK, Rest, StartThreads PROVE TypeOK' /\ Rest'
<1>1. TypeOK'
  BY EmptyLaws DEF StartThreads, TypeOK, AppPoints, CtlPoints, ActPoints, GuiPoints
<1>2. Rest'
  BY EmptyLaws DEF StartThreads
<1> QED BY <1>1, <1>2

\* The solve of applyNeutralOnce_() runs after both joins.
LEMMA SolveNeutralStep == ASSUME TypeOK, Rest, SolveNeutral PROVE TypeOK' /\ Rest'
<1>1. TypeOK'
  BY SolveLaws DEF SolveNeutral, TypeOK, AppPoints, TrackerStates
<1>2. Rest'
  BY SolveLaws DEF SolveNeutral
<1> QED BY <1>1, <1>2

\* try_pop() of applyNeutralOnce_() takes a command of this session, if any.
LEMMA PopLeftoverStep == ASSUME TypeOK, Rest, PopLeftover PROVE TypeOK' /\ Rest'
<1>1. cmdQ # <<>> => /\ Tail(cmdQ) \in Seq(Commands) /\ Head(cmdQ) \in Commands
                     /\ NoOld(cmdQ) => NoOld(Tail(cmdQ)) /\ Head(cmdQ) # "old"
  BY TailLaws DEF TypeOK
<1>2. TypeOK'
  BY <1>1 DEF PopLeftover, TypeOK, AppPoints
<1>3. Rest'
  BY <1>1 DEF PopLeftover, Commands
<1> QED BY <1>2, <1>3

\* setManualSetpoint() touches the dispatcher's queue only.
LEMMA SetManualSetpointStep ==
    ASSUME TypeOK, Rest, SetManualSetpoint PROVE TypeOK' /\ Rest'
<1>1. KeepLatest(guiQ, 1, "new") \in Seq({"new", "old"})
  BY KeepLatestLaws DEF TypeOK
<1>2. TypeOK'
  BY <1>1 DEF SetManualSetpoint, TypeOK
<1>3. Rest'
  BY DEF SetManualSetpoint
<1> QED BY <1>2, <1>3

-----------------------------------------------------------------------------
(* The other threads.                                                      *)

\* A frame delivered by the camera belongs to this session.
LEMMA CameraStep == ASSUME TypeOK, Rest, CameraFrame PROVE TypeOK' /\ Rest'
<1>1. /\ KeepLatest(frameQ, FrameCap, "new") \in Seq({"new", "old"})
      /\ NoOld(frameQ) => NoOld(KeepLatest(frameQ, FrameCap, "new"))
  BY KeepLatestLaws DEF TypeOK
<1>2. TypeOK'
  BY <1>1 DEF CameraFrame, TypeOK
<1>3. Rest'
  BY <1>1 DEF CameraFrame
<1> QED BY <1>2, <1>3

\* The control thread: past its first check of state_ only in an automatic state.
LEMMA ControlSteps == ASSUME TypeOK, Rest, CtlStep PROVE TypeOK' /\ Rest'
<1>1. ASSUME CtlPop PROVE TypeOK' /\ Rest'
  <2>1. TypeOK'
    BY <1>1, TailLaws DEF CtlPop, CtlUnchanged, TypeOK, CtlPoints
  <2>2. NoOld(frameQ) => NoOld(Tail(frameQ))
    BY <1>1, TailLaws DEF CtlPop, TypeOK
  <2>3. Rest'
    BY <1>1, <2>2 DEF CtlPop, CtlUnchanged
  <2> QED BY <2>1, <2>3
<1>2. ASSUME CtlNone PROVE TypeOK' /\ Rest'
  <2>1. TypeOK'
    BY <1>2 DEF CtlNone, CtlUnchanged, TypeOK, CtlPoints
  <2>2. Rest'
    BY <1>2 DEF CtlNone, CtlUnchanged
  <2> QED BY <2>1, <2>2
<1>3. ASSUME CtlRunning PROVE TypeOK' /\ Rest'
  <2>1. TypeOK'
    BY <1>3 DEF CtlRunning, CtlUnchanged, TypeOK, CtlPoints
  <2>2. Rest'
    BY <1>3 DEF CtlRunning, CtlUnchanged
  <2> QED BY <2>1, <2>2
<1>4. ASSUME CtlMode PROVE TypeOK' /\ Rest'
  <2>1. TypeOK'
    BY <1>4 DEF CtlMode, CtlUnchanged, TypeOK, CtlPoints
  <2>2. Rest'
    BY <1>4 DEF CtlMode, CtlUnchanged
  <2> QED BY <2>1, <2>2
<1>5. ASSUME CtlTrack PROVE TypeOK' /\ Rest'
  <2>1. TypeOK'
    BY <1>5 DEF CtlTrack, CtlUnchanged, TypeOK, CtlPoints
  <2>2. Rest'
    BY <1>5 DEF CtlTrack, CtlUnchanged
  <2> QED BY <2>1, <2>2
<1>6. ASSUME EstimateRunning PROVE TypeOK' /\ Rest'
  <2>1. TypeOK'
    BY <1>6 DEF EstimateRunning, CtlUnchanged, TypeOK, CtlPoints
  <2>2. Rest'
    BY <1>6 DEF EstimateRunning, CtlUnchanged
  <2> QED BY <2>1, <2>2
<1>7. ASSUME EstimateMode PROVE TypeOK' /\ Rest'
  <2>1. TypeOK'
    BY <1>7 DEF EstimateMode, CtlUnchanged, TypeOK, CtlPoints
  <2>2. Rest'
    BY <1>7 DEF EstimateMode, CtlUnchanged
  <2> QED BY <2>1, <2>2
<1>8. ASSUME EstimateSetMode PROVE TypeOK' /\ Rest'
  <2>1. TypeOK'
    BY <1>8 DEF EstimateSetMode, CtlUnchanged, TypeOK, CtlPoints, TrackerStates
  <2>2. Rest'
    BY <1>8 DEF EstimateSetMode, CtlUnchanged
  <2> QED BY <2>1, <2>2
<1>9. ASSUME EstimateAgain PROVE TypeOK' /\ Rest'
  <2>1. TypeOK'
    BY <1>9 DEF EstimateAgain, CtlUnchanged, TypeOK, CtlPoints
  <2>2. Rest'
    BY <1>9 DEF EstimateAgain, CtlUnchanged
  <2> QED BY <2>1, <2>2
<1>10. ASSUME SetpointRunning PROVE TypeOK' /\ Rest'
  <2>1. TypeOK'
    BY <1>10 DEF SetpointRunning, CtlUnchanged, TypeOK, CtlPoints
  <2>2. Rest'
    BY <1>10 DEF SetpointRunning, CtlUnchanged
  <2> QED BY <2>1, <2>2
<1>11. ASSUME SetpointMode PROVE TypeOK' /\ Rest'
  <2>1. TypeOK'
    BY <1>11 DEF SetpointMode, CtlUnchanged, TypeOK, CtlPoints
  <2>2. Rest'
    BY <1>11 DEF SetpointMode, CtlUnchanged
  <2> QED BY <2>1, <2>2
<1>12. ASSUME CtlSolve PROVE TypeOK' /\ Rest'
  <2>1. TypeOK'
    BY <1>12, SolveLaws DEF CtlSolve, CtlUnchanged, TypeOK, CtlPoints, TrackerStates
  <2>2. Rest'
    BY <1>12, SolveLaws DEF CtlSolve, CtlUnchanged
  <2> QED BY <2>1, <2>2
<1> QED BY <1>1, <1>2, <1>3, <1>4, <1>5, <1>6, <1>7, <1>8, <1>9, <1>10, <1>11, <1>12 DEF CtlStep

\* The actuator thread.
LEMMA ActuatorSteps == ASSUME TypeOK, Rest, ActStep PROVE TypeOK' /\ Rest'
<1>1. ASSUME ActPop PROVE TypeOK' /\ Rest'
  <2>1. TypeOK'
    BY <1>1, TailLaws DEF ActPop, ActUnchanged, TypeOK, ActPoints
  <2>2. NoOld(cmdQ) => NoOld(Tail(cmdQ))
    BY <1>1, TailLaws DEF ActPop, TypeOK
  <2>3. Rest'
    BY <1>1, <2>2 DEF ActPop, ActUnchanged
  <2> QED BY <2>1, <2>3
<1>2. ASSUME ActNone PROVE TypeOK' /\ Rest'
  <2>1. TypeOK'
    BY <1>2 DEF ActNone, ActUnchanged, TypeOK, ActPoints
  <2>2. Rest'
    BY <1>2 DEF ActNone, ActUnchanged
  <2> QED BY <2>1, <2>2
<1>3. ASSUME ActRunning PROVE TypeOK' /\ Rest'
  <2>1. TypeOK'
    BY <1>3 DEF ActRunning, ActUnchanged, TypeOK, ActPoints
  <2>2. Rest'
    BY <1>3 DEF ActRunning, ActUnchanged
  <2> QED BY <2>1, <2>2
<1>4. ASSUME ActCommand PROVE TypeOK' /\ Rest'
  <2>1. TypeOK'
    BY <1>4 DEF ActCommand, ActUnchanged, TypeOK, ActPoints
  <2>2. Rest'
    BY <1>4 DEF ActCommand, ActUnchanged
  <2> QED BY <2>1, <2>2
<1> QED BY <1>1, <1>2, <1>3, <1>4 DEF ActStep

\* The ADS1115 callback thread.
LEMMA PotSteps == ASSUME TypeOK, Rest, PotSample \/ PotStep PROVE TypeOK' /\ Rest'
<1>1. ASSUME PotSample PROVE TypeOK' /\ Rest'
  <2>1. TypeOK'
    BY <1>1 DEF PotSample, PotUnchanged, TypeOK, PotPoints, TrackerStates
  <2>2. Rest'
    BY <1>1 DEF PotSample, PotUnchanged
  <2> QED BY <2>1, <2>2
<1>2. ASSUME PotMode PROVE TypeOK' /\ Rest'
  <2>1. TypeOK'
    BY <1>2 DEF PotMode, PotUnchanged, TypeOK, PotPoints, TrackerStates
  <2>2. Rest'
    BY <1>2 DEF PotMode, PotUnchanged
  <2> QED BY <2>1, <2>2
<1>3. ASSUME PotSource PROVE TypeOK' /\ Rest'
  <2>1. TypeOK'
    BY <1>3 DEF PotSource, PotUnchanged, TypeOK, PotPoints, TrackerStates
  <2>2. Rest'
    BY <1>3 DEF PotSource, PotUnchanged
  <2> QED BY <2>1, <2>2
<1>4. ASSUME PotSolve PROVE TypeOK' /\ Rest'
  <2>1. TypeOK'
    BY <1>4, SolveLaws DEF PotSolve, PotUnchanged, TypeOK, PotPoints, TrackerStates
  <2>2. Rest'
    BY <1>4, SolveLaws DEF PotSolve, PotUnchanged
  <2> QED BY <2>1, <2>2
<1> QED BY <1>1, <1>2, <1>3, <1>4 DEF PotStep

\* The worker of GuiManualDispatcher.
LEMMA GuiSteps == ASSUME TypeOK, Rest, GuiStep PROVE TypeOK' /\ Rest'
<1>1. ASSUME GuiPop PROVE TypeOK' /\ Rest'
  <2>1. TypeOK'
    BY <1>1, TailLaws DEF GuiPop, GuiUnchanged, TypeOK, GuiPoints
  <2>2. Rest'
    BY <1>1, TailLaws DEF GuiPop, GuiUnchanged
  <2> QED BY <2>1, <2>2
<1>2. ASSUME GuiNone PROVE TypeOK' /\ Rest'
  <2>1. TypeOK'
    BY <1>2 DEF GuiNone, GuiUnchanged, TypeOK, GuiPoints
  <2>2. Rest'
    BY <1>2 DEF GuiNone, GuiUnchanged
  <2> QED BY <2>1, <2>2
<1>3. ASSUME GuiRunning PROVE TypeOK' /\ Rest'
  <2>1. TypeOK'
    BY <1>3 DEF GuiRunning, GuiUnchanged, TypeOK, GuiPoints
  <2>2. Rest'
    BY <1>3 DEF GuiRunning, GuiUnchanged
  <2> QED BY <2>1, <2>2
<1>4. ASSUME GuiMode PROVE TypeOK' /\ Rest'
  <2>1. TypeOK'
    BY <1>4 DEF GuiMode, GuiUnchanged, TypeOK, GuiPoints
  <2>2. Rest'
    BY <1>4 DEF GuiMode, GuiUnchanged
  <2> QED BY <2>1, <2>2
<1>5. ASSUME GuiSource PROVE TypeOK' /\ Rest'
  <2>1. TypeOK'
    BY <1>5 DEF GuiSource, GuiUnchanged, TypeOK, GuiPoints
  <2>2. Rest'
    BY <1>5 DEF GuiSource, GuiUnchanged
  <2> QED BY <2>1, <2>2
<1>6. ASSUME GuiOwn PROVE TypeOK' /\ Rest'
  <2>1. TypeOK'
    BY <1>6 DEF GuiOwn, GuiUnchanged, TypeOK, GuiPoints
  <2>2. Rest'
    BY <1>6 DEF GuiOwn, GuiUnchanged
  <2> QED BY <2>1, <2>2
<1>7. ASSUME GuiSolve PROVE TypeOK' /\ Rest'
  <2>1. TypeOK'
    BY <1>7, SolveLaws DEF GuiSolve, GuiUnchanged, TypeOK, GuiPoints, TrackerStates
  <2>2. Rest'
    BY <1>7, SolveLaws DEF GuiSolve, GuiUnchanged
  <2> QED BY <2>1, <2>2
<1> QED BY <1>1, <1>2, <1>3, <1>4, <1>5, <1>6, <1>7 DEF GuiStep

-----------------------------------------------------------------------------
(* The inductive invariant.                                                *)

\* The constructor of SystemManager establishes the invariant.
LEMMA InitInv == Init => IInv
<1> SUFFICES ASSUME Init PROVE IInv
  OBVIOUS
<1>1. TypeOK
  BY EmptyLaws DEF Init, TypeOK, AppPoints, CtlPoints, ActPoints, PotPoints, GuiPoints,
                   TrackerStates, Commands
<1>2. Rest
  BY EmptyLaws DEF Init
<1> QED BY <1>1, <1>2 DEF IInv

\* Every step of every thread keeps the invariant.
LEMMA NextInv == IInv /\ [Next]_vars => IInv'
<1> SUFFICES ASSUME TypeOK, Rest, [Next]_vars PROVE TypeOK' /\ Rest'
  BY DEF IInv
<1> HIDE DEF Rest
<1>1. CASE StartCall
  BY <1>1, StartCallStep
<1>2. CASE StopCall
  BY <1>2, StopTypes, StopSteps
<1>3. CASE LifecycleStep
  BY <1>3, StartTypes, StartSteps, StartThreadsStep, StopTypes, StopSteps,
     SolveNeutralStep, PopLeftoverStep DEF LifecycleStep
<1>4. CASE ModeStep
  BY <1>4, ModeTypes, ModeSteps, SetManualSetpointStep DEF ModeStep
<1>5. CASE CameraFrame
  BY <1>5, CameraStep
<1>6. CASE CtlStep
  BY <1>6, ControlSteps
<1>7. CASE ActStep
  BY <1>7, ActuatorSteps
<1>8. CASE PotSample \/ PotStep
  BY <1>8, PotSteps
<1>9. CASE GuiStep
  BY <1>9, GuiSteps
<1>10. CASE UNCHANGED vars
  BY <1>10 DEF vars, TypeOK, Rest
<1> QED BY <1>1, <1>2, <1>3, <1>4, <1>5, <1>6, <1>7, <1>8, <1>9, <1>10 DEF Next, AppStep

\* The invariant holds in every reachable state.
LEMMA Invariance == Spec => []IInv
  BY InitInv, NextInv, PTL DEF Spec

-----------------------------------------------------------------------------
(* The theorems.                                                           *)

\* Every variable of SystemManager keeps its type.
THEOREM TypeCorrect == Spec => []TypeOK
<1>1. IInv => TypeOK
  BY DEF IInv
<1> QED BY Invariance, <1>1, PTL

\* After stop(), and after every start() that failed, nothing is left running.
THEOREM StopLeavesNothing == Spec => []QuietWhenStopped
<1>1. IInv => QuietWhenStopped
  BY DEF IInv, QuietWhenStopped
<1> QED BY Invariance, <1>1, PTL

\* Two threads are never inside the actuator stage at once.
THEOREM StageIsExclusive == Spec => []StageExclusive
<1>1. IInv => StageExclusive
  BY DEF IInv, StageExclusive, InStage
<1> QED BY Invariance, <1>1, PTL

\* The driver is running whenever somebody is about to use it.
THEOREM DriverIsUp == Spec => []DriverOutlivesUsers
<1>1. IInv => DriverOutlivesUsers
  BY DEF IInv, DriverOutlivesUsers, InStage
<1> QED BY Invariance, <1>1, PTL

\* No frame and no command outlives its session.
THEOREM SessionsAreFresh == Spec => []SessionFresh
<1>1. IInv => SessionFresh
  BY DEF IInv, SessionFresh, NoOld
<1> QED BY Invariance, <1>1, PTL

\* Nothing moves in FAULT.
THEOREM FaultIsSilent == Spec => []FaultSilent
<1>1. IInv => FaultSilent
  BY DEF IInv, FaultSilent, InStage
<1> QED BY Invariance, <1>1, PTL

\* LIVE feedback never runs without its IMU.
THEOREM LiveHasImu == Spec => []LiveNeedsImu
<1>1. IInv => LiveNeedsImu
  BY DEF IInv, LiveNeedsImu
<1> QED BY Invariance, <1>1, PTL

\* The order of start-up, step by step.
LEMMA StartupStep ==
    ASSUME TypeOK, Rest, [Next]_vars
    PROVE  [ /\ state = "STARTUP" => state' \in {"NEUTRAL", "STOPPING", "FAULT"}
             /\ state = "NEUTRAL" => state' = IF ManualStartup THEN "MANUAL" ELSE "SEARCHING"
             /\ state' = "NEUTRAL" => state = "STARTUP" ]_state
<1>1. CASE StartCall \/ StopCall \/ LifecycleStep
  BY <1>1 DEF StartCall, StopCall, LifecycleStep, StartRefused, StartDriver, StartThreads,
     StartManual, StartImu, StartCamera, SetNeutral, Park, SetStartupMode, SetStartupSource,
     SetStopping, StopCamera, StopImu, JoinPot, StopGui, StopGuiQueue, JoinGui, StopFrames,
     StopCommands, JoinControl, JoinActuator, SolveNeutral, PopLeftover, LastCommand,
     StopDriver, SetIdle, SetFault, Solve
<1>2. CASE ModeStep
  BY <1>2 DEF ModeStep, EnterManual, ExitManual, SetManualSetpoint, SelectSource
<1>3. CASE CameraFrame \/ CtlStep
  BY <1>3 DEF CameraFrame, CtlStep, CtlPop, CtlNone, CtlRunning, CtlMode, CtlTrack,
     EstimateRunning, EstimateMode, EstimateSetMode, EstimateAgain, SetpointRunning,
     SetpointMode, CtlSolve, CtlUnchanged, Solve
<1>4. CASE ActStep \/ PotSample \/ PotStep
  BY <1>4 DEF ActStep, ActPop, ActNone, ActRunning, ActCommand, ActUnchanged, PotSample,
     PotStep, PotMode, PotSource, PotSolve, PotUnchanged, Solve
<1>5. CASE GuiStep
  BY <1>5 DEF GuiStep, GuiPop, GuiNone, GuiRunning, GuiMode, GuiSource, GuiOwn, GuiSolve,
     GuiUnchanged, Solve
<1>6. CASE UNCHANGED vars
  BY <1>6 DEF vars
<1> QED BY <1>1, <1>2, <1>3, <1>4, <1>5, <1>6 DEF Next, AppStep

\* Workers do not disturb start-up.
THEOREM StartupIsOrdered == Spec => StartupOrder
<1>1. IInv /\ [Next]_vars =>
        [ /\ state = "STARTUP" => state' \in {"NEUTRAL", "STOPPING", "FAULT"}
          /\ state = "NEUTRAL" => state' = IF ManualStartup THEN "MANUAL" ELSE "SEARCHING"
          /\ state' = "NEUTRAL" => state = "STARTUP" ]_state
  BY StartupStep DEF IInv
<1> QED BY Invariance, <1>1, PTL DEF Spec, StartupOrder

-----------------------------------------------------------------------------
(* The contract of Lifecycle.                                              *)

\* A start() that fails lets no worker loose.
LEMMA FailStep == ASSUME TypeOK, Rest, FailInv, [Next]_vars PROVE FailInv'
<1> USE DEF FailInv
<1>1. CASE StartCall \/ StopCall
  BY <1>1 DEF StartCall, StopCall
<1>2. CASE StartManual \/ StartImu \/ StartCamera
  BY <1>2 DEF StartManual, StartImu, StartCamera, FailStart
<1>3. CASE \/ StartRefused \/ StartDriver \/ StartThreads \/ SetNeutral \/ Park
           \/ SetStartupMode \/ SetStartupSource
  BY <1>3 DEF StartRefused, StartDriver, StartThreads, SetNeutral, Park, SetStartupMode,
     SetStartupSource
<1>4. CASE \/ SetStopping \/ StopCamera \/ StopImu \/ JoinPot \/ StopGui \/ StopGuiQueue
           \/ JoinGui \/ StopFrames \/ StopCommands \/ JoinControl \/ JoinActuator
  BY <1>4 DEF SetStopping, StopCamera, StopImu, JoinPot, StopGui, StopGuiQueue, JoinGui,
     StopFrames, StopCommands, JoinControl, JoinActuator
<1>5. CASE SolveNeutral \/ PopLeftover \/ LastCommand \/ StopDriver \/ SetIdle \/ SetFault
  BY <1>5 DEF SolveNeutral, PopLeftover, LastCommand, StopDriver, SetIdle, SetFault, Solve
<1>6. CASE ModeStep
  BY <1>6 DEF ModeStep, EnterManual, ExitManual, SetManualSetpoint, SelectSource
<1>7. CASE CameraFrame \/ CtlStep
  BY <1>7 DEF CameraFrame, CtlStep, CtlPop, CtlNone, CtlRunning, CtlMode, CtlTrack,
     EstimateRunning, EstimateMode, EstimateSetMode, EstimateAgain, SetpointRunning,
     SetpointMode, CtlSolve, CtlUnchanged, Solve
<1>8. CASE ActStep
  BY <1>8 DEF ActStep, ActPop, ActNone, ActRunning, ActCommand, ActUnchanged
<1>9. CASE PotSample \/ PotStep
  BY <1>9 DEF PotSample, PotStep, PotMode, PotSource, PotSolve, PotUnchanged, Solve
<1>10. CASE GuiStep
  BY <1>10 DEF GuiStep, GuiPop, GuiNone, GuiRunning, GuiMode, GuiSource, GuiOwn, GuiSolve,
     GuiUnchanged, Solve
<1>11. CASE UNCHANGED vars
  BY <1>11 DEF vars
<1> QED BY <1>1, <1>2, <1>3, <1>4, <1>5, <1>6, <1>7, <1>8, <1>9, <1>10, <1>11
        DEF Next, AppStep, LifecycleStep

LEMMA FailInvariance == Spec => []FailInv
<1>1. Init => FailInv
  BY DEF Init, FailInv
<1>2. IInv /\ FailInv /\ [Next]_vars => FailInv'
  BY FailStep DEF IInv
<1> QED BY <1>1, <1>2, Invariance, PTL DEF Spec

\* The driver is the first unit up and the last one down.
LEMMA BusyIsDriver ==
    ASSUME TypeOK, Rest, TypeOK', Rest'
    PROVE  /\ Busy = driver /\ Busy' = driver'
           /\ driver \in BOOLEAN /\ driver' \in BOOLEAN
<1>1. Busy <=> driver
  BY DEF Busy
<1>2. Busy' <=> driver'
  BY DEF Busy
<1>3. driver \in BOOLEAN /\ driver' \in BOOLEAN
  BY DEF TypeOK
<1>4. Busy \in BOOLEAN /\ Busy' \in BOOLEAN
  BY DEF Busy
<1> QED BY <1>1, <1>2, <1>3, <1>4

\* What the contract sees.
Contracted == [Contract!Next]_(Contract!vars)

USE DEF Phase, Inside, InStage

\* start(), as its caller sees it.
LEMMA StartIsContracted ==
    ASSUME TypeOK, Rest, FailInv, TypeOK', Rest',
           \/ StartCall \/ StartRefused \/ StartDriver \/ StartThreads \/ StartManual
           \/ StartImu \/ StartCamera \/ SetNeutral \/ Park \/ SetStartupMode
           \/ SetStartupSource
    PROVE  Contracted
<1> USE BusyIsDriver
<1>1. CASE StartCall
  <2>1. Contract!Start
    BY <1>1 DEF StartCall, Contract!Start
  <2> QED BY <2>1 DEF Contract!Next, Contracted
<1>2. CASE StartRefused
  <2>1. Contract!Refuse
    BY <1>2 DEF StartRefused, Contract!Refuse
  <2> QED BY <2>1 DEF Contract!Next, Contracted
<1>3. CASE StartDriver
  <2>1. ~driver /\ driver' = TRUE /\ Phase = "starting" /\ UNCHANGED <<Phase, state, Inside>>
    BY <1>3 DEF StartDriver
  <2>2. ~Busy /\ Busy' = TRUE
    <3>1. Busy = driver /\ Busy' = driver'
      BY BusyIsDriver
    <3> QED BY <2>1, <3>1, Zenon
  <2>3. Contract!Build
    BY <2>1, <2>2, Zenon DEF Contract!Build
  <2> QED BY <2>3 DEF Contract!Next, Contracted
<1>4. CASE StartManual \/ StartImu \/ StartCamera
  <2>1. CASE app' = "setStopping"
    <3>1. Contract!Abandon
      BY <1>4, <2>1 DEF StartManual, StartImu, StartCamera, FailStart, Contract!Abandon
    <3> QED BY <3>1 DEF Contract!Next, Contracted
  <2>2. CASE app' # "setStopping"
    BY <1>4, <2>2 DEF StartManual, StartImu, StartCamera, FailStart, Contracted, Contract!vars
  <2> QED BY <2>1, <2>2
<1>5. CASE SetNeutral
  <2>1. Contract!Park
    BY <1>5 DEF SetNeutral, Contract!Park
  <2> QED BY <2>1 DEF Contract!Next, Contracted
<1>6. CASE Park
  <2>1. CASE app = "park"
    BY <1>6, <2>1 DEF Park, Contracted, Contract!vars
  <2>2. CASE app = "parkApply"
    <3>1. Contract!Exit
      BY <1>6, <2>2 DEF Park, Contract!Exit
    <3> QED BY <3>1 DEF Contract!Next, Contracted
  <2> QED BY <1>6, <2>1, <2>2 DEF Park
<1>7. CASE SetStartupMode
  <2>1. Contract!Settle
    BY <1>7 DEF SetStartupMode, Contract!Settle
  <2> QED BY <2>1 DEF Contract!Next, Contracted
<1>8. CASE StartThreads \/ SetStartupSource
  BY <1>8 DEF StartThreads, SetStartupSource, Contracted, Contract!vars
<1> QED BY <1>1, <1>2, <1>3, <1>4, <1>5, <1>6, <1>7, <1>8

\* stop(), as its caller sees it, whoever called it.
LEMMA StopIsContracted ==
    ASSUME TypeOK, Rest, FailInv, TypeOK', Rest',
           \/ StopCall \/ SetStopping \/ StopCamera \/ StopImu \/ JoinPot \/ StopGui
           \/ StopGuiQueue \/ JoinGui \/ StopFrames \/ StopCommands \/ JoinControl
           \/ JoinActuator \/ SolveNeutral \/ PopLeftover \/ LastCommand \/ StopDriver
           \/ SetIdle \/ SetFault
    PROVE  Contracted
<1> USE BusyIsDriver
<1>1. CASE StopCall
  <2>1. Contract!Stop
    BY <1>1 DEF StopCall, Contract!Stop
  <2> QED BY <2>1 DEF Contract!Next, Contracted
<1>2. CASE SetStopping
  <2>1. Contract!Stopping
    BY <1>2 DEF SetStopping, Contract!Stopping
  <2> QED BY <2>1 DEF Contract!Next, Contracted
<1>3. CASE \/ StopCamera \/ StopImu \/ JoinPot \/ StopGui \/ StopGuiQueue \/ JoinGui
           \/ StopFrames \/ StopCommands \/ JoinControl \/ JoinActuator
  BY <1>3 DEF StopCamera, StopImu, JoinPot, StopGui, StopGuiQueue, JoinGui, StopFrames,
     StopCommands, JoinControl, JoinActuator, Contracted, Contract!vars
<1>4. CASE SolveNeutral
  <2>1. CASE GeometryValid
    BY <1>4, <2>1 DEF SolveNeutral, Solve, Contracted, Contract!vars
  <2>2. CASE ~GeometryValid
    <3>1. Contract!Fault
      BY <1>4, <2>2 DEF SolveNeutral, Solve, Contract!Fault
    <3> QED BY <3>1 DEF Contract!Next, Contracted
  <2> QED BY <2>1, <2>2
<1>5. CASE PopLeftover
  <2>1. CASE cmdQ = <<>>
    BY <1>5, <2>1 DEF PopLeftover, Contracted, Contract!vars
  <2>2. CASE cmdQ # <<>>
    <3>1. Contract!Enter("caller")
      BY <1>5, <2>2 DEF PopLeftover, Contract!Enter
    <3> QED BY <3>1 DEF Contract!Next, Contracted
  <2> QED BY <2>1, <2>2
<1>6. CASE LastCommand
  <2>1. CASE app = "last"
    BY <1>6, <2>1 DEF LastCommand, Contracted, Contract!vars
  <2>2. CASE app = "lastApply"
    <3>1. Contract!Exit
      BY <1>6, <2>2 DEF LastCommand, Contract!Exit
    <3> QED BY <3>1 DEF Contract!Next, Contracted
  <2> QED BY <1>6, <2>1, <2>2 DEF LastCommand
<1>7. CASE StopDriver
  <2>1. driver /\ ~driver' /\ Inside = {} /\ UNCHANGED <<Phase, state, Inside>>
        /\ Phase \in {"stopping", "failing"}
    BY <1>7 DEF StopDriver
  <2>2. Busy /\ Busy' = FALSE
    BY <2>1
  <2>3. Contract!TearDown
    BY <2>1, <2>2, Zenon DEF Contract!TearDown
  <2> QED BY <2>3 DEF Contract!Next, Contracted
<1>8. CASE SetIdle
  <2>1. Contract!Done
    BY <1>8 DEF SetIdle, Contract!Done
  <2> QED BY <2>1 DEF Contract!Next, Contracted
<1>9. CASE SetFault
  <2>1. Contract!Done
    BY <1>9 DEF SetFault, Contract!Done, FailInv
  <2> QED BY <2>1 DEF Contract!Next, Contracted
<1> QED BY <1>1, <1>2, <1>3, <1>4, <1>5, <1>6, <1>7, <1>8, <1>9

\* The mode API.
LEMMA ModeIsContracted ==
    ASSUME TypeOK, Rest, FailInv, TypeOK', Rest', ModeStep
    PROVE  Contracted
<1> USE BusyIsDriver
<1>1. CASE EnterManual /\ app = "idle"
  BY <1>1 DEF EnterManual, Contracted, Contract!vars
<1>2. CASE EnterManual /\ app = "setManual"
  <2>1. Contract!SetMode
    BY <1>2 DEF EnterManual, Contract!SetMode
  <2> QED BY <2>1 DEF Contract!Next, Contracted
<1>3. CASE ExitManual
  <2>1. Contract!SetMode
    BY <1>3 DEF ExitManual, Contract!SetMode
  <2> QED BY <2>1 DEF Contract!Next, Contracted
<1>4. CASE SetManualSetpoint \/ \E src \in {"Pot", "Gui"} : SelectSource(src)
  BY <1>4 DEF SetManualSetpoint, SelectSource, Contracted, Contract!vars
<1> QED BY <1>1, <1>2, <1>3, <1>4 DEF ModeStep, EnterManual

\* Every other thread.
LEMMA WorkersAreContracted ==
    ASSUME TypeOK, Rest, FailInv, TypeOK', Rest',
           CameraFrame \/ CtlStep \/ ActStep \/ PotSample \/ PotStep \/ GuiStep
    PROVE  Contracted
<1> USE BusyIsDriver
<1>1. CASE EstimateSetMode
  <2>1. Contract!Track
    BY <1>1 DEF EstimateSetMode, CtlUnchanged, Contract!Track, FailInv
  <2> QED BY <2>1 DEF Contract!Next, Contracted
<1>2. CASE CtlSolve \/ PotSolve \/ GuiSolve
  <2>1. CASE GeometryValid
    BY <1>2, <2>1 DEF CtlSolve, PotSolve, GuiSolve, CtlUnchanged, PotUnchanged, GuiUnchanged,
       Solve, Contracted, Contract!vars
  <2>2. CASE ~GeometryValid
    <3>1. Contract!Fault
      BY <1>2, <2>2 DEF CtlSolve, PotSolve, GuiSolve, CtlUnchanged, PotUnchanged,
         GuiUnchanged, Solve, Contract!Fault, FailInv
    <3> QED BY <3>1 DEF Contract!Next, Contracted
  <2> QED BY <2>1, <2>2
<1>3. CASE ActRunning
  <2>1. CASE running
    <3>1. Contract!Enter("worker")
      BY <1>3, <2>1 DEF ActRunning, ActUnchanged, Contract!Enter
    <3> QED BY <3>1 DEF Contract!Next, Contracted
  <2>2. CASE ~running
    BY <1>3, <2>2 DEF ActRunning, ActUnchanged, Contracted, Contract!vars
  <2> QED BY <2>1, <2>2
<1>4. CASE ActCommand
  <2>1. CASE act = "command"
    BY <1>4, <2>1 DEF ActCommand, ActUnchanged, Contracted, Contract!vars
  <2>2. CASE act = "apply"
    <3>1. Contract!Exit
      BY <1>4, <2>2 DEF ActCommand, ActUnchanged, Contract!Exit
    <3> QED BY <3>1 DEF Contract!Next, Contracted
  <2> QED BY <1>4, <2>1, <2>2 DEF ActCommand
<1>5. CASE ActPop \/ ActNone
  BY <1>5 DEF ActPop, ActNone, ActUnchanged, Contracted, Contract!vars
<1>6. CASE \/ CameraFrame \/ CtlPop \/ CtlNone \/ CtlRunning \/ CtlMode \/ CtlTrack
           \/ EstimateRunning \/ EstimateMode \/ EstimateAgain \/ SetpointRunning
           \/ SetpointMode
  BY <1>6 DEF CameraFrame, CtlPop, CtlNone, CtlRunning, CtlMode, CtlTrack, EstimateRunning,
     EstimateMode, EstimateAgain, SetpointRunning, SetpointMode, CtlUnchanged, Contracted,
     Contract!vars
<1>7. CASE \/ PotSample \/ PotMode \/ PotSource
           \/ GuiPop \/ GuiNone \/ GuiRunning \/ GuiMode \/ GuiSource \/ GuiOwn
  BY <1>7 DEF PotSample, PotMode, PotSource, PotUnchanged, GuiPop, GuiNone, GuiRunning,
     GuiMode, GuiSource, GuiOwn, GuiUnchanged, Contracted, Contract!vars
<1> QED BY <1>1, <1>2, <1>3, <1>4, <1>5, <1>6, <1>7
        DEF CtlStep, ActStep, PotStep, GuiStep

\* SystemManager keeps the contract of Lifecycle, whatever its threads do.
THEOREM ContractIsKept == Spec => LifecycleSpec
<1>1. Init => Contract!Init
  BY DEF Init, Contract!Init, Busy
<1>2. IInv /\ IInv' /\ FailInv /\ [Next]_vars => Contracted
  <2> SUFFICES ASSUME TypeOK, Rest, TypeOK', Rest', FailInv, [Next]_vars PROVE Contracted
    BY DEF IInv
  <2>1. CASE UNCHANGED vars
    BY <2>1 DEF vars, Busy, Contracted, Contract!vars
  <2> HIDE DEF Rest, Contracted
  <2>2. CASE Next
    BY <2>2, StartIsContracted, StopIsContracted, ModeIsContracted, WorkersAreContracted
    DEF Next, AppStep, LifecycleStep
  <2> QED BY <2>1, <2>2
<1> QED
  BY <1>1, <1>2, Invariance, FailInvariance, PTL
  DEF Spec, LifecycleSpec, Contract!Spec, Contracted

-----------------------------------------------------------------------------
(* The joins of stop().                                                    *)

LEMMA StopInvStep == ASSUME StopInv, [Next]_vars PROVE StopInv'
<1> USE DEF StopInv
<1>1. CASE StartCall \/ StopCall
  BY <1>1 DEF StartCall, StopCall
<1>2. CASE \/ StartRefused \/ StartDriver \/ StartThreads \/ StartManual \/ StartImu
           \/ StartCamera \/ SetNeutral \/ Park \/ SetStartupMode \/ SetStartupSource
  BY <1>2 DEF StartRefused, StartDriver, StartThreads, StartManual, StartImu, StartCamera,
     FailStart, SetNeutral, Park, SetStartupMode, SetStartupSource
<1>3. CASE \/ SetStopping \/ StopCamera \/ StopImu \/ JoinPot \/ StopGui \/ StopGuiQueue
           \/ JoinGui \/ StopFrames \/ StopCommands \/ JoinControl \/ JoinActuator
  BY <1>3 DEF SetStopping, StopCamera, StopImu, JoinPot, StopGui, StopGuiQueue, JoinGui,
     StopFrames, StopCommands, JoinControl, JoinActuator
<1>4. CASE SolveNeutral \/ PopLeftover \/ LastCommand \/ StopDriver \/ SetIdle \/ SetFault
  BY <1>4 DEF SolveNeutral, PopLeftover, LastCommand, StopDriver, SetIdle, SetFault
<1>5. CASE ModeStep
  BY <1>5 DEF ModeStep, EnterManual, ExitManual, SetManualSetpoint, SelectSource
<1>6. CASE UNCHANGED <<app, guiStop, frameStop, cmdStop>>
  BY <1>6
<1>7. CASE CameraFrame \/ CtlStep \/ ActStep \/ PotSample \/ PotStep \/ GuiStep \/ UNCHANGED vars
  BY <1>7, <1>6 DEF CameraFrame, CtlStep, CtlPop, CtlNone, CtlRunning, CtlMode, CtlTrack,
     EstimateRunning, EstimateMode, EstimateSetMode, EstimateAgain, SetpointRunning,
     SetpointMode, CtlSolve, CtlUnchanged, ActStep, ActPop, ActNone, ActRunning, ActCommand,
     ActUnchanged, PotSample, PotStep, PotMode, PotSource, PotSolve, PotUnchanged, GuiStep,
     GuiPop, GuiNone, GuiRunning, GuiMode, GuiSource, GuiOwn, GuiSolve, GuiUnchanged, vars
<1> QED BY <1>1, <1>2, <1>3, <1>4, <1>5, <1>7 DEF Next, AppStep, LifecycleStep

LEMMA StopInvariance == Spec => []StopInv
<1>1. Init => StopInv
  BY DEF Init, StopInv
<1> QED BY <1>1, StopInvStep, PTL DEF Spec

\* A worker that stop() waits for has been told: its wait_pop() returns.
THEOREM JoinedThreadsAreAwake == Spec => []JoinedIsAwake
<1>1. StopInv => JoinedIsAwake
  BY DEF StopInv, JoinedIsAwake
<1> QED BY <1>1, StopInvariance, PTL

\* An item taken from a queue.
LEMMA TailIsShorter ==
    ASSUME NEW S, NEW q \in Seq(S), q # <<>>
    PROVE  Len(q) \in Nat /\ Len(Tail(q)) = Len(q) - 1 /\ Len(q) > 0
  BY EmptySeq

\* A step brings the end of the join nearer, or does not concern it.
Nearer == /\ StepsLeft' <= StepsLeft
          /\ (Joined' # Joined => StepsLeft' < StepsLeft)

LEMMA JoinStep ==
    ASSUME TypeOK, Rest, StopInv, [Next]_vars, app \in Joins, app' = app
    PROVE  Nearer
<1> USE DEF Joins, Joined, StepsLeft, Nearer
<1>1. /\ Len(guiQ) \in Nat /\ Len(frameQ) \in Nat /\ Len(cmdQ) \in Nat
      /\ PotLeft \in 0..5 /\ GuiLeft \in 0..7 /\ CtlLeft \in 0..11 /\ ActLeft \in 0..4
  BY DEF TypeOK, PotLeft, GuiLeft, CtlLeft, ActLeft
<1>2. CASE AppStep
  BY <1>2 DEF AppStep, StartCall, StopCall, LifecycleStep, StartRefused, StartDriver,
     StartThreads, StartManual, StartImu, StartCamera, SetNeutral, Park, SetStartupMode,
     SetStartupSource, SetStopping, StopCamera, StopImu, JoinPot, StopGui, StopGuiQueue,
     JoinGui, StopFrames, StopCommands, JoinControl, JoinActuator, SolveNeutral, PopLeftover,
     LastCommand, StopDriver, SetIdle, SetFault, ModeStep, EnterManual, ExitManual,
     SetManualSetpoint, SelectSource
<1>3. CASE CameraFrame
  BY <1>3 DEF CameraFrame
<1>4. CASE UNCHANGED vars
  BY <1>1, <1>4 DEF vars, PotLeft, GuiLeft, CtlLeft, ActLeft
<1>5. CASE PotSample \/ PotStep
  BY <1>1, <1>5 DEF PotSample, PotStep, PotMode, PotSource, PotSolve, PotUnchanged, PotLeft,
     GuiLeft, CtlLeft, ActLeft
<1>6. CASE GuiStep
  <2>1. CASE GuiPop
    <3>1. Len(guiQ') = Len(guiQ) - 1
      BY <2>1, TailIsShorter DEF GuiPop, TypeOK
    <3> QED BY <1>1, <2>1, <3>1 DEF GuiPop, GuiUnchanged, PotLeft, GuiLeft, CtlLeft, ActLeft
  <2>2. CASE GuiNone \/ GuiRunning \/ GuiMode \/ GuiSource \/ GuiOwn \/ GuiSolve
    BY <1>1, <2>2 DEF GuiNone, GuiRunning, GuiMode, GuiSource, GuiOwn, GuiSolve, GuiUnchanged,
       PotLeft, GuiLeft, CtlLeft, ActLeft
  <2> QED BY <1>6, <2>1, <2>2 DEF GuiStep
<1>7. CASE CtlStep
  <2>1. CASE CtlPop
    <3>1. Len(frameQ') = Len(frameQ) - 1
      BY <2>1, TailIsShorter DEF CtlPop, TypeOK
    <3> QED BY <1>1, <2>1, <3>1 DEF CtlPop, CtlUnchanged, PotLeft, GuiLeft, CtlLeft, ActLeft
  <2>2. CASE \/ CtlNone \/ CtlRunning \/ CtlMode \/ CtlTrack \/ EstimateRunning
             \/ EstimateMode \/ EstimateSetMode \/ EstimateAgain \/ SetpointRunning
             \/ SetpointMode \/ CtlSolve
    BY <1>1, <2>2 DEF CtlNone, CtlRunning, CtlMode, CtlTrack, EstimateRunning, EstimateMode,
       EstimateSetMode, EstimateAgain, SetpointRunning, SetpointMode, CtlSolve, CtlUnchanged,
       PotLeft, GuiLeft, CtlLeft, ActLeft
  <2> QED BY <1>7, <2>1, <2>2 DEF CtlStep
<1>8. CASE ActStep
  <2>1. CASE ActPop
    <3>1. Len(cmdQ') = Len(cmdQ) - 1
      BY <2>1, TailIsShorter DEF ActPop, TypeOK
    <3> QED BY <1>1, <2>1, <3>1 DEF ActPop, ActUnchanged, PotLeft, GuiLeft, CtlLeft, ActLeft
  <2>2. CASE ActNone \/ ActRunning \/ ActCommand
    BY <1>1, <2>2 DEF ActNone, ActRunning, ActCommand, ActUnchanged, PotLeft, GuiLeft,
       CtlLeft, ActLeft
  <2> QED BY <1>8, <2>1, <2>2 DEF ActStep
<1> QED BY <1>2, <1>3, <1>4, <1>5, <1>6, <1>7, <1>8 DEF Next

\* Every join of stop() is over after as many steps of the thread as it has left:
\* nobody gives it more to do.
THEOREM JoinsComeNearer == Spec => JoinsEnd
<1>1. IInv /\ StopInv /\ [Next]_vars =>
        [(app \in Joins /\ app' = app) =>
             /\ StepsLeft' <= StepsLeft
             /\ (Joined' # Joined => StepsLeft' < StepsLeft)]_vars
  BY JoinStep DEF IInv, Nearer
<1> QED BY <1>1, Invariance, StopInvariance, PTL DEF Spec, JoinsEnd

-----------------------------------------------------------------------------
(* The contract with the two backends.                                     *)

\* Steps that concern neither start() nor stop() leave the units alone, but for
\* the callback of the potentiometers.
LEMMA OthersLeaveUnits ==
    ASSUME ModeStep \/ CameraFrame \/ CtlStep \/ ActStep \/ GuiStep \/ UNCHANGED vars
    PROVE  /\ UNCHANGED <<running, imuMode, pot, imu>>
           /\ app' = app \/ {app, app'} \subseteq {"idle", "setManual"}
  BY DEF ModeStep, EnterManual, ExitManual, SetManualSetpoint, SelectSource, CameraFrame,
     CtlStep, CtlPop, CtlNone, CtlRunning, CtlMode, CtlTrack, EstimateRunning, EstimateMode,
     EstimateSetMode, EstimateAgain, SetpointRunning, SetpointMode, CtlSolve, CtlUnchanged,
     ActStep, ActPop, ActNone, ActRunning, ActCommand, ActUnchanged, GuiStep, GuiPop, GuiNone,
     GuiRunning, GuiMode, GuiSource, GuiOwn, GuiSolve, GuiUnchanged, vars

LEMMA PotStaysUp ==
    ASSUME PotSample \/ PotStep
    PROVE  /\ UNCHANGED <<app, running, imuMode, imu>>
           /\ pot # "off" /\ pot' # "off"
           /\ pot = "wait" => running /\ pot' = "mode"
  BY DEF PotSample, PotStep, PotMode, PotSource, PotSolve, PotUnchanged

LEMMA PotInvStep == ASSUME PotInv, [Next]_vars PROVE PotInv'
<1> USE DEF PotInv
<1>1. CASE LifecycleStep
  <2>1. app' = "startImu" => app = "startManual" /\ StartManual
    BY <1>1 DEF LifecycleStep, StartRefused, StartDriver, StartThreads, StartManual, StartImu,
       StartCamera, FailStart, SetNeutral, Park, SetStartupMode, SetStartupSource, SetStopping,
       StopCamera, StopImu, JoinPot, StopGui, StopGuiQueue, JoinGui, StopFrames, StopCommands,
       JoinControl, JoinActuator, SolveNeutral, PopLeftover, LastCommand, StopDriver, SetIdle,
       SetFault
  <2> QED BY <2>1 DEF StartManual, FailStart
<1>2. CASE StartCall \/ StopCall
  BY <1>2 DEF StartCall, StopCall
<1>3. CASE ModeStep \/ CameraFrame \/ CtlStep \/ ActStep \/ GuiStep \/ UNCHANGED vars
  BY <1>3, OthersLeaveUnits
<1>4. CASE PotSample \/ PotStep
  BY <1>4, PotStaysUp
<1> QED BY <1>1, <1>2, <1>3, <1>4 DEF Next, AppStep

UnitsKept == [Units!Next]_(Units!vars)

USE DEF UnitPhase, PotUnit

\* start() and stop(), as the backends see them.
LEMMA StartKeepsUnits ==
    ASSUME TypeOK, Rest, TypeOK', Rest', PotInv, AppStep, ~ModeStep
    PROVE  UnitsKept
<1> USE DEF UnitsKept
<1>0. imu \in BOOLEAN /\ imu' \in BOOLEAN
  BY DEF TypeOK
<1>1. CASE \/ StartCall \/ StartRefused \/ StartDriver \/ SetNeutral \/ Park \/ SetStartupMode
           \/ SetStartupSource
  <2>1. UNCHANGED <<UnitPhase, imuMode, pot, imu>>
    BY <1>1 DEF StartCall, StartRefused, StartDriver, SetNeutral, Park, SetStartupMode,
       SetStartupSource
  <2> QED BY <2>1 DEF Units!vars, ImuUnit
<1>2. CASE StartThreads
  <2>1. Units!Start
    BY <1>2 DEF StartThreads, Units!Start, ImuUnit
  <2> QED BY <2>1 DEF Units!Next
<1>3. CASE StartManual
  <2>0. pot = "off" /\ imu = FALSE /\ UNCHANGED <<imu, imuMode>>
    BY <1>0, <1>3 DEF StartManual
  <2>1. CASE app' = "setStopping"
    <3>1. Units!Fail
      BY <1>3, <2>0, <2>1 DEF StartManual, FailStart, Units!Fail, ImuUnit
    <3> QED BY <3>1 DEF Units!Next
  <2>2. CASE app' = "startImu" /\ "manual" \in Backends
    <3>1. Units!PotUp
      BY <1>3, <2>0, <2>2 DEF StartManual, FailStart, Units!PotUp, ImuUnit
    <3> QED BY <3>1 DEF Units!Next
  <2>3. CASE app' = "startImu" /\ "manual" \notin Backends
    BY <1>3, <2>0, <2>3 DEF StartManual, FailStart, Units!vars, ImuUnit
  <2> QED BY <1>3, <2>1, <2>2, <2>3 DEF StartManual, FailStart
<1>4. CASE StartImu
  <2>0. imu = FALSE /\ UNCHANGED pot /\ app = "startImu"
    BY <1>0, <1>4 DEF StartImu
  <2>1. CASE app' = "setStopping"
    <3>1. Units!Fail
      BY <1>4, <2>0, <2>1 DEF StartImu, FailStart, Units!Fail, ImuUnit
    <3> QED BY <3>1 DEF Units!Next
  <2>2. CASE app' = "startCamera"
    <3>1. /\ UnitPhase = "starting" /\ UnitPhase' = "up"
          /\ "manual" \in Backends => PotUnit # "off"
          /\ ImuUnit = "off" /\ UNCHANGED PotUnit
      BY <1>4, <2>0, <2>2 DEF StartImu, FailStart, ImuUnit, PotInv
    <3>2. \/ "imu" \notin Backends /\ imuMode' = imuMode /\ imu' = FALSE
          \/ "imu" \in Backends /\ imu' = TRUE /\ imuMode' = imuMode
          \/ "imu" \in Backends /\ imuMode # "Live" /\ imuMode' = "Disabled" /\ imu' = FALSE
      <4>1. CASE imu' = ("imu" \in Backends) /\ imuMode' = imuMode
        BY <1>0, <4>1, Zenon
      <4>2. CASE "imu" \in Backends /\ imuMode # "Live" /\ imuMode' = "Disabled" /\ imu' = imu
        BY <2>0, <4>2
      <4>3. \/ imu' = ("imu" \in Backends) /\ imuMode' = imuMode
            \/ "imu" \in Backends /\ imuMode # "Live" /\ imuMode' = "Disabled" /\ imu' = imu
        BY <1>4, <2>2, Zenon DEF StartImu, FailStart
      <4> QED BY <4>1, <4>2, <4>3
    <3>3. Units!Succeed
      BY <3>1, <3>2 DEF Units!Succeed, ImuUnit
    <3> QED BY <3>3 DEF Units!Next
  <2> QED BY <1>4, <2>1, <2>2 DEF StartImu, FailStart
<1>5. CASE StartCamera \/ StopCall
  <2>1. CASE app' = "setStopping"
    <3>1. UNCHANGED <<imuMode, pot, imu>>
      BY <1>5 DEF StartCamera, FailStart, StopCall
    <3>2. UnitPhase = "up" /\ UnitPhase' = "stopping"
      BY <1>5, <2>1 DEF StartCamera, FailStart, StopCall
    <3>3. Units!Stop
      BY <3>1, <3>2 DEF Units!Stop, ImuUnit
    <3> QED BY <3>3 DEF Units!Next
  <2>2. CASE app' # "setStopping"
    BY <1>5, <2>2 DEF StartCamera, FailStart, StopCall, Units!vars, ImuUnit
  <2> QED BY <2>1, <2>2
<1>6. CASE StopImu
  <2>1. CASE imu = TRUE
    <3>1. Units!ImuDown
      BY <1>6, <2>1 DEF StopImu, Units!ImuDown, ImuUnit
    <3> QED BY <3>1 DEF Units!Next
  <2>2. CASE imu = FALSE
    BY <1>6, <2>2 DEF StopImu, Units!vars, ImuUnit
  <2> QED BY <1>0, <2>1, <2>2
<1>7. CASE JoinPot
  <2>1. imu = FALSE /\ imu' = FALSE
    BY <1>0, <1>7 DEF JoinPot
  <2>2. Units!Done
    BY <1>7, <2>1 DEF JoinPot, Units!Done, ImuUnit
  <2> QED BY <2>2 DEF Units!Next
<1>8. CASE \/ SetStopping \/ StopCamera \/ StopGui \/ StopGuiQueue \/ JoinGui \/ StopFrames
           \/ StopCommands \/ JoinControl \/ JoinActuator
  <2>1. UNCHANGED <<UnitPhase, imuMode, pot, imu>>
    BY <1>8 DEF SetStopping, StopCamera, StopGui, StopGuiQueue, JoinGui, StopFrames,
       StopCommands, JoinControl, JoinActuator
  <2> QED BY <2>1 DEF Units!vars, ImuUnit
<1>9. CASE SolveNeutral \/ PopLeftover \/ LastCommand \/ StopDriver \/ SetIdle \/ SetFault
  <2>1. UNCHANGED <<UnitPhase, imuMode, pot, imu>>
    BY <1>9 DEF SolveNeutral, PopLeftover, LastCommand, StopDriver, SetIdle, SetFault
  <2> QED BY <2>1 DEF Units!vars, ImuUnit
<1> QED
  BY <1>1, <1>2, <1>3, <1>4, <1>5, <1>6, <1>7, <1>8, <1>9 DEF AppStep, LifecycleStep

LEMMA WorkersKeepUnits ==
    ASSUME TypeOK, Rest,
           ModeStep \/ CameraFrame \/ CtlStep \/ ActStep \/ GuiStep \/ PotSample \/ PotStep
           \/ UNCHANGED vars
    PROVE  UnitsKept
<1>1. CASE ModeStep \/ CameraFrame \/ CtlStep \/ ActStep \/ GuiStep \/ UNCHANGED vars
  <2>1. UNCHANGED <<UnitPhase, imuMode, pot, imu>>
    BY <1>1, OthersLeaveUnits
  <2> QED BY <2>1 DEF UnitsKept, Units!vars, ImuUnit
<1>2. CASE PotSample \/ PotStep
  <2>0. UNCHANGED <<UnitPhase, imuMode, ImuUnit>>
    BY <1>2, PotStaysUp DEF ImuUnit
  <2>1. CASE pot = "wait"
    <3>1. Units!PotCall
      BY <1>2, <2>0, <2>1, PotStaysUp DEF Units!PotCall
    <3> QED BY <3>1 DEF Units!Next, UnitsKept
  <2>2. CASE pot # "wait" /\ pot' = "wait"
    <3>1. Units!PotReturn
      BY <1>2, <2>0, <2>2, PotStaysUp DEF Units!PotReturn
    <3> QED BY <3>1 DEF Units!Next, UnitsKept
  <2>3. CASE pot # "wait" /\ pot' # "wait"
    BY <1>2, <2>0, <2>3, PotStaysUp DEF Units!vars, UnitsKept
  <2> QED BY <2>1, <2>2, <2>3
<1> QED BY <1>1, <1>2

\* SystemManager asks of its backends no more than BackendCoordinator is proved
\* to give: whatever fails, both keep the same contract.
THEOREM UnitsAreUsedAsPromised == Spec => UnitsSpec
<1>1. Init => Units!Init /\ PotInv
  BY DEF Init, Units!Init, ImuUnit, PotInv
<1>2. IInv /\ IInv' /\ PotInv /\ [Next]_vars => UnitsKept
  <2> SUFFICES ASSUME TypeOK, Rest, TypeOK', Rest', PotInv, [Next]_vars PROVE UnitsKept
    BY DEF IInv
  <2> HIDE DEF Rest
  <2> QED BY StartKeepsUnits, WorkersKeepUnits DEF Next, AppStep
<1>3. PotInv /\ [Next]_vars => PotInv'
  BY PotInvStep
<1> QED
  BY <1>1, <1>2, <1>3, Invariance, PTL DEF Spec, UnitsSpec, Units!Spec, UnitsKept

=============================================================================
