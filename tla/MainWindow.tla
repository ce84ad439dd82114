------------------------------ MODULE MainWindow ------------------------------
(***************************************************************************)
(* The Qt front end: MainWindow and the end of main_qt's main().           *)
(*                                                                         *)
(* Threads: the Qt thread (ui), which runs button handlers, timers and the *)
(* way out; the converter thread; the camera thread in the frame observer; *)
(* the threads in the command observer; the worker of GuiManualDispatcher. *)
(* convMutex_ is held by the converter at "locked" and "deciding", else by *)
(* steps that need it free and are over at once.  A handler of the Qt      *)
(* thread is one step: no other thread's step in it makes a difference.    *)
(*                                                                         *)
(* A frame is its number; pending and images carry the number of the frame *)
(* their bytes and their geometry come from.                               *)
(***************************************************************************)
EXTENDS Naturals

CONSTANTS
    MaxFrame,   (* bound: frames                                            *)
    MaxCommand  (* bound: actuator commands                                 *)

VARIABLES
    ui,         (* where the Qt thread is                                   *)
    system,     (* SystemManager: "up", "stopping", "down"                  *)
    manualMode_, guiManualOwner_,
    source,     (* manual_source_ of ManualImuCoordinator                   *)
    queued,     (* the queue of GuiManualDispatcher holds a setpoint        *)
    dispatch,   (* its worker: "idle", "own"                                *)
    overtaken,  (* history: it took the path back since the last choice     *)
    frame,      (* the last frame the observer took                         *)
    observer,   (* frame observer: "idle", "notify"                         *)
    pending,    (* pendingFrame...                                          *)
    convHasFrame_, convRunning_,
    conv,       (* converter thread                                         *)
    buf,        (* what it took                                             *)
    latestImg_,
    shown,      (* the frame on camView_                                    *)
    u, outputSequence_,         (* the last command; how many were counted  *)
    commands,   (* command observer: "idle", "count"                        *)
    plotted, lastPlottedOutputSequence_

modeVars    == <<manualMode_, guiManualOwner_, source, queued, dispatch, overtaken>>
frameVars   == <<frame, observer, pending, convHasFrame_>>
convVars    == <<convRunning_, conv, buf, latestImg_>>
plotVars    == <<plotted, lastPlottedOutputSequence_>>
commandVars == <<u, outputSequence_, commands>>
vars == <<ui, system, modeVars, frameVars, convVars, shown, commandVars, plotVars>>

None == [bytes |-> 0, geometry |-> 0]

\* At the end of the constructor, with the system started before it.
Init ==
    /\ ui = "loop" /\ system = "up"
    /\ manualMode_ = FALSE /\ guiManualOwner_ = FALSE /\ source = "Pot"
    /\ queued = FALSE /\ dispatch = "idle" /\ overtaken = FALSE
    /\ frame = 0 /\ observer = "idle" /\ pending = None /\ convHasFrame_ = FALSE
    /\ convRunning_ = TRUE /\ conv = "top" /\ buf = None /\ latestImg_ = None
    /\ shown = 0
    /\ u = 0 /\ outputSequence_ = 0 /\ commands = "idle"
    /\ plotted = 0 /\ lastPlottedOutputSequence_ = 0

UiGo(from, to)   == ui = from /\ ui' = to
ConvGo(from, to) == conv = from /\ conv' = to

MutexFree == conv \notin {"locked", "deciding"}

-----------------------------------------------------------------------------
(* Buttons and sliders, while enabled.                                     *)

ClickAuto ==
    /\ UiGo("loop", "loop") /\ manualMode_
    /\ manualMode_' = FALSE /\ guiManualOwner_' = FALSE
    /\ UNCHANGED <<system, source, queued, dispatch, overtaken, frameVars, convVars,
                   shown, commandVars, plotVars>>

Choose(src) ==
    /\ source' = src
    /\ guiManualOwner_' = (src = "Gui")
    /\ overtaken' = FALSE
    /\ UNCHANGED <<system, queued, dispatch, frameVars, convVars, shown, commandVars,
                   plotVars>>

ClickManual == UiGo("loop", "loop") /\ ~manualMode_ /\ manualMode_' = TRUE /\ Choose("Pot")

ClickUsePot ==
    /\ UiGo("loop", "loop") /\ manualMode_ /\ guiManualOwner_
    /\ Choose("Pot") /\ UNCHANGED manualMode_

ClickUseGui ==
    /\ UiGo("loop", "loop") /\ manualMode_ /\ ~guiManualOwner_
    /\ Choose("Gui") /\ UNCHANGED manualMode_

\* Mutant of sendManual: a slider that moves takes the path.
sendManualAnyway ==
    /\ UiGo("loop", "loop")
    /\ manualMode_
    /\ source' = "Gui" /\ queued' = TRUE
    /\ UNCHANGED <<system, manualMode_, guiManualOwner_, dispatch, overtaken, frameVars,
                   convVars, shown, commandVars, plotVars>>

\* sendManual_() from a slider, Send or Zero: SystemManager::setManualSetpoint()
\* puts it in the dispatcher's queue of one.
sendManual ==
    /\ UiGo("loop", "loop")
    /\ manualMode_ /\ guiManualOwner_
    /\ source' = "Gui" /\ queued' = TRUE
    /\ UNCHANGED <<system, manualMode_, guiManualOwner_, dispatch, overtaken, frameVars,
                   convVars, shown, commandVars, plotVars>>

\* dispatch_(): the checks, passed or not (state_ is not followed here).
DispatchCheck ==
    /\ system = "up" /\ queued /\ dispatch = "idle"
    /\ queued' = FALSE
    /\ \/ source = "Gui" /\ dispatch' = "own"
       \/ UNCHANGED dispatch
    /\ UNCHANGED <<ui, system, manualMode_, guiManualOwner_, source, overtaken,
                   frameVars, convVars, shown, commandVars, plotVars>>

\* buildManualSetpointFromGui() takes the path, or is refused for the state.
DispatchOwn ==
    /\ dispatch = "own" /\ dispatch' = "idle"
    /\ \/ source' = "Gui" /\ overtaken' = (overtaken \/ source = "Pot")
       \/ UNCHANGED <<source, overtaken>>
    /\ UNCHANGED <<ui, system, manualMode_, guiManualOwner_, queued, frameVars,
                   convVars, shown, commandVars, plotVars>>

-----------------------------------------------------------------------------
(* Preview.                                                                *)

\* The frame observer with a readable frame; another is returned from at once.
TakeFrame ==
    /\ system # "down" /\ observer = "idle" /\ MutexFree /\ frame < MaxFrame
    /\ frame' = frame + 1
    /\ pending' = [bytes |-> frame', geometry |-> frame']
    /\ convHasFrame_' = TRUE
    /\ observer' = "notify"
    /\ UNCHANGED <<ui, system, modeVars, convVars, shown, commandVars, plotVars>>

NotifyFrame ==
    /\ observer = "notify" /\ observer' = "idle"
    /\ conv' = IF conv = "asleep" THEN "woken" ELSE conv
    /\ UNCHANGED <<ui, system, modeVars, frame, pending, convHasFrame_, convRunning_,
                   buf, latestImg_, shown, commandVars, plotVars>>

\* The while condition.
Loop ==
    /\ ConvGo("top", IF convRunning_ THEN "woken" ELSE "done")
    /\ UNCHANGED <<ui, system, modeVars, frameVars, convRunning_, buf, latestImg_,
                   shown, commandVars, plotVars>>

\* Lock or wake up with the lock.
Lock ==
    /\ ConvGo("woken", "locked")
    /\ UNCHANGED <<ui, system, modeVars, frameVars, convRunning_, buf, latestImg_,
                   shown, commandVars, plotVars>>

SpuriousWake ==
    /\ ConvGo("asleep", "woken")
    /\ UNCHANGED <<ui, system, modeVars, frameVars, convRunning_, buf, latestImg_,
                   shown, commandVars, plotVars>>

\* The predicate of wait() and, when it holds, the rest of the critical section.
TakePending ==
    /\ \/ /\ ~convRunning_
          /\ ConvGo("locked", "done")
          /\ UNCHANGED <<buf, pending, convHasFrame_>>
       \/ /\ convRunning_ /\ ~convHasFrame_
          /\ ConvGo("locked", "deciding")
          /\ UNCHANGED <<buf, pending, convHasFrame_>>
       \/ /\ convRunning_ /\ convHasFrame_
          /\ ConvGo("locked", "convert")
          /\ buf' = pending
          /\ pending' = [pending EXCEPT !.bytes = 0]
          /\ convHasFrame_' = FALSE
    /\ UNCHANGED <<ui, system, modeVars, frame, observer, convRunning_, latestImg_,
                   shown, commandVars, plotVars>>

\* Between the predicate and the sleep the mutex is held, convRunning_ is not kept.
Sleep ==
    /\ ConvGo("deciding", "asleep")
    /\ UNCHANGED <<ui, system, modeVars, frameVars, convRunning_, buf, latestImg_,
                   shown, commandVars, plotVars>>

\* Mutant of Convert: the geometry is read when it is needed.
ConvertInPlace ==
    /\ ConvGo("convert", "top")
    /\ latestImg_' = IF buf.bytes = 0 THEN latestImg_
                     ELSE [buf EXCEPT !.geometry = pending.geometry]
    /\ UNCHANGED <<ui, system, modeVars, frameVars, convRunning_, buf, shown,
                   commandVars, plotVars>>

\* Mutant of Convert: the flag is lowered when the conversion is over.
ConvertAndLower ==
    /\ ConvGo("convert", "top")
    /\ latestImg_' = IF buf.bytes = 0 THEN latestImg_ ELSE buf
    /\ convHasFrame_' = FALSE
    /\ UNCHANGED <<ui, system, modeVars, frame, observer, pending, convRunning_, buf,
                   shown, commandVars, plotVars>>

\* A buffer that was moved from is not readable.
Convert ==
    /\ ConvGo("convert", "top")
    /\ latestImg_' = IF buf.bytes = 0 THEN latestImg_ ELSE buf
    /\ UNCHANGED <<ui, system, modeVars, frameVars, convRunning_, buf, shown,
                   commandVars, plotVars>>

updateCamera ==
    /\ UiGo("loop", "loop") /\ latestImg_ # None
    /\ shown' = latestImg_.bytes
    /\ UNCHANGED <<system, modeVars, frameVars, convVars, commandVars, plotVars>>

-----------------------------------------------------------------------------
(* Plots: one series stands for the three.                                 *)

\* The command observer stores the values, then counts.
StoreCommand ==
    /\ system # "down" /\ commands = "idle" /\ u < MaxCommand
    /\ u' = u + 1
    /\ commands' = "count"
    /\ UNCHANGED <<ui, system, modeVars, frameVars, convVars, shown, outputSequence_,
                   plotVars>>

CountCommand ==
    /\ commands = "count" /\ commands' = "idle"
    /\ outputSequence_' = outputSequence_ + 1
    /\ UNCHANGED <<ui, system, modeVars, frameVars, convVars, shown, u, plotVars>>

\* onPlotTick_() loads the count, then the values.  A command stored between the
\* two loads is only plotted once more, so the handler is one step.
onPlotTick ==
    /\ UiGo("loop", "loop") /\ outputSequence_ # lastPlottedOutputSequence_
    /\ plotted' = u
    /\ lastPlottedOutputSequence_' = outputSequence_
    /\ UNCHANGED <<system, modeVars, frameVars, convVars, shown, commandVars>>

-----------------------------------------------------------------------------
(* The way out.                                                            *)

\* STOP or closing the window stops the converter first; QApplication may also
\* quit without either.
closeEvent ==
    /\ \/ UiGo("loop", "lower")
       \/ UiGo("loop", "stop")
    /\ UNCHANGED <<system, modeVars, frameVars, convVars, shown, commandVars, plotVars>>

LowerConverter ==
    /\ UiGo("lower", "raise")
    /\ convRunning_' = FALSE
    /\ UNCHANGED <<system, modeVars, frameVars, conv, buf, latestImg_, shown,
                   commandVars, plotVars>>

\* Mutant of RaiseFrame: the flag is set without the mutex.
RaiseFrameUnlocked ==
    /\ UiGo("raise", "notify")
    /\ convHasFrame_' = TRUE
    /\ UNCHANGED <<system, modeVars, frame, observer, pending, convVars, shown,
                   commandVars, plotVars>>

\* The mutex is what keeps a converter that saw convRunning_ from sleeping on.
RaiseFrame ==
    /\ MutexFree
    /\ UiGo("raise", "notify")
    /\ convHasFrame_' = TRUE
    /\ UNCHANGED <<system, modeVars, frame, observer, pending, convVars, shown,
                   commandVars, plotVars>>

NotifyConverter ==
    /\ UiGo("notify", "join")
    /\ conv' = IF conv = "asleep" THEN "woken" ELSE conv
    /\ UNCHANGED <<system, modeVars, frameVars, convRunning_, buf, latestImg_, shown,
                   commandVars, plotVars>>

\* What follows depends on who stopped the converter: a second stop() of the
\* system, or of the converter, has nothing to do.
JoinConverter ==
    /\ UiGo("join", IF system = "up" THEN "stop" ELSE "gone")
    /\ conv = "done"
    /\ UNCHANGED <<system, modeVars, frameVars, convVars, shown, commandVars, plotVars>>

StopSystem ==
    /\ UiGo("stop", "joinSystem")
    /\ system' = "stopping"
    /\ UNCHANGED <<modeVars, frameVars, convVars, shown, commandVars, plotVars>>

\* SystemManager::stop() returns when no callback runs any more; main() calls
\* it once more, and the window is destroyed after that.
JoinSystem ==
    /\ UiGo("joinSystem", IF convRunning_ THEN "lower" ELSE "gone")
    /\ observer = "idle" /\ commands = "idle" /\ dispatch = "idle"
    /\ system' = "down"
    /\ UNCHANGED <<modeVars, frameVars, convVars, shown, commandVars, plotVars>>

-----------------------------------------------------------------------------
Click == ClickAuto \/ ClickManual \/ ClickUsePot \/ ClickUseGui \/ sendManual
ConverterStep == Loop \/ Lock \/ TakePending \/ Sleep \/ Convert
ObserverStep == NotifyFrame \/ CountCommand
DispatchStep == DispatchCheck \/ DispatchOwn
ExitStep == LowerConverter \/ RaiseFrame \/ NotifyConverter \/ JoinConverter
            \/ StopSystem \/ JoinSystem

Next == Click \/ DispatchStep \/ TakeFrame \/ SpuriousWake \/ ConverterStep
        \/ StoreCommand \/ ObserverStep \/ updateCamera \/ onPlotTick
        \/ closeEvent \/ ExitStep

\* The two timers take turns with everything else the event loop serves.
Spec == /\ Init /\ [][Next]_vars
        /\ WF_vars(ConverterStep) /\ WF_vars(ObserverStep)
        /\ WF_vars(DispatchStep) /\ WF_vars(ExitStep)
        /\ WF_vars(updateCamera) /\ WF_vars(onPlotTick)

-----------------------------------------------------------------------------
(* Properties.                                                             *)

\* An image is one frame, bytes and geometry, and newer than the one before.
PreviewAdvances ==
    [][ /\ latestImg_'.bytes = latestImg_'.geometry
        /\ latestImg_'.bytes > latestImg_.bytes ]_latestImg_

\* While the window stays open, the last frame reaches the screen and the last
\* command reaches the plot.
DisplayCatchesUp ==
    /\ \A n \in 1..MaxFrame :
           frame = n ~> shown = n \/ frame # n \/ ui # "loop"
    /\ \A n \in 1..MaxCommand :
           u = n ~> plotted = n \/ u # n \/ ui # "loop"

\* In manual mode the window names the source that moves the platform, unless
\* the dispatcher, past its check, took the path back.
LabelsTrue == manualMode_ /\ ~overtaken => (guiManualOwner_ <=> source = "Gui")

\* The window outlives every thread that may call into it.
NothingLeft == ui = "gone" => /\ system = "down" /\ conv = "done"
                              /\ observer = "idle" /\ commands = "idle"

\* The window that is told to close is gone some day.
ExitReturns == ui # "loop" ~> ui = "gone"

=============================================================================
