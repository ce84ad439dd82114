------------------------------- MODULE FrontEnds -------------------------------
(***************************************************************************)
(* A build has one front end: main() with Application and its              *)
(* LinuxEventLoop, or the main() of main_qt with MainWindow.  Each owns    *)
(* the SystemManager, asks it for the same things, and is responsible for  *)
(* stopping it.                                                            *)
(***************************************************************************)
EXTENDS Naturals, Sequences

CONSTANTS FrontEnd, Commands, MaxLines, ReadSize, MaxFrame, MaxCommand

ASSUME FrontEndAssumption ==
    /\ FrontEnd \subseteq {"cli", "qt"}
    /\ MaxLines \in Nat /\ ReadSize \in Nat \ {0} /\ "unknown" \in Commands
    /\ MaxFrame \in Nat /\ MaxCommand \in Nat

VARIABLES
    front,      (* the front end of this build                              *)
    system,     (* of both                                                  *)
    loop, fds, blocked, inherited, signalled, ready, pending_, calls, script,
    typed, got, pipe, closed,                                   (* cli      *)
    ui, manualMode_, guiManualOwner_, source, queued, dispatch, overtaken,
    frame, observer, pending, convHasFrame_, convRunning_, conv, buf,
    latestImg_, shown, u, outputSequence_, commands, plotted,
    lastPlottedOutputSequence_                                  (* qt       *)

Cli == INSTANCE LinuxEventLoop
Qt  == INSTANCE MainWindow

cliVars == <<loop, fds, blocked, inherited, signalled, ready, pending_, calls, script,
             typed, got, pipe, closed>>
qtVars  == <<ui, manualMode_, guiManualOwner_, source, queued, dispatch, overtaken,
             frame, observer, pending, convHasFrame_, convRunning_, conv, buf,
             latestImg_, shown, u, outputSequence_, commands, plotted,
             lastPlottedOutputSequence_>>
vars == <<front, system, cliVars, qtVars>>

\* What belongs to the other front end keeps one value.
Init ==
    /\ front \in FrontEnd
    /\ system = IF front = "qt" THEN "up" ELSE "down"
    /\ loop = "start" /\ fds = {} /\ signalled = FALSE /\ ready = {}
    /\ pending_ = <<>> /\ calls = <<>> /\ typed = 0 /\ got = 0 /\ closed = FALSE
    /\ inherited \in IF front = "cli" THEN BOOLEAN ELSE {FALSE}
    /\ blocked = inherited
    /\ script \in [1..MaxLines -> IF front = "cli" THEN Commands ELSE {"unknown"}]
    /\ pipe \in IF front = "cli" THEN BOOLEAN ELSE {FALSE}
    /\ ui = "loop"
    /\ manualMode_ = FALSE /\ guiManualOwner_ = FALSE /\ source = "Pot"
    /\ queued = FALSE /\ dispatch = "idle" /\ overtaken = FALSE
    /\ frame = 0 /\ observer = "idle" /\ pending = Qt!None /\ convHasFrame_ = FALSE
    /\ convRunning_ = TRUE /\ conv = "top" /\ buf = Qt!None /\ latestImg_ = Qt!None
    /\ shown = 0 /\ u = 0 /\ outputSequence_ = 0 /\ commands = "idle"
    /\ plotted = 0 /\ lastPlottedOutputSequence_ = 0

Next ==
    \/ front = "cli" /\ Cli!Next /\ UNCHANGED <<front, qtVars>>
    \/ front = "qt" /\ Qt!Next /\ UNCHANGED <<front, cliVars>>

InCli(step) == front = "cli" /\ step /\ UNCHANGED <<front, qtVars>>
InQt(step)  == front = "qt" /\ step /\ UNCHANGED <<front, cliVars>>

\* The fairness of each; see there.
Fairness ==
    /\ WF_vars(InCli(Cli!LoopStep))
    /\ WF_vars(InQt(Qt!ConverterStep)) /\ WF_vars(InQt(Qt!ObserverStep))
    /\ WF_vars(InQt(Qt!DispatchStep)) /\ WF_vars(InQt(Qt!ExitStep))
    /\ WF_vars(InQt(Qt!updateCamera)) /\ WF_vars(InQt(Qt!onPlotTick))

Spec == Init /\ [][Next]_vars /\ Fairness

-----------------------------------------------------------------------------
(* Properties.                                                             *)

\* What SystemManager is asked to do is what was typed; see LinuxEventLoop.
CallsFollowScript == front = "cli" => Cli!CallsFollowScript

\* In manual mode the window names the source in charge; see MainWindow.
LabelsTrue == front = "qt" => Qt!LabelsTrue

\* A front end that is gone left nothing open and nothing running: descriptors,
\* threads that may call into it, the system.
NothingLeft == IF front = "cli" THEN Cli!NothingLeft ELSE Qt!NothingLeft

\* Images are whole and never older than the one before; see MainWindow.
PreviewAdvances == Qt!PreviewAdvances

\* The last frame and the last command are displayed; see MainWindow.
DisplayCatchesUp == Qt!DisplayCatchesUp

\* A window that waits for its converter waits for a thread that has been told to
\* end and does not sleep: convMtx_ leaves it no moment to miss the notification.
ExitIsHeard == front = "qt" /\ ui = "join" => ~convRunning_ /\ conv # "asleep"

\* A front end that is told to end does: by a signal, a quit, the end of its
\* input, the STOP button, its window or its application.
ExitReturns == Cli!ExitReturns /\ Qt!ExitReturns

=============================================================================
