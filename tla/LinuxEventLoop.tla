---------------------------- MODULE LinuxEventLoop ----------------------------
(***************************************************************************)
(* The headless front end: LinuxEventLoop::run() with the CliController    *)
(* that reads commands from standard input.  One thread runs both; the     *)
(* others are the threads of SystemManager, which matter here only as      *)
(* receivers of signals.                                                   *)
(*                                                                         *)
(* A line is typed in two halves, the second with the newline, so that a   *)
(* read can end within a line.  Half h belongs to line (h + 1) \div 2.     *)
(* External: the kernel.  A signal sent to the process goes to any thread  *)
(* that does not block it and then ends the process; it stays pending,     *)
(* and readable from the signalfd, while every thread blocks it.           *)
(***************************************************************************)
EXTENDS Naturals, Sequences

CONSTANTS
    Commands,   (* what a line may say                                      *)
    MaxLines,   (* bound: lines typed                                       *)
    ReadSize    (* halves one read() takes at most (256 bytes in the code)  *)

VARIABLES
    loop,       (* where run() is                                           *)
    fds,        (* open descriptors: "signal", "timer", "input"             *)
    system,     (* SystemManager: "down", "up"                              *)
    blocked,    (* this thread blocks the four signals                      *)
    inherited,  (* all threads do: the parent process had blocked them      *)
    signalled,  (* a signal is pending                                      *)
    ready,      (* revents of the last poll()                               *)
    pending_,   (* halves read and not yet executed                         *)
    calls,      (* history: what the lines executed asked of SystemManager  *)
    script, typed, got,      (* what is typed, how far, and how far read    *)
    pipe, closed             (* standard input is a pipe; its writer closed it *)

inputVars == <<script, typed, got, pipe, closed>>
signalVars == <<blocked, inherited, signalled>>
vars == <<loop, fds, system, signalVars, ready, pending_, calls, inputVars>>

SetupPoints == {"start", "mask", "signalfd", "timerfd", "settime", "dup"}
LoopPoints  == {"poll", "signal", "tick", "read", "execute", "hangup"}

Init ==
    /\ loop = "start" /\ fds = {} /\ system = "down"
    /\ inherited \in BOOLEAN /\ blocked = inherited /\ signalled = FALSE
    /\ ready = {} /\ pending_ = <<>> /\ calls = <<>>
    /\ script \in [1..MaxLines -> Commands]
    /\ typed = 0 /\ got = 0
    /\ pipe \in BOOLEAN /\ closed = FALSE

LoopGo(from, to) == loop = from /\ loop' = to

-----------------------------------------------------------------------------
(* Setting up.                                                             *)

StartSystem ==
    /\ \/ LoopGo("start", "mask") /\ system' = "up"
       \/ LoopGo("start", "returned") /\ UNCHANGED system
    /\ UNCHANGED <<fds, signalVars, ready, pending_, calls, inputVars>>

Block ==
    /\ LoopGo("mask", "signalfd")
    /\ blocked' = TRUE
    /\ UNCHANGED <<fds, system, inherited, signalled, ready, pending_, calls, inputVars>>

Opens(from, to, fd) ==
    /\ LoopGo(from, to)
    /\ fds' = fds \cup {fd}
    /\ UNCHANGED <<system, signalVars, ready, pending_, calls, inputVars>>

OpenSignalFd == Opens("signalfd", "timerfd", "signal")
CreateTimer  == Opens("timerfd", "settime", "timer")
DupInput     == Opens("dup", "poll", "input")

SetTimer ==
    /\ LoopGo("settime", "dup")
    /\ UNCHANGED <<fds, system, signalVars, ready, pending_, calls, inputVars>>

\* Mutant of Closes: a timer that cannot be set leaves the signalfd open.
ClosesTimerOnly(point) ==
    CASE point = "timerfd" -> {"signal"}
      [] point = "settime" -> {"timer"}
      [] point = "dup"     -> {"signal", "timer"}
      [] OTHER             -> {}

\* What the error path of each step closes.
Closes(point) ==
    CASE point = "timerfd" -> {"signal"}
      [] point \in {"settime", "dup"} -> {"signal", "timer"}
      [] OTHER -> {}

SetupFails ==
    /\ loop \in SetupPoints \ {"start"}
    /\ loop' = "returned"
    /\ fds' = fds \ Closes(loop)
    /\ system' = "down"
    /\ UNCHANGED <<signalVars, ready, pending_, calls, inputVars>>

-----------------------------------------------------------------------------
(* The loop.                                                               *)

\* poll() returns all that is ready; it fails for good on any error but EINTR.
Poll ==
    /\ \/ /\ LoopGo("poll", "signal")
          /\ \E due \in {{}, {"tick"}} :
                 ready' = due \cup (IF signalled THEN {"signal"} ELSE {})
                              \cup (IF got < typed \/ (closed /\ ~pipe) THEN {"input"} ELSE {})
                              \cup (IF closed /\ pipe THEN {"hangup"} ELSE {})
          /\ ready' # {}
       \/ LoopGo("poll", "leave") /\ UNCHANGED ready
    /\ UNCHANGED <<fds, system, signalVars, pending_, calls, inputVars>>

\* A signal ends the loop, and so does a short read.
ReadSignal ==
    /\ \/ "signal" \in ready /\ LoopGo("signal", "leave") /\ signalled' = FALSE
       \/ "signal" \notin ready /\ LoopGo("signal", "tick") /\ UNCHANGED signalled
    /\ UNCHANGED <<fds, system, blocked, inherited, ready, pending_, calls, inputVars>>

\* onTick() only reports; a failed read of the timer ends the loop.
Tick ==
    /\ \/ LoopGo("tick", "read")
       \/ "tick" \in ready /\ LoopGo("tick", "leave")
    /\ UNCHANGED <<fds, system, signalVars, ready, pending_, calls, inputVars>>

\* Mutant of ReadInput: each read starts with an empty buffer.
ReadInputAfresh ==
    LET upTo == IF typed - got > ReadSize THEN got + ReadSize ELSE typed
    IN  /\ \/ "input" \notin ready /\ LoopGo("read", "hangup") /\ UNCHANGED <<got, pending_>>
           \/ /\ "input" \in ready /\ upTo > got
              /\ LoopGo("read", "execute")
              /\ got' = upTo
              /\ pending_' = [i \in 1..(upTo - got) |-> got + i]
           \/ "input" \in ready /\ LoopGo("read", "leave") /\ UNCHANGED <<got, pending_>>
        /\ UNCHANGED <<fds, system, signalVars, ready, calls, script, typed, pipe, closed>>

\* onInputReady() up to the search for a newline.  End of file and errors end
\* the loop.
ReadInput ==
    LET upTo == IF typed - got > ReadSize THEN got + ReadSize ELSE typed
    IN  /\ \/ "input" \notin ready /\ LoopGo("read", "hangup") /\ UNCHANGED <<got, pending_>>
           \/ /\ "input" \in ready /\ upTo > got
              /\ LoopGo("read", "execute")
              /\ got' = upTo
              /\ pending_' = pending_ \o [i \in 1..(upTo - got) |-> got + i]
           \/ "input" \in ready /\ LoopGo("read", "leave") /\ UNCHANGED <<got, pending_>>
        /\ UNCHANGED <<fds, system, signalVars, ready, calls, script, typed, pipe, closed>>

\* The length of the first complete line in pending_, 0 if there is none.
LineEnd == IF \E i \in DOMAIN pending_ : pending_[i] % 2 = 0
           THEN CHOOSE i \in DOMAIN pending_ :
                    /\ pending_[i] % 2 = 0
                    /\ \A j \in 1..(i - 1) : pending_[j] % 2 # 0
           ELSE 0

\* What a line says: torn halves are an unknown command.
Command(line) ==
    IF Len(line) = 2 /\ line[2] = line[1] + 1 THEN script[line[2] \div 2] ELSE "unknown"

IsCall(command) == command \in {"manual", "auto", "threshold", "set"}

\* executeLine_(), line by line; quit leaves the rest of the buffer alone.
ExecuteLine ==
    LET command == Command(SubSeq(pending_, 1, LineEnd))
    IN  /\ \/ LineEnd = 0 /\ LoopGo("execute", "hangup") /\ UNCHANGED <<pending_, calls>>
           \/ /\ LineEnd > 0
              /\ LoopGo("execute", IF command = "quit" THEN "leave" ELSE "execute")
              /\ pending_' = SubSeq(pending_, LineEnd + 1, Len(pending_))
              /\ calls' = IF IsCall(command) THEN Append(calls, command) ELSE calls
        /\ UNCHANGED <<fds, system, signalVars, ready, inputVars>>

HangUp ==
    /\ LoopGo("hangup", IF "hangup" \in ready THEN "leave" ELSE "poll")
    /\ UNCHANGED <<fds, system, signalVars, ready, pending_, calls, inputVars>>

\* After the loop: detachInputFd(), the three descriptors, stop().
Leave ==
    /\ LoopGo("leave", "stop")
    /\ pending_' = <<>>
    /\ fds' = fds \ {"timer", "signal", "input"}
    /\ UNCHANGED <<system, signalVars, ready, calls, inputVars>>

StopSystem ==
    /\ LoopGo("stop", "returned")
    /\ system' = "down"
    /\ UNCHANGED <<fds, signalVars, ready, pending_, calls, inputVars>>

-----------------------------------------------------------------------------
(* The environment.                                                        *)

Ended == {"returned", "killed"}

Type ==
    /\ loop \notin Ended /\ ~closed /\ typed < 2 * MaxLines
    /\ typed' = typed + 1
    /\ UNCHANGED <<loop, fds, system, signalVars, ready, pending_, calls, script,
                   got, pipe, closed>>

Close ==
    /\ loop \notin Ended /\ ~closed
    /\ closed' = TRUE
    /\ UNCHANGED <<loop, fds, system, signalVars, ready, pending_, calls, script,
                   typed, got, pipe>>

\* SIGINT, SIGTERM, SIGHUP or SIGQUIT to the process.  start() made its threads
\* before Block, so they block only what the process had inherited.
Signal ==
    /\ loop \notin Ended /\ ~signalled
    /\ IF inherited \/ (blocked /\ system = "down")
       THEN signalled' = TRUE /\ UNCHANGED loop
       ELSE loop' = "killed" /\ UNCHANGED signalled
    /\ UNCHANGED <<fds, system, blocked, inherited, ready, pending_, calls, inputVars>>

LoopStep == \/ StartSystem \/ Block \/ OpenSignalFd \/ CreateTimer \/ SetTimer
            \/ DupInput \/ SetupFails
            \/ Poll \/ ReadSignal \/ Tick \/ ReadInput \/ ExecuteLine \/ HangUp
            \/ Leave \/ StopSystem

Next == LoopStep \/ Type \/ Close \/ Signal

\* poll() has a timer among its sources: the loop always goes on.
Spec == Init /\ [][Next]_vars /\ WF_vars(LoopStep)

-----------------------------------------------------------------------------
(* Properties.                                                             *)

\* The calls are those of the first n lines, each once and in their order, and
\* none of these lines is a quit.
Follows(n) ==
    /\ \A k \in 1..n : script[k] # "quit"
    /\ \E line \in [1..Len(calls) -> {k \in 1..n : IsCall(script[k])}] :
           /\ \A i \in 1..Len(calls) : calls[i] = script[line[i]]
           /\ \A i, j \in 1..Len(calls) : i < j => line[i] < line[j]
           /\ \A k \in 1..n : IsCall(script[k]) => \E i \in 1..Len(calls) : line[i] = k

\* What SystemManager is asked to do is what the lines typed say, in their
\* order, whole and once, and nothing after a quit, wherever the reads end.
CallsFollowScript == \E n \in 0..MaxLines : Follows(n)

\* However run() returns, it closed what it had opened and the system is down.
NothingLeft == loop = "returned" => fds = {} /\ system = "down"

\* A signal, a closed input or a quit that was read ends run().
ExitReturns == (signalled \/ closed \/ loop \in {"leave", "stop"}) ~> loop \in Ended

=============================================================================
