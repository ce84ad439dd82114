-------------------------- MODULE SimulatedPublisher --------------------------
(***************************************************************************)
(* SimulatedPublisher: a worker that sleeps in poll() on a timer and on an *)
(* eventfd, and publishes a synthetic frame per wake-up of the timer.      *)
(* Threads: the owner in start() and stop(), and the worker.  External:    *)
(* the timer, and the failures of system calls.                            *)
(***************************************************************************)
EXTENDS Naturals

CONSTANT MaxFrame   (* bound: frames of one session                         *)

VARIABLES
    owner,      (* where the owner is                                       *)
    running,    (* running_                                                 *)
    worker,     (* where the worker is                                      *)
    delivered,  (* the last id handed to the callback in this session       *)
    fds,        (* descriptors that are open                                *)
    signalled,  (* the eventfd was written                                  *)
    due,        (* the timer expired since it was last read                 *)
    frame_id    (* frame_id of workerLoop_()                                *)

vars == <<owner, running, worker, delivered, fds, signalled, due, frame_id>>

OwnerPoints  == {"down", "open", "up", "wake", "join", "close"}
WorkerPoints == {"none", "test", "poll", "emit", "ended"}

TypeOK ==
    /\ owner \in OwnerPoints /\ worker \in WorkerPoints
    /\ running \in BOOLEAN /\ signalled \in BOOLEAN /\ due \in BOOLEAN
    /\ delivered \in Nat /\ frame_id \in Nat
    /\ fds \subseteq {"timer", "wake"}

Init ==
    /\ owner = "down" /\ running = FALSE /\ worker = "none" /\ delivered = 0
    /\ fds = {} /\ signalled = FALSE /\ due = FALSE
    /\ frame_id = 1

OwnerGo(from, to) == owner = from /\ owner' = to
WorkerGo(from, to) == worker = from /\ worker' = to

-----------------------------------------------------------------------------
(* start() and stop().                                                     *)

Start ==
    /\ ~running
    /\ OwnerGo("down", "open")
    /\ running' = TRUE
    /\ delivered' = 0
    /\ UNCHANGED <<worker, fds, signalled, due, frame_id>>

\* openTimingFds_() fails: what was opened is closed again.
OpenFails ==
    /\ OwnerGo("open", "down")
    /\ fds' = {}
    /\ running' = FALSE
    /\ UNCHANGED <<worker, delivered, signalled, due, frame_id>>

Open ==
    /\ OwnerGo("open", "up")
    /\ fds' = {"timer", "wake"}
    /\ signalled' = FALSE /\ due' = FALSE
    /\ worker' = "test"
    /\ frame_id' = 1
    /\ UNCHANGED <<running, delivered>>

Stop ==
    /\ running
    /\ OwnerGo("up", "wake")
    /\ running' = FALSE
    /\ UNCHANGED <<worker, delivered, fds, signalled, due, frame_id>>

Wake ==
    /\ OwnerGo("wake", "join")
    /\ signalled' = TRUE
    /\ UNCHANGED <<running, worker, delivered, fds, due, frame_id>>

\* Mutant of Join: the worker is detached.
Detach ==
    /\ OwnerGo("join", "close")
    /\ UNCHANGED <<running, worker, delivered, fds, signalled, due, frame_id>>

Join ==
    /\ worker = "ended"
    /\ OwnerGo("join", "close")
    /\ worker' = "none"
    /\ UNCHANGED <<running, delivered, fds, signalled, due, frame_id>>

Close ==
    /\ OwnerGo("close", "down")
    /\ fds' = {}
    /\ UNCHANGED <<running, worker, delivered, signalled, due, frame_id>>

-----------------------------------------------------------------------------
(* The timer, and workerLoop_().                                           *)

\* Expirations that are not read in time count as one.
Expire ==
    /\ "timer" \in fds
    /\ due' = TRUE
    /\ UNCHANGED <<owner, running, worker, delivered, fds, signalled, frame_id>>

TestRunning ==
    /\ WorkerGo("test", IF running THEN "poll" ELSE "ended")
    /\ UNCHANGED <<owner, running, delivered, fds, signalled, due, frame_id>>

\* poll() returns: the eventfd ends the worker even if a frame is due.
Poll ==
    /\ \/ signalled /\ WorkerGo("poll", "ended") /\ UNCHANGED due
       \/ /\ ~signalled /\ due /\ frame_id <= MaxFrame
          /\ WorkerGo("poll", "emit") /\ due' = FALSE
    /\ UNCHANGED <<owner, running, delivered, fds, signalled, frame_id>>

\* A failing poll() or a short read of the timer ends the worker, which leaves
\* running_ true; an interrupted poll() is repeated.
PollFails ==
    /\ WorkerGo("poll", "ended") \/ WorkerGo("poll", "test")
    /\ UNCHANGED <<owner, running, delivered, fds, signalled, due, frame_id>>

Emit ==
    /\ WorkerGo("emit", "test")
    /\ delivered' = frame_id
    /\ frame_id' = frame_id + 1
    /\ UNCHANGED <<owner, running, fds, signalled, due>>

-----------------------------------------------------------------------------
OwnerStep  == Open \/ OpenFails \/ Wake \/ Join \/ Close
WorkerStep == TestRunning \/ Poll \/ Emit

Next == Start \/ Stop \/ OwnerStep \/ WorkerStep \/ PollFails \/ Expire

\* The threads are scheduled; the timer need not expire, the owner need not call.
Fairness == WF_vars(OwnerStep) /\ WF_vars(WorkerStep)

Spec == Init /\ [][Next]_vars /\ Fairness

-----------------------------------------------------------------------------
\* The worker never polls or reads a descriptor that stop() has closed, and
\* none is open when the camera is down.
NothingLeaked ==
    /\ worker \notin {"none", "ended"} => fds = {"timer", "wake"}
    /\ owner = "down" => fds = {} /\ worker = "none"

=============================================================================
