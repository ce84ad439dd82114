---------------------------- MODULE ActuatorStage ----------------------------
(***************************************************************************)
(* ActuatorManager and the ServoDriver behind it: what a commanded angle   *)
(* becomes on the servo.  ActuatorManager clamps, limits the step against  *)
(* the last command it passed on and releases its lock; only then does its *)
(* callback reach the driver, which clamps and inverts once more.  Two     *)
(* threads use the stage: the actuator thread, and the thread that calls   *)
(* start() and stop().                                                     *)
(*                                                                         *)
(* Angles are integers in units of the smallest difference that matters;   *)
(* the pulse width the driver derives is a monotone function of the angle. *)
(***************************************************************************)
EXTENDS Integers

CONSTANTS
    Channels,             (* servo channels; three in the code              *)
    Threads,              (* threads that call onCommand()                  *)
    Targets,              (* commands, functions from channels to angles    *)
    min_out, max_out,     (* ActuatorManager::Config, per channel           *)
    max_step,
    min_deg, max_deg,     (* ServoDriver::ChannelConfig, per channel        *)
    neutral_deg, invert

ASSUME StageAssumption ==
    /\ Targets \subseteq [Channels -> Int]
    /\ min_out \in [Channels -> Int] /\ max_out \in [Channels -> Int]
    /\ max_step \in [Channels -> Int]
    /\ min_deg \in [Channels -> Int] /\ max_deg \in [Channels -> Int]
    /\ neutral_deg \in [Channels -> Int] /\ invert \in [Channels -> BOOLEAN]
    /\ \A c \in Channels : min_out[c] <= max_out[c] /\ min_deg[c] <= max_deg[c]

VARIABLES
    running,     (* ServoDriver::running_                                   *)
    haveLast,    (* have_last_                                              *)
    last,        (* last_targets_                                           *)
    passing,     (* threads between the unlock and the driver               *)
    safe,        (* the conditioned command each of them carries            *)
    servo,       (* angle last written to each channel                      *)
    fresh        (* no command has reached the servos since start()         *)

vars == <<running, haveLast, last, passing, safe, servo, fresh>>

Pose == [Channels -> Int]

TypeOK ==
    /\ running \in BOOLEAN /\ haveLast \in BOOLEAN /\ fresh \in BOOLEAN
    /\ last \in Pose /\ servo \in Pose
    /\ passing \subseteq Threads
    /\ safe \in [Threads -> Pose]

-----------------------------------------------------------------------------
(* The arithmetic.                                                         *)

Abs(x) == IF x < 0 THEN -x ELSE x

\* std::max(lo, std::min(v, hi))
Clamp(v, lo, hi) == IF v > hi THEN hi ELSE IF v < lo THEN lo ELSE v

\* Mutant of limitStep: the difference without its absolute value.
limitStepUp(target, prev, step) ==
    IF step <= 0 THEN prev
    ELSE IF target - prev <= step THEN target
    ELSE prev + step

limitStep(target, prev, step) ==
    IF step <= 0 THEN prev
    ELSE IF Abs(target - prev) <= step THEN target
    ELSE IF target > prev THEN prev + step ELSE prev - step

\* Clamp, limit the step once there is a history, clamp again.
Conditioned(target) ==
    [c \in Channels |->
        LET clamped == Clamp(target[c], min_out[c], max_out[c])
        IN  IF haveLast
            THEN Clamp(limitStep(clamped, last[c], max_step[c]), min_out[c], max_out[c])
            ELSE clamped]

\* ServoDriver::apply(): clampDeg_() and maybeInvertDeg_().
Output(pose) ==
    [c \in Channels |->
        LET deg == Clamp(pose[c], min_deg[c], max_deg[c])
        IN  IF ~invert[c] THEN deg
            ELSE IF max_deg[c] - min_deg[c] <= 0 THEN min_deg[c]
            ELSE max_deg[c] - (deg - min_deg[c])]

-----------------------------------------------------------------------------
Init ==
    /\ running = FALSE
    /\ haveLast = FALSE
    /\ last = [c \in Channels |-> 0]
    /\ passing = {}
    /\ safe = [t \in Threads |-> [c \in Channels |-> 0]]
    /\ servo = Output(neutral_deg)
    /\ fresh = TRUE

\* SystemManager::start(): the driver parks, the history is reset, and only
\* then does any thread exist that commands.
Start ==
    /\ ~running
    /\ running' = TRUE
    /\ servo' = Output(neutral_deg)
    /\ haveLast' = FALSE
    /\ last' = [c \in Channels |-> 0]
    /\ fresh' = TRUE
    /\ UNCHANGED <<passing, safe>>

\* Mutant of Command: two threads inside the stage at once.
CommandUnordered(t, target) ==
    /\ running
    /\ t \notin passing
    /\ safe' = [safe EXCEPT ![t] = Conditioned(target)]
    /\ last' = safe'[t]
    /\ haveLast' = TRUE
    /\ passing' = passing \cup {t}
    /\ UNCHANGED <<running, servo, fresh>>

\* onCommand() up to the release of hist_mtx_.  That no other thread is in the
\* stage is what SystemManager guarantees (StageExclusive there), and that the
\* driver runs (DriverOutlivesUsers).
Command(t, target) ==
    /\ running
    /\ passing = {}
    /\ safe' = [safe EXCEPT ![t] = Conditioned(target)]
    /\ last' = safe'[t]
    /\ haveLast' = TRUE
    /\ passing' = {t}
    /\ UNCHANGED <<running, servo, fresh>>

\* The rest of onCommand(): the safe-command callback and ServoDriver::apply().
Apply(t) ==
    /\ t \in passing
    /\ passing' = passing \ {t}
    /\ servo' = IF running THEN Output(safe[t]) ELSE servo
    /\ fresh' = FALSE
    /\ UNCHANGED <<running, haveLast, last, safe>>

\* ServoDriver::stop() parks, outside the slew limit.
Stop ==
    /\ running
    /\ passing = {}
    /\ servo' = Output(neutral_deg)
    /\ running' = FALSE
    /\ UNCHANGED <<haveLast, last, passing, safe, fresh>>

Next ==
    \/ Start \/ Stop
    \/ \E t \in Threads : Apply(t) \/ \E target \in Targets : Command(t, target)

Spec == Init /\ [][Next]_vars

-----------------------------------------------------------------------------
(* Properties.                                                             *)

\* The slew history is what the hardware holds: between two commands the next
\* step is limited against the angle the servo really has.
HistoryIsServo == passing = {} /\ running /\ ~fresh => haveLast /\ servo = Output(last)

\* While the driver runs no channel moves further than max_step in one update
\* (not at all when it is not positive), except on the first command after
\* start(), whichever clamps and inversions are configured.
SlewRespected ==
    [][ running /\ running' /\ ~fresh =>
          \A c \in Channels :
            Abs(servo'[c] - servo[c]) <= IF max_step[c] <= 0 THEN 0 ELSE max_step[c] ]_servo

\* The servo is never driven outside its own range.
ServoInRange == \A c \in Channels : min_deg[c] <= servo[c] /\ servo[c] <= max_deg[c]

=============================================================================
