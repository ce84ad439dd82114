------------------------------- MODULE Lifecycle -------------------------------
(***************************************************************************)
(* What SystemManager promises to its owner: which states it reports in    *)
(* which phase of start() and stop(), when anything may be up, and who may *)
(* be in the actuator stage.  There are no threads, queues or loops here:  *)
(* whatever they do in between is one of these steps or none.              *)
(***************************************************************************)

CONSTANTS
    ManualStartup,   (* config_.startup_mode == Manual                      *)
    CanFault         (* the platform's geometry may be invalid              *)

VARIABLES
    phase,    (* "down", "starting", "up", "stopping", or "failing": the    *)
              (* stop() of a start() that does not succeed                  *)
    state,    (* the state reported                                         *)
    busy,     (* a thread, a backend, the camera or the driver is up        *)
    inside    (* who is in the actuator stage: "caller", "worker"           *)

vars == <<phase, state, busy, inside>>

Init == phase = "down" /\ state = "IDLE" /\ ~busy /\ inside = {}

-----------------------------------------------------------------------------
(* start()                                                                 *)

Start ==
    /\ phase = "down"
    /\ phase' = "starting" /\ state' = "STARTUP"
    /\ UNCHANGED <<busy, inside>>

\* Refused before anything is up.
Refuse ==
    /\ phase = "starting" /\ ~busy
    /\ phase' = "down" /\ state' = "FAULT"
    /\ UNCHANGED <<busy, inside>>

Build ==
    /\ phase = "starting" /\ ~busy
    /\ busy' = TRUE
    /\ UNCHANGED <<phase, state, inside>>

\* A start() that fails later is a stop() first.
Abandon ==
    /\ phase = "starting" /\ busy /\ state = "STARTUP"
    /\ phase' = "failing"
    /\ UNCHANGED <<state, busy, inside>>

\* The caller parks the servos before any worker may move them ...
Park ==
    /\ phase = "starting" /\ busy /\ state = "STARTUP"
    /\ state' = "NEUTRAL" /\ inside' = {"caller"}
    /\ UNCHANGED <<phase, busy>>

\* ... and only then is there a mode in which they do.
Settle ==
    /\ phase = "starting" /\ state = "NEUTRAL" /\ inside = {}
    /\ phase' = "up" /\ state' = IF ManualStartup THEN "MANUAL" ELSE "SEARCHING"
    /\ UNCHANGED <<busy, inside>>

-----------------------------------------------------------------------------
(* Operation.                                                              *)

\* One at a time, never in FAULT; the caller only while stop() runs.
Enter(who) ==
    /\ busy /\ inside = {} /\ state # "FAULT"
    /\ phase \in IF who = "worker" THEN {"up"} ELSE {"stopping", "failing"}
    /\ inside' = {who}
    /\ UNCHANGED <<phase, state, busy>>

Exit ==
    /\ inside # {}
    /\ inside' = {}
    /\ UNCHANGED <<phase, state, busy>>

\* An estimate that is on its way survives a mode call, a fault and even stop(),
\* whose state it overwrites, but there is none in a start() that fails.
Track ==
    /\ busy /\ phase \in {"up", "stopping"}
    /\ state' \in {"SEARCHING", "TRACKING"}
    /\ UNCHANGED <<phase, busy, inside>>

Fault ==
    /\ CanFault /\ busy /\ inside = {} /\ phase \in {"up", "stopping", "failing"}
    /\ state' = "FAULT"
    /\ UNCHANGED <<phase, busy, inside>>

\* enterManual() and exitManual(), up or down.
SetMode ==
    /\ phase \in {"up", "down"}
    /\ state' \in {"MANUAL", IF phase = "up" THEN "SEARCHING" ELSE "IDLE"}
    /\ UNCHANGED <<phase, busy, inside>>

-----------------------------------------------------------------------------
(* stop()                                                                  *)

Stop ==
    /\ phase = "up"
    /\ phase' = "stopping"
    /\ UNCHANGED <<state, busy, inside>>

Stopping ==
    /\ phase \in {"stopping", "failing"} /\ busy
    /\ state' = "STOPPING"
    /\ UNCHANGED <<phase, busy, inside>>

TearDown ==
    /\ phase \in {"stopping", "failing"} /\ busy /\ inside = {}
    /\ busy' = FALSE
    /\ UNCHANGED <<phase, state, inside>>

\* A failed start() reports FAULT after the IDLE of the stop() it made.
Done ==
    /\ ~busy
    /\ \/ phase = "stopping" /\ phase' = "down" /\ state' = "IDLE"
       \/ phase = "failing" /\ phase' = phase /\ state' = "IDLE"
       \/ phase = "failing" /\ state = "IDLE" /\ phase' = "down" /\ state' = "FAULT"
    /\ UNCHANGED <<busy, inside>>

-----------------------------------------------------------------------------

Next ==
    \/ Start \/ Refuse \/ Build \/ Abandon \/ Park \/ Settle
    \/ \E who \in {"caller", "worker"} : Enter(who)
    \/ Exit \/ Track \/ Fault \/ SetMode
    \/ Stop \/ Stopping \/ TearDown \/ Done

Spec == Init /\ [][Next]_vars

=============================================================================
