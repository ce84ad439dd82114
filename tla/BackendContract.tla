---------------------------- MODULE BackendContract ----------------------------
(***************************************************************************)
(* What SystemManager and its two input backends owe each other: the       *)
(* backend side is BackendCoordinator with the real devices, the other     *)
(* side the calls of SystemManager's start() and stop().  A backend is     *)
(* "off", "on", or "calling": its thread is in the callback.               *)
(***************************************************************************)

VARIABLES
    phase,       (* "down", "starting", "up", "stopping"                    *)
    requested,   (* the backends the configuration asks for                 *)
    mode,        (* imu_feedback_mode_                                      *)
    pot, imu

vars == <<phase, requested, mode, pot, imu>>

Init == phase = "down" /\ pot = "off" /\ imu = "off"

Start ==
    /\ phase = "down" /\ phase' = "starting"
    /\ UNCHANGED <<requested, mode, pot, imu>>

-----------------------------------------------------------------------------
(* start(): the potentiometers first.                                      *)

PotUp ==
    /\ phase = "starting" /\ "manual" \in requested
    /\ pot = "off" /\ imu = "off"
    /\ pot' = "on"
    /\ UNCHANGED <<phase, requested, mode, imu>>

ImuUp ==
    /\ phase = "starting" /\ "imu" \in requested
    /\ imu = "off" /\ ("manual" \in requested => pot # "off")
    /\ imu' = "on"
    /\ UNCHANGED <<phase, requested, mode, pot>>

\* All that was requested is up, the IMU at the latest now; or the system goes
\* on without its IMU, but never in LIVE.
Succeed ==
    /\ phase = "starting" /\ phase' = "up"
    /\ "manual" \in requested => pot # "off"
    /\ \/ "imu" \notin requested /\ UNCHANGED <<mode, imu>>
       \/ "imu" \in requested /\ imu' = (IF imu = "off" THEN "on" ELSE imu)
          /\ UNCHANGED mode
       \/ "imu" \in requested /\ imu = "off" /\ mode # "Live" /\ mode' = "Disabled"
          /\ UNCHANGED imu
    /\ UNCHANGED <<requested, pot>>

\* One it cannot do without is missing: what is up has to be stopped.
Fail ==
    /\ phase = "starting" /\ phase' = "stopping"
    /\ \/ "manual" \in requested /\ pot = "off"
       \/ "imu" \in requested /\ imu = "off" /\ mode = "Live"
    /\ UNCHANGED <<requested, mode, pot, imu>>

-----------------------------------------------------------------------------
(* The callbacks.                                                          *)

PotCall ==
    /\ phase # "down" /\ pot = "on"
    /\ pot' = "calling"
    /\ UNCHANGED <<phase, requested, mode, imu>>

PotReturn ==
    /\ pot = "calling"
    /\ pot' = "on"
    /\ UNCHANGED <<phase, requested, mode, imu>>

ImuCall ==
    /\ phase # "down" /\ imu = "on"
    /\ imu' = "calling"
    /\ UNCHANGED <<phase, requested, mode, pot>>

ImuReturn ==
    /\ imu = "calling"
    /\ imu' = "on"
    /\ UNCHANGED <<phase, requested, mode, pot>>

-----------------------------------------------------------------------------
(* stop(), and what a backend does whose own start fails half-way: neither *)
(* goes down with a callback inside, and the potentiometers, whose samples *)
(* the IMU corrects, after the IMU.                                        *)

Stop ==
    /\ phase = "up" /\ phase' = "stopping"
    /\ UNCHANGED <<requested, mode, pot, imu>>

ImuDown ==
    /\ phase \in {"starting", "stopping"} /\ imu = "on"
    /\ imu' = "off"
    /\ UNCHANGED <<phase, requested, mode, pot>>

PotDown ==
    /\ phase \in {"starting", "stopping"} /\ pot = "on" /\ imu = "off"
    /\ pot' = "off"
    /\ UNCHANGED <<phase, requested, mode, imu>>

Done ==
    /\ phase = "stopping" /\ phase' = "down"
    /\ pot # "calling" /\ imu = "off"
    /\ pot' = "off"
    /\ UNCHANGED <<requested, mode, imu>>

-----------------------------------------------------------------------------

Next ==
    \/ Start \/ PotUp \/ ImuUp \/ Succeed \/ Fail
    \/ PotCall \/ PotReturn \/ ImuCall \/ ImuReturn
    \/ Stop \/ ImuDown \/ PotDown \/ Done

Spec == Init /\ [][Next]_vars

=============================================================================
