---------------------------- MODULE Kinematics3RRS ----------------------------
(***************************************************************************)
(* Kinematics3RRS::computeIK_(): for each leg the geometry of the platform *)
(* yields two horn angles or none; which one is taken depends on the angle *)
(* taken before, and a leg without one repeats its last angle.  The        *)
(* trigonometry is the constant Branches; angles are whole degrees.  One   *)
(* call is one step: it holds ik_mtx_.                                     *)
(***************************************************************************)
EXTENDS Integers

CONSTANTS
    Legs,              (* 1..3 in the code                                  *)
    Branches(_, _),    (* setpoint, leg: <<qA, qB>>, or <<>> if unreachable *)
    Geometries,        (* whether every length is positive: what is tried   *)
    ServoNeutral       (* servo_neutral_deg; every servo_dir is -1          *)

VARIABLES
    valid,       (* cfg_ describes a platform                               *)
    qPrev,       (* q_prev_                                                 *)
    lastValid,   (* last_valid_deg_                                         *)
    command      (* the command emitted last                                *)

kinematicsVars == <<valid, qPrev, lastValid, command>>

TypeOK ==
    /\ valid \in BOOLEAN
    /\ qPrev \in [Legs -> -180..179]
    /\ lastValid \in [Legs -> 0..180]
    /\ command.targets \in [Legs -> 0..180]
    /\ command.status \in {"Ok", "KinematicsFallbackLastValid", "KinematicsInvalidConfig"}

Init ==
    /\ valid \in Geometries
    /\ qPrev = [leg \in Legs |-> 0]
    /\ lastValid = [leg \in Legs |-> ServoNeutral]
    /\ command = [targets |-> lastValid, status |-> "Ok"]

wrapAngle(q) == ((q + 180) % 360) - 180

Distance(p, q) == IF p < q THEN q - p ELSE p - q

\* Mutant of chooseClosest: the farther angle.
chooseFarthest(q1, q2, prev) ==
    IF Distance(wrapAngle(q1), prev) > Distance(wrapAngle(q2), prev)
    THEN wrapAngle(q1) ELSE wrapAngle(q2)

\* A distance on the line, not on the circle.
chooseClosest(q1, q2, prev) ==
    IF Distance(wrapAngle(q1), prev) <= Distance(wrapAngle(q2), prev)
    THEN wrapAngle(q1) ELSE wrapAngle(q2)

\* Mutant of otherBranch: the one it has.
otherBranchSame(q1, q2, cur) ==
    IF Distance(cur, wrapAngle(q1)) < Distance(cur, wrapAngle(q2))
    THEN wrapAngle(q1) ELSE wrapAngle(q2)

otherBranch(q1, q2, cur) ==
    IF Distance(cur, wrapAngle(q1)) < Distance(cur, wrapAngle(q2))
    THEN wrapAngle(q2) ELSE wrapAngle(q1)

\* cos(q) >= 0.
Upward(q) == q \in -90..90

Horn(branches, prev) ==
    LET near == chooseClosest(branches[1], branches[2], prev)
    IN  IF Upward(near) THEN near ELSE otherBranch(branches[1], branches[2], near)

Servo(q) ==
    LET deg == ServoNeutral - q IN IF deg < 0 THEN 0 ELSE IF deg > 180 THEN 180 ELSE deg

Reachable(sp, leg) == Branches(sp, leg) # <<>>

\* Mutant of Solve: last_valid_deg_ keeps its first value.
SolveForgetful(sp) ==
    LET horn == [leg \in Legs |->
                    IF Reachable(sp, leg) THEN Horn(Branches(sp, leg), qPrev[leg]) ELSE qPrev[leg]]
        targets == [leg \in Legs |->
                    IF Reachable(sp, leg) THEN Servo(horn[leg]) ELSE lastValid[leg]]
    IN  /\ valid
        /\ qPrev' = horn
        /\ command' = [targets |-> targets,
                       status  |-> IF \A leg \in Legs : Reachable(sp, leg) THEN "Ok"
                                   ELSE "KinematicsFallbackLastValid"]
        /\ UNCHANGED <<valid, lastValid>>

Solve(sp) ==
    LET horn == [leg \in Legs |->
                    IF Reachable(sp, leg) THEN Horn(Branches(sp, leg), qPrev[leg]) ELSE qPrev[leg]]
        targets == [leg \in Legs |->
                    IF Reachable(sp, leg) THEN Servo(horn[leg]) ELSE lastValid[leg]]
    IN  /\ IF valid
           THEN /\ qPrev' = horn
                /\ lastValid' = targets
                /\ command' = [targets |-> targets,
                               status  |-> IF \A leg \in Legs : Reachable(sp, leg) THEN "Ok"
                                           ELSE "KinematicsFallbackLastValid"]
           ELSE /\ command' = [targets |-> lastValid, status |-> "KinematicsInvalidConfig"]
                /\ UNCHANGED <<qPrev, lastValid>>
        /\ UNCHANGED valid

=============================================================================
