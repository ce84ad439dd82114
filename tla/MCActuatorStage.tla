--------------------------- MODULE MCActuatorStage ---------------------------
(* A small instance of ActuatorStage for TLC: an inverted channel whose      *)
(* actuator range is wider than the servo's, and one that may not move.      *)
EXTENDS ActuatorStage, TLC

Angles == -1..5
Poses == [{"moving", "held"} -> Angles]
Pair(x, y) == "moving" :> x @@ "held" :> y

MinOut == Pair(0, 0)
MaxOut == Pair(5, 4)
MaxStep == Pair(2, 0)
MinDeg == Pair(1, 0)
MaxDeg == Pair(4, 4)
Neutral == Pair(2, 3)
Invert == Pair(TRUE, FALSE)

=============================================================================
