CONSTANTS
    Channels = {"moving", "held"}
    Threads = {actuator, app}
    Targets <- Poses
    min_out <- MinOut
    max_out <- MaxOut
    max_step <- MaxStep
    min_deg <- MinDeg
    max_deg <- MaxDeg
    neutral_deg <- Neutral
    invert <- Invert
SPECIFICATION Spec
INVARIANT HistoryIsServo
PROPERTY SlewRespected
