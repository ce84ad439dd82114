CONSTANTS
    Commands = {"quit", "unknown"}
    MaxLines = 1
    ReadSize = 2
SPECIFICATION Spec
PROPERTY SignalsReachLoop
CHECK_DEADLOCK FALSE
