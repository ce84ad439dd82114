\* Frames only, two sessions; a map too small for what a session leaves open.
CONSTANTS
    MaxId = 5
    MaxSession = 2
    Limit = 3
    FrameCap = 2
    CmdCap = 2
    ManualThreads = {}
SPECIFICATION Spec
INVARIANT FramesNotMixed
PROPERTY RecordsInOrder
CHECK_DEADLOCK FALSE
