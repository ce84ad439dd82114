\* Two lines in reads of three halves; two frames, the first of which may be overwritten.
CONSTANTS
    FrontEnd = {"cli", "qt"}
    Commands = {"manual", "quit", "unknown"}
    MaxLines = 2
    ReadSize = 3
    MaxFrame = 2
    MaxCommand = 1
SPECIFICATION Spec
INVARIANTS CallsFollowScript LabelsTrue NothingLeft
PROPERTIES PreviewAdvances DisplayCatchesUp ExitReturns
CHECK_DEADLOCK FALSE
