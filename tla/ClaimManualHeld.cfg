CONSTANTS
    FrameCap = 1
    CmdCap = 1
    HasCamera = TRUE
    GeometryValid = TRUE
    ManualStartup = FALSE
    InitialImuMode = "Disabled"
    Backends = {"manual"}
    MayFail = {}
SPECIFICATION Spec
PROPERTY ManualHeld
