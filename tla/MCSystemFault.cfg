CONSTANTS
    FrameCap = 1
    CmdCap = 1
    HasCamera = TRUE
    GeometryValid = FALSE
    ManualStartup = TRUE
    InitialImuMode = "Shadow"
    Backends = {"manual", "imu"}
    MayFail = {"driver", "manual", "imu", "camera"}
SPECIFICATION Spec
PROPERTIES CallsReturn LifecycleSpec
