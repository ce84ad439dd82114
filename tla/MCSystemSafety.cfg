CONSTANTS
    FrameCap = 2
    CmdCap = 2
    HasCamera = TRUE
    GeometryValid = TRUE
    ManualStartup = FALSE
    InitialImuMode = "Live"
    Backends = {"manual", "imu"}
    MayFail = {"driver", "manual", "imu", "camera"}
SPECIFICATION Spec
INVARIANTS DriverOutlivesUsers SessionFresh JoinedIsAwake
PROPERTIES JoinsEnd LifecycleSpec UnitsSpec
