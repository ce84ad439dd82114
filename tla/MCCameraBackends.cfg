\* Each backend in turn.
CONSTANTS
    Backends = {"Simulated", "Adapter", "Libcamera"}
    MaxFrame = 3
    Requests = {r1, r2}
    Rows = 2
    RowBytes = 3
    Planes <- MCPlanes
SPECIFICATION Spec
INVARIANTS NothingLeaked PoolKept WholeFrames
PROPERTIES CameraSpec StopReturns
CHECK_DEADLOCK FALSE
