CONSTANTS
    MinPixels = 1
    ConfidenceScale = 200
    ImageWidth = 3
    ImageHeight = 3
    Gain = 4
    Deadband = 10
    MaxAngle = 3
    ControllerMinConfidence = 20
    FullScale = 4096
    Supply = 3300
    PotDeadband = 2
    MaxManual = 4
    InvertTilt = TRUE
    ImuGain = 50
    ImuDeadband = 1
    MaxCorrection = 1
    Legs = {1, 2}
    Branches <- MCBranches
    Geometries = {TRUE, FALSE}
    ServoNeutral = 90
    Frames <- MCFrames
    Thresholds = {6, 10}
    Confidences = {10, 60}
    Tilts <- MCTilts
    Voltages = {0, 1650, 3400}
    GuiValues <- MCGuiValues
    Live = TRUE
SPECIFICATION Spec
INVARIANTS ReadsInside SteersTowardsSun PotTravel PoseDecides
PROPERTIES Repeatable FallbackHolds
