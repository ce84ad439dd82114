\* Three channels; two samples are given up.
CONSTANTS
    Configurations <- MCConfigurations
    HasSpare = TRUE
    StartupDiscard = 2
    MaxEdges = 1
SPECIFICATION Spec
INVARIANTS CorrectionOfSession SampleIsWhole BusOutlivesUse ChainUnbroken
PROPERTIES SamplesCome CallsReturn BackendSpec
