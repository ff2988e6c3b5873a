SPECIFICATION Spec
CONSTANTS
    LaneCount = 3
    Window = 3
    MinSamples = 2
    ExplorePerLane = 1
    FlagLoss = 50
    RecoverLoss = 30
    ProbeShare = 30
    FlagsAt = TRUE
    RecoversAt = FALSE
    Paths <- RouterPaths
INVARIANT RedIsFlagged
