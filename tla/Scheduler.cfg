\* Three lanes, one attempt each to explore, a window of three judged from two on; the
\* largest probe share the page offers.  A loss of one half is exact in floating point
\* and reaches the flag.
SPECIFICATION FairSpec
CONSTANTS
    LaneCount = 3
    Window = 3
    MinSamples = 2
    ExplorePerLane = 1
    FlagLoss = 50
    RecoverLoss = 30
    ProbeShare = 30
    FlagsAt = TRUE
    RecoversAt = FALSE
    Paths <- TriPaths
INVARIANTS Hysteresis GreenIsPreferred OneColourPerLane
PROPERTIES NoFlapping FlagsClear
