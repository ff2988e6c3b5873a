\* One file, three presses, two calls at once.
SPECIFICATION FairSpec
CONSTANTS
    Files = {f}
    MaxClicks = 3
    MaxCalls = 2
INVARIANTS WayOn
PROPERTIES LockIsLifted CancelStopsNothingLater TestHasItsFaults
