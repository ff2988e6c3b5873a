SPECIFICATION Spec
INVARIANTS PageTypeOK NoGhosts LockHasItsHolder PickFollowsPreset
PROPERTY ReadyWhenStarted
CONSTANTS
    Initial = "tri"
    Presets <- Shipped
    NodeOrder <- ByName
    Offered = {"a2"}
    OthersPicks <- Others
    MaxRequests = 5
    MaxWithPage = 3
    MaxThreads = 2
