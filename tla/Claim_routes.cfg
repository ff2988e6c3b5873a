\* Two statements that the code does not keep; TLC stops at the first it finds
\* violated, so take one out to see the other.
SPECIFICATION Spec
INVARIANTS NoGhostForwarders EveryLaneDelivers
CONSTANTS
    Initial = "tri"
    Presets <- Shipped
    NodeOrder <- ByName
    Offered = {"a2"}
    OthersPicks <- Others
    MaxRequests = 4
    MaxWithPage = 3
    MaxThreads = 2
