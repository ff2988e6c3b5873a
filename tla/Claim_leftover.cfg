\* Two statements that the code does not keep; TLC stops at the first it finds
\* violated, so take one out to see the other.
SPECIFICATION Spec
CONSTANTS
    Files = {a}
    Versions = {v1}
    Size = 3
    FileSize <- MCFileSize
    PacketSizes = {1, 2}
    Direct = TRUE
    NetCap = 2
    MaxClock = 0
    None = None
    MaxRetries = 1
    MaxTransfers = 3
    Faults = {}
INVARIANT IdenticalFile
PROPERTY StartOverStartsAtOne
