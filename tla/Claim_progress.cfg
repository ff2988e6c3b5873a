\* Two statements that the code does not keep; TLC stops at the first it finds
\* violated, so take one out to see the other.
SPECIFICATION ProgressSpec
CONSTANTS
    Files = {a}
    Versions = {v1}
    Size = 3
    FileSize <- MCFileSize
    PacketSizes = {2, 3}
    Direct = TRUE
    NetCap = 1
    MaxClock = 0
    None = None
    MaxRetries = 1
    MaxTransfers = 3
    Faults = {}
    Header = 1
    ReplayLimit = 1
INVARIANTS NothingDoubleCounted ReusedIsSkipped
