\* Liveness on the direct path without crashes: loss, cancels, stops, discards.
SPECIFICATION FairSpec
CONSTANTS
    Files = {a}
    Versions = {v1}
    Size = 2
    FileSize <- MCFileSize
    PacketSizes = {1}
    Direct = TRUE
    NetCap = 1
    MaxClock = 0
    None = None
    MaxRetries = 1
    MaxTransfers = 2
    Faults = {}
PROPERTIES TransferEnds CancelIsReported
