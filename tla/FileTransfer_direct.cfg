\* The direct path: two files, three units in packets of two, every fault but
\* the torn write.
SPECIFICATION Spec
CONSTANTS
    Files = {a, b}
    Versions = {v1}
    Size = 3
    FileSize <- MCFileSize
    PacketSizes = {2}
    Direct = TRUE
    NetCap = 2
    MaxClock = 1
    None = None
    MaxRetries = 1
    MaxTransfers = 2
    Faults = {"write", "start", "replace", "sender", "crash"}
INVARIANTS TypeOK IntegrityInv Lockstep CompletedIsPublished
SYMMETRY FileSymmetry
