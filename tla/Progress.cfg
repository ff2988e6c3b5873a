\* One file of three units, packets of two or three units, a configuration that
\* changes at any time, crashes, three transfers, so that the third may meet a
\* session that the second resumed under another packet size; a resume of one
\* packet is replayed, one of both is summed up.
SPECIFICATION ProgressSpec
CONSTANTS
    Files = {a}
    Versions = {v1}
    Size = 3
    FileSize <- MCFileSize
    PacketSizes = {2, 3}
    Direct = TRUE
    NetCap = 1
    MaxClock = 0
    None = None
    MaxRetries = 1
    MaxTransfers = 3
    Faults = {"crash"}
    Header = 1
    ReplayLimit = 1
INVARIANTS ProgressIsThePrefix ConfirmedIsHeld
