\* Lanes through forwarders: datagrams of one file overtake each other and
\* outlive their transfer, leftovers may be locked.
SPECIFICATION Spec
CONSTANTS
    Files = {a}
    Versions = {v1}
    Size = 3
    FileSize <- MCFileSize
    PacketSizes = {2}
    Direct = FALSE
    NetCap = 2
    MaxClock = 0
    None = None
    MaxRetries = 1
    MaxTransfers = 2
    Faults = {"write", "locked", "replace"}
CONSTRAINT FewInFlight
INVARIANT IntegrityInv
