\* One file of three packets, the last one short, so that a crash leaves torn
\* tails in front of, inside and behind a packet; three attempts at it.
SPECIFICATION Spec
CONSTANTS
    Files = {a}
    Versions = {v1}
    Size = 5
    FileSize <- MCFileSize
    PacketSizes = {2}
    Direct = TRUE
    NetCap = 1
    MaxClock = 1
    None = None
    MaxRetries = 1
    MaxTransfers = 3
    Faults = {"write", "start", "replace", "crash"}

INVARIANTS Integrity OneLeftoverPerFile
PROPERTY Delivers
