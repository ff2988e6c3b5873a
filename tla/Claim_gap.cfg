SPECIFICATION Spec
CONSTANTS
    Packets = {p1}
    MaxStream = 3
    MaxRows = 1
    PollLimit = 2
    RowLimit = 1
    MaxTransfers = 1
    MaxEvents = 5
PROPERTY NoSilentGap
