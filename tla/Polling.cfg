\* Two transfers, five events, a ring of three, answers of two, one row less
\* than there are packets.
SPECIFICATION FairSpec
CONSTANTS
    Packets = {p1, p2}
    MaxStream = 3
    MaxRows = 1
    PollLimit = 2
    RowLimit = 1
    MaxTransfers = 2
    MaxEvents = 5
INVARIANTS LogConsistent
PROPERTIES ComesOnce ShowsOutcome
