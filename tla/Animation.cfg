\* START, one DATA packet and END, a retry, six transitions: enough for a retransmission,
\* a resume that replays, and two transfers of the same numbers; slow motion with one
\* dot; the second transfer may begin before the page has seen the first end.
SPECIFICATION FairSpec
CONSTANTS
    Total = 1
    Topology <- MCTopology
    SlowDots = 1
    MaxRetries = 1
    MaxEvents = 6
    MaxTransfers = 2
INVARIANTS OneDotPerPacket AcksAreReal
PROPERTIES AckComesBack Drains
