--------------------------- MODULE MCPacketLayer ---------------------------
\* One path of three links, the one slower than the other: the scheduler is off.
EXTENDS PacketLayer

Way == <<"s", "a", "b", "d">>

MCTopology ==
    [preset |-> "tri", nodes |-> {"s", "a", "b", "d"}, up |-> {"s", "a", "b", "d"},
     links |-> LinksOf(Way), paths |-> <<Way>>, route |-> Way,
     multipath |-> FALSE, source |-> "s", dest |-> "d",
     latency |-> [l \in LinksOf(Way) |-> CASE "s" \in l -> 1 [] "d" \in l -> 3 [] OTHER -> 2]]
=============================================================================
