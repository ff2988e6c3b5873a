---------------------------- MODULE MCRoutePick ----------------------------
\* The presets that ship.
EXTENDS RoutePick

Shipped ==
    [tri |-> [nodes |-> {"src", "a1", "a2", "b1", "b2", "c1", "c2", "dst"},
              links |-> {{"src", "a1"}, {"a1", "a2"}, {"a2", "dst"},
                         {"src", "b1"}, {"b1", "b2"}, {"b2", "dst"},
                         {"src", "c1"}, {"c1", "c2"}, {"c2", "dst"}},
              source |-> "src", dest |-> "dst"],
     star |-> [nodes |-> {"hub", "l1", "ch1", "l2", "ch2", "l3", "l4"},
               links |-> {{"l1", "ch1"}, {"l2", "ch1"}, {"ch1", "hub"}, {"hub", "ch2"},
                          {"l3", "ch2"}, {"l4", "ch2"}},
               source |-> "l1", dest |-> "hub"]]
ByName == <<"a1", "a2", "b1", "b2", "c1", "c2", "ch1", "ch2", "dst", "hub", "l1", "l2", "l3", "l4", "src">>

Others == {<<"src", "a2">>, <<"a2", "dst">>}

\* Every pick of a shipped preset has lanes between its ends, the first of which gets its
\* frames to the destination, in as many hops as the page counts.
ASSUME ShippedDeliver == LanesAreOfTheirGraph /\ FirstLaneDelivers /\ HopsAreOfTheRoute
=============================================================================
