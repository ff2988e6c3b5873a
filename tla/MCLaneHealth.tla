---------------------------- MODULE MCLaneHealth ----------------------------
\* The tri-path preset: its lanes from "src" to "dst", and from "src" to a router.
EXTENDS LaneHealth

TriPaths ==
    <<<<"src", "a1", "a2", "dst">>, <<"src", "b1", "b2", "dst">>, <<"src", "c1", "c2", "dst">>>>

RouterPaths ==
    <<<<"src", "a1", "a2">>, <<"src", "b1", "b2", "dst", "a2">>, <<"src", "c1", "c2", "dst", "a2">>>>

\* From "src" to "dst" the lanes are node-disjoint; to a router they are not.
ASSUME TriIsDisjoint == NodeDisjoint(TriPaths) /\ ~NodeDisjoint(RouterPaths)
=============================================================================
