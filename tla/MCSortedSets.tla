---------------------------- MODULE MCSortedSets ----------------------------
(* Four members, three scores and two places, of which one is refused.    *)
EXTENDS SortedSets

MCMembers == 1 .. 4
MCScores == {-1, 0, 1}
MCPlaces == {"in", "out"}
MCValid == {"in"}
mc_geo_encode == [p \in MCPlaces |-> 1]
=============================================================================
