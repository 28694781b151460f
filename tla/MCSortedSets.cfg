SPECIFICATION ZSetSpec
CONSTANTS
    Nil = Nil
    Members <- MCMembers
    Scores <- MCScores
    Places <- MCPlaces
    Valid <- MCValid
    geo_encode <- mc_geo_encode
    MaxArgs = 2
INVARIANTS HoldsLastScores RanksAndRanges
