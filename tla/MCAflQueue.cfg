SPECIFICATION FairSpec
CONSTANTS
    MapSize = 2
    Traces <- MCTraces
    MaxDist = 2
    Factors = {1, 2}
    Samples <- MCSamples
    Tolerated = {"tmout"}
    CalCycles = 2
    CalChances = 2
    FewPaths = 2
    Seeds = 2
    MaxPaths = 3
INVARIANTS
    CountsAreExact
    WinnersKeepTraces
    FavoredCover
PROPERTY FavoredGetsFuzzed
CHECK_DEADLOCK FALSE
