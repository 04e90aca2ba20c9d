SPECIFICATION CalcSpec
CONSTANTS
    N = 4
    MaxOut = 2
    TargetSets <- MCTargetSets
    CallSites = {2}
    One = 8
    Cut = 1
INVARIANTS
    DistanceIsReachability
    DivergentIsTrue
PROPERTY CalcEnds
CHECK_DEADLOCK FALSE
