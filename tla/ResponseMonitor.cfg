SPECIFICATION FairSpec
CONSTANTS
    Names = {1, 2}
    Cores = 2
    QueueSize = 1
    Xss = FALSE
INVARIANTS
    ComparedOnce
    QueuedIsSettled
PROPERTIES
    EveryPairSettled
    StopEnds
CHECK_DEADLOCK FALSE
