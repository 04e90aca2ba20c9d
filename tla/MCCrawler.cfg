SPECIFICATION FairSpec
CONSTANTS
    Requests = {"home", "p2", "out"}
    Path <- MCPath
    Ignored = {"out"}
    Seeds <- OnePage
    Given <- NoPages
    Scanner = {"p2"}
    Links = {"p2", "out"}
    MAX_NUM_ROUNDS = 2
    SkipTail = 1
    Many = 1
    timeoutLoops = 2
    Errors = 2
    Horde = 1
    Patience = 1
    MaxCrashes = 1
INVARIANTS
    StartedIsOnDisk
    EffortBounded
    CounterIsSound
PROPERTIES
    CrawlEnds
CHECK_DEADLOCK FALSE
