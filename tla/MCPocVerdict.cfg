SPECIFICATION FairSpec
CONSTANTS
    LogWindow = 5
    ExploitLog <- MCExploit
    OtherLogs <- MCOthers
    ReadsLog = TRUE
    MaxPost = 2
INVARIANT JudgedLogIsOwn
PROPERTIES
    TracedExploitNotAccepted
    EveryVerificationEnds
CHECK_DEADLOCK FALSE
