SPECIFICATION Spec
CONSTANTS
    LogWindow = 5
    ExploitLog <- MCExploit
    OtherLogs <- MCOthers
    ReadsLog = TRUE
    MaxPost = 1
INVARIANTS
    FixedNeedsAnswer
CHECK_DEADLOCK FALSE
