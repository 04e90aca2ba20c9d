SPECIFICATION FairSpec
CONSTANTS
    MaxTokens = 9
    MaxCost = 45
    InputPrice = 1
    OutputPrice = 8
    EstimatePrice = 8
    Calls <- MCCalls
    LogWindow = 5
    MaxRuns = 2
    MaxRounds = 2
    MaxAttempts = 2
    MaxIterations = 1
    ExploitLog <- MCExploit
    OtherLogs <- MCOthers
INVARIANTS
    SuccessWasJudged
    BudgetBounded
PROPERTIES
    ArchiveWasJudged
    ImplementsRevertibleApp
    RunEnds
CHECK_DEADLOCK FALSE
