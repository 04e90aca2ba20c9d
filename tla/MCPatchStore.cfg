SPECIFICATION FairSpec
CONSTANTS
    Files <- MCFiles
    InApp <- MCInApp
    Keys <- MCFiles
    FileOf <- MCFileOf
    MaxAttempts = 2
    MaxCrashes = 2
INVARIANTS
    OriginalRecoverable
    RestoredIsShipped
PROPERTIES
    ImplementsRevertibleApp
    RestoresUnlessKilled
