SPECIFICATION DFFairSpec
CONSTANTS
    Monitors = {"differential", "apache", "crashes"}
INVARIANT ReasonIsTrue
PROPERTIES
    FindingFails
    VerificationEnds
CHECK_DEADLOCK FALSE
