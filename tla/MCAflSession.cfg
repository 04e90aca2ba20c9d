SPECIFICATION SESpec
CONSTANTS
    Fuzzers = {"fuzzer-master", "fuzzer-1"}
    seed = seed  find1 = find1  find2 = find2
    Seeds <- MCSeeds
    Finds <- MCFinds
    MaxKills = 2
CONSTRAINT FindsAndKills
SYMMETRY Symmetry
INVARIANTS
    InputsSurvive
    SyncedWasRun
CHECK_DEADLOCK FALSE
