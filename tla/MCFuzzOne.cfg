SPECIFICATION FairSpec
CONSTANTS
    Lens = {1, 4}
    ByteBits = 4
    EffScale = 1
    EffMaxPerc = 60
    ArithMax = 1
    Interesting = 1
    ExtraLens <- MCExtras
    AutoLens <- MCAutos
    NoArith = FALSE
    CalCycles = 1
    HavocMin = 1
    HavocMaxMult = 1
    SpliceCycles = 1
INVARIANTS
    FaultIsTrue
    NoChildBetween
    KeptIsTrue
    MutationsAlone
PROPERTY TurnEnds
CHECK_DEADLOCK FALSE
