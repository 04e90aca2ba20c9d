SPECIFICATION Spec
CONSTANTS
    Children = {m, s}
    Files = {"a", "c"}
    Points <- MCPoints
    InitialRows <- MCRows
    BufferRows = 1
    CountMod = 3
    MaxDistance = 4
    MaxRows = 4
    MaxKills = 1
SYMMETRY AnyChild
INVARIANTS
    WritersDoNotMix
    FeedbackIsClosest
PROPERTY LookupsKept
