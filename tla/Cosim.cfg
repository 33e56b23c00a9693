SPECIFICATION Spec
CONSTANTS
    Space = 16
    TbSpace = 16
    MaxRegions = 2
    TbMax = 3
    Bytes = {0}
    Line = 4
    Row = 4
    WordBytes = 2
    MaxCycles = 4
    Setups <- MCSetups
    Images <- MCImages
    Options <- MCOptions
    Effects <- MCEffects
INVARIANTS
    LoadExact
    AgreedSoFar
    StopsInTime
    DumpIsMemory
CHECK_DEADLOCK FALSE
