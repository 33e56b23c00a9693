CONSTANTS
    Benches = {"cache", "tcm"}
    Entry = 7
    BootVector = 9
    MaxEdges = 5
SPECIFICATION FairBenchSpec
INVARIANTS
    WrapperTransparent
    StartsAtEntry
    ClosedOnce
PROPERTIES
    Boots
CHECK_DEADLOCK FALSE
