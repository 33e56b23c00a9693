CONSTANTS
    Word = {w1}
    NoWord = NoWord
    NoReq = NoReq
    CountMod = 1
    WriteOffsets = {"ctrl", "word", "last", "cfg", "other"}
    ReadOffsets = {"status", "last", "cfg", "digest", "other"}
    RateWords = 1
    Rounds = 3
    FifoDepth = 2
    MaxWords = 5
SPECIFICATION FairRegsSpec
INVARIANTS
    RegsInv
    EveryWordAccepted
    DriverReadsItsDigest
PROPERTIES
    LastWordFinishes
