SPECIFICATION SimulatorSpec
CONSTANTS
    PcMod = 3
    TimeMod = 8
    MaxInsts = 4
    MaxBps = 1
    BpAddrs = {1}
    CsrWrites <- MCCsrWrites
    Presets <- MCPresets
    Devices = TRUE
    Opcodes <- MCOpcodes
    Rds = {0, 1}
    Rs1s = {0, 1}
    Rs2s = {0, 1, 2, 5}
    F6s = {0, 1, 4, 8, 12, 16}
    W = 4
    BitAnd <- MCAnd
    BitOr <- MCOr
    BitXor <- MCXor
    IdxBits = 1
    PhysBits = 2
    PpnBits = 3
    Tables <- MCTables
    Satps <- MCSatps
    Space = 16
    MaxRegions = 3
    Bytes = {0, 200}
    RegionLists <- MCRegionLists
    DataWords <- MCDataWords
INVARIANTS
    ReturnRestores
    InterruptsExact
    SimInv
    DecodersAgree
    ArithmeticAgrees
    TranslationAgrees
    MemoryIsFlat
PROPERTIES
    PrivilegeByTrap
CHECK_DEADLOCK FALSE
