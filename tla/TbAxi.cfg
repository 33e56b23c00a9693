CONSTANTS
    Lens = {0, 1, 3}
    QueueLimit = 2
    Watched = {5, 9}
    Transfers <- MCTransfers
SPECIFICATION FairTbSpec
INVARIANTS
    DataHasCommand
    ReadSeesWrites
    BridgeInv
PROPERTIES
    ImplementsSlave
    Completes
