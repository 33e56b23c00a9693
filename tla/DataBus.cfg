CONSTANTS
    Lens = {0, 7}
    Requests <- MCRequests
SPECIFICATION FairBusSpec
INVARIANTS
    BusInv
    AnswersExact
PROPERTIES
    ImplementsSlave
    Completes
