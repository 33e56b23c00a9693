CONSTANTS
    Depth = 3
    Key = {k1, k2}
    NoKey = NoKey
    Mixed = Mixed
    Payload = {p1, p2}
    NoPayload = NoPayload
    CtrMod = 3
    None = None
    MaxBlocks = 4
SPECIFICATION Spec
INVARIANTS
    OneKeyPerBlock
    CounterInStep
PROPERTIES
    ImplementsDelayLine
