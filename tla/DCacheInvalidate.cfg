CONSTANTS
    t1 = t1
    t2 = t2
    t3 = t3
    Tag = {t1, t2, t3}
    ZeroTag = t1
    Sets = 2
    Words = 2
    Byte = {b0}
    Val = {0, 1}
    ZeroVal = 0
    Watched <- MCNone
    Addrs <- MCAddrs
    Ops = {"load", "invalidate"}
    Errors = {FALSE}
SPECIFICATION Spec
INVARIANTS
    InvalidateDropsLine
