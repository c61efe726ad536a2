SPECIFICATION FairSpec
CONSTANTS
    Pages = {p1}
    Conns = {k1, k2, k3, k4, k5}
    None = None
    MaxFlips = 1
    MaxBreaks = 2
INVARIANTS NeverDeaf
PROPERTIES PageCatchesUp
CHECK_DEADLOCK FALSE
