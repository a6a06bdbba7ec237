SPECIFICATION LimiterSpec
CONSTANTS
    g1 = g1
    g2 = g2
    Gateways = {g1, g2}
    Calls = {c1, c2, c3, c4}
    Skew <- Ahead
    Burst = 2
    WindowMs = 5
    MaxDelay = 1
    MaxTime = 6
SYMMETRY Symmetry
INVARIANTS
    BurstPerWindow
    RejectedOnlyWhenFull
CHECK_DEADLOCK FALSE
