SPECIFICATION LimiterSpec
CONSTANTS
    g1 = g1
    g2 = g2
    Gateways = {g1}
    Calls = {c1, c2, c3, c4}
    Skew <- InStep
    Burst = 2
    WindowMs = 3
    MaxDelay = 0
    MaxTime = 6
SYMMETRY Symmetry
INVARIANTS
    BurstIsMaxRequests
CHECK_DEADLOCK FALSE
