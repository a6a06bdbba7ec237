SPECIFICATION FairSpec
CONSTANTS
    c1 = c1
    c2 = c2
    c3 = c3
    NoCall = NoCall
    Calls <- MCThreeCalls
    VolumeThreshold = 2
    ThresholdPercent = 50
    Buckets = 2
    MaxFires = 4
INVARIANTS
    NeverStuckHalfOpen
    MetricFollowsBreaker
PROPERTIES
    ImplementsLifecycle
    ReadmitsOnceHealthy
