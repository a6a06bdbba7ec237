SPECIFICATION FairSpec
CONSTANTS
    Upstreams = {u1}
    Passes = {p1, p2}
    None = None
    MaxCount = 4
INVARIANTS
    FailuresAreReal
PROPERTIES
    StatusConverges
    BreakerConverges
