SPECIFICATION FairSpec
CONSTANTS
    gateway = gateway
    operator = operator
    request = request
    reload = reload
    Gateway <- gateway
    Runners <- MCRunners
    LastVersion = 3
    Requests <- MCRequests
    Reload <- reload
    PoolMax = 2
    MaxSignals = 2
INVARIANTS
    LedgerIsTrue
    ServesCompleteSchema
    StopIsClean
PROPERTIES
    WaitersSettle
    ShutdownEnds
    LoadedInTheEnd
    ServesInTheEnd
