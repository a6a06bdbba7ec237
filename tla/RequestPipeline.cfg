SPECIFICATION FairSpec
CONSTANTS
    r1 = r1
    r2 = r2
    orders = orders
    reports = reports
    u1 = u1
    u2 = u2
    NoRoute = NoRoute
    Requests <- MCRequests
    Routes <- MCRoutes
    Upstreams <- MCUpstreams
    Configs <- MCConfigs
INVARIANTS
    TypeOK
    NeverSharesPersonalResponses
PROPERTIES
    EveryRequestAnswered
    StaleResponsesExpire
    ChecksSettle
