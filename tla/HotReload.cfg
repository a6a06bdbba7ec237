SPECIFICATION FairSpec
CONSTANTS
    a1 = a1
    a2 = a2
    g1 = g1
    l1 = l1
    l2 = l2
    Admins <- MCTwoAdmins
    ChangeKinds <- MCRouteDeletes
    Gateways <- MCOneGateway
    Loads <- MCTwoLoads
    MaxMutations = 2
    MaxFaults = 1
INVARIANTS
    NoChangeHidden
    VersionsGapFree
PROPERTIES
    ImplementsVersionedConfig
    VersionConverges
