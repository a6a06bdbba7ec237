SPECIFICATION FairSpec
CONSTANTS
    a1 = a1
    a2 = a2
    g1 = g1
    l1 = l1
    l2 = l2
    Admins <- MCTwoAdmins
    ChangeKinds <- MCAllChanges
    Gateways <- MCOneGateway
    Loads <- MCOneLoad
    MaxMutations = 2
    MaxFaults = 0
PROPERTY
    EveryChangePickedUp
