SPECIFICATION Spec
CONSTANTS
    Admins = {a1, a2, a3}
    RouteIds = {"id1", "id2"}
    CreateBodies <- Creates
    UpdateBodies <- Updates
    PolicyBodies <- Policies
SYMMETRY Symmetry
INVARIANTS
    TypeOK
    NamesUnique
    PoliciesHaveRoutes
    RefusedChangesNothing
    SuccessIsPublished
PROPERTY
    DeletedStays
CHECK_DEADLOCK FALSE
