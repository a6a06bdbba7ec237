SPECIFICATION Spec
CONSTANTS
    Admins = {a1}
    RouteIds = {"id1", "id2"}
    CreateBodies <- Creates
    UpdateBodies <- Updates
    PolicyBodies <- Policies
PROPERTY
    UpdateKeepsDefaulted
CHECK_DEADLOCK FALSE
