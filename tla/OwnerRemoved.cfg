CONSTANTS
    founder = founder  ann = ann  bob = bob
    main = main  annex = annex
    manager = manager
    h1 = h1  h2 = h2
    Users <- MCUsers
    Founder = founder
    Warehouses <- MCWarehouses
    CustomRoles = {manager}
    AskedRoles <- MCAskedRoles
    PermissionSets <- MCPermissionSets
    Handlers <- MCHandlers
    NoRow = NoRow
    MaxRequests = 2
    MaxTokens = 2
SPECIFICATION Spec
SYMMETRY MCSymmetry
PROPERTY OwnersAreNotRemoved
CHECK_DEADLOCK FALSE
