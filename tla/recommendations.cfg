SPECIFICATION Spec
CONSTANTS
    u1 = u1
    u2 = u2
    c1 = c1
    c2 = c2
    p1 = p1
    p2 = p2
    p3 = p3
    r1 = r1
    r2 = r2
    r3 = r3
    drinks = drinks
    None = None
    Users <- MCUsers
    Clients <- MCClients
    Products <- MCProducts
    Runs <- MCRuns
    Owner <- MCOwner
    Forecasts <- MCForecasts
    Levels <- MCLevels
    Category <- MCCategory
    Requested <- MCRequested
    Intervals = {"day", "week"}
    PeriodStart <- MCPeriodStart
    SourceFloor = 1
    MaxLimit = 5
    CategoryOwner <- MCCategoryOwner
    Sku <- MCSku
    Mape <- MCMape
    Limits = {1, 2}
    FirstItems <- MCFirstItems
    MaxWrites = 4
    MaxMovements = 2
SYMMETRY Symmetry
INVARIANTS
    TypeOK
    
    DecisionsStand
    ActionMatchesQuantity
    
    
PROPERTIES
    OnlyRefreshReplaces
CHECK_DEADLOCK FALSE
