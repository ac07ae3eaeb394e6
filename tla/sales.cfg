SPECIFICATION Spec
CONSTANTS
    u1 = u1
    u2 = u2
    c1 = c1
    c2 = c2
    p1 = p1
    p2 = p2
    p3 = p3
    p4 = p4
    drinks = drinks
    None = None
    Keep = Keep
    Bad = Bad
    Users <- MCUsers
    Clients <- MCClients
    Products <- MCProducts
    Catalogue <- MCCatalogue
    NewSales <- MCNewSales
    Patches <- MCPatches
    Files <- MCFiles
    MaxSales = 2
    MaxBatches = 2
    MaxPatches = 2
    QuantityLimit = 100
    MoneyLimit = 20
    PriceTop = 10
    TotalTop = 50
    MaxBytes = 1
    MaxRows = 3
    MaxColumns = 6
    Dates = {1, 4}
    Intervals = {"day", "week"}
    PeriodStart <- MCPeriodStart
    Regressor <- MCRegressor
    DefaultDays = 2
    Horizon = 2
    CategoryOwner <- MCCategoryOwner
    MaxLimit = 4
    Today = 4
    Week = 2
    Fortnight = 3
    MinModelRows = 2
    MinValidationDays = 1
    ValidationShare = 2
    MaxValidationDays = 2
    MinProductHistoryDays = 3
    MinProductPositiveDays = 2
SYMMETRY Symmetry
INVARIANTS
    TypeOK
    SalesOfOwnProducts
    TotalsAreProducts
    BatchesAccountForRows
    FilesStoredOnce
    ScreensAgree
    ServedAsTrained
    ForecastsCoverTheHorizon
PROPERTIES
    DeletedIsFinal
CHECK_DEADLOCK FALSE
