SPECIFICATION FairSpec
CONSTANTS
    p1 = p1
    c1 = c1
    c2 = c2
    None = None
    Products <- MCProducts
    Clients <- MCClients
    Quantities <- MCQuantities
    Fields = {"minimum_stock"}
    Values = {0, 1}
    MaxStock = 3
    MaxMovements = 3
INVARIANTS
    TypeOK
    LedgerAccountsForStock
PROPERTIES
    ImplementsAccount
    RequestsReturn
