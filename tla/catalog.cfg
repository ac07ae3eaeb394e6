SPECIFICATION Spec
CONSTANTS
    u1 = u1
    u2 = u2
    c1 = c1
    c2 = c2
    None = None
    Keep = Keep
    Users <- MCUsers
    Clients <- MCClients
    RawSkus <- MCRawSkus
    Names = {drinks}
    Prices <- MCPrices
    MaxRows = 3
    MaxSku = 3
    PriceLimit = 1
    MaxLimit = 2
SYMMETRY Symmetry
INVARIANTS
    TypeOK
    KeysUnique
    CategoryOfOwner
    ArchivedCategoriesAreEmpty
    
PROPERTIES
    ArchivedStaysArchived
