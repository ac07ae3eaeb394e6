SPECIFICATION Spec
CONSTANTS
    e1 = e1
    e2 = e2
    c1 = c1
    c2 = c2
    a1 = a1
    pw1 = pw1
    pw2 = pw2
    alice = alice
    None = None
    Addresses = {a1}
    Emails <- MCEmails
    MaximumAttempts <- MCMaximumAttempts
    StockLimit = 1000
    Clients <- MCClients
    FirstUser = e1
    Passwords <- MCPasswords
    Names = {alice}
    Updates <- MCUpdates
    MaxRequests = 3
SYMMETRY Symmetry
INVARIANTS
    TypeOK
    AttemptsWithinLimit
    OneSessionPerLogin
    ChoicesAreKept
CHECK_DEADLOCK FALSE
