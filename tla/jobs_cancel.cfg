SPECIFICATION Spec
CONSTANTS
    r1 = r1
    j1 = j1
    j2 = j2
    c1 = c1
    c2 = c2
    w1 = w1
    w2 = w2
    None = None
    Runs <- MCRuns
    Jobs <- MCJob
    Clients <- MCClients
    Workers <- MCWorker
    MaxRetries = 2
    ImmediateRetry = TRUE
    Ops = {"create", "enqueue", "get", "cancel", "cancel_run", "process"}
    Faults = {"redis", "connect", "ml", "kill", "persist"}
SYMMETRY MCSymmetry
INVARIANTS
    RowPrecedesDelivery
    CancelledRunNeverComputes
