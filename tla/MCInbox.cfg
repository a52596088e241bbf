\* Overlapping requests on one inbox, their deliveries and their connections.
SPECIFICATION Spec
CONSTANTS
    n1 = n1
    n2 = n2
    r1 = r1
    r2 = r2
    r3 = r3
    rita = rita
    NoRequest = NoRequest
    NoNote = NoNote
    Notes = {n1, n2}
    Tasks = {n1, n2}
    AddresseeOf <- MCAddresseeOf
    Requests = {r1, r2, r3}
    PoolSize = 2
    TasksMayFail = TRUE
    Horizon = 1
SYMMETRY Symmetry
INVARIANT TypeOK
INVARIANT AnsweredDeliveredCommitted
INVARIANT GridlockNeedsTwoBulkUpdates
PROPERTY RewriteNeedsARace
PROPERTY KeepsPromise
CHECK_DEADLOCK FALSE
