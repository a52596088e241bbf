\* One donation call: its delivery runs while its notification is not committed.
SPECIFICATION Spec
CONSTANTS
    n1 = n1
    n2 = n2
    r1 = r1
    r2 = r2
    r3 = r3
    rita = rita
    NoRequest = NoRequest
    NoNote = NoNote
    Notes = {n1}
    Tasks = {n1}
    AddresseeOf <- MCAddresseeOf
    Requests = {r1, r2}
    PoolSize = 2
    TasksMayFail = FALSE
    Horizon = 0
INVARIANT DeliveredIsCommitted
CHECK_DEADLOCK FALSE
