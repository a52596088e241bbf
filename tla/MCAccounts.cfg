\* Overlapping requests on the users table.
SPECIFICATION Spec
CONSTANTS
    root = root
    ann = ann
    anna = anna
    r1 = r1
    r2 = r2
    NoRequest = NoRequest
    NoAccount = NoAccount
    Accounts = {root, ann, anna}
    Seeded = {root}
    SeedPassword <- MCSeedPassword
    EmailOf <- MCEmailOf
    Roles = {"DONOR", "ADMIN"}
    Secrets = {"s", "t"}
    Requests = {r1, r2}
    PoolSize = 2
    Tasks = {}
    TasksMayFail = FALSE
SYMMETRY Symmetry
INVARIANT TypeOK
INVARIANT OneAccountPerAddress
INVARIANT AdmittedByTheTable
INVARIANT WaitersHoldNothing
PROPERTY ChangesOneColumn
CHECK_DEADLOCK FALSE
