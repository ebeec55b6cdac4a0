\* Clients that create and update jobs of one database at the same time.
CONSTANTS
    J1 = J1
    J2 = J2
    k1 = k1
    k2 = k2
    p = p
    r = r
    e = e
    Clients = {c1, c2}
    JobIds = {J1, J2}
    Keys = {k1, k2}
    Payloads = {p}
    Results = {r}
    Errors = {e}
    Requests <- MCRequests
    MaxCalls = 4
    None = None
SPECIFICATION FairSpec
INVARIANTS
    TypeOK
PROPERTIES
    ImplementsLedger
    RecordsAreKept
    LockIsReleased
CHECK_DEADLOCK FALSE
