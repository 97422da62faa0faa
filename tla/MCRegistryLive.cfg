\* One tenant whose calls coalesce; loads may hang and Close may be called at any time.
CONSTANTS
    Tenants = {t1}
    NoTenant = NoTenant
    Requests = {r1, r2}
    NoReq = NoReq
    Workers = {w1}
    Reloads = {}
    CacheSize = 1
    MaxObjs = 4
    MaxJobs = 3
    MaxVersion = 0
    MayClose = TRUE
SPECIFICATION FairSpec
CHECK_DEADLOCK FALSE
INVARIANTS
    TypeOK
    NoLostJob
PROPERTIES
    EveryCallReturns
    NoJobStarves
    WorkersExit
