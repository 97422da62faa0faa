\* Two tenants that compete for a cache of one entry, loaded by two workers.
CONSTANTS
    Tenants = {t1, t2}
    NoTenant = NoTenant
    Requests = {r1, r2}
    NoReq = NoReq
    Workers = {w1, w2}
    Reloads = {}
    CacheSize = 1
    MaxObjs = 5
    MaxJobs = 2
    MaxVersion = 0
    MayClose = FALSE
SPECIFICATION OfferedSpec
SYMMETRY Symmetry
INVARIANTS
    SingleFlight
PROPERTIES
    ImplementsService
