\* Three tenants for a cache of two entries.
CONSTANTS
    Tenants = {t1, t2, t3}
    NoTenant = NoTenant
    Requests = {r1}
    NoReq = NoReq
    Workers = {w1}
    Reloads = {k1}
    CacheSize = 2
    MaxObjs = 6
    MaxJobs = 1
    MaxVersion = 0
    MayClose = FALSE
SPECIFICATION LRUSpec
SYMMETRY Symmetry
INVARIANTS
    KeepsMostRecent
    CacheConsistent
    TenantIsolation
