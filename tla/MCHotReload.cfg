\* One tenant, two timers and two changes of its policy.db, beside cold loads.
CONSTANTS
    Tenants = {t1}
    NoTenant = NoTenant
    Requests = {r1}
    NoReq = NoReq
    Workers = {w1}
    Reloads = {k1, k2}
    NoTimer = NoTimer
    CacheSize = 1
    MaxObjs = 7
    MaxJobs = 1
    MaxVersion = 2
    EventCap = 2
    MayClose = FALSE
SPECIFICATION HotFairSpec
INVARIANTS
    HotTypeOK
    FreshUnlessRace
PROPERTIES
    ChangeEventuallySeen
