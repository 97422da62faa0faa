\* Two uploads at a time, with failures and crashes at every step.
CONSTANTS
    Uploads = {u1, u2}
    Docs = {d1, d2}
    NoDoc = NoDoc
    MaxInodes = 5
    MaxVersion = 2
    MayCrash = TRUE
SPECIFICATION StoreSpec
SYMMETRY Symmetry
INVARIANTS
    StoreTypeOK
    AtomicUnlessShared
    VersionsUnlessRaced
    MetaNotAhead
