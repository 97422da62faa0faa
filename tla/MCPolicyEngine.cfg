\* Every document of at most two rules goes through the pipeline.
CONSTANTS
    h1 = h1
    h2 = h2
    get = get
    post = post
    Hosts = {h1, h2}
    Methods = {get, post}
    PyOnly = PyOnly
    Broken = Broken
    NotAList = NotAList
    Rules <- MCRules
    MaxRules = 2
    MaxUpload = 2
SPECIFICATION EngineSpec
INVARIANTS
    EngineTypeOK
    DecisionMatchesDocument
    LegacyPreserved
    LoadFailsOnlyForSyntax
\* A document goes through the pipeline once.
CHECK_DEADLOCK FALSE
