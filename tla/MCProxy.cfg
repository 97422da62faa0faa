\* Plain requests and tunnels of two tenants, both tenancy modes, a default tenant.
CONSTANTS
    Conns = {c1}
    Tenants = {t1, t2}
    NoTenant = NoTenant
    Hosts = {h1, h2}
    NoHost = NoHost
    DefaultTenant = t1
    MaxInspect = 1
    MaxBody = 2
SPECIFICATION ProxySpec
SYMMETRY Symmetry
INVARIANTS
    ProxyTypeOK
    ForwardedWasAllowed
    InspectedAndIntact
    AuditMatchesAnswer
