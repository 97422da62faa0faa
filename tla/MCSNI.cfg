\* A tunnel whose SNI is not the CONNECT's host.
CONSTANTS
    Conns = {c1}
    Tenants = {t1}
    NoTenant = NoTenant
    Hosts = {h1, h2}
    NoHost = NoHost
    DefaultTenant = NoTenant
    MaxInspect = 1
    MaxBody = 2
SPECIFICATION ProxySpec
INVARIANTS
    SNIWasAllowed
