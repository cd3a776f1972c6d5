\* Two requests with any host, header and token of a small set on the contacts and activities of two tenants.
SPECIFICATION Spec
CONSTANTS
    acme = acme
    brunel = brunel
    platform = platform
    acmeHost = acmeHost
    brunelDomain = brunelDomain
    contactOfAcme = contactOfAcme
    contactOfBrunel = contactOfBrunel
    firmOfBrunel = firmOfBrunel
    dealOfAcme = dealOfAcme
    Tenants = {acme, brunel}
    Slugs = {acme, brunel}
    Hosts = {platform, acmeHost, brunelDomain}
    PlatformHosts = {platform}
    Subdomain <- MCSubdomain
    CustomDomain <- MCCustomDomain
    Bearers <- MCBearers
    Models <- Related
    Seeded = {contactOfAcme, contactOfBrunel, firmOfBrunel, dealOfAcme}
    SeededAs <- MCSeededAs
    Requests = {r1, r2}
    NoTenant = NoTenant
    NoBearer = NoBearer
    NoRole = NoRole
    NoId = NoId
SYMMETRY RequestSymmetry
CHECK_DEADLOCK FALSE
INVARIANTS
    TypeOK
    ReadsStayInScope
    WritesStayInScope
    WritesAreEntitled
    RereadFindsRow
