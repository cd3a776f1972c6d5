\* A member's contact refers to a firm of the other tenant.
SPECIFICATION Spec
CONSTANTS
    acme = acme
    brunel = brunel
    platform = platform
    acmeHost = acmeHost
    brunelDomain = brunelDomain
    contactOfAcme = contactOfAcme
    contactOfBrunel = contactOfBrunel
    firmOfBrunel = firmOfBrunel
    dealOfAcme = dealOfAcme
    Tenants = {acme, brunel}
    Slugs = {acme, brunel}
    Hosts = {platform}
    PlatformHosts = {platform}
    Subdomain <- MCSubdomain
    CustomDomain <- MCCustomDomain
    Bearers <- Members
    Models <- Contacts
    Seeded = {contactOfAcme, firmOfBrunel}
    SeededAs <- MCSeededAs
    Requests = {r1, r2}
    NoTenant = NoTenant
    NoBearer = NoBearer
    NoRole = NoRole
    NoId = NoId
CHECK_DEADLOCK FALSE
INVARIANTS
    AnswersStayInTenant
