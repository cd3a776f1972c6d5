\* Two signups, an invitation accepted twice, and two runs of the seed, any of which may die.
SPECIFICATION Spec
CONSTANTS
    Emails = {owner, admin}
    Slugs = {demoslug, firm}
    Tiers = {starter}
    SignupReqs = {signup1, signup2}
    VerifyReqs = {verify1}
    InviteReqs = {invite1}
    AcceptReqs = {accept1, accept2}
    SeedRuns = {seed1, seed2}
    Fallible = {signup1, signup2, seed1, seed2}
    InviteRoles <- MCInviteRoles
    DemoSlug = demoslug
    OwnerEmail = owner
    AdminEmail = admin
    Starter = starter
    DemoRows = 2
    NoTier = NoTier
    NoReq = NoReq
SYMMETRY AccountSymmetry
CHECK_DEADLOCK FALSE
INVARIANTS
    TypeOK
    TenantHasOwner
    MembershipHasGrant
    SessionIsBacked
    VerificationFollowsMail
    DemoIsSeededOnce
