\* Two composers; one proposal is sent, its selection and two signatures overlap, and all but the wizard may die.
SPECIFICATION Spec
CONSTANTS
    Proposals = {p1, p2}
    SendReqs = {send1}
    ViewReqs = {}
    SelectReqs = {select1}
    TermsReqs = {terms1}
    SignReqs = {sign1, sign2}
    Fallible = {p1, p2, sign1, sign2}
    retainer = retainer
    oneOff = oneOff
    Packages <- MCPackages
    Recurring <- MCRecurring
    Menus <- MixedMenus
    FirmHasEmail = TRUE
    NoToken = NoToken
    NoOption = NoOption
    NoProposal = NoProposal
SYMMETRY RequestSymmetry
CHECK_DEADLOCK FALSE
INVARIANTS
    TypeOK
    BilledAtMostOnce
    BillingFollowsSignature
    AuditTrail
    NumbersFollowCount
PROPERTIES
    KeepsPromise
