\* A stale view, a second send or a selection undoes the signed status.
SPECIFICATION Spec
CONSTANTS
    Proposals = {p1}
    SendReqs = {send1}
    ViewReqs = {view1}
    SelectReqs = {}
    TermsReqs = {}
    SignReqs = {sign1}
    Fallible = {}
    retainer = retainer
    oneOff = oneOff
    Packages <- MCPackages
    Recurring <- MCRecurring
    Menus <- OneOffMenu
    FirmHasEmail = TRUE
    NoToken = NoToken
    NoOption = NoOption
    NoProposal = NoProposal
CHECK_DEADLOCK FALSE
PROPERTIES
    SignedIsFinal
