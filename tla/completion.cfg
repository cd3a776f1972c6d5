\* Nothing fails: what is started is finished.
SPECIFICATION FairSpec
CONSTANTS
    Proposals = {p1}
    SendReqs = {send1, send2}
    ViewReqs = {}
    SelectReqs = {select1}
    TermsReqs = {}
    SignReqs = {sign1, sign2}
    Fallible = {}
    retainer = retainer
    oneOff = oneOff
    Packages <- MCPackages
    Recurring <- MCRecurring
    Menus <- AllMenus
    FirmHasEmail = TRUE
    NoToken = NoToken
    NoOption = NoOption
    NoProposal = NoProposal
CHECK_DEADLOCK FALSE
PROPERTIES
    SigningCompletes
    IssuedLinkIsMailed
