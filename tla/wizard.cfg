\* One proposal sent twice and viewed twice around a selection and a signature; sends and views may die.
SPECIFICATION Spec
CONSTANTS
    Proposals = {p1}
    SendReqs = {send1, send2}
    ViewReqs = {view1, view2}
    SelectReqs = {select1}
    TermsReqs = {}
    SignReqs = {sign1}
    Fallible = {send1, send2, view1, view2}
    retainer = retainer
    oneOff = oneOff
    Packages <- MCPackages
    Recurring <- MCRecurring
    Menus <- BothMenus
    FirmHasEmail = FALSE
    NoToken = NoToken
    NoOption = NoOption
    NoProposal = NoProposal
SYMMETRY RequestSymmetry
CHECK_DEADLOCK FALSE
INVARIANTS
    StatusHasEvidence
    ViewsCounted
    FirstViewRecorded
    CurrentLinkMailed
