\* A wizard over two options and a console over two lists, with three clicks and two adds that make calls.
SPECIFICATION Spec
CONSTANTS
    Options = {o1, o2}
    Fields = {consent}
    Lists = {contacts, deals}
    Clicks = {click1, click2, click3}
    Adds = {add1, add2}
    Opening = Opening
    Theme = Theme
    NoOption = NoOption
    NoArg = NoArg
SYMMETRY WebSymmetry
CHECK_DEADLOCK FALSE
INVARIANTS
    TypeOK
    OrderIsStrict
    SelectionAgrees
    ProposalBrandStays
    ShownIsFresh
    SignedOutStaysOut
PROPERTIES
    NeverBack
