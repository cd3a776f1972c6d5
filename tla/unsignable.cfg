\* The wizard, clicked through to the form.
SPECIFICATION Spec
CONSTANTS
    Options = {o1}
    Fields = {name, email, signature, consent}
    Lists = {contacts}
    Clicks = {click1, click2}
    Adds = {}
    Opening = Opening
    Theme = Theme
    NoOption = NoOption
    NoArg = NoArg
CHECK_DEADLOCK FALSE
INVARIANTS
    FilledFormCanBeSigned
