\* Two events of each of two payments, four deliveries, any of which may die.
SPECIFICATION Spec
CONSTANTS
    upfront = upfront
    invoice = invoice
    declined = declined
    retried = retried
    late = late
    settled = settled
    Payments = {upfront, invoice}
    Invoiced = {invoice}
    Events = {declined, retried, late, settled}
    Subject <- MCSubject
    Reported <- MCReported
    Deliveries = {d1, d2, d3, d4}
    Fallible = {d1, d2, d3, d4}
    NoEvent = NoEvent
SYMMETRY DeliverySymmetry
CHECK_DEADLOCK FALSE
PROPERTIES
    SettledIsStable
INVARIANTS
    TypeOK
    AcknowledgedIsProcessed
    ProcessedTookEffect
    SettledByEvent
