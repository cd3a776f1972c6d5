\* An event overtakes the row of its payment.
SPECIFICATION Spec
CONSTANTS
    upfront = upfront
    invoice = invoice
    declined = declined
    retried = retried
    late = late
    settled = settled
    Payments = {upfront}
    Invoiced = {}
    Events = {retried}
    Subject <- MCSubject
    Reported <- MCReported
    Deliveries = {d1, d2}
    Fallible = {}
    NoEvent = NoEvent
SYMMETRY DeliverySymmetry
CHECK_DEADLOCK FALSE
INVARIANTS
    AcknowledgedIsReconciled
