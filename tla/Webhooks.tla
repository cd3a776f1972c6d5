------------------------------- MODULE Webhooks -------------------------------
(***************************************************************************)
(* handleStitchWebhook of apps/api/src/payments: the payment provider      *)
(* reports what became of a payment; the event is recorded under its       *)
(* idempotency key, the payment and its invoice are settled, and the event *)
(* is marked processed.                                                    *)
(*                                                                         *)
(* The provider may deliver an event any number of times, concurrently, in *)
(* any order, and before sign has saved the row of the payment.  As in     *)
(* Proposals, each await is a point where anything else may run, and a     *)
(* delivery that fails answers an error, upon which the provider may       *)
(* deliver again.  Deliveries with an invalid signature change nothing and *)
(* are left out.                                                           *)
(***************************************************************************)
CONSTANTS
    Payments,    \* payment requests open at the provider
    Invoiced,    \* those whose Payment row names an invoice
    Events,      \* events, by idempotency key
    Subject,     \* Subject[e]: the payment that event e refers to
    Reported,    \* Reported[e]: the status in event e, if it has one
    Deliveries,  \* HTTP requests to the webhook endpoint
    Fallible,    \* deliveries that may die between two awaits
    NoEvent

ASSUME InvoicedAssumption == Invoiced \subseteq Payments
ASSUME SubjectAssumption == Subject \in [Events -> Payments]
ASSUME ReportedAssumption == Reported \in [Events -> {"succeeded", "failed", "processing", "none"}]
ASSUME WebhookFallibleAssumption == Fallible \subseteq Deliveries
ASSUME NoEventAssumption == NoEvent \notin Events

VARIABLES
    payment,   \* status of the Payment rows; "absent" until the row is saved
    paid,      \* the payments whose invoice has status paid
    event,     \* WebhookEvent rows: "absent", "recorded", "processed"
    pc,        \* the next step of a delivery, or its answer
    target,    \* the event it delivers
    found      \* what findPayment returned to it

database == <<payment, paid, event>>
vars     == <<database, pc, target, found>>

Settled == {"succeeded", "failed"}

\* Only a failure is a failure: an event that says processing, or nothing,
\* settles the payment.
Outcome(e) == IF Reported[e] = "failed" THEN "failed" ELSE "succeeded"

Init ==
    /\ payment = [p \in Payments |-> "absent"]
    /\ paid = {}
    /\ event = [e \in Events |-> "absent"]
    /\ pc = [d \in Deliveries |-> "idle"]
    /\ target = [d \in Deliveries |-> NoEvent]
    /\ found = [d \in Deliveries |-> "unread"]

Goto(d, step) == pc' = [pc EXCEPT ![d] = step]

\* sign saves the row of a payment it has requested.
SavePayment(p) ==
    /\ payment[p] = "absent"
    /\ payment' = [payment EXCEPT ![p] = "pending"]
    /\ UNCHANGED <<paid, event, pc, target, found>>

\* Slip: an event that is on record is taken for one that was processed.
AfterReceiveRecorded(e) == IF event[e] = "absent" THEN "record" ELSE "acknowledged"

\* Slip: the event is recorded when it has been processed, not before.
AfterReceiveUnrecorded(e) == IF event[e] = "processed" THEN "acknowledged" ELSE "find"

AfterReceive(e) ==
    CASE event[e] = "processed" -> "acknowledged"
      [] event[e] = "recorded"  -> "find"
      [] event[e] = "absent"    -> "record"

Receive(d, e) ==
    /\ pc[d] = "idle"
    /\ target' = [target EXCEPT ![d] = e]
    /\ Goto(d, AfterReceive(e))
    /\ UNCHANGED <<database, found>>

\* Slip: the event is inserted with processedAt.
RecordProcessed(d) ==
    /\ pc[d] = "record"
    /\ event[target[d]] = "absent"
    /\ event' = [event EXCEPT ![target[d]] = "processed"]
    /\ Goto(d, "find")
    /\ UNCHANGED <<payment, paid, target, found>>

Record(d) ==
    /\ pc[d] = "record"
    /\ event[target[d]] = "absent"
    /\ event' = [event EXCEPT ![target[d]] = "recorded"]
    /\ Goto(d, "find")
    /\ UNCHANGED <<payment, paid, target, found>>

\* idempotencyKey is unique: another delivery has recorded the event meanwhile.
RecordConflict(d) ==
    /\ pc[d] = "record"
    /\ event[target[d]] # "absent"
    /\ Goto(d, "failed")
    /\ UNCHANGED <<database, target, found>>

Find(d) ==
    /\ pc[d] = "find"
    /\ \/ /\ payment[Subject[target[d]]] # "absent"
          /\ found' = [found EXCEPT ![d] = "row"]
          /\ Goto(d, "settle")
       \/ /\ payment[Subject[target[d]]] = "absent"
          /\ found' = [found EXCEPT ![d] = "none"]
          /\ Goto(d, "mark")
    /\ UNCHANGED <<database, target>>

\* Slip: whether the payment has an invoice is not asked.
AfterSettleAlways(e) == IF Outcome(e) = "succeeded" THEN "settleInvoice" ELSE "mark"

AfterSettle(e) ==
    IF Outcome(e) = "succeeded" /\ Subject[e] \in Invoiced THEN "settleInvoice" ELSE "mark"

\* Slip: a payment that is processing is pending again.
SettleReported(d) ==
    /\ pc[d] = "settle"
    /\ payment' = [payment EXCEPT ![Subject[target[d]]] =
                      IF Reported[target[d]] = "processing" THEN "pending" ELSE Outcome(target[d])]
    /\ Goto(d, AfterSettle(target[d]))
    /\ UNCHANGED <<paid, event, target, found>>

Settle(d) ==
    /\ pc[d] = "settle"
    /\ payment' = [payment EXCEPT ![Subject[target[d]]] = Outcome(target[d])]
    /\ Goto(d, AfterSettle(target[d]))
    /\ UNCHANGED <<paid, event, target, found>>

SettleInvoice(d) ==
    /\ pc[d] = "settleInvoice"
    /\ paid' = paid \cup {Subject[target[d]]}
    /\ Goto(d, "mark")
    /\ UNCHANGED <<payment, event, target, found>>

Mark(d) ==
    /\ pc[d] = "mark"
    /\ event' = [event EXCEPT ![target[d]] = "processed"]
    /\ Goto(d, "acknowledged")
    /\ UNCHANGED <<payment, paid, target, found>>

\* The database throws or the process is stopped; the provider gets no 200.
Abort(d) ==
    /\ pc[d] \notin {"idle", "acknowledged", "failed"}
    /\ Goto(d, "failed")
    /\ UNCHANGED <<database, target, found>>

Handle(d) == Record(d) \/ RecordConflict(d) \/ Find(d) \/ Settle(d) \/ SettleInvoice(d) \/ Mark(d)

Next ==
    \/ \E p \in Payments : SavePayment(p)
    \/ \E d \in Deliveries : (\E e \in Events : Receive(d, e)) \/ Handle(d)
    \/ \E d \in Fallible : Abort(d)

Spec == Init /\ [][Next]_vars

-----------------------------------------------------------------------------
(* Properties. *)

\* Payments, invoices, events and deliveries are in states the schema and the
\* handler give them.
TypeOK ==
    /\ payment \in [Payments -> {"absent", "pending"} \cup Settled]
    /\ paid \subseteq Invoiced
    /\ event \in [Events -> {"absent", "recorded", "processed"}]
    /\ pc \in [Deliveries -> {"idle", "record", "find", "settle", "settleInvoice", "mark",
                              "acknowledged", "failed"}]
    /\ target \in [Deliveries -> Events \cup {NoEvent}]
    /\ found \in [Deliveries -> {"unread", "row", "none"}]

\* The payment of e is settled and, if e reports a success, its invoice is paid.
TookEffect(e) ==
    /\ payment[Subject[e]] \in Settled
    /\ Outcome(e) = "succeeded" /\ Subject[e] \in Invoiced => Subject[e] \in paid

\* The provider stops delivering once it gets a 200, so a 200 must not be given
\* for an event whose first delivery died half way: whenever a delivery was
\* acknowledged, its event is processed, for good.
AcknowledgedIsProcessed ==
    \A d \in Deliveries : pc[d] = "acknowledged" => event[target[d]] = "processed"

\* An event is not marked processed before it took effect, in full, although
\* deliveries that died in between left part of it: unless a delivery of the
\* event found no payment to settle.
ProcessedTookEffect ==
    \A e \in Events : event[e] = "processed" =>
       \/ TookEffect(e)
       \/ \E d \in Deliveries : target[d] = e /\ found[d] = "none"

Heard(e, p) == event[e] # "absent" /\ Subject[e] = p

\* No payment has failed without an event on record that reports its failure,
\* and none has succeeded, nor is its invoice paid, without one that reports
\* something other than a failure: a success, a payment still under way, or
\* nothing.  That the last two count as a success is what the code does.
SettledByEvent ==
    \A p \in Payments :
       /\ payment[p] = "failed" => \E e \in Events : Heard(e, p) /\ Reported[e] = "failed"
       /\ payment[p] = "succeeded" \/ p \in paid =>
             \E e \in Events : Heard(e, p) /\ Reported[e] # "failed"

\* Redeliveries settle a payment again and again, but never differently: while
\* the events on record for a payment agree, a settled payment stays as it is.
SettledIsStable ==
    [][\A p \in Payments :
          /\ payment[p] \in Settled
          /\ \A e \in Events : Subject[e] = p /\ event'[e] # "absent" => Outcome(e) = payment[p]
          => payment'[p] = payment[p]]_vars

\* What deliveries in flight rely on, which the properties above leave out.
DeliveryOK(d) ==
    /\ pc[d] # "idle" => target[d] \in Events
    /\ pc[d] \in {"idle", "record", "find"} => found[d] = "unread"
    /\ pc[d] \in {"find", "settle", "settleInvoice", "mark"} => event[target[d]] # "absent"
    /\ pc[d] = "settle" => payment[Subject[target[d]]] # "absent"
    /\ pc[d] = "settleInvoice" =>
          /\ payment[Subject[target[d]]] \in Settled
          /\ Outcome(target[d]) = "succeeded"
          /\ Subject[target[d]] \in Invoiced
    /\ pc[d] = "mark" => found[d] = "none" \/ TookEffect(target[d])
    /\ pc[d] = "acknowledged" => event[target[d]] = "processed"

DeliveryInv == \A d \in Deliveries : DeliveryOK(d)

\* "Verify, deduplicate and reconcile": an event acknowledged to the provider
\* is reconciled with its payment once both are known.
AcknowledgedIsReconciled ==
    \A e \in Events : event[e] = "processed" => payment[Subject[e]] # "pending"

=============================================================================
