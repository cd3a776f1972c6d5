---------------------------- MODULE WebhooksProofs ----------------------------
(***************************************************************************)
(* The safety of webhook handling: deliveries may repeat, overlap, die and *)
(* overtake each other and the payments they are about.                    *)
(***************************************************************************)
EXTENDS Webhooks, TLAPS

\* The inductive invariant.
Inv == TypeOK /\ DeliveryInv /\ ProcessedTookEffect /\ SettledByEvent

LEMMA OutcomeIsSettled == \A e : Outcome(e) \in Settled
  BY DEF Outcome, Settled

\* Payments do not go back behind pending, nor behind settled, and what took
\* effect stays in effect.
LEMMA EffectsRemain ==
  ASSUME Inv, Next
  PROVE  /\ \A p \in Payments : payment[p] # "absent" => payment'[p] # "absent"
         /\ \A p \in Payments : payment[p] \in Settled => payment'[p] \in Settled
         /\ paid \subseteq paid'
         /\ \A e \in Events : event[e] # "absent" => event'[e] # "absent"
         /\ \A e \in Events : event[e] = "processed" => event'[e] = "processed"
         /\ \A e \in Events : TookEffect(e) => TookEffect(e)'
  <1>1. /\ \A p \in Payments : payment[p] # "absent" => payment'[p] # "absent"
        /\ \A p \in Payments : payment[p] \in Settled => payment'[p] \in Settled
        /\ paid \subseteq paid'
        /\ \A e \in Events : event[e] # "absent" => event'[e] # "absent"
        /\ \A e \in Events : event[e] = "processed" => event'[e] = "processed"
    BY OutcomeIsSettled, WebhookFallibleAssumption
       DEF Inv, TypeOK, Next, Handle, SavePayment, Receive, Record, RecordConflict, Find,
           Settle, SettleInvoice, Mark, Abort, database, Settled
  <1>2. \A e \in Events : TookEffect(e) => TookEffect(e)'
    BY <1>1, SubjectAssumption DEF TookEffect, Outcome
  <1> QED  BY <1>1, <1>2

LEMMA NextKeepsType ==
  ASSUME Inv, Next
  PROVE  TypeOK'
  <1> USE DEF Inv, TypeOK
  <1>1. CASE \E p \in Payments : SavePayment(p)
    BY <1>1 DEF SavePayment
  <1>2. CASE \E d \in Deliveries, e \in Events : Receive(d, e)
    BY <1>2 DEF Receive, AfterReceive, Goto, database
  <1>3. ASSUME NEW d \in Deliveries, Handle(d)
        PROVE  TypeOK'
    <2>1. pc[d] # "idle" => target[d] \in Events /\ Subject[target[d]] \in Payments
      BY SubjectAssumption DEF DeliveryInv, DeliveryOK
    <2> QED
      BY <1>3, <2>1, OutcomeIsSettled
         DEF Handle, Record, RecordConflict, Find, Settle, SettleInvoice, Mark, AfterSettle,
             Goto, database, DeliveryInv, DeliveryOK
  <1>4. CASE \E d \in Fallible : Abort(d)
    BY <1>4, WebhookFallibleAssumption DEF Abort, Goto, database
  <1> QED  BY <1>1, <1>2, <1>3, <1>4 DEF Next

\* A step that leaves a delivery where it is leaves what it relies on.
LEMMA OtherDeliveries ==
  ASSUME Inv, Next, NEW q \in Deliveries, pc'[q] = pc[q], target'[q] = target[q], found'[q] = found[q]
  PROVE  DeliveryOK(q)'
  <1>1. DeliveryOK(q) /\ (pc[q] # "idle" => Subject[target[q]] \in Payments)
    BY SubjectAssumption DEF Inv, DeliveryInv, DeliveryOK
  <1> QED  BY <1>1, EffectsRemain DEF DeliveryOK, Outcome

LEMMA NextKeepsDeliveries ==
  ASSUME Inv, Next
  PROVE  DeliveryInv'
  <1> SUFFICES ASSUME NEW q \in Deliveries  PROVE DeliveryOK(q)'
    BY DEF DeliveryInv
  <1>1. CASE \E p \in Payments : SavePayment(p)
    BY <1>1, OtherDeliveries DEF SavePayment
  <1>2. ASSUME NEW d \in Deliveries, NEW e \in Events, Receive(d, e)
        PROVE  DeliveryOK(q)'
    <2>1. CASE d = q
      <3>1. found[q] = "unread"
        BY <1>2, <2>1 DEF Receive, Inv, DeliveryInv, DeliveryOK
      <3>2. /\ target'[q] = e /\ found'[q] = "unread" /\ event' = event
            /\ \/ pc'[q] \in {"record", "find"} /\ (pc'[q] = "find" => event[e] # "absent")
               \/ pc'[q] = "acknowledged" /\ event[e] = "processed"
        BY <1>2, <2>1, <3>1 DEF Receive, AfterReceive, Goto, database, Inv, TypeOK
      <3> QED  BY <3>2 DEF DeliveryOK
    <2>2. CASE d # q
      BY <1>2, <2>2, OtherDeliveries DEF Receive, Goto, Inv, TypeOK
    <2> QED  BY <2>1, <2>2
  <1>3. ASSUME NEW d \in Deliveries, Handle(d)
        PROVE  DeliveryOK(q)'
    <2>1. CASE d # q
      BY <1>3, <2>1, OtherDeliveries
         DEF Handle, Record, RecordConflict, Find, Settle, SettleInvoice, Mark, Goto, Inv, TypeOK
    <2>2. ASSUME d = q
          PROVE  DeliveryOK(q)'
      <3>1. target[q] \in Events /\ Subject[target[q]] \in Payments /\ DeliveryOK(q)
        BY <1>3, <2>2, SubjectAssumption
           DEF Handle, Record, RecordConflict, Find, Settle, SettleInvoice, Mark,
               Inv, DeliveryInv, DeliveryOK
      <3>2. CASE Record(q) \/ RecordConflict(q)
        BY <3>1, <3>2 DEF Record, RecordConflict, Goto, DeliveryOK, Inv, TypeOK
      <3>3. CASE Find(q)
        BY <3>1, <3>3 DEF Find, Goto, DeliveryOK, database, Inv, TypeOK
      <3>4. CASE Settle(q)
        BY <3>1, <3>4, OutcomeIsSettled
           DEF Settle, AfterSettle, Goto, DeliveryOK, TookEffect, Outcome, Inv, TypeOK
      <3>5. CASE SettleInvoice(q)
        BY <3>1, <3>5 DEF SettleInvoice, Goto, DeliveryOK, TookEffect, Outcome, Inv, TypeOK
      <3>6. CASE Mark(q)
        BY <3>1, <3>6 DEF Mark, Goto, DeliveryOK, Inv, TypeOK
      <3> QED  BY <1>3, <2>2, <3>2, <3>3, <3>4, <3>5, <3>6 DEF Handle
    <2> QED  BY <2>1, <2>2
  <1>4. ASSUME NEW d \in Fallible, Abort(d)
        PROVE  DeliveryOK(q)'
    <2>1. CASE d = q
      BY <1>4, <2>1 DEF Abort, Goto, database, DeliveryOK, Inv, DeliveryInv, TypeOK
    <2>2. CASE d # q
      BY <1>4, <2>2, WebhookFallibleAssumption, OtherDeliveries DEF Abort, Goto, Inv, TypeOK
    <2> QED  BY <2>1, <2>2
  <1> QED  BY <1>1, <1>2, <1>3, <1>4 DEF Next

\* Only Mark makes an event processed, and it marks its own.
LEMMA NextKeepsEffects ==
  ASSUME Inv, Next
  PROVE  ProcessedTookEffect'
  <1> SUFFICES ASSUME NEW e \in Events, event'[e] = "processed"
               PROVE  \/ TookEffect(e)'
                      \/ \E d \in Deliveries : target'[d] = e /\ found'[d] = "none"
    BY DEF ProcessedTookEffect
  <1>1. ASSUME NEW d \in Deliveries, found[d] = "none"
        PROVE  target'[d] = target[d] /\ found'[d] = "none"
    <2>1. pc[d] \notin {"idle", "find"}
      BY <1>1 DEF Inv, DeliveryInv, DeliveryOK
    <2> QED
      BY <1>1, <2>1, WebhookFallibleAssumption
         DEF Next, Handle, SavePayment, Receive, Record, RecordConflict, Find, Settle,
             SettleInvoice, Mark, Abort, database, Inv, TypeOK
  <1>2. CASE event[e] = "processed"
    BY <1>1, <1>2, EffectsRemain DEF Inv, ProcessedTookEffect
  <1>3. CASE event[e] # "processed"
    <2>1. PICK d \in Deliveries : Mark(d) /\ target[d] = e
      BY <1>3 DEF Next, Handle, SavePayment, Receive, Record, RecordConflict, Find, Settle,
                  SettleInvoice, Mark, Abort, database, Inv, TypeOK
    <2>2. found[d] = "none" \/ TookEffect(e)
      BY <2>1 DEF Mark, Inv, DeliveryInv, DeliveryOK
    <2> QED  BY <1>1, <2>1, <2>2, EffectsRemain
  <1> QED  BY <1>2, <1>3

LEMMA NextKeepsEvidence ==
  ASSUME Inv, Next
  PROVE  SettledByEvent'
  <1>1. ASSUME NEW p \in Payments, payment'[p] \in Settled
        PROVE  \E e \in Events : /\ Heard(e, p)'
                                 /\ Reported[e] = "failed" <=> payment'[p] = "failed"
    <2>1. CASE payment'[p] = payment[p]
      BY <1>1, <2>1, EffectsRemain DEF Inv, SettledByEvent, Heard, Settled
    <2>2. CASE payment'[p] # payment[p]
      <3>1. PICK d \in Deliveries : Settle(d) /\ p = Subject[target[d]]
        BY <1>1, <2>2
           DEF Next, Handle, SavePayment, Receive, Record, RecordConflict, Find, Settle,
               SettleInvoice, Mark, Abort, database, Settled, Inv, TypeOK
      <3>2. target[d] \in Events /\ event[target[d]] # "absent"
        BY <3>1 DEF Settle, Inv, DeliveryInv, DeliveryOK
      <3>3. payment'[p] = Outcome(target[d])
        BY <3>1 DEF Settle, Inv, TypeOK
      <3> QED  BY <3>1, <3>2, <3>3, EffectsRemain DEF Outcome, Heard
    <2> QED  BY <2>1, <2>2
  <1>2. ASSUME NEW p \in Payments, p \in paid'
        PROVE  \E e \in Events : Heard(e, p)' /\ Reported[e] # "failed"
    <2>1. CASE p \in paid
      BY <2>1, EffectsRemain DEF Inv, SettledByEvent, Heard
    <2>2. CASE p \notin paid
      <3>1. PICK d \in Deliveries : SettleInvoice(d) /\ p = Subject[target[d]]
        BY <1>2, <2>2
           DEF Next, Handle, SavePayment, Receive, Record, RecordConflict, Find, Settle,
               SettleInvoice, Mark, Abort, database
      <3>2. target[d] \in Events /\ event[target[d]] # "absent" /\ Outcome(target[d]) = "succeeded"
        BY <3>1 DEF SettleInvoice, Inv, DeliveryInv, DeliveryOK
      <3> QED  BY <3>1, <3>2, EffectsRemain DEF Outcome, Heard
    <2> QED  BY <2>1, <2>2
  <1>3. ASSUME NEW p \in Payments, payment'[p] \in {"failed", "succeeded"}
        PROVE  payment'[p] \in Settled
    BY <1>3 DEF Settled
  <1> QED  BY <1>1, <1>2, <1>3 DEF SettledByEvent

-----------------------------------------------------------------------------
\* However deliveries repeat, overlap and die, the invariant holds.
THEOREM WebhooksCorrect == Spec => []Inv
  <1>1. Init => Inv
    BY DEF Init, Inv, TypeOK, DeliveryInv, DeliveryOK, ProcessedTookEffect, SettledByEvent, Settled
  <1>2. Inv /\ [Next]_vars => Inv'
    <2>1. CASE Next
      BY <2>1, NextKeepsType, NextKeepsDeliveries, NextKeepsEffects, NextKeepsEvidence DEF Inv
    <2>2. CASE UNCHANGED vars
      BY <2>2 DEF Inv, TypeOK, DeliveryInv, DeliveryOK, ProcessedTookEffect, SettledByEvent,
                  TookEffect, Outcome, Heard, vars, database
    <2> QED  BY <2>1, <2>2
  <1> QED  BY <1>1, <1>2, PTL DEF Spec

\* A delivery that gets a 200 leaves its event processed.
THEOREM AcknowledgedEvents == Spec => []AcknowledgedIsProcessed
  <1>1. Inv => AcknowledgedIsProcessed
    BY DEF Inv, DeliveryInv, DeliveryOK, AcknowledgedIsProcessed
  <1> QED  BY <1>1, WebhooksCorrect, PTL

\* An event is processed only after it took effect, unless it found no payment.
THEOREM ProcessedEvents == Spec => []ProcessedTookEffect
  BY WebhooksCorrect, PTL DEF Inv

\* No payment fails without a recorded event that reports its failure, none
\* succeeds and no invoice is paid without one that reports something else.
THEOREM SettledPayments == Spec => []SettledByEvent
  BY WebhooksCorrect, PTL DEF Inv

\* Payments, invoices, events and deliveries keep their types.
THEOREM DeliveryTypes == Spec => []TypeOK
  BY WebhooksCorrect, PTL DEF Inv

\* Settle writes what an event on record reports, so that a payment which is
\* settled stays as it is as long as the events on record for it agree.
THEOREM SettledStays == Spec => SettledIsStable
  <1> DEFINE Stable == \A p \in Payments :
                          /\ payment[p] \in Settled
                          /\ \A e \in Events : Subject[e] = p /\ event'[e] # "absent"
                                                => Outcome(e) = payment[p]
                          => payment'[p] = payment[p]
  <1>1. ASSUME Inv, [Next]_vars
        PROVE  [Stable]_vars
    <2>1. CASE UNCHANGED vars
      BY <2>1
    <2>2. ASSUME Next, NEW p \in Payments, payment[p] \in Settled, payment'[p] # payment[p],
                 \A e \in Events : Subject[e] = p /\ event'[e] # "absent" => Outcome(e) = payment[p]
          PROVE  FALSE
      <3>1. PICK d \in Deliveries : Settle(d) /\ p = Subject[target[d]]
        BY <1>1, <2>2
           DEF Next, Handle, SavePayment, Receive, Record, RecordConflict, Find, Settle,
               SettleInvoice, Mark, Abort, database, Settled, Inv, TypeOK
      <3>2. target[d] \in Events /\ event[target[d]] # "absent"
        BY <1>1, <3>1 DEF Settle, Inv, DeliveryInv, DeliveryOK
      <3>3. payment'[p] = Outcome(target[d]) /\ event' = event
        BY <1>1, <3>1 DEF Settle, Inv, TypeOK
      <3> QED  BY <2>2, <3>1, <3>2, <3>3
    <2> QED  BY <1>1, <2>1, <2>2
  <1>2. Spec => [][Stable]_vars
    BY <1>1, WebhooksCorrect, PTL DEF Spec
  <1> QED  BY <1>2 DEF SettledIsStable

=============================================================================
