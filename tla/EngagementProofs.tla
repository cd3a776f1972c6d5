--------------------------- MODULE EngagementProofs ---------------------------
(***************************************************************************)
(* Proposals implements Engagement: every step of a request is a step of   *)
(* the abstract specification or leaves its state alone.                   *)
(***************************************************************************)
EXTENDS ProposalsProofs

LEMMA RaisedKinds == DOMAIN Raised = Promise!Kinds
  BY DEF Raised, Promise!Kinds

\* Who raised the charges of one kind for a proposal.
By(rows, p) == {x.by : x \in {row \in rows : row.proposal = p}}

LEMMA ChargedIs == Charged = [p \in Proposals |-> [kind \in Promise!Kinds |-> By(Raised[kind], p)]]
  BY RaisedKinds DEF Charged, By

\* A request with a signature finds its engagement.
LEMMA SignatureIsEngagement ==
  ASSUME Inv1, SigningInv, NEW s \in signatures
  PROVE  [package |-> s.sha.option, signer |-> s.signer] \in Engaged[s.proposal]
  <1>1. [proposal |-> s.proposal, sha |-> s.sha] \in signedDocs
    BY DEF SigningInv, AuditTrail
  <1>2. s.sha.signer = s.signer /\ s.proposal \in Proposals
    BY DEF SigningInv, SignatureInv, Existing
  <1> DEFINE d == [proposal |-> s.proposal, sha |-> s.sha]
  <1>3. d \in {row \in signedDocs : row.proposal = s.proposal}
    BY <1>1
  <1>4. d.sha = s.sha
    OBVIOUS
  <1> HIDE DEF d
  <1> QED  BY <1>2, <1>3, <1>4 DEF Engaged

\* Nothing is charged by others than the signer, so what is charged once stays.
LEMMA ChargedBySigner ==
  ASSUME Inv1, SigningInv, NEW s \in signatures, NEW x \in payRequests \cup payments \cup mandates \cup schedules,
         x.proposal = s.proposal
  PROVE  x.by = s.signer
  BY DEF SigningInv, ChargesInv, AuditTrail, AtMostOne

\* Steps that touch neither documents nor charges are invisible.
LEMMA InvisibleStep ==
  ASSUME UNCHANGED <<signedDocs, payRequests, payments, mandates, schedules>>
  PROVE  UNCHANGED Promise!vars
  BY DEF Promise!vars, Engaged, Charged, Raised

\* The transaction engages the proposal.
LEMMA CommitEngages ==
  ASSUME Inv1, SigningInv, NEW r \in SignReqs, SignCommit(r)
  PROVE  Promise!Engage(target[r], choice[r], r) /\ target[r] \in Proposals /\ choice[r] \in Packages
  <1> DEFINE p == target[r]
             document == [proposal |-> p, sha |-> Document(r)]
             engagement == [package |-> choice[r], signer |-> r]
  <1>1. p \in Proposals /\ choice[r] \in Packages
    <2>1. r \in Requests /\ pc[r] \in Choosing /\ pc[r] \in OnProposal
      BY DEF SignCommit, Step, Requests, OnProposal, Opened, Choosing, BeforeCommit
    <2> QED  BY <2>1 DEF Inv1, TypeOK, Row, LifeInv, TargetInv, Existing
  <1>2. /\ signedDocs' = signedDocs \cup {document}
        /\ \A d \in signedDocs : d.proposal # p
        /\ UNCHANGED <<payments, mandates, schedules, payRequests>>
    BY DEF SignCommit, Unsigned, outside
  <1>3. Engaged[p] = {}
    BY <1>1, <1>2 DEF Engaged
  <1>4. document.sha.option = choice[r] /\ document.sha.signer = r
    BY DEF Document
  <1>5. UNCHANGED Charged
    BY <1>2 DEF Charged, Raised
  <1>6. Engaged' = [Engaged EXCEPT ![p] = {engagement}]
    <2> DEFINE Of(docs, q) == {[package |-> d.sha.option, signer |-> d.sha.signer] :
                                 d \in {row \in docs : row.proposal = q}}
    <2>1. Engaged = [q \in Proposals |-> Of(signedDocs, q)]
      BY DEF Engaged
    <2>2. Engaged' = [q \in Proposals |-> Of(signedDocs', q)]
      BY DEF Engaged
    <2>3. Of(signedDocs', p) = {engagement}
      <3>1. {row \in signedDocs' : row.proposal = p} = {document}
        BY <1>2
      <3> HIDE DEF document
      <3> QED  BY <3>1, <1>4
    <2>4. \A q \in Proposals \ {p} : Of(signedDocs', q) = Of(signedDocs, q)
      <3>1. \A q \in Proposals \ {p} : {row \in signedDocs' : row.proposal = q} =
                                         {row \in signedDocs : row.proposal = q}
        BY <1>2
      <3> QED  BY <3>1
    <2> HIDE DEF Of, engagement
    <2> QED  BY <2>1, <2>2, <2>3, <2>4
  <1> QED  BY <1>1, <1>3, <1>5, <1>6 DEF Promise!Engage

\* A step that raises a charge is a charge of the engagement, or repeats one.
LEMMA ChargeIsCharged ==
  ASSUME Inv1, SigningInv, NEW r \in SignReqs, pc[r] \in Billing, UNCHANGED signedDocs,
         NEW kind \in Promise!Kinds, NEW x, x.proposal = target[r], x.by = r,
         Raised'[kind] = Raised[kind] \cup {x},
         \A k \in Promise!Kinds \ {kind} : Raised'[k] = Raised[k],
         kind \in Promise!Periodic => choice[r] \in Recurring,
         \A earlier \in Promise!Before(kind) : By(Raised[earlier], target[r]) = {r}
  PROVE  [Promise!Next]_Promise!vars
  <1> DEFINE p == target[r]
             signature == [proposal |-> p, signer |-> r, sha |-> Document(r)]
  <1>1. r \in Requests /\ pc[r] \in Choosing /\ pc[r] \in OnProposal
    BY DEF Requests, OnProposal, Opened, Choosing
  <1>2. p \in Proposals /\ choice[r] \in Packages
    BY <1>1 DEF Inv1, TypeOK, Row, LifeInv, TargetInv, Existing
  <1>3. signature \in signatures
    BY DEF SigningInv, BillingInv
  <1>4. [package |-> choice[r], signer |-> r] \in Engaged[p]
    <2>1. signature.proposal = p /\ signature.signer = r /\ signature.sha.option = choice[r]
      BY DEF Document
    <2> HIDE DEF signature
    <2> QED  BY <1>3, <2>1, SignatureIsEngagement
  <1>5. By(Raised[kind], p) \subseteq {r}
    <2>1. Raised[kind] \subseteq payRequests \cup payments \cup mandates \cup schedules
      BY DEF Raised, Promise!Kinds
    <2>2. \A y \in Raised[kind] : y.proposal = p => y.by = r
      BY <1>3, <2>1, ChargedBySigner
    <2> QED  BY <2>2 DEF By
  <1>6. By(Raised'[kind], p) = By(Raised[kind], p) \cup {r}
    BY DEF By
  <1>7. \A q \in Proposals \ {p} : By(Raised'[kind], q) = By(Raised[kind], q)
    BY DEF By
  <1>8. Charged' = [q \in Proposals |-> [k \in Promise!Kinds |-> By(Raised'[k], q)]]
    <2>1. DOMAIN Raised' = Promise!Kinds
      BY DEF Raised, Promise!Kinds
    <2> QED  BY <2>1 DEF Charged, By
  <1>9. UNCHANGED Engaged
    BY DEF Engaged
  <1>10. Charged[p][kind] = By(Raised[kind], p)
    BY <1>2, ChargedIs
  <1>11. CASE By(Raised[kind], p) = {}
    <2>1. Charged' = [Charged EXCEPT ![p] = [@ EXCEPT ![kind] = {r}]]
      <3>1. Charged[p] = [k \in Promise!Kinds |-> By(Raised[k], p)]
        BY <1>2, ChargedIs
      <3>2. By(Raised'[kind], p) = {r}
        BY <1>6, <1>11
      <3>3. [k \in Promise!Kinds |-> By(Raised'[k], p)] = [Charged[p] EXCEPT ![kind] = {r}]
        <4>1. \A k \in Promise!Kinds \ {kind} : By(Raised'[k], p) = By(Raised[k], p)
          OBVIOUS
        <4> QED  BY <3>1, <3>2, <4>1
      <3>4. \A q \in Proposals \ {p} : \A k \in Promise!Kinds :
               By(Raised'[k], q) = By(Raised[k], q)
        BY <1>7
      <3>5. \A q \in Proposals \ {p} :
               [k \in Promise!Kinds |-> By(Raised'[k], q)] = Charged[q]
        BY <3>4, ChargedIs
      <3>6. Charged = [q \in Proposals |-> Charged[q]]
        BY ChargedIs
      <3> QED  BY <1>2, <1>8, <3>3, <3>5, <3>6
    <2>2. \A earlier \in Promise!Before(kind) : Charged[p][earlier] = {r}
      <3>1. Promise!Before(kind) \subseteq Promise!Kinds
        BY DEF Promise!Before, Promise!Kinds
      <3> QED  BY <1>2, <3>1, ChargedIs
    <2>3. Promise!Charge(p, choice[r], r, kind)
      BY <1>4, <1>9, <1>10, <1>11, <2>1, <2>2 DEF Promise!Charge
    <2> QED  BY <1>2, <2>3 DEF Promise!Next
  <1>12. CASE By(Raised[kind], p) = {r}
    <2>1. Charged' = Charged
      <3>1. By(Raised'[kind], p) = By(Raised[kind], p)
        BY <1>6, <1>12
      <3>2. \A q \in Proposals : \A k \in Promise!Kinds :
               By(Raised'[k], q) = By(Raised[k], q)
        BY <1>7, <3>1
      <3> QED  BY <1>8, <3>2, ChargedIs
    <2> QED  BY <1>9, <2>1 DEF Promise!vars
  <1> QED  BY <1>5, <1>11, <1>12

\* What sign raises, kind by kind.
LEMMA BillingIsCharged ==
  ASSUME Inv1, SigningInv, NEW r \in SignReqs,
         \/ SignRequestPayment(r) \/ SignSavePayment(r)
         \/ SignSaveMandate(r) \/ SignSaveSchedule(r)
  PROVE  [Promise!Next]_Promise!vars
  <1> DEFINE charge == [proposal |-> target[r], by |-> r]
             recurrence == [proposal |-> target[r], by |-> r, option |-> choice[r]]
             signature == [proposal |-> target[r], signer |-> r, sha |-> Document(r)]
  <1>1. pc[r] \in Billing /\ UNCHANGED signedDocs
    BY DEF SignRequestPayment, SignSavePayment, SignSaveMandate, SignSaveSchedule, Step,
           Billing, database, outside
  <1>2. signature \in signatures
    BY <1>1 DEF SigningInv, BillingInv
  <1>3. pc[r] \in {"requestMandate", "saveMandate", "saveSchedule"} => choice[r] \in Recurring
    BY <1>1 DEF SigningInv, BillingInv
  <1>4. ASSUME NEW rows, NEW x \in rows, x.proposal = target[r], x.by = r,
               rows \subseteq payRequests \cup payments \cup mandates \cup schedules
        PROVE  By(rows, target[r]) = {r}
    <2>1. \A y \in rows : y.proposal = target[r] => y.by = r
      BY <1>2, <1>4, ChargedBySigner
    <2> QED  BY <1>4, <2>1 DEF By
  <1>5. charge.proposal = target[r] /\ charge.by = r
    OBVIOUS
  <1>6. recurrence.proposal = target[r] /\ recurrence.by = r
    OBVIOUS
  <1>7. CASE SignRequestPayment(r)
    <2>1. /\ Raised'["request"] = Raised["request"] \cup {charge}
          /\ \A k \in Promise!Kinds \ {"request"} : Raised'[k] = Raised[k]
      BY <1>7 DEF SignRequestPayment, Raised, Promise!Kinds, database
    <2>2. "request" \in Promise!Kinds /\ "request" \notin Promise!Periodic
          /\ Promise!Before("request") = {}
      BY DEF Promise!Kinds, Promise!Periodic, Promise!Before
    <2> HIDE DEF charge
    <2> QED  BY <1>1, <1>5, <2>1, <2>2, ChargeIsCharged
  <1>8. CASE SignSavePayment(r)
    <2>1. /\ Raised'["payment"] = Raised["payment"] \cup {charge}
          /\ \A k \in Promise!Kinds \ {"payment"} : Raised'[k] = Raised[k]
      BY <1>8 DEF SignSavePayment, Raised, Promise!Kinds, outside
    <2>2. "payment" \in Promise!Kinds /\ "payment" \notin Promise!Periodic
          /\ Promise!Before("payment") = {"request"}
      BY DEF Promise!Kinds, Promise!Periodic, Promise!Before
    <2>3. charge \in payRequests
      BY <1>8 DEF SignSavePayment, Step, SigningInv, BillingInv, Billing
    <2>4. By(Raised["request"], target[r]) = {r}
      BY <1>4, <2>3 DEF Raised
    <2> HIDE DEF charge
    <2> QED  BY <1>1, <1>5, <2>1, <2>2, <2>4, ChargeIsCharged
  <1>9. CASE SignSaveMandate(r)
    <2>1. /\ Raised'["mandate"] = Raised["mandate"] \cup {recurrence}
          /\ \A k \in Promise!Kinds \ {"mandate"} : Raised'[k] = Raised[k]
      BY <1>9 DEF SignSaveMandate, Raised, Promise!Kinds, outside
    <2>2. "mandate" \in Promise!Kinds /\ Promise!Before("mandate") = {}
      BY DEF Promise!Kinds, Promise!Before
    <2>3. choice[r] \in Recurring
      BY <1>3, <1>9 DEF SignSaveMandate, Step
    <2> HIDE DEF recurrence
    <2> QED  BY <1>1, <1>6, <2>1, <2>2, <2>3, ChargeIsCharged
  <1>10. CASE SignSaveSchedule(r)
    <2>1. /\ Raised'["schedule"] = Raised["schedule"] \cup {recurrence}
          /\ \A k \in Promise!Kinds \ {"schedule"} : Raised'[k] = Raised[k]
      BY <1>10 DEF SignSaveSchedule, Raised, Promise!Kinds, outside
    <2>2. "schedule" \in Promise!Kinds /\ Promise!Before("schedule") = {"mandate"}
      BY DEF Promise!Kinds, Promise!Before
    <2>3. choice[r] \in Recurring
      BY <1>3, <1>10 DEF SignSaveSchedule, Step
    <2>4. recurrence \in mandates
      BY <1>10 DEF SignSaveSchedule, Step, SigningInv, BillingInv, Billing
    <2>5. By(Raised["mandate"], target[r]) = {r}
      BY <1>4, <2>4 DEF Raised
    <2> HIDE DEF recurrence
    <2> QED  BY <1>1, <1>6, <2>1, <2>2, <2>3, <2>5, ChargeIsCharged
  <1> QED  BY <1>7, <1>8, <1>9, <1>10

LEMMA InitPromise == Init => Promise!Init
  <1> SUFFICES ASSUME Init  PROVE Promise!Init
    OBVIOUS
  <1>1. Engaged = [p \in Proposals |-> {}]
    BY DEF Init, Engaged
  <1>2. \A kind \in Promise!Kinds : Raised[kind] = {}
    BY DEF Init, Raised, Promise!Kinds
  <1>3. Charged = [p \in Proposals |-> [kind \in Promise!Kinds |-> {}]]
    BY <1>2, ChargedIs DEF By
  <1> QED  BY <1>1, <1>3 DEF Promise!Init

\* Whatever the requests do, a proposal is engaged once and charged as engaged.
THEOREM ProposalsKeepPromise == Spec => KeepsPromise
  <1>1. Inv1 /\ SigningInv /\ [Next]_vars => [Promise!Next]_Promise!vars
    <2> SUFFICES ASSUME Inv1, SigningInv, [Next]_vars  PROVE [Promise!Next]_Promise!vars
      OBVIOUS
    <2>1. ASSUME NEW r \in SignReqs, Sign(r)
          PROVE  [Promise!Next]_Promise!vars
      <3>1. CASE SignCommit(r)
        BY <3>1, CommitEngages DEF Promise!Next
      <3>2. CASE \/ SignRequestPayment(r) \/ SignSavePayment(r)
                 \/ SignSaveMandate(r) \/ SignSaveSchedule(r)
        BY <3>2, BillingIsCharged
      <3>3. CASE \/ SignStore(r) \/ SignConflict(r) \/ SignRequestMandate(r)
                 \/ SignMailSigner(r) \/ SignMailFirm(r)
        BY <3>3, InvisibleStep
           DEF SignStore, SignConflict, SignRequestMandate, SignMailSigner, SignMailFirm,
               database, outside
      <3> QED  BY <2>1, <3>1, <3>2, <3>3 DEF Sign
    <2>2. CASE Arrive
      BY <2>2, InvisibleStep
         DEF Arrive, ComposeCount, SendRead, ViewOpen, SelectOpen, TermsOpen, SignOpen,
             database, outside
    <2>3. CASE \E p \in Proposals : Compose(p) \/ Expire(p)
      BY <2>3, InvisibleStep DEF Compose, ComposeInsert, Expire, outside
    <2>4. CASE \/ \E r \in SendReqs   : Send(r)
               \/ \E r \in ViewReqs   : View(r)
               \/ \E r \in SelectReqs : Select(r)
               \/ \E r \in TermsReqs  : Terms(r)
      BY <2>4, InvisibleStep
         DEF Send, SendIssue, SendLog, SendMail, View, ViewRecord, ViewLog,
             Select, SelectRecord, SelectLog, Terms, TermsLog, database, outside
    <2>5. CASE (\E r \in Fallible : Abort(r)) \/ UNCHANGED vars
      BY <2>5, InvisibleStep DEF Abort, vars, database, outside
    <2> QED  BY <2>1, <2>2, <2>3, <2>4, <2>5 DEF Next
  <1> QED  BY InitPromise, <1>1, SigningCorrect, PTL DEF Spec, KeepsPromise, Promise!Spec

=============================================================================
