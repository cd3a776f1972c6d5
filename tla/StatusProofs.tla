---------------------------- MODULE StatusProofs ----------------------------
(***************************************************************************)
(* More proofs about Proposals: a status always has its evidence, although *)
(* viewPublic writes back a status it read before other requests ran; the  *)
(* link in force was mailed; numbers follow the count; and the view        *)
(* counter agrees with the log.                                            *)
(***************************************************************************)
EXTENDS ProposalsProofs

StatusInv == RememberedInv /\ StatusHasEvidence

\* What a row must show for its status, given which proposals are signed.
Shown(row, signed) ==
    /\ row.status = "signed" => signed
    /\ row.status = "draft" <=> row.token = NoToken
    /\ row.status = "viewed" => row.firstViewed
    /\ row.status = "package_selected" => row.selected # NoOption
    /\ row.selected # NoOption => row.selected \in row.options

Signed(p) == \E s \in signatures : s.proposal = p

LEMMA EvidenceIs ==
  StatusHasEvidence <=> \A p \in Existing : Shown(proposal[p], Signed(p))
  BY DEF StatusHasEvidence, Shown, Signed

\* Steps that write no row and forget no signature.
LEMMA StatusFrame ==
  ASSUME Inv1, StatusInv, UNCHANGED proposal, signatures \subseteq signatures',
         \A q \in ViewReqs : pc'[q] = "recordView" =>
            pc[q] = "recordView" /\ target'[q] = target[q] /\ seen'[q] = seen[q]
  PROVE  StatusInv'
  <1>1. RememberedInv'
    BY DEF StatusInv, RememberedInv
  <1>2. StatusHasEvidence'
    BY DEF StatusInv, StatusHasEvidence, Existing
  <1> QED  BY <1>1, <1>2 DEF StatusInv

\* Steps that write one row that shows its evidence and keeps a selection.
LEMMA StatusUpdate ==
  ASSUME Inv1, StatusInv, NEW p \in Proposals, NEW row, Write(p, row),
         signatures \subseteq signatures', Shown(row, Signed(p)'),
         p \in Existing /\ proposal[p].selected # NoOption => row.selected # NoOption,
         \A q \in ViewReqs : pc'[q] = "recordView" =>
            pc[q] = "recordView" /\ target'[q] = target[q] /\ seen'[q] = seen[q]
  PROVE  StatusInv'
  <1>1. /\ proposal'[p] = row
        /\ \A q \in Proposals \ {p} : proposal'[q] = proposal[q]
    BY DEF Write, Inv1, TypeOK
  <1>2. RememberedInv'
    <2>1. \A q \in ViewReqs : pc[q] = "recordView" => target[q] \in Existing
      BY DEF Inv1, LifeInv, TargetInv, Existing, OnProposal, Opened, Requests
    <2> QED  BY <1>1, <2>1 DEF StatusInv, RememberedInv, Existing
  <1>3. StatusHasEvidence'
    BY <1>1 DEF StatusInv, StatusHasEvidence, Existing, Shown, Signed
  <1> QED  BY <1>2, <1>3 DEF StatusInv

\* Requests other than views do not move to recordView, nor disturb one there.
LEMMA NoNewView ==
  ASSUME Inv1, NEW r \in Requests, NEW to \in Steps \ {"recordView"},
         pc' = [pc EXCEPT ![r] = to],
         \A q \in Requests \ {r} : target'[q] = target[q] /\ seen'[q] = seen[q]
  PROVE  \A q \in ViewReqs : pc'[q] = "recordView" =>
            pc[q] = "recordView" /\ target'[q] = target[q] /\ seen'[q] = seen[q]
  BY DEF Inv1, TypeOK, Requests

\* The same for the three ways in which a request moves.
LEMMA NoViewOnStep ==
  ASSUME Inv1, NEW r \in Requests, NEW from, NEW to \in Steps \ {"recordView"}, Step(r, from, to)
  PROVE  \A q \in ViewReqs : pc'[q] = "recordView" =>
            pc[q] = "recordView" /\ target'[q] = target[q] /\ seen'[q] = seen[q]
  BY NoNewView DEF Step, Goto

LEMMA NoViewOnEnd ==
  ASSUME Inv1, NEW r \in Requests, NEW outcome \in {"done", "failed"}, End(r, outcome)
  PROVE  \A q \in ViewReqs : pc'[q] = "recordView" =>
            pc[q] = "recordView" /\ target'[q] = target[q] /\ seen'[q] = seen[q]
  <1>1. \A q \in Requests \ {r} : target'[q] = target[q] /\ seen'[q] = seen[q]
    BY DEF End, Inv1, TypeOK
  <1>2. outcome \in Steps \ {"recordView"}
    BY DEF Steps
  <1> QED  BY <1>1, <1>2, NoNewView DEF End

LEMMA NoViewOnOpen ==
  ASSUME Inv1, NEW r \in Requests, NEW p, NEW next \in Steps \ {"recordView"}, Open(r, p, next)
  PROVE  \A q \in ViewReqs : pc'[q] = "recordView" =>
            pc[q] = "recordView" /\ target'[q] = target[q] /\ seen'[q] = seen[q]
  <1>1. \A q \in Requests \ {r} : target'[q] = target[q] /\ seen'[q] = seen[q]
    BY DEF Open, Inv1, TypeOK
  <1> QED  BY <1>1, NoNewView DEF Open, Goto

-----------------------------------------------------------------------------
LEMMA ComposeKeepsStatus ==
  ASSUME Inv1, StatusInv, NEW p \in Proposals,
         ComposeCount(p) \/ ComposeInsert(p) \/ Expire(p)
  PROVE  StatusInv'
  <1> p \in Requests  BY DEF Requests
  <1>1. CASE ComposeCount(p)
    <2>1. \A q \in Requests \ {p} : target'[q] = target[q] /\ seen'[q] = seen[q]
      BY <1>1 DEF ComposeCount, Inv1, TypeOK
    <2>2. pc' = [pc EXCEPT ![p] = "insert"] /\ UNCHANGED database
      BY <1>1 DEF ComposeCount, Goto
    <2> QED  BY <2>1, <2>2, NoNewView, StatusFrame DEF database, Steps
  <1>2. CASE ComposeInsert(p)
    <2>1. /\ seen[p].status = "draft" /\ seen[p].token = NoToken /\ seen[p].selected = NoOption
          /\ p \notin Existing
      BY <1>2 DEF ComposeInsert, Inv1, LifeInv, ComposeInv, Existing
    <2>2. Shown(seen[p], Signed(p)')
      BY <2>1 DEF Shown
    <2>3. Write(p, seen[p]) /\ End(p, "done") /\ signatures \subseteq signatures'
      BY <1>2 DEF ComposeInsert
    <2>4. \A q \in ViewReqs : pc'[q] = "recordView" =>
             pc[q] = "recordView" /\ target'[q] = target[q] /\ seen'[q] = seen[q]
      BY <2>3, NoViewOnEnd
    <2> QED  BY <2>1, <2>2, <2>3, <2>4, StatusUpdate
  <1>3. CASE Expire(p)
    <2>1. p \in Existing /\ proposal[p] \in Row
      BY <1>3 DEF Expire, Inv1, TypeOK, LifeInv, ComposeInv, Existing
    <2>2. Shown(proposal[p], Signed(p))
      BY <2>1, EvidenceIs DEF StatusInv
    <2>3. Write(p, Expired(proposal[p])) /\ UNCHANGED <<signatures, pc, target, seen>>
      BY <1>3 DEF Expire
    <2> DEFINE row == Expired(proposal[p])
    <2>4. Shown(Expired(proposal[p]), Signed(p)')
      BY <2>1, <2>2, <2>3, ExpiredRow DEF Shown, Signed
    <2>5. row.selected = proposal[p].selected
      BY <2>1, ExpiredRow
    <2> HIDE DEF row
    <2>6. signatures \subseteq signatures' /\ Shown(row, Signed(p)') /\ Write(p, row)
      BY <2>3, <2>4 DEF row
    <2>7. proposal[p].selected # NoOption => row.selected # NoOption
      BY <2>5
    <2> QED  BY <2>3, <2>6, <2>7, StatusUpdate
  <1> QED  BY <1>1, <1>2, <1>3

LEMMA SendKeepsStatus ==
  ASSUME Inv1, StatusInv, NEW r \in SendReqs,
         (\E p \in Proposals : SendRead(r, p)) \/ Send(r)
  PROVE  StatusInv'
  <1> r \in Requests  BY DEF Requests
  <1>1. CASE \E p \in Proposals : SendRead(r, p)
    <2>1. \A q \in Requests \ {r} : target'[q] = target[q] /\ seen'[q] = seen[q]
      BY <1>1 DEF SendRead, Inv1, TypeOK
    <2>2. pc' = [pc EXCEPT ![r] = "issue"] /\ UNCHANGED database
      BY <1>1 DEF SendRead, Goto
    <2> QED  BY <2>1, <2>2, NoNewView, StatusFrame DEF database, Steps
  <1>2. CASE SendIssue(r)
    <2>1. target[r] \in Existing /\ target[r] \in Proposals
      BY <1>2 DEF SendIssue, Step, Inv1, LifeInv, TargetInv, Existing, OnProposal
    <2> DEFINE row == proposal[target[r]]
    <2>2. row \in Row /\ Shown(row, Signed(target[r]))
      BY <2>1, EvidenceIs DEF Inv1, TypeOK, StatusInv
    <2>3. /\ Write(target[r], Sent(row, r)) /\ Step(r, "issue", "logSent")
          /\ signatures \subseteq signatures'
      BY <1>2 DEF SendIssue
    <2> HIDE DEF row
    <2>4. PICK p \in Proposals : p = target[r]
      BY <2>1
    <2>5. PICK new : new = Sent(row, r)
      OBVIOUS
    <2>6. Shown(new, Signed(p)')
      BY <2>2, <2>3, <2>4, <2>5, SentRow, NoTokenAssumption DEF Shown, Signed
    <2>7. Write(p, new) /\ (proposal[p].selected # NoOption => new.selected # NoOption)
      BY <2>2, <2>3, <2>4, <2>5, SentRow DEF row
    <2>8. \A q \in ViewReqs : pc'[q] = "recordView" =>
             pc[q] = "recordView" /\ target'[q] = target[q] /\ seen'[q] = seen[q]
      <3>1. "logSent" \in Steps \ {"recordView"}
        BY DEF Steps
      <3> QED  BY <2>3, <3>1, NoViewOnStep
    <2> QED  BY <2>3, <2>6, <2>7, <2>8, StatusUpdate
  <1>3. CASE SendLog(r)
    BY <1>3, NoViewOnStep, StatusFrame DEF SendLog, Steps
  <1>4. CASE SendMail(r)
    BY <1>4, NoViewOnEnd, StatusFrame DEF SendMail, database
  <1> QED  BY <1>1, <1>2, <1>3, <1>4 DEF Send

LEMMA ViewKeepsStatus ==
  ASSUME Inv1, StatusInv, NEW r \in ViewReqs,
         (\E p \in Proposals : ViewOpen(r, p)) \/ View(r)
  PROVE  StatusInv'
  <1> r \in Requests  BY DEF Requests
  <1>1. CASE \E p \in Proposals : ViewOpen(r, p)
    <2>1. PICK p \in Proposals : ViewOpen(r, p)
      BY <1>1
    <2>2. /\ UNCHANGED database
          /\ target' = [target EXCEPT ![r] = p] /\ seen' = [seen EXCEPT ![r] = proposal[p]]
          /\ pc' = [pc EXCEPT ![r] = "recordView"]
      BY <2>1 DEF ViewOpen, Open, Goto
    <2>3. p \in Existing
      BY <2>1, NoTokenAssumption
         DEF ViewOpen, Open, ByToken, Inv1, TypeOK, LifeInv, ComposeInv, Existing
    <2>4. Shown(proposal[p], Signed(p))
      BY <2>3, EvidenceIs DEF StatusInv
    <2>5. RememberedInv'
      BY <2>2, <2>4 DEF StatusInv, RememberedInv, Shown, Signed, database, Inv1, TypeOK
    <2>6. StatusHasEvidence'
      BY <2>2 DEF StatusInv, StatusHasEvidence, Existing, database
    <2> QED  BY <2>5, <2>6 DEF StatusInv
  <1>2. CASE ViewRecord(r)
    <2> DEFINE row == proposal[target[r]]
               status == StatusOnceViewed(seen[r].status)
    <2>1. pc[r] = "recordView"
      BY <1>2 DEF ViewRecord, Step
    <2>2. target[r] \in Existing /\ target[r] \in Proposals /\ row.token # NoToken
      BY <2>1 DEF Inv1, LifeInv, TargetInv, Existing, OnProposal, Opened
    <2>3. row \in Row /\ seen[r].status \in Statuses /\ seen[r].status # "draft"
      BY <2>1, <2>2 DEF Inv1, TypeOK, Row, LifeInv, TargetInv
    <2>4. Shown(row, Signed(target[r]))
      BY <2>2, EvidenceIs DEF StatusInv
    <2>5. /\ status \in Statuses /\ status # "draft"
          /\ status = "signed" => Signed(target[r])
          /\ status = "package_selected" => row.selected # NoOption
      BY <2>1, <2>3 DEF StatusInv, RememberedInv, StatusOnceViewed, Statuses, Signed
    <2>6. /\ Write(target[r], Viewed(row, status)) /\ Step(r, "recordView", "logView")
          /\ UNCHANGED signatures
      BY <1>2 DEF ViewRecord
    <2> HIDE DEF status, row
    <2>7. Shown(Viewed(row, status), Signed(target[r]))
      BY <2>2, <2>3, <2>4, <2>5, ViewedRow DEF Shown
    <2>8. PICK p \in Proposals : p = target[r]
      BY <2>2
    <2>9. PICK new : new = Viewed(row, status)
      OBVIOUS
    <2>10. Shown(new, Signed(p)')
      BY <2>6, <2>7, <2>8, <2>9 DEF Shown, Signed
    <2>11. Write(p, new) /\ (proposal[p].selected # NoOption => new.selected # NoOption)
      BY <2>3, <2>5, <2>6, <2>8, <2>9, ViewedRow DEF row
    <2>12. \A q \in ViewReqs : pc'[q] = "recordView" =>
              pc[q] = "recordView" /\ target'[q] = target[q] /\ seen'[q] = seen[q]
      <3>1. "logView" \in Steps \ {"recordView"}
        BY DEF Steps
      <3> QED  BY <2>6, <3>1, NoViewOnStep
    <2>13. signatures \subseteq signatures'
      BY <2>6
    <2> QED  BY <2>10, <2>11, <2>12, <2>13, StatusUpdate
  <1>3. CASE ViewLog(r)
    BY <1>3, NoViewOnEnd, StatusFrame DEF ViewLog
  <1> QED  BY <1>1, <1>2, <1>3 DEF View

\* The two writers of a selection: the row gets an option it offers.
LEMMA ChoiceIsShown ==
  ASSUME Inv1, NEW r \in Requests, pc[r] \in Choosing, NEW status \in Statuses \ {"draft", "viewed"},
         NEW signed, status = "signed" => signed
  PROVE  /\ target[r] \in Proposals
         /\ Shown(WithChoice(proposal[target[r]], choice[r], status), signed)
         /\ WithChoice(proposal[target[r]], choice[r], status).selected # NoOption
  <1>1. /\ target[r] \in Proposals /\ proposal[target[r]] \in Row
        /\ proposal[target[r]].token # NoToken
        /\ choice[r] \in proposal[target[r]].options
    BY DEF Inv1, TypeOK, LifeInv, TargetInv, Existing, OnProposal, Opened
  <1>2. choice[r] \in Packages /\ choice[r] # NoOption
    BY <1>1, NoOptionAssumption DEF Row
  <1> DEFINE row == proposal[target[r]]
             o == choice[r]
  <1> HIDE DEF row, o
  <1>3. row \in Row /\ o \in Packages /\ status \in Statuses
    BY <1>1, <1>2 DEF row, o
  <1>4. /\ row.token # NoToken /\ o \in row.options /\ o # NoOption
    BY <1>1, <1>2 DEF row, o
  <1>5. Shown(WithChoice(row, o, status), signed) /\ WithChoice(row, o, status).selected # NoOption
    BY <1>3, <1>4, RowWithChoice DEF Shown
  <1> QED  BY <1>1, <1>5 DEF row, o

LEMMA SelectKeepsStatus ==
  ASSUME Inv1, StatusInv, NEW r \in SelectReqs,
         (\E p \in Proposals : SelectOpen(r, p)) \/ Select(r)
  PROVE  StatusInv'
  <1> r \in Requests  BY DEF Requests
  <1>1. CASE \E p \in Proposals : SelectOpen(r, p)
    <2>1. "recordChoice" \in Steps \ {"recordView"}
      BY DEF Steps
    <2>2. UNCHANGED database
      BY <1>1 DEF SelectOpen
    <2> QED  BY <1>1, <2>1, <2>2, NoViewOnOpen, StatusFrame DEF SelectOpen, database
  <1>2. CASE SelectRecord(r)
    <2>1. /\ Step(r, "recordChoice", "logChoice") /\ signatures \subseteq signatures'
          /\ Write(target[r], WithChoice(proposal[target[r]], choice[r], "package_selected"))
      BY <1>2 DEF SelectRecord
    <2>2. pc[r] \in Choosing
      BY <2>1 DEF Step, Choosing
    <2>3. "package_selected" \in Statuses \ {"draft", "viewed"}
      BY DEF Statuses
    <2>4. /\ target[r] \in Proposals
          /\ \A signed : Shown(WithChoice(proposal[target[r]], choice[r], "package_selected"), signed)
          /\ WithChoice(proposal[target[r]], choice[r], "package_selected").selected # NoOption
      BY <2>2, <2>3, ChoiceIsShown
    <2>5. PICK p \in Proposals : p = target[r]
      BY <2>4
    <2>6. PICK new : new = WithChoice(proposal[target[r]], choice[r], "package_selected")
      OBVIOUS
    <2>7. Write(p, new) /\ Shown(new, Signed(p)') /\ new.selected # NoOption
      BY <2>1, <2>4, <2>5, <2>6
    <2>8. \A q \in ViewReqs : pc'[q] = "recordView" =>
             pc[q] = "recordView" /\ target'[q] = target[q] /\ seen'[q] = seen[q]
      <3>1. "logChoice" \in Steps \ {"recordView"}
        BY DEF Steps
      <3> QED  BY <2>1, <3>1, NoViewOnStep
    <2> QED  BY <2>1, <2>7, <2>8, StatusUpdate
  <1>3. CASE SelectLog(r)
    BY <1>3, NoViewOnEnd, StatusFrame DEF SelectLog
  <1> QED  BY <1>1, <1>2, <1>3 DEF Select

LEMMA TermsKeepsStatus ==
  ASSUME Inv1, StatusInv, NEW r \in TermsReqs,
         (\E p \in Proposals : TermsOpen(r, p)) \/ Terms(r)
  PROVE  StatusInv'
  <1> r \in Requests  BY DEF Requests
  <1>1. CASE \E p \in Proposals : TermsOpen(r, p)
    <2>1. "logTerms" \in Steps \ {"recordView"}
      BY DEF Steps
    <2>2. UNCHANGED database
      BY <1>1 DEF TermsOpen
    <2> QED  BY <1>1, <2>1, <2>2, NoViewOnOpen, StatusFrame DEF TermsOpen, database
  <1>2. CASE Terms(r)
    BY <1>2, NoViewOnEnd, StatusFrame DEF Terms, TermsLog
  <1> QED  BY <1>1, <1>2

LEMMA SignKeepsStatus ==
  ASSUME Inv1, StatusInv, NEW r \in SignReqs,
         (\E p \in Proposals : SignOpen(r, p)) \/ Sign(r)
  PROVE  StatusInv'
  <1> r \in Requests  BY DEF Requests
  <1>1. {"store", "commit", "requestPayment", "savePayment", "requestMandate", "saveMandate",
         "saveSchedule", "mailSigner", "mailFirm"} \subseteq Steps \ {"recordView"}
    BY DEF Steps
  <1>2. AfterPayment(r) \in Steps \ {"recordView"} /\ AfterCommit(r) \in Steps \ {"recordView"}
    BY <1>1 DEF AfterPayment, AfterCommit
  <1>3. CASE \E p \in Proposals : SignOpen(r, p)
    <2>1. UNCHANGED database
      BY <1>3 DEF SignOpen
    <2> QED  BY <1>1, <1>3, <2>1, NoViewOnOpen, StatusFrame DEF SignOpen, database
  <1>4. CASE SignCommit(r)
    <2>1. /\ Step(r, "commit", AfterCommit(r)) /\ signatures \subseteq signatures'
          /\ Write(target[r], WithChoice(proposal[target[r]], choice[r], "signed"))
          /\ signatures' = signatures \cup
                {[proposal |-> target[r], signer |-> r, sha |-> Document(r)]}
      BY <1>4 DEF SignCommit
    <2>2. pc[r] \in Choosing
      BY <2>1 DEF Step, Choosing, BeforeCommit
    <2>3. "signed" \in Statuses \ {"draft", "viewed"}
      BY DEF Statuses
    <2>4. /\ target[r] \in Proposals
          /\ Shown(WithChoice(proposal[target[r]], choice[r], "signed"), TRUE)
          /\ WithChoice(proposal[target[r]], choice[r], "signed").selected # NoOption
      BY <2>2, <2>3, ChoiceIsShown
    <2>5. PICK p \in Proposals : p = target[r]
      BY <2>4
    <2>6. PICK new : new = WithChoice(proposal[target[r]], choice[r], "signed")
      OBVIOUS
    <2>7. Signed(p)'
      <3>1. [proposal |-> target[r], signer |-> r, sha |-> Document(r)] \in signatures'
        BY <2>1
      <3> QED  BY <2>5, <3>1 DEF Signed
    <2>8. Write(p, new) /\ Shown(new, Signed(p)') /\ new.selected # NoOption
      BY <2>1, <2>4, <2>5, <2>6, <2>7 DEF Shown
    <2>9. \A q \in ViewReqs : pc'[q] = "recordView" =>
             pc[q] = "recordView" /\ target'[q] = target[q] /\ seen'[q] = seen[q]
      BY <1>2, <2>1, NoViewOnStep
    <2> QED  BY <2>1, <2>8, <2>9, StatusUpdate
  <1>5. CASE SignStore(r) \/ SignRequestMandate(r) \/ SignRequestPayment(r)
    BY <1>1, <1>5, NoViewOnStep, StatusFrame
       DEF SignStore, SignRequestMandate, SignRequestPayment, database
  <1>6. CASE SignSavePayment(r) \/ SignSaveMandate(r) \/ SignSaveSchedule(r)
    BY <1>1, <1>2, <1>6, NoViewOnStep, StatusFrame
       DEF SignSavePayment, SignSaveMandate, SignSaveSchedule
  <1>7. CASE SignConflict(r)
    BY <1>7, NoViewOnEnd, StatusFrame DEF SignConflict, database
  <1>8. CASE SignMailSigner(r)
    <2>1. UNCHANGED database
      BY <1>8 DEF SignMailSigner
    <2>2. CASE FirmHasEmail
      <3>1. pc' = [pc EXCEPT ![r] = "mailFirm"] /\ UNCHANGED <<target, seen>>
        BY <1>8, <2>2 DEF SignMailSigner, Goto
      <3> QED  BY <1>1, <2>1, <3>1, NoNewView, StatusFrame DEF database
    <2>3. CASE ~FirmHasEmail
      BY <1>8, <2>1, <2>3, NoViewOnEnd, StatusFrame DEF SignMailSigner, database
    <2> QED  BY <2>2, <2>3
  <1>9. CASE SignMailFirm(r)
    BY <1>9, NoViewOnEnd, StatusFrame DEF SignMailFirm, database
  <1> QED  BY <1>3, <1>4, <1>5, <1>6, <1>7, <1>8, <1>9 DEF Sign

LEMMA AbortKeepsStatus ==
  ASSUME Inv1, StatusInv, NEW r \in Requests, Abort(r)
  PROVE  StatusInv'
  BY NoViewOnEnd, StatusFrame DEF Abort, database

LEMMA StutterKeepsStatus ==
  ASSUME StatusInv, UNCHANGED vars
  PROVE  StatusInv'
  BY DEF StatusInv, RememberedInv, StatusHasEvidence, Existing, vars, database, outside

LEMMA InitStatus == Init => StatusInv
  BY DEF Init, StatusInv, RememberedInv, StatusHasEvidence, Existing, NoRow, Requests

\* A status always has its evidence, although viewPublic writes back a status
\* it read before other requests ran.
THEOREM StatusIsEvidenced == Spec => []StatusHasEvidence
  <1>1. Inv1 /\ StatusInv /\ [Next]_vars => StatusInv'
    <2> SUFFICES ASSUME Inv1, StatusInv, Next  PROVE StatusInv'
      BY StutterKeepsStatus
    <2> Fallible \subseteq Requests  BY FallibleAssumption
    <2> QED
      BY ComposeKeepsStatus, SendKeepsStatus, ViewKeepsStatus, SelectKeepsStatus,
         TermsKeepsStatus, SignKeepsStatus, AbortKeepsStatus
         DEF Next, Arrive, Compose
  <1>2. StatusInv => StatusHasEvidence
    BY DEF StatusInv
  <1> QED  BY InitStatus, <1>1, <1>2, TypeCorrect, PTL DEF Spec

-----------------------------------------------------------------------------
(* What one step does: whose it is, what it writes to a row, what it logs.   *)

\* The steps of request r, whichever kind of request it is.
Act(r) ==
    \/ r \in Proposals  /\ (ComposeCount(r) \/ ComposeInsert(r) \/ Expire(r))
    \/ r \in SendReqs   /\ ((\E p \in Proposals : SendRead(r, p)) \/ Send(r))
    \/ r \in ViewReqs   /\ ((\E p \in Proposals : ViewOpen(r, p)) \/ View(r))
    \/ r \in SelectReqs /\ ((\E p \in Proposals : SelectOpen(r, p)) \/ Select(r))
    \/ r \in TermsReqs  /\ ((\E p \in Proposals : TermsOpen(r, p)) \/ Terms(r))
    \/ r \in SignReqs   /\ ((\E p \in Proposals : SignOpen(r, p)) \/ Sign(r))
    \/ Abort(r)

LEMMA StepsAreActs == Next => \E r \in Requests : Act(r)
  BY FallibleAssumption DEF Next, Arrive, Compose, Act, Requests

\* Only the request that takes the step moves.
LEMMA OthersStay ==
  ASSUME Inv1, NEW r \in Requests, Act(r)
  PROVE  \A q \in Requests \ {r} : pc'[q] = pc[q] /\ target'[q] = target[q] /\ seen'[q] = seen[q]
  <1> USE DEF Inv1, TypeOK, Goto, Step, End, Open
  <1>1. CASE r \in Proposals /\ (ComposeCount(r) \/ ComposeInsert(r) \/ Expire(r))
    BY <1>1 DEF ComposeCount, ComposeInsert, Expire
  <1>2. CASE r \in SendReqs /\ ((\E p \in Proposals : SendRead(r, p)) \/ Send(r))
    BY <1>2 DEF SendRead, Send, SendIssue, SendLog, SendMail
  <1>3. CASE r \in ViewReqs /\ ((\E p \in Proposals : ViewOpen(r, p)) \/ View(r))
    BY <1>3 DEF View, ViewOpen, ViewRecord, ViewLog
  <1>4. CASE r \in SelectReqs /\ ((\E p \in Proposals : SelectOpen(r, p)) \/ Select(r))
    BY <1>4 DEF SelectOpen, Select, SelectRecord, SelectLog
  <1>5. CASE r \in TermsReqs /\ ((\E p \in Proposals : TermsOpen(r, p)) \/ Terms(r))
    BY <1>5 DEF TermsOpen, Terms, TermsLog
  <1>6. CASE r \in SignReqs /\ ((\E p \in Proposals : SignOpen(r, p)) \/ Sign(r))
    BY <1>6 DEF SignOpen, Sign, SignStore, SignCommit, SignConflict, SignRequestPayment,
           SignSavePayment, SignRequestMandate, SignSaveMandate, SignSaveSchedule,
           SignMailSigner, SignMailFirm
  <1>7. CASE Abort(r)
    BY <1>7 DEF Abort
  <1> QED  BY <1>1, <1>2, <1>3, <1>4, <1>5, <1>6, <1>7 DEF Act

\* No update of a row touches its number, and only a view touches its views.
LEMMA RowCounts ==
  ASSUME NEW row \in Row
  PROVE  /\ Expired(row).number = row.number /\ Expired(row).viewCount = row.viewCount
         /\ \A t : /\ Sent(row, t).number = row.number /\ Sent(row, t).viewCount = row.viewCount
                   /\ Sent(row, t).firstViewed = row.firstViewed
         /\ \A o, status :
               /\ WithChoice(row, o, status).number = row.number
               /\ WithChoice(row, o, status).viewCount = row.viewCount
               /\ WithChoice(row, o, status).firstViewed = row.firstViewed
         /\ \A status : /\ Viewed(row, status).number = row.number
                        /\ Viewed(row, status).viewCount = row.viewCount + 1
  BY DEF Row, Expired, Sent, WithChoice, Viewed

\* What a step of r may write to row p: compose inserts it, or it exists and
\* keeps its number; a send replaces its token, a view counts itself.
RowKept(p) ==
    /\ proposal'[p].number = proposal[p].number
    /\ p \in Existing => proposal'[p].status # "absent"
    /\ p \notin Existing => proposal'[p] = proposal[p]

SameViews(p) ==
    /\ proposal'[p].viewCount = proposal[p].viewCount
    /\ proposal'[p].firstViewed = proposal[p].firstViewed

Inserts(r, p) == r = p /\ ComposeInsert(p) /\ proposal'[p] = seen[p]

Issues(r, p) ==
    /\ r \in SendReqs /\ SendIssue(r) /\ target[r] = p
    /\ proposal'[p].token = r

Records(r, p) ==
    /\ r \in ViewReqs /\ ViewRecord(r) /\ target[r] = p
    /\ proposal'[p].firstViewed = TRUE
    /\ proposal'[p].viewCount = proposal[p].viewCount + 1
    /\ proposal'[p].token = proposal[p].token

LEMMA RowStep ==
  ASSUME Inv1, NEW r \in Requests, Act(r), NEW p \in Proposals
  PROVE  \/ Inserts(r, p)
         \/ /\ RowKept(p)
            /\ Issues(r, p) \/ proposal'[p].token = proposal[p].token
            /\ Records(r, p) \/ SameViews(p)
  <1> DEFINE Keeps == /\ RowKept(p)
                      /\ Issues(r, p) \/ proposal'[p].token = proposal[p].token
                      /\ Records(r, p) \/ SameViews(p)
  <1>1. ASSUME proposal'[p] = proposal[p]
        PROVE  Keeps
    BY <1>1 DEF RowKept, SameViews, Existing
  <1>2. ASSUME NEW q \in Proposals, NEW row, Write(q, row), q # p
        PROVE  Keeps
    BY <1>1, <1>2 DEF Write, Inv1, TypeOK
  <1>3. ASSUME NEW row, Write(p, row)
        PROVE  proposal'[p] = row
    BY <1>3 DEF Write, Inv1, TypeOK
  <1>4. ASSUME pc[r] \in OnProposal
        PROVE  /\ target[r] \in Proposals /\ target[r] \in Existing
               /\ proposal[target[r]] \in Row
    BY <1>4 DEF Inv1, TypeOK, LifeInv, TargetInv, Existing
  <1>5. proposal[p] \in Row
    BY DEF Inv1, TypeOK
  <1> HIDE DEF Keeps
  <1>6. CASE r \in Proposals /\ (ComposeCount(r) \/ ComposeInsert(r) \/ Expire(r))
    <2>1. CASE ComposeCount(r)
      BY <1>1, <2>1 DEF ComposeCount, database, Keeps
    <2>2. CASE ComposeInsert(r)
      <3>1. Write(r, seen[r])
        BY <2>2 DEF ComposeInsert
      <3>2. r # p => Keeps
        BY <1>2, <1>6, <3>1
      <3>3. r = p => Inserts(r, p)
        BY <1>3, <2>2, <3>1 DEF Inserts
      <3> QED  BY <3>2, <3>3 DEF Keeps
    <2>3. CASE Expire(r)
      <3>1. Write(r, Expired(proposal[r])) /\ proposal[r].token # NoToken
        BY <2>3 DEF Expire
      <3>2. r # p => Keeps
        BY <1>2, <1>6, <3>1
      <3>3. ASSUME r = p
            PROVE  Keeps
        <4>1. proposal'[p] = Expired(proposal[p])
          BY <1>3, <3>1, <3>3
        <4>2. p \in Existing
          BY <3>1, <3>3 DEF Inv1, LifeInv, ComposeInv, Existing
        <4> QED  BY <1>5, <4>1, <4>2, ExpiredRow, RowCounts DEF Keeps, RowKept, SameViews, Existing
      <3> QED  BY <3>2, <3>3 DEF Keeps
    <2> QED  BY <1>6, <2>1, <2>2, <2>3 DEF Keeps
  <1>7. CASE r \in SendReqs /\ ((\E x \in Proposals : SendRead(r, x)) \/ Send(r))
    <2>1. CASE SendIssue(r)
      <3>1. Write(target[r], Sent(proposal[target[r]], r)) /\ pc[r] \in OnProposal
        BY <2>1 DEF SendIssue, Step, OnProposal
      <3>2. target[r] # p => Keeps
        BY <1>2, <1>4, <3>1
      <3>3. ASSUME target[r] = p
            PROVE  Keeps
        <4>1. proposal'[p] = Sent(proposal[p], r) /\ p \in Existing
          BY <1>3, <1>4, <3>1, <3>3
        <4>2. /\ Sent(proposal[p], r).token = r /\ Sent(proposal[p], r).status = "sent"
          BY <1>5, <1>7, SentRow
        <4> QED  BY <1>5, <1>7, <2>1, <3>3, <4>1, <4>2, RowCounts DEF Keeps, RowKept, SameViews, Existing, Issues
      <3> QED  BY <3>2, <3>3 DEF Keeps
    <2>2. CASE ~SendIssue(r)
      BY <1>1, <1>7, <2>2 DEF Send, SendRead, SendLog, SendMail, database, Keeps
    <2> QED  BY <2>1, <2>2
  <1>8. CASE r \in ViewReqs /\ ((\E x \in Proposals : ViewOpen(r, x)) \/ View(r))
    <2>1. CASE ViewRecord(r)
      <3> DEFINE status == StatusOnceViewed(seen[r].status)
      <3>1. /\ Write(target[r], Viewed(proposal[target[r]], status)) /\ pc[r] \in OnProposal
            /\ pc[r] = "recordView"
        BY <2>1 DEF ViewRecord, Step, OnProposal, Opened
      <3>2. target[r] # p => Keeps
        BY <1>2, <1>4, <3>1
      <3>3. ASSUME target[r] = p
            PROVE  Keeps
        <4>1. status \in Statuses /\ status # "absent"
          BY <3>1 DEF Inv1, LifeInv, TargetInv, TypeOK, Row, Statuses, StatusOnceViewed
        <4> HIDE DEF status
        <4>2. proposal'[p] = Viewed(proposal[p], status) /\ p \in Existing
          BY <1>3, <1>4, <3>1, <3>3
        <4>3. /\ Viewed(proposal[p], status).status # "absent"
              /\ Viewed(proposal[p], status).firstViewed = TRUE
              /\ Viewed(proposal[p], status).token = proposal[p].token
          <5> DEFINE row == proposal[p]
          <5>1. row \in Row  BY <1>5
          <5> HIDE DEF row
          <5>2. /\ Viewed(row, status).status = status /\ Viewed(row, status).firstViewed = TRUE
                /\ Viewed(row, status).token = row.token
            BY <4>1, <5>1, ViewedRow
          <5> QED  BY <4>1, <5>2 DEF row
        <4> QED  BY <1>5, <1>8, <2>1, <3>3, <4>2, <4>3, RowCounts DEF Keeps, RowKept, SameViews, Existing, Records
      <3> QED  BY <3>2, <3>3 DEF Keeps
    <2>2. CASE ~ViewRecord(r)
      BY <1>1, <1>8, <2>2 DEF View, ViewOpen, ViewLog, database, Keeps
    <2> QED  BY <2>1, <2>2
  <1>9. ASSUME NEW status \in Statuses \ {"absent"}, pc[r] \in Choosing,
               Write(target[r], WithChoice(proposal[target[r]], choice[r], status))
        PROVE  Keeps
    <2>1. /\ target[r] \in Proposals /\ target[r] \in Existing /\ proposal[target[r]] \in Row
          /\ choice[r] \in Packages
      BY <1>4, <1>9 DEF OnProposal, Opened, Inv1, LifeInv, TargetInv, Row
    <2>2. target[r] # p => Keeps
      BY <1>2, <1>9, <2>1
    <2>3. ASSUME target[r] = p
          PROVE  Keeps
      <3>1. proposal'[p] = WithChoice(proposal[p], choice[r], status)
        BY <1>3, <1>9, <2>3
      <3> QED  BY <1>5, <2>1, <2>3, <3>1, RowWithChoice, RowCounts DEF Keeps, RowKept, SameViews, Existing
    <2> QED  BY <2>2, <2>3
  <1>10. CASE r \in SelectReqs /\ ((\E x \in Proposals : SelectOpen(r, x)) \/ Select(r))
    <2>1. CASE SelectRecord(r)
      BY <1>9, <2>1 DEF SelectRecord, Step, Choosing, Statuses, Keeps
    <2>2. CASE ~SelectRecord(r)
      BY <1>1, <1>10, <2>2 DEF Select, SelectOpen, SelectLog, database, Keeps
    <2> QED  BY <2>1, <2>2
  <1>11. CASE r \in TermsReqs /\ ((\E x \in Proposals : TermsOpen(r, x)) \/ Terms(r))
    BY <1>1, <1>11 DEF Terms, TermsOpen, TermsLog, database, Keeps
  <1>12. CASE r \in SignReqs /\ ((\E x \in Proposals : SignOpen(r, x)) \/ Sign(r))
    <2>1. CASE SignCommit(r)
      BY <1>9, <2>1 DEF SignCommit, Step, Choosing, BeforeCommit, Statuses, Keeps
    <2>2. CASE ~SignCommit(r)
      BY <1>1, <1>12, <2>2
         DEF SignOpen, Sign, SignStore, SignConflict, SignRequestPayment, SignSavePayment,
             SignRequestMandate, SignSaveMandate, SignSaveSchedule, SignMailSigner, SignMailFirm,
             database, Keeps
    <2> QED  BY <2>1, <2>2
  <1>13. CASE Abort(r)
    BY <1>1, <1>13 DEF Abort, database, Keeps
  <1> QED  BY <1>6, <1>7, <1>8, <1>10, <1>11, <1>12, <1>13 DEF Act

\* The types of event that views log.
Viewing == {"first_viewed", "step_viewed"}

\* Events stay, and a step that logs a view is the end of that view.
LEMMA EventStep ==
  ASSUME Inv1, NEW r \in Requests, Act(r)
  PROVE  /\ events \subseteq events'
         /\ \A e \in events' \ events :
               e.by = r /\ (e.type \in Viewing => r \in ViewReqs /\ ViewLog(r))
  <1>1. CASE UNCHANGED events
    BY <1>1
  <1>2. ASSUME NEW type, Log(r, type)
        PROVE  /\ events \subseteq events'
               /\ \A e \in events' \ events : e.by = r /\ e.type = type
    BY <1>2 DEF Log
  <1>3. CASE r \in Proposals /\ (ComposeCount(r) \/ ComposeInsert(r) \/ Expire(r))
    BY <1>2, <1>3 DEF ComposeCount, ComposeInsert, Expire, database, Viewing
  <1>4. CASE r \in SendReqs /\ ((\E x \in Proposals : SendRead(r, x)) \/ Send(r))
    BY <1>2, <1>4 DEF Send, SendRead, SendIssue, SendLog, SendMail, database, Viewing
  <1>5. CASE r \in ViewReqs /\ ((\E x \in Proposals : ViewOpen(r, x)) \/ View(r))
    BY <1>2, <1>5 DEF View, ViewOpen, ViewRecord, ViewLog, database
  <1>6. CASE r \in SelectReqs /\ ((\E x \in Proposals : SelectOpen(r, x)) \/ Select(r))
    BY <1>2, <1>6 DEF Select, SelectOpen, SelectRecord, SelectLog, database, Viewing
  <1>7. CASE r \in TermsReqs /\ ((\E x \in Proposals : TermsOpen(r, x)) \/ Terms(r))
    BY <1>2, <1>7 DEF Terms, TermsOpen, TermsLog, database, Viewing
  <1>8. CASE r \in SignReqs /\ ((\E x \in Proposals : SignOpen(r, x)) \/ Sign(r))
    BY <1>2, <1>8
       DEF SignOpen, Sign, SignStore, SignCommit, SignConflict, SignRequestPayment, SignSavePayment,
           SignRequestMandate, SignSaveMandate, SignSaveSchedule, SignMailSigner, SignMailFirm,
           database, Viewing
  <1>9. CASE Abort(r)
    BY <1>9 DEF Abort, database
  <1> QED  BY <1>3, <1>4, <1>5, <1>6, <1>7, <1>8, <1>9 DEF Act

-----------------------------------------------------------------------------
(* The link in force. *)

\* A send that issued a token goes on to mail it, unless it dies.
LEMMA SendMoves ==
  ASSUME Inv1, NEW r \in Requests, Act(r), NEW t \in SendReqs,
         t \in links \/ pc[t] \in {"logSent", "mailLink", "failed"}
  PROVE  t \in links' \/ pc'[t] \in {"logSent", "mailLink", "failed"}
  <1>0. t \in Requests
    BY DEF Requests
  <1>1. links \subseteq links'
    BY DEF Act, ComposeCount, ComposeInsert, Expire, Send, SendRead, SendIssue, SendLog, SendMail,
           View, ViewOpen, ViewRecord, ViewLog, Select, SelectOpen, SelectRecord, SelectLog,
           Terms, TermsOpen, TermsLog, SignOpen, Sign, SignStore, SignCommit, SignConflict,
           SignRequestPayment, SignSavePayment, SignRequestMandate, SignSaveMandate,
           SignSaveSchedule, SignMailSigner, SignMailFirm, Abort, outside
  <1>2. CASE t # r
    BY <1>0, <1>1, <1>2, OthersStay
  <1>3. CASE t = r /\ pc[t] \in {"logSent", "mailLink", "failed"}
    <2>1. Send(t) \/ Abort(t)
      BY <1>3, RequestsAssumption DEF Act, SendRead
    <2>2. CASE Send(t)
      BY <1>0, <1>3, <2>2 DEF Send, SendIssue, SendLog, SendMail, Step, Goto, Inv1, TypeOK
    <2>3. CASE Abort(t)
      BY <1>0, <2>3 DEF Abort, End, Inv1, TypeOK
    <2> QED  BY <2>1, <2>2, <2>3
  <1> QED  BY <1>1, <1>2, <1>3

\* The link in force was mailed, is about to be, or its send died in between.
THEOREM LinksAreMailed == Spec => []CurrentLinkMailed
  <1>1. Init => CurrentLinkMailed
    BY NoTokenAssumption DEF Init, CurrentLinkMailed, NoRow
  <1>2. Inv1 /\ CurrentLinkMailed /\ [Next]_vars => CurrentLinkMailed'
    <2> SUFFICES ASSUME Inv1, CurrentLinkMailed, Next
                 PROVE  CurrentLinkMailed'
      BY DEF vars, database, outside, CurrentLinkMailed
    <2>1. PICK r \in Requests : Act(r)
      BY StepsAreActs
    <2>2. ASSUME NEW p \in Proposals, NEW t \in SendReqs, proposal'[p].token = t
          PROVE  t \in links' \/ pc'[t] \in {"logSent", "mailLink", "failed"}
      <3>1. CASE Inserts(r, p)
        BY <2>2, <3>1, NoTokenAssumption
           DEF Inserts, ComposeInsert, Inv1, LifeInv, ComposeInv
      <3>2. CASE Issues(r, p)
        BY <2>2, <3>2 DEF Issues, SendIssue, Step, Goto, Inv1, TypeOK, Requests
      <3>3. CASE proposal'[p].token = proposal[p].token
        BY <2>1, <2>2, <3>3, SendMoves DEF CurrentLinkMailed
      <3> QED  BY <2>1, <3>1, <3>2, <3>3, RowStep
    <2> QED  BY <2>2 DEF CurrentLinkMailed
  <1> QED  BY <1>1, <1>2, TypeCorrect, PTL DEF Spec

-----------------------------------------------------------------------------
(* Numbers. *)

\* A composer still holds a number it could have counted: rows are never removed.
NumbersInv ==
    /\ \A p \in Existing : proposal[p].number \in 1 .. Cardinality(Existing)
    /\ \A p \in Proposals : pc[p] = "insert" => seen[p].number \in 1 .. Cardinality(Existing) + 1

\* What a composing request holds, it counted.
LEMMA ComposeMoves ==
  ASSUME Inv1, NEW r \in Requests, Act(r), NEW p \in Proposals, pc'[p] = "insert"
  PROVE  \/ pc[p] = "insert" /\ seen'[p] = seen[p]
         \/ /\ UNCHANGED proposal
            /\ seen'[p].number = Cardinality(Existing) + 1
            /\ seen'[p].viewCount = 0 /\ ~seen'[p].firstViewed
  <1>0. p \in Requests
    BY DEF Requests
  <1>1. CASE p # r
    BY <1>0, <1>1, OthersStay
  <1>2. CASE p = r
    <2>1. ComposeCount(p) \/ ComposeInsert(p) \/ Expire(p) \/ Abort(p)
      BY <1>2, RequestsAssumption DEF Act
    <2>2. CASE ComposeCount(p)
      <3>1. PICK menu \in Menus, upfront \in BOOLEAN :
               seen' = [seen EXCEPT ![p] = Draft(menu, upfront, Cardinality(Existing) + 1)]
        BY <2>2 DEF ComposeCount
      <3>2. seen'[p] = Draft(menu, upfront, Cardinality(Existing) + 1)
        BY <1>0, <3>1 DEF Inv1, TypeOK
      <3>3. UNCHANGED proposal
        BY <2>2 DEF ComposeCount, database
      <3> QED  BY <3>2, <3>3 DEF Draft, NoRow
    <2>3. CASE ComposeInsert(p) \/ Abort(p)
      BY <1>0, <2>3 DEF ComposeInsert, Abort, End, Inv1, TypeOK
    <2>4. CASE Expire(p)
      BY <2>4 DEF Expire
    <2> QED  BY <2>1, <2>2, <2>3, <2>4
  <1> QED  BY <1>1, <1>2

\* The firm's proposals are counted, and the count grows with each insert.
LEMMA CountGrows ==
  ASSUME Inv1, NEW r \in Requests, Act(r)
  PROVE  /\ Cardinality(Existing) \in Nat /\ Cardinality(Existing') \in Nat
         /\ Cardinality(Existing) <= Cardinality(Existing')
         /\ \A p \in Existing' \ Existing :
               Inserts(r, p) /\ Cardinality(Existing) + 1 <= Cardinality(Existing')
  <1>1. IsFiniteSet(Existing) /\ IsFiniteSet(Existing')
    BY ProposalsAssumption, FS_Subset DEF Existing
  <1>2. Existing \subseteq Existing'
    BY RowStep DEF Existing, Inserts, ComposeInsert, RowKept, Inv1, LifeInv, ComposeInv
  <1>3. ASSUME NEW p \in Existing' \ Existing
        PROVE  Inserts(r, p) /\ Cardinality(Existing) + 1 <= Cardinality(Existing')
    <2>1. Inserts(r, p)
      BY <1>3, RowStep DEF RowKept, Existing
    <2>2. IsFiniteSet(Existing \cup {p}) /\ Cardinality(Existing \cup {p}) = Cardinality(Existing) + 1
      BY <1>1, <1>3, FS_AddElement
    <2>3. Existing \cup {p} \in SUBSET Existing'
      BY <1>2, <1>3
    <2> QED  BY <1>1, <2>1, <2>2, <2>3, FS_Subset
  <1>4. Cardinality(Existing) <= Cardinality(Existing')
    BY <1>1, <1>2, FS_Subset
  <1> QED  BY <1>1, <1>3, <1>4, FS_CardinalityType

\* Numbers stay within the count, so a composer nobody overtook takes a new one.
THEOREM NumbersAreCounted == Spec => []NumbersFollowCount
  <1>1. Init => NumbersInv
    BY DEF Init, NumbersInv, Existing, NoRow, Requests
  <1>2. Inv1 /\ NumbersInv /\ [Next]_vars => NumbersInv'
    <2> SUFFICES ASSUME Inv1, NumbersInv, Next
                 PROVE  NumbersInv'
      BY DEF vars, database, outside, NumbersInv, Existing
    <2>1. PICK r \in Requests : Act(r)
      BY StepsAreActs
    <2>2. ASSUME NEW p \in Existing'
          PROVE  proposal'[p].number \in 1 .. Cardinality(Existing')
      <3>1. CASE p \in Existing
        <4>1. ~Inserts(r, p)
          BY <3>1 DEF Existing, Inserts, ComposeInsert, Inv1, LifeInv, ComposeInv
        <4>2. proposal'[p].number = proposal[p].number
          BY <2>1, <3>1, <4>1, RowStep DEF Existing, RowKept
        <4> QED  BY <2>1, <3>1, <4>2, CountGrows DEF NumbersInv
      <3>2. CASE p \notin Existing
        <4>1. /\ p \in Proposals /\ Inserts(r, p)
              /\ Cardinality(Existing) + 1 <= Cardinality(Existing')
          BY <2>1, <2>2, <3>2, CountGrows DEF Existing
        <4>2. proposal'[p].number = seen[p].number /\ pc[p] = "insert"
          BY <4>1 DEF Inserts, ComposeInsert
        <4> QED  BY <2>1, <4>1, <4>2, CountGrows DEF NumbersInv
      <3> QED  BY <3>1, <3>2
    <2>3. ASSUME NEW p \in Proposals, pc'[p] = "insert"
          PROVE  seen'[p].number \in 1 .. Cardinality(Existing') + 1
      <3>1. CASE pc[p] = "insert" /\ seen'[p] = seen[p]
        BY <2>1, <3>1, CountGrows DEF NumbersInv
      <3>2. CASE UNCHANGED proposal /\ seen'[p].number = Cardinality(Existing) + 1
        <4>1. Existing' = Existing
          BY <3>2 DEF Existing
        <4> QED  BY <2>1, <3>2, <4>1, CountGrows
      <3> QED  BY <2>1, <2>3, <3>1, <3>2, ComposeMoves
    <2> QED  BY <2>2, <2>3 DEF NumbersInv
  <1>3. NumbersInv => NumbersFollowCount
    <2> SUFFICES ASSUME NumbersInv, NEW q \in Existing
                 PROVE  proposal[q].number # Cardinality(Existing) + 1
      BY DEF NumbersInv, NumbersFollowCount
    <2> QED  BY CountIsNat DEF NumbersInv
  <1> QED  BY <1>1, <1>2, <1>3, TypeCorrect, PTL DEF Spec

-----------------------------------------------------------------------------
(* Views. *)

\* The views of p between their two writes, and those that ViewsCounted allows for.
Logging(p) == {r \in ViewReqs : target[r] = p /\ pc[r] = "logView"}
Pending(p) == {r \in ViewReqs : target[r] = p /\ pc[r] \in {"logView", "failed"}}

\* A proposal nobody could have opened has not been viewed.
BlankInv ==
    \A p \in Proposals :
       /\ pc[p] = "insert" => ~seen[p].firstViewed /\ seen[p].viewCount = 0
       /\ proposal[p].status = "absent" => proposal[p].viewCount = 0

\* A view is logged once, when it ends.
LoggedInv ==
    \A e \in events : e.type \in Viewing => e.by \in ViewReqs /\ pc[e.by] = "done"

\* A view that saw the proposal viewed still finds it so.
CopyInv ==
    \A r \in ViewReqs : pc[r] = "recordView" /\ seen[r].firstViewed =>
       proposal[target[r]].firstViewed

\* Each view is counted before it is logged: those between the two account for
\* the difference, with those that died there.
CountInv ==
    \A p \in Proposals :
       /\ IsFiniteSet(ViewEvents(p)) /\ IsFiniteSet(Logging(p)) /\ IsFiniteSet(Pending(p))
       /\ Cardinality(ViewEvents(p)) + Cardinality(Logging(p)) <= proposal[p].viewCount
       /\ proposal[p].viewCount <= Cardinality(ViewEvents(p)) + Cardinality(Pending(p))

ViewsInv == BlankInv /\ LoggedInv /\ CopyInv /\ CountInv /\ FirstViewRecorded

\* The steps of a view.
LEMMA ViewMoves ==
  ASSUME Inv1, NEW r \in Requests, Act(r), NEW q \in ViewReqs
  PROVE  \/ pc'[q] = pc[q] /\ target'[q] = target[q] /\ seen'[q] = seen[q]
         \/ /\ q = r
            /\ (\E p \in Proposals : ViewOpen(q, p)) \/ ViewRecord(q) \/ ViewLog(q) \/ Abort(q)
  <1>1. CASE q # r
    BY <1>1, OthersStay DEF Requests
  <1>2. CASE q = r
    BY <1>2, RequestsAssumption DEF Act, View
  <1> QED  BY <1>1, <1>2

\* The same, in terms of the local state of the view.
LEMMA ViewOpens ==
  ASSUME Inv1, NEW q \in ViewReqs, NEW p \in Proposals, ViewOpen(q, p)
  PROVE  /\ UNCHANGED <<proposal, events>>
         /\ pc[q] = "idle" /\ pc'[q] = "recordView" /\ seen'[q] = proposal[p] /\ target'[q] = p
  BY DEF ViewOpen, Open, Goto, database, Inv1, TypeOK, Requests

LEMMA ViewRecords ==
  ASSUME Inv1, NEW q \in ViewReqs, ViewRecord(q)
  PROVE  /\ UNCHANGED events /\ pc[q] = "recordView" /\ pc'[q] = "logView"
         /\ seen'[q] = seen[q] /\ target'[q] = target[q]
         /\ target[q] \in Proposals
  BY DEF ViewRecord, Step, Goto, Inv1, TypeOK, Requests, LifeInv, TargetInv, OnProposal, Opened,
         Existing

LEMMA ViewLogs ==
  ASSUME Inv1, NEW q \in ViewReqs, ViewLog(q)
  PROVE  /\ UNCHANGED proposal /\ pc[q] = "logView" /\ pc'[q] = "done" /\ target'[q] = target[q]
         /\ target[q] \in Proposals
         /\ \E type \in Viewing :
               /\ events' = events \cup {[proposal |-> target[q], type |-> type, by |-> q]}
               /\ ~seen[q].firstViewed => type = "first_viewed"
  <1>1. /\ UNCHANGED proposal /\ pc[q] = "logView" /\ pc'[q] = "done" /\ target'[q] = target[q]
    BY DEF ViewLog, End, Inv1, TypeOK, Requests
  <1>2. target[q] \in Proposals
    BY <1>1 DEF Inv1, LifeInv, TargetInv, OnProposal, Opened, Existing, Requests
  <1> QED  BY <1>1, <1>2 DEF ViewLog, Log, Viewing

LEMMA ViewAborts ==
  ASSUME Inv1, NEW q \in ViewReqs, Abort(q)
  PROVE  /\ UNCHANGED <<proposal, events>> /\ pc[q] \notin {"idle", "done", "failed"}
         /\ pc'[q] = "failed" /\ target'[q] = target[q]
  BY DEF Abort, End, InFlight, database, Inv1, TypeOK, Requests

\* A proposal that was viewed stays so.
LEMMA ViewedStays ==
  ASSUME Inv1, NEW r \in Requests, Act(r), NEW p \in Existing, proposal[p].firstViewed
  PROVE  proposal'[p].firstViewed
  <1>1. ~Inserts(r, p)
    BY DEF Existing, Inserts, ComposeInsert, Inv1, LifeInv, ComposeInv
  <1> QED  BY <1>1, RowStep DEF Existing, Records, SameViews

LEMMA BlankStep ==
  ASSUME Inv1, BlankInv, NEW r \in Requests, Act(r)
  PROVE  BlankInv'
  <1>1. ASSUME NEW p \in Proposals, pc'[p] = "insert"
        PROVE  ~seen'[p].firstViewed /\ seen'[p].viewCount = 0
    BY <1>1, ComposeMoves DEF BlankInv
  <1>2. ASSUME NEW p \in Proposals, proposal'[p].status = "absent"
        PROVE  proposal'[p].viewCount = 0
    <2>1. CASE Inserts(r, p)
      BY <2>1 DEF Inserts, ComposeInsert, BlankInv
    <2>2. CASE RowKept(p)
      BY <1>2, <2>2 DEF RowKept, Existing, BlankInv
    <2> QED  BY <2>1, <2>2, RowStep
  <1> QED  BY <1>1, <1>2 DEF BlankInv

LEMMA LoggedStep ==
  ASSUME Inv1, LoggedInv, NEW r \in Requests, Act(r)
  PROVE  LoggedInv'
  <1>1. ASSUME NEW e \in events', e.type \in Viewing
        PROVE  e.by \in ViewReqs /\ pc'[e.by] = "done"
    <2>1. CASE e \in events
      <3>1. e.by \in ViewReqs /\ pc[e.by] = "done"
        BY <1>1, <2>1 DEF LoggedInv
      <3> QED  BY <3>1, ViewMoves, ViewOpens, ViewRecords, ViewLogs, ViewAborts
    <2>2. CASE e \notin events
      BY <1>1, <2>2, EventStep, ViewLogs
    <2> QED  BY <2>1, <2>2
  <1> QED  BY <1>1 DEF LoggedInv

LEMMA CopyStep ==
  ASSUME Inv1, CopyInv, NEW r \in Requests, Act(r)
  PROVE  CopyInv'
  <1>1. ASSUME NEW q \in ViewReqs, pc'[q] = "recordView", seen'[q].firstViewed
        PROVE  proposal'[target'[q]].firstViewed
    <2>1. CASE pc'[q] = pc[q] /\ target'[q] = target[q] /\ seen'[q] = seen[q]
      <3>1. target[q] \in Existing
        BY <1>1, <2>1 DEF Inv1, LifeInv, TargetInv, OnProposal, Opened, Requests
      <3> QED  BY <1>1, <2>1, <3>1, ViewedStays DEF CopyInv
    <2>2. CASE \E p \in Proposals : ViewOpen(q, p)
      BY <1>1, <2>2, ViewOpens
    <2> QED  BY <1>1, <2>1, <2>2, ViewMoves, ViewRecords, ViewLogs, ViewAborts
  <1> QED  BY <1>1 DEF CopyInv

\* What FirstViewRecorded asks for, and how it lasts.
FirstView(p) ==
    \/ \E e \in ViewEvents(p) : e.type = "first_viewed"
    \/ \E q \in ViewReqs :
          /\ target[q] = p
          /\ pc[q] = "failed" \/ (pc[q] = "logView" /\ ~seen[q].firstViewed)

LEMMA FirstViewLasts ==
  ASSUME Inv1, NEW r \in Requests, Act(r), NEW p \in Proposals, FirstView(p)
  PROVE  FirstView(p)'
  <1>1. CASE \E e \in ViewEvents(p) : e.type = "first_viewed"
    BY <1>1, EventStep DEF FirstView, ViewEvents
  <1>2. CASE \E q \in ViewReqs :
               /\ target[q] = p
               /\ pc[q] = "failed" \/ (pc[q] = "logView" /\ ~seen[q].firstViewed)
    <2>1. PICK q \in ViewReqs :
               /\ target[q] = p
               /\ pc[q] = "failed" \/ (pc[q] = "logView" /\ ~seen[q].firstViewed)
      BY <1>2
    <2>2. CASE pc'[q] = pc[q] /\ target'[q] = target[q] /\ seen'[q] = seen[q]
      BY <2>1, <2>2 DEF FirstView
    <2>3. CASE ViewLog(q)
      <3>1. [proposal |-> p, type |-> "first_viewed", by |-> q] \in events'
        BY <2>1, <2>3, ViewLogs
      <3> QED  BY <3>1 DEF FirstView, ViewEvents
    <2>4. CASE Abort(q)
      BY <2>1, <2>4, ViewAborts DEF FirstView
    <2> QED  BY <2>1, <2>2, <2>3, <2>4, ViewMoves, ViewOpens, ViewRecords
  <1> QED  BY <1>1, <1>2 DEF FirstView

LEMMA FirstViewStep ==
  ASSUME Inv1, BlankInv, CopyInv, FirstViewRecorded, NEW r \in Requests, Act(r)
  PROVE  FirstViewRecorded'
  <1>1. ASSUME NEW p \in Proposals, proposal'[p].firstViewed
        PROVE  FirstView(p)'
    <2>1. CASE proposal[p].firstViewed
      BY <2>1, FirstViewLasts DEF FirstViewRecorded, FirstView
    <2>2. CASE Inserts(r, p)
      BY <1>1, <2>2 DEF Inserts, ComposeInsert, BlankInv
    <2>3. CASE Records(r, p) /\ ~proposal[p].firstViewed
      <3>1. r \in ViewReqs /\ ViewRecord(r) /\ target[r] = p
        BY <2>3 DEF Records
      <3>2. ~seen[r].firstViewed
        BY <2>3, <3>1, ViewRecords DEF CopyInv
      <3> QED  BY <3>1, <3>2, ViewRecords DEF FirstView
    <2>4. CASE SameViews(p) /\ ~proposal[p].firstViewed
      BY <1>1, <2>4 DEF SameViews
    <2> QED  BY <2>1, <2>2, <2>3, <2>4, RowStep
  <1> QED  BY <1>1 DEF FirstViewRecorded, FirstView

\* How a step changes the three sets that ViewsCounted counts, for one proposal.
SameCounts(p) ==
    ViewEvents(p)' = ViewEvents(p) /\ Logging(p)' = Logging(p) /\ Pending(p)' = Pending(p)

LEMMA CountsFrame ==
  ASSUME Inv1, NEW r \in Requests, Act(r), NEW p \in Proposals,
         r \in ViewReqs => target[r] # p \/ \E x \in Proposals : ViewOpen(r, x)
  PROVE  SameCounts(p)
  <1>1. ViewEvents(p)' = ViewEvents(p)
    <2>1. events \subseteq events' /\ \A e \in events' \ events :
             e.type \in Viewing => r \in ViewReqs /\ ViewLog(r)
      BY EventStep
    <2>2. ASSUME r \in ViewReqs, ViewLog(r)
          PROVE  \A e \in events' \ events : e.proposal # p
      <3>1. target[r] # p
        BY <2>2, ViewOpens, ViewLogs
      <3> QED  BY <2>2, <3>1, ViewLogs
    <2> QED  BY <2>1, <2>2 DEF ViewEvents, Viewing
  <1>2. ASSUME NEW q \in ViewReqs
        PROVE  /\ q \in Logging(p)' <=> q \in Logging(p)
               /\ q \in Pending(p)' <=> q \in Pending(p)
    <2>1. CASE pc'[q] = pc[q] /\ target'[q] = target[q]
      BY <2>1 DEF Logging, Pending
    <2>2. CASE \E x \in Proposals : ViewOpen(q, x)
      BY <2>2, ViewOpens DEF Logging, Pending
    <2>3. CASE q = r /\ (ViewRecord(q) \/ ViewLog(q) \/ Abort(q)) /\ target[q] # p
      BY <2>3, ViewRecords, ViewLogs, ViewAborts DEF Logging, Pending
    <2> QED  BY <2>1, <2>2, <2>3, ViewMoves
  <1>3. Logging(p)' = Logging(p) /\ Pending(p)' = Pending(p)
    <2>1. Logging(p) \subseteq ViewReqs /\ Logging(p)' \subseteq ViewReqs
      BY DEF Logging
    <2>2. Pending(p) \subseteq ViewReqs /\ Pending(p)' \subseteq ViewReqs
      BY DEF Pending
    <2> QED  BY <1>2, <2>1, <2>2
  <1> QED  BY <1>1, <1>3 DEF SameCounts

LEMMA CountsOnRecord ==
  ASSUME Inv1, NEW q \in ViewReqs, Act(q), ViewRecord(q), NEW p, target[q] = p
  PROVE  /\ ViewEvents(p)' = ViewEvents(p) /\ q \notin Logging(p) /\ q \notin Pending(p)
         /\ Logging(p)' = Logging(p) \cup {q} /\ Pending(p)' = Pending(p) \cup {q}
  <1>1. \A x \in ViewReqs \ {q} : pc'[x] = pc[x] /\ target'[x] = target[x]
    BY OthersStay DEF Requests
  <1>2. ViewEvents(p)' = ViewEvents(p)
    BY ViewRecords DEF ViewEvents
  <1> QED  BY <1>1, <1>2, ViewRecords DEF Logging, Pending

LEMMA CountsOnLog ==
  ASSUME Inv1, LoggedInv, NEW q \in ViewReqs, Act(q), ViewLog(q), NEW p, target[q] = p
  PROVE  /\ \E e : e \notin ViewEvents(p) /\ ViewEvents(p)' = ViewEvents(p) \cup {e}
         /\ q \in Logging(p) /\ q \in Pending(p)
         /\ Logging(p)' = Logging(p) \ {q} /\ Pending(p)' = Pending(p) \ {q}
  <1>1. \A x \in ViewReqs \ {q} : pc'[x] = pc[x] /\ target'[x] = target[x]
    BY OthersStay DEF Requests
  <1>2. PICK type \in Viewing :
           events' = events \cup {[proposal |-> p, type |-> type, by |-> q]}
    BY ViewLogs
  <1> DEFINE e == [proposal |-> p, type |-> type, by |-> q]
  <1>3. e.proposal = p /\ e.type \in Viewing /\ e.by = q
    OBVIOUS
  <1> HIDE DEF e
  <1>4. e \notin ViewEvents(p)
    BY <1>3, ViewLogs DEF ViewEvents, LoggedInv
  <1>5. ViewEvents(p)' = ViewEvents(p) \cup {e}
    <2>1. events' = events \cup {e}
      BY <1>2 DEF e
    <2> QED  BY <1>3, <2>1 DEF ViewEvents, Viewing
  <1>6. /\ q \in Logging(p) /\ q \in Pending(p)
        /\ Logging(p)' = Logging(p) \ {q} /\ Pending(p)' = Pending(p) \ {q}
    BY <1>1, ViewLogs DEF Logging, Pending
  <1> QED  BY <1>4, <1>5, <1>6

LEMMA CountsOnAbort ==
  ASSUME Inv1, NEW q \in ViewReqs, Act(q), Abort(q), NEW p, target[q] = p
  PROVE  /\ ViewEvents(p)' = ViewEvents(p)
         /\ Logging(p)' = Logging(p) \ {q} /\ Pending(p)' = Pending(p) \cup {q}
  <1>1. \A x \in ViewReqs \ {q} : pc'[x] = pc[x] /\ target'[x] = target[x]
    BY OthersStay DEF Requests
  <1>2. ViewEvents(p)' = ViewEvents(p)
    BY ViewAborts DEF ViewEvents
  <1> QED  BY <1>1, <1>2, ViewAborts DEF Logging, Pending

LEMMA CountStep ==
  ASSUME Inv1, BlankInv, LoggedInv, CountInv, NEW r \in Requests, Act(r)
  PROVE  CountInv'
  <1> DEFINE Counted(p) ==
        /\ IsFiniteSet(ViewEvents(p)) /\ IsFiniteSet(Logging(p)) /\ IsFiniteSet(Pending(p))
        /\ Cardinality(ViewEvents(p)) + Cardinality(Logging(p)) <= proposal[p].viewCount
        /\ proposal[p].viewCount <= Cardinality(ViewEvents(p)) + Cardinality(Pending(p))
  <1>1. ASSUME NEW p \in Proposals
        PROVE  Counted(p)'
    <2> DEFINE E == ViewEvents(p)  L == Logging(p)  P == Pending(p)  n == proposal[p].viewCount
    <2>1. /\ IsFiniteSet(E) /\ IsFiniteSet(L) /\ IsFiniteSet(P)
          /\ Cardinality(E) + Cardinality(L) <= n /\ n <= Cardinality(E) + Cardinality(P)
      BY DEF CountInv
    <2>2. /\ Cardinality(E) \in Nat /\ Cardinality(L) \in Nat /\ Cardinality(P) \in Nat
          /\ n \in Nat
      BY <2>1, FS_CardinalityType DEF Inv1, TypeOK, Row
    <2>3. \/ n' = n
          \/ r \in ViewReqs /\ ViewRecord(r) /\ target[r] = p /\ n' = n + 1
      <3>1. CASE Inserts(r, p)
        BY <3>1 DEF Inserts, ComposeInsert, BlankInv, Inv1, LifeInv, ComposeInv
      <3>2. CASE Records(r, p)
        BY <3>2 DEF Records
      <3>3. CASE SameViews(p)
        BY <3>3 DEF SameViews
      <3> QED  BY <3>1, <3>2, <3>3, RowStep
    <2>4. ASSUME SameCounts(p), n' = n
          PROVE  Counted(p)'
      BY <2>1, <2>4 DEF SameCounts
    <2>5. CASE r \in ViewReqs /\ ViewRecord(r) /\ target[r] = p
      <3>1. n' = n + 1
        <4>1. proposal'[p] = Viewed(proposal[p], StatusOnceViewed(seen[r].status))
          BY <2>5 DEF ViewRecord, Write, Inv1, TypeOK
        <4> QED  BY <4>1, RowCounts DEF Inv1, TypeOK
      <3>2. /\ E' = E /\ r \notin L /\ r \notin P /\ L' = L \cup {r} /\ P' = P \cup {r}
        BY <2>5, CountsOnRecord
      <3> HIDE DEF E, L, P, n
      <3>3. /\ IsFiniteSet(L \cup {r}) /\ Cardinality(L \cup {r}) = Cardinality(L) + 1
            /\ IsFiniteSet(P \cup {r}) /\ Cardinality(P \cup {r}) = Cardinality(P) + 1
        BY <2>1, <3>2, FS_AddElement
      <3>4. /\ IsFiniteSet(E') /\ IsFiniteSet(L') /\ IsFiniteSet(P')
            /\ Cardinality(E') + Cardinality(L') <= n'
            /\ n' <= Cardinality(E') + Cardinality(P')
        BY <2>1, <2>2, <3>1, <3>2, <3>3
      <3> QED  BY <3>4 DEF E, L, P, n
    <2>6. CASE r \in ViewReqs /\ ViewLog(r) /\ target[r] = p
      <3>1. n' = n
        BY <2>6, ViewLogs
      <3>2. /\ \E e : e \notin E /\ E' = E \cup {e}
            /\ r \in L /\ r \in P /\ L' = L \ {r} /\ P' = P \ {r}
        BY <2>6, CountsOnLog
      <3> HIDE DEF E, L, P, n
      <3>3. IsFiniteSet(E') /\ Cardinality(E') = Cardinality(E) + 1
        BY <2>1, <3>2, FS_AddElement
      <3>4. /\ IsFiniteSet(L \ {r}) /\ Cardinality(L \ {r}) = Cardinality(L) - 1
            /\ IsFiniteSet(P \ {r}) /\ Cardinality(P \ {r}) = Cardinality(P) - 1
        BY <2>1, <3>2, FS_RemoveElement
      <3>5. /\ IsFiniteSet(E') /\ IsFiniteSet(L') /\ IsFiniteSet(P')
            /\ Cardinality(E') + Cardinality(L') <= n'
            /\ n' <= Cardinality(E') + Cardinality(P')
        BY <2>1, <2>2, <3>1, <3>2, <3>3, <3>4
      <3> QED  BY <3>5 DEF E, L, P, n
    <2>7. CASE r \in ViewReqs /\ Abort(r) /\ target[r] = p
      <3>1. n' = n
        BY <2>7, ViewAborts
      <3>2. E' = E /\ L' = L \ {r} /\ P' = P \cup {r}
        BY <2>7, CountsOnAbort
      <3> HIDE DEF E, L, P, n
      <3>3. /\ IsFiniteSet(L \ {r})
            /\ Cardinality(L \ {r}) \in Nat /\ Cardinality(L \ {r}) <= Cardinality(L)
            /\ IsFiniteSet(P \cup {r})
            /\ Cardinality(P \cup {r}) \in Nat /\ Cardinality(P) <= Cardinality(P \cup {r})
        <4>1. /\ IsFiniteSet(L \ {r})
              /\ Cardinality(L \ {r}) = IF r \in L THEN Cardinality(L) - 1 ELSE Cardinality(L)
          BY <2>1, FS_RemoveElement
        <4>2. /\ IsFiniteSet(P \cup {r})
              /\ Cardinality(P \cup {r}) = IF r \in P THEN Cardinality(P) ELSE Cardinality(P) + 1
          BY <2>1, FS_AddElement
        <4>3. Cardinality(L \ {r}) \in Nat
          BY <4>1, FS_CardinalityType
        <4> QED  BY <2>2, <4>1, <4>2, <4>3
      <3>4. /\ IsFiniteSet(E') /\ IsFiniteSet(L') /\ IsFiniteSet(P')
            /\ Cardinality(E') + Cardinality(L') <= n'
            /\ n' <= Cardinality(E') + Cardinality(P')
        BY <2>1, <2>2, <3>1, <3>2, <3>3
      <3> QED  BY <3>4 DEF E, L, P, n
    <2>8. CASE r \in ViewReqs => target[r] # p \/ \E x \in Proposals : ViewOpen(r, x)
      <3>1. SameCounts(p)
        BY <2>8, CountsFrame
      <3>2. n' = n
        BY <2>3, <2>8, ViewOpens, ViewRecords
      <3> QED  BY <2>4, <3>1, <3>2
    <2>9. ASSUME r \in ViewReqs, target[r] = p, ~\E x \in Proposals : ViewOpen(r, x),
                 ~ViewRecord(r), ~ViewLog(r), ~Abort(r)
          PROVE  FALSE
      BY <2>9, RequestsAssumption DEF Act, View
    <2> QED  BY <2>5, <2>6, <2>7, <2>8, <2>9
  <1> QED  BY <1>1 DEF CountInv

\* What the counters and the log say of the views, in every reachable state.
THEOREM ViewsCorrect == Spec => []ViewsInv
  <1>1. Init => ViewsInv
    <2> SUFFICES ASSUME Init
                 PROVE  ViewsInv
      OBVIOUS
    <2>1. BlankInv /\ LoggedInv /\ CopyInv /\ FirstViewRecorded
      BY DEF Init, NoRow, Requests, BlankInv, LoggedInv, CopyInv, FirstViewRecorded
    <2>2. \A p \in Proposals : ViewEvents(p) = {} /\ Logging(p) = {} /\ Pending(p) = {}
      BY DEF Init, ViewEvents, Logging, Pending, Requests
    <2>3. \A p \in Proposals : proposal[p].viewCount = 0
      BY DEF Init, NoRow
    <2>4. CountInv
      BY <2>2, <2>3, FS_EmptySet DEF CountInv
    <2> QED  BY <2>1, <2>4 DEF ViewsInv
  <1>2. Inv1 /\ ViewsInv /\ [Next]_vars => ViewsInv'
    <2> SUFFICES ASSUME Inv1, ViewsInv, [Next]_vars
                 PROVE  ViewsInv'
      OBVIOUS
    <2>1. CASE Next
      <3>1. PICK r \in Requests : Act(r)
        BY <2>1, StepsAreActs
      <3> QED  BY <3>1, BlankStep, LoggedStep, CopyStep, CountStep, FirstViewStep DEF ViewsInv
    <2>2. CASE UNCHANGED vars
      <3>1. UNCHANGED <<proposal, events, pc, target, seen>>
        BY <2>2 DEF vars, database
      <3>2. BlankInv' /\ LoggedInv' /\ CopyInv'
        BY <3>1 DEF ViewsInv, BlankInv, LoggedInv, CopyInv
      <3>3. \A p : SameCounts(p)
        BY <3>1 DEF SameCounts, ViewEvents, Logging, Pending
      <3>4. CountInv'
        BY <3>1, <3>3 DEF ViewsInv, CountInv, SameCounts
      <3>5. FirstViewRecorded'
        BY <3>1, <3>3 DEF ViewsInv, FirstViewRecorded, SameCounts
      <3> QED  BY <3>2, <3>4, <3>5 DEF ViewsInv
    <2> QED  BY <2>1, <2>2
  <1> QED  BY <1>1, <1>2, TypeCorrect, PTL DEF Spec

\* Concurrent views lose no count.
THEOREM NoViewIsLost == Spec => []ViewsCounted
  <1>1. Inv1 /\ ViewsInv => ViewsCounted
    <2> SUFFICES ASSUME Inv1, ViewsInv, NEW p \in Proposals
                 PROVE  /\ Cardinality(ViewEvents(p)) <= proposal[p].viewCount
                        /\ proposal[p].viewCount <= Cardinality(ViewEvents(p)) + Cardinality(Pending(p))
      BY DEF ViewsCounted, Pending
    <2>1. /\ Cardinality(ViewEvents(p)) \in Nat /\ Cardinality(Logging(p)) \in Nat
          /\ proposal[p].viewCount \in Nat
      BY FS_CardinalityType DEF ViewsInv, CountInv, Inv1, TypeOK, Row
    <2> QED  BY <2>1 DEF ViewsInv, CountInv
  <1> QED  BY <1>1, TypeCorrect, ViewsCorrect, PTL

\* The first view is in the log, unless the request that made it died.
THEOREM FirstViewIsLogged == Spec => []FirstViewRecorded
  BY ViewsCorrect, PTL DEF ViewsInv

=============================================================================
