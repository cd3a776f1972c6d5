--------------------------- MODULE ProposalsProofs ---------------------------
(***************************************************************************)
(* Proofs about Proposals, for every set of proposals, requests and        *)
(* packages: type correctness, the safety invariants and the refinement of *)
(* Engagement.                                                             *)
(***************************************************************************)
EXTENDS ProposalsInvariant, FiniteSetTheorems, TLAPS

\* Numbering: the count of the existing proposals is a number.
LEMMA CountIsNat == Cardinality(Existing) \in Nat
  <1>1. IsFiniteSet(Existing)
    BY ProposalsAssumption, FS_Subset DEF Existing
  <1> QED  BY <1>1, FS_CardinalityType

\* The rows, steps and sets of requests that the type invariant speaks of.
LEMMA NoRowType == NoRow \in Row
  BY DEF NoRow, Row, Statuses

LEMMA DraftType ==
  ASSUME NEW menu \in SUBSET Packages, NEW upfront \in BOOLEAN, NEW number \in Nat
  PROVE  Draft(menu, upfront, number) \in Row
  BY DEF Draft, NoRow, Row, Statuses

\* The updates of a row, each of which leaves its options alone.
LEMMA ExpiredRow ==
  ASSUME NEW row \in Row
  PROVE  /\ Expired(row) \in Row
         /\ Expired(row).status = row.status /\ Expired(row).token = row.token
         /\ Expired(row).options = row.options /\ Expired(row).selected = row.selected
         /\ Expired(row).firstViewed = row.firstViewed
  BY DEF Row, Expired

LEMMA SentRow ==
  ASSUME NEW row \in Row, NEW t \in SendReqs
  PROVE  /\ Sent(row, t) \in Row
         /\ Sent(row, t).status = "sent" /\ Sent(row, t).token = t
         /\ Sent(row, t).options = row.options /\ Sent(row, t).selected = row.selected
  BY DEF Row, Statuses, Sent

LEMMA ViewedRow ==
  ASSUME NEW row \in Row, NEW status \in Statuses
  PROVE  /\ Viewed(row, status) \in Row
         /\ Viewed(row, status).status = status /\ Viewed(row, status).token = row.token
         /\ Viewed(row, status).options = row.options
         /\ Viewed(row, status).selected = row.selected
         /\ Viewed(row, status).firstViewed = TRUE
  <1>1. row.viewCount + 1 \in Nat
    BY DEF Row
  <1> QED  BY <1>1 DEF Row, Viewed

LEMMA RowWithChoice ==
  ASSUME NEW row \in Row, NEW o \in Packages, NEW status \in Statuses
  PROVE  /\ WithChoice(row, o, status) \in Row
         /\ WithChoice(row, o, status).status = status
         /\ WithChoice(row, o, status).token = row.token
         /\ WithChoice(row, o, status).options = row.options
         /\ WithChoice(row, o, status).selected = o
  BY DEF Row, WithChoice

-----------------------------------------------------------------------------
(* Type correctness. *)

\* The local state of the requests.
LocalOK ==
    /\ pc \in [Requests -> Steps]
    /\ target \in [Requests -> Proposals \cup {NoProposal}]
    /\ seen \in [Requests -> Row]
    /\ choice \in [Requests -> Packages \cup {NoOption}]

\* A step within a handler keeps the local state well-typed, and so do the end
\* of a handler and the opening of a link.
LEMMA StepType ==
  ASSUME TypeOK, NEW r \in Requests, NEW from, NEW to \in Steps, Step(r, from, to)
  PROVE  LocalOK'
  BY DEF Step, Goto, TypeOK, LocalOK

LEMMA EndType ==
  ASSUME TypeOK, NEW r \in Requests, NEW outcome \in {"done", "failed"}, End(r, outcome)
  PROVE  LocalOK'
  BY NoRowType DEF End, TypeOK, LocalOK, Steps

LEMMA OpenType ==
  ASSUME TypeOK, NEW r \in Requests, NEW p \in Proposals, NEW next \in Steps, Open(r, p, next)
  PROVE  /\ pc' \in [Requests -> Steps]
         /\ target' \in [Requests -> Proposals \cup {NoProposal}]
         /\ seen' \in [Requests -> Row]
  BY DEF Open, Goto, TypeOK

-----------------------------------------------------------------------------
(* The life of a row.  Four lemmas say what keeps LifeInv: a step that writes *)
(* no row, the end of a handler, the opening of a link, and an update of the  *)
(* request's row that neither unsends it nor changes its options.             *)

LEMMA LifeStep ==
  ASSUME TypeOK, LifeInv, NEW r \in Requests, NEW from \in OnProposal, NEW to \in OnProposal,
         Step(r, from, to), UNCHANGED proposal,
         to # "recordView", to \in Opened => from \in Opened, to \in Choosing => from \in Choosing
  PROVE  LifeInv'
  BY DEF LifeInv, ComposeInv, TargetInv, Existing, Step, Goto, TypeOK,
         OnProposal, Opened, Choosing, BeforeCommit, Billing

LEMMA LifeEnd ==
  ASSUME TypeOK, LifeInv, NEW r \in Requests, NEW outcome \in {"done", "failed"},
         End(r, outcome), UNCHANGED proposal
  PROVE  LifeInv'
  BY DEF LifeInv, ComposeInv, TargetInv, Existing, End, TypeOK,
         OnProposal, Opened, Choosing, BeforeCommit, Billing

LEMMA LifeOpen ==
  ASSUME TypeOK, LifeInv, NEW r \in Requests, NEW p \in Proposals, NEW next \in Opened,
         Open(r, p, next), UNCHANGED proposal,
         \A q \in Requests \ {r} : choice'[q] = choice[q],
         next \in Choosing => choice'[r] \in proposal[p].options
  PROVE  LifeInv'
  <1>1. proposal[p].token # NoToken
    BY NoTokenAssumption DEF Open, ByToken, TypeOK
  <1>2. proposal[p].status \notin {"absent", "draft"}
    BY <1>1 DEF LifeInv, ComposeInv
  <1>3. ComposeInv'
    BY DEF LifeInv, ComposeInv, Open, Goto, TypeOK, Opened, Choosing, BeforeCommit, Billing
  <1>4. TargetInv'
    BY <1>1, <1>2 DEF LifeInv, TargetInv, Existing, Open, Goto, TypeOK
  <1> QED  BY <1>3, <1>4 DEF LifeInv

LEMMA LifeUpdate ==
  ASSUME TypeOK, LifeInv, NEW r \in Requests, NEW from \in OnProposal, NEW to \in OnProposal,
         NEW row \in Row, Step(r, from, to), Write(target[r], row),
         row.options = proposal[target[r]].options, row.token # NoToken,
         row.status \notin {"absent", "draft"},
         to # "recordView", to \in Choosing => from \in Choosing
  PROVE  LifeInv'
  <1>1. target[r] \in Proposals /\ proposal[target[r]].status # "absent"
    BY DEF LifeInv, TargetInv, Existing, Step
  <1>2. ComposeInv'
    BY <1>1 DEF LifeInv, ComposeInv, Step, Goto, Write, TypeOK,
                OnProposal, Opened, Choosing, BeforeCommit, Billing
  <1>3. TargetInv'
    BY <1>1 DEF LifeInv, TargetInv, Existing, Step, Goto, Write, TypeOK,
                OnProposal, Opened, Choosing, BeforeCommit, Billing
  <1> QED  BY <1>2, <1>3 DEF LifeInv

-----------------------------------------------------------------------------
(* Each action keeps the types and LifeInv. *)

Inv1 == TypeOK /\ LifeInv

LEMMA ComposeKeepsInv1 ==
  ASSUME Inv1, NEW p \in Proposals, ComposeCount(p) \/ ComposeInsert(p) \/ Expire(p)
  PROVE  Inv1'
  <1> p \in Requests  BY DEF Requests
  <1> USE DEF Inv1
  <1>1. CASE ComposeCount(p)
    <2> DEFINE draft(menu, upfront) == Draft(menu, upfront, Cardinality(Existing) + 1)
    <2>1. PICK menu \in Menus, upfront \in BOOLEAN :
             seen' = [seen EXCEPT ![p] = draft(menu, upfront)]
      BY <1>1 DEF ComposeCount
    <2>2. draft(menu, upfront) \in Row
      BY CountIsNat, DraftType, MenusAssumption
    <2>3. /\ draft(menu, upfront).status = "draft"
          /\ draft(menu, upfront).token = NoToken
          /\ draft(menu, upfront).selected = NoOption
      BY DEF Draft, NoRow
    <2> HIDE DEF draft
    <2>4. TypeOK'
      <3>1. seen' \in [Requests -> Row]
        BY <2>1, <2>2 DEF TypeOK
      <3>2. /\ pc' \in [Requests -> Steps]
            /\ target' \in [Requests -> Proposals \cup {NoProposal}]
        BY <1>1 DEF ComposeCount, Goto, TypeOK, Steps
      <3> QED  BY <1>1, <3>1, <3>2 DEF ComposeCount, TypeOK, database, outside
    <2>5. ComposeInv'
      BY <1>1, <2>1, <2>3 DEF ComposeCount, Goto, TypeOK, LifeInv, ComposeInv, database
    <2>6. TargetInv'
      BY <1>1, <2>1 DEF ComposeCount, Goto, TypeOK, LifeInv, TargetInv, Existing, database,
                        OnProposal, Opened, Choosing, BeforeCommit, Billing
    <2> QED  BY <2>4, <2>5, <2>6 DEF LifeInv
  <1>2. CASE ComposeInsert(p)
    <2>1. target[p] = p /\ proposal[p].status = "absent" /\ seen[p].status = "draft"
          /\ seen[p].token = NoToken
      BY <1>2 DEF ComposeInsert, LifeInv, ComposeInv
    <2>2. LocalOK'
      BY <1>2, EndType DEF ComposeInsert
    <2>3. TypeOK'
      BY <1>2, <2>1, <2>2 DEF ComposeInsert, Write, Log, Events, EventTypes,
                              TypeOK, LocalOK, outside
    <2>4. ComposeInv'
      BY <1>2, <2>1 DEF ComposeInsert, Write, End, TypeOK, LifeInv, ComposeInv
    <2>5. TargetInv'
      BY <1>2, <2>1 DEF ComposeInsert, Write, End, TypeOK, LifeInv, TargetInv, Existing,
                        OnProposal, Opened, Choosing, BeforeCommit, Billing
    <2> QED  BY <2>3, <2>4, <2>5 DEF LifeInv
  <1>3. CASE Expire(p)
    <2>1. TypeOK'
      BY <1>3, ExpiredRow DEF Expire, Write, TypeOK, outside
    <2>2. LifeInv'
      BY <1>3, ExpiredRow DEF Expire, Write, TypeOK, LifeInv, ComposeInv, TargetInv, Existing
    <2> QED  BY <2>1, <2>2
  <1> QED  BY <1>1, <1>2, <1>3

LEMMA SendKeepsInv1 ==
  ASSUME Inv1, NEW r \in SendReqs,
         (\E p \in Proposals : SendRead(r, p)) \/ Send(r)
  PROVE  Inv1'
  <1> r \in Requests  BY DEF Requests
  <1> USE DEF Inv1
  <1>1. CASE \E p \in Proposals : SendRead(r, p)
    <2>1. PICK p \in Proposals : SendRead(r, p)
      BY <1>1
    <2>2. TypeOK'
      BY <2>1 DEF SendRead, Goto, TypeOK, Steps, database, outside
    <2>3. ComposeInv'
      BY <2>1 DEF SendRead, Goto, TypeOK, LifeInv, ComposeInv, database
    <2>4. TargetInv'
      BY <2>1 DEF SendRead, Goto, TypeOK, LifeInv, TargetInv, Existing, database,
                  Opened, Choosing, BeforeCommit, Billing
    <2> QED  BY <2>2, <2>3, <2>4 DEF LifeInv
  <1>2. ASSUME pc[r] \in OnProposal
        PROVE  target[r] \in Proposals
    BY <1>2 DEF LifeInv, TargetInv, Existing
  <1>3. CASE SendIssue(r)
    <2> DEFINE row == Sent(proposal[target[r]], r)
    <2>1. pc[r] = "issue" /\ target[r] \in Proposals
      BY <1>2, <1>3 DEF SendIssue, Step, OnProposal
    <2>2. /\ row \in Row /\ row.options = proposal[target[r]].options
          /\ row.token # NoToken /\ row.status = "sent"
      BY <2>1, NoTokenAssumption, SentRow DEF TypeOK
    <2>3. Write(target[r], row) /\ Step(r, "issue", "logSent")
      BY <1>3 DEF SendIssue
    <2> HIDE DEF row
    <2>4. LocalOK'
      BY <2>3, StepType DEF Steps
    <2>5. TypeOK'
      BY <1>3, <2>2, <2>3, <2>4 DEF SendIssue, Write, TypeOK, LocalOK, outside
    <2>6. LifeInv'
      BY <2>2, <2>3, LifeUpdate DEF OnProposal, Choosing, BeforeCommit, Billing
    <2> QED  BY <2>5, <2>6
  <1>4. CASE SendLog(r)
    <2>1. LocalOK' /\ LifeInv'
      BY <1>4, StepType, LifeStep
         DEF SendLog, Steps, OnProposal, Opened, Choosing, BeforeCommit, Billing
    <2>2. target[r] \in Proposals
      BY <1>2, <1>4 DEF SendLog, Step, OnProposal
    <2>3. TypeOK'
      BY <1>4, <2>1, <2>2 DEF SendLog, Log, Events, EventTypes, TypeOK, LocalOK, outside
    <2> QED  BY <2>1, <2>3
  <1>5. CASE SendMail(r)
    <2>1. LocalOK' /\ LifeInv'
      BY <1>5, EndType, LifeEnd DEF SendMail, database
    <2>2. TypeOK'
      BY <1>5, <2>1 DEF SendMail, TypeOK, LocalOK, database
    <2> QED  BY <2>1, <2>2
  <1> QED  BY <1>1, <1>3, <1>4, <1>5 DEF Send

LEMMA ViewKeepsInv1 ==
  ASSUME Inv1, NEW r \in ViewReqs,
         (\E p \in Proposals : ViewOpen(r, p)) \/ View(r)
  PROVE  Inv1'
  <1> r \in Requests  BY DEF Requests
  <1> USE DEF Inv1
  <1>1. ASSUME pc[r] \in OnProposal
        PROVE  target[r] \in Proposals
    BY <1>1 DEF LifeInv, TargetInv, Existing
  <1>2. CASE \E p \in Proposals : ViewOpen(r, p)
    <2>1. PICK p \in Proposals : ViewOpen(r, p)
      BY <1>2
    <2>2. TypeOK'
      BY <2>1, OpenType DEF ViewOpen, TypeOK, Steps, database, outside
    <2>3. LifeInv'
      BY <2>1, LifeOpen DEF ViewOpen, database, Opened, Choosing, BeforeCommit, Billing
    <2> QED  BY <2>2, <2>3
  <1>3. CASE ViewRecord(r)
    <2> DEFINE status == StatusOnceViewed(seen[r].status)
               row == Viewed(proposal[target[r]], status)
    <2>1. pc[r] = "recordView" /\ target[r] \in Proposals
      BY <1>1, <1>3 DEF ViewRecord, Step, OnProposal, Opened
    <2>2. status \in Statuses \ {"absent", "draft"}
      BY <2>1 DEF LifeInv, TargetInv, TypeOK, Row, Statuses, StatusOnceViewed
    <2>3. proposal[target[r]].token # NoToken
      BY <2>1 DEF LifeInv, TargetInv, Opened
    <2> HIDE DEF status
    <2>4. /\ row \in Row /\ row.options = proposal[target[r]].options
          /\ row.token # NoToken /\ row.status \notin {"absent", "draft"}
      BY <2>1, <2>2, <2>3, ViewedRow DEF TypeOK
    <2>5. Write(target[r], row) /\ Step(r, "recordView", "logView")
      BY <1>3 DEF ViewRecord, status
    <2> HIDE DEF row
    <2>6. LocalOK'
      BY <2>5, StepType DEF Steps
    <2>7. TypeOK'
      BY <1>3, <2>4, <2>5, <2>6 DEF ViewRecord, Write, TypeOK, LocalOK, outside
    <2>8. LifeInv'
      BY <2>4, <2>5, LifeUpdate DEF OnProposal, Opened, Choosing, BeforeCommit, Billing
    <2> QED  BY <2>7, <2>8
  <1>4. CASE ViewLog(r)
    <2>1. LocalOK' /\ LifeInv'
      BY <1>4, EndType, LifeEnd DEF ViewLog
    <2>2. target[r] \in Proposals
      BY <1>1, <1>4 DEF ViewLog, OnProposal, Opened
    <2>3. TypeOK'
      BY <1>4, <2>1, <2>2 DEF ViewLog, Log, Events, EventTypes, TypeOK, LocalOK, outside
    <2> QED  BY <2>1, <2>3
  <1> QED  BY <1>2, <1>3, <1>4 DEF View

LEMMA SelectKeepsInv1 ==
  ASSUME Inv1, NEW r \in SelectReqs,
         (\E p \in Proposals : SelectOpen(r, p)) \/ Select(r)
  PROVE  Inv1'
  <1> r \in Requests  BY DEF Requests
  <1> USE DEF Inv1
  <1>1. ASSUME pc[r] \in OnProposal
        PROVE  target[r] \in Proposals
    BY <1>1 DEF LifeInv, TargetInv, Existing
  <1>2. CASE \E p \in Proposals : SelectOpen(r, p)
    <2>1. PICK p \in Proposals : SelectOpen(r, p)
      BY <1>2
    <2>2. PICK o \in proposal[p].options : choice' = [choice EXCEPT ![r] = o]
      BY <2>1 DEF SelectOpen
    <2>3. o \in Packages
      BY <2>2 DEF TypeOK, Row
    <2>4. TypeOK'
      BY <2>1, <2>2, <2>3, OpenType DEF SelectOpen, TypeOK, Steps, database, outside
    <2>5. \A q \in Requests : choice'[q] = IF q = r THEN o ELSE choice[q]
      BY <2>2 DEF TypeOK
    <2>6. LifeInv'
      BY <2>1, <2>2, <2>5, LifeOpen DEF SelectOpen, database, Opened, Choosing
    <2> QED  BY <2>4, <2>6
  <1>3. CASE SelectRecord(r)
    <2> DEFINE row == WithChoice(proposal[target[r]], choice[r], "package_selected")
    <2>1. /\ pc[r] = "recordChoice" /\ target[r] \in Proposals
      BY <1>1, <1>3 DEF SelectRecord, Step, OnProposal, Opened, Choosing
    <2>2. choice[r] \in Packages /\ proposal[target[r]].token # NoToken
      BY <2>1 DEF LifeInv, TargetInv, TypeOK, Row, Opened, Choosing
    <2>3. /\ row \in Row /\ row.options = proposal[target[r]].options
          /\ row.token # NoToken /\ row.status = "package_selected"
      <3>1. "package_selected" \in Statuses  BY DEF Statuses
      <3>2. proposal[target[r]] \in Row  BY <2>1 DEF TypeOK
      <3> QED  BY <2>2, <3>1, <3>2, RowWithChoice
    <2>4. Write(target[r], row) /\ Step(r, "recordChoice", "logChoice")
      BY <1>3 DEF SelectRecord
    <2> HIDE DEF row
    <2>5. LocalOK'
      BY <2>4, StepType DEF Steps
    <2>6. TypeOK'
      BY <1>3, <2>3, <2>4, <2>5 DEF SelectRecord, Write, TypeOK, LocalOK, outside
    <2>7. LifeInv'
      BY <2>3, <2>4, LifeUpdate DEF OnProposal, Opened, Choosing, BeforeCommit, Billing
    <2> QED  BY <2>6, <2>7
  <1>4. CASE SelectLog(r)
    <2>1. LocalOK' /\ LifeInv'
      BY <1>4, EndType, LifeEnd DEF SelectLog
    <2>2. target[r] \in Proposals
      BY <1>1, <1>4 DEF SelectLog, OnProposal, Opened
    <2>3. TypeOK'
      BY <1>4, <2>1, <2>2 DEF SelectLog, Log, Events, EventTypes, TypeOK, LocalOK, outside
    <2> QED  BY <2>1, <2>3
  <1> QED  BY <1>2, <1>3, <1>4 DEF Select

LEMMA TermsKeepsInv1 ==
  ASSUME Inv1, NEW r \in TermsReqs,
         (\E p \in Proposals : TermsOpen(r, p)) \/ Terms(r)
  PROVE  Inv1'
  <1> r \in Requests  BY DEF Requests
  <1> USE DEF Inv1
  <1>1. CASE \E p \in Proposals : TermsOpen(r, p)
    <2>1. PICK p \in Proposals : TermsOpen(r, p)
      BY <1>1
    <2>2. TypeOK'
      BY <2>1, OpenType DEF TermsOpen, TypeOK, Steps, database, outside
    <2>3. LifeInv'
      BY <2>1, LifeOpen DEF TermsOpen, database, Opened, Choosing, BeforeCommit, Billing
    <2> QED  BY <2>2, <2>3
  <1>2. CASE TermsLog(r)
    <2>1. LocalOK' /\ LifeInv'
      BY <1>2, EndType, LifeEnd DEF TermsLog
    <2>2. target[r] \in Proposals
      BY <1>2 DEF TermsLog, LifeInv, TargetInv, Existing, OnProposal, Opened
    <2>3. TypeOK'
      BY <1>2, <2>1, <2>2 DEF TermsLog, Log, Events, EventTypes, TypeOK, LocalOK, outside
    <2> QED  BY <2>1, <2>3
  <1> QED  BY <1>1, <1>2 DEF Terms

LEMMA SignKeepsInv1 ==
  ASSUME Inv1, NEW r \in SignReqs,
         (\E p \in Proposals : SignOpen(r, p)) \/ Sign(r)
  PROVE  Inv1'
  <1> r \in Requests  BY DEF Requests
  <1> USE DEF Inv1
  <1>1. ASSUME pc[r] \in OnProposal
        PROVE  target[r] \in Proposals
    BY <1>1 DEF LifeInv, TargetInv, Existing
  <1>2. ASSUME pc[r] \in BeforeCommit \cup Billing
        PROVE  /\ target[r] \in Proposals
               /\ choice[r] \in Packages
               /\ proposal[target[r]].token # NoToken
    BY <1>1, <1>2 DEF LifeInv, TargetInv, TypeOK, Row, OnProposal, Opened, Choosing
  <1>3. ASSUME pc[r] \in BeforeCommit \cup Billing
        PROVE  Document(r) \in Docs
    BY <1>2, <1>3 DEF Document, Docs
  <1>4. CASE \E p \in Proposals : SignOpen(r, p)
    <2>1. PICK p \in Proposals : SignOpen(r, p)
      BY <1>4
    <2>2. PICK o \in Packages :
             o \in proposal[p].options /\ choice' = [choice EXCEPT ![r] = o]
      BY <2>1 DEF SignOpen, Signable
    <2>3. TypeOK'
      BY <2>1, <2>2, OpenType DEF SignOpen, TypeOK, Steps, database, outside
    <2>4. \A q \in Requests : choice'[q] = IF q = r THEN o ELSE choice[q]
      BY <2>2 DEF TypeOK
    <2>5. LifeInv'
      BY <2>1, <2>2, <2>4, LifeOpen DEF SignOpen, database, Opened, Choosing, BeforeCommit
    <2> QED  BY <2>3, <2>5
  <1>5. CASE SignCommit(r)
    <2> DEFINE row == WithChoice(proposal[target[r]], choice[r], "signed")
    <2>1. pc[r] \in BeforeCommit /\ AfterCommit(r) \in Billing
      BY <1>5 DEF SignCommit, Step, BeforeCommit, Billing, AfterCommit, AfterPayment
    <2>2. /\ row \in Row /\ row.options = proposal[target[r]].options
          /\ row.token # NoToken /\ row.status = "signed"
      <3>1. "signed" \in Statuses  BY DEF Statuses
      <3>2. proposal[target[r]] \in Row  BY <2>1, <1>2 DEF TypeOK
      <3> QED  BY <2>1, <1>2, <3>1, <3>2, RowWithChoice
    <2>3. Write(target[r], row) /\ Step(r, "commit", AfterCommit(r))
      BY <1>5 DEF SignCommit
    <2> HIDE DEF row
    <2>4. LocalOK'
      BY <2>1, <2>3, StepType DEF Steps, Billing
    <2>5. proposal' \in [Proposals -> Row]
      BY <2>2, <2>3 DEF Write, TypeOK
    <2>6. /\ signatures' \subseteq Signatures
          /\ signedDocs' \subseteq SignedDocuments
          /\ events' \subseteq Events
      BY <1>5, <2>1, <1>2, <1>3
         DEF SignCommit, Log, Signatures, SignedDocuments, Events, EventTypes, TypeOK
    <2>7. TypeOK'
      BY <1>5, <2>4, <2>5, <2>6 DEF SignCommit, TypeOK, LocalOK, outside
    <2>8. LifeInv'
      BY <2>1, <2>2, <2>3, LifeUpdate DEF OnProposal, Opened, Choosing, BeforeCommit, Billing
    <2> QED  BY <2>7, <2>8
  <1>6. ASSUME NEW from \in BeforeCommit \cup Billing, NEW to \in BeforeCommit \cup Billing,
               Step(r, from, to), UNCHANGED proposal
        PROVE  LocalOK' /\ LifeInv'
    BY <1>6, StepType, LifeStep
       DEF Steps, OnProposal, Opened, Choosing, BeforeCommit, Billing
  <1>7. CASE SignStore(r)
    <2>1. LocalOK' /\ LifeInv'
      BY <1>7, <1>6 DEF SignStore, database, BeforeCommit
    <2>2. TypeOK'
      BY <1>7, <2>1, <1>3 DEF SignStore, Step, BeforeCommit, TypeOK, LocalOK, database
    <2> QED  BY <2>1, <2>2
  <1>8. CASE SignConflict(r)
    <2>1. LocalOK' /\ LifeInv'
      BY <1>8, EndType, LifeEnd DEF SignConflict, database
    <2> QED  BY <1>8, <2>1 DEF SignConflict, TypeOK, LocalOK, database, outside
  <1>9. CASE SignRequestPayment(r)
    <2>1. LocalOK' /\ LifeInv'
      BY <1>9, <1>6 DEF SignRequestPayment, database, Billing
    <2>2. TypeOK'
      BY <1>9, <2>1, <1>2
         DEF SignRequestPayment, Step, Billing, Charges, TypeOK, LocalOK, database
    <2> QED  BY <2>1, <2>2
  <1>10. CASE SignSavePayment(r)
    <2>1. LocalOK' /\ LifeInv'
      BY <1>10, <1>6 DEF SignSavePayment, AfterPayment, Billing
    <2>2. TypeOK'
      BY <1>10, <2>1, <1>2
         DEF SignSavePayment, Step, Billing, Charges, TypeOK, LocalOK, outside
    <2> QED  BY <2>1, <2>2
  <1>11. CASE SignRequestMandate(r)
    <2>1. LocalOK' /\ LifeInv'
      BY <1>11, <1>6 DEF SignRequestMandate, database, Billing
    <2> QED  BY <1>11, <2>1 DEF SignRequestMandate, TypeOK, LocalOK, database, outside
  <1>12. CASE SignSaveMandate(r)
    <2>1. LocalOK' /\ LifeInv'
      BY <1>12, <1>6 DEF SignSaveMandate, Billing
    <2>2. TypeOK'
      BY <1>12, <2>1, <1>2
         DEF SignSaveMandate, Step, Billing, Recurrences, TypeOK, LocalOK, outside
    <2> QED  BY <2>1, <2>2
  <1>13. CASE SignSaveSchedule(r)
    <2>1. LocalOK' /\ LifeInv'
      BY <1>13, <1>6 DEF SignSaveSchedule, Billing
    <2>2. TypeOK'
      BY <1>13, <2>1, <1>2
         DEF SignSaveSchedule, Step, Billing, Recurrences, TypeOK, LocalOK, outside
    <2> QED  BY <2>1, <2>2
  <1>14. ASSUME pc[r] \in Billing, NEW to \in {"signer", "firm"}, MailDocument(r, to)
         PROVE  mails' \subseteq Mails
    BY <1>14, <1>2, <1>3 DEF MailDocument, Mails, TypeOK
  <1>15. CASE SignMailSigner(r)
    <2>1. LocalOK' /\ LifeInv'
      <3>1. CASE FirmHasEmail
        BY <1>15, <3>1, <1>6 DEF SignMailSigner, Step, database, Billing
      <3>2. CASE ~FirmHasEmail
        BY <1>15, <3>2, EndType, LifeEnd DEF SignMailSigner, database
      <3> QED  BY <3>1, <3>2
    <2>2. TypeOK'
      BY <1>15, <2>1, <1>14 DEF SignMailSigner, Billing, TypeOK, LocalOK, database
    <2> QED  BY <2>1, <2>2
  <1>16. CASE SignMailFirm(r)
    <2>1. LocalOK' /\ LifeInv'
      BY <1>16, EndType, LifeEnd DEF SignMailFirm, database
    <2>2. TypeOK'
      BY <1>16, <2>1, <1>14 DEF SignMailFirm, Billing, TypeOK, LocalOK, database
    <2> QED  BY <2>1, <2>2
  <1> QED
    BY <1>4, <1>5, <1>7, <1>8, <1>9, <1>10, <1>11, <1>12, <1>13, <1>15, <1>16 DEF Sign

LEMMA AbortKeepsInv1 ==
  ASSUME Inv1, NEW r \in Requests, Abort(r)
  PROVE  Inv1'
  <1>1. LocalOK' /\ LifeInv'
    BY EndType, LifeEnd DEF Inv1, Abort, database
  <1> QED  BY <1>1 DEF Inv1, Abort, TypeOK, LocalOK, database, outside

LEMMA StutterKeepsInv1 ==
  ASSUME Inv1, UNCHANGED vars
  PROVE  Inv1'
  BY DEF Inv1, TypeOK, LifeInv, ComposeInv, TargetInv, Existing, vars, database, outside

LEMMA InitInv1 == Init => Inv1
  <1> SUFFICES ASSUME Init  PROVE Inv1
    OBVIOUS
  <1>1. TypeOK
    BY NoRowType DEF Init, TypeOK, Steps
  <1>2. \A p \in Proposals : pc[p] = "idle" /\ proposal[p] = NoRow
    BY DEF Init, Requests
  <1>3. ComposeInv
    BY <1>2 DEF ComposeInv, NoRow
  <1>4. TargetInv
    BY DEF Init, TargetInv, OnProposal, Opened, Choosing, BeforeCommit, Billing
  <1> QED  BY <1>1, <1>3, <1>4 DEF Inv1, LifeInv

\* Types and the life of a row are right in every reachable state.
THEOREM TypeCorrect == Spec => []Inv1
  <1>1. Inv1 /\ [Next]_vars => Inv1'
    <2> SUFFICES ASSUME Inv1, Next  PROVE Inv1'
      BY StutterKeepsInv1
    <2> Fallible \subseteq Requests  BY FallibleAssumption
    <2> QED
      BY ComposeKeepsInv1, SendKeepsInv1, ViewKeepsInv1, SelectKeepsInv1, TermsKeepsInv1,
         SignKeepsInv1, AbortKeepsInv1
         DEF Next, Arrive, Compose
  <1> QED  BY InitInv1, <1>1, PTL DEF Spec

\* The type invariant alone.
THEOREM TypesHold == Spec => []TypeOK
  BY TypeCorrect, PTL DEF Inv1

\* A request in flight works on a row that exists, that was sent if a link led
\* there, and that offers the option the request holds.
THEOREM RequestsAreOnLiveRows == Spec => []LifeInv
  BY TypeCorrect, PTL DEF Inv1

-----------------------------------------------------------------------------
(* Signing.  Most steps do not touch what SigningInv speaks of: each request  *)
(* stays where it is, ends, or moves among steps that no signature rests on.  *)

Still(q)   == pc'[q] = pc[q] /\ target'[q] = target[q] /\ choice'[q] = choice[q]
Ended(q)   == pc'[q] \in {"done", "failed"} /\ target'[q] = target[q]
Elsewhere(q) == pc[q] \notin Billing \cup {"done", "failed"} /\ pc'[q] \notin Billing \cup {"commit"}

\* No step takes a row's options, and only signing logs that a proposal is signed.
OptionsKept == \A p \in Existing :
                  proposal'[p].options = proposal[p].options /\ proposal'[p].status # "absent"
NoneSigned  == \A e : e.type = "signed" => (e \in events' <=> e \in events)

Quiet == UNCHANGED <<signatures, signedDocs, payments, mandates, schedules,
                     storage, payRequests, mails>>

LEMMA SigningFrame ==
  ASSUME Inv1, SigningInv, Quiet, OptionsKept, NoneSigned,
         \A q \in Requests : Still(q) \/ Ended(q) \/ Elsewhere(q)
  PROVE  SigningInv'
  <1>1. SignReqs \subseteq Requests
    BY DEF Requests
  <1>2. \A s \in signatures : s.signer \in Requests /\ s.proposal \in Proposals
    BY <1>1 DEF Inv1, TypeOK, Signatures
  <1>3. UnsignedInv'
    BY <1>1 DEF SigningInv, UnsignedInv, Quiet, Still, Ended, Elsewhere, Document
  <1>4. SignatureInv'
    BY <1>2 DEF SigningInv, SignatureInv, Quiet, OptionsKept, Existing, Still, Ended, Elsewhere,
                Billing
  <1>5. BillingInv'
    BY <1>1 DEF SigningInv, BillingInv, Quiet, Still, Ended, Elsewhere, Document, Billing
  <1>6. ChargesInv'
    BY DEF SigningInv, ChargesInv, Quiet
  <1>7. AuditTrail'
    <2>1. /\ (AtMostOne(signatures) /\ AtMostOne(signedDocs))'
          /\ (signedDocs = {[proposal |-> s.proposal, sha |-> s.sha] : s \in signatures})'
          /\ ({s.sha : s \in signatures} \subseteq storage)'
          /\ (\A m \in mails : [proposal |-> m.proposal, sha |-> m.attached] \in signedDocs)'
      BY DEF SigningInv, AuditTrail, AtMostOne, Quiet
    <2>2. \A s \in signatures' : s.sha.option \in proposal'[s.proposal].options
      BY DEF SigningInv, SignatureInv, AuditTrail, OptionsKept, Quiet
    <2>3. {e \in events' : e.type = "signed"} = {e \in events : e.type = "signed"}
      BY DEF NoneSigned
    <2>4. ({e \in events : e.type = "signed"} =
              {[proposal |-> s.proposal, type |-> "signed", by |-> s.signer] : s \in signatures})'
      BY <2>3 DEF SigningInv, AuditTrail, Quiet
    <2> QED  BY <2>1, <2>2, <2>4 DEF AuditTrail
  <1> QED  BY <1>3, <1>4, <1>5, <1>6, <1>7 DEF SigningInv

\* The moves of the request a step belongs to, while the others stand still.
LEMMA MoveStep ==
  ASSUME Inv1, NEW r \in Requests, NEW from, NEW to, Step(r, from, to),
         from \notin Billing \cup {"done", "failed"}, to \notin Billing \cup {"commit"}
  PROVE  \A q \in Requests : Still(q) \/ Ended(q) \/ Elsewhere(q)
  BY DEF Inv1, TypeOK, Step, Goto, Still, Elsewhere

LEMMA MoveEnd ==
  ASSUME Inv1, NEW r \in Requests, NEW outcome \in {"done", "failed"}, End(r, outcome)
  PROVE  \A q \in Requests : Still(q) \/ Ended(q) \/ Elsewhere(q)
  BY DEF Inv1, TypeOK, End, Still, Ended

LEMMA MoveStart ==
  ASSUME Inv1, NEW r \in Requests, NEW next, pc[r] = "idle", Goto(r, next),
         next \notin Billing \cup {"commit"},
         \A q \in Requests \ {r} : target'[q] = target[q] /\ choice'[q] = choice[q]
  PROVE  \A q \in Requests : Still(q) \/ Ended(q) \/ Elsewhere(q)
  BY DEF Inv1, TypeOK, Goto, Still, Elsewhere, Billing

LEMMA OptionsUnchanged ==
  ASSUME UNCHANGED proposal
  PROVE  OptionsKept
  BY DEF OptionsKept, Existing

LEMMA OptionsUpdated ==
  ASSUME Inv1, NEW p \in Proposals, NEW row, Write(p, row),
         proposal[p].status # "absent" => row.options = proposal[p].options /\ row.status # "absent"
  PROVE  OptionsKept
  BY DEF Inv1, TypeOK, Write, OptionsKept, Existing

LEMMA OtherEvents ==
  ASSUME NEW r, NEW type, type # "signed", Log(r, type)
  PROVE  NoneSigned
  BY DEF Log, NoneSigned

LEMMA SameEvents ==
  ASSUME UNCHANGED events
  PROVE  NoneSigned
  BY DEF NoneSigned

LEMMA ComposeKeepsSigning ==
  ASSUME Inv1, SigningInv, NEW p \in Proposals,
         ComposeCount(p) \/ ComposeInsert(p) \/ Expire(p)
  PROVE  SigningInv'
  <1> p \in Requests  BY DEF Requests
  <1>1. CASE ComposeCount(p)
    <2>1. \A q \in Requests : Still(q) \/ Ended(q) \/ Elsewhere(q)
      BY <1>1, MoveStart DEF ComposeCount, Billing
    <2>2. Quiet /\ OptionsKept /\ NoneSigned
      BY <1>1, OptionsUnchanged, SameEvents DEF ComposeCount, Quiet, database, outside
    <2> QED  BY <2>1, <2>2, SigningFrame
  <1>2. CASE ComposeInsert(p)
    <2>1. \A q \in Requests : Still(q) \/ Ended(q) \/ Elsewhere(q)
      BY <1>2, MoveEnd DEF ComposeInsert
    <2>2. proposal[p].status = "absent"
      BY <1>2 DEF ComposeInsert, Inv1, LifeInv, ComposeInv
    <2>3. Quiet /\ OptionsKept /\ NoneSigned
      BY <1>2, <2>2, OptionsUpdated, OtherEvents DEF ComposeInsert, Quiet, outside
    <2> QED  BY <2>1, <2>3, SigningFrame
  <1>3. CASE Expire(p)
    <2>1. \A q \in Requests : Still(q) \/ Ended(q) \/ Elsewhere(q)
      BY <1>3 DEF Expire, Still
    <2>2. proposal[p] \in Row
      BY DEF Inv1, TypeOK
    <2>3. Quiet /\ OptionsKept /\ NoneSigned
      BY <1>3, <2>2, ExpiredRow, OptionsUpdated, SameEvents DEF Expire, Quiet, outside
    <2> QED  BY <2>1, <2>3, SigningFrame
  <1> QED  BY <1>1, <1>2, <1>3

LEMMA SendKeepsSigning ==
  ASSUME Inv1, SigningInv, NEW r \in SendReqs,
         (\E p \in Proposals : SendRead(r, p)) \/ Send(r)
  PROVE  SigningInv'
  <1> r \in Requests  BY DEF Requests
  <1>1. \A q \in Requests : Still(q) \/ Ended(q) \/ Elsewhere(q)
    <2>1. CASE \E p \in Proposals : SendRead(r, p)
      BY <2>1, MoveStart DEF SendRead, Billing
    <2>2. CASE SendIssue(r)
      BY <2>2, MoveStep DEF SendIssue, Billing
    <2>3. CASE SendLog(r)
      BY <2>3, MoveStep DEF SendLog, Billing
    <2>4. CASE SendMail(r)
      BY <2>4, MoveEnd DEF SendMail
    <2> QED  BY <2>1, <2>2, <2>3, <2>4 DEF Send
  <1>2. OptionsKept
    <2>1. CASE SendIssue(r)
      <3>1. target[r] \in Proposals
        BY <2>1 DEF SendIssue, Step, Inv1, LifeInv, TargetInv, Existing, OnProposal
      <3>2. proposal[target[r]] \in Row
        BY <3>1 DEF Inv1, TypeOK
      <3> QED  BY <2>1, <3>1, <3>2, SentRow, OptionsUpdated DEF SendIssue
    <2>2. CASE ~SendIssue(r)
      BY <2>2, OptionsUnchanged DEF Send, SendRead, SendLog, SendMail, database
    <2> QED  BY <2>1, <2>2
  <1>3. NoneSigned
    BY OtherEvents, SameEvents DEF Send, SendRead, SendIssue, SendLog, SendMail, database
  <1>4. Quiet
    BY DEF Quiet, Send, SendRead, SendIssue, SendLog, SendMail, database, outside
  <1> QED  BY <1>1, <1>2, <1>3, <1>4, SigningFrame

LEMMA ViewKeepsSigning ==
  ASSUME Inv1, SigningInv, NEW r \in ViewReqs,
         (\E p \in Proposals : ViewOpen(r, p)) \/ View(r)
  PROVE  SigningInv'
  <1> r \in Requests  BY DEF Requests
  <1>1. \A q \in Requests : Still(q) \/ Ended(q) \/ Elsewhere(q)
    <2>1. CASE \E p \in Proposals : ViewOpen(r, p)
      BY <2>1, MoveStart DEF ViewOpen, Open, Inv1, TypeOK, Billing
    <2>2. CASE ViewRecord(r)
      BY <2>2, MoveStep DEF ViewRecord, Billing
    <2>3. CASE ViewLog(r)
      BY <2>3, MoveEnd DEF ViewLog
    <2> QED  BY <2>1, <2>2, <2>3 DEF View
  <1>2. OptionsKept
    <2>1. CASE ViewRecord(r)
      <3>1. target[r] \in Proposals /\ seen[r].status \in Statuses \ {"absent", "draft"}
        BY <2>1 DEF ViewRecord, Step, Inv1, TypeOK, Row, LifeInv, TargetInv, Existing,
                    OnProposal, Opened
      <3>2. StatusOnceViewed(seen[r].status) \in Statuses \ {"absent"}
        BY <3>1 DEF StatusOnceViewed, Statuses
      <3>3. proposal[target[r]] \in Row
        BY <3>1 DEF Inv1, TypeOK
      <3> QED  BY <2>1, <3>1, <3>2, <3>3, ViewedRow, OptionsUpdated DEF ViewRecord
    <2>2. CASE ~ViewRecord(r)
      BY <2>2, OptionsUnchanged DEF View, ViewOpen, ViewLog, database
    <2> QED  BY <2>1, <2>2
  <1>3. NoneSigned
    <2>1. CASE ViewLog(r)
      BY <2>1, OtherEvents DEF ViewLog
    <2>2. CASE ~ViewLog(r)
      BY <2>2, SameEvents DEF View, ViewOpen, ViewRecord, database
    <2> QED  BY <2>1, <2>2
  <1>4. Quiet
    BY DEF Quiet, View, ViewOpen, ViewRecord, ViewLog, database, outside
  <1> QED  BY <1>1, <1>2, <1>3, <1>4, SigningFrame

LEMMA SelectKeepsSigning ==
  ASSUME Inv1, SigningInv, NEW r \in SelectReqs,
         (\E p \in Proposals : SelectOpen(r, p)) \/ Select(r)
  PROVE  SigningInv'
  <1> r \in Requests  BY DEF Requests
  <1>1. \A q \in Requests : Still(q) \/ Ended(q) \/ Elsewhere(q)
    <2>1. CASE \E p \in Proposals : SelectOpen(r, p)
      BY <2>1, MoveStart DEF SelectOpen, Open, Inv1, TypeOK, Billing
    <2>2. CASE SelectRecord(r)
      BY <2>2, MoveStep DEF SelectRecord, Billing
    <2>3. CASE SelectLog(r)
      BY <2>3, MoveEnd DEF SelectLog
    <2> QED  BY <2>1, <2>2, <2>3 DEF Select
  <1>2. OptionsKept
    <2>1. CASE SelectRecord(r)
      <3>1. target[r] \in Proposals
        BY <2>1 DEF SelectRecord, Step, Inv1, LifeInv, TargetInv, Existing,
                    OnProposal, Opened, Choosing
      <3>2. proposal[target[r]] \in Row /\ choice[r] \in Packages
        BY <2>1, <3>1 DEF SelectRecord, Step, Inv1, TypeOK, Row, LifeInv, TargetInv, Choosing
      <3>3. "package_selected" \in Statuses
        BY DEF Statuses
      <3> QED  BY <2>1, <3>1, <3>2, <3>3, RowWithChoice, OptionsUpdated DEF SelectRecord
    <2>2. CASE ~SelectRecord(r)
      BY <2>2, OptionsUnchanged DEF Select, SelectOpen, SelectLog, database
    <2> QED  BY <2>1, <2>2
  <1>3. NoneSigned
    BY OtherEvents, SameEvents DEF Select, SelectOpen, SelectRecord, SelectLog, database
  <1>4. Quiet
    BY DEF Quiet, Select, SelectOpen, SelectRecord, SelectLog, database, outside
  <1> QED  BY <1>1, <1>2, <1>3, <1>4, SigningFrame

LEMMA TermsKeepsSigning ==
  ASSUME Inv1, SigningInv, NEW r \in TermsReqs,
         (\E p \in Proposals : TermsOpen(r, p)) \/ Terms(r)
  PROVE  SigningInv'
  <1> r \in Requests  BY DEF Requests
  <1>1. \A q \in Requests : Still(q) \/ Ended(q) \/ Elsewhere(q)
    <2>1. CASE \E p \in Proposals : TermsOpen(r, p)
      BY <2>1, MoveStart DEF TermsOpen, Open, Inv1, TypeOK, Billing
    <2>2. CASE TermsLog(r)
      BY <2>2, MoveEnd DEF TermsLog
    <2> QED  BY <2>1, <2>2 DEF Terms
  <1>2. OptionsKept /\ NoneSigned
    BY OptionsUnchanged, OtherEvents, SameEvents DEF Terms, TermsOpen, TermsLog, database
  <1>3. Quiet
    BY DEF Quiet, Terms, TermsOpen, TermsLog, database, outside
  <1> QED  BY <1>1, <1>2, <1>3, SigningFrame

LEMMA AbortKeepsSigning ==
  ASSUME Inv1, SigningInv, NEW r \in Requests, Abort(r)
  PROVE  SigningInv'
  <1>1. \A q \in Requests : Still(q) \/ Ended(q) \/ Elsewhere(q)
    BY MoveEnd DEF Abort
  <1>2. OptionsKept /\ NoneSigned /\ Quiet
    BY OptionsUnchanged, SameEvents DEF Abort, Quiet, database, outside
  <1> QED  BY <1>1, <1>2, SigningFrame

-----------------------------------------------------------------------------
(* The steps of sign. *)

LEMMA SignOpenKeepsSigning ==
  ASSUME Inv1, SigningInv, NEW r \in SignReqs, NEW p \in Proposals, SignOpen(r, p)
  PROVE  SigningInv'
  <1> r \in Requests  BY DEF Requests
  <1>1. \A q \in Requests : Still(q) \/ Ended(q) \/ Elsewhere(q)
    BY MoveStart DEF SignOpen, Open, Inv1, TypeOK, Billing
  <1>2. OptionsKept /\ NoneSigned /\ Quiet
    BY OptionsUnchanged, SameEvents DEF SignOpen, Quiet, database, outside
  <1> QED  BY <1>1, <1>2, SigningFrame

\* Storing the document is all that the transaction still needs.
LEMMA SignStoreKeepsSigning ==
  ASSUME Inv1, SigningInv, NEW r \in SignReqs, SignStore(r)
  PROVE  SigningInv'
  <1> r \in Requests /\ SignReqs \subseteq Requests  BY DEF Requests
  <1>1. \A q \in Requests \ {r} : Still(q)
    BY DEF SignStore, Step, Goto, Still, Inv1, TypeOK
  <1>2. pc[r] = "store" /\ pc'[r] = "commit" /\ target'[r] = target[r] /\ choice'[r] = choice[r]
    BY DEF SignStore, Step, Goto, Inv1, TypeOK
  <1>3. UNCHANGED database /\ UNCHANGED <<payRequests, mails>>
    BY DEF SignStore
  <1>4. Document(r)' = Document(r) /\ Document(r) \in storage' /\ storage \subseteq storage'
    BY <1>2 DEF Document, SignStore
  <1>5. UnsignedInv'
    BY <1>1, <1>4 DEF SigningInv, UnsignedInv, Still, Document
  <1>6. SignatureInv'
    BY <1>1, <1>2, <1>3 DEF SigningInv, SignatureInv, Existing, Still, database, Billing,
                            Inv1, TypeOK, Signatures
  <1>7. BillingInv'
    BY <1>1, <1>2, <1>3 DEF SigningInv, BillingInv, Still, Document, database, Billing
  <1>8. ChargesInv'
    BY <1>3 DEF SigningInv, ChargesInv, database
  <1>9. AuditTrail'
    BY <1>3, <1>4 DEF SigningInv, AuditTrail, AtMostOne, database
  <1> QED  BY <1>5, <1>6, <1>7, <1>8, <1>9 DEF SigningInv

LEMMA SignConflictKeepsSigning ==
  ASSUME Inv1, SigningInv, NEW r \in SignReqs, SignConflict(r)
  PROVE  SigningInv'
  <1> r \in Requests  BY DEF Requests
  <1>1. \A q \in Requests : Still(q) \/ Ended(q) \/ Elsewhere(q)
    BY MoveEnd DEF SignConflict
  <1>2. OptionsKept /\ NoneSigned /\ Quiet
    BY OptionsUnchanged, SameEvents DEF SignConflict, Quiet, database, outside
  <1> QED  BY <1>1, <1>2, SigningFrame

\* The transaction: the only step that adds a signature, and it adds the first.
LEMMA SignCommitKeepsSigning ==
  ASSUME Inv1, SigningInv, NEW r \in SignReqs, SignCommit(r)
  PROVE  SigningInv'
  <1> r \in Requests /\ SignReqs \subseteq Requests  BY DEF Requests
  <1> DEFINE p == target[r]
             signature == [proposal |-> p, signer |-> r, sha |-> Document(r)]
             document == [proposal |-> p, sha |-> Document(r)]
             entry == [proposal |-> p, type |-> "signed", by |-> r]
  <1>1. \A q \in Requests \ {r} : Still(q)
    BY DEF SignCommit, Step, Goto, Still, Inv1, TypeOK
  <1>2. /\ pc[r] = "commit" /\ pc'[r] = AfterCommit(r) /\ target'[r] = p
        /\ choice'[r] = choice[r] /\ Document(r)' = Document(r)
    BY DEF SignCommit, Step, Goto, Inv1, TypeOK, Document
  <1>3. AfterCommit(r) \in {"requestPayment", "requestMandate", "mailSigner"}
        /\ (AfterCommit(r) = "requestMandate" => choice[r] \in Recurring)
    BY DEF AfterCommit, AfterPayment
  <1>4. /\ p \in Proposals /\ proposal[p] \in Row /\ proposal[p].status # "absent"
        /\ choice[r] \in proposal[p].options /\ choice[r] \in Packages
    BY <1>2 DEF Inv1, TypeOK, Row, LifeInv, TargetInv, Existing,
                OnProposal, Opened, Choosing, BeforeCommit
  <1>5. /\ signatures' = signatures \cup {signature}
        /\ signedDocs' = signedDocs \cup {document}
        /\ events' = events \cup {entry}
        /\ UNCHANGED <<payments, mandates, schedules, storage, payRequests, mails>>
        /\ Unsigned(p)
    BY DEF SignCommit, Log, outside
  <1>6. Document(r) \in storage
    BY <1>2 DEF SigningInv, UnsignedInv
  <1>7. Document(r).proposal = p /\ Document(r).signer = r /\ Document(r).option = choice[r]
    BY DEF Document
  <1>8. OptionsKept
    <2>1. "signed" \in Statuses  BY DEF Statuses
    <2> QED  BY <2>1, <1>4, RowWithChoice, OptionsUpdated DEF SignCommit
  <1> HIDE DEF p
  <1>9. UnsignedInv'
    BY <1>1, <1>2, <1>3, <1>5 DEF SigningInv, UnsignedInv, Still, Document
  <1>10. SignatureInv'
    <2>1. ASSUME NEW s \in signatures
          PROVE  /\ s.sha.proposal = s.proposal /\ s.sha.signer = s.signer
                 /\ pc'[s.signer] \in Billing \cup {"done", "failed"}
                 /\ target'[s.signer] = s.proposal
                 /\ s.proposal \in Proposals /\ proposal'[s.proposal].status # "absent"
      <3>1. s.signer \in Requests
        BY DEF Inv1, TypeOK, Signatures
      <3>2. s.signer # r
        BY <1>2 DEF SigningInv, SignatureInv, Billing
      <3> QED  BY <3>1, <3>2, <1>1, <1>8
               DEF SigningInv, SignatureInv, Existing, Still, OptionsKept
    <2>2. /\ signature.sha.proposal = signature.proposal
          /\ signature.sha.signer = signature.signer
          /\ pc'[signature.signer] \in Billing \cup {"done", "failed"}
          /\ target'[signature.signer] = signature.proposal
          /\ signature.proposal \in Proposals
          /\ proposal'[signature.proposal].status # "absent"
      BY <1>2, <1>3, <1>4, <1>7, <1>8 DEF Billing, OptionsKept, Existing
    <2> HIDE DEF signature
    <2> QED  BY <2>1, <2>2, <1>5 DEF SignatureInv, Existing
  <1>11. BillingInv'
    <2>1. ASSUME NEW q \in SignReqs, q # r, pc'[q] \in Billing
          PROVE  /\ [proposal |-> target[q], signer |-> q, sha |-> Document(q)] \in signatures
                 /\ target'[q] = target[q] /\ choice'[q] = choice[q] /\ pc'[q] = pc[q]
                 /\ Document(q)' = Document(q)
      BY <2>1, <1>1 DEF SigningInv, BillingInv, Still, Document
    <2>2. \A q \in SignReqs \ {r} : pc'[q] \in Billing =>
             /\ pc'[q] = "savePayment" => [proposal |-> target'[q], by |-> q] \in payRequests'
             /\ pc'[q] \in {"requestMandate", "saveMandate", "saveSchedule"} =>
                   choice'[q] \in Recurring
             /\ pc'[q] = "saveSchedule" =>
                   [proposal |-> target'[q], by |-> q, option |-> choice'[q]] \in mandates'
      BY <2>1, <1>5 DEF SigningInv, BillingInv
    <2>3. signature \in signatures'
      BY <1>5
    <2> QED  BY <2>1, <2>2, <2>3, <1>2, <1>3, <1>5 DEF BillingInv
  <1>12. ChargesInv'
    BY <1>5 DEF SigningInv, ChargesInv
  <1>13. AuditTrail'
    <2>1. AtMostOne(signatures')
      <3>1. \A s \in signatures : s.proposal # p
        BY <1>5 DEF Unsigned
      <3> QED  BY <3>1, <1>5 DEF SigningInv, AuditTrail, AtMostOne
    <2>2. AtMostOne(signedDocs')
      <3>1. \A d \in signedDocs : d.proposal # p
        BY <1>5 DEF Unsigned
      <3> QED  BY <3>1, <1>5 DEF SigningInv, AuditTrail, AtMostOne
    <2>3. signedDocs' = {[proposal |-> s.proposal, sha |-> s.sha] : s \in signatures'}
      <3> DEFINE Doc(s) == [proposal |-> s.proposal, sha |-> s.sha]
      <3>1. document = Doc(signature)
        OBVIOUS
      <3>2. signedDocs = {Doc(s) : s \in signatures}
        BY DEF SigningInv, AuditTrail
      <3> HIDE DEF signature, document, Doc
      <3>3. {Doc(s) : s \in signatures \cup {signature}} =
              {Doc(s) : s \in signatures} \cup {Doc(signature)}
        OBVIOUS
      <3>4. signedDocs' = {Doc(s) : s \in signatures'}
        BY <3>1, <3>2, <3>3, <1>5
      <3> QED  BY <3>4 DEF Doc
    <2>4. {s.sha : s \in signatures'} \subseteq storage'
      BY <1>5, <1>6 DEF SigningInv, AuditTrail
    <2>5. \A s \in signatures' : s.sha.option \in proposal'[s.proposal].options
      <3>1. \A s \in signatures : s.sha.option \in proposal'[s.proposal].options
        BY <1>8 DEF SigningInv, SignatureInv, AuditTrail, OptionsKept
      <3>2. signature.sha.option \in proposal'[signature.proposal].options
        BY <1>4, <1>7, <1>8 DEF OptionsKept, Existing
      <3> HIDE DEF signature
      <3> QED  BY <3>1, <3>2, <1>5
    <2>6. {e \in events' : e.type = "signed"} =
            {[proposal |-> s.proposal, type |-> "signed", by |-> s.signer] : s \in signatures'}
      <3> DEFINE Entry(s) == [proposal |-> s.proposal, type |-> "signed", by |-> s.signer]
      <3>1. entry = Entry(signature) /\ entry.type = "signed"
        OBVIOUS
      <3>2. {e \in events : e.type = "signed"} = {Entry(s) : s \in signatures}
        BY DEF SigningInv, AuditTrail
      <3> HIDE DEF signature, entry, Entry
      <3>3. {e \in events' : e.type = "signed"} = {e \in events : e.type = "signed"} \cup {entry}
        BY <3>1, <1>5
      <3>4. {Entry(s) : s \in signatures \cup {signature}} =
              {Entry(s) : s \in signatures} \cup {Entry(signature)}
        OBVIOUS
      <3>5. {e \in events' : e.type = "signed"} = {Entry(s) : s \in signatures'}
        BY <3>1, <3>2, <3>3, <3>4, <1>5
      <3> QED  BY <3>5 DEF Entry
    <2>7. \A m \in mails' : [proposal |-> m.proposal, sha |-> m.attached] \in signedDocs'
      BY <1>5 DEF SigningInv, AuditTrail
    <2> QED  BY <2>1, <2>2, <2>3, <2>4, <2>5, <2>6, <2>7 DEF AuditTrail
  <1> QED  BY <1>9, <1>10, <1>11, <1>12, <1>13 DEF SigningInv

\* A step of a request past its transaction: the signatures and documents stay,
\* charges are only added, and r keeps its target, choice and signature.
LEMMA BillingStep ==
  ASSUME Inv1, SigningInv, NEW r \in SignReqs, NEW from \in Billing, NEW to \in Billing,
         Step(r, from, to),
         UNCHANGED <<proposal, events, signatures, signedDocs, storage>>,
         payRequests \subseteq payRequests', mandates \subseteq mandates',
         to = "savePayment" => [proposal |-> target[r], by |-> r] \in payRequests',
         to \in {"requestMandate", "saveMandate", "saveSchedule"} => choice[r] \in Recurring,
         to = "saveSchedule" =>
            [proposal |-> target[r], by |-> r, option |-> choice[r]] \in mandates'
  PROVE  /\ UnsignedInv' /\ SignatureInv' /\ BillingInv'
         /\ [proposal |-> target[r], signer |-> r, sha |-> Document(r)] \in signatures
         /\ Document(r).option = choice[r]
  <1> r \in Requests /\ SignReqs \subseteq Requests  BY DEF Requests
  <1>1. \A q \in Requests \ {r} : Still(q)
    BY DEF Step, Goto, Still, Inv1, TypeOK
  <1>2. /\ pc[r] = from /\ pc'[r] = to /\ target'[r] = target[r]
        /\ choice'[r] = choice[r] /\ Document(r)' = Document(r)
    BY DEF Step, Goto, Inv1, TypeOK, Document
  <1>3. UnsignedInv'
    BY <1>1, <1>2 DEF SigningInv, UnsignedInv, Still, Document, Billing
  <1>4. SignatureInv'
    BY <1>1, <1>2 DEF SigningInv, SignatureInv, Existing, Still, Inv1, TypeOK, Signatures
  <1>5. [proposal |-> target[r], signer |-> r, sha |-> Document(r)] \in signatures
    BY <1>2 DEF SigningInv, BillingInv
  <1>6. BillingInv'
    BY <1>1, <1>2, <1>5 DEF SigningInv, BillingInv, Still, Document
  <1>7. Document(r).option = choice[r]
    BY DEF Document
  <1> QED  BY <1>3, <1>4, <1>5, <1>6, <1>7

LEMMA AuditFrame ==
  ASSUME AuditTrail, UNCHANGED <<proposal, events, signatures, signedDocs, storage>>,
         \A m \in mails' : [proposal |-> m.proposal, sha |-> m.attached] \in signedDocs
  PROVE  AuditTrail'
  BY DEF AuditTrail, AtMostOne

LEMMA SignBillingKeepsSigning ==
  ASSUME Inv1, SigningInv, NEW r \in SignReqs,
         \/ SignRequestPayment(r) \/ SignSavePayment(r)
         \/ SignRequestMandate(r) \/ SignSaveMandate(r) \/ SignSaveSchedule(r)
  PROVE  SigningInv'
  <1> DEFINE signature == [proposal |-> target[r], signer |-> r, sha |-> Document(r)]
             charge == [proposal |-> target[r], by |-> r]
             recurrence == [proposal |-> target[r], by |-> r, option |-> choice[r]]
  <1>1. AuditTrail'
    BY AuditFrame
       DEF SignRequestPayment, SignSavePayment, SignRequestMandate, SignSaveMandate,
           SignSaveSchedule, SigningInv, AuditTrail, database, outside
  <1>2. CASE SignRequestPayment(r)
    <2>1. /\ UnsignedInv' /\ SignatureInv' /\ BillingInv' /\ signature \in signatures
      BY <1>2, BillingStep DEF SignRequestPayment, database, Billing
    <2>2. ChargesInv'
      <3>1. payRequests' = payRequests \cup {charge}
            /\ UNCHANGED <<signatures, payments, mandates, schedules>>
        BY <1>2 DEF SignRequestPayment, database
      <3> QED  BY <2>1, <3>1 DEF SigningInv, ChargesInv
    <2> QED  BY <1>1, <2>1, <2>2 DEF SigningInv
  <1>3. CASE SignSavePayment(r)
    <2>1. /\ UnsignedInv' /\ SignatureInv' /\ BillingInv' /\ signature \in signatures
      BY <1>3, BillingStep DEF SignSavePayment, AfterPayment, outside, Billing
    <2>2. charge \in payRequests
      BY <1>3 DEF SignSavePayment, Step, SigningInv, BillingInv, Billing
    <2>3. ChargesInv'
      <3>1. payments' = payments \cup {charge}
            /\ UNCHANGED <<signatures, payRequests, mandates, schedules>>
        BY <1>3 DEF SignSavePayment, outside
      <3> QED  BY <2>1, <2>2, <3>1 DEF SigningInv, ChargesInv
    <2> QED  BY <1>1, <2>1, <2>3 DEF SigningInv
  <1>4. ASSUME pc[r] \in {"requestMandate", "saveMandate", "saveSchedule"}
        PROVE  choice[r] \in Recurring
    BY <1>4 DEF SigningInv, BillingInv, Billing
  <1>5. CASE SignRequestMandate(r)
    <2>1. /\ UnsignedInv' /\ SignatureInv' /\ BillingInv'
      BY <1>4, <1>5, BillingStep DEF SignRequestMandate, Step, database, outside, Billing
    <2>2. ChargesInv'
      BY <1>5 DEF SignRequestMandate, SigningInv, ChargesInv, database, outside
    <2> QED  BY <1>1, <2>1, <2>2 DEF SigningInv
  <1>6. CASE SignSaveMandate(r)
    <2>1. /\ UnsignedInv' /\ SignatureInv' /\ BillingInv' /\ signature \in signatures
          /\ Document(r).option = choice[r] /\ choice[r] \in Recurring
      BY <1>4, <1>6, BillingStep DEF SignSaveMandate, Step, outside, Billing
    <2>2. ChargesInv'
      <3>1. mandates' = mandates \cup {recurrence}
            /\ UNCHANGED <<signatures, payRequests, payments, schedules>>
        BY <1>6 DEF SignSaveMandate, outside
      <3> QED  BY <2>1, <3>1 DEF SigningInv, ChargesInv
    <2> QED  BY <1>1, <2>1, <2>2 DEF SigningInv
  <1>7. CASE SignSaveSchedule(r)
    <2>1. /\ UnsignedInv' /\ SignatureInv' /\ BillingInv' /\ signature \in signatures
          /\ Document(r).option = choice[r] /\ choice[r] \in Recurring
      BY <1>4, <1>7, BillingStep DEF SignSaveSchedule, Step, outside, Billing
    <2>2. recurrence \in mandates
      BY <1>7 DEF SignSaveSchedule, Step, SigningInv, BillingInv, Billing
    <2>3. ChargesInv'
      <3>1. schedules' = schedules \cup {recurrence}
            /\ UNCHANGED <<signatures, payRequests, payments, mandates>>
        BY <1>7 DEF SignSaveSchedule, outside
      <3> QED  BY <2>1, <2>2, <3>1 DEF SigningInv, ChargesInv
    <2> QED  BY <1>1, <2>1, <2>3 DEF SigningInv
  <1> QED  BY <1>2, <1>3, <1>5, <1>6, <1>7

LEMMA SignMailKeepsSigning ==
  ASSUME Inv1, SigningInv, NEW r \in SignReqs, SignMailSigner(r) \/ SignMailFirm(r)
  PROVE  SigningInv'
  <1> r \in Requests /\ SignReqs \subseteq Requests  BY DEF Requests
  <1>1. /\ [proposal |-> target[r], signer |-> r, sha |-> Document(r)] \in signatures
        /\ [proposal |-> target[r], sha |-> Document(r)] \in signedDocs
    <2> DEFINE signature == [proposal |-> target[r], signer |-> r, sha |-> Document(r)]
    <2>1. signature \in signatures
      BY DEF SignMailSigner, SignMailFirm, SigningInv, BillingInv, Billing
    <2>2. [proposal |-> signature.proposal, sha |-> signature.sha] \in signedDocs
      BY <2>1 DEF SigningInv, AuditTrail
    <2> QED  BY <2>1, <2>2
  <1>2. UNCHANGED <<database, storage, payRequests>>
    BY DEF SignMailSigner, SignMailFirm
  <1>3. AuditTrail'
    <2>1. PICK to : mails' = mails \cup
                       {[proposal |-> target[r], to |-> to, attached |-> Document(r)]}
      BY DEF SignMailSigner, SignMailFirm, MailDocument
    <2>2. \A m \in mails' : [proposal |-> m.proposal, sha |-> m.attached] \in signedDocs
      BY <1>1, <2>1 DEF SigningInv, AuditTrail
    <2> QED  BY <1>2, <2>2, AuditFrame DEF SigningInv, database
  <1>4. ChargesInv'
    BY <1>2 DEF SigningInv, ChargesInv, database
  <1>5. UnsignedInv' /\ SignatureInv' /\ BillingInv'
    <2>1. CASE SignMailSigner(r) /\ FirmHasEmail
      <3>1. Step(r, "mailSigner", "mailFirm")
        BY <2>1 DEF SignMailSigner, Step
      <3> QED  BY <1>2, <3>1, BillingStep DEF database, Billing
    <2>2. CASE End(r, "done")
      <3>1. \A q \in Requests \ {r} : Still(q)
        BY <2>2 DEF End, Still, Inv1, TypeOK
      <3>2. pc'[r] = "done" /\ target'[r] = target[r]
        BY <2>2 DEF End, Inv1, TypeOK
      <3>3. UnsignedInv'
        BY <1>2, <3>1, <3>2 DEF SigningInv, UnsignedInv, Still, Document
      <3>4. SignatureInv'
        BY <1>2, <3>1, <3>2 DEF SigningInv, SignatureInv, Existing, Still, database,
                                Inv1, TypeOK, Signatures
      <3>5. BillingInv'
        BY <1>2, <3>1, <3>2 DEF SigningInv, BillingInv, Still, Document, database, Billing
      <3> QED  BY <3>3, <3>4, <3>5
    <2> QED  BY <2>1, <2>2 DEF SignMailSigner, SignMailFirm
  <1> QED  BY <1>3, <1>4, <1>5 DEF SigningInv

LEMMA StutterKeepsSigning ==
  ASSUME SigningInv, UNCHANGED vars
  PROVE  SigningInv'
  BY DEF SigningInv, UnsignedInv, SignatureInv, BillingInv, ChargesInv, AuditTrail, AtMostOne,
         Existing, Document, vars, database, outside

LEMMA InitSigning == Init => SigningInv
  BY DEF Init, Requests, SigningInv, UnsignedInv, SignatureInv, BillingInv, ChargesInv,
         AuditTrail, AtMostOne, Billing

\* What a signature rests on, and what is raised after it, in every reachable state.
THEOREM SigningCorrect == Spec => [](Inv1 /\ SigningInv)
  <1>1. Inv1 /\ SigningInv /\ [Next]_vars => SigningInv'
    <2> SUFFICES ASSUME Inv1, SigningInv, Next  PROVE SigningInv'
      BY StutterKeepsSigning
    <2> Fallible \subseteq Requests  BY FallibleAssumption
    <2>1. ASSUME NEW r \in SignReqs, Sign(r)
          PROVE  SigningInv'
      BY <2>1, SignStoreKeepsSigning, SignCommitKeepsSigning, SignConflictKeepsSigning,
         SignBillingKeepsSigning, SignMailKeepsSigning
         DEF Sign
    <2> QED
      BY <2>1, ComposeKeepsSigning, SendKeepsSigning, ViewKeepsSigning, SelectKeepsSigning,
         TermsKeepsSigning, SignOpenKeepsSigning, AbortKeepsSigning
         DEF Next, Arrive, Compose
  <1> QED  BY InitSigning, <1>1, TypeCorrect, PTL DEF Spec

\* No client is billed twice, however signings overlap, die and are retried.
THEOREM BillingIsSingle == Spec => []BilledAtMostOnce
  <1>1. Inv1 /\ SigningInv => BilledAtMostOnce
    <2> SUFFICES ASSUME Inv1, SigningInv  PROVE BilledAtMostOnce
      OBVIOUS
    <2>1. AtMostOne(signatures)
      BY DEF SigningInv, AuditTrail
    <2>2. ASSUME NEW x \in payRequests \cup payments, NEW y \in payRequests \cup payments,
                 x.proposal = y.proposal
          PROVE  x = y
      <3>1. x \in Charges /\ y \in Charges
        BY DEF Inv1, TypeOK
      <3>2. x.by = y.by
        BY <2>1, <2>2 DEF AtMostOne, SigningInv, ChargesInv
      <3> QED  BY <2>2, <3>1, <3>2 DEF Charges
    <2>3. ASSUME NEW x \in mandates \cup schedules, NEW y \in mandates \cup schedules,
                 x.proposal = y.proposal
          PROVE  x = y
      <3>1. x \in Recurrences /\ y \in Recurrences
        BY DEF Inv1, TypeOK
      <3>2. x.by = y.by /\ x.option = y.option
        BY <2>1, <2>3 DEF AtMostOne, SigningInv, ChargesInv
      <3> QED  BY <2>3, <3>1, <3>2 DEF Recurrences
    <2> QED  BY <2>2, <2>3 DEF BilledAtMostOnce, AtMostOne
  <1> QED  BY <1>1, SigningCorrect, PTL

\* What is billed is what was signed.
THEOREM BillingIsForTheSignature == Spec => []BillingFollowsSignature
  <1>1. SigningInv => BillingFollowsSignature
    <2> SUFFICES ASSUME SigningInv  PROVE BillingFollowsSignature
      OBVIOUS
    <2>1. ASSUME NEW m \in mandates \cup schedules
          PROVE  /\ m.option \in Recurring
                 /\ \E s \in signatures : s.proposal = m.proposal /\ s.signer = m.by
                 /\ \E d \in signedDocs : d.proposal = m.proposal /\ d.sha.option = m.option
      <3>1. PICK s \in signatures :
               s.proposal = m.proposal /\ s.signer = m.by /\ s.sha.option = m.option
        BY DEF SigningInv, ChargesInv
      <3>2. [proposal |-> s.proposal, sha |-> s.sha] \in signedDocs
        BY DEF SigningInv, AuditTrail
      <3>3. m.option \in Recurring
        BY DEF SigningInv, ChargesInv
      <3> QED  BY <3>1, <3>2, <3>3
    <2> QED  BY <2>1 DEF SigningInv, ChargesInv, BillingFollowsSignature
  <1> QED  BY <1>1, SigningCorrect, PTL

\* The audit trail of every signature is whole.
THEOREM AuditTrailIsWhole == Spec => []AuditTrail
  BY SigningCorrect, PTL DEF SigningInv

=============================================================================
