------------------------------ MODULE Proposals ------------------------------
(***************************************************************************)
(* The proposal life cycle of apps/api/src/proposals: a firm composes and  *)
(* sends proposals; a prospect holding the mailed link views, selects a    *)
(* package, accepts terms and signs; signing bills the client.             *)
(*                                                                         *)
(* The API is a set of Node processes over one PostgreSQL database.  Every *)
(* `await` of a handler is a point where any other request may run, so a   *)
(* handler is a sequence of steps, one per await, and pc[r] names the next *)
(* step of request r.  A handler decides from the row it read first        *)
(* (seen[r]), not from the row as it is when it writes.                    *)
(*                                                                         *)
(* A request the code refuses (400, 403, 404) before its first write       *)
(* changes nothing: it is a stuttering step, its condition is a guard.     *)
(* All rows belong to one tenant.                                          *)
(***************************************************************************)
EXTENDS Naturals, FiniteSets

CONSTANTS
    Proposals,   \* compose requests; each also names the row it inserts
    SendReqs,    \* send requests; each also names the token it generates
    ViewReqs, SelectReqs, TermsReqs, SignReqs,   \* requests of the public wizard
    Fallible,    \* requests that may die between two awaits
    Packages,    \* the service packages of the firm's library
    Recurring,   \* the packages with isRecurring
    Menus,       \* the sets of packages a firm may compose a proposal from
    FirmHasEmail,  \* tenant or branding supportEmail is set
    NoToken, NoOption, NoProposal

Requests ==
    Proposals \cup SendReqs \cup ViewReqs \cup SelectReqs \cup TermsReqs \cup SignReqs

ASSUME ProposalsAssumption == IsFiniteSet(Proposals)
ASSUME RecurringAssumption == Recurring \subseteq Packages
ASSUME MenusAssumption == \A menu \in Menus : menu \subseteq Packages /\ menu # {}
ASSUME FallibleAssumption == Fallible \subseteq Requests
ASSUME NoTokenAssumption == NoToken \notin SendReqs
ASSUME NoProposalAssumption == NoProposal \notin Proposals
ASSUME NoOptionAssumption == NoOption \notin Packages
ASSUME FirmHasEmailAssumption == FirmHasEmail \in BOOLEAN
ASSUME RequestsAssumption ==
    /\ Proposals \cap (SendReqs \cup ViewReqs \cup SelectReqs \cup TermsReqs \cup SignReqs) = {}
    /\ SendReqs \cap (ViewReqs \cup SelectReqs \cup TermsReqs \cup SignReqs) = {}
    /\ ViewReqs \cap (SelectReqs \cup TermsReqs \cup SignReqs) = {}
    /\ SelectReqs \cap (TermsReqs \cup SignReqs) = {}
    /\ TermsReqs \cap SignReqs = {}

VARIABLES
    \* the database
    proposal,     \* the Proposal rows
    events,       \* the ProposalEvent rows
    signatures,   \* the SignatureEvent rows
    signedDocs,   \* the SignedDocument rows
    payments,     \* the Payment rows
    mandates,     \* the ClientPaymentMandate rows
    schedules,    \* the BillingSchedule rows
    \* outside the database
    storage,      \* documents in object storage
    payRequests,  \* payment requests open at the payment provider
    links,        \* tokens mailed to the prospect
    mails,        \* signed documents mailed
    \* the requests being served
    pc, target, seen, choice

database == <<proposal, events, signatures, signedDocs, payments, mandates, schedules>>
outside  == <<storage, payRequests, links, mails>>
vars     == <<database, outside, pc, target, seen, choice>>

-----------------------------------------------------------------------------
(* Rows. *)

Statuses == {"absent", "draft", "sent", "delivered", "viewed", "package_selected", "signed"}

Row == [status : Statuses, token : SendReqs \cup {NoToken}, expired : BOOLEAN,
        firstViewed : BOOLEAN, viewCount : Nat, selected : Packages \cup {NoOption},
        options : SUBSET Packages, upfront : BOOLEAN, number : Nat]

NoRow == [status |-> "absent", token |-> NoToken, expired |-> FALSE,
          firstViewed |-> FALSE, viewCount |-> 0, selected |-> NoOption,
          options |-> {}, upfront |-> FALSE, number |-> 0]

\* A signed PDF is determined by what is rendered into it: the proposal, the
\* option, the signer and the time of signing (the request).  It stands for its
\* SHA-256 and for its storage key too.
Docs == [proposal : Proposals, option : Packages, signer : SignReqs]

EventTypes == {"created", "sent", "first_viewed", "step_viewed",
               "package_selected", "terms_accepted", "signed"}

Events     == [proposal : Proposals, type : EventTypes, by : Requests]
Signatures == [proposal : Proposals, signer : SignReqs, sha : Docs]
SignedDocuments == [proposal : Proposals, sha : Docs]
Charges    == [proposal : Proposals, by : SignReqs]
Recurrences == [proposal : Proposals, by : SignReqs, option : Packages]
Mails      == [proposal : Proposals, to : {"signer", "firm"}, attached : Docs]

Steps == {"idle", "done", "failed", "insert", "issue", "logSent", "mailLink",
          "recordView", "logView", "recordChoice", "logChoice", "logTerms",
          "store", "commit", "requestPayment", "savePayment", "requestMandate",
          "saveMandate", "saveSchedule", "mailSigner", "mailFirm"}

Existing == {p \in Proposals : proposal[p].status # "absent"}
InFlight(r) == pc[r] \notin {"idle", "done", "failed"}

-----------------------------------------------------------------------------
Init ==
    /\ proposal = [p \in Proposals |-> NoRow]
    /\ events = {} /\ signatures = {} /\ signedDocs = {}
    /\ payments = {} /\ mandates = {} /\ schedules = {}
    /\ storage = {} /\ payRequests = {} /\ links = {} /\ mails = {}
    /\ pc = [r \in Requests |-> "idle"]
    /\ target = [r \in Requests |-> NoProposal]
    /\ seen = [r \in Requests |-> NoRow]
    /\ choice = [r \in Requests |-> NoOption]


-----------------------------------------------------------------------------
(* What the handlers share. *)

Goto(r, step) == pc' = [pc EXCEPT ![r] = step]

\* The handler returns or throws: its local variables are gone.
End(r, outcome) ==
    /\ pc' = [pc EXCEPT ![r] = outcome]
    /\ seen' = [seen EXCEPT ![r] = NoRow]
    /\ choice' = [choice EXCEPT ![r] = NoOption]
    /\ UNCHANGED target

Step(r, from, to) == pc[r] = from /\ Goto(r, to) /\ UNCHANGED <<target, seen, choice>>

Write(p, row) == proposal' = [proposal EXCEPT ![p] = row]

Log(r, type) == events' = events \cup {[proposal |-> target[r], type |-> type, by |-> r]}

\* The row a live link opens: p carries the token and has not expired.
ByToken(p) ==
    /\ proposal[p].token \in links
    /\ proposal[p].expired => proposal[p].status = "signed"

\* A public request starts: it loads the row its link opens and keeps a copy.
Open(r, p, next) ==
    /\ pc[r] = "idle"
    /\ ByToken(p)
    /\ target' = [target EXCEPT ![r] = p]
    /\ seen' = [seen EXCEPT ![r] = proposal[p]]
    /\ Goto(r, next)

-----------------------------------------------------------------------------
(* compose: count the firm's proposals, then insert the next number. *)

\* Slip: the number of the last proposal, not the next.
DraftAtCount(menu, upfront, number) ==
    [NoRow EXCEPT !.status = "draft", !.options = menu, !.upfront = upfront, !.number = number - 1]

Draft(menu, upfront, number) ==
    [NoRow EXCEPT !.status = "draft", !.options = menu, !.upfront = upfront, !.number = number]

ComposeCount(p) ==
    /\ pc[p] = "idle"
    /\ \E menu \in Menus, upfront \in BOOLEAN :
          seen' = [seen EXCEPT ![p] = Draft(menu, upfront, Cardinality(Existing) + 1)]
    /\ target' = [target EXCEPT ![p] = p]
    /\ Goto(p, "insert")
    /\ UNCHANGED <<database, outside, choice>>

ComposeInsert(p) ==
    /\ pc[p] = "insert"
    /\ Write(p, seen[p])
    /\ Log(p, "created")
    /\ End(p, "done")
    /\ UNCHANGED <<signatures, signedDocs, payments, mandates, schedules, outside>>

(* send: issue a new token, log it, mail the link. *)

SendRead(r, p) ==
    /\ pc[r] = "idle"
    /\ p \in Existing
    /\ target' = [target EXCEPT ![r] = p]
    /\ Goto(r, "issue")
    /\ UNCHANGED <<database, outside, seen, choice>>

\* Slip: a new link starts the wizard afresh and forgets the selection.
SentAfresh(row, t) ==
    [row EXCEPT !.token = t, !.status = "sent", !.expired = FALSE, !.selected = NoOption]

Sent(row, t) == [row EXCEPT !.token = t, !.status = "sent", !.expired = FALSE]

SendIssue(r) ==
    /\ Step(r, "issue", "logSent")
    /\ Write(target[r], Sent(proposal[target[r]], r))
    /\ UNCHANGED <<events, signatures, signedDocs, payments, mandates, schedules, outside>>

SendLog(r) ==
    /\ Step(r, "logSent", "mailLink")
    /\ Log(r, "sent")
    /\ UNCHANGED <<proposal, signatures, signedDocs, payments, mandates, schedules, outside>>

\* Slip: a proposal that is signed by now needs no mail.
SendMailUnlessSigned(r) ==
    /\ pc[r] = "mailLink"
    /\ links' = IF proposal[target[r]].status = "signed" THEN links ELSE links \cup {r}
    /\ End(r, "done")
    /\ UNCHANGED <<database, storage, payRequests, mails>>

\* Slip: a link already replaced needs no mail.
SendMailIfCurrent(r) ==
    /\ pc[r] = "mailLink"
    /\ links' = IF proposal[target[r]].token # r THEN links ELSE links \cup {r}
    /\ End(r, "done")
    /\ UNCHANGED <<database, storage, payRequests, mails>>

SendMail(r) ==
    /\ pc[r] = "mailLink"
    /\ links' = links \cup {r}
    /\ End(r, "done")
    /\ UNCHANGED <<database, storage, payRequests, mails>>

Expired(row) == [row EXCEPT !.expired = TRUE]

\* Thirty days pass: expiresAt of a proposal that was sent is reached.
Expire(p) ==
    /\ proposal[p].token # NoToken
    /\ ~proposal[p].expired
    /\ Write(p, Expired(proposal[p]))
    /\ UNCHANGED <<events, signatures, signedDocs, payments, mandates, schedules,
                   outside, pc, target, seen, choice>>

-----------------------------------------------------------------------------
(* viewPublic: the counter is incremented in the database, but the status    *)
(* written is computed from the row as it was read.                          *)

StatusOnceViewed(status) == IF status \in {"sent", "delivered"} THEN "viewed" ELSE status

Viewed(row, status) ==
    [row EXCEPT !.viewCount = @ + 1, !.firstViewed = TRUE, !.status = status]

ViewOpen(r, p) ==
    /\ Open(r, p, "recordView")
    /\ UNCHANGED <<database, outside, choice>>

\* Slip: the counter is computed from the copy, not incremented in place.
ViewRecordFromCopy(r) ==
    /\ Step(r, "recordView", "logView")
    /\ Write(target[r], [Viewed(proposal[target[r]], StatusOnceViewed(seen[r].status))
                          EXCEPT !.viewCount = seen[r].viewCount + 1])
    /\ UNCHANGED <<events, signatures, signedDocs, payments, mandates, schedules, outside>>

ViewRecord(r) ==
    /\ Step(r, "recordView", "logView")
    /\ Write(target[r], Viewed(proposal[target[r]], StatusOnceViewed(seen[r].status)))
    /\ UNCHANGED <<events, signatures, signedDocs, payments, mandates, schedules, outside>>

\* Slip: whether this was the first view is asked after it was recorded.
ViewLogFromRow(r) ==
    /\ pc[r] = "logView"
    /\ Log(r, IF proposal[target[r]].firstViewed THEN "step_viewed" ELSE "first_viewed")
    /\ End(r, "done")
    /\ UNCHANGED <<proposal, signatures, signedDocs, payments, mandates, schedules, outside>>

ViewLog(r) ==
    /\ pc[r] = "logView"
    /\ Log(r, IF seen[r].firstViewed THEN "step_viewed" ELSE "first_viewed")
    /\ End(r, "done")
    /\ UNCHANGED <<proposal, signatures, signedDocs, payments, mandates, schedules, outside>>

(* selectPackage *)

WithChoice(row, o, status) == [row EXCEPT !.selected = o, !.status = status]

SelectOpen(r, p) ==
    /\ Open(r, p, "recordChoice")
    /\ \E o \in proposal[p].options : choice' = [choice EXCEPT ![r] = o]
    /\ UNCHANGED <<database, outside>>

SelectRecord(r) ==
    /\ Step(r, "recordChoice", "logChoice")
    /\ Write(target[r], WithChoice(proposal[target[r]], choice[r], "package_selected"))
    /\ UNCHANGED <<events, signatures, signedDocs, payments, mandates, schedules, outside>>

SelectLog(r) ==
    /\ pc[r] = "logChoice"
    /\ Log(r, "package_selected")
    /\ End(r, "done")
    /\ UNCHANGED <<proposal, signatures, signedDocs, payments, mandates, schedules, outside>>

(* acceptTerms *)

TermsOpen(r, p) ==
    /\ Open(r, p, "logTerms")
    /\ UNCHANGED <<database, outside, choice>>

TermsLog(r) ==
    /\ pc[r] = "logTerms"
    /\ Log(r, "terms_accepted")
    /\ End(r, "done")
    /\ UNCHANGED <<proposal, signatures, signedDocs, payments, mandates, schedules, outside>>

-----------------------------------------------------------------------------
(* sign *)

\* The option that is signed: the selected one, else the only one there is.
Signable(row, o) == o \in row.options /\ (o = row.selected \/ row.options = {o})

\* The document request r renders from what it read.
Document(r) == [proposal |-> target[r], option |-> choice[r], signer |-> r]

\* Slip: the selection is taken as it is, set or not.
SignOpenUnselected(r, p) ==
    /\ Open(r, p, "store")
    /\ proposal[p].status # "signed"
    /\ choice' = [choice EXCEPT ![r] = proposal[p].selected]
    /\ UNCHANGED <<database, outside>>

SignOpen(r, p) ==
    /\ Open(r, p, "store")
    /\ proposal[p].status # "signed"
    /\ \E o \in Packages :
          Signable(proposal[p], o) /\ choice' = [choice EXCEPT ![r] = o]
    /\ UNCHANGED <<database, outside>>

SignStore(r) ==
    /\ Step(r, "store", "commit")
    /\ storage' = storage \cup {Document(r)}
    /\ UNCHANGED <<database, payRequests, links, mails>>

\* Slip: the columns are indexed, not unique.
IndexedOnly(p) == TRUE

\* SignatureEvent.proposalId and SignedDocument.proposalId are unique.
Unsigned(p) == \A row \in signatures \cup signedDocs : row.proposal # p

\* Slip: every package gets a mandate.
AfterPaymentAlways(r) == "requestMandate"

AfterPayment(r) == IF choice[r] \in Recurring THEN "requestMandate" ELSE "mailSigner"

\* Slip: either an upfront payment or a mandate.
AfterCommitEither(r) ==
    IF seen[r].upfront /\ choice[r] \notin Recurring THEN "requestPayment" ELSE AfterPayment(r)

AfterCommit(r)  == IF seen[r].upfront THEN "requestPayment" ELSE AfterPayment(r)

\* The four writes of the transaction.
SignCommit(r) ==
    /\ Step(r, "commit", AfterCommit(r))
    /\ Unsigned(target[r])
    /\ signatures' = signatures \cup
          {[proposal |-> target[r], signer |-> r, sha |-> Document(r)]}
    /\ signedDocs' = signedDocs \cup {[proposal |-> target[r], sha |-> Document(r)]}
    /\ Write(target[r], WithChoice(proposal[target[r]], choice[r], "signed"))
    /\ Log(r, "signed")
    /\ UNCHANGED <<payments, mandates, schedules, outside>>

\* A unique constraint rolls the transaction back and the request fails.
\* Slip: the conflict is taken for a retry and the document is mailed again.
SignConflictIgnored(r) ==
    /\ Step(r, "commit", "mailSigner")
    /\ ~Unsigned(target[r])
    /\ UNCHANGED <<database, outside>>

SignConflict(r) ==
    /\ pc[r] = "commit"
    /\ ~Unsigned(target[r])
    /\ End(r, "failed")
    /\ UNCHANGED <<database, outside>>

SignRequestPayment(r) ==
    /\ Step(r, "requestPayment", "savePayment")
    /\ payRequests' = payRequests \cup {[proposal |-> target[r], by |-> r]}
    /\ UNCHANGED <<database, storage, links, mails>>

SignSavePayment(r) ==
    /\ Step(r, "savePayment", AfterPayment(r))
    /\ payments' = payments \cup {[proposal |-> target[r], by |-> r]}
    /\ UNCHANGED <<proposal, events, signatures, signedDocs, mandates, schedules, outside>>

\* The provider's mandate leaves no trace in the system until it is saved.
SignRequestMandate(r) ==
    /\ Step(r, "requestMandate", "saveMandate")
    /\ UNCHANGED <<database, outside>>

\* ClientPaymentMandate.proposalId is unique.  The insert is never refused: only
\* the request that owns the signature gets here (BillingInv).
SignSaveMandate(r) ==
    /\ Step(r, "saveMandate", "saveSchedule")
    /\ \A m \in mandates : m.proposal # target[r]
    /\ mandates' = mandates \cup {[proposal |-> target[r], by |-> r, option |-> choice[r]]}
    /\ UNCHANGED <<proposal, events, signatures, signedDocs, payments, schedules, outside>>

SignSaveSchedule(r) ==
    /\ Step(r, "saveSchedule", "mailSigner")
    /\ schedules' = schedules \cup {[proposal |-> target[r], by |-> r, option |-> choice[r]]}
    /\ UNCHANGED <<proposal, events, signatures, signedDocs, payments, mandates, outside>>

MailDocument(r, to) ==
    mails' = mails \cup {[proposal |-> target[r], to |-> to, attached |-> Document(r)]}

SignMailSigner(r) ==
    /\ pc[r] = "mailSigner"
    /\ MailDocument(r, "signer")
    /\ IF FirmHasEmail
       THEN Goto(r, "mailFirm") /\ UNCHANGED <<target, seen, choice>>
       ELSE End(r, "done")
    /\ UNCHANGED <<database, storage, payRequests, links>>

SignMailFirm(r) ==
    /\ pc[r] = "mailFirm"
    /\ MailDocument(r, "firm")
    /\ End(r, "done")
    /\ UNCHANGED <<database, storage, payRequests, links>>

-----------------------------------------------------------------------------
\* An adapter or the database throws, or the function is stopped at its time
\* limit: what was written stays, the rest of the handler never runs.
Abort(r) ==
    /\ InFlight(r)
    /\ End(r, "failed")
    /\ UNCHANGED <<database, outside>>

\* The next step of a request that has started.
Compose(p) == ComposeInsert(p)
Send(r)    == SendIssue(r) \/ SendLog(r) \/ SendMail(r)
View(r)    == ViewRecord(r) \/ ViewLog(r)
Select(r)  == SelectRecord(r) \/ SelectLog(r)
Terms(r)   == TermsLog(r)
Sign(r)    == \/ SignStore(r) \/ SignCommit(r) \/ SignConflict(r)
              \/ SignRequestPayment(r) \/ SignSavePayment(r)
              \/ SignRequestMandate(r) \/ SignSaveMandate(r) \/ SignSaveSchedule(r)
              \/ SignMailSigner(r) \/ SignMailFirm(r)

\* A request arrives.
Arrive ==
    \/ \E p \in Proposals : ComposeCount(p)
    \/ \E p \in Proposals :
          \/ \E r \in SendReqs   : SendRead(r, p)
          \/ \E r \in ViewReqs   : ViewOpen(r, p)
          \/ \E r \in SelectReqs : SelectOpen(r, p)
          \/ \E r \in TermsReqs  : TermsOpen(r, p)
          \/ \E r \in SignReqs   : SignOpen(r, p)

Next ==
    \/ Arrive
    \/ \E p \in Proposals  : Compose(p) \/ Expire(p)
    \/ \E r \in SendReqs   : Send(r)
    \/ \E r \in ViewReqs   : View(r)
    \/ \E r \in SelectReqs : Select(r)
    \/ \E r \in TermsReqs  : Terms(r)
    \/ \E r \in SignReqs   : Sign(r)
    \/ \E r \in Fallible   : Abort(r)

Spec == Init /\ [][Next]_vars

\* An awaited promise is settled and its continuation runs: the steps of a
\* request that has started are fair, the arrival of requests, expiry and
\* failures are not.
Fairness ==
    /\ \A p \in Proposals  : WF_vars(Compose(p))
    /\ \A r \in SendReqs   : WF_vars(Send(r))
    /\ \A r \in ViewReqs   : WF_vars(View(r))
    /\ \A r \in SelectReqs : WF_vars(Select(r))
    /\ \A r \in TermsReqs  : WF_vars(Terms(r))
    /\ \A r \in SignReqs   : WF_vars(Sign(r))

FairSpec == Spec /\ Fairness

-----------------------------------------------------------------------------
(* Properties. *)

\* Every variable holds rows, tokens and steps of the kinds the schema and the
\* handlers give it.
TypeOK ==
    /\ proposal \in [Proposals -> Row]
    /\ events \subseteq Events
    /\ signatures \subseteq Signatures
    /\ signedDocs \subseteq SignedDocuments
    /\ payments \subseteq Charges
    /\ mandates \subseteq Recurrences
    /\ schedules \subseteq Recurrences
    /\ storage \subseteq Docs
    /\ payRequests \subseteq Charges
    /\ links \subseteq SendReqs
    /\ mails \subseteq Mails
    /\ pc \in [Requests -> Steps]
    /\ target \in [Requests -> Proposals \cup {NoProposal}]
    /\ seen \in [Requests -> Row]
    /\ choice \in [Requests -> Packages \cup {NoOption}]

AtMostOne(rows) == \A x, y \in rows : x.proposal = y.proposal => x = y

\* Whatever signings of one proposal overlap, die or are retried, the client is
\* billed at most once: one request at the payment provider, one payment, one
\* mandate, one schedule.  (The Payment table has no unique key: only the
\* signature that precedes the billing prevents a second one.)
BilledAtMostOnce ==
    AtMostOne(payRequests) /\ AtMostOne(payments) /\ AtMostOne(mandates) /\ AtMostOne(schedules)

\* What is billed is what was signed: each billing row was made by the request
\* whose signature is on record, a mandate and its schedule are for the option
\* in the signed document, that option recurs, and no schedule lacks its mandate.
BillingFollowsSignature ==
    /\ \A x \in payRequests \cup payments \cup mandates \cup schedules :
          \E s \in signatures : s.proposal = x.proposal /\ s.signer = x.by
    /\ \A m \in mandates \cup schedules :
          /\ m.option \in Recurring
          /\ \E d \in signedDocs : d.proposal = m.proposal /\ d.sha.option = m.option
    /\ schedules \subseteq mandates
    /\ payments \subseteq payRequests

\* The audit trail of a signature is whole: the one document on record for the
\* proposal carries the signature's hash, is in storage, is for an option the
\* firm offered, was logged as signed by the same request, and is what was
\* mailed; and a proposal nobody signed has none of these.
AuditTrail ==
    /\ AtMostOne(signatures) /\ AtMostOne(signedDocs)
    /\ signedDocs = {[proposal |-> s.proposal, sha |-> s.sha] : s \in signatures}
    /\ {s.sha : s \in signatures} \subseteq storage
    /\ \A s \in signatures : s.sha.option \in proposal[s.proposal].options
    /\ {e \in events : e.type = "signed"} =
          {[proposal |-> s.proposal, type |-> "signed", by |-> s.signer] : s \in signatures}
    /\ \A m \in mails : [proposal |-> m.proposal, sha |-> m.attached] \in signedDocs

\* A status is never claimed without its evidence, although viewPublic writes
\* back a status it read earlier: a signed proposal has a signature, a proposal
\* past sent has been sent, a viewed one has been viewed, a selected package is
\* one of the options, and no write brings back draft.
StatusHasEvidence ==
    \A p \in Existing :
       LET row == proposal[p] IN
       /\ row.status = "signed" => \E s \in signatures : s.proposal = p
       /\ row.status = "draft" <=> row.token = NoToken
       /\ row.status = "viewed" => row.firstViewed
       /\ row.status = "package_selected" => row.selected # NoOption
       /\ row.selected # NoOption => row.selected \in row.options

ViewEvents(p) ==
    {e \in events : e.proposal = p /\ e.type \in {"first_viewed", "step_viewed"}}

\* Concurrent views lose no count: viewCount is the number of logged views, up
\* to the views between their two writes and those that died.
ViewsCounted ==
    \A p \in Proposals :
       LET pending == {r \in ViewReqs : target[r] = p /\ pc[r] \in {"logView", "failed"}} IN
       /\ Cardinality(ViewEvents(p)) <= proposal[p].viewCount
       /\ proposal[p].viewCount <= Cardinality(ViewEvents(p)) + Cardinality(pending)

\* The first view is not lost: once some view has marked the proposal viewed,
\* a first_viewed event exists unless its request is still to log it or died.
FirstViewRecorded ==
    \A p \in Proposals : proposal[p].firstViewed =>
       \/ \E e \in ViewEvents(p) : e.type = "first_viewed"
       \/ \E r \in ViewReqs :
             /\ target[r] = p
             /\ pc[r] = "failed" \/ (pc[r] = "logView" /\ ~seen[r].firstViewed)

\* The token in force can be known to the prospect: the send that issued it has
\* mailed it, is about to, or died in between.
CurrentLinkMailed ==
    \A p \in Proposals : \A t \in SendReqs : proposal[p].token = t =>
       t \in links \/ pc[t] \in {"logSent", "mailLink", "failed"}

\* compose numbers a proposal one above the count: numbers stay within the
\* count, so a composer no other one overtook inserts a number nobody has.
NumbersFollowCount ==
    /\ \A p \in Existing : proposal[p].number \in 1 .. Cardinality(Existing)
    /\ \A p \in Proposals :
          pc[p] = "insert" /\ seen[p].number = Cardinality(Existing) + 1 =>
             \A q \in Existing : proposal[q].number # seen[p].number

Raised == [request |-> payRequests, payment |-> payments,
           mandate |-> mandates, schedule |-> schedules]

Engaged == [p \in Proposals |->
               {[package |-> d.sha.option, signer |-> d.sha.signer] :
                   d \in {row \in signedDocs : row.proposal = p}}]

Charged == [p \in Proposals |-> [kind \in DOMAIN Raised |->
               {x.by : x \in {row \in Raised[kind] : row.proposal = p}}]]

\* The promise kept: proposals, documents and billing rows, seen as engagements
\* and charges, behave as the abstract specification says.
Promise == INSTANCE Engagement WITH
    Signers <- SignReqs, engaged <- Engaged, charged <- Charged

KeepsPromise == Promise!Spec

\* Unless it fails, signing runs to its end: the upfront payment and the
\* mandate and schedule the signed option calls for are recorded, and the
\* signed document is mailed to the signer.
SigningCompletes ==
    \A p \in Proposals, r \in SignReqs :
       [proposal |-> p, type |-> "signed", by |-> r] \in events ~>
          /\ proposal[p].upfront => [proposal |-> p, by |-> r] \in payments
          /\ \E d \in signedDocs :
                /\ d.proposal = p
                /\ d.sha.option \in Recurring =>
                      [proposal |-> p, by |-> r, option |-> d.sha.option] \in schedules
                /\ [proposal |-> p, to |-> "signer", attached |-> d.sha] \in mails

\* A token that is issued reaches the prospect, even one already replaced.
IssuedLinkIsMailed ==
    \A p \in Proposals, t \in SendReqs : proposal[p].token = t ~> t \in links

\* What the code's own check says of a proposal and the steps of other requests
\* undo: sign refuses a signed proposal ('Already signed'): signed is a final status.
SignedIsFinal ==
    [][\A p \in Proposals :
          proposal[p].status = "signed" => proposal'[p].status = "signed"]_vars

=============================================================================
