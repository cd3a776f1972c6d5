------------------------- MODULE ProposalsInvariant -------------------------
(***************************************************************************)
(* The inductive invariants of Proposals.  They say what the local state   *)
(* of a request in flight guarantees about the database, which the safety  *)
(* properties of Proposals leave out and their proofs need.                *)
(***************************************************************************)
EXTENDS Proposals

\* The steps of sign before its transaction, and after it.
BeforeCommit == {"store", "commit"}
Billing == {"requestPayment", "savePayment", "requestMandate", "saveMandate",
            "saveSchedule", "mailSigner", "mailFirm"}

\* The steps of a request that has found its proposal, those of a request that
\* found it by a link, and those of one that holds an option.
Choosing   == {"recordChoice"} \cup BeforeCommit \cup Billing
Opened     == {"recordView", "logView", "logChoice", "logTerms"} \cup Choosing
OnProposal == {"issue", "logSent", "mailLink"} \cup Opened

-----------------------------------------------------------------------------
(* The life of a row: inserted once, never removed, sent before it is opened. *)

\* A row that compose has not inserted is blank, and a composing request is
\* about to insert a draft.
ComposeInv ==
    \A p \in Proposals :
       /\ pc[p] \in {"idle", "insert"} => proposal[p].status = "absent"
       /\ pc[p] = "insert" => /\ target[p] = p
                              /\ seen[p].status = "draft"
                              /\ seen[p].token = NoToken
                              /\ seen[p].selected = NoOption
       /\ proposal[p].status \in {"absent", "draft"} <=> proposal[p].token = NoToken

\* A request past its first read works on a row that exists; if a link led it
\* there the row has been sent, and an option it holds is one of the row's.
\* viewPublic never remembers a status from before the first send.
TargetInv ==
    \A r \in Requests :
       /\ pc[r] \in OnProposal => target[r] \in Existing
       /\ pc[r] \in Opened => proposal[target[r]].token # NoToken
       /\ pc[r] \in Choosing => choice[r] \in proposal[target[r]].options
       /\ pc[r] = "recordView" => seen[r].status \notin {"absent", "draft"}

LifeInv == ComposeInv /\ TargetInv

-----------------------------------------------------------------------------
(* Statuses. *)

\* The status viewPublic remembers has its evidence, which never goes away.
RememberedInv ==
    \A r \in ViewReqs : pc[r] = "recordView" =>
       /\ seen[r].status = "signed" => \E s \in signatures : s.proposal = target[r]
       /\ seen[r].status = "package_selected" => proposal[target[r]].selected # NoOption

-----------------------------------------------------------------------------
(* Signing. *)

\* The document a signing request is about to commit is in storage.
UnsignedInv ==
    \A r \in SignReqs : pc[r] = "commit" => Document(r) \in storage

\* Each signature was committed by a request that is past its transaction.
SignatureInv ==
    \A s \in signatures :
       /\ s.sha.proposal = s.proposal /\ s.sha.signer = s.signer
       /\ pc[s.signer] \in Billing \cup {"done", "failed"}
       /\ target[s.signer] = s.proposal
       /\ s.proposal \in Existing

\* A request past its transaction owns the signature, and has raised the
\* charges that its step presupposes.
BillingInv ==
    \A r \in SignReqs : pc[r] \in Billing =>
       /\ [proposal |-> target[r], signer |-> r, sha |-> Document(r)] \in signatures
       /\ pc[r] = "savePayment" => [proposal |-> target[r], by |-> r] \in payRequests
       /\ pc[r] \in {"requestMandate", "saveMandate", "saveSchedule"} => choice[r] \in Recurring
       /\ pc[r] = "saveSchedule" =>
             [proposal |-> target[r], by |-> r, option |-> choice[r]] \in mandates

\* Each charge belongs to the signature of its proposal.
ChargesInv ==
    /\ \A x \in payRequests \cup payments :
          \E s \in signatures : s.proposal = x.proposal /\ s.signer = x.by
    /\ \A x \in mandates \cup schedules :
          /\ x.option \in Recurring
          /\ \E s \in signatures :
                s.proposal = x.proposal /\ s.signer = x.by /\ s.sha.option = x.option
    /\ payments \subseteq payRequests
    /\ schedules \subseteq mandates

SigningInv == UnsignedInv /\ SignatureInv /\ BillingInv /\ ChargesInv /\ AuditTrail

=============================================================================
