----------------------------- MODULE Engagement -----------------------------
(***************************************************************************)
(* What signing a proposal promises, with no requests, links or failures:  *)
(* a proposal is engaged at most once, for one package and by one          *)
(* signature, for good; afterwards, and only then, each charge that the    *)
(* engagement calls for is raised at most once, by that same signature.    *)
(*                                                                         *)
(* Proposals.tla is shown to implement it.                                 *)
(***************************************************************************)
CONSTANTS Proposals, Packages, Recurring, Signers

VARIABLES
    engaged,   \* engaged[p]: the engagements of p, the empty set or one
    charged    \* charged[p][kind]: who raised that kind of charge for p

vars == <<engaged, charged>>

Kinds == {"request", "payment", "mandate", "schedule"}

\* The charges that only a package billed periodically calls for.
Periodic == {"mandate", "schedule"}

\* What must have been raised before a charge of this kind.
Before(kind) == IF kind = "payment" THEN {"request"}
                ELSE IF kind = "schedule" THEN {"mandate"} ELSE {}

Init ==
    /\ engaged = [p \in Proposals |-> {}]
    /\ charged = [p \in Proposals |-> [kind \in Kinds |-> {}]]

Engage(p, o, s) ==
    /\ engaged[p] = {}
    /\ engaged' = [engaged EXCEPT ![p] = {[package |-> o, signer |-> s]}]
    /\ UNCHANGED charged

Charge(p, o, s, kind) ==
    /\ [package |-> o, signer |-> s] \in engaged[p]
    /\ kind \in Periodic => o \in Recurring
    /\ charged[p][kind] = {}
    /\ \A earlier \in Before(kind) : charged[p][earlier] = {s}
    /\ charged' = [charged EXCEPT ![p] = [@ EXCEPT ![kind] = {s}]]
    /\ UNCHANGED engaged

Next ==
    \E p \in Proposals, o \in Packages, s \in Signers :
       \/ Engage(p, o, s)
       \/ \E kind \in Kinds : Charge(p, o, s, kind)

Spec == Init /\ [][Next]_vars

=============================================================================
