------------------------------- MODULE Accounts -------------------------------
(***************************************************************************)
(* Accounts of apps/api/src/auth, and the seed script over the same        *)
(* tables: signup opens a workspace with its owner, an invitation adds a   *)
(* member, a mailed link verifies an address, and the seed, which may run  *)
(* beside the API, die and be run again, lays down a demo workspace.       *)
(*                                                                         *)
(* Users are named by their email and tenants by their slug: the schema    *)
(* makes both unique, and a write that would repeat one fails.  A          *)
(* transaction is one step; everything between two awaits may be           *)
(* interleaved with anything else, and a refused request changes nothing.  *)
(***************************************************************************)
EXTENDS Naturals, FiniteSets

CONSTANTS
    Emails, Slugs, Tiers,
    SignupReqs,      \* each also names the verification link it mails
    VerifyReqs,
    InviteReqs,      \* each also names the invitation it creates
    AcceptReqs,
    SeedRuns,        \* runs of prisma/seed.ts
    Fallible,        \* requests and runs that may die between two awaits
    InviteRoles,     \* the roles people are invited to
    DemoSlug, OwnerEmail, AdminEmail, Starter,   \* what the seed names
    DemoRows,        \* how many rows it inserts after the owner, 10 in the code
    NoTier, NoReq

Requests == SignupReqs \cup VerifyReqs \cup InviteReqs \cup AcceptReqs \cup SeedRuns
Roles    == {"platform_admin", "firm_owner", "firm_admin", "firm_member", "firm_readonly"}

ASSUME AccountsSeed ==
    /\ DemoSlug \in Slugs /\ Starter \in Tiers
    /\ OwnerEmail \in Emails /\ AdminEmail \in Emails /\ OwnerEmail # AdminEmail
    /\ DemoRows \in Nat \ {0}
ASSUME AccountsRoles == InviteRoles \subseteq Roles
ASSUME AccountsFallible == Fallible \subseteq Requests
\* Requests of different kinds are different requests.
ASSUME AccountsRequests ==
    /\ SignupReqs \cap (VerifyReqs \cup InviteReqs \cup AcceptReqs \cup SeedRuns) = {}
    /\ VerifyReqs \cap (InviteReqs \cup AcceptReqs \cup SeedRuns) = {}
    /\ InviteReqs \cap (AcceptReqs \cup SeedRuns) = {}
    /\ AcceptReqs \cap SeedRuns = {}
ASSUME AccountsNull == NoTier \notin Tiers /\ NoReq \notin Requests

VARIABLES
    plans,         \* the tiers that have a Plan row
    tenant,        \* the tier each tenant subscribes to, NoTier: no such tenant
    user,          \* the User rows: "absent", "unverified", "verified"
    admins,        \* users with isPlatformAdmin
    member,        \* the role on the Membership row of a user and a tenant
    verification,  \* the EmailVerification rows
    invitation,    \* the Invitation rows
    granted,       \* sessions opened by signup and acceptInvite
    demo,          \* the demo rows, and the run that inserted each
    pc, req,       \* the next step of a request, and what it was asked
    opened         \* history: who inserted the owner of a workspace

identities == <<tenant, user, admins, member, opened>>
vars == <<plans, identities, verification, invitation, granted, demo, pc, req>>

Asked == [email : Emails, slug : Slugs, tier : Tiers, role : Roles, link : Requests \cup {NoReq}]

\* What a request that is idle is filled with.
Nothing == [email |-> AdminEmail, slug |-> DemoSlug, tier |-> Starter,
            role |-> "firm_owner", link |-> NoReq]

Steps == {"idle", "done", "failed", "findPlan", "createPlan", "commit", "verification",
          "mail", "issue", "plans", "find", "tenant", "owner", "rows"}

LinkStates == {"absent", "open", "mailed", "used"}

Init ==
    /\ plans = {} /\ admins = {} /\ granted = {} /\ demo = {} /\ opened = {}
    /\ tenant = [s \in Slugs |-> NoTier]
    /\ user = [e \in Emails |-> "absent"]
    /\ member = [x \in Emails \X Slugs |-> "none"]
    /\ verification = [r \in SignupReqs |-> "absent"]
    /\ invitation = [r \in InviteReqs |-> "absent"]
    /\ pc = [r \in Requests |-> "idle"]
    /\ req = [r \in Requests |-> Nothing]

Goto(r, step) == pc' = [pc EXCEPT ![r] = step]

Step(r, from, to) == pc[r] = from /\ Goto(r, to) /\ UNCHANGED req

Arrive(r, asked, step) ==
    /\ pc[r] = "idle"
    /\ Goto(r, step)
    /\ req' = [req EXCEPT ![r] = asked]

Grant(e, s, role) == granted' = granted \cup {[email |-> e, slug |-> s, role |-> role]}

-----------------------------------------------------------------------------
(* signup *)

SignupCheck(r, e, s, t) ==
    /\ user[e] = "absent" /\ tenant[s] = NoTier
    /\ Arrive(r, [Nothing EXCEPT !.email = e, !.slug = s, !.tier = t], "findPlan")
    /\ UNCHANGED <<plans, identities, verification, invitation, granted, demo>>

\* Slip: the plans are taken to be seeded.
SignupFindPlanSeeded(r) ==
    /\ Step(r, "findPlan", "commit")
    /\ UNCHANGED <<plans, identities, verification, invitation, granted, demo>>

\* ensurePlan
SignupFindPlan(r) ==
    /\ Step(r, "findPlan", IF req[r].tier \in plans THEN "commit" ELSE "createPlan")
    /\ UNCHANGED <<plans, identities, verification, invitation, granted, demo>>

\* Plan is unique in tier and interval: the slower of two creators fails.
SignupCreatePlan(r) ==
    /\ pc[r] = "createPlan"
    /\ plans' = plans \cup {req[r].tier}
    /\ Goto(r, IF req[r].tier \in plans THEN "failed" ELSE "commit")
    /\ UNCHANGED <<identities, verification, invitation, granted, demo, req>>

Free(e, s) == user[e] = "absent" /\ tenant[s] = NoTier

SignupCommit(r) ==
    /\ Step(r, "commit", "verification")
    /\ LET e == req[r].email
           s == req[r].slug IN
       /\ Free(e, s)
       /\ tenant' = [tenant EXCEPT ![s] = req[r].tier]
       /\ user' = [user EXCEPT ![e] = "unverified"]
       /\ member' = [member EXCEPT ![<<e, s>>] = "firm_owner"]
    /\ opened' = opened \cup {r}
    /\ UNCHANGED <<plans, admins, verification, invitation, granted, demo>>

\* Slip: without a transaction the tenant stays when the user's insert fails.
SignupConflictKeepsTenant(r) ==
    /\ Step(r, "commit", "failed")
    /\ ~Free(req[r].email, req[r].slug)
    /\ tenant' = [tenant EXCEPT ![req[r].slug] = IF @ = NoTier THEN req[r].tier ELSE @]
    /\ UNCHANGED <<plans, user, admins, member, opened, verification, invitation, granted, demo>>

SignupConflict(r) ==
    /\ Step(r, "commit", "failed")
    /\ ~Free(req[r].email, req[r].slug)
    /\ UNCHANGED <<plans, identities, verification, invitation, granted, demo>>

SignupSaveVerification(r) ==
    /\ Step(r, "verification", "mail")
    /\ verification' = [verification EXCEPT ![r] = "open"]
    /\ UNCHANGED <<plans, identities, invitation, granted, demo>>

SignupMail(r) ==
    /\ Step(r, "mail", "issue")
    /\ verification' = [verification EXCEPT ![r] = "mailed"]
    /\ UNCHANGED <<plans, identities, invitation, granted, demo>>

SignupIssue(r) ==
    /\ Step(r, "issue", "done")
    /\ Grant(req[r].email, req[r].slug, "firm_owner")
    /\ UNCHANGED <<plans, identities, verification, invitation, demo>>

(* verifyEmail: the link is checked, then used; not checked again. *)

VerifyRead(r, link) ==
    /\ verification[link] = "mailed"
    /\ Arrive(r, [Nothing EXCEPT !.email = req[link].email, !.link = link], "commit")
    /\ UNCHANGED <<plans, identities, verification, invitation, granted, demo>>

\* Slip: the link is used up, the user is not marked.
VerifyCommitHalf(r) ==
    /\ Step(r, "commit", "done")
    /\ verification' = [verification EXCEPT ![req[r].link] = "used"]
    /\ UNCHANGED <<plans, identities, invitation, granted, demo>>

VerifyCommit(r) ==
    /\ Step(r, "commit", "done")
    /\ verification' = [verification EXCEPT ![req[r].link] = "used"]
    /\ user' = [user EXCEPT ![req[r].email] = "verified"]
    /\ UNCHANGED <<plans, tenant, admins, member, opened, invitation, granted, demo>>

-----------------------------------------------------------------------------
(* invite and acceptInvite *)

Memberships ==
    {[email |-> x[1], slug |-> x[2], role |-> member[x]] :
        x \in {y \in Emails \X Slugs : member[y] # "none"}}

\* Who acts for a firm with rank firm_admin: the holder of a session that said
\* so when it was opened, here or by a login with the role of the day, and an
\* administrator of the platform in any firm she belongs to.
Inviters ==
    {g \in granted \cup Memberships : g.role \in {"platform_admin", "firm_owner", "firm_admin"}}
      \cup {g \in Memberships : g.email \in admins}

InviteCreate(r, e, role) ==
    /\ \E g \in Inviters :
          Arrive(r, [Nothing EXCEPT !.email = e, !.slug = g.slug, !.role = role], "mail")
    /\ invitation' = [invitation EXCEPT ![r] = "open"]
    /\ UNCHANGED <<plans, identities, verification, granted, demo>>

InviteMail(r) ==
    /\ Step(r, "mail", "done")
    /\ invitation' = [invitation EXCEPT ![r] = "mailed"]
    /\ UNCHANGED <<plans, identities, verification, granted, demo>>

AcceptRead(r, link) ==
    /\ invitation[link] = "mailed"
    /\ Arrive(r, [req[link] EXCEPT !.link = link], "commit")
    /\ UNCHANGED <<plans, identities, verification, invitation, granted, demo>>

\* Slip: a membership is created with the user, and never for a known one.
RoleOnAcceptNew(r) ==
    IF user[req[r].email] = "absent" THEN req[r].role ELSE member[<<req[r].email, req[r].slug>>]

\* The membership is upserted: the invitation's role replaces any role held.
RoleOnAccept(r) == req[r].role

\* Slip: the invitation is not marked as accepted.
AcceptCommitOpen(r) ==
    /\ Step(r, "commit", "issue")
    /\ LET e == req[r].email IN
       /\ user' = [user EXCEPT ![e] = IF @ = "absent" THEN "verified" ELSE @]
       /\ member' = [member EXCEPT ![<<e, req[r].slug>>] = RoleOnAccept(r)]
    /\ UNCHANGED <<plans, tenant, admins, opened, verification, invitation, granted, demo>>

AcceptCommit(r) ==
    /\ Step(r, "commit", "issue")
    /\ LET e == req[r].email IN
       /\ user' = [user EXCEPT ![e] = IF @ = "absent" THEN "verified" ELSE @]
       /\ member' = [member EXCEPT ![<<e, req[r].slug>>] = RoleOnAccept(r)]
    /\ invitation' = [invitation EXCEPT ![req[r].link] = "used"]
    /\ UNCHANGED <<plans, tenant, admins, opened, verification, granted, demo>>

AcceptIssue(r) ==
    /\ Step(r, "issue", "done")
    /\ Grant(req[r].email, req[r].slug, req[r].role)
    /\ UNCHANGED <<plans, identities, verification, invitation, demo>>

-----------------------------------------------------------------------------
(* The seed: upserts for the plans and the administrator, then, unless the    *)
(* demo slug is taken, one insert after the other without a transaction.      *)

SeedPlan(r) ==
    /\ pc[r] \in {"idle", "plans"}
    /\ \E t \in Tiers \ plans : plans' = plans \cup {t}
    /\ Goto(r, "plans")
    /\ UNCHANGED <<identities, verification, invitation, granted, demo, req>>

SeedAdmin(r) ==
    /\ pc[r] \in {"idle", "plans"}
    /\ Tiers \subseteq plans
    /\ admins' = admins \cup {AdminEmail}
    /\ user' = [user EXCEPT ![AdminEmail] = IF @ = "absent" THEN "verified" ELSE @]
    /\ Goto(r, "find")
    /\ UNCHANGED <<plans, tenant, member, opened, verification, invitation, granted, demo, req>>

SeedFind(r) ==
    /\ Step(r, "find", IF tenant[DemoSlug] = NoTier THEN "tenant" ELSE "done")
    /\ UNCHANGED <<plans, identities, verification, invitation, granted, demo>>

\* A slug taken since SeedFind fails the insert, and with it the run.
SeedTenant(r) ==
    /\ Step(r, "tenant", IF tenant[DemoSlug] = NoTier THEN "owner" ELSE "failed")
    /\ tenant' = [tenant EXCEPT ![DemoSlug] = IF @ = NoTier THEN Starter ELSE @]
    /\ UNCHANGED <<plans, user, admins, member, opened, verification, invitation, granted, demo>>

\* Slip: an owner's address that is known is passed over.
AfterOwnerAlways == "rows"

AfterOwner == IF user[OwnerEmail] = "absent" THEN "rows" ELSE "failed"

SeedOwner(r) ==
    /\ Step(r, "owner", AfterOwner)
    /\ \/ /\ user[OwnerEmail] = "absent"
          /\ user' = [user EXCEPT ![OwnerEmail] = "verified"]
          /\ member' = [member EXCEPT ![<<OwnerEmail, DemoSlug>>] = "firm_owner"]
          /\ opened' = opened \cup {r}
       \/ user[OwnerEmail] # "absent" /\ UNCHANGED <<user, member, opened>>
    /\ UNCHANGED <<plans, tenant, admins, verification, invitation, granted, demo>>

SeedRow(r) ==
    LET n == Cardinality({x \in demo : x.by = r}) + 1 IN
    /\ Step(r, "rows", IF n = DemoRows THEN "done" ELSE "rows")
    /\ demo' = demo \cup {[row |-> n, by |-> r]}
    /\ UNCHANGED <<plans, identities, verification, invitation, granted>>

-----------------------------------------------------------------------------
\* The database or the mail service throws, or the process is stopped.
Abort(r) ==
    /\ pc[r] \notin {"idle", "done", "failed"}
    /\ Goto(r, "failed")
    /\ UNCHANGED <<plans, identities, verification, invitation, granted, demo, req>>

Signup(r) == \/ SignupFindPlan(r) \/ SignupCreatePlan(r) \/ SignupCommit(r) \/ SignupConflict(r)
             \/ SignupSaveVerification(r) \/ SignupMail(r) \/ SignupIssue(r)
Accept(r) == AcceptCommit(r) \/ AcceptIssue(r)
Seed(r)   == \/ SeedPlan(r) \/ SeedAdmin(r) \/ SeedFind(r)
             \/ SeedTenant(r) \/ SeedOwner(r) \/ SeedRow(r)

Next ==
    \/ \E r \in SignupReqs :
          (\E e \in Emails, s \in Slugs, t \in Tiers : SignupCheck(r, e, s, t)) \/ Signup(r)
    \/ \E r \in VerifyReqs :
          (\E link \in SignupReqs : VerifyRead(r, link)) \/ VerifyCommit(r)
    \/ \E r \in InviteReqs :
          (\E e \in Emails, role \in InviteRoles : InviteCreate(r, e, role)) \/ InviteMail(r)
    \/ \E r \in AcceptReqs :
          (\E link \in InviteReqs : AcceptRead(r, link)) \/ Accept(r)
    \/ \E r \in SeedRuns : Seed(r)
    \/ \E r \in Fallible : Abort(r)

Spec == Init /\ [][Next]_vars

-----------------------------------------------------------------------------
(* Properties. *)

\* Rows and requests are in states the schema and the code give them, and the
\* tables agree: a subscription has its plan, a member is a user of a tenant.
TypeOK ==
    /\ plans \subseteq Tiers
    /\ tenant \in [Slugs -> plans \cup {NoTier}]
    /\ user \in [Emails -> {"absent", "unverified", "verified"}]
    /\ admins \subseteq {e \in Emails : user[e] # "absent"}
    /\ member \in [Emails \X Slugs -> Roles \cup {"none"}]
    /\ \A x \in Emails \X Slugs : member[x] # "none" =>
          user[x[1]] # "absent" /\ tenant[x[2]] # NoTier
    /\ verification \in [SignupReqs -> LinkStates]
    /\ invitation \in [InviteReqs -> LinkStates]
    /\ granted \subseteq [email : Emails, slug : Slugs, role : Roles]
    /\ demo \subseteq [row : 1 .. DemoRows, by : SeedRuns]
    /\ opened \subseteq SignupReqs \cup SeedRuns
    /\ pc \in [Requests -> Steps]
    /\ req \in [Requests -> Asked]

\* A signup whose transaction went through.
SignedUp(r, e, s) == r \in SignupReqs \cap opened /\ req[r].email = e /\ req[r].slug = s

\* Who was made the owner of a workspace when it was opened.
Founded(e, s) ==
    \/ \E r \in SignupReqs : SignedUp(r, e, s)
    \/ e = OwnerEmail /\ s = DemoSlug /\ SeedRuns \cap opened # {}

\* An invitation to the firm that was accepted.
Accepted(i, e, s, role) ==
    /\ i \in InviteReqs /\ invitation[i] = "used"
    /\ req[i].email = e /\ req[i].slug = s /\ req[i].role = role

\* No workspace is without an owner, although tenant, user and membership are
\* checked long before they are inserted: unless the one who opened it accepted
\* an invitation to a lesser role, or a run of the seed inserted the demo tenant
\* and has not come to its owner, or never will.
TenantHasOwner ==
    \A s \in Slugs : tenant[s] # NoTier =>
       \/ \E e \in Emails : member[<<e, s>>] = "firm_owner"
       \/ \E i \in InviteReqs, e \in Emails, role \in Roles \ {"firm_owner"} :
             Founded(e, s) /\ Accepted(i, e, s, role) /\ member[<<e, s>>] = role
       \/ /\ s = DemoSlug /\ \A e \in Emails : ~Founded(e, s)
          /\ \E r \in SeedRuns : pc[r] \in {"owner", "failed"}

\* Every membership was granted, in this role and in no other workspace: by the
\* signup or the seed that opened the workspace, or by an accepted invitation.
MembershipHasGrant ==
    \A e \in Emails, s \in Slugs : member[<<e, s>>] # "none" =>
       \/ \E i \in InviteReqs : Accepted(i, e, s, member[<<e, s>>])
       \/ member[<<e, s>>] = "firm_owner" /\ Founded(e, s)

\* A session is for a member, in the role the session carries or in one that a
\* later invitation gave: an accepted invitation used twice, or by a user who
\* has an account, never opens a session for somebody who is not in the firm.
SessionIsBacked ==
    \A g \in granted :
       \/ member[<<g.email, g.slug>>] = g.role
       \/ \E i \in InviteReqs : Accepted(i, g.email, g.slug, member[<<g.email, g.slug>>])

\* An address is verified only by a link mailed to it, an invitation mailed to
\* it, or the seed; and a user who signed up and is not verified has a link to
\* follow, unless the signup has not come so far or died on the way (no other
\* request mails one).
VerificationFollowsMail ==
    \A e \in Emails :
       /\ user[e] = "verified" =>
             \/ \E r \in SignupReqs : req[r].email = e /\ verification[r] = "used"
             \/ \E i \in InviteReqs : req[i].email = e /\ invitation[i] = "used"
             \/ e \in {OwnerEmail, AdminEmail} /\ \E r \in SeedRuns : pc[r] # "idle"
       /\ user[e] = "unverified" =>
             \E r \in SignupReqs :
                /\ req[r].email = e
                /\ verification[r] = "mailed" \/ pc[r] \in {"verification", "mail", "failed"}

\* The seed may run twice at once, beside signups, and die: no demo row is
\* inserted twice, and none before the owner; and a run that ended well leaves
\* the demo whole, unless another run is still at it or died half way, or the
\* slug was taken by a signup.
DemoIsSeededOnce ==
    /\ \A x, y \in demo : x.row = y.row => x = y
    /\ demo # {} => member[<<OwnerEmail, DemoSlug>>] # "none"
    /\ \A r \in SeedRuns : pc[r] = "done" =>
          \/ {x.row : x \in demo} = 1 .. DemoRows
          \/ \E q \in SeedRuns : pc[q] \in {"owner", "rows", "failed"}
          \/ \E q \in SignupReqs, e \in Emails : SignedUp(q, e, DemoSlug)

=============================================================================
