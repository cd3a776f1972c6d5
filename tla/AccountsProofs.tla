---------------------------- MODULE AccountsProofs ----------------------------
(***************************************************************************)
(* Safety of accounts, for any number of addresses, firms, requests and    *)
(* runs of the seed, any of which may die between two awaits.              *)
(***************************************************************************)
EXTENDS Accounts, FiniteSetTheorems, TLAPS

\* The plan of a workspace about to be opened is there, and nothing removes it.
PlansInv ==
    /\ \A r \in SignupReqs : pc[r] = "commit" => req[r].tier \in plans
    /\ \A r \in SeedRuns : pc[r] \in {"find", "tenant"} => Starter \in plans

\* How far a signup has come is how far its link has come, until it is followed.
LinksInv ==
    \A r \in SignupReqs :
       /\ pc[r] \in {"idle", "findPlan", "createPlan", "commit", "verification"} =>
             verification[r] = "absent"
       /\ pc[r] = "mail" => verification[r] = "open"

\* A link that is being followed was mailed, to the address it verifies.
VerifyInv ==
    \A r \in VerifyReqs : pc[r] = "commit" =>
       /\ req[r].link \in SignupReqs
       /\ req[r].email = req[req[r].link].email
       /\ verification[req[r].link] \in {"mailed", "used"}

\* How far an invitation has come, and that it is to a firm there is.
InvitesInv ==
    \A i \in InviteReqs :
       /\ pc[i] = "idle" => invitation[i] = "absent"
       /\ pc[i] = "mail" => invitation[i] = "open"
       /\ invitation[i] \in {"mailed", "used"} => pc[i] = "done"
       /\ pc[i] # "idle" => tenant[req[i].slug] # NoTier

\* The user is in the firm, in that role or in one a later invitation gave.
Backed(e, s, role) ==
    member[<<e, s>>] = role \/ \E i \in InviteReqs : Accepted(i, e, s, member[<<e, s>>])

\* An accept does what its invitation says, and its user is in the firm before
\* the session is opened.
AcceptInv ==
    \A r \in AcceptReqs : pc[r] \in {"commit", "issue"} =>
       /\ req[r].link \in InviteReqs
       /\ req[r].email = req[req[r].link].email
       /\ req[r].slug = req[req[r].link].slug
       /\ req[r].role = req[req[r].link].role
       /\ invitation[req[r].link] \in {"mailed", "used"}
       /\ pc[r] = "issue" => Backed(req[r].email, req[r].slug, req[r].role)

SignupInv ==
    \A r \in SignupReqs : pc[r] \in {"verification", "mail", "issue"} =>
       Backed(req[r].email, req[r].slug, "firm_owner")

\* A run of the seed that is past the demo's owner, which at most one can be.
PastOwner(r) == pc[r] = "rows" \/ \E x \in demo : x.by = r

Whole == {x.row : x \in demo} = 1 .. DemoRows

SeedInv ==
    /\ \A r \in SeedRuns : pc[r] \in {"owner", "rows", "done"} => tenant[DemoSlug] # NoTier
    /\ \A r \in SeedRuns : PastOwner(r) => member[<<OwnerEmail, DemoSlug>>] # "none"
    /\ \A q, r \in SeedRuns : PastOwner(q) /\ PastOwner(r) => q = r
    /\ tenant[DemoSlug] # NoTier =>
          \/ Whole
          \/ \E q \in SeedRuns : pc[q] \in {"owner", "rows", "failed"}
          \/ \E q \in SignupReqs, e \in Emails : SignedUp(q, e, DemoSlug)

\* That run inserted the demo's first rows, one after the other.
RowsInv ==
    \E k \in 0 .. DemoRows :
       /\ {x.row : x \in demo} = 1 .. k
       /\ IsFiniteSet(demo) /\ Cardinality(demo) = k
       /\ \A x, y \in demo : x.row = y.row => x = y
       /\ \A r \in SeedRuns : pc[r] = "rows" => k < DemoRows

\* Whoever opened a workspace is still in it, and a workspace was opened by
\* somebody, unless it is the demo's and its seed has come no further.
OpenedInv ==
    /\ \A r \in opened : pc[r] # "idle"
    /\ \A e \in Emails, s \in Slugs : Founded(e, s) => member[<<e, s>>] # "none"
    /\ \A s \in Slugs : tenant[s] # NoTier =>
          \/ \E e \in Emails : Founded(e, s)
          \/ s = DemoSlug /\ \E r \in SeedRuns : pc[r] \in {"owner", "failed"}

\* The inductive invariant.
AccountsInv ==
    /\ TypeOK /\ PlansInv /\ LinksInv /\ VerifyInv /\ InvitesInv /\ AcceptInv /\ SignupInv
    /\ SeedInv /\ RowsInv /\ OpenedInv
    /\ MembershipHasGrant /\ SessionIsBacked /\ VerificationFollowsMail

-----------------------------------------------------------------------------
(* What no step undoes. *)

Kept ==
    /\ plans \subseteq plans'
    /\ \A s \in Slugs : tenant[s] # NoTier => tenant'[s] = tenant[s]
    /\ \A e \in Emails : user[e] # "absent" => user'[e] # "absent"
    /\ \A r \in Requests : pc[r] # "idle" => pc'[r] # "idle" /\ req'[r] = req[r]
    /\ \A r \in Requests : pc[r] \in {"done", "failed"} => pc'[r] = pc[r]
    /\ \A i \in InviteReqs : invitation[i] = "used" => invitation'[i] = "used"
    /\ \A i \in InviteReqs : invitation[i] = "mailed" => invitation'[i] \in {"mailed", "used"}
    /\ \A r \in SignupReqs : verification[r] = "used" => verification'[r] = "used"
    /\ \A r \in SignupReqs : verification[r] = "mailed" => verification'[r] \in {"mailed", "used"}
    /\ demo \subseteq demo' /\ opened \subseteq opened'

\* One request moves, as its kind allows.
Moves(r, from, to) ==
    /\ pc[r] \in from /\ pc'[r] \in to
    /\ \A q \in Requests \ {r} : pc'[q] = pc[q]

LEMMA StepMoves ==
  ASSUME TypeOK, NEW r \in Requests, NEW from, NEW to, Step(r, from, to), to \in Steps
  PROVE  /\ Moves(r, {from}, {to}) /\ req' = req
         /\ pc' \in [Requests -> Steps]
  BY DEF Step, Goto, Moves, TypeOK

LEMMA ArriveMoves ==
  ASSUME TypeOK, NEW r \in Requests, NEW asked \in Asked, NEW to \in Steps, Arrive(r, asked, to)
  PROVE  /\ Moves(r, {"idle"}, {to})
         /\ pc' \in [Requests -> Steps] /\ req' \in [Requests -> Asked]
         /\ req'[r] = asked
         /\ \A q \in Requests \ {r} : req'[q] = req[q]
  BY DEF Arrive, Goto, Moves, TypeOK

LEMMA GotoMoves ==
  ASSUME TypeOK, NEW r \in Requests, NEW to \in Steps, Goto(r, to)
  PROVE  Moves(r, {pc[r]}, {to}) /\ pc' \in [Requests -> Steps]
  BY DEF Goto, Moves, TypeOK

LEMMA AskedTypes ==
  ASSUME TypeOK
  PROVE  Nothing \in Asked /\ \A r \in Requests : req[r] \in Asked
  BY AccountsSeed DEF Nothing, Asked, Roles, TypeOK

LEMMA MemberHasFirm ==
  ASSUME TypeOK, NEW e \in Emails, NEW s \in Slugs, member[<<e, s>>] # "none"
  PROVE  user[e] # "absent" /\ tenant[s] # NoTier
  BY DEF TypeOK

LEMMA BackedIsMember ==
  ASSUME TypeOK, NEW e \in Emails, NEW s \in Slugs, NEW role \in Roles, Backed(e, s, role)
  PROVE  member[<<e, s>>] # "none"
  BY AskedTypes DEF Backed, Accepted, Asked, Roles, Requests

\* Who invites acts for a firm there is.
LEMMA InviterHasFirm ==
  ASSUME TypeOK, SessionIsBacked, NEW g \in Inviters
  PROVE  g.slug \in Slugs /\ tenant[g.slug] # NoTier
  <1>1. CASE g \in granted
    BY <1>1, BackedIsMember, MemberHasFirm DEF SessionIsBacked, Backed, TypeOK
  <1>2. CASE g \in Memberships
    BY <1>2, MemberHasFirm DEF Memberships
  <1> QED  BY <1>1, <1>2 DEF Inviters

LEMMA SignupKeeps ==
  ASSUME TypeOK, LinksInv, NEW r \in SignupReqs,
         \/ \E e \in Emails, s \in Slugs, t \in Tiers : SignupCheck(r, e, s, t)
         \/ Signup(r)
  PROVE  Kept
  <1> r \in Requests
    BY DEF Requests
  <1>1. CASE \E e \in Emails, s \in Slugs, t \in Tiers : SignupCheck(r, e, s, t)
    BY <1>1 DEF SignupCheck, Arrive, Goto, Kept, TypeOK, identities
  <1>2. CASE SignupFindPlan(r)
    BY <1>2 DEF SignupFindPlan, Step, Goto, Kept, TypeOK, identities
  <1>3. CASE SignupCreatePlan(r)
    BY <1>3 DEF SignupCreatePlan, Step, Goto, Kept, TypeOK, identities
  <1>4. CASE SignupCommit(r)
    BY <1>4 DEF SignupCommit, Free, Step, Goto, Kept, TypeOK
  <1>5. CASE SignupConflict(r)
    BY <1>5 DEF SignupConflict, Step, Goto, Kept, TypeOK, identities
  <1>6. CASE SignupSaveVerification(r)
    BY <1>6 DEF SignupSaveVerification, Step, Goto, Kept, TypeOK, identities, LinksInv
  <1>7. CASE SignupMail(r)
    BY <1>7 DEF SignupMail, Step, Goto, Kept, TypeOK, identities, LinksInv
  <1>8. CASE SignupIssue(r)
    BY <1>8 DEF SignupIssue, Step, Goto, Kept, TypeOK, identities
  <1> QED  BY <1>1, <1>2, <1>3, <1>4, <1>5, <1>6, <1>7, <1>8 DEF Signup

LEMMA InvitationKeeps ==
  ASSUME TypeOK, InvitesInv, AcceptInv,
         \/ \E r \in InviteReqs :
               (\E e \in Emails, role \in InviteRoles : InviteCreate(r, e, role)) \/ InviteMail(r)
         \/ \E r \in AcceptReqs :
               (\E link \in InviteReqs : AcceptRead(r, link)) \/ Accept(r)
  PROVE  Kept
  <1> InviteReqs \subseteq Requests /\ AcceptReqs \subseteq Requests
    BY DEF Requests
  <1>1. CASE \E r \in InviteReqs, e \in Emails, role \in InviteRoles : InviteCreate(r, e, role)
    <2>1. PICK r \in InviteReqs, e \in Emails, role \in InviteRoles : InviteCreate(r, e, role)
      BY <1>1
    <2>2. PICK g \in Inviters :
             Arrive(r, [Nothing EXCEPT !.email = e, !.slug = g.slug, !.role = role], "mail")
      BY <2>1 DEF InviteCreate
    <2>3. invitation[r] = "absent"
      BY <2>2 DEF Arrive, InvitesInv
    <2> QED
      BY <2>1, <2>2, <2>3 DEF InviteCreate, Arrive, Goto, Kept, TypeOK, identities
  <1>2. CASE \E r \in InviteReqs : InviteMail(r)
    BY <1>2 DEF InviteMail, Step, Goto, Kept, TypeOK, identities, InvitesInv
  <1>3. CASE \E r \in AcceptReqs, link \in InviteReqs : AcceptRead(r, link)
    BY <1>3 DEF AcceptRead, Arrive, Goto, Kept, TypeOK, identities
  <1>4. CASE \E r \in AcceptReqs : AcceptCommit(r)
    BY <1>4 DEF AcceptCommit, Step, Goto, Kept, TypeOK
  <1>5. CASE \E r \in AcceptReqs : AcceptIssue(r)
    BY <1>5 DEF AcceptIssue, Step, Goto, Kept, TypeOK, identities
  <1> QED  BY <1>1, <1>2, <1>3, <1>4, <1>5 DEF Accept

LEMMA SeedKeeps ==
  ASSUME TypeOK, NEW r \in SeedRuns, Seed(r)
  PROVE  Kept
  <1> r \in Requests /\ DemoSlug \in Slugs /\ OwnerEmail \in Emails
    BY AccountsSeed DEF Requests
  <1>1. CASE SeedPlan(r)
    BY <1>1 DEF SeedPlan, Goto, Kept, TypeOK, identities
  <1>2. CASE SeedAdmin(r)
    BY <1>2 DEF SeedAdmin, Goto, Kept, TypeOK
  <1>3. CASE SeedFind(r)
    BY <1>3 DEF SeedFind, Step, Goto, Kept, TypeOK, identities
  <1>4. CASE SeedTenant(r)
    BY <1>4 DEF SeedTenant, Step, Goto, Kept, TypeOK
  <1>5. CASE SeedOwner(r)
    BY <1>5 DEF SeedOwner, AfterOwner, Step, Goto, Kept, TypeOK
  <1>6. CASE SeedRow(r)
    BY <1>6 DEF SeedRow, Step, Goto, Kept, TypeOK, identities
  <1> QED  BY <1>1, <1>2, <1>3, <1>4, <1>5, <1>6 DEF Seed

LEMMA StepKeeps ==
  ASSUME TypeOK, LinksInv, InvitesInv, AcceptInv, Next
  PROVE  Kept
  <1> VerifyReqs \subseteq Requests /\ Fallible \subseteq Requests
    BY AccountsFallible DEF Requests
  <1>1. CASE \E r \in VerifyReqs, link \in SignupReqs : VerifyRead(r, link)
    BY <1>1 DEF VerifyRead, Arrive, Goto, Kept, TypeOK, identities
  <1>2. CASE \E r \in VerifyReqs : VerifyCommit(r)
    BY <1>2 DEF VerifyCommit, Step, Goto, Kept, TypeOK
  <1>3. CASE \E r \in Fallible : Abort(r)
    BY <1>3 DEF Abort, Goto, Kept, TypeOK, identities
  <1> QED  BY <1>1, <1>2, <1>3, SignupKeeps, InvitationKeeps, SeedKeeps DEF Next

-----------------------------------------------------------------------------
(* Types. *)

LEMMA SignupTypes ==
  ASSUME TypeOK, PlansInv, NEW r \in SignupReqs,
         \/ \E e \in Emails, s \in Slugs, t \in Tiers : SignupCheck(r, e, s, t)
         \/ Signup(r)
  PROVE  TypeOK'
  <1> r \in Requests /\ req[r] \in Asked
    BY DEF Requests, TypeOK
  <1> USE DEF TypeOK
  <1>1. CASE \E e \in Emails, s \in Slugs, t \in Tiers : SignupCheck(r, e, s, t)
    <2>1. PICK e \in Emails, s \in Slugs, t \in Tiers : SignupCheck(r, e, s, t)
      BY <1>1
    <2>2. [Nothing EXCEPT !.email = e, !.slug = s, !.tier = t] \in Asked
      BY AskedTypes DEF Asked
    <2>3. pc' \in [Requests -> Steps] /\ req' \in [Requests -> Asked]
      BY <2>1, <2>2, ArriveMoves DEF SignupCheck, Steps
    <2> QED  BY <2>1, <2>3 DEF SignupCheck, identities
  <1>2. CASE SignupFindPlan(r)
    BY <1>2 DEF SignupFindPlan, Step, Goto, Steps, identities
  <1>3. CASE SignupCreatePlan(r)
    BY <1>3 DEF SignupCreatePlan, Goto, Steps, identities, Asked
  <1>4. CASE SignupCommit(r)
    <2>1. pc' \in [Requests -> Steps] /\ req' = req /\ req[r].tier \in plans
      BY <1>4 DEF SignupCommit, Step, Goto, Steps, PlansInv
    <2>2. req[r].email \in Emails /\ req[r].slug \in Slugs
      BY DEF Asked
    <2>3. member' \in [Emails \X Slugs -> Roles \cup {"none"}]
      BY <1>4, <2>2 DEF SignupCommit, Roles
    <2>4. tenant' \in [Slugs -> plans \cup {NoTier}] /\ user' \in [Emails -> {"absent", "unverified", "verified"}]
      BY <1>4, <2>1, <2>2 DEF SignupCommit
    <2>5. \A x \in Emails \X Slugs : member'[x] # "none" =>
             user'[x[1]] # "absent" /\ tenant'[x[2]] # NoTier
      BY <1>4, <2>1, <2>2, AccountsNull DEF SignupCommit
    <2>6. admins' \subseteq {e \in Emails : user'[e] # "absent"}
      BY <1>4, <2>2 DEF SignupCommit
    <2> QED  BY <1>4, <2>1, <2>3, <2>4, <2>5, <2>6 DEF SignupCommit
  <1>5. CASE SignupConflict(r)
    BY <1>5 DEF SignupConflict, Step, Goto, Steps, identities
  <1>6. CASE SignupSaveVerification(r)
    BY <1>6 DEF SignupSaveVerification, Step, Goto, Steps, identities, LinkStates
  <1>7. CASE SignupMail(r)
    BY <1>7 DEF SignupMail, Step, Goto, Steps, identities, LinkStates
  <1>8. CASE SignupIssue(r)
    BY <1>8 DEF SignupIssue, Grant, Step, Goto, Steps, identities, Asked, Roles
  <1> QED  BY <1>1, <1>2, <1>3, <1>4, <1>5, <1>6, <1>7, <1>8 DEF Signup

LEMMA VerifyTypes ==
  ASSUME TypeOK, VerifyInv, NEW r \in VerifyReqs,
         (\E link \in SignupReqs : VerifyRead(r, link)) \/ VerifyCommit(r)
  PROVE  TypeOK'
  <1> r \in Requests /\ req[r] \in Asked /\ SignupReqs \subseteq Requests
    BY DEF Requests, TypeOK
  <1> USE DEF TypeOK
  <1>1. CASE \E link \in SignupReqs : VerifyRead(r, link)
    <2>1. PICK link \in SignupReqs : VerifyRead(r, link)
      BY <1>1
    <2>2. [Nothing EXCEPT !.email = req[link].email, !.link = link] \in Asked
      BY AskedTypes DEF Asked
    <2>3. pc' \in [Requests -> Steps] /\ req' \in [Requests -> Asked]
      BY <2>1, <2>2, ArriveMoves DEF VerifyRead, Steps
    <2> QED  BY <2>1, <2>3 DEF VerifyRead, identities
  <1>2. CASE VerifyCommit(r)
    <2>1. pc' \in [Requests -> Steps] /\ req' = req
      BY <1>2 DEF VerifyCommit, Step, Goto, Steps
    <2>2. /\ user' \in [Emails -> {"absent", "unverified", "verified"}]
          /\ \A e \in Emails : user[e] # "absent" => user'[e] # "absent"
      BY <1>2 DEF VerifyCommit, Asked
    <2>3. verification' \in [SignupReqs -> LinkStates]
      BY <1>2 DEF VerifyCommit, LinkStates
    <2> QED  BY <1>2, <2>1, <2>2, <2>3 DEF VerifyCommit
  <1> QED  BY <1>1, <1>2

LEMMA InvitationTypes ==
  ASSUME TypeOK, InvitesInv, AcceptInv, SessionIsBacked,
         \/ \E r \in InviteReqs :
               (\E e \in Emails, role \in InviteRoles : InviteCreate(r, e, role)) \/ InviteMail(r)
         \/ \E r \in AcceptReqs :
               (\E link \in InviteReqs : AcceptRead(r, link)) \/ Accept(r)
  PROVE  TypeOK'
  <1>1. InviteReqs \subseteq Requests /\ AcceptReqs \subseteq Requests
    BY DEF Requests
  <1>2. ASSUME NEW r \in InviteReqs, NEW e \in Emails, NEW role \in InviteRoles, InviteCreate(r, e, role)
        PROVE  TypeOK'
    <2>1. PICK g \in Inviters :
             Arrive(r, [Nothing EXCEPT !.email = e, !.slug = g.slug, !.role = role], "mail")
      BY <1>2 DEF InviteCreate
    <2>2. [Nothing EXCEPT !.email = e, !.slug = g.slug, !.role = role] \in Asked
      BY AskedTypes, InviterHasFirm, AccountsRoles DEF Asked
    <2>3. pc' \in [Requests -> Steps] /\ req' \in [Requests -> Asked]
      BY <1>1, <2>1, <2>2, ArriveMoves DEF Steps
    <2> QED  BY <1>2, <2>3 DEF InviteCreate, identities, LinkStates, TypeOK
  <1>3. ASSUME NEW r \in InviteReqs, InviteMail(r)
        PROVE  TypeOK'
    BY <1>1, <1>3 DEF InviteMail, Step, Goto, Steps, identities, LinkStates, TypeOK
  <1>4. ASSUME NEW r \in AcceptReqs, NEW link \in InviteReqs, AcceptRead(r, link)
        PROVE  TypeOK'
    <2>1. [req[link] EXCEPT !.link = link] \in Asked
      BY <1>1, AskedTypes DEF Asked
    <2>2. pc' \in [Requests -> Steps] /\ req' \in [Requests -> Asked]
      BY <1>1, <1>4, <2>1, ArriveMoves DEF AcceptRead, Steps
    <2> QED  BY <1>4, <2>2 DEF AcceptRead, identities, TypeOK
  <1>5. ASSUME NEW r \in AcceptReqs, AcceptCommit(r)
        PROVE  TypeOK'
    <2> USE DEF TypeOK
    <2>1. /\ pc' \in [Requests -> Steps] /\ req' = req /\ pc[r] = "commit"
          /\ req[r].email \in Emails /\ req[r].slug \in Slugs /\ req[r].role \in Roles
      BY <1>1, <1>5 DEF AcceptCommit, Step, Goto, Steps, Asked
    <2>2. tenant[req[r].slug] # NoTier /\ req[r].link \in InviteReqs
      BY <1>5, <2>1 DEF AcceptInv, InvitesInv
    <2>3. member' = [member EXCEPT ![<<req[r].email, req[r].slug>>] = req[r].role]
      BY <1>5 DEF AcceptCommit, RoleOnAccept
    <2>4. /\ user' \in [Emails -> {"absent", "unverified", "verified"}]
          /\ \A e \in Emails : user[e] # "absent" => user'[e] # "absent"
          /\ user'[req[r].email] # "absent"
      BY <1>5, <2>1 DEF AcceptCommit
    <2>5. member' \in [Emails \X Slugs -> Roles \cup {"none"}]
      BY <2>1, <2>3
    <2>6. \A x \in Emails \X Slugs : member'[x] # "none" =>
             user'[x[1]] # "absent" /\ tenant[x[2]] # NoTier
      BY <2>1, <2>2, <2>3, <2>4
    <2>7. invitation' \in [InviteReqs -> LinkStates]
      BY <1>5, <2>2 DEF AcceptCommit, LinkStates
    <2> QED  BY <1>5, <2>1, <2>4, <2>5, <2>6, <2>7 DEF AcceptCommit
  <1>6. ASSUME NEW r \in AcceptReqs, AcceptIssue(r)
        PROVE  TypeOK'
    BY <1>1, <1>6 DEF AcceptIssue, Grant, Step, Goto, Steps, identities, Asked, TypeOK
  <1> QED  BY <1>2, <1>3, <1>4, <1>5, <1>6 DEF Accept

LEMMA SeedTypes ==
  ASSUME TypeOK, PlansInv, SeedInv, RowsInv, NEW r \in SeedRuns, Seed(r)
  PROVE  TypeOK'
  <1> r \in Requests /\ DemoSlug \in Slugs /\ OwnerEmail \in Emails /\ AdminEmail \in Emails
    BY AccountsSeed DEF Requests
  <1> USE DEF TypeOK
  <1>1. CASE SeedPlan(r)
    <2>1. plans \subseteq plans' /\ plans' \subseteq Tiers
      BY <1>1 DEF SeedPlan
    <2> QED  BY <1>1, <2>1 DEF SeedPlan, Goto, Steps, identities
  <1>2. CASE SeedAdmin(r)
    <2>1. /\ user' \in [Emails -> {"absent", "unverified", "verified"}]
          /\ \A e \in Emails : user[e] # "absent" => user'[e] # "absent"
          /\ user'[AdminEmail] # "absent"
      BY <1>2 DEF SeedAdmin
    <2>2. pc' \in [Requests -> Steps]
      BY <1>2 DEF SeedAdmin, Goto, Steps
    <2> QED  BY <1>2, <2>1, <2>2 DEF SeedAdmin
  <1>3. CASE SeedFind(r)
    BY <1>3 DEF SeedFind, Step, Goto, Steps, identities
  <1>4. CASE SeedTenant(r)
    <2>1. pc' \in [Requests -> Steps] /\ req' = req
      BY <1>4 DEF SeedTenant, Step, Goto, Steps
    <2>2. /\ tenant' \in [Slugs -> plans \cup {NoTier}]
          /\ \A s \in Slugs : tenant[s] # NoTier => tenant'[s] # NoTier
      BY <1>4 DEF SeedTenant, Step, PlansInv
    <2> QED  BY <1>4, <2>1, <2>2 DEF SeedTenant
  <1>5. CASE SeedOwner(r)
    <2>1. pc' \in [Requests -> Steps] /\ req' = req /\ tenant[DemoSlug] # NoTier
      BY <1>5 DEF SeedOwner, AfterOwner, Step, Goto, Steps, SeedInv
    <2>2. CASE user[OwnerEmail] # "absent"
      BY <1>5, <2>1, <2>2 DEF SeedOwner
    <2>3. CASE user[OwnerEmail] = "absent"
      <3>1. /\ user' \in [Emails -> {"absent", "unverified", "verified"}]
            /\ \A e \in Emails : user[e] # "absent" => user'[e] # "absent"
            /\ user'[OwnerEmail] # "absent"
        BY <1>5, <2>3 DEF SeedOwner
      <3>2. member' \in [Emails \X Slugs -> Roles \cup {"none"}]
        BY <1>5, <2>3 DEF SeedOwner, Roles
      <3>3. \A x \in Emails \X Slugs : member'[x] # "none" =>
               user'[x[1]] # "absent" /\ tenant[x[2]] # NoTier
        BY <1>5, <2>1, <2>3, <3>1 DEF SeedOwner
      <3> QED  BY <1>5, <2>1, <3>1, <3>2, <3>3 DEF SeedOwner
    <2> QED  BY <2>2, <2>3
  <1>6. CASE SeedRow(r)
    <2> DEFINE n == Cardinality({x \in demo : x.by = r}) + 1
    <2>1. n \in 1 .. DemoRows
      <3>1. PICK k \in 0 .. DemoRows :
               /\ IsFiniteSet(demo) /\ Cardinality(demo) = k
               /\ pc[r] = "rows" => k < DemoRows
        BY DEF RowsInv
      <3>2. pc[r] = "rows"
        BY <1>6 DEF SeedRow, Step
      <3>3. {x \in demo : x.by = r} \subseteq demo
        OBVIOUS
      <3>4. /\ Cardinality({x \in demo : x.by = r}) \in Nat
            /\ Cardinality({x \in demo : x.by = r}) <= k
        BY <3>1, <3>3, FS_Subset, FS_CardinalityType
      <3> QED  BY <3>1, <3>2, <3>4, AccountsSeed
    <2>2. demo' = demo \cup {[row |-> n, by |-> r]}
      BY <1>6 DEF SeedRow
    <2>3. pc' \in [Requests -> Steps] /\ req' = req
      BY <1>6 DEF SeedRow, Step, Goto, Steps
    <2> HIDE DEF n
    <2>4. demo' \subseteq [row : 1 .. DemoRows, by : SeedRuns]
      BY <2>1, <2>2
    <2> QED  BY <1>6, <2>3, <2>4 DEF SeedRow, identities
  <1> QED  BY <1>1, <1>2, <1>3, <1>4, <1>5, <1>6 DEF Seed

LEMMA StepTypes ==
  ASSUME AccountsInv, Next
  PROVE  TypeOK'
  <1> USE DEF AccountsInv
  <1>1. CASE \E r \in Fallible : Abort(r)
    BY <1>1, AccountsFallible DEF Abort, Goto, Steps, identities, TypeOK
  <1> QED  BY <1>1, SignupTypes, VerifyTypes, InvitationTypes, SeedTypes DEF Next

-----------------------------------------------------------------------------
(* Who joins a firm, and how a firm comes to be. *)

LEMMA SignupCommitIs ==
  ASSUME AccountsInv, NEW r \in SignupReqs, SignupCommit(r)
  PROVE  LET e == req[r].email
             s == req[r].slug IN
         /\ e \in Emails /\ s \in Slugs /\ user[e] = "absent" /\ tenant[s] = NoTier
         /\ \A f \in Slugs : member[<<e, f>>] = "none"
         /\ tenant'[s] # NoTier /\ \A f \in Slugs \ {s} : tenant'[f] = tenant[f]
         /\ user'[e] = "unverified" /\ \A d \in Emails \ {e} : user'[d] = user[d]
         /\ member'[<<e, s>>] = "firm_owner"
         /\ \A d \in Emails, f \in Slugs : <<d, f>> # <<e, s>> => member'[<<d, f>>] = member[<<d, f>>]
         /\ Moves(r, {"commit"}, {"verification"}) /\ req' = req
         /\ opened' = opened \cup {r} /\ SignedUp(r, e, s)'
  <1> DEFINE e == req[r].email
             s == req[r].slug
  <1> USE DEF AccountsInv
  <1>1. r \in Requests /\ req[r] \in Asked /\ pc[r] = "commit"
    BY DEF Requests, TypeOK, SignupCommit, Step
  <1>2. e \in Emails /\ s \in Slugs /\ user[e] = "absent" /\ tenant[s] = NoTier
    BY <1>1 DEF Asked, SignupCommit, Free
  <1>3. \A f \in Slugs : member[<<e, f>>] = "none"
    BY <1>2 DEF TypeOK
  <1>4. Moves(r, {"commit"}, {"verification"}) /\ req' = req
    BY <1>1, StepMoves DEF SignupCommit, Steps
  <1>5. tenant'[s] # NoTier /\ \A f \in Slugs \ {s} : tenant'[f] = tenant[f]
    <2>1. req[r].tier \in Tiers
      BY <1>1 DEF Asked
    <2> QED  BY <1>2, <2>1, AccountsNull DEF SignupCommit, TypeOK
  <1>6. user'[e] = "unverified" /\ \A d \in Emails \ {e} : user'[d] = user[d]
    BY <1>2 DEF SignupCommit, TypeOK
  <1>7. /\ member'[<<e, s>>] = "firm_owner"
        /\ \A d \in Emails, f \in Slugs : <<d, f>> # <<e, s>> => member'[<<d, f>>] = member[<<d, f>>]
    BY <1>2 DEF SignupCommit, TypeOK
  <1>8. opened' = opened \cup {r} /\ SignedUp(r, e, s)'
    BY <1>4 DEF SignedUp, SignupCommit
  <1> QED  BY <1>2, <1>3, <1>4, <1>5, <1>6, <1>7, <1>8

LEMMA AcceptCommitIs ==
  ASSUME AccountsInv, NEW r \in AcceptReqs, AcceptCommit(r)
  PROVE  LET e == req[r].email
             s == req[r].slug IN
         /\ e \in Emails /\ s \in Slugs /\ req[r].role \in Roles
         /\ member'[<<e, s>>] = req[r].role
         /\ \A d \in Emails, f \in Slugs : <<d, f>> # <<e, s>> => member'[<<d, f>>] = member[<<d, f>>]
         /\ user'[e] # "absent" /\ (user[e] # "absent" => user'[e] = user[e])
         /\ \A d \in Emails \ {e} : user'[d] = user[d]
         /\ Accepted(req[r].link, e, s, member[<<e, s>>])'
         /\ Moves(r, {"commit"}, {"issue"}) /\ req' = req
  <1> DEFINE e == req[r].email
             s == req[r].slug
  <1> USE DEF AccountsInv
  <1>1. r \in Requests /\ req[r] \in Asked /\ pc[r] = "commit"
    BY DEF Requests, TypeOK, AcceptCommit, Step
  <1>2. e \in Emails /\ s \in Slugs /\ req[r].role \in Roles
    BY <1>1 DEF Asked
  <1>3. Moves(r, {"commit"}, {"issue"}) /\ req' = req
    BY <1>1, StepMoves DEF AcceptCommit, Steps
  <1>4. member' = [member EXCEPT ![<<e, s>>] = req[r].role]
    BY DEF AcceptCommit, RoleOnAccept
  <1>5. /\ member'[<<e, s>>] = req[r].role
        /\ \A d \in Emails, f \in Slugs : <<d, f>> # <<e, s>> => member'[<<d, f>>] = member[<<d, f>>]
    BY <1>2, <1>4 DEF TypeOK
  <1>6. /\ user'[e] # "absent" /\ (user[e] # "absent" => user'[e] = user[e])
        /\ \A d \in Emails \ {e} : user'[d] = user[d]
    BY <1>2 DEF AcceptCommit, TypeOK
  <1>7. /\ req[r].link \in InviteReqs
        /\ req[req[r].link].email = e /\ req[req[r].link].slug = s
        /\ req[req[r].link].role = req[r].role
    BY <1>1 DEF AcceptInv
  <1>8. invitation'[req[r].link] = "used"
    BY <1>7 DEF AcceptCommit, TypeOK
  <1>9. Accepted(req[r].link, e, s, member[<<e, s>>])'
    BY <1>3, <1>5, <1>7, <1>8 DEF Accepted
  <1> QED  BY <1>2, <1>3, <1>5, <1>6, <1>9

LEMMA SeedOwnerIs ==
  ASSUME AccountsInv, NEW r \in SeedRuns, SeedOwner(r)
  PROVE  \/ /\ user[OwnerEmail] = "absent" /\ user'[OwnerEmail] = "verified"
            /\ \A d \in Emails \ {OwnerEmail} : user'[d] = user[d]
            /\ \A f \in Slugs : member[<<OwnerEmail, f>>] = "none"
            /\ member'[<<OwnerEmail, DemoSlug>>] = "firm_owner"
            /\ \A d \in Emails, f \in Slugs :
                  <<d, f>> # <<OwnerEmail, DemoSlug>> => member'[<<d, f>>] = member[<<d, f>>]
            /\ Moves(r, {"owner"}, {"rows"}) /\ req' = req /\ opened' = opened \cup {r}
         \/ UNCHANGED <<user, member, opened>> /\ Moves(r, {"owner"}, {"failed"})
  <1> USE DEF AccountsInv
  <1>1. r \in Requests /\ OwnerEmail \in Emails /\ DemoSlug \in Slugs
    BY AccountsSeed DEF Requests
  <1>2. Moves(r, {"owner"}, {AfterOwner}) /\ req' = req
    BY <1>1, StepMoves DEF SeedOwner, AfterOwner, Steps
  <1>3. CASE user[OwnerEmail] # "absent"
    BY <1>2, <1>3 DEF SeedOwner, AfterOwner
  <1>4. CASE user[OwnerEmail] = "absent"
    <2>1. \A f \in Slugs : member[<<OwnerEmail, f>>] = "none"
      BY <1>1, <1>4 DEF TypeOK
    <2>2. /\ member'[<<OwnerEmail, DemoSlug>>] = "firm_owner"
          /\ \A d \in Emails, f \in Slugs :
                <<d, f>> # <<OwnerEmail, DemoSlug>> => member'[<<d, f>>] = member[<<d, f>>]
      BY <1>1, <1>4 DEF SeedOwner, TypeOK
    <2>3. /\ user'[OwnerEmail] = "verified" /\ \A d \in Emails \ {OwnerEmail} : user'[d] = user[d]
          /\ opened' = opened \cup {r}
      BY <1>1, <1>4 DEF SeedOwner, TypeOK
    <2> QED  BY <1>2, <1>4, <2>1, <2>2, <2>3 DEF AfterOwner
  <1> QED  BY <1>3, <1>4

\* The actions that change tables: the others leave members and tenants alone.
LEMMA TableStep ==
  ASSUME Next
  PROVE  \/ UNCHANGED <<tenant, member, opened>>
         \/ \E r \in SignupReqs : SignupCommit(r)
         \/ \E r \in AcceptReqs : AcceptCommit(r)
         \/ \E r \in SeedRuns : SeedTenant(r) \/ SeedOwner(r)
  BY DEF Next, Signup, Accept, Seed, SignupCheck, SignupFindPlan, SignupCreatePlan, SignupConflict,
         SignupSaveVerification, SignupMail, SignupIssue, VerifyRead, VerifyCommit, InviteCreate,
         InviteMail, AcceptRead, AcceptIssue, SeedPlan, SeedAdmin, SeedFind, SeedRow, Abort, identities

LEMMA AcceptedStays ==
  ASSUME AccountsInv, Next, Kept, NEW i, NEW e, NEW s, NEW role, Accepted(i, e, s, role)
  PROVE  Accepted(i, e, s, role)'
  <1> i \in InviteReqs /\ i \in Requests /\ pc[i] # "idle"
    BY DEF Accepted, AccountsInv, InvitesInv, Requests
  <1> QED  BY DEF Accepted, Kept

LEMMA MemberStep ==
  ASSUME AccountsInv, Next, NEW e \in Emails, NEW s \in Slugs
  PROVE  \/ member'[<<e, s>>] = member[<<e, s>>]
         \/ \E i \in InviteReqs : Accepted(i, e, s, member[<<e, s>>])'
         \/ member[<<e, s>>] = "none" /\ member'[<<e, s>>] = "firm_owner" /\ Founded(e, s)'
  <1>1. CASE UNCHANGED <<tenant, member>>
    BY <1>1
  <1>2. ASSUME NEW r \in SignupReqs, SignupCommit(r)
        PROVE  \/ member'[<<e, s>>] = member[<<e, s>>]
               \/ /\ member[<<e, s>>] = "none" /\ member'[<<e, s>>] = "firm_owner"
                  /\ Founded(e, s)'
    <2> DEFINE x == req[r].email
               y == req[r].slug
    <2>2. CASE <<e, s>> = <<x, y>>
      BY <1>2, <2>2, SignupCommitIs DEF Founded
    <2>3. CASE <<e, s>> # <<x, y>>
      BY <1>2, <2>3, SignupCommitIs
    <2> QED  BY <2>2, <2>3
  <1>3. ASSUME NEW r \in AcceptReqs, AcceptCommit(r)
        PROVE  \/ member'[<<e, s>>] = member[<<e, s>>]
               \/ \E i \in InviteReqs : Accepted(i, e, s, member[<<e, s>>])'
    <2> DEFINE x == req[r].email
               y == req[r].slug
    <2>2. CASE <<e, s>> = <<x, y>>
      <3>1. Accepted(req[r].link, e, s, member[<<e, s>>])'
        BY <1>3, <2>2, AcceptCommitIs
      <3> QED  BY <3>1 DEF Accepted
    <2>3. CASE <<e, s>> # <<x, y>>
      BY <1>3, <2>3, AcceptCommitIs
    <2> QED  BY <2>2, <2>3
  <1>4. ASSUME NEW r \in SeedRuns, SeedTenant(r) \/ SeedOwner(r)
        PROVE  \/ member'[<<e, s>>] = member[<<e, s>>]
               \/ /\ member[<<e, s>>] = "none" /\ member'[<<e, s>>] = "firm_owner"
                  /\ Founded(e, s)'
    BY <1>4, SeedOwnerIs DEF SeedTenant, Founded
  <1> QED  BY <1>1, <1>2, <1>3, <1>4, TableStep

LEMMA MemberStays ==
  ASSUME AccountsInv, TypeOK', Next, NEW e \in Emails, NEW s \in Slugs, member[<<e, s>>] # "none"
  PROVE  /\ member'[<<e, s>>] # "none"
         /\ \/ member'[<<e, s>>] = member[<<e, s>>]
            \/ \E i \in InviteReqs : Accepted(i, e, s, member[<<e, s>>])'
  <1>1. \A i \in InviteReqs : req'[i].role # "none"
    BY DEF TypeOK, Asked, Roles, Requests
  <1> QED  BY <1>1, MemberStep DEF Accepted

LEMMA BackedStays ==
  ASSUME AccountsInv, TypeOK', Next, Kept,
         NEW e \in Emails, NEW s \in Slugs, NEW role \in Roles, Backed(e, s, role)
  PROVE  Backed(e, s, role)'
  <1>1. member[<<e, s>>] # "none"
    BY BackedIsMember DEF AccountsInv
  <1>2. CASE member'[<<e, s>>] = member[<<e, s>>]
    BY <1>2, AcceptedStays DEF Backed
  <1>3. CASE \E i \in InviteReqs : Accepted(i, e, s, member[<<e, s>>])'
    BY <1>3 DEF Backed
  <1> QED  BY <1>1, <1>2, <1>3, MemberStays

LEMMA SignedUpKept ==
  ASSUME AccountsInv, Kept, NEW r, NEW e, NEW s, SignedUp(r, e, s)
  PROVE  SignedUp(r, e, s)'
  <1>1. r \in Requests /\ pc[r] # "idle"
    BY DEF SignedUp, Requests, AccountsInv, OpenedInv
  <1> QED  BY <1>1 DEF SignedUp, Kept

LEMMA FoundedKept ==
  ASSUME AccountsInv, Kept, NEW e, NEW s, Founded(e, s)
  PROVE  Founded(e, s)'
  BY SignedUpKept DEF Founded, Kept

-----------------------------------------------------------------------------
(* One request moves at a time, by an action of its kind. *)

Still(r) == pc'[r] = pc[r] /\ req'[r] = req[r]

LEMMA OthersStill ==
  ASSUME TypeOK, Next
  PROVE  \E q \in Requests :
            /\ \A r \in Requests \ {q} : Still(r)
            /\ \/ /\ q \in SignupReqs
                  /\ \/ \E e \in Emails, s \in Slugs, t \in Tiers : SignupCheck(q, e, s, t)
                     \/ Signup(q)
               \/ q \in VerifyReqs /\ ((\E link \in SignupReqs : VerifyRead(q, link)) \/ VerifyCommit(q))
               \/ /\ q \in InviteReqs
                  /\ (\E e \in Emails, role \in InviteRoles : InviteCreate(q, e, role)) \/ InviteMail(q)
               \/ q \in AcceptReqs /\ ((\E link \in InviteReqs : AcceptRead(q, link)) \/ Accept(q))
               \/ q \in SeedRuns /\ Seed(q)
               \/ Abort(q)
  <1> USE DEF Still, TypeOK
  <1>1. ASSUME NEW q \in SignupReqs,
               \/ \E e \in Emails, s \in Slugs, t \in Tiers : SignupCheck(q, e, s, t)
               \/ Signup(q)
        PROVE  q \in Requests /\ \A r \in Requests \ {q} : Still(r)
    BY <1>1 DEF Requests, Signup, SignupCheck, SignupFindPlan, SignupCreatePlan, SignupCommit,
                SignupConflict, SignupSaveVerification, SignupMail, SignupIssue, Arrive, Step, Goto
  <1>2. ASSUME NEW q \in VerifyReqs, (\E link \in SignupReqs : VerifyRead(q, link)) \/ VerifyCommit(q)
        PROVE  q \in Requests /\ \A r \in Requests \ {q} : Still(r)
    BY <1>2 DEF Requests, VerifyRead, VerifyCommit, Arrive, Step, Goto
  <1>3. ASSUME NEW q \in InviteReqs,
               (\E e \in Emails, role \in InviteRoles : InviteCreate(q, e, role)) \/ InviteMail(q)
        PROVE  q \in Requests /\ \A r \in Requests \ {q} : Still(r)
    BY <1>3 DEF Requests, InviteCreate, InviteMail, Arrive, Step, Goto
  <1>4. ASSUME NEW q \in AcceptReqs, (\E link \in InviteReqs : AcceptRead(q, link)) \/ Accept(q)
        PROVE  q \in Requests /\ \A r \in Requests \ {q} : Still(r)
    BY <1>4 DEF Requests, AcceptRead, Accept, AcceptCommit, AcceptIssue, Arrive, Step, Goto
  <1>5. ASSUME NEW q \in SeedRuns, Seed(q)
        PROVE  q \in Requests /\ \A r \in Requests \ {q} : Still(r)
    BY <1>5 DEF Requests, Seed, SeedPlan, SeedAdmin, SeedFind, SeedTenant, SeedOwner, SeedRow, Step, Goto
  <1>6. ASSUME NEW q \in Fallible, Abort(q)
        PROVE  q \in Requests /\ \A r \in Requests \ {q} : Still(r)
    BY <1>6, AccountsFallible DEF Abort, Goto
  <1> QED  BY <1>1, <1>2, <1>3, <1>4, <1>5, <1>6 DEF Next

LEMMA SignupStep ==
  ASSUME TypeOK, Next, NEW r \in SignupReqs
  PROVE  \/ Still(r)
         \/ \E e \in Emails, s \in Slugs, t \in Tiers : SignupCheck(r, e, s, t)
         \/ Signup(r) \/ Abort(r)
  <1> r \in Requests
    BY DEF Requests
  <1> QED  BY OthersStill, AccountsRequests

LEMMA VerifyStep ==
  ASSUME TypeOK, Next, NEW r \in VerifyReqs
  PROVE  Still(r) \/ (\E link \in SignupReqs : VerifyRead(r, link)) \/ VerifyCommit(r) \/ Abort(r)
  <1> r \in Requests
    BY DEF Requests
  <1> QED  BY OthersStill, AccountsRequests

LEMMA InviteStep ==
  ASSUME TypeOK, Next, NEW r \in InviteReqs
  PROVE  \/ Still(r)
         \/ \E e \in Emails, role \in InviteRoles : InviteCreate(r, e, role)
         \/ InviteMail(r) \/ Abort(r)
  <1> r \in Requests
    BY DEF Requests
  <1> QED  BY OthersStill, AccountsRequests

LEMMA AcceptStep ==
  ASSUME TypeOK, Next, NEW r \in AcceptReqs
  PROVE  Still(r) \/ (\E link \in InviteReqs : AcceptRead(r, link)) \/ Accept(r) \/ Abort(r)
  <1> r \in Requests
    BY DEF Requests
  <1> QED  BY OthersStill, AccountsRequests

LEMMA SeedStep ==
  ASSUME TypeOK, Next, NEW r \in SeedRuns
  PROVE  Still(r) \/ Seed(r) \/ Abort(r)
  <1> r \in Requests
    BY DEF Requests
  <1> QED  BY OthersStill, AccountsRequests

LEMMA VerificationStep ==
  ASSUME TypeOK, Next, NEW r \in SignupReqs
  PROVE  \/ verification'[r] = verification[r]
         \/ SignupSaveVerification(r) /\ verification'[r] = "open"
         \/ SignupMail(r) /\ verification'[r] = "mailed"
         \/ /\ verification'[r] = "used"
            /\ \E q \in VerifyReqs : VerifyCommit(q) /\ req[q].link = r
  <1> USE DEF TypeOK
  <1>1. ASSUME NEW q \in SignupReqs, SignupSaveVerification(q) \/ SignupMail(q)
        PROVE  \/ verification'[r] = verification[r]
               \/ SignupSaveVerification(r) /\ verification'[r] = "open"
               \/ SignupMail(r) /\ verification'[r] = "mailed"
    BY <1>1 DEF SignupSaveVerification, SignupMail
  <1>2. ASSUME NEW q \in VerifyReqs, VerifyCommit(q)
        PROVE  \/ verification'[r] = verification[r]
               \/ verification'[r] = "used" /\ req[q].link = r
    BY <1>2 DEF VerifyCommit
  <1>3. \/ verification' = verification
        \/ \E q \in SignupReqs : SignupSaveVerification(q) \/ SignupMail(q)
        \/ \E q \in VerifyReqs : VerifyCommit(q)
    BY DEF Next, Signup, Accept, Seed, SignupCheck, SignupFindPlan, SignupCreatePlan, SignupCommit,
           SignupConflict, SignupIssue, VerifyRead, InviteCreate, InviteMail, AcceptRead, AcceptCommit,
           AcceptIssue, SeedPlan, SeedAdmin, SeedFind, SeedTenant, SeedOwner, SeedRow, Abort
  <1> QED  BY <1>1, <1>2, <1>3

LEMMA InvitationStep ==
  ASSUME TypeOK, Next, NEW i \in InviteReqs
  PROVE  \/ invitation'[i] = invitation[i]
         \/ /\ invitation'[i] = "open"
            /\ \E e \in Emails, role \in InviteRoles : InviteCreate(i, e, role)
         \/ InviteMail(i) /\ invitation'[i] = "mailed"
         \/ /\ invitation'[i] = "used"
            /\ \E q \in AcceptReqs : AcceptCommit(q) /\ req[q].link = i
  <1> USE DEF TypeOK
  <1>1. ASSUME NEW q \in InviteReqs,
               (\E e \in Emails, role \in InviteRoles : InviteCreate(q, e, role)) \/ InviteMail(q)
        PROVE  \/ invitation'[i] = invitation[i]
               \/ /\ invitation'[i] = "open"
                  /\ \E e \in Emails, role \in InviteRoles : InviteCreate(i, e, role)
               \/ InviteMail(i) /\ invitation'[i] = "mailed"
    <2>1. invitation'[i] = invitation[i] \/ q = i
      BY <1>1 DEF InviteCreate, InviteMail
    <2>2. CASE \E e \in Emails, role \in InviteRoles : InviteCreate(q, e, role)
      <3>1. invitation'[q] = "open"
        BY <2>2 DEF InviteCreate
      <3> QED  BY <2>1, <2>2, <3>1
    <2>3. CASE InviteMail(q)
      BY <2>1, <2>3 DEF InviteMail
    <2> QED  BY <1>1, <2>2, <2>3
  <1>2. ASSUME NEW q \in AcceptReqs, AcceptCommit(q)
        PROVE  \/ invitation'[i] = invitation[i]
               \/ invitation'[i] = "used" /\ req[q].link = i
    BY <1>2 DEF AcceptCommit
  <1>3. \/ invitation' = invitation
        \/ \E q \in InviteReqs :
              (\E e \in Emails, role \in InviteRoles : InviteCreate(q, e, role)) \/ InviteMail(q)
        \/ \E q \in AcceptReqs : AcceptCommit(q)
    BY DEF Next, Signup, Accept, Seed, SignupCheck, SignupFindPlan, SignupCreatePlan, SignupCommit,
           SignupConflict, SignupSaveVerification, SignupMail, SignupIssue, VerifyRead, VerifyCommit,
           AcceptRead, AcceptIssue, SeedPlan, SeedAdmin, SeedFind, SeedTenant, SeedOwner, SeedRow, Abort
  <1> QED  BY <1>1, <1>2, <1>3

-----------------------------------------------------------------------------
(* What a request relies on between two awaits. *)

LEMMA PlansKept ==
  ASSUME TypeOK, PlansInv, Next, Kept
  PROVE  PlansInv'
  <1>1. ASSUME NEW r \in SignupReqs, pc'[r] = "commit"
        PROVE  req'[r].tier \in plans'
    <2> r \in Requests
      BY DEF Requests
    <2>1. CASE Still(r)
      BY <1>1, <2>1 DEF Still, PlansInv, Kept
    <2>2. CASE \E e \in Emails, s \in Slugs, t \in Tiers : SignupCheck(r, e, s, t)
      BY <1>1, <2>2 DEF SignupCheck, Arrive, Goto, TypeOK
    <2>3. CASE SignupFindPlan(r) \/ SignupCreatePlan(r)
      BY <1>1, <2>3 DEF SignupFindPlan, SignupCreatePlan, Step, Goto, TypeOK
    <2>4. CASE \/ SignupCommit(r) \/ SignupConflict(r) \/ SignupSaveVerification(r)
               \/ SignupMail(r) \/ SignupIssue(r) \/ Abort(r)
      BY <1>1, <2>4 DEF SignupCommit, SignupConflict, SignupSaveVerification, SignupMail, SignupIssue,
                        Abort, Step, Goto, TypeOK
    <2> QED  BY <2>1, <2>2, <2>3, <2>4, SignupStep DEF Signup
  <1>2. ASSUME NEW r \in SeedRuns, pc'[r] \in {"find", "tenant"}
        PROVE  Starter \in plans'
    <2> r \in Requests
      BY DEF Requests
    <2>1. CASE Still(r)
      BY <1>2, <2>1 DEF Still, PlansInv, Kept
    <2>2. CASE SeedAdmin(r)
      BY <1>2, <2>2, AccountsSeed DEF SeedAdmin
    <2>3. CASE SeedFind(r)
      BY <1>2, <2>3 DEF SeedFind, Step, Goto, TypeOK, PlansInv
    <2>4. CASE SeedPlan(r) \/ SeedTenant(r) \/ SeedOwner(r) \/ SeedRow(r) \/ Abort(r)
      BY <1>2, <2>4 DEF SeedPlan, SeedTenant, SeedOwner, AfterOwner, SeedRow, Abort, Step, Goto, TypeOK
    <2> QED  BY <2>1, <2>2, <2>3, <2>4, SeedStep DEF Seed
  <1> QED  BY <1>1, <1>2 DEF PlansInv

LEMMA LinksKept ==
  ASSUME TypeOK, LinksInv, VerifyInv, Next
  PROVE  LinksInv'
  <1> SUFFICES ASSUME NEW r \in SignupReqs
               PROVE  /\ pc'[r] \in {"idle", "findPlan", "createPlan", "commit", "verification"} =>
                            verification'[r] = "absent"
                      /\ pc'[r] = "mail" => verification'[r] = "open"
    BY DEF LinksInv
  <1> r \in Requests
    BY DEF Requests
  <1>1. CASE SignupSaveVerification(r) \/ SignupMail(r)
    BY <1>1 DEF SignupSaveVerification, SignupMail, Step, Goto, TypeOK
  <1>2. CASE \E q \in VerifyReqs : VerifyCommit(q) /\ req[q].link = r
    <2>1. PICK q \in VerifyReqs : VerifyCommit(q) /\ req[q].link = r
      BY <1>2
    <2>2. q # r /\ q \in Requests
      BY AccountsRequests DEF Requests
    <2>3. verification[r] \in {"mailed", "used"} /\ pc'[r] = pc[r]
      BY <2>1, <2>2 DEF VerifyCommit, Step, Goto, VerifyInv, TypeOK
    <2> QED  BY <2>3 DEF LinksInv
  <1>3. CASE verification'[r] = verification[r] /\ ~SignupSaveVerification(r)
    <2>1. CASE Still(r)
      BY <1>3, <2>1 DEF Still, LinksInv
    <2>2. CASE \E e \in Emails, s \in Slugs, t \in Tiers : SignupCheck(r, e, s, t)
      BY <1>3, <2>2 DEF SignupCheck, Arrive, Goto, TypeOK, LinksInv
    <2>3. CASE \/ SignupFindPlan(r) \/ SignupCreatePlan(r) \/ SignupCommit(r) \/ SignupConflict(r)
               \/ SignupMail(r) \/ SignupIssue(r) \/ Abort(r)
      BY <1>3, <2>3 DEF SignupFindPlan, SignupCreatePlan, SignupCommit, SignupConflict, SignupMail,
                        SignupIssue, Abort, Step, Goto, TypeOK, LinksInv
    <2> QED  BY <1>3, <2>1, <2>2, <2>3, SignupStep DEF Signup
  <1> QED  BY <1>1, <1>2, <1>3, VerificationStep

LEMMA VerifyKept ==
  ASSUME TypeOK, LinksInv, VerifyInv, Next, Kept
  PROVE  VerifyInv'
  <1> SUFFICES ASSUME NEW r \in VerifyReqs, pc'[r] = "commit"
               PROVE  /\ req'[r].link \in SignupReqs
                      /\ req'[r].email = req'[req'[r].link].email
                      /\ verification'[req'[r].link] \in {"mailed", "used"}
    BY DEF VerifyInv
  <1>0. r \in Requests /\ SignupReqs \subseteq Requests
    BY DEF Requests
  <1>1. CASE Still(r)
    <2>1. /\ req[r].link \in SignupReqs /\ req[r].email = req[req[r].link].email
          /\ verification[req[r].link] \in {"mailed", "used"}
      BY <1>1 DEF Still, VerifyInv
    <2>2. pc[req[r].link] # "idle"
      BY <2>1 DEF LinksInv
    <2> QED  BY <1>0, <1>1, <2>1, <2>2 DEF Still, Kept
  <1>2. CASE \E link \in SignupReqs : VerifyRead(r, link)
    <2>1. PICK link \in SignupReqs : VerifyRead(r, link)
      BY <1>2
    <2>2. pc[link] # "idle" /\ link # r
      BY <2>1, AccountsRequests DEF VerifyRead, LinksInv
    <2>3. req'[r] = [Nothing EXCEPT !.email = req[link].email, !.link = link]
      BY <1>0, <2>1 DEF VerifyRead, Arrive, TypeOK
    <2>4. req'[r].email = req[link].email /\ req'[r].link = link
      BY <2>3 DEF Nothing
    <2> QED  BY <1>0, <2>1, <2>2, <2>4 DEF VerifyRead, Kept
  <1>3. CASE VerifyCommit(r) \/ Abort(r)
    BY <1>0, <1>3 DEF VerifyCommit, Abort, Step, Goto, TypeOK
  <1> QED  BY <1>1, <1>2, <1>3, VerifyStep

LEMMA InvitesKept ==
  ASSUME AccountsInv, TypeOK', Next, Kept
  PROVE  InvitesInv'
  <1> SUFFICES ASSUME NEW i \in InviteReqs
               PROVE  /\ pc'[i] = "idle" => invitation'[i] = "absent"
                      /\ pc'[i] = "mail" => invitation'[i] = "open"
                      /\ invitation'[i] \in {"mailed", "used"} => pc'[i] = "done"
                      /\ pc'[i] # "idle" => tenant'[req'[i].slug] # NoTier
    BY DEF InvitesInv
  <1>0. i \in Requests /\ req[i] \in Asked /\ req[i].slug \in Slugs
    BY DEF Requests, AccountsInv, TypeOK, Asked
  <1> USE DEF AccountsInv
  <1>1. CASE \E e \in Emails, role \in InviteRoles : InviteCreate(i, e, role)
    <2>1. PICK e \in Emails, role \in InviteRoles : InviteCreate(i, e, role)
      BY <1>1
    <2>2. PICK g \in Inviters :
             Arrive(i, [Nothing EXCEPT !.email = e, !.slug = g.slug, !.role = role], "mail")
      BY <2>1 DEF InviteCreate
    <2>3. req'[i] = [Nothing EXCEPT !.email = e, !.slug = g.slug, !.role = role] /\ pc'[i] = "mail"
      BY <1>0, <2>2 DEF Arrive, Goto, TypeOK
    <2>4. req'[i].slug = g.slug
      BY <2>3 DEF Nothing
    <2>5. invitation'[i] = "open" /\ tenant' = tenant
      BY <2>1 DEF InviteCreate, TypeOK, identities
    <2> QED  BY <2>3, <2>4, <2>5, InviterHasFirm
  <1>2. CASE InviteMail(i)
    BY <1>0, <1>2 DEF InviteMail, Step, Goto, identities, InvitesInv, TypeOK
  <1>3. CASE \E q \in AcceptReqs : AcceptCommit(q) /\ req[q].link = i
    <2>1. PICK q \in AcceptReqs : AcceptCommit(q) /\ req[q].link = i
      BY <1>3
    <2>2. invitation[i] \in {"mailed", "used"}
      BY <2>1 DEF AcceptCommit, Step, AcceptInv
    <2>3. pc[i] = "done" /\ pc'[i] = "done" /\ req'[i] = req[i] /\ tenant' = tenant
      BY <1>0, <2>1, <2>2 DEF InvitesInv, Kept, AcceptCommit
    <2>4. invitation'[i] \in {"mailed", "used"}
      BY <2>2 DEF Kept
    <2> QED  BY <1>0, <2>3, <2>4 DEF InvitesInv
  <1>4. CASE /\ invitation'[i] = invitation[i]
             /\ ~\E e \in Emails, role \in InviteRoles : InviteCreate(i, e, role)
             /\ ~InviteMail(i)
    <2>1. CASE Still(i)
      <3>1. pc[i] # "idle" => tenant'[req[i].slug] # NoTier
        BY <1>0 DEF InvitesInv, Kept
      <3> QED  BY <1>4, <2>1, <3>1 DEF Still, InvitesInv
    <2>2. CASE Abort(i)
      BY <1>0, <1>4, <2>2 DEF Abort, Goto, identities, InvitesInv, TypeOK
    <2> QED  BY <1>4, <2>1, <2>2, InviteStep
  <1> QED  BY <1>1, <1>2, <1>3, <1>4, InvitationStep

LEMMA AcceptKept ==
  ASSUME AccountsInv, TypeOK', Next, Kept
  PROVE  AcceptInv'
  <1> USE DEF AccountsInv
  <1> SUFFICES ASSUME NEW r \in AcceptReqs, pc'[r] \in {"commit", "issue"}
               PROVE  /\ req'[r].link \in InviteReqs
                      /\ req'[r].email = req'[req'[r].link].email
                      /\ req'[r].slug = req'[req'[r].link].slug
                      /\ req'[r].role = req'[req'[r].link].role
                      /\ invitation'[req'[r].link] \in {"mailed", "used"}
                      /\ pc'[r] = "issue" => Backed(req[r].email, req[r].slug, req[r].role)'
    BY DEF AcceptInv
  <1>0. r \in Requests /\ InviteReqs \subseteq Requests /\ r \notin InviteReqs
    BY AccountsRequests DEF Requests
  <1>1. ASSUME pc[r] \in {"commit", "issue"}, req'[r] = req[r]
        PROVE  /\ req'[r].link \in InviteReqs
               /\ req'[r].email = req'[req'[r].link].email
               /\ req'[r].slug = req'[req'[r].link].slug
               /\ req'[r].role = req'[req'[r].link].role
               /\ invitation'[req'[r].link] \in {"mailed", "used"}
    <2> DEFINE link == req[r].link
    <2>1. link \in InviteReqs /\ invitation[link] \in {"mailed", "used"}
      BY <1>1 DEF AcceptInv
    <2>2. pc[link] # "idle" /\ link \in Requests
      BY <1>0, <2>1 DEF InvitesInv
    <2>3. req'[link] = req[link] /\ invitation'[link] \in {"mailed", "used"}
      BY <2>1, <2>2 DEF Kept
    <2> QED  BY <1>1, <2>1, <2>3 DEF AcceptInv
  <1>2. CASE Still(r)
    <2>1. pc[r] = "issue" => Backed(req[r].email, req[r].slug, req[r].role)
      BY <1>2 DEF AcceptInv, Still
    <2>2. req[r].email \in Emails /\ req[r].slug \in Slugs /\ req[r].role \in Roles
      BY <1>0 DEF TypeOK, Asked
    <2>3. pc[r] = "issue" => Backed(req[r].email, req[r].slug, req[r].role)'
      BY <1>2, <2>1, <2>2, BackedStays DEF Still
    <2> QED  BY <1>1, <1>2, <2>3 DEF Still
  <1>3. CASE \E link \in InviteReqs : AcceptRead(r, link)
    <2>1. PICK link \in InviteReqs : AcceptRead(r, link)
      BY <1>3
    <2>2. invitation[link] = "mailed" /\ pc[link] # "idle" /\ link # r /\ link \in Requests
      BY <1>0, <2>1 DEF AcceptRead, InvitesInv
    <2>3. req'[r] = [req[link] EXCEPT !.link = link] /\ pc'[r] = "commit"
      BY <1>0, <2>1 DEF AcceptRead, Arrive, Goto, TypeOK
    <2>4. req[link] \in Asked
      BY <2>2 DEF TypeOK
    <2>5. /\ req'[r].link = link /\ req'[r].email = req[link].email
          /\ req'[r].slug = req[link].slug /\ req'[r].role = req[link].role
      BY <2>3, <2>4 DEF Asked
    <2>6. req'[link] = req[link] /\ invitation'[link] \in {"mailed", "used"}
      BY <2>2 DEF Kept
    <2> QED  BY <2>3, <2>5, <2>6
  <1>4. CASE AcceptCommit(r)
    <2>1. pc[r] = "commit" /\ req'[r] = req[r]
      BY <1>4 DEF AcceptCommit, Step
    <2>2. member'[<<req[r].email, req[r].slug>>] = req[r].role
      BY <1>4, AcceptCommitIs
    <2>3. Backed(req[r].email, req[r].slug, req[r].role)'
      BY <2>1, <2>2 DEF Backed
    <2> QED  BY <1>1, <2>1, <2>3
  <1>5. CASE AcceptIssue(r) \/ Abort(r)
    BY <1>0, <1>5 DEF AcceptIssue, Abort, Step, Goto, TypeOK
  <1> QED  BY <1>2, <1>3, <1>4, <1>5, AcceptStep DEF Accept

LEMMA SignupKept ==
  ASSUME AccountsInv, TypeOK', Next, Kept
  PROVE  SignupInv'
  <1> USE DEF AccountsInv
  <1> SUFFICES ASSUME NEW r \in SignupReqs, pc'[r] \in {"verification", "mail", "issue"}
               PROVE  Backed(req[r].email, req[r].slug, "firm_owner")'
    BY DEF SignupInv
  <1>0. r \in Requests /\ req[r].email \in Emails /\ req[r].slug \in Slugs
    BY DEF Requests, TypeOK, Asked
  <1>1. ASSUME pc[r] \in {"verification", "mail", "issue"}, req'[r] = req[r]
        PROVE  Backed(req[r].email, req[r].slug, "firm_owner")'
    <2>1. Backed(req[r].email, req[r].slug, "firm_owner") /\ "firm_owner" \in Roles
      BY <1>1 DEF SignupInv, Roles
    <2> QED  BY <1>0, <1>1, <2>1, BackedStays
  <1>2. CASE Still(r)
    BY <1>1, <1>2 DEF Still
  <1>3. CASE \E e \in Emails, s \in Slugs, t \in Tiers : SignupCheck(r, e, s, t)
    BY <1>0, <1>3 DEF SignupCheck, Arrive, Goto, TypeOK
  <1>4. CASE SignupCommit(r)
    <2>1. member'[<<req[r].email, req[r].slug>>] = "firm_owner" /\ req' = req
      BY <1>4, SignupCommitIs
    <2> QED  BY <2>1 DEF Backed
  <1>5. CASE SignupSaveVerification(r) \/ SignupMail(r)
    BY <1>1, <1>5 DEF SignupSaveVerification, SignupMail, Step
  <1>6. CASE SignupFindPlan(r) \/ SignupCreatePlan(r) \/ SignupConflict(r) \/ SignupIssue(r) \/ Abort(r)
    BY <1>0, <1>6 DEF SignupFindPlan, SignupCreatePlan, SignupConflict, SignupIssue, Abort, Step, Goto, TypeOK
  <1> QED  BY <1>2, <1>3, <1>4, <1>5, <1>6, SignupStep DEF Signup

-----------------------------------------------------------------------------
(* The properties, one by one. *)

LEMMA SessionsKept ==
  ASSUME AccountsInv, TypeOK', Next, Kept
  PROVE  SessionIsBacked'
  <1> USE DEF AccountsInv
  <1> SUFFICES ASSUME NEW g \in granted'
               PROVE  Backed(g.email, g.slug, g.role)'
    BY DEF SessionIsBacked, Backed
  <1>1. ASSUME NEW r \in Requests, g = [email |-> req[r].email, slug |-> req[r].slug, role |-> req[r].role],
               Backed(req[r].email, req[r].slug, req[r].role)
        PROVE  Backed(g.email, g.slug, g.role)'
    <2>1. req[r].email \in Emails /\ req[r].slug \in Slugs /\ req[r].role \in Roles
      BY DEF TypeOK, Asked
    <2> QED  BY <1>1, <2>1, BackedStays
  <1>2. CASE g \in granted
    <2>1. g.email \in Emails /\ g.slug \in Slugs /\ g.role \in Roles /\ Backed(g.email, g.slug, g.role)
      BY <1>2 DEF TypeOK, SessionIsBacked, Backed
    <2> QED  BY <2>1, BackedStays
  <1>3. ASSUME NEW r \in SignupReqs, SignupIssue(r), g \notin granted
        PROVE  Backed(g.email, g.slug, g.role)'
    <2>1. g = [email |-> req[r].email, slug |-> req[r].slug, role |-> "firm_owner"]
      BY <1>3 DEF SignupIssue, Grant
    <2>2. Backed(req[r].email, req[r].slug, "firm_owner")
      BY <1>3 DEF SignupIssue, Step, SignupInv
    <2>3. req[r].email \in Emails /\ req[r].slug \in Slugs /\ "firm_owner" \in Roles
      BY DEF Requests, TypeOK, Asked, Roles
    <2> QED  BY <2>1, <2>2, <2>3, BackedStays
  <1>4. ASSUME NEW r \in AcceptReqs, AcceptIssue(r), g \notin granted
        PROVE  Backed(g.email, g.slug, g.role)'
    <2>1. g = [email |-> req[r].email, slug |-> req[r].slug, role |-> req[r].role]
      BY <1>4 DEF AcceptIssue, Grant
    <2>2. Backed(req[r].email, req[r].slug, req[r].role)
      BY <1>4 DEF AcceptIssue, Step, AcceptInv
    <2> QED  BY <1>1, <2>1, <2>2 DEF Requests
  <1>5. \/ granted' = granted
        \/ \E r \in SignupReqs : SignupIssue(r)
        \/ \E r \in AcceptReqs : AcceptIssue(r)
    BY DEF Next, Signup, Accept, Seed, SignupCheck, SignupFindPlan, SignupCreatePlan, SignupCommit,
           SignupConflict, SignupSaveVerification, SignupMail, VerifyRead, VerifyCommit, InviteCreate,
           InviteMail, AcceptRead, AcceptCommit, SeedPlan, SeedAdmin, SeedFind, SeedTenant, SeedOwner,
           SeedRow, Abort
  <1> QED  BY <1>2, <1>3, <1>4, <1>5

LEMMA GrantsKept ==
  ASSUME AccountsInv, TypeOK', Next, Kept
  PROVE  MembershipHasGrant'
  <1> SUFFICES ASSUME NEW e \in Emails, NEW s \in Slugs, member'[<<e, s>>] # "none"
               PROVE  \/ \E i \in InviteReqs : Accepted(i, e, s, member[<<e, s>>])'
                      \/ member'[<<e, s>>] = "firm_owner" /\ Founded(e, s)'
    BY DEF MembershipHasGrant
  <1>1. CASE member'[<<e, s>>] = member[<<e, s>>]
    <2>1. CASE \E i \in InviteReqs : Accepted(i, e, s, member[<<e, s>>])
      <3>1. PICK i \in InviteReqs : Accepted(i, e, s, member[<<e, s>>])
        BY <2>1
      <3>2. Accepted(i, e, s, member[<<e, s>>])'
        <4>1. \A role : Accepted(i, e, s, role) => Accepted(i, e, s, role)'
          BY AcceptedStays
        <4> QED  BY <1>1, <3>1, <4>1 DEF Accepted
      <3> QED  BY <3>2
    <2>2. CASE member[<<e, s>>] = "firm_owner" /\ Founded(e, s)
      BY <1>1, <2>2, FoundedKept
    <2> QED  BY <1>1, <2>1, <2>2 DEF AccountsInv, MembershipHasGrant
  <1> QED  BY <1>1, MemberStep

\* How a workspace comes to be.
LEMMA TenantStep ==
  ASSUME AccountsInv, Next, NEW s \in Slugs, tenant[s] = NoTier, tenant'[s] # NoTier
  PROVE  \/ \E r \in SignupReqs, e \in Emails : SignedUp(r, e, s)' /\ member'[<<e, s>>] = "firm_owner"
         \/ s = DemoSlug /\ \E r \in SeedRuns : pc'[r] = "owner"
  <1>1. ASSUME NEW r \in SignupReqs, SignupCommit(r)
        PROVE  \E e \in Emails : SignedUp(r, e, s)' /\ member'[<<e, s>>] = "firm_owner"
    <2> DEFINE e == req[r].email
    <2>1. s = req[r].slug
      BY <1>1, SignupCommitIs
    <2> QED  BY <1>1, <2>1, SignupCommitIs
  <1>2. ASSUME NEW r \in SeedRuns, SeedTenant(r)
        PROVE  s = DemoSlug /\ pc'[r] = "owner"
    <2>1. s = DemoSlug
      BY <1>2 DEF SeedTenant, AccountsInv, TypeOK
    <2> QED  BY <1>2, <2>1 DEF SeedTenant, Step, Goto, AccountsInv, TypeOK, Requests
  <1>3. ASSUME NEW r, AcceptCommit(r) \/ SeedOwner(r)
        PROVE  tenant' = tenant
    BY <1>3 DEF AcceptCommit, SeedOwner
  <1> QED  BY <1>1, <1>2, <1>3, TableStep

\* Only a signup and the seed's owner open a workspace, for a new member of it.
LEMMA FoundedStep ==
  ASSUME AccountsInv, Next, Kept, NEW e \in Emails, NEW s \in Slugs, Founded(e, s)'
  PROVE  Founded(e, s) \/ member'[<<e, s>>] = "firm_owner"
  <1> USE DEF AccountsInv
  <1>1. \A r \in opened : r \in Requests /\ pc[r] # "idle" /\ req'[r] = req[r]
    BY DEF TypeOK, OpenedInv, Kept, Requests
  <1>2. ASSUME NEW r \in SignupReqs, SignupCommit(r)
        PROVE  Founded(e, s) \/ member'[<<e, s>>] = "firm_owner"
    <2>1. opened' = opened \cup {r} /\ member'[<<req[r].email, req[r].slug>>] = "firm_owner" /\ req' = req
      BY <1>2, SignupCommitIs
    <2>2. r \notin SeedRuns
      BY AccountsRequests
    <2> QED  BY <2>1, <2>2 DEF Founded, SignedUp
  <1>3. ASSUME NEW r \in SeedRuns, SeedOwner(r)
        PROVE  Founded(e, s) \/ member'[<<e, s>>] = "firm_owner"
    <2>1. r \notin SignupReqs
      BY AccountsRequests
    <2>2. CASE /\ member'[<<OwnerEmail, DemoSlug>>] = "firm_owner" /\ opened' = opened \cup {r}
               /\ req' = req
      BY <2>1, <2>2 DEF Founded, SignedUp
    <2>3. CASE opened' = opened
      BY <1>1, <2>3 DEF Founded, SignedUp
    <2> QED  BY <1>3, <2>2, <2>3, SeedOwnerIs
  <1>4. CASE opened' = opened
    BY <1>1, <1>4 DEF Founded, SignedUp
  <1>5. ASSUME NEW r, AcceptCommit(r) \/ SeedTenant(r)
        PROVE  opened' = opened
    BY <1>5 DEF AcceptCommit, SeedTenant
  <1> QED  BY <1>2, <1>3, <1>4, <1>5, TableStep

LEMMA OpenedKept ==
  ASSUME AccountsInv, TypeOK', Next, Kept
  PROVE  OpenedInv'
  <1> USE DEF AccountsInv
  <1>1. ASSUME NEW r \in opened'
        PROVE  pc'[r] # "idle"
    <2>1. CASE r \in opened
      BY <2>1 DEF OpenedInv, TypeOK, Kept, Requests
    <2>2. ASSUME NEW q \in SignupReqs, SignupCommit(q), r \notin opened
          PROVE  pc'[r] # "idle"
      <3>1. opened' = opened \cup {q} /\ Moves(q, {"commit"}, {"verification"})
        BY <2>2, SignupCommitIs
      <3>2. r = q
        BY <2>2, <3>1
      <3> QED  BY <3>1, <3>2 DEF Moves
    <2>3. ASSUME NEW q \in SeedRuns, SeedOwner(q), r \notin opened
          PROVE  pc'[r] # "idle"
      BY <2>3, SeedOwnerIs DEF Moves
    <2>4. ASSUME NEW q, AcceptCommit(q) \/ SeedTenant(q)
          PROVE  opened' = opened
      BY <2>4 DEF AcceptCommit, SeedTenant
    <2> QED  BY <2>1, <2>2, <2>3, <2>4, TableStep
  <1>2. ASSUME NEW e \in Emails, NEW s \in Slugs, Founded(e, s)'
        PROVE  member'[<<e, s>>] # "none"
    <2>1. CASE Founded(e, s)
      BY <2>1, MemberStays DEF OpenedInv
    <2> QED  BY <1>2, <2>1, FoundedStep
  <1>3. ASSUME NEW s \in Slugs, tenant'[s] # NoTier
        PROVE  \/ \E e \in Emails : Founded(e, s)'
               \/ s = DemoSlug /\ \E r \in SeedRuns : pc'[r] \in {"owner", "failed"}
    <2>1. CASE tenant[s] = NoTier
      BY <1>3, <2>1, TenantStep DEF Founded
    <2>2. ASSUME NEW e \in Emails, Founded(e, s)
          PROVE  Founded(e, s)'
      BY <2>2, FoundedKept
    <2>3. ASSUME NEW r \in SeedRuns, pc[r] \in {"owner", "failed"}, s = DemoSlug
          PROVE  pc'[r] \in {"owner", "failed"} \/ \E e \in Emails : Founded(e, s)'
      <3> r \in Requests
        BY DEF Requests
      <3>1. CASE SeedOwner(r)
        BY <2>3, <3>1, SeedOwnerIs, AccountsSeed DEF Moves, Founded
      <3>2. CASE Still(r) \/ Abort(r)
        BY <2>3, <3>2 DEF Still, Abort, Goto, TypeOK
      <3>3. CASE SeedPlan(r) \/ SeedAdmin(r) \/ SeedFind(r) \/ SeedTenant(r) \/ SeedRow(r)
        BY <2>3, <3>3 DEF SeedPlan, SeedAdmin, SeedFind, SeedTenant, SeedRow, Step
      <3> QED  BY <3>1, <3>2, <3>3, SeedStep DEF Seed
    <2> QED  BY <2>1, <2>2, <2>3 DEF OpenedInv
  <1> QED  BY <1>1, <1>2, <1>3 DEF OpenedInv

\* Who becomes a user, or a verified one, and by what.
LEMMA UserStep ==
  ASSUME AccountsInv, Next, NEW e \in Emails
  PROVE  \/ user'[e] = user[e]
         \/ user'[e] = "unverified" /\ \E r \in SignupReqs : SignupCommit(r) /\ req[r].email = e
         \/ \E q \in VerifyReqs : VerifyCommit(q) /\ req[q].email = e
         \/ \E q \in AcceptReqs : AcceptCommit(q) /\ req[q].email = e
         \/ e \in {OwnerEmail, AdminEmail} /\ \E r \in SeedRuns : SeedAdmin(r) \/ SeedOwner(r)
  <1> USE DEF AccountsInv
  <1>1. ASSUME NEW r \in SignupReqs, SignupCommit(r)
        PROVE  user'[e] = user[e] \/ (user'[e] = "unverified" /\ req[r].email = e)
    BY <1>1, SignupCommitIs
  <1>2. ASSUME NEW q, VerifyCommit(q) \/ AcceptCommit(q)
        PROVE  user'[e] = user[e] \/ req[q].email = e
    BY <1>2 DEF VerifyCommit, AcceptCommit, TypeOK
  <1>3. ASSUME NEW r, SeedAdmin(r) \/ SeedOwner(r)
        PROVE  user'[e] = user[e] \/ e \in {OwnerEmail, AdminEmail}
    BY <1>3 DEF SeedAdmin, SeedOwner, TypeOK
  <1>4. \/ user' = user
        \/ \E r \in SignupReqs : SignupCommit(r)
        \/ \E q \in VerifyReqs : VerifyCommit(q)
        \/ \E q \in AcceptReqs : AcceptCommit(q)
        \/ \E r \in SeedRuns : SeedAdmin(r) \/ SeedOwner(r)
    BY DEF Next, Signup, Accept, Seed, SignupCheck, SignupFindPlan, SignupCreatePlan, SignupConflict,
           SignupSaveVerification, SignupMail, SignupIssue, VerifyRead, InviteCreate, InviteMail,
           AcceptRead, AcceptIssue, SeedPlan, SeedFind, SeedTenant, SeedRow, Abort, identities
  <1> QED  BY <1>1, <1>2, <1>3, <1>4

LEMMA VerifyCommitIs ==
  ASSUME AccountsInv, NEW q \in VerifyReqs, VerifyCommit(q)
  PROVE  /\ req[q].link \in SignupReqs /\ verification'[req[q].link] = "used"
         /\ req[req[q].link].email = req[q].email /\ req' = req
         /\ req[q].email \in Emails /\ user'[req[q].email] = "verified"
  <1>1. req[q].email \in Emails
    BY DEF AccountsInv, TypeOK, Asked, Requests
  <1>2. req[q].link \in SignupReqs /\ req[req[q].link].email = req[q].email
    BY DEF VerifyCommit, Step, AccountsInv, VerifyInv
  <1> QED  BY <1>1, <1>2 DEF VerifyCommit, Step, AccountsInv, TypeOK

LEMMA MailsKept ==
  ASSUME AccountsInv, TypeOK', Next, Kept
  PROVE  VerificationFollowsMail'
  <1> USE DEF AccountsInv
  <1>0. SignupReqs \subseteq Requests /\ InviteReqs \subseteq Requests /\ SeedRuns \subseteq Requests
    BY DEF Requests
  <1>1. ASSUME NEW e \in Emails, user'[e] = "verified"
        PROVE  \/ \E r \in SignupReqs : req'[r].email = e /\ verification'[r] = "used"
               \/ \E i \in InviteReqs : req'[i].email = e /\ invitation'[i] = "used"
               \/ e \in {OwnerEmail, AdminEmail} /\ \E r \in SeedRuns : pc'[r] # "idle"
    <2>1. ASSUME NEW r \in SignupReqs, req[r].email = e, verification[r] = "used"
          PROVE  req'[r].email = e /\ verification'[r] = "used"
      BY <1>0, <2>1 DEF Kept, LinksInv
    <2>2. ASSUME NEW i \in InviteReqs, req[i].email = e, invitation[i] = "used"
          PROVE  req'[i].email = e /\ invitation'[i] = "used"
      BY <1>0, <2>2 DEF Kept, InvitesInv
    <2>3. CASE user'[e] = user[e]
      BY <1>0, <1>1, <2>1, <2>2, <2>3 DEF VerificationFollowsMail, Kept
    <2>4. CASE \E q \in VerifyReqs : VerifyCommit(q) /\ req[q].email = e
      BY <2>4, VerifyCommitIs
    <2>5. CASE \E q \in AcceptReqs : AcceptCommit(q) /\ req[q].email = e
      <3>1. PICK q \in AcceptReqs : AcceptCommit(q) /\ req[q].email = e
        BY <2>5
      <3>2. Accepted(req[q].link, e, req[q].slug, member[<<e, req[q].slug>>])'
        BY <3>1, AcceptCommitIs DEF Accepted
      <3> QED  BY <3>2 DEF Accepted
    <2>6. ASSUME NEW r \in SeedRuns, SeedAdmin(r) \/ SeedOwner(r)
          PROVE  pc'[r] # "idle"
      BY <1>0, <2>6 DEF SeedAdmin, SeedOwner, AfterOwner, Step, Goto, TypeOK
    <2> QED  BY <1>1, <2>3, <2>4, <2>5, <2>6, UserStep
  <1>2. ASSUME NEW e \in Emails, user'[e] = "unverified"
        PROVE  \E r \in SignupReqs :
                  /\ req'[r].email = e
                  /\ verification'[r] = "mailed" \/ pc'[r] \in {"verification", "mail", "failed"}
    <2>1. ASSUME NEW r \in SignupReqs, SignupCommit(r), req[r].email = e
          PROVE  req'[r].email = e /\ pc'[r] = "verification"
      BY <2>1, SignupCommitIs DEF Moves
    <2>2. ASSUME NEW r \in SignupReqs, req[r].email = e, verification[r] = "mailed"
          PROVE  req'[r].email = e /\ verification'[r] = "mailed"
      <3>1. pc[r] # "idle" /\ req'[r].email = e /\ verification'[r] \in {"mailed", "used"}
        BY <1>0, <2>2 DEF LinksInv, Kept
      <3>2. CASE \E q \in VerifyReqs : VerifyCommit(q) /\ req[q].link = r
        BY <1>2, <2>2, <3>2, VerifyCommitIs
      <3> QED  BY <2>2, <3>1, <3>2, VerificationStep
    <2>3. ASSUME NEW r \in SignupReqs, req[r].email = e, pc[r] \in {"verification", "mail", "failed"}
          PROVE  /\ req'[r].email = e
                 /\ verification'[r] = "mailed" \/ pc'[r] \in {"verification", "mail", "failed"}
      <3>1. req'[r] = req[r] /\ (pc[r] = "failed" => pc'[r] = "failed")
        BY <1>0, <2>3 DEF Kept
      <3>2. CASE Still(r)
        BY <2>3, <3>1, <3>2 DEF Still
      <3>3. CASE SignupSaveVerification(r) \/ SignupMail(r) \/ Abort(r)
        BY <1>0, <2>3, <3>1, <3>3 DEF SignupSaveVerification, SignupMail, Abort, Step, Goto, TypeOK
      <3>4. CASE \/ SignupFindPlan(r) \/ SignupCreatePlan(r) \/ SignupCommit(r) \/ SignupConflict(r)
                 \/ SignupIssue(r)
        BY <2>3, <3>4 DEF SignupFindPlan, SignupCreatePlan, SignupCommit, SignupConflict, SignupIssue, Step
      <3>5. CASE \E d \in Emails, s \in Slugs, t \in Tiers : SignupCheck(r, d, s, t)
        BY <2>3, <3>5 DEF SignupCheck, Arrive
      <3> QED  BY <3>2, <3>3, <3>4, <3>5, SignupStep DEF Signup
    <2>4. CASE user'[e] = user[e]
      BY <1>2, <2>2, <2>3, <2>4 DEF VerificationFollowsMail
    <2>5. CASE \E q \in AcceptReqs : AcceptCommit(q) /\ req[q].email = e
      <3>1. user'[e] = user[e]
        BY <1>2, <2>5 DEF AcceptCommit, TypeOK
      <3> QED  BY <2>4, <3>1
    <2>6. CASE \E r \in SeedRuns : SeedAdmin(r) \/ SeedOwner(r)
      <3>1. user'[e] = user[e]
        BY <1>2, <2>6 DEF SeedAdmin, SeedOwner, TypeOK
      <3> QED  BY <2>4, <3>1
    <2> QED  BY <1>2, <2>1, <2>4, <2>5, <2>6, UserStep, VerifyCommitIs
  <1> QED  BY <1>1, <1>2 DEF VerificationFollowsMail

-----------------------------------------------------------------------------
(* The seed. *)

LEMMA SeedRowIs ==
  ASSUME AccountsInv, NEW r \in SeedRuns, SeedRow(r)
  PROVE  \E k \in 0 .. DemoRows - 1 :
            /\ {x.row : x \in demo'} = 1 .. k + 1
            /\ IsFiniteSet(demo') /\ Cardinality(demo') = k + 1
            /\ \A x, y \in demo' : x.row = y.row => x = y
            /\ \A x \in demo' : x.by = r
            /\ pc[r] = "rows" /\ (k + 1 < DemoRows \/ pc'[r] = "done")
            /\ k + 1 = DemoRows \/ pc'[r] = "rows"
            /\ \A q \in SeedRuns \ {r} : pc'[q] = pc[q] /\ pc[q] # "rows"
  <1> USE DEF AccountsInv
  <1>0. DemoRows \in Nat /\ r \in Requests
    BY AccountsSeed DEF Requests
  <1>1. pc[r] = "rows"
    BY DEF SeedRow, Step
  <1>2. \A x \in demo : x.by = r
    BY <1>1 DEF SeedInv, PastOwner, TypeOK
  <1>3. \A q \in SeedRuns \ {r} : pc[q] # "rows"
    BY <1>1 DEF SeedInv, PastOwner
  <1>4. PICK k \in 0 .. DemoRows :
           /\ {x.row : x \in demo} = 1 .. k
           /\ IsFiniteSet(demo) /\ Cardinality(demo) = k
           /\ \A x, y \in demo : x.row = y.row => x = y
           /\ k < DemoRows
    BY <1>1 DEF RowsInv
  <1>5. {x \in demo : x.by = r} = demo
    BY <1>2
  <1> DEFINE new == [row |-> k + 1, by |-> r]
  <1>6. demo' = demo \cup {new} /\ Step(r, "rows", IF k + 1 = DemoRows THEN "done" ELSE "rows")
    BY <1>4, <1>5 DEF SeedRow
  <1>7. \A x \in demo : x.row \in 1 .. k
    BY <1>4
  <1>8. new \notin demo
    BY <1>0, <1>4, <1>7
  <1>9. IsFiniteSet(demo') /\ Cardinality(demo') = k + 1
    BY <1>4, <1>6, <1>8, FS_AddElement
  <1>10. {x.row : x \in demo'} = {x.row : x \in demo} \cup {k + 1}
    <2>1. new.row = k + 1
      OBVIOUS
    <2>2. \A x : x \in demo' <=> x \in demo \/ x = new
      BY <1>6
    <2> HIDE DEF new
    <2>3. \A n : n \in {x.row : x \in demo'} <=> n \in {x.row : x \in demo} \/ n = k + 1
      <3> SUFFICES ASSUME NEW n
                   PROVE  (\E x \in demo' : n = x.row) <=> (\E x \in demo : n = x.row) \/ n = k + 1
        OBVIOUS
      <3> QED  BY <2>1, <2>2
    <2> QED  BY <2>3
  <1>11. {x.row : x \in demo'} = 1 .. k + 1
    BY <1>0, <1>4, <1>10
  <1>12. \A x, y \in demo' : x.row = y.row => x = y
    BY <1>0, <1>4, <1>6, <1>7
  <1>13. /\ pc'[r] = IF k + 1 = DemoRows THEN "done" ELSE "rows"
         /\ \A q \in SeedRuns \ {r} : pc'[q] = pc[q]
    BY <1>0, <1>6 DEF Step, Goto, TypeOK, Requests
  <1>14. \A x \in demo' : x.by = r
    BY <1>2, <1>6
  <1>15. k \in 0 .. DemoRows - 1 /\ (k + 1 < DemoRows \/ k + 1 = DemoRows)
    BY <1>0, <1>4
  <1> QED  BY <1>1, <1>3, <1>9, <1>11, <1>12, <1>13, <1>14, <1>15

LEMMA DemoStep ==
  ASSUME Next
  PROVE  demo' = demo \/ \E r \in SeedRuns : SeedRow(r)
  BY DEF Next, Signup, Accept, Seed, SignupCheck, SignupFindPlan, SignupCreatePlan, SignupCommit,
         SignupConflict, SignupSaveVerification, SignupMail, SignupIssue, VerifyRead, VerifyCommit,
         InviteCreate, InviteMail, AcceptRead, AcceptCommit, AcceptIssue, SeedPlan, SeedAdmin,
         SeedFind, SeedTenant, SeedOwner, Abort

\* A run gets past the owner by inserting the owner, who must not have been there.
LEMMA PastOwnerStep ==
  ASSUME AccountsInv, Next, NEW r \in SeedRuns, PastOwner(r)'
  PROVE  \/ PastOwner(r)
         \/ /\ user[OwnerEmail] = "absent" /\ Moves(r, {"owner"}, {"rows"})
            /\ member'[<<OwnerEmail, DemoSlug>>] = "firm_owner"
            /\ demo' = demo /\ demo = {}
  <1> USE DEF AccountsInv
  <1>0. r \in Requests /\ OwnerEmail \in Emails /\ DemoSlug \in Slugs
    BY AccountsSeed DEF Requests
  <1>1. CASE \E q \in SeedRuns : SeedRow(q)
    BY <1>1, SeedRowIs DEF PastOwner
  <1>2. CASE demo' = demo /\ pc'[r] = "rows" /\ pc[r] # "rows"
    <2>1. SeedOwner(r)
      <3>1. CASE SeedPlan(r) \/ SeedAdmin(r) \/ SeedFind(r) \/ SeedTenant(r) \/ SeedRow(r) \/ Abort(r)
        BY <1>0, <1>2, <3>1 DEF SeedPlan, SeedAdmin, SeedFind, SeedTenant, SeedRow, Abort, Step, Goto, TypeOK
      <3> QED  BY <1>2, <3>1, SeedStep DEF Seed, Still
    <2>2. /\ user[OwnerEmail] = "absent" /\ Moves(r, {"owner"}, {"rows"})
          /\ member'[<<OwnerEmail, DemoSlug>>] = "firm_owner"
          /\ member[<<OwnerEmail, DemoSlug>>] = "none"
      BY <1>0, <1>2, <2>1, SeedOwnerIs DEF Moves
    <2>3. demo = {}
      BY <2>2 DEF SeedInv, PastOwner, TypeOK
    <2> QED  BY <1>2, <2>2, <2>3
  <1>3. CASE demo' = demo /\ ~(pc'[r] = "rows" /\ pc[r] # "rows")
    BY <1>3 DEF PastOwner
  <1> QED  BY <1>1, <1>2, <1>3, DemoStep

LEMMA RowsKept ==
  ASSUME AccountsInv, Next
  PROVE  RowsInv'
  <1> USE DEF AccountsInv
  <1>0. DemoRows \in Nat \ {0}
    BY AccountsSeed
  <1>1. CASE \E r \in SeedRuns : SeedRow(r)
    <2>1. PICK r \in SeedRuns : SeedRow(r)
      BY <1>1
    <2>2. PICK k \in 0 .. DemoRows - 1 :
            /\ {x.row : x \in demo'} = 1 .. k + 1
            /\ IsFiniteSet(demo') /\ Cardinality(demo') = k + 1
            /\ \A x, y \in demo' : x.row = y.row => x = y
            /\ k + 1 < DemoRows \/ pc'[r] = "done"
            /\ \A q \in SeedRuns \ {r} : pc'[q] = pc[q] /\ pc[q] # "rows"
      BY <2>1, SeedRowIs
    <2>3. \A q \in SeedRuns : pc'[q] = "rows" => k + 1 < DemoRows
      BY <2>2
    <2>4. k + 1 \in 0 .. DemoRows
      BY <1>0
    <2> QED  BY <2>2, <2>3, <2>4 DEF RowsInv
  <1>2. CASE demo' = demo
    <2>1. PICK k \in 0 .. DemoRows :
            /\ {x.row : x \in demo} = 1 .. k
            /\ IsFiniteSet(demo) /\ Cardinality(demo) = k
            /\ \A x, y \in demo : x.row = y.row => x = y
            /\ \A r \in SeedRuns : pc[r] = "rows" => k < DemoRows
      BY DEF RowsInv
    <2>2. ASSUME NEW r \in SeedRuns, pc'[r] = "rows"
          PROVE  k < DemoRows
      <3>1. CASE pc[r] = "rows"
        BY <2>1, <3>1
      <3>2. CASE pc[r] # "rows"
        <4>1. CASE demo = {}
          <5>1. 1 .. k = {}
            BY <2>1, <4>1
          <5> QED  BY <1>0, <5>1
        <4>2. CASE demo # {}
          <5>1. PastOwner(r)
            BY <2>2, <4>2, PastOwnerStep DEF PastOwner
          <5>2. PastOwner(r)'
            BY <2>2 DEF PastOwner
          <5>3. r \in Requests
            BY DEF Requests
          <5>4. CASE SeedOwner(r)
            <6>1. member[<<OwnerEmail, DemoSlug>>] # "none"
              BY <5>1 DEF SeedInv
            <6> QED  BY <2>2, <5>4, <6>1, SeedOwnerIs, AccountsSeed DEF Moves
          <5>5. CASE SeedPlan(r) \/ SeedAdmin(r) \/ SeedFind(r) \/ SeedTenant(r) \/ SeedRow(r) \/ Abort(r)
            BY <2>2, <3>2, <5>3, <5>5 DEF SeedPlan, SeedAdmin, SeedFind, SeedTenant, SeedRow, Abort, Step, Goto, TypeOK
          <5> QED  BY <2>2, <3>2, <5>4, <5>5, SeedStep DEF Seed, Still
        <4> QED  BY <4>1, <4>2
      <3> QED  BY <3>1, <3>2
    <2> QED  BY <1>2, <2>1, <2>2 DEF RowsInv
  <1> QED  BY <1>1, <1>2, DemoStep

LEMMA SeedKept ==
  ASSUME AccountsInv, TypeOK', Next, Kept
  PROVE  SeedInv'
  <1> USE DEF AccountsInv
  <1>0. SeedRuns \subseteq Requests /\ OwnerEmail \in Emails /\ DemoSlug \in Slugs /\ DemoRows \in Nat
    BY AccountsSeed DEF Requests
  <1>1. ASSUME NEW r \in SeedRuns, pc'[r] \in {"owner", "rows", "done"}
        PROVE  tenant'[DemoSlug] # NoTier
    <2>1. CASE tenant[DemoSlug] # NoTier
      BY <1>0, <2>1 DEF Kept
    <2>2. CASE tenant[DemoSlug] = NoTier
      <3>1. pc[r] \notin {"owner", "rows", "done"}
        BY <2>2 DEF SeedInv
      <3>2. CASE SeedTenant(r)
        BY <1>0, <2>2, <3>2, AccountsNull, AccountsSeed DEF SeedTenant, TypeOK
      <3>3. CASE SeedPlan(r) \/ SeedAdmin(r) \/ SeedFind(r) \/ Abort(r)
        BY <1>0, <1>1, <2>2, <3>3 DEF SeedPlan, SeedAdmin, SeedFind, Abort, Step, Goto, TypeOK
      <3>4. CASE SeedOwner(r) \/ SeedRow(r) \/ Still(r)
        BY <1>1, <3>1, <3>4 DEF SeedOwner, SeedRow, Still, Step
      <3> QED  BY <3>2, <3>3, <3>4, SeedStep DEF Seed
    <2> QED  BY <2>1, <2>2
  <1>2. ASSUME NEW r \in SeedRuns, PastOwner(r)'
        PROVE  member'[<<OwnerEmail, DemoSlug>>] # "none"
    <2>1. CASE PastOwner(r)
      BY <1>0, <2>1, MemberStays DEF SeedInv
    <2> QED  BY <1>2, <2>1, PastOwnerStep
  <1>3. ASSUME NEW q \in SeedRuns, NEW r \in SeedRuns, PastOwner(q)', PastOwner(r)'
        PROVE  q = r
    <2>1. user[OwnerEmail] = "absent" => ~PastOwner(q) /\ ~PastOwner(r)
      BY <1>0, MemberHasFirm DEF SeedInv
    <2>2. CASE PastOwner(q) \/ PastOwner(r)
      BY <1>3, <2>1, <2>2, PastOwnerStep DEF SeedInv
    <2>3. CASE ~PastOwner(q) /\ ~PastOwner(r)
      BY <1>0, <1>3, <2>3, PastOwnerStep DEF Moves
    <2> QED  BY <2>2, <2>3
  <1>4. ASSUME tenant'[DemoSlug] # NoTier
        PROVE  \/ Whole'
               \/ \E q \in SeedRuns : pc'[q] \in {"owner", "rows", "failed"}
               \/ \E q \in SignupReqs, e \in Emails : SignedUp(q, e, DemoSlug)'
    <2>1. CASE tenant[DemoSlug] = NoTier
      BY <1>0, <1>4, <2>1, TenantStep
    <2>2. CASE Whole
      <3>1. 1 .. DemoRows \subseteq {x.row : x \in demo'}
        BY <2>2 DEF Whole, Kept
      <3>2. {x.row : x \in demo'} \subseteq 1 .. DemoRows
        BY DEF TypeOK
      <3> QED  BY <3>1, <3>2 DEF Whole
    <2>3. ASSUME NEW q \in SeedRuns, pc[q] \in {"owner", "rows", "failed"}
          PROVE  Whole' \/ pc'[q] \in {"owner", "rows", "failed"}
      <3>1. CASE SeedRow(q)
        <4>1. PICK k \in 0 .. DemoRows - 1 :
                /\ {x.row : x \in demo'} = 1 .. k + 1
                /\ k + 1 = DemoRows \/ pc'[q] = "rows"
          BY <3>1, SeedRowIs
        <4> QED  BY <4>1 DEF Whole
      <3>2. CASE SeedOwner(q) \/ Abort(q) \/ Still(q)
        BY <1>0, <2>3, <3>2 DEF SeedOwner, AfterOwner, Abort, Still, Step, Goto, TypeOK
      <3>3. CASE SeedPlan(q) \/ SeedAdmin(q) \/ SeedFind(q) \/ SeedTenant(q)
        BY <2>3, <3>3 DEF SeedPlan, SeedAdmin, SeedFind, SeedTenant, Step
      <3> QED  BY <3>1, <3>2, <3>3, SeedStep DEF Seed
    <2>4. ASSUME NEW q \in SignupReqs, NEW e \in Emails, SignedUp(q, e, DemoSlug)
          PROVE  SignedUp(q, e, DemoSlug)'
      BY <1>0, <2>4, SignedUpKept
    <2> QED  BY <2>1, <2>2, <2>3, <2>4 DEF SeedInv
  <1> QED  BY <1>1, <1>2, <1>3, <1>4 DEF SeedInv

-----------------------------------------------------------------------------
(* The theorems. *)

LEMMA InitAccounts ==
  ASSUME Init
  PROVE  AccountsInv
  <1>1. TypeOK
    BY AskedTypes, AccountsSeed DEF Init, TypeOK, LinkStates, Steps, Roles, Nothing, Asked
  <1>2. RowsInv
    <2>1. /\ 0 \in 0 .. DemoRows /\ {x.row : x \in demo} = 1 .. 0
          /\ IsFiniteSet(demo) /\ Cardinality(demo) = 0
      BY AccountsSeed, FS_EmptySet DEF Init
    <2> QED  BY <2>1 DEF Init, RowsInv, Requests
  <1>3. SeedInv
    BY AccountsSeed DEF Init, SeedInv, PastOwner, Requests
  <1>4. PlansInv /\ LinksInv /\ VerifyInv /\ InvitesInv /\ AcceptInv /\ SignupInv
    BY DEF Init, PlansInv, LinksInv, VerifyInv, InvitesInv, AcceptInv, SignupInv, Requests
  <1>5. OpenedInv /\ MembershipHasGrant /\ SessionIsBacked /\ VerificationFollowsMail
    BY DEF Init, OpenedInv, Founded, SignedUp, MembershipHasGrant, SessionIsBacked,
           VerificationFollowsMail
  <1> QED  BY <1>1, <1>2, <1>3, <1>4, <1>5 DEF AccountsInv

LEMMA StepAccounts ==
  ASSUME AccountsInv, Next
  PROVE  AccountsInv'
  <1>1. TypeOK' /\ Kept
    BY StepTypes, StepKeeps DEF AccountsInv
  <1>2. PlansInv' /\ LinksInv' /\ VerifyInv' /\ InvitesInv' /\ AcceptInv' /\ SignupInv'
    BY <1>1, PlansKept, LinksKept, VerifyKept, InvitesKept, AcceptKept, SignupKept DEF AccountsInv
  <1>3. SeedInv' /\ RowsInv'
    BY <1>1, SeedKept, RowsKept
  <1>4. OpenedInv' /\ MembershipHasGrant' /\ SessionIsBacked' /\ VerificationFollowsMail'
    BY <1>1, OpenedKept, GrantsKept, SessionsKept, MailsKept
  <1> QED  BY <1>1, <1>2, <1>3, <1>4 DEF AccountsInv

LEMMA StutterAccounts ==
  ASSUME AccountsInv, UNCHANGED vars
  PROVE  AccountsInv'
  <1> USE DEF vars, identities, AccountsInv
  <1>1. TypeOK'
    BY DEF TypeOK
  <1>2. PlansInv' /\ LinksInv' /\ VerifyInv'
    BY DEF PlansInv, LinksInv, VerifyInv
  <1>3. InvitesInv' /\ AcceptInv' /\ SignupInv'
    BY DEF InvitesInv, AcceptInv, SignupInv, Backed, Accepted
  <1>4. SeedInv'
    BY DEF SeedInv, PastOwner, Whole, SignedUp
  <1>5. RowsInv'
    BY DEF RowsInv
  <1>6. \A e, s : Founded(e, s)' <=> Founded(e, s)
    BY DEF Founded, SignedUp
  <1>9. OpenedInv'
    BY <1>6 DEF OpenedInv
  <1>8. MembershipHasGrant'
    <2> SUFFICES ASSUME NEW e \in Emails, NEW s \in Slugs, member'[<<e, s>>] # "none"
                 PROVE  \/ \E i \in InviteReqs : Accepted(i, e, s, member[<<e, s>>])'
                        \/ member'[<<e, s>>] = "firm_owner" /\ Founded(e, s)'
      BY DEF MembershipHasGrant
    <2>3. \A i : Accepted(i, e, s, member[<<e, s>>])' <=> Accepted(i, e, s, member[<<e, s>>])
      BY DEF Accepted
    <2> QED  BY <1>6, <2>3 DEF MembershipHasGrant
  <1>7. SessionIsBacked' /\ VerificationFollowsMail'
    BY DEF SessionIsBacked, VerificationFollowsMail, Accepted
  <1> QED  BY <1>1, <1>2, <1>3, <1>4, <1>5, <1>7, <1>8, <1>9

\* The inductive invariant holds: what signups, invitations, verifications and
\* runs of the seed rely on between two awaits, and all the properties below.
THEOREM AccountsCorrect == Spec => []AccountsInv
  <1>1. Init => AccountsInv
    BY InitAccounts
  <1>2. AccountsInv /\ [Next]_vars => AccountsInv'
    BY StepAccounts, StutterAccounts
  <1> QED  BY <1>1, <1>2, PTL DEF Spec

\* Rows and requests are in states the schema and the code give them, a tenant
\* has the plan it subscribes to, and a member is a user of a tenant there is.
THEOREM AccountsTypes == Spec => []TypeOK
  <1>1. AccountsInv => TypeOK
    BY DEF AccountsInv
  <1> QED  BY <1>1, AccountsCorrect, PTL

\* No interleaving of signups, no failure and no invitation leaves a workspace
\* without an owner, unless the one who opened it accepted a lesser role, or
\* nobody did: the seed has inserted its tenant and not come to the owner.
THEOREM WorkspaceHasOwner == Spec => []TenantHasOwner
  <1>1. ASSUME AccountsInv, NEW s \in Slugs, NEW e \in Emails, Founded(e, s)
        PROVE  \/ member[<<e, s>>] = "firm_owner"
               \/ \E i \in InviteReqs : \E role \in Roles \ {"firm_owner"} :
                     Accepted(i, e, s, role) /\ member[<<e, s>>] = role
    <2>1. member[<<e, s>>] \in Roles
      BY <1>1 DEF AccountsInv, OpenedInv, TypeOK
    <2>2. \/ \E i \in InviteReqs : Accepted(i, e, s, member[<<e, s>>])
          \/ member[<<e, s>>] = "firm_owner"
      BY <1>1, <2>1 DEF AccountsInv, OpenedInv, MembershipHasGrant
    <2> QED  BY <2>1, <2>2
  <1>2. AccountsInv => TenantHasOwner
    <2> SUFFICES ASSUME AccountsInv, NEW s \in Slugs, tenant[s] # NoTier
                 PROVE  \/ \E e \in Emails : member[<<e, s>>] = "firm_owner"
                        \/ \E i \in InviteReqs, e \in Emails, role \in Roles \ {"firm_owner"} :
                              Founded(e, s) /\ Accepted(i, e, s, role) /\ member[<<e, s>>] = role
                        \/ /\ s = DemoSlug /\ \A e \in Emails : ~Founded(e, s)
                           /\ \E r \in SeedRuns : pc[r] \in {"owner", "failed"}
      BY DEF TenantHasOwner
    <2>1. CASE \E e \in Emails : Founded(e, s)
      BY <1>1, <2>1
    <2>2. CASE \A e \in Emails : ~Founded(e, s)
      BY <2>2 DEF AccountsInv, OpenedInv
    <2> QED  BY <2>1, <2>2
  <1> QED  BY <1>2, AccountsCorrect, PTL

\* Whoever is in a firm signed it up, was seeded there, or accepted an
\* invitation to it in that very role.
THEOREM MembersWereGranted == Spec => []MembershipHasGrant
  <1>1. AccountsInv => MembershipHasGrant
    BY DEF AccountsInv
  <1> QED  BY <1>1, AccountsCorrect, PTL

\* Every session that signup or acceptInvite opened is for a member, in the role
\* it carries or in one that a later invitation gave.
THEOREM SessionsAreBacked == Spec => []SessionIsBacked
  <1>1. AccountsInv => SessionIsBacked
    BY DEF AccountsInv
  <1> QED  BY <1>1, AccountsCorrect, PTL

\* An address is verified by mail or by the seed only, and whoever signed up and
\* is not verified was sent a link, unless the signup broke off before.
THEOREM VerifiedByMail == Spec => []VerificationFollowsMail
  <1>1. AccountsInv => VerificationFollowsMail
    BY DEF AccountsInv
  <1> QED  BY <1>1, AccountsCorrect, PTL

\* However many runs of the seed there are, side by side with signups and dying
\* anywhere, one at most inserts demo rows, each once and after the owner; and a
\* run that ended well leaves the demo whole unless another broke off or a
\* signup had taken its slug.
THEOREM SeededOnce == Spec => []DemoIsSeededOnce
  <1>1. AccountsInv => DemoIsSeededOnce
    <2> SUFFICES ASSUME AccountsInv
                 PROVE  DemoIsSeededOnce
      OBVIOUS
    <2>1. \A x, y \in demo : x.row = y.row => x = y
      BY DEF AccountsInv, RowsInv
    <2>2. demo # {} => member[<<OwnerEmail, DemoSlug>>] # "none"
      BY DEF AccountsInv, SeedInv, PastOwner, TypeOK
    <2>3. \A r \in SeedRuns : pc[r] = "done" =>
             \/ {x.row : x \in demo} = 1 .. DemoRows
             \/ \E q \in SeedRuns : pc[q] \in {"owner", "rows", "failed"}
             \/ \E q \in SignupReqs, e \in Emails : SignedUp(q, e, DemoSlug)
      BY DEF AccountsInv, SeedInv, Whole
    <2> QED  BY <2>1, <2>2, <2>3 DEF DemoIsSeededOnce
  <1> QED  BY <1>1, AccountsCorrect, PTL

=============================================================================
