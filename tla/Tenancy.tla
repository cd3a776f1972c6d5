------------------------------- MODULE Tenancy -------------------------------
(***************************************************************************)
(* From a request to the rows it touches: the middleware resolves a tenant *)
(* from the host or a header, the guards complete the request's store from *)
(* the access token and check the role, and the extension of the Prisma    *)
(* client scopes every query of the CRM and library routes by that store.  *)
(* What a row refers to is not scoped: the body of a request may name any  *)
(* row, an include loads it, and deleting it cascades to who refers to it. *)
(*                                                                         *)
(* Each request has a store of its own (AsyncLocalStorage); requests meet  *)
(* in the tables only.  Every query is a point where others may run.       *)
(***************************************************************************)
EXTENDS Naturals

CONSTANTS
    Tenants,        \* by slug
    Slugs,          \* what a header or a subdomain may name; not all are tenants
    Hosts, PlatformHosts,
    Subdomain,      \* Subdomain[h]: the slug before appRootDomain, if any
    CustomDomain,   \* CustomDomain[h]: the tenant of the CustomDomain row, if any
    Bearers,        \* access tokens: [admin, tenant, role]
    Models,         \* the tables that requests ask for
    Seeded,         \* rows there from the start
    SeededAs,       \* SeededAs[id]: their model, tenant and references
    Requests,
    NoTenant, NoBearer, NoRole, NoId

Tables == {"Tenant", "Organization", "Contact", "Deal", "Activity", "Tag",
           "Service", "CoverLetter", "TermsTemplate", "ServicePackage"}

Roles == {"firm_readonly", "firm_member", "firm_admin", "firm_owner", "platform_admin"}

ASSUME TenancyHosts ==
    /\ PlatformHosts \subseteq Hosts /\ Tenants \subseteq Slugs /\ NoTenant \notin Slugs
    /\ Subdomain \in [Hosts -> Slugs \cup {NoTenant}]
    /\ CustomDomain \in [Hosts -> Tenants \cup {NoTenant}]
ASSUME TenancyBearers ==
    /\ Bearers \subseteq [admin : BOOLEAN, tenant : Tenants \cup {NoTenant}, role : Roles \cup {NoRole}]
    /\ NoBearer \notin Bearers /\ NoRole \notin Roles
ASSUME TenancyRows ==
    /\ SeededAs \in [Seeded -> [model : Tables, tenant : Tenants, refs : SUBSET Seeded]]
    /\ \A id \in Seeded : \A o \in SeededAs[id].refs : SeededAs[o].tenant = SeededAs[id].tenant
    /\ Seeded \cap Requests = {} /\ NoId \notin Seeded \cup Requests

VARIABLES
    row,         \* the rows and their foreign keys; a new one is named by its request
    pc, req,     \* the next step of a request; what it asks
    store,       \* its TenantStore
    answer,      \* the rows, with their tenants, it was answered with
    unresolved,  \* history: requests whose tenant lookup failed
    crossing     \* history: pairs of tenants with a reference written between them

vars == <<row, pc, req, store, answer, unresolved, crossing>>

Ids == Seeded \cup Requests

-----------------------------------------------------------------------------
(* The routes: operation, model, least role, and whether they are public. *)

Route(op, model, min) == [op |-> op, model |-> model, min |-> min, public |-> FALSE]

CrmRoutes ==
    LET tables == {"Organization", "Contact", "Deal", "Activity", "Tag"} IN
    {Route("findMany", m, NoRole) : m \in tables}
      \cup {Route("create", m, "firm_member") : m \in tables}
      \cup {Route("updateMany", m, "firm_member") : m \in {"Organization", "Contact", "Deal"}}
      \cup {Route("findFirst", "Contact", NoRole), Route("deleteMany", "Contact", "firm_member")}

LibraryRoutes ==
    LET tables == {"Service", "CoverLetter", "TermsTemplate", "ServicePackage"} IN
    {Route("findMany", m, NoRole) : m \in tables} \cup {Route("create", m, "firm_admin") : m \in tables}

\* tenant/context asks the unscoped client, by the tenant of the store.
ContextRoute == [op |-> "context", model |-> "Tenant", min |-> NoRole, public |-> TRUE]

Routes == {x \in CrmRoutes \cup LibraryRoutes : x.model \in Models} \cup {ContextRoute}

Rank == [firm_readonly |-> 10, firm_member |-> 30, firm_admin |-> 40, firm_owner |-> 50,
         platform_admin |-> 100]

NoStore == [tenant |-> NoTenant, admin |-> FALSE]
NoReq   == [host |-> NoTenant, header |-> NoTenant, bearer |-> NoBearer,
            route |-> ContextRoute, id |-> NoId]

Init ==
    /\ row = [id \in Ids |->
                IF id \in Seeded
                THEN [model |-> SeededAs[id].model, tenant |-> SeededAs[id].tenant,
                      refs |-> SeededAs[id].refs, state |-> "present", by |-> NoId]
                ELSE [model |-> "Tenant", tenant |-> NoTenant,
                      refs |-> {}, state |-> "absent", by |-> NoId]]
    /\ pc = [r \in Requests |-> "idle"]
    /\ req = [r \in Requests |-> NoReq]
    /\ store = [r \in Requests |-> NoStore]
    /\ answer = [r \in Requests |-> {}]
    /\ unresolved = {} /\ crossing = {}

Goto(r, step) == pc' = [pc EXCEPT ![r] = step]

-----------------------------------------------------------------------------
(* TenantContextMiddleware *)

Receive(r) ==
    /\ pc[r] = "idle"
    /\ \E host \in Hosts, header \in Slugs \cup {NoTenant},
          bearer \in Bearers \cup {NoBearer}, route \in Routes :
          /\ req' = [req EXCEPT ![r] = [host |-> host, header |-> header, bearer |-> bearer,
                                        route |-> route, id |-> NoId]]
          /\ Goto(r, IF host \in PlatformHosts /\ header = NoTenant THEN "guard" ELSE "slug")
    /\ UNCHANGED <<row, store, answer, unresolved, crossing>>

\* The header, else the subdomain.
SlugOf(r) == IF req[r].header # NoTenant THEN req[r].header ELSE Subdomain[req[r].host]

OnPlatform(r) == req[r].host \in PlatformHosts

BySlug(r) == IF SlugOf(r) \in Tenants THEN SlugOf(r) ELSE NoTenant

ResolveSlug(r) ==
    /\ pc[r] = "slug"
    /\ store' = [store EXCEPT ![r].tenant = BySlug(r)]
    /\ Goto(r, IF BySlug(r) = NoTenant /\ ~OnPlatform(r) THEN "domain" ELSE "guard")
    /\ UNCHANGED <<row, req, answer, unresolved, crossing>>

ResolveDomain(r) ==
    /\ pc[r] = "domain"
    /\ store' = [store EXCEPT ![r].tenant = CustomDomain[req[r].host]]
    /\ Goto(r, "guard")
    /\ UNCHANGED <<row, req, answer, unresolved, crossing>>

\* A lookup throws: the error is logged and the request goes on without a tenant.
ResolveFails(r) ==
    /\ pc[r] = "domain" \/ (pc[r] = "slug" /\ SlugOf(r) # NoTenant)
    /\ unresolved' = unresolved \cup {r}
    /\ Goto(r, "guard")
    /\ UNCHANGED <<row, req, store, answer, crossing>>

-----------------------------------------------------------------------------
(* JwtAuthGuard, JwtStrategy.validate, RolesGuard *)

\* Slip: the token's tenant replaces the host's.
ValidatedToToken(s, bearer) ==
    [tenant |-> IF bearer.tenant # NoTenant THEN bearer.tenant ELSE s.tenant, admin |-> bearer.admin]

Validated(s, bearer) ==
    [tenant |-> IF s.tenant = NoTenant THEN bearer.tenant ELSE s.tenant, admin |-> bearer.admin]

\* Slip: a token without a role passes.
PermittedWithoutRole(bearer, route) ==
    \/ route.min = NoRole \/ bearer.admin
    \/ bearer.role = NoRole
    \/ Rank[bearer.role] >= Rank[route.min]

Permitted(bearer, route) ==
    \/ route.min = NoRole \/ bearer.admin
    \/ bearer.role # NoRole /\ Rank[bearer.role] >= Rank[route.min]

\* On a public route the token is not looked at.
PassPublic(r) ==
    /\ pc[r] = "guard"
    /\ req[r].route.public
    /\ Goto(r, "query")
    /\ UNCHANGED <<row, req, store, answer, unresolved, crossing>>

PassGuards(r) ==
    /\ pc[r] = "guard"
    /\ ~req[r].route.public
    /\ req[r].bearer # NoBearer
    /\ store' = [store EXCEPT ![r] = Validated(@, req[r].bearer)]
    /\ Goto(r, IF Permitted(req[r].bearer, req[r].route) THEN "query" ELSE "refused")
    /\ UNCHANGED <<row, req, answer, unresolved, crossing>>

Unauthenticated(r) ==
    /\ pc[r] = "guard"
    /\ ~req[r].route.public
    /\ req[r].bearer = NoBearer
    /\ Goto(r, "refused")
    /\ UNCHANGED <<row, req, store, answer, unresolved, crossing>>

-----------------------------------------------------------------------------
(* tenantScopeExtension, and the handlers *)

\* A query under a store without tenant throws, unless an administrator asks.
Admitted(r) == store[r].admin \/ store[r].tenant # NoTenant

Refuse(r) ==
    /\ pc[r] = "query"
    /\ req[r].route.op # "context"
    /\ ~Admitted(r)
    /\ Goto(r, "error")
    /\ UNCHANGED <<row, req, store, answer, unresolved, crossing>>

\* The where clause: tenantId is added to it, except for an administrator.
Filtered(r, id) == store[r].admin \/ row[id].tenant = store[r].tenant

Visible(r) ==
    {id \in Ids : row[id].state = "present" /\ row[id].model = req[r].route.model /\ Filtered(r, id)}

Asks(r, op) == pc[r] = "query" /\ req[r].route.op = op /\ Admitted(r)

Answer(r, ids) == answer' = [answer EXCEPT ![r] = {[id |-> i, tenant |-> row[i].tenant] : i \in ids}]

\* What a row may refer to.  (The items of a package name services, which no
\* route loads or deletes: they are left out.)
Refers(model) ==
    CASE model = "Contact"  -> {"Organization"}
      [] model = "Deal"     -> {"Organization", "Contact"}
      [] model = "Activity" -> {"Deal", "Contact"}
      [] OTHER              -> {}

\* The references a body may carry: the dto asks for strings, the foreign keys
\* for rows that exist, neither for rows of the tenant.  On an update, a field
\* that is left out keeps its reference, which leads to such a row as well.
Bodies(model) ==
    {refs \in SUBSET {id \in Ids : row[id].state = "present" /\ row[id].model \in Refers(model)} :
        \A i, j \in refs : row[i].model = row[j].model => i = j}

\* The pairs of tenants that references from tenant t cross.
Across(t, refs) == {{t, row[o].tenant} : o \in {i \in refs : row[i].tenant # t}}

\* Slip: a single contact comes with every activity.
IncludedAnyActivity(r, id) ==
    {o \in Ids : req[r].route.model \in {"Contact", "Deal"} /\ o \in row[id].refs}
      \cup {a \in Ids : /\ req[r].route.op = "findFirst" /\ row[a].state = "present"
                        /\ row[a].model = "Activity"}

\* include: contacts and deals come with what they refer to, a single contact
\* with the activities that refer to it, whatever their tenant.
Included(r, id) ==
    {o \in Ids : req[r].route.model \in {"Contact", "Deal"} /\ o \in row[id].refs}
      \cup {a \in Ids : /\ req[r].route.op = "findFirst" /\ row[a].state = "present"
                        /\ row[a].model = "Activity" /\ id \in row[a].refs}

WithIncluded(r, ids) == ids \cup UNION {Included(r, id) : id \in ids}

\* The list, without the search text that may narrow it.
FindMany(r) ==
    /\ Asks(r, "findMany")
    /\ Answer(r, WithIncluded(r, Visible(r)))
    /\ Goto(r, "done")
    /\ UNCHANGED <<row, req, store, unresolved, crossing>>

FindFirst(r) ==
    /\ Asks(r, "findFirst")
    /\ \E id \in Ids :
          /\ Answer(r, WithIncluded(r, {id} \cap Visible(r)))
          /\ Goto(r, IF id \in Visible(r) THEN "done" ELSE "refused")
    /\ UNCHANGED <<row, req, store, unresolved, crossing>>

\* The insert or the update is turned down: a reference leads nowhere, a name is
\* taken, a value is none of the column's.
Reject(r) ==
    /\ Goto(r, "error")
    /\ UNCHANGED <<row, crossing>>

NewRow(r, refs) ==
    [model |-> req[r].route.model, tenant |-> store[r].tenant, refs |-> refs,
     state |-> "present", by |-> r]

\* Slip: the column accepts null.
CreateUnowned(r) ==
    /\ Asks(r, "create")
    /\ row' = [row EXCEPT ![r] = NewRow(r, {})]
    /\ answer' = [answer EXCEPT ![r] = {[id |-> r, tenant |-> store[r].tenant]}]
    /\ Goto(r, "done")
    /\ UNCHANGED <<req, store, unresolved, crossing>>

\* tenantId is put in the data: not for an administrator, whose insert then
\* lacks a required column and fails, on a tenant's host too.
Create(r) ==
    /\ Asks(r, "create")
    /\ \/ /\ ~store[r].admin
          /\ \E refs \in Bodies(req[r].route.model) :
                /\ row' = [row EXCEPT ![r] = NewRow(r, refs)]
                /\ crossing' = crossing \cup Across(store[r].tenant, refs)
          /\ answer' = [answer EXCEPT ![r] = {[id |-> r, tenant |-> store[r].tenant]}]
          /\ Goto(r, "done")
       \/ Reject(r) /\ UNCHANGED answer
    /\ UNCHANGED <<req, store, unresolved>>

\* Slip: the body may carry a tenantId.
UpdatedFromBody(r, id, refs) ==
    [row[id] EXCEPT !.by = r, !.refs = refs,
                    !.tenant = IF req[r].bearer.tenant = NoTenant THEN @ ELSE req[r].bearer.tenant]

Updated(r, id, refs) == [row[id] EXCEPT !.by = r, !.refs = refs]

UpdateMany(r) ==
    /\ Asks(r, "updateMany")
    /\ \E id \in Ids :
          /\ req' = [req EXCEPT ![r].id = id]
          /\ \/ /\ id \in Visible(r)
                /\ \E refs \in Bodies(req[r].route.model) :
                      /\ row' = [row EXCEPT ![id] = Updated(r, id, refs)]
                      /\ crossing' = crossing \cup Across(row[id].tenant, refs)
                /\ Goto(r, "reread")
             \/ id \in Visible(r) /\ Reject(r)
             \/ id \notin Visible(r) /\ Goto(r, "refused") /\ UNCHANGED <<row, crossing>>
    /\ UNCHANGED <<store, answer, unresolved>>

\* The row that was updated is read again, without what it refers to, and
\* returned whether found or not.
Reread(r) ==
    /\ pc[r] = "reread"
    /\ Answer(r, {req[r].id} \cap Visible(r))
    /\ Goto(r, "done")
    /\ UNCHANGED <<row, req, store, unresolved, crossing>>

\* The row goes, with the activities that refer to it (onDelete: Cascade); the
\* deals that do lose the reference (SetNull).  Only contacts are ever deleted.
WithoutRow(r, id) ==
    LET referring == {i \in Ids : row[i].state = "present" /\ id \in row[i].refs} IN
    [i \in Ids |->
        IF i = id \/ (i \in referring /\ row[i].model = "Activity")
        THEN [row[i] EXCEPT !.state = "deleted", !.by = r]
        ELSE IF i \in referring /\ row[i].model = "Deal"
             THEN [row[i] EXCEPT !.refs = @ \ {id}, !.by = r] ELSE row[i]]

DeleteMany(r) ==
    /\ Asks(r, "deleteMany")
    /\ \E id \in Ids : row' = IF id \in Visible(r) THEN WithoutRow(r, id) ELSE row
    /\ Goto(r, "done")
    /\ UNCHANGED <<req, store, answer, unresolved, crossing>>

\* The branding of the store's tenant, or of the platform: answered without a row.
Context(r) ==
    /\ pc[r] = "query"
    /\ req[r].route.op = "context"
    /\ answer' = [answer EXCEPT ![r] =
                    IF store[r].tenant = NoTenant THEN {}
                    ELSE {[id |-> NoId, tenant |-> store[r].tenant]}]
    /\ Goto(r, "done")
    /\ UNCHANGED <<row, req, store, unresolved, crossing>>

Next == \E r \in Requests :
    \/ Receive(r) \/ ResolveSlug(r) \/ ResolveDomain(r) \/ ResolveFails(r)
    \/ PassPublic(r) \/ PassGuards(r) \/ Unauthenticated(r) \/ Refuse(r)
    \/ FindMany(r) \/ FindFirst(r) \/ Create(r) \/ UpdateMany(r) \/ Reread(r)
    \/ DeleteMany(r) \/ Context(r)

Spec == Init /\ [][Next]_vars

-----------------------------------------------------------------------------
(* Properties. *)

\* Rows, requests, stores and answers are of the kinds the code gives them.
TypeOK ==
    /\ row \in [Ids -> [model : Tables, tenant : Tenants \cup {NoTenant}, refs : SUBSET Ids,
                        state : {"absent", "present", "deleted"}, by : Requests \cup {NoId}]]
    /\ pc \in [Requests -> {"idle", "slug", "domain", "guard", "query", "reread",
                            "done", "refused", "error"}]
    /\ req \in [Requests -> [host : Hosts \cup {NoTenant}, header : Slugs \cup {NoTenant},
                             bearer : Bearers \cup {NoBearer}, route : Routes,
                             id : Ids \cup {NoId}]]
    /\ store \in [Requests -> [tenant : Tenants \cup {NoTenant}, admin : BOOLEAN]]
    /\ answer \in [Requests -> SUBSET [id : Ids \cup {NoId}, tenant : Tenants]]
    /\ unresolved \subseteq Requests
    /\ crossing \subseteq SUBSET Tenants
    /\ \A id \in Ids : row[id].state # "absent" => row[id].tenant # NoTenant

IsAdmin(r) == req[r].bearer # NoBearer /\ req[r].bearer.admin

\* The tenant that the address of the request means, whatever the token says.
Addressed(r) ==
    IF OnPlatform(r) /\ req[r].header = NoTenant THEN NoTenant
    ELSE IF BySlug(r) # NoTenant \/ OnPlatform(r) THEN BySlug(r)
    ELSE CustomDomain[req[r].host]

\* The one tenant a request is for: the one addressed, or if none is, or its
\* lookup failed, the one its token is for.
Scope(r) ==
    IF Addressed(r) # NoTenant /\ r \notin unresolved THEN Addressed(r)
    ELSE IF req[r].bearer # NoBearer THEN req[r].bearer.tenant ELSE NoTenant

\* A row of t may come before a request for tenant s, or be changed by it, only
\* where some request wrote a reference between rows of the two tenants.
Reaches(s, t) == t = s \/ {s, t} \in crossing

\* Unless an administrator asks, an answer holds rows of the one tenant that the
\* request is for, whatever else its token or its address could name; and rows
\* of another tenant only after a reference was written across the two.  A
\* request for no tenant is answered with nothing.
ReadsStayInScope ==
    \A r \in Requests : pc[r] # "idle" /\ ~IsAdmin(r) =>
       \A x \in answer[r] : Reaches(Scope(r), x.tenant)

\* The same of every row a request created, changed or deleted, the rows that a
\* deletion cascades to included.
WritesStayInScope ==
    \A r \in Requests : pc[r] # "idle" /\ ~IsAdmin(r) =>
       \A id \in Ids : row[id].by = r => Reaches(Scope(r), row[id].tenant)

\* Whoever wrote a row held a token with the rank its route asks for (in some
\* tenant: the role is the token's), and wrote by a route of that table, or
\* deleted what the row refers to.
WritesAreEntitled ==
    \A id \in Ids : row[id].by # NoId =>
       LET x == req[row[id].by] IN
       /\ x.bearer # NoBearer
       /\ x.bearer.admin \/ (x.bearer.role # NoRole /\ Rank[x.bearer.role] >= Rank[x.route.min])
       /\ x.route.min # NoRole
       /\ \/ x.route.model = row[id].model
          \/ x.route.op = "deleteMany" /\ x.route.model \in Refers(row[id].model)

\* An update answers with the row, or with nothing if another request deleted
\* it between the two queries.
RereadFindsRow ==
    \A r \in Requests : pc[r] = "done" /\ req[r].route.op = "updateMany" /\ answer[r] = {} =>
       row[req[r].id].state = "deleted" /\ row[req[r].id].by # r

\* "No cross-tenant read is possible": an answer holds rows of the tenant that
\* the query ran in, and of no other.
AnswersStayInTenant ==
    \A r \in Requests : pc[r] = "done" /\ ~IsAdmin(r) =>
       \A x \in answer[r] : x.tenant = store[r].tenant

=============================================================================
