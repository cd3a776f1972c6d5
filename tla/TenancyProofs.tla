----------------------------- MODULE TenancyProofs -----------------------------
(***************************************************************************)
(* Scoping of requests, for any set of tenants, hosts, access tokens, rows *)
(* and requests: what a request touches belongs to the tenant of its store *)
(* or was reached over a reference that some request wrote across tenants; *)
(* and the store's tenant is the one the request is for.                   *)
(***************************************************************************)
EXTENDS Tenancy, TLAPS

Row == [model : Tables, tenant : Tenants \cup {NoTenant}, refs : SUBSET Ids,
        state : {"absent", "present", "deleted"}, by : Requests \cup {NoId}]

\* A reference leads to a row, of the same tenant unless one was written across.
RefsInv ==
    \A id \in Ids : \A o \in row[id].refs :
       row[o].state # "absent" /\ Reaches(row[id].tenant, row[o].tenant)

\* The store is empty while the tenant is looked up.  From then on its tenant is
\* the one addressed or, once the guards have passed, the token's.
StoreOK(r) ==
    /\ pc[r] # "idle" => req[r].host \in Hosts
    /\ pc[r] \in {"idle", "slug", "domain"} => store[r] = NoStore /\ r \notin unresolved
    /\ pc[r] = "slug" => ~(OnPlatform(r) /\ req[r].header = NoTenant)
    /\ pc[r] = "domain" => BySlug(r) = NoTenant /\ ~OnPlatform(r)
    /\ pc[r] \notin {"idle", "slug", "domain"} =>
          /\ store[r].tenant \in {NoTenant, Scope(r)}
          /\ Addressed(r) # NoTenant /\ r \notin unresolved => store[r].tenant = Addressed(r)
    /\ store[r].admin => IsAdmin(r)

\* What a request has touched, and where it is when it may.
TouchOK(r) ==
    /\ pc[r] \in {"idle", "slug", "domain", "guard"} =>
          answer[r] = {} /\ \A id \in Ids : row[id].by # r
    /\ ~store[r].admin =>
          /\ \A x \in answer[r] : Reaches(store[r].tenant, x.tenant)
          /\ \A id \in Ids : row[id].by = r => Reaches(store[r].tenant, row[id].tenant)
    /\ row[r].state # "absent" => pc[r] = "done"

\* Routes that read or write rows are for bearers of a sufficient rank.
Entitled(r) ==
    /\ req[r].bearer # NoBearer
    /\ Permitted(req[r].bearer, req[r].route)

\* The route is one of the row's table, or deletes what the row refers to.
Concerns(route, model) ==
    route.model = model \/ (route.op = "deleteMany" /\ route.model \in Refers(model))

EntitledOK(r) ==
    /\ pc[r] = "query" /\ req[r].route.op # "context" => Entitled(r)
    /\ \A id \in Ids : row[id].by = r =>
          Entitled(r) /\ Concerns(req[r].route, row[id].model) /\ req[r].route.min # NoRole

\* A row that was updated is found again, unless another request deletes it.
RereadOK(r) ==
    /\ pc[r] = "reread" =>
          /\ req[r].id \in Ids
          /\ row[req[r].id].model = req[r].route.model
          /\ Filtered(r, req[r].id)
          /\ \/ row[req[r].id].state = "present"
             \/ row[req[r].id].state = "deleted" /\ row[req[r].id].by # r
    /\ pc[r] = "done" /\ req[r].route.op = "updateMany" /\ answer[r] = {} =>
          /\ req[r].id \in Ids
          /\ row[req[r].id].state = "deleted" /\ row[req[r].id].by # r

RequestOK(r) == StoreOK(r) /\ TouchOK(r) /\ EntitledOK(r) /\ RereadOK(r)

\* The inductive invariant.
Inv ==
    /\ TypeOK
    /\ RefsInv
    /\ \A id \in Ids : row[id].by # NoId => row[id].state # "absent"
    /\ \A r \in Requests : RequestOK(r)

-----------------------------------------------------------------------------
(* Routes and rows. *)

\* Only the context route is public, and writing takes a rank.
LEMMA RouteFacts ==
  ASSUME NEW x \in Routes
  PROVE  /\ x.public <=> x.op = "context"
         /\ x.op \in {"create", "updateMany", "deleteMany"} => x.min # NoRole /\ x.model \in Tables
         /\ x.op = "deleteMany" => x.model = "Contact"
         /\ x.min = NoRole \/ x.min \in Roles
  BY TenancyBearers DEF Tables, Routes, CrmRoutes, LibraryRoutes, ContextRoute, Route, Roles

\* What one step of r does to a row: nothing; or, if r sees it, an update; or, if
\* r sees it or a contact it refers to, a deletion or the loss of a reference; or
\* its creation.  Table and tenant of a row that is there stay.
RowMoves(r, id) ==
    \/ row'[id] = row[id]
    \/ /\ id \in Visible(r) /\ pc[r] = "query" /\ req[r].route.op = "updateMany"
       /\ \E refs \in Bodies(req[r].route.model) :
             /\ row'[id] = [row[id] EXCEPT !.by = r, !.refs = refs]
             /\ Across(row[id].tenant, refs) \subseteq crossing'
    \/ /\ pc[r] = "query" /\ req[r].route.op = "deleteMany" /\ row[id].state = "present"
       /\ \E c \in Visible(r) :
             /\ id = c \/ (c \in row[id].refs /\ row[id].model \in {"Activity", "Deal"})
             /\ \/ row'[id] = [row[id] EXCEPT !.state = "deleted", !.by = r]
                \/ row'[id] = [row[id] EXCEPT !.refs = @ \ {c}, !.by = r]
    \/ /\ id = r /\ pc[r] = "query" /\ req[r].route.op = "create" /\ ~store[r].admin
       /\ store[r].tenant # NoTenant
       /\ \E refs \in Bodies(req[r].route.model) :
             /\ row'[id] = NewRow(r, refs)
             /\ Across(store[r].tenant, refs) \subseteq crossing'

Step(r) ==
    \/ Receive(r) \/ ResolveSlug(r) \/ ResolveDomain(r) \/ ResolveFails(r)
    \/ PassPublic(r) \/ PassGuards(r) \/ Unauthenticated(r) \/ Refuse(r)
    \/ FindMany(r) \/ FindFirst(r) \/ Create(r) \/ UpdateMany(r) \/ Reread(r)
    \/ DeleteMany(r) \/ Context(r)

LEMMA RowsMove ==
  ASSUME Inv, NEW r \in Requests, Step(r)
  PROVE  \A id \in Ids : RowMoves(r, id)
  <1> SUFFICES ASSUME NEW id \in Ids  PROVE RowMoves(r, id)
    OBVIOUS
  <1> row \in [Ids -> Row]
    BY DEF Inv, TypeOK, Row
  <1>1. CASE row' = row
    BY <1>1 DEF RowMoves
  <1>2. CASE Create(r)
    <2>1. CASE Reject(r)
      BY <1>1, <2>1 DEF Reject
    <2>2. CASE ~Reject(r)
      <3>1. PICK refs \in Bodies(req[r].route.model) :
               /\ row' = [row EXCEPT ![r] = NewRow(r, refs)] /\ ~store[r].admin
               /\ crossing' = crossing \cup Across(store[r].tenant, refs)
        BY <1>2, <2>2 DEF Create
      <3>2. row'[id] = row[id] \/ (id = r /\ row'[id] = NewRow(r, refs))
        BY <3>1
      <3> QED
        BY <1>2, <3>1, <3>2 DEF Create, Asks, Admitted, RowMoves
    <2> QED  BY <2>1, <2>2
  <1>3. CASE UpdateMany(r)
    <2>1. CASE \E i \in Ids : /\ i \in Visible(r)
                              /\ \E refs \in Bodies(req[r].route.model) :
                                    /\ row' = [row EXCEPT ![i] = Updated(r, i, refs)]
                                    /\ crossing' = crossing \cup Across(row[i].tenant, refs)
      <3>1. PICK i \in Ids, refs \in Bodies(req[r].route.model) :
               /\ i \in Visible(r) /\ row' = [row EXCEPT ![i] = Updated(r, i, refs)]
               /\ Across(row[i].tenant, refs) \subseteq crossing'
        BY <2>1
      <3>2. row'[id] = row[id] \/ (id = i /\ row'[id] = [row[id] EXCEPT !.by = r, !.refs = refs])
        BY <3>1 DEF Updated
      <3> QED
        BY <1>3, <3>1, <3>2 DEF UpdateMany, Asks, RowMoves
    <2> QED
      BY <1>1, <1>3, <2>1 DEF UpdateMany, Reject
  <1>4. CASE DeleteMany(r)
    <2>1. PICK c \in Ids : (c \in Visible(r) /\ row' = WithoutRow(r, c)) \/ row' = row
      BY <1>4 DEF DeleteMany
    <2>2. CASE c \in Visible(r) /\ row' = WithoutRow(r, c)
      <3>1. \/ row'[id] = row[id]
            \/ /\ row[id].state = "present"
               /\ id = c \/ (c \in row[id].refs /\ row[id].model \in {"Activity", "Deal"})
               /\ \/ row'[id] = [row[id] EXCEPT !.state = "deleted", !.by = r]
                  \/ row'[id] = [row[id] EXCEPT !.refs = @ \ {c}, !.by = r]
        BY <2>2 DEF WithoutRow, Visible
      <3> QED
        BY <1>4, <2>2, <3>1 DEF DeleteMany, Asks, RowMoves
    <2> QED
      BY <1>1, <2>1, <2>2
  <1> QED
    BY <1>1, <1>2, <1>3, <1>4
       DEF Step, Receive, ResolveSlug, ResolveDomain, ResolveFails, PassPublic, PassGuards,
           Unauthenticated, Refuse, FindMany, FindFirst, Reread, Context

\* A body refers to rows that are there, and what it crosses is written down.
LEMMA BodyFacts ==
  ASSUME NEW model, NEW refs \in Bodies(model)
  PROVE  /\ refs \subseteq Ids /\ \A o \in refs : row[o].state = "present"
         /\ \A t : \A o \in refs : row[o].tenant = t \/ {t, row[o].tenant} \in Across(t, refs)
  <1>1. refs \subseteq {id \in Ids : row[id].state = "present" /\ row[id].model \in Refers(model)}
    BY DEF Bodies
  <1> QED  BY <1>1 DEF Across

LEMMA CrossingGrows ==
  ASSUME NEW r \in Requests, Step(r)
  PROVE  crossing \subseteq crossing' /\ \A s, t : Reaches(s, t) => Reaches(s, t)'
  <1>1. crossing \subseteq crossing'
    BY DEF Step, Receive, ResolveSlug, ResolveDomain, ResolveFails, PassPublic, PassGuards,
           Unauthenticated, Refuse, FindMany, FindFirst, Create, UpdateMany, Reread, DeleteMany,
           Context, Reject
  <1> QED  BY <1>1 DEF Reaches

LEMMA ReachesBack ==
  ASSUME NEW s, NEW t, Reaches(s, t)
  PROVE  Reaches(t, s)
  <1>1. {s, t} = {t, s}
    OBVIOUS
  <1> QED  BY <1>1 DEF Reaches

\* A row that is there keeps its table and its tenant, and is deleted for good.
LEMMA RowsStay ==
  ASSUME Inv, NEW r \in Requests, Step(r), NEW id \in Ids, row[id].state # "absent"
  PROVE  /\ row'[id].model = row[id].model /\ row'[id].tenant = row[id].tenant
         /\ row'[id].state # "absent"
         /\ \/ row'[id].state = row[id].state /\ (row[id].state = "deleted" => row'[id] = row[id])
            \/ row'[id].state = "deleted" /\ row'[id].by = r
  <1>1. RowMoves(r, id) /\ row[id] \in Row
    BY RowsMove DEF Inv, TypeOK, Row
  <1>2. row[r].state # "absent" => pc[r] = "done"
    BY DEF Inv, RequestOK, TouchOK
  <1> QED  BY <1>1, <1>2 DEF RowMoves, Row, Visible

\* A row keeps its type, and with an author it is there.
LEMMA RowsKept ==
  ASSUME Inv, NEW r \in Requests, Step(r)
  PROVE  /\ row' \in [Ids -> Row]
         /\ \A id \in Ids : row'[id].state # "absent" => row'[id].tenant # NoTenant
         /\ \A id \in Ids : row'[id].by # NoId => row'[id].state # "absent"
  <1> row \in [Ids -> Row] /\ store[r].tenant \in Tenants \cup {NoTenant} /\ req[r].route \in Routes
    BY DEF Inv, TypeOK, Row
  <1>1. row' = [id \in Ids |-> row'[id]]
    BY DEF Step, Receive, ResolveSlug, ResolveDomain, ResolveFails, PassPublic, PassGuards,
           Unauthenticated, Refuse, FindMany, FindFirst, Create, UpdateMany, Reread, DeleteMany,
           Context, Reject, WithoutRow
  <1>2. ASSUME NEW id \in Ids
        PROVE  /\ row'[id] \in Row
               /\ row'[id].state # "absent" => row'[id].tenant # NoTenant
               /\ row'[id].by # NoId => row'[id].state # "absent"
    <2>1. RowMoves(r, id) /\ row[id] \in Row
          /\ (row[id].state # "absent" => row[id].tenant # NoTenant)
          /\ (row[id].by # NoId => row[id].state # "absent")
      BY RowsMove DEF Inv, TypeOK
    <2>2. CASE row'[id] = row[id]
      BY <2>1, <2>2
    <2>3. ASSUME id \in Visible(r), NEW refs \in Bodies(req[r].route.model),
                 row'[id] = [row[id] EXCEPT !.by = r, !.refs = refs]
          PROVE  row'[id] \in Row /\ row'[id].state # "absent" /\ row'[id].tenant # NoTenant
      <3>1. refs \in SUBSET Ids
        BY BodyFacts
      <3> QED  BY <2>1, <2>3, <3>1 DEF Row, Visible
    <2>4. ASSUME NEW c, row[id].state = "present",
                 \/ row'[id] = [row[id] EXCEPT !.state = "deleted", !.by = r]
                 \/ row'[id] = [row[id] EXCEPT !.refs = @ \ {c}, !.by = r]
          PROVE  row'[id] \in Row /\ row'[id].state # "absent" /\ row'[id].tenant # NoTenant
      BY <2>1, <2>4 DEF Row
    <2>5. ASSUME NEW refs \in Bodies(req[r].route.model), row'[id] = NewRow(r, refs),
                 store[r].tenant # NoTenant, req[r].route.op = "create"
          PROVE  row'[id] \in Row /\ row'[id].state # "absent" /\ row'[id].tenant # NoTenant
      <3>1. refs \in SUBSET Ids /\ req[r].route.model \in Tables
        BY <2>5, BodyFacts, RouteFacts
      <3> QED  BY <2>5, <3>1 DEF Row, NewRow
    <2> QED
      BY <2>1, <2>2, <2>3, <2>4, <2>5 DEF RowMoves
  <1> QED  BY <1>1, <1>2

LEMMA RefsStep ==
  ASSUME Inv, NEW r \in Requests, Step(r)
  PROVE  RefsInv'
  <1> SUFFICES ASSUME NEW id \in Ids, NEW o \in row'[id].refs
               PROVE  row'[o].state # "absent" /\ Reaches(row[id].tenant, row[o].tenant)'
    BY DEF RefsInv
  <1>1. RowMoves(r, id) /\ row[id] \in Row
    BY RowsMove DEF Inv, TypeOK, Row
  \* A reference it had.
  <1>2. ASSUME o \in row[id].refs, row'[id].tenant = row[id].tenant
        PROVE  row'[o].state # "absent" /\ Reaches(row[id].tenant, row[o].tenant)'
    <2>1. o \in Ids /\ row[o].state # "absent" /\ Reaches(row[id].tenant, row[o].tenant)
      BY <1>1, <1>2 DEF Inv, RefsInv, Row
    <2>2. row'[o].tenant = row[o].tenant /\ row'[o].state # "absent"
      BY <2>1, RowsStay
    <2> QED  BY <1>2, <2>1, <2>2, CrossingGrows DEF Reaches
  \* A reference from a body.
  <1>3. ASSUME NEW refs \in Bodies(req[r].route.model), o \in refs,
               Across(row'[id].tenant, refs) \subseteq crossing'
        PROVE  row'[o].state # "absent" /\ Reaches(row[id].tenant, row[o].tenant)'
    <2>1. o \in Ids /\ row[o].state # "absent"
          /\ (row[o].tenant = row'[id].tenant
                \/ {row'[id].tenant, row[o].tenant} \in Across(row'[id].tenant, refs))
      BY <1>3, BodyFacts
    <2>2. row'[o].tenant = row[o].tenant /\ row'[o].state # "absent"
      BY <2>1, RowsStay
    <2> QED  BY <1>3, <2>1, <2>2 DEF Reaches
  <1>4. CASE row'[id].refs \subseteq row[id].refs /\ row'[id].tenant = row[id].tenant
    BY <1>2, <1>4
  <1>5. ASSUME NEW refs \in Bodies(req[r].route.model),
               row'[id] = [row[id] EXCEPT !.by = r, !.refs = refs],
               Across(row[id].tenant, refs) \subseteq crossing'
        PROVE  row'[o].state # "absent" /\ Reaches(row[id].tenant, row[o].tenant)'
    <2>1. row'[id].refs = refs /\ row'[id].tenant = row[id].tenant
      BY <1>1, <1>5 DEF Row
    <2> QED  BY <1>3, <1>5, <2>1
  <1>6. ASSUME NEW refs \in Bodies(req[r].route.model), row'[id] = NewRow(r, refs),
               Across(store[r].tenant, refs) \subseteq crossing'
        PROVE  row'[o].state # "absent" /\ Reaches(row[id].tenant, row[o].tenant)'
    <2>1. row'[id].refs = refs /\ row'[id].tenant = store[r].tenant
      BY <1>6 DEF NewRow
    <2> QED  BY <1>3, <1>6, <2>1
  <1>7. ASSUME NEW c, \/ row'[id] = [row[id] EXCEPT !.state = "deleted", !.by = r]
                      \/ row'[id] = [row[id] EXCEPT !.refs = @ \ {c}, !.by = r]
        PROVE  row'[id].refs \subseteq row[id].refs /\ row'[id].tenant = row[id].tenant
    BY <1>1, <1>7 DEF Row
  <1> QED  BY <1>1, <1>4, <1>5, <1>6, <1>7 DEF RowMoves

-----------------------------------------------------------------------------
(* The request that takes a step, and the others. *)

\* Where a request is addressed, and by whom, is in what it asks.
LEMMA AddressKept ==
  ASSUME NEW q, req'[q].host = req[q].host, req'[q].header = req[q].header,
         req'[q].bearer = req[q].bearer, req'[q].route = req[q].route
  PROVE  /\ Addressed(q)' = Addressed(q) /\ BySlug(q)' = BySlug(q) /\ OnPlatform(q)' = OnPlatform(q)
         /\ IsAdmin(q)' = IsAdmin(q) /\ Entitled(q)' = Entitled(q)
         /\ (q \in unresolved' <=> q \in unresolved) => Scope(q)' = Scope(q)
  BY DEF Addressed, BySlug, SlugOf, OnPlatform, IsAdmin, Scope, Entitled, Permitted

\* A step of r leaves alone what another request relies on.
LEMMA OtherRequests ==
  ASSUME Inv, NEW r \in Requests, Step(r), NEW q \in Requests, q # r,
         pc'[q] = pc[q], req'[q] = req[q], store'[q] = store[q], answer'[q] = answer[q],
         q \in unresolved' <=> q \in unresolved
  PROVE  RequestOK(q)'
  <1>1. RequestOK(q) /\ q \in Ids /\ q # NoId
    BY TenancyRows DEF Inv, Ids
  <1>2. StoreOK(q)'
    BY <1>1, AddressKept DEF RequestOK, StoreOK
  <1>3. ASSUME NEW id \in Ids, row'[id].by = q
        PROVE  row'[id] = row[id]
    <2>1. RowMoves(r, id) /\ row[id] \in Row
      BY RowsMove DEF Inv, TypeOK, Row
    <2>2. \A c, refs :
             /\ [row[id] EXCEPT !.by = r, !.refs = refs].by = r
             /\ [row[id] EXCEPT !.state = "deleted", !.by = r].by = r
             /\ [row[id] EXCEPT !.refs = @ \ {c}, !.by = r].by = r
             /\ NewRow(r, refs).by = r
      BY <2>1 DEF Row, NewRow
    <2>3. CASE \E refs \in Bodies(req[r].route.model) :
                  row'[id] = [row[id] EXCEPT !.by = r, !.refs = refs] \/ row'[id] = NewRow(r, refs)
      <3>1. row'[id].by = r
        BY <2>2, <2>3
      <3> QED  BY <3>1, <1>3
    <2>4. CASE \E c \in Visible(r) :
                  \/ row'[id] = [row[id] EXCEPT !.state = "deleted", !.by = r]
                  \/ row'[id] = [row[id] EXCEPT !.refs = @ \ {c}, !.by = r]
      <3>1. row'[id].by = r
        BY <2>2, <2>4
      <3> QED  BY <3>1, <1>3
    <2> QED  BY <2>1, <2>3, <2>4 DEF RowMoves
  <1>4. TouchOK(q)'
    <2>1. row[q].state = "absent" => row'[q] = row[q]
      <3>1. RowMoves(r, q)
        BY <1>1, RowsMove
      <3> QED  BY <3>1 DEF RowMoves, Visible
    <2> QED
      BY <1>1, <1>3, <2>1, CrossingGrows DEF RequestOK, TouchOK
  <1>5. EntitledOK(q)'
    BY <1>1, <1>3, AddressKept DEF RequestOK, EntitledOK
  <1>6. \A id \in Ids : row[id].state # "absent" =>
           /\ row'[id].model = row[id].model /\ row'[id].tenant = row[id].tenant
           /\ \/ row'[id].state = row[id].state /\ (row[id].state = "deleted" => row'[id] = row[id])
              \/ row'[id].state = "deleted" /\ row'[id].by = r
    BY RowsStay
  <1>7. RereadOK(q)'
    <2>1. CASE pc[q] = "reread"
      BY <1>1, <1>6, <2>1 DEF RequestOK, RereadOK, Filtered
    <2>2. CASE pc[q] = "done" /\ req[q].route.op = "updateMany" /\ answer[q] = {}
      BY <1>1, <1>6, <2>2 DEF RequestOK, RereadOK
    <2> QED  BY <2>1, <2>2 DEF RereadOK
  <1> QED  BY <1>2, <1>4, <1>5, <1>7 DEF RequestOK

LEMMA Arrivals ==
  ASSUME Inv, NEW r \in Requests, Receive(r)
  PROVE  RequestOK(r)'
  <1>1. PICK host \in Hosts, header \in Slugs \cup {NoTenant},
             bearer \in Bearers \cup {NoBearer}, route \in Routes :
          /\ req' = [req EXCEPT ![r] = [host |-> host, header |-> header, bearer |-> bearer,
                                        route |-> route, id |-> NoId]]
          /\ Goto(r, IF host \in PlatformHosts /\ header = NoTenant THEN "guard" ELSE "slug")
    BY DEF Receive
  <1>2. /\ req'[r] = [host |-> host, header |-> header, bearer |-> bearer, route |-> route, id |-> NoId]
        /\ pc'[r] = IF host \in PlatformHosts /\ header = NoTenant THEN "guard" ELSE "slug"
        /\ row' = row /\ store' = store /\ answer' = answer
        /\ unresolved' = unresolved /\ crossing' = crossing
    BY <1>1 DEF Receive, Goto, Inv, TypeOK
  <1>3. StoreOK(r) /\ TouchOK(r) /\ pc[r] = "idle"
    BY DEF Receive, Inv, RequestOK
  <1>4. StoreOK(r)'
    BY <1>2, <1>3 DEF StoreOK, NoStore, OnPlatform, Addressed
  <1>5. TouchOK(r)'
    BY <1>2, <1>3, TenancyRows DEF TouchOK, StoreOK, NoStore, Ids, Inv
  <1>6. EntitledOK(r)' /\ RereadOK(r)'
    BY <1>2, <1>3 DEF EntitledOK, RereadOK, TouchOK
  <1> QED  BY <1>4, <1>5, <1>6 DEF RequestOK

LEMMA Resolutions ==
  ASSUME Inv, NEW r \in Requests, ResolveSlug(r) \/ ResolveDomain(r) \/ ResolveFails(r)
  PROVE  RequestOK(r)'
  <1>1. RequestOK(r) /\ pc[r] \in {"slug", "domain"}
    BY DEF ResolveSlug, ResolveDomain, ResolveFails, Inv
  <1>2. /\ req' = req /\ row' = row /\ answer' = answer /\ ~store'[r].admin
        /\ pc'[r] \in {"domain", "guard"}
    BY <1>1 DEF ResolveSlug, ResolveDomain, ResolveFails, Goto, Inv, TypeOK, RequestOK, StoreOK, NoStore
  <1>3. StoreOK(r)'
    <2>1. CASE ResolveSlug(r)
      <3>1. /\ store'[r] = [store[r] EXCEPT !.tenant = BySlug(r)] /\ pc[r] = "slug"
            /\ pc'[r] = (IF BySlug(r) = NoTenant /\ ~OnPlatform(r) THEN "domain" ELSE "guard")
            /\ unresolved' = unresolved
        BY <2>1 DEF ResolveSlug, Goto, Inv, TypeOK
      <3>2. CASE BySlug(r) = NoTenant /\ ~OnPlatform(r)
        BY <1>1, <1>2, <3>1, <3>2, AddressKept DEF RequestOK, StoreOK, NoStore
      <3>3. CASE ~(BySlug(r) = NoTenant /\ ~OnPlatform(r))
        <4>1. Addressed(r) = BySlug(r)
          BY <1>1, <3>1, <3>3 DEF RequestOK, StoreOK, Addressed
        <4>2. store'[r].tenant = Addressed(r) /\ pc'[r] = "guard"
          BY <1>1, <3>1, <3>3, <4>1 DEF RequestOK, StoreOK, NoStore
        <4>3. Addressed(r) # NoTenant => Scope(r) = Addressed(r)
          BY <1>1 DEF RequestOK, StoreOK, Scope
        <4>4. Scope(r)' = Scope(r)
          BY <1>2, <3>1, AddressKept
        <4> QED
          BY <1>1, <1>2, <3>1, <4>2, <4>3, <4>4, AddressKept DEF RequestOK, StoreOK
      <3> QED  BY <3>2, <3>3
    <2>2. CASE ResolveDomain(r)
      <3>1. store'[r].tenant = CustomDomain[req[r].host] /\ pc[r] = "domain" /\ pc'[r] = "guard"
            /\ unresolved' = unresolved
        BY <2>2 DEF ResolveDomain, Goto, Inv, TypeOK
      <3>2. Addressed(r) = CustomDomain[req[r].host]
        BY <1>1, <3>1 DEF RequestOK, StoreOK, Addressed
      <3>3. Addressed(r) # NoTenant => Scope(r) = Addressed(r)
        BY <1>1 DEF RequestOK, StoreOK, Scope
      <3>4. Scope(r)' = Scope(r)
        BY <1>2, <3>1, AddressKept
      <3> QED
        BY <1>1, <1>2, <3>1, <3>2, <3>3, <3>4, AddressKept DEF RequestOK, StoreOK
    <2>3. CASE ResolveFails(r)
      <3>1. store'[r] = NoStore /\ pc'[r] = "guard" /\ r \in unresolved'
        BY <1>1, <2>3 DEF ResolveFails, Goto, Inv, TypeOK, RequestOK, StoreOK
      <3> QED
        BY <1>1, <1>2, <3>1, AddressKept DEF RequestOK, StoreOK, NoStore
    <2> QED  BY <2>1, <2>2, <2>3
  <1>4. TouchOK(r)'
    BY <1>1, <1>2 DEF RequestOK, TouchOK
  <1>5. EntitledOK(r)' /\ RereadOK(r)'
    BY <1>1, <1>2 DEF RequestOK, EntitledOK, RereadOK, TouchOK
  <1> QED  BY <1>3, <1>4, <1>5 DEF RequestOK

LEMMA Guards ==
  ASSUME Inv, NEW r \in Requests,
         PassPublic(r) \/ PassGuards(r) \/ Unauthenticated(r) \/ Refuse(r)
  PROVE  RequestOK(r)'
  <1>1. /\ RequestOK(r) /\ req[r].route \in Routes /\ pc[r] \in {"guard", "query"}
        /\ req' = req /\ row' = row /\ answer' = answer /\ unresolved' = unresolved
        /\ crossing' = crossing
    BY DEF PassPublic, PassGuards, Unauthenticated, Refuse, Inv, TypeOK
  <1>2. CASE PassGuards(r)
    <2>1. /\ store'[r] = Validated(store[r], req[r].bearer) /\ req[r].bearer # NoBearer
          /\ pc'[r] = (IF Permitted(req[r].bearer, req[r].route) THEN "query" ELSE "refused")
          /\ pc[r] = "guard"
      BY <1>2 DEF PassGuards, Goto, Inv, TypeOK
    <2>2. /\ store'[r].tenant = IF store[r].tenant = NoTenant THEN req[r].bearer.tenant
                                ELSE store[r].tenant
          /\ store'[r].admin = req[r].bearer.admin
      BY <2>1 DEF Validated
    <2>3. StoreOK(r)'
      BY <1>1, <2>1, <2>2, AddressKept DEF RequestOK, StoreOK, Scope, IsAdmin
    <2>4. TouchOK(r)'
      BY <1>1, <2>1 DEF RequestOK, TouchOK
    <2>5. EntitledOK(r)' /\ RereadOK(r)'
      BY <1>1, <2>1, AddressKept DEF RequestOK, EntitledOK, Entitled, RereadOK, TouchOK
    <2> QED  BY <2>3, <2>4, <2>5 DEF RequestOK
  <1>3. CASE PassPublic(r) \/ Unauthenticated(r) \/ Refuse(r)
    <2>1. /\ store' = store /\ pc'[r] \in {"query", "refused", "error"}
          /\ pc'[r] = "query" => req[r].route.public
      BY <1>3 DEF PassPublic, Unauthenticated, Refuse, Goto, Inv, TypeOK
    <2>2. StoreOK(r)'
      <3>1. Scope(r)' = Scope(r)
        BY <1>1, AddressKept
      <3> QED  BY <1>1, <2>1, <3>1, AddressKept DEF RequestOK, StoreOK
    <2>3. TouchOK(r)'
      BY <1>1, <2>1 DEF RequestOK, TouchOK, Reaches
    <2>4. EntitledOK(r)' /\ RereadOK(r)'
      BY <1>1, <2>1, RouteFacts, AddressKept DEF RequestOK, EntitledOK, RereadOK
    <2> QED  BY <2>2, <2>3, <2>4 DEF RequestOK
  <1> QED  BY <1>2, <1>3

\* What is loaded with the rows that r sees is within reach of its store.
LEMMA AnswerInReach ==
  ASSUME Inv, NEW r \in Requests, NEW ids, ids \subseteq Visible(r), NEW i \in WithIncluded(r, ids)
  PROVE  /\ i \in Ids /\ row[i].state # "absent"
         /\ ~store[r].admin => Reaches(store[r].tenant, row[i].tenant)
  <1>0. row \in [Ids -> Row] /\ RefsInv
    BY DEF Inv, TypeOK, Row
  <1>1. CASE i \in ids
    BY <1>1 DEF Visible, Filtered, Reaches
  <1>2. CASE i \notin ids
    <2>1. PICK id \in ids : i \in Included(r, id)
      BY <1>2 DEF WithIncluded
    <2>2. id \in Ids /\ row[id].state = "present" /\ Filtered(r, id)
      BY <2>1 DEF Visible
    <2>3. i \in Ids /\ (i \in row[id].refs \/ (row[i].state = "present" /\ id \in row[i].refs))
      BY <2>1 DEF Included
    <2>4. row[i].state # "absent" /\ Reaches(row[id].tenant, row[i].tenant)
      BY <1>0, <2>2, <2>3, ReachesBack DEF RefsInv
    <2> QED  BY <2>2, <2>3, <2>4 DEF Filtered
  <1> QED  BY <1>1, <1>2

LEMMA ReadsAnswer ==
  ASSUME NEW r, FindMany(r) \/ FindFirst(r) \/ Reread(r)
  PROVE  \E ids : ids \subseteq Visible(r) /\ (Answer(r, ids) \/ Answer(r, WithIncluded(r, ids)))
  <1>1. CASE FindMany(r)
    BY <1>1 DEF FindMany
  <1>2. CASE FindFirst(r)
    <2>1. PICK id \in Ids : Answer(r, WithIncluded(r, {id} \cap Visible(r)))
      BY <1>2 DEF FindFirst
    <2>2. {id} \cap Visible(r) \subseteq Visible(r)
      OBVIOUS
    <2> QED  BY <2>1, <2>2
  <1>3. CASE Reread(r)
    <2>1. {req[r].id} \cap Visible(r) \subseteq Visible(r)
      OBVIOUS
    <2> QED  BY <1>3, <2>1 DEF Reread
  <1> QED  BY <1>1, <1>2, <1>3

LEMMA Reads ==
  ASSUME Inv, NEW r \in Requests, FindMany(r) \/ FindFirst(r) \/ Context(r) \/ Reread(r)
  PROVE  RequestOK(r)'
  <1>1. /\ RequestOK(r) /\ pc[r] \in {"query", "reread"}
        /\ req' = req /\ row' = row /\ store' = store /\ unresolved' = unresolved
        /\ pc'[r] \in {"done", "refused"}
    BY DEF FindMany, FindFirst, Context, Reread, Asks, Goto, Inv, TypeOK
  <1>2. StoreOK(r)'
    BY <1>1, AddressKept DEF RequestOK, StoreOK
  <1>3. \A x \in answer'[r] : ~store[r].admin => Reaches(store[r].tenant, x.tenant)
    <2>1. CASE Context(r)
      BY <2>1 DEF Context, Inv, TypeOK, Reaches
    <2>2. ASSUME NEW ids, ids \subseteq Visible(r), Answer(r, ids) \/ Answer(r, WithIncluded(r, ids))
          PROVE  \A x \in answer'[r] : ~store[r].admin => Reaches(store[r].tenant, x.tenant)
      <3>1. answer'[r] \subseteq {[id |-> i, tenant |-> row[i].tenant] : i \in WithIncluded(r, ids)}
        BY <2>2 DEF Answer, Inv, TypeOK, WithIncluded
      <3> QED  BY <2>2, <3>1, AnswerInReach
    <2>3. CASE FindMany(r) \/ FindFirst(r) \/ Reread(r)
      BY <2>2, <2>3, ReadsAnswer
    <2> QED  BY <2>1, <2>3
  <1>4. TouchOK(r)'
    <2>1. row[r].state = "absent"
      BY <1>1 DEF RequestOK, TouchOK
    <2>2. \A s, t : Reaches(s, t) => Reaches(s, t)'
      BY CrossingGrows DEF Step
    <2> QED
      BY <1>1, <1>3, <2>1, <2>2 DEF RequestOK, TouchOK
  <1>5. EntitledOK(r)'
    BY <1>1, AddressKept DEF RequestOK, EntitledOK
  <1>6. RereadOK(r)'
    <2>1. CASE req[r].route.op = "updateMany"
      <3>1. Reread(r) /\ pc[r] = "reread"
        BY <2>1 DEF FindMany, FindFirst, Context, Reread, Asks
      <3>2. answer'[r] = {[id |-> i, tenant |-> row[i].tenant] : i \in {req[r].id} \cap Visible(r)}
        BY <3>1 DEF Reread, Answer, Inv, TypeOK
      <3>3. answer'[r] = {} => req[r].id \notin Visible(r)
        BY <3>2
      <3> QED
        BY <1>1, <3>1, <3>3 DEF RequestOK, RereadOK, Visible
    <2>2. CASE req[r].route.op # "updateMany"
      BY <1>1, <2>2 DEF RereadOK
    <2> QED  BY <2>1, <2>2
  <1> QED  BY <1>2, <1>4, <1>5, <1>6 DEF RequestOK

LEMMA Writes ==
  ASSUME Inv, NEW r \in Requests, Create(r) \/ UpdateMany(r) \/ DeleteMany(r)
  PROVE  RequestOK(r)'
  <1>1. /\ RequestOK(r) /\ req[r].route \in Routes /\ pc[r] = "query" /\ r \in Ids
        /\ req[r].route.op \in {"create", "updateMany", "deleteMany"}
        /\ store' = store /\ unresolved' = unresolved
        /\ pc'[r] \in {"done", "reread", "refused", "error"}
    BY DEF Create, UpdateMany, DeleteMany, Reject, Asks, Goto, Inv, TypeOK, Ids
  <1>2. /\ req'[r].host = req[r].host /\ req'[r].header = req[r].header
        /\ req'[r].bearer = req[r].bearer /\ req'[r].route = req[r].route
    BY DEF Create, UpdateMany, DeleteMany, Inv, TypeOK
  <1>3. Entitled(r) /\ req[r].route.min # NoRole
    BY <1>1, RouteFacts DEF RequestOK, EntitledOK
  <1>0. Step(r) /\ \A s, t : Reaches(s, t) => Reaches(s, t)'
    BY CrossingGrows DEF Step
  <1>4. ASSUME NEW id \in Ids, row'[id].by = r
        PROVE  /\ Concerns(req[r].route, row'[id].model)
               /\ ~store[r].admin => Reaches(store[r].tenant, row'[id].tenant)
    <2>1. RowMoves(r, id) /\ row[id] \in Row /\ RefsInv
      BY <1>0, RowsMove DEF Inv, TypeOK, Row
    <2>2. CASE row'[id] = row[id]
      BY <1>1, <1>4, <2>2 DEF RequestOK, EntitledOK, TouchOK
    <2>3. ASSUME id \in Visible(r), row'[id].model = row[id].model, row'[id].tenant = row[id].tenant
          PROVE  /\ Concerns(req[r].route, row'[id].model)
                 /\ ~store[r].admin => Reaches(store[r].tenant, row'[id].tenant)
      BY <2>3 DEF Visible, Filtered, Concerns, Reaches
    <2>4. ASSUME req[r].route.op = "deleteMany", NEW c \in Visible(r), c \in row[id].refs,
                 row[id].model \in {"Activity", "Deal"},
                 row'[id].model = row[id].model, row'[id].tenant = row[id].tenant
          PROVE  /\ Concerns(req[r].route, row'[id].model)
                 /\ ~store[r].admin => Reaches(store[r].tenant, row'[id].tenant)
      <3>1. "Contact" \in Refers(row[id].model)
        BY <2>4 DEF Refers
      <3>2. req[r].route.model = "Contact"
        BY <1>1, <2>4, RouteFacts
      <3>3. Reaches(row[c].tenant, row[id].tenant)
        BY <2>1, <2>4, ReachesBack DEF RefsInv
      <3> QED  BY <2>4, <3>1, <3>2, <3>3 DEF Concerns, Visible, Filtered
    <2>5. ASSUME NEW refs, row'[id] = NewRow(r, refs)
          PROVE  /\ Concerns(req[r].route, row'[id].model)
                 /\ ~store[r].admin => Reaches(store[r].tenant, row'[id].tenant)
      BY <2>5 DEF NewRow, Concerns, Reaches
    <2>6. row[id].state # "absent" =>
             row'[id].model = row[id].model /\ row'[id].tenant = row[id].tenant
      BY <1>0, RowsStay
    <2> QED  BY <2>1, <2>2, <2>3, <2>4, <2>5, <2>6 DEF RowMoves, Visible
  <1>5. StoreOK(r)'
    BY <1>1, <1>2, AddressKept DEF RequestOK, StoreOK
  <1>6. EntitledOK(r)'
    BY <1>1, <1>2, <1>3, <1>4, AddressKept DEF EntitledOK
  <1>7. CASE Create(r)
    <2>1. /\ \A x \in answer'[r] : answer'[r] # answer[r] => x.tenant = store[r].tenant
          /\ row'[r].state # "absent" => pc'[r] = "done"
      BY <1>1, <1>7 DEF Create, Reject, Goto, Inv, TypeOK, RequestOK, TouchOK
    <2>2. TouchOK(r)'
      BY <1>0, <1>1, <1>4, <2>1 DEF RequestOK, TouchOK, Reaches
    <2>3. RereadOK(r)'
      BY <1>1, <1>2, <1>7 DEF RereadOK, Create, Reject, Asks, Goto, Inv, TypeOK
    <2> QED  BY <1>5, <1>6, <2>2, <2>3 DEF RequestOK
  <1>8. CASE UpdateMany(r) \/ DeleteMany(r)
    <2>1. row'[r].state = "absent" /\ answer' = answer
      <3>1. RowMoves(r, r) /\ req[r].route.op # "create" /\ row[r].state = "absent"
        BY <1>0, <1>1, <1>8, RowsMove DEF UpdateMany, DeleteMany, Asks, RequestOK, TouchOK
      <3>2. row'[r] = row[r]
        BY <3>1 DEF RowMoves, Visible
      <3> QED  BY <1>8, <3>1, <3>2 DEF UpdateMany, DeleteMany
    <2>2. TouchOK(r)'
      BY <1>0, <1>1, <1>4, <2>1 DEF RequestOK, TouchOK
    <2>3. RereadOK(r)'
      <3>1. CASE UpdateMany(r)
        <4>1. PICK id \in Ids :
                 /\ req'[r].id = id
                 /\ \/ /\ id \in Visible(r) /\ pc'[r] = "reread"
                       /\ \E refs : row'[id] = Updated(r, id, refs)
                    \/ pc'[r] \in {"refused", "error"}
          BY <3>1 DEF UpdateMany, Reject, Goto, Inv, TypeOK
        <4>2. row[id] \in Row
          BY DEF Inv, TypeOK, Row
        <4>3. ASSUME id \in Visible(r), pc'[r] = "reread", NEW refs, row'[id] = Updated(r, id, refs)
              PROVE  RereadOK(r)'
          <5>1. /\ row'[id].model = req'[r].route.model /\ row'[id].state = "present"
                /\ row'[id].tenant = row[id].tenant /\ Filtered(r, id)
            BY <1>2, <4>2, <4>3 DEF Updated, Visible, Row
          <5> QED  BY <1>1, <4>1, <4>3, <5>1 DEF RereadOK, Filtered
        <4>4. CASE pc'[r] \in {"refused", "error"}
          BY <4>4 DEF RereadOK
        <4> QED  BY <4>1, <4>3, <4>4
      <3>2. CASE DeleteMany(r)
        BY <3>2 DEF DeleteMany, Asks, Goto, RereadOK, Inv, TypeOK
      <3> QED  BY <1>8, <3>1, <3>2
    <2> QED  BY <1>5, <1>6, <2>2, <2>3 DEF RequestOK
  <1> QED  BY <1>7, <1>8

-----------------------------------------------------------------------------
LEMMA TypeStep ==
  ASSUME Inv, NEW r \in Requests, Step(r)
  PROVE  TypeOK'
  <1>1. row' \in [Ids -> Row] /\ \A id \in Ids : row'[id].state # "absent" => row'[id].tenant # NoTenant
    BY RowsKept
  <1> USE DEF Goto
  <1>2. TypeOK /\ StoreOK(r) /\ RereadOK(r) /\ ContextRoute \in Routes
    BY DEF Inv, RequestOK, Routes
  <1>3. pc' \in [Requests -> {"idle", "slug", "domain", "guard", "query", "reread",
                             "done", "refused", "error"}]
        /\ unresolved' \subseteq Requests
    BY <1>2 DEF TypeOK, Step, Receive, ResolveSlug, ResolveDomain, ResolveFails, PassPublic,
                PassGuards, Unauthenticated, Refuse, FindMany, FindFirst, Create, UpdateMany,
                Reread, DeleteMany, Context, Reject
  <1>4. req' \in [Requests -> [host : Hosts \cup {NoTenant}, header : Slugs \cup {NoTenant},
                             bearer : Bearers \cup {NoBearer}, route : Routes,
                             id : Ids \cup {NoId}]]
    <2>1. CASE Receive(r)
      BY <1>2, <2>1 DEF TypeOK, Receive
    <2>2. CASE UpdateMany(r)
      <3>1. PICK id \in Ids : req' = [req EXCEPT ![r] = [req[r] EXCEPT !.id = id]]
        BY <2>2 DEF UpdateMany
      <3>2. [req[r] EXCEPT !.id = id] \in [host : Hosts \cup {NoTenant}, header : Slugs \cup {NoTenant},
                                          bearer : Bearers \cup {NoBearer}, route : Routes,
                                          id : Ids \cup {NoId}]
        <4>1. req[r] \in [host : Hosts \cup {NoTenant}, header : Slugs \cup {NoTenant},
                          bearer : Bearers \cup {NoBearer}, route : Routes, id : Ids \cup {NoId}]
          BY <1>2 DEF TypeOK
        <4> QED  BY <4>1
      <3> QED  BY <1>2, <3>1, <3>2 DEF TypeOK
    <2>3. CASE req' = req
      BY <1>2, <2>3 DEF TypeOK
    <2> QED
      BY <2>1, <2>2, <2>3
         DEF Step, ResolveSlug, ResolveDomain, ResolveFails, PassPublic, PassGuards,
             Unauthenticated, Refuse, FindMany, FindFirst, Create, Reread, DeleteMany, Context
  <1>5. store' \in [Requests -> [tenant : Tenants \cup {NoTenant}, admin : BOOLEAN]]
    <2>1. CASE ResolveSlug(r)
      BY <1>2, <2>1 DEF TypeOK, ResolveSlug, BySlug
    <2>2. CASE ResolveDomain(r)
      <3>1. CustomDomain[req[r].host] \in Tenants \cup {NoTenant}
        BY <1>2, <2>2, TenancyHosts DEF ResolveDomain, StoreOK
      <3> QED
        BY <1>2, <2>2, <3>1 DEF TypeOK, ResolveDomain
    <2>3. CASE PassGuards(r)
      <3>1. req[r].bearer \in [admin : BOOLEAN, tenant : Tenants \cup {NoTenant}, role : Roles \cup {NoRole}]
        BY <1>2, <2>3, TenancyBearers DEF TypeOK, PassGuards
      <3>2. Validated(store[r], req[r].bearer) \in [tenant : Tenants \cup {NoTenant}, admin : BOOLEAN]
        BY <1>2, <3>1 DEF TypeOK, Validated
      <3> QED
        BY <1>2, <2>3, <3>2 DEF TypeOK, PassGuards
    <2>4. CASE store' = store
      BY <1>2, <2>4 DEF TypeOK
    <2> QED
      BY <2>1, <2>2, <2>3, <2>4
         DEF Step, Receive, ResolveFails, PassPublic, Unauthenticated, Refuse, FindMany,
             FindFirst, Create, UpdateMany, Reread, DeleteMany, Context
  <1>6. answer' \in [Requests -> SUBSET [id : Ids \cup {NoId}, tenant : Tenants]]
    <2>1. ASSUME NEW ids, ids \subseteq Visible(r), Answer(r, ids) \/ Answer(r, WithIncluded(r, ids))
          PROVE  answer' \in [Requests -> SUBSET [id : Ids \cup {NoId}, tenant : Tenants]]
      <3>1. \A i \in WithIncluded(r, ids) : i \in Ids /\ row[i].tenant \in Tenants
        BY <1>2, <2>1, AnswerInReach DEF TypeOK
      <3>2. PICK loaded : loaded \subseteq WithIncluded(r, ids) /\ Answer(r, loaded)
        BY <2>1 DEF WithIncluded
      <3>3. {[id |-> i, tenant |-> row[i].tenant] : i \in loaded}
               \in SUBSET [id : Ids \cup {NoId}, tenant : Tenants]
        BY <3>1, <3>2
      <3> QED
        BY <1>2, <3>2, <3>3 DEF Answer, TypeOK
    <2>2. CASE FindMany(r) \/ FindFirst(r) \/ Reread(r)
      BY <2>1, <2>2, ReadsAnswer
    <2>3. CASE Create(r)
      BY <1>2, <2>3 DEF Create, Asks, Admitted, TypeOK, Ids
    <2>4. CASE Context(r)
      BY <1>2, <2>4 DEF Context, TypeOK
    <2>5. CASE answer' = answer
      BY <1>2, <2>5 DEF TypeOK
    <2> QED
      BY <2>2, <2>3, <2>4, <2>5
         DEF Step, Receive, ResolveSlug, ResolveDomain, ResolveFails, PassPublic, PassGuards,
             Unauthenticated, Refuse, UpdateMany, DeleteMany
  <1>7. crossing' \subseteq SUBSET Tenants
    <2>1. ASSUME NEW model, NEW refs \in Bodies(model), NEW t, t \in Tenants
          PROVE  Across(t, refs) \subseteq SUBSET Tenants
      <3>1. \A o \in refs : row[o].tenant \in Tenants
        BY <1>2, BodyFacts DEF TypeOK
      <3> QED  BY <2>1, <3>1 DEF Across
    <2>2. CASE Create(r)
      <3>1. store[r].tenant \in Tenants \/ store[r].admin
        BY <1>2, <2>2 DEF Create, Asks, Admitted, TypeOK
      <3> QED  BY <1>2, <2>1, <2>2, <3>1 DEF Create, Reject, TypeOK
    <2>3. CASE UpdateMany(r)
      <3>1. \A id \in Visible(r) : row[id].tenant \in Tenants
        BY <1>2 DEF Visible, TypeOK
      <3> QED  BY <1>2, <2>1, <2>3, <3>1 DEF UpdateMany, Reject, TypeOK
    <2>4. CASE crossing' = crossing
      BY <1>2, <2>4 DEF TypeOK
    <2> QED
      BY <2>2, <2>3, <2>4
         DEF Step, Receive, ResolveSlug, ResolveDomain, ResolveFails, PassPublic, PassGuards,
             Unauthenticated, Refuse, FindMany, FindFirst, Reread, DeleteMany, Context
  <1> QED  BY <1>1, <1>3, <1>4, <1>5, <1>6, <1>7 DEF TypeOK, Row

LEMMA InitCorrect ==
  ASSUME Init
  PROVE  Inv
  <1> USE TenancyRows DEF Init, Ids
  <1>1. TypeOK
    <2>1. row \in [Ids -> Row] /\ \A id \in Ids : row[id].state # "absent" => row[id].tenant # NoTenant
      BY TenancyHosts DEF Row, Tables
    <2>2. NoReq \in [host : Hosts \cup {NoTenant}, header : Slugs \cup {NoTenant},
                     bearer : Bearers \cup {NoBearer}, route : Routes, id : Ids \cup {NoId}]
      BY DEF NoReq, Routes
    <2>3. NoStore \in [tenant : Tenants \cup {NoTenant}, admin : BOOLEAN]
      BY DEF NoStore
    <2> QED  BY <2>1, <2>2, <2>3 DEF TypeOK, Row
  <1>2. \A id \in Ids : row[id].by = NoId
    OBVIOUS
  <1>3. \A r \in Requests : row[r].state = "absent"
    OBVIOUS
  <1>5. RefsInv
    BY DEF RefsInv, Reaches
  <1>4. ASSUME NEW r \in Requests
        PROVE  RequestOK(r)
    <2>1. StoreOK(r)
      BY DEF StoreOK, NoStore
    <2>2. TouchOK(r)
      BY <1>2, <1>3 DEF TouchOK
    <2>3. EntitledOK(r) /\ RereadOK(r)
      BY <1>2 DEF EntitledOK, RereadOK
    <2> QED  BY <2>1, <2>2, <2>3 DEF RequestOK
  <1> QED  BY <1>1, <1>2, <1>4, <1>5 DEF Inv

LEMMA NextCorrect ==
  ASSUME Inv, [Next]_vars
  PROVE  Inv'
  <1>1. ASSUME NEW r \in Requests, Step(r)
        PROVE  Inv'
    <2>1. TypeOK' /\ \A id \in Ids : row'[id].by # NoId => row'[id].state # "absent"
      BY <1>1, TypeStep, RowsKept
    <2>4. RefsInv'
      BY <1>1, RefsStep
    <2>2. RequestOK(r)'
      BY <1>1, Arrivals, Resolutions, Guards, Reads, Writes DEF Step
    <2>3. ASSUME NEW q \in Requests, q # r
          PROVE  RequestOK(q)'
      <3>1. /\ pc'[q] = pc[q] /\ req'[q] = req[q] /\ store'[q] = store[q] /\ answer'[q] = answer[q]
            /\ q \in unresolved' <=> q \in unresolved
        BY <1>1, <2>3
           DEF Step, Receive, ResolveSlug, ResolveDomain, ResolveFails, PassPublic, PassGuards,
               Unauthenticated, Refuse, FindMany, FindFirst, Create, UpdateMany, Reread,
               DeleteMany, Context, Answer, Reject, Goto, Inv, TypeOK
      <3> QED  BY <1>1, <2>3, <3>1, OtherRequests
    <2> QED  BY <2>1, <2>2, <2>3, <2>4 DEF Inv, Ids
  <1>2. CASE UNCHANGED vars
    <2>1. /\ row' = row /\ pc' = pc /\ req' = req /\ store' = store /\ answer' = answer
          /\ unresolved' = unresolved /\ crossing' = crossing
      BY <1>2 DEF vars
    <2>2. ASSUME NEW r \in Requests
          PROVE  RequestOK(r)'
      BY <2>1, AddressKept
         DEF Inv, RequestOK, StoreOK, TouchOK, EntitledOK, RereadOK, Filtered, Reaches
    <2> QED  BY <2>1, <2>2 DEF Inv, TypeOK, RefsInv, Reaches
  <1> QED  BY <1>1, <1>2 DEF Next, Step

\* What a request relies on and has touched stays in order, however requests
\* interleave and lookups fail.
THEOREM TenancyCorrect == Spec => []Inv
  BY InitCorrect, NextCorrect, PTL DEF Spec

\* Rows, requests, stores and answers keep their types, and a row has a tenant.
THEOREM TenancyTypes == Spec => []TypeOK
  BY TenancyCorrect, PTL DEF Inv

\* A request touches nothing before its store is complete, and no row of a
\* tenant follows from a store without one.
LEMMA StoreIsScope ==
  ASSUME Inv, NEW r \in Requests, pc[r] # "idle", NEW t \in Tenants, Reaches(store[r].tenant, t),
         pc[r] \notin {"slug", "domain"}
  PROVE  Reaches(Scope(r), t)
  <1>1. store[r].tenant \in {NoTenant, Scope(r)}
    BY DEF Inv, RequestOK, StoreOK
  <1>2. NoTenant \notin Tenants /\ crossing \subseteq SUBSET Tenants
    BY TenancyHosts DEF Inv, TypeOK
  <1>3. ~Reaches(NoTenant, t)
    BY <1>2 DEF Reaches
  <1> QED  BY <1>1, <1>3

\* Whatever its token and its address could name, a request is answered with
\* rows of the one tenant it is for, up to references written across tenants.
THEOREM ReadsInScope == Spec => []ReadsStayInScope
  <1>1. ASSUME Inv, NEW r \in Requests, pc[r] # "idle", ~IsAdmin(r), NEW x \in answer[r]
        PROVE  Reaches(Scope(r), x.tenant)
    <2>1. RequestOK(r) /\ ~store[r].admin
      BY <1>1 DEF Inv, RequestOK, StoreOK
    <2>2. Reaches(store[r].tenant, x.tenant) /\ pc[r] \notin {"slug", "domain"}
      BY <1>1, <2>1 DEF RequestOK, TouchOK
    <2>3. x.tenant \in Tenants
      BY <1>1 DEF Inv, TypeOK
    <2> QED  BY <1>1, <2>2, <2>3, StoreIsScope
  <1>2. Inv => ReadsStayInScope
    BY <1>1 DEF ReadsStayInScope
  <1> QED  BY <1>2, TenancyCorrect, PTL

\* And the same of what it creates, changes and deletes.
THEOREM WritesInScope == Spec => []WritesStayInScope
  <1>1. ASSUME Inv, NEW r \in Requests, pc[r] # "idle", ~IsAdmin(r), NEW id \in Ids, row[id].by = r
        PROVE  Reaches(Scope(r), row[id].tenant)
    <2>1. RequestOK(r) /\ ~store[r].admin
      BY <1>1 DEF Inv, RequestOK, StoreOK
    <2>2. Reaches(store[r].tenant, row[id].tenant) /\ pc[r] \notin {"slug", "domain"}
      BY <1>1, <2>1 DEF RequestOK, TouchOK
    <2>3. row[id].tenant \in Tenants
      BY <1>1, TenancyRows DEF Inv, TypeOK
    <2> QED  BY <1>1, <2>2, <2>3, StoreIsScope
  <1>2. Inv => WritesStayInScope
    BY <1>1 DEF WritesStayInScope
  <1> QED  BY <1>2, TenancyCorrect, PTL

\* RolesGuard stands before every write: its author's token had the rank.
THEOREM WritersAreEntitled == Spec => []WritesAreEntitled
  <1>1. ASSUME Inv, NEW id \in Ids, row[id].by # NoId
        PROVE  LET x == req[row[id].by] IN
               /\ x.bearer # NoBearer
               /\ x.bearer.admin \/ (x.bearer.role # NoRole /\ Rank[x.bearer.role] >= Rank[x.route.min])
               /\ x.route.min # NoRole
               /\ \/ x.route.model = row[id].model
                  \/ x.route.op = "deleteMany" /\ x.route.model \in Refers(row[id].model)
    <2>1. PICK r \in Requests : r = row[id].by
      BY <1>1 DEF Inv, TypeOK
    <2>2. EntitledOK(r)
      BY <1>1, <2>1 DEF Inv, RequestOK
    <2> QED
      BY <1>1, <2>1, <2>2 DEF EntitledOK, Entitled, Permitted, Concerns
  <1>2. Inv => WritesAreEntitled
    BY <1>1 DEF WritesAreEntitled
  <1> QED  BY <1>2, TenancyCorrect, PTL

\* An update that answers with nothing lost its row to another request.
THEOREM RereadsFindRows == Spec => []RereadFindsRow
  <1>1. Inv => RereadFindsRow
    BY DEF Inv, RequestOK, RereadOK, RereadFindsRow
  <1> QED  BY <1>1, TenancyCorrect, PTL

=============================================================================
