# Cadence: TLA+ models and proofs

Cadence is a white-label practice-management application: an Angular web app, a
NestJS API and a PostgreSQL database. A firm (tenant) composes and sends
proposals; a prospect who holds the mailed link views the proposal, selects a
package, accepts the terms and signs; signing bills the client through a payment
provider. This directory holds TLA+ specifications of that code, the TLC
configurations that check them and TLAPS proofs about them. Line numbers refer to
`src/apps/api/src/proposals/proposals.service.ts` unless a file is named.

## 1. The system

| Component | State | Operations | What is hard |
|---|---|---|---|
| Proposals service (`apps/api/src/proposals`) | `Proposal`, `ProposalEvent`, `SignatureEvent`, `SignedDocument`, `Payment`, `ClientPaymentMandate`, `BillingSchedule` rows; documents in storage; requests at the provider; mails | `compose`, `send`, `viewPublic`, `selectPackage`, `acceptTerms`, `sign` (and the reads `list`, `get`) | handlers of several awaits with no lock and one transaction; rows read early and written late; failures between the signature and the billing |
| Payments webhook service (`apps/api/src/payments`) | `WebhookEvent`, `Payment`, `Invoice` | `handleStitchWebhook` | repeated, overlapping, early and reordered deliveries |
| Auth service (`apps/api/src/auth`) | `User`, `RefreshToken`, `EmailVerification`, `PasswordReset`, `Invitation`, `Membership`, `Plan`, `Tenant` | sign-up, login with lockout, rotating refresh, logout, verification, reset, invitation | check-then-act on tokens and counters, reuse detection, revocation racing rotation |
| JWT strategy and guards | the request's user and tenant store | `validate`, `canActivate` | host and token may name different tenants |
| Tenancy (`apps/api/src/tenancy`, `libs/core/src/tenancy`, `prisma.service.ts`) | `AsyncLocalStorage` store per request | `use`, `$allOperations` | a store completed after it is created; errors that degrade |
| Money and VAT (`libs/core/src/money`) | none | `lineTax`, `totalsFor` | rounding, inclusive and exclusive prices |
| CRM and library controllers | one table each | one scoped query per handler, two for an update | the tenant filter; an update that is read again |
| Seed (`src/prisma/seed.ts`) | plans, an administrator, a demo tenant and its rows | `main` | a chain of writes without a transaction, run beside the API |
| Web: proposal wizard | step, selection, fields | load, choose, accept, sign | answers in any order; a memoised guard over plain fields |
| Web: console, login, API client, theme | an access token, lists, one `saving` flag, colours | boot, add, list, sign out | answers in any order; a token dropped while calls are under way |
| Adapters (payment, storage, document, notification, accounting, key) | the provider's | ports of `libs/core/src/ports` | they fail at any call |
| Jobs and scheduler ports | - | no implementation in the repository | - |

**Interaction.** The web app calls the API over HTTP. The API runs as any number of
processes (`serverless.ts` builds one per warm lambda) that share nothing but the
database, so requests interleave at every `await`. `sign` calls the document,
storage, payment and notification ports in turn. The payment provider calls back
through the webhook. Every handler of the firm side runs under the tenant scope;
the public wizard and the webhook use the unscoped client and find their rows by
a token or a reference.

**Correctness, by component.**
- *Proposals*: no client is billed twice; what is billed is what was signed; the
  audit trail (signature, document, hash, storage, event, mails) agrees; a status
  has its evidence; no view is lost; the link in force was mailed; a signature that
  does not fail is completed.
- *Webhooks*: an event takes effect, once its payment exists; a settled payment stays
  settled while its events agree; a payment succeeds when an event says that it did.
- *Sessions*: one live token per family; reuse revokes the family; a reset ends the
  sessions on record; a browser never loses its session for nothing; a lock is earned.
- *Accounts*: a workspace has an owner; whoever has a membership or a session was given
  it; a verification follows a mail; the demo is laid down whole, and once.
- *Tenant scope*: a request reads and writes the rows of the one tenant it is for, with
  a token of the rank its route asks for; host, header and token agree on that tenant.
- *Money*: subtotal plus tax is total, and rounding is within half a cent of exact.
- *Web*: the wizard keeps its order and shows the package that will be signed; a
  prospect who fills in the form can sign; the console shows what the server has.

The code keeps some of this only in part; the runs that fail and the list after them (section 4)
say where.
`PROJECT.json` lists every hazard at its line, with the property that covers it, what that
property excepts, or the reason why there is none.

## 2. Plan

Written, in the order of importance:

1. `Proposals.tla` - the life of a proposal, all handlers, all interleavings;
   `Engagement.tla` - what signing promises, without requests or failures;
   `ProposalsInvariant.tla`, `MCProposals.tla`, `ProposalsProofs.tla`,
   `StatusProofs.tla`, `EngagementProofs.tla`.
2. `Webhooks.tla`, `MCWebhooks.tla`, `WebhooksProofs.tla` - the deliveries of
   `handleStitchWebhook` over `Payment`, `Invoice` and `WebhookEvent`.
3. `Sessions.tla`, `MCSessions.tla`, `SessionsProofs.tla` - login, demo login, refresh,
   logout and password reset over `RefreshToken` and the browser's cookie.
4. `Accounts.tla`, `MCAccounts.tla`, `AccountsProofs.tla` - sign-up, verification,
   invitations and the seed over the tables they share.
5. `Tenancy.tla`, `MCTenancy.tla`, `TenancyProofs.tla` - a request's way through
   middleware, strategy, guards and scoped client to the CRM and library tables, and the
   references between their rows.
6. `Web.tla`, `MCWeb.tla`, `WebProofs.tla` - the wizard and the console as pages whose
   calls are served and answered in any order.

Every safety invariant and every action property of the runs that pass is proved (section 5).
What stays with TLC is liveness.

The components do not share actions: what one module needs of another is a constant or
an open choice in it. A webhook's payment row appears when `sign` would insert it
(`SavePayment`); the bearers of `Tenancy` are any the auth service could have signed; the
server behind `Web` keeps what the page depends on. Composing them would multiply states
and add no step that the parts do not have.

## 3. The modules

### Proposals

*State.* `proposal` maps each row to the fields the handlers decide by; a row is
named by the compose request that inserts it, a token by the send request that
generates it (`generateToken` is 32 random bytes, so never repeated), a package
option by the package it is a snapshot of. `expired` stands for `expiresAt < now`.
`events`, `signatures`, `signedDocs`, `payments`, `mandates` and `schedules` are
the sets of rows of the other tables, each row carrying the request that wrote it
so that the properties can ask whose it is. `storage`, `payRequests`, `links` and
`mails` are what the adapters hold. A rendered document is the record of what is
rendered into it, which also stands for its SHA-256 and its storage key.

*Requests.* A handler runs from one `await` to the next without interruption and
anything may run in between. `pc[r]` names the next step of request `r`,
`target[r]` the row it found, `seen[r]` the copy of the row it read, `choice[r]`
the option it was asked for or derived. When a handler ends its locals are gone
(`End`).

| Handler | Actions (one per awaited call that changes state) | Lines |
|---|---|---|
| `compose` | `ComposeCount`, `ComposeInsert` | 42-96 |
| `send` | `SendRead`, `SendIssue`, `SendLog`, `SendMail` | 99-124 |
| `byToken` | `ByToken`, `Open` | 148-161 |
| `viewPublic` | `ViewOpen`, `ViewRecord`, `ViewLog` | 163-204 |
| `selectPackage` | `SelectOpen`, `SelectRecord`, `SelectLog` | 206-218 |
| `acceptTerms` | `TermsOpen`, `TermsLog` | 220-226 |
| `sign` | `SignOpen`, `SignStore`, `SignCommit`/`SignConflict`, `SignRequestPayment`, `SignSavePayment`, `SignRequestMandate`, `SignSaveMandate`, `SignSaveSchedule`, `SignMailSigner`, `SignMailFirm` | 229-373 |
| time | `Expire` | 110, 157 |
| failure | `Abort`: an adapter or the database throws, or the process is stopped, at any await of a request in `Fallible` | - |

Points where the code is easy to misread, and the model follows it:
- an update writes only the columns in its `data`, over the row as it is then;
  `viewPublic`'s *status* comes from the copy read earlier, its counter is
  incremented in the database (169-171);
- `send` and `selectPackage` do not look at the status they overwrite (108, 212);
- `sign` evaluates the guard `Already signed`, the option and `upfrontAmountCents`
  on its copy (232-237, 293); what stops a second signature is the unique
  `proposalId` of `SignatureEvent` and `SignedDocument`, inside the transaction;
- `Payment` has no unique key: nothing but the signature before it makes it single;
- nothing resumes a handler that died; a retry is a new request, which reads again.

*Left out.* Requests that the code refuses before its first write (unknown link,
expired, no consent, invalid option) change nothing: they are guards. `list` and
`get` read. Names, addresses, amounts, PDF content, references and logging are
abstracted. `ProposalStatus` values no code writes (`declined`, `expired`) are
left out. The bytes of two renderings are taken to differ when the request differs
(they carry the time and the signer).

### Engagement

The abstract specification. `engaged[p]` is empty or holds the one engagement of
`p`: a package and a signer. `charged[p][kind]` says who raised each kind of charge.
`Engage` happens once per proposal; `Charge` at most once per kind, by the engaged
signer, periodic kinds only for a recurring package, a payment after its request, a
schedule after its mandate. `Proposals!Promise` instantiates it: engagements are
read off the signed documents, charges off the billing rows and the provider's
requests. `KeepsPromise` is the implementation claim, both model-checked and proved.

### ProposalsInvariant

The inductive invariants. The properties of `Proposals` speak of rows; their
inductive forms, which serve the proofs, also say what a request between two awaits may rely on:
`ComposeInv` and `TargetInv` (together `LifeInv`), `RememberedInv` (what a view's
copy of the status guarantees), `UnsignedInv`, `SignatureInv`, `BillingInv` and
`ChargesInv` (together with `AuditTrail`: `SigningInv`). The invariants of numbers and views,
and those of the other modules, stand at the head of the proofs that use them.

### Webhooks

One action per `await` of `handleStitchWebhook`
(`apps/api/src/payments/payments.service.ts`), over rows that any number of
deliveries share.

*State.* `payment` is the status of each `Payment` row, `absent` until `sign` has
inserted it; `paid` the payments whose invoice is paid; `event` the `WebhookEvent`
row of each idempotency key (`processed` once it has `processedAt`); `pc`, `target`
and `found` the next step of a delivery, its event and what `findPayment` gave it.
Unlike the requests of `Proposals`, a delivery keeps `target` and `found` when it
has been answered, as the record of what it was for. What an event says is a
constant: `Subject[e]` is its payment, `Reported[e]` its status: succeeded, failed,
processing, or none. The properties speak of what events report, not of what the code
makes of it (`Outcome`).

| Lines | Action |
|---|---|
| `proposals.service.ts` 306-318 | `SavePayment`: `sign` inserts the row, in its own time |
| 18-30 | `Receive`: read the event and decide by `processedAt` |
| 31-39 | `Record`, or `RecordConflict` on the unique key (the delivery answers an error) |
| 41-43, 64-73 | `Find` |
| 43-48 | `Settle`: anything but `failed` is a success |
| 49-55 | `SettleInvoice` |
| 57-61 | `Mark`, and the answer |
| any await | `Abort` |

Deliveries with an invalid signature change nothing and are left out, and so are
events whose references name no payment request of this system. No code creates
`Invoice` rows or sets `Payment.invoiceId` yet; the branch that settles an invoice
is modelled as it stands, for the payments in `Invoiced`. Amounts and `paidAt` are
abstracted.

### Sessions

One action per `await` of the handlers in `apps/api/src/auth/auth.service.ts`, with the
cookie that `auth.controller.ts` sets.

*State.* `token` holds the `RefreshToken` rows, each named by the request that inserts it:
its state, user, family and parent, and as history the password its user had when it was
inserted (`under`). `reused` and `straddled` are history too: the families in which a reuse was
detected, and the pairs of a refresh and a reset that committed inside it. A family is named by its first token. `password` is the reset that set
the hash. `failed` and `locked` are the lockout columns. `reset` holds the
`PasswordReset` rows. `cookie` is what the tabs of a browser share. `req[r]` keeps what a
handler read (`seenFailed`) or was given (`presented`) across its awaits.

| Handler | Actions | Lines of `auth.service.ts` |
|---|---|---|
| `login` | `LoginRead`, `LoginCountFailure`, `LoginAccept`, `Issue`, `Respond` | 108-145 |
| `demoLogin` | `DemoRead`, `Issue`, `Respond` | 88-105 |
| `refresh` | `RefreshSend`, `RefreshRead`, `RevokeFamily` or `Rotate`, `Issue`, `Respond` | 148-178 |
| `logout` | `LogoutSend`, `LogoutRevoke`, `LogoutClear` | 180-186 |
| `requestPasswordReset`, `resetPassword` | `ForgotCreate`, `ForgotMail`, `ResetRead`, `ResetCommit` | 225-258 |
| time, failure | `Unlock`, `Abort` | - |

Whether a password is right is a choice of `LoginRead`; `failedLoginCount` is then written
from the copy that was read. Expired tokens and links, unknown addresses and locked
accounts are refused without a write. A logout that carries no cookie clears it all the same.

### Accounts

The same tables seen from who may do what. Users are named by e-mail and tenants by slug
(both unique in the schema); `member` is the role of a membership, `granted` the sessions
that sign-up and acceptance open, `verification` and `invitation` the mailed links, `demo`
the rows the seed inserts and by which run; `opened` remembers which sign-ups and runs of
the seed made somebody the owner of a workspace. A transaction is one step. Whoever acts for a
firm (`Inviters`) holds a session with the rank of an administrator of the firm, or is an
administrator of the platform and a member. `SignupCheck` to
`SignupIssue` follow `signup` and `ensurePlan`; `VerifyRead` and `VerifyCommit`
`verifyEmail`; `InviteCreate`, `InviteMail`, `AcceptRead`, `AcceptCommit` and `AcceptIssue`
the invitations; `SeedPlan` to `SeedRow` the script `src/prisma/seed.ts`, of whose chain of
inserts `DemoRows` follow the owner. Links are checked in one step and used in a later one,
which does not check again, as in the code.

### Tenancy

*State.* `store[r]` is the `AsyncLocalStorage` store of a request, `answer[r]` the rows it
was given, `row` the rows of the CRM and library tables with their foreign keys (`refs`) and
the request that wrote each last. `unresolved` and `crossing` are history: the requests whose
lookup failed, and the pairs of tenants between whose rows some request wrote a reference.

| Code | Definitions |
|---|---|
| `TenantContextMiddleware` | `Receive` (any host, header, token and route), `ResolveSlug`, `ResolveDomain`, `ResolveFails` |
| `JwtAuthGuard`, `JwtStrategy.validate`, `RolesGuard` | `PassPublic`, `PassGuards`, `Unauthenticated` |
| `tenantScopeExtension` | `Refuse`, `Filtered`, `Visible`, `NewRow` |
| CRM and library controllers | `FindMany`, `FindFirst`, `Create`, `UpdateMany` with `Reread`, `DeleteMany`; `Routes` lists every route with its operation, table and least rank |
| `crm.dto.ts`, `schema.prisma` | `Bodies`, the references a body may carry; `Included`, what a row is loaded with; `WithoutRow`, what a deletion cascades to |
| `TenantController` | `Context` |

The extension filters the rows that are asked for and puts the tenant into those inserted. It
looks neither at the references in a body, which need only lead to a row that exists, nor at
what `include` loads with a row: contacts and deals come with the firm and the contact they
refer to, a single contact with the activities that refer to it. Deleting a contact deletes
those activities and takes it out of deals, whichever tenant they are of.

`Scope(r)` is the tenant a request is for: the addressed one (header, else subdomain, else
custom domain), or the token's if there is none or its lookup failed. `ReadsStayInScope` and
`WritesStayInScope` say that nothing else is read or written, up to `crossing`. What they leave
open is shown by the run `crossing`, or said in the list that ends section 4: who may act on a
tenant's host, and which of host, header and token wins. The role is the token's, whichever tenant the host selects, and an administrator, for whom the extension
adds no tenant to the data, cannot create a row: both are in the model and no property forbids
them.

### Web

One tab: the wizard at `/p/:token` or the console at `/app`. `call` holds its HTTP calls
from `sent` through `served` (or `refused`) to `answered`; the server side is `choice`,
`terms` and the number of rows of each list. Handlers of the page are actions
(`NextFromCover`, `Select`, `ChooseAndNext`, `TickTerms`, `AcceptAndNext`, `Fill`; `Go`,
`Add`, `Logout`), and so are answers (`LoadAnswer` and so on). `canSign` is the memo of a
`computed` signal that reads plain fields: it has no signal to depend on, so it keeps the
value of its first reading. `overlapped` and `stale` are history: the user went on while a
selection was under way; answers for a list failed or crossed.

### Slips

Definitions marked *Slip* are plausible mistakes in the
definition that follows them. They are not part of the specification; substituting one for the
definition it precedes makes the property that `PROJECT.json` pairs it with fail.

## 4. The runs

Deadlock checking is off throughout: each request is served once, so the system stops when
all have been. Bounds are the sets in the cfg files; nothing else is capped. Interchangeable
requests and values are reduced by symmetry in safety runs (not in `completion`, which is
temporal).

| Run | Instance | Checks | States |
|---|---|---|---|
| `signing` | 2 proposals of either menu, 1 send, 1 selection, 1 terms, 2 signatures; composers and signatures may die | `TypeOK`, `BilledAtMostOnce`, `BillingFollowsSignature`, `AuditTrail`, `NumbersFollowCount`, `KeepsPromise` | 336,071 |
| `wizard` | 1 proposal of two packages, 2 sends and 2 views that may die, a selection, a signature, no firm address | `StatusHasEvidence`, `ViewsCounted`, `FirstViewRecorded`, `CurrentLinkMailed` | 652,733 |
| `completion` | 1 proposal, 2 sends, a selection, 2 signatures, no failure, fairness | `SigningCompletes`, `IssuedLinkIsMailed` | 161,895 |
| `deliveries` | 2 payments, one with an invoice, 2 events of each that disagree, 4 deliveries that may die | `TypeOK`, `AcknowledgedIsProcessed`, `ProcessedTookEffect`, `SettledByEvent`, `SettledIsStable` | 534,258 |
| `sessions` | 1 user, 1 browser, 2 logins, a demo login, 2 refreshes and a logout that may die, a reset; lock after 2 | `TypeOK`, `OneLivePerFamily`, `SessionsOnRecordEnd`, `LockIsEarned`, `DeadCookieHasCause` | 1,057,002 |
| `accounts` | 2 addresses, 2 slugs, 1 tier, 2 sign-ups and 2 seed runs that may die, a verification, an invitation accepted twice | `TypeOK`, `TenantHasOwner`, `MembershipHasGrant`, `SessionIsBacked`, `VerificationFollowsMail`, `DemoIsSeededOnce` | 1,081,027 |
| `tenancy` | 2 tenants with a contact each, one of them with a firm, the other with a deal, one on a subdomain, one on its own domain, and the platform's host; 2 requests for contacts and activities, with any header and one of 3 tokens or none | `TypeOK`, `ReadsStayInScope`, `WritesStayInScope`, `WritesAreEntitled`, `RereadFindsRow` | 2,799,539 |
| `web` | a wizard over 2 options with 3 clicks, or a console over 2 lists with 2 adds; one field | `TypeOK`, `OrderIsStrict`, `SelectionAgrees`, `ProposalBrandStays`, `ShownIsFresh`, `SignedOutStaysOut`, `NeverBack` | 462,474 |

*Why the bounds are enough.* Two requests of a kind are the least that overlap, and the code
holds no state that a third could meet in a new way: every conflict is between one request's
early read and another's write, or between two writers of one unique key. Two proposals are
enough for one to be mistaken for the other, two tenants for one to see the other's rows.
`deliveries` has four deliveries, so that one event can be delivered twice around both
deliveries of another, and two events of each payment, so that they contradict each other.
`sessions` has one user because rows of different users meet in no query; two refreshes are
what forks a session, and with a login before and after a reset every order of the three
kinds of revocation occurs; `MaxFailed` is 2 so that two failures can overlap at the limit.
`accounts` needs two slugs, the seed's and another, and an address that sign-up and seed both
want; one tier is enough, for two creators of one plan are what collides. `tenancy` asks for
two tables, the one that refers to others and is deleted with them and the one that is included;
its hosts cover the ways a tenant is found, and a host that resolves to nothing behaves as one
whose lookup failed. One request can write a reference across tenants, the other load or delete
over it. In `web` three
clicks are a double click on one page and the click that leaves the next. Where
a property is proved (section 5) it has no bounds at all.

**Statements the code does not keep.** These runs are expected to find a violation.

| Run | Statement | How it fails |
|---|---|---|
| `reopened` | a signed proposal stays signed (232, `docs/BUILD_LOG.md:73`) | a view that read `sent` before the signature writes `viewed` after it; a send writes `sent`; a selection `package_selected` |
| `early` | "Verify, deduplicate and reconcile" (`payments.service.ts:15`) | an event that overtakes the insert of its payment is marked processed without effect, and never looked at again |
| `crossing` | "no cross-tenant read or write is possible" (`README.md:63-64`), "automatically by the Prisma extension" (`crm.controller.ts:27`) | a contact is written with a reference to the other tenant's firm, and loaded with it |
| `unsignable` | the signing wizard "is fully functional" (`dashboard.component.ts:118`) | `canSign` is read when step 4 is drawn, with an empty form, and never again: the button stays disabled |

What follows from the actions directly, or from the properties' exceptions, and has no run.
First what the repository says otherwise:
- `sign` looks for neither a view nor accepted terms, so the order is the page's
  (`OrderIsStrict`), where `docs/BUILD_LOG.md:67-68` says "Strict ordered public wizard" of the
  backend;
- an event that reports `processing`, a status of its own in `payment-provider.port.ts:69` and
  `enums.ts:95`, settles its payment as succeeded and pays the invoice (`SettledByEvent` lets it);
- a refresh that was replacing its token when a reset committed inserts the successor afterwards,
  live, where `auth.service.ts:252` and `docs/DECISIONS.md:59` say that a reset revokes all
  sessions (the exception of `SessionsOnRecordEnd`); and a refresh in the same place inserts its
  successor into a family that a reuse has revoked meanwhile, where `docs/DECISIONS.md:58-59` and
  `auth.service.ts:158` say that the whole family is revoked;
- a run of the seed that died after the tenant is taken for complete by the next, which ends well,
  where `seed.ts:5-7` says "immediately demoable" and "Idempotent on slug/email";
- a member of one tenant is served on the other's host, in the host's tenant, with the rank of his
  token, where `docs/BUILD_LOG.md:39-40` says that two tenants cannot read or write each other's
  data;
- the header that selects a tenant is read on every host, and before it, where
  `tenant-context.middleware.ts:34` and `README.md:51-52` speak of the platform and localhost;
- after a failed lookup the query is carried out in the token's tenant, where
  `tenant-context.middleware.ts:55-56` says that tenant routes still error.

And what no line of it speaks of:
- `selectPackage` after the signature changes the selection on the row, while the document
  and the billing keep the signed one (`BillingFollowsSignature`);
- two composers that overlap insert the same number (`NumbersFollowCount` speaks of those
  nobody overtook), and two overlapping views are both logged as the first;
- a wizard step that opened the link in time writes after it has expired;
- a failure after the transaction of `sign` leaves a signed proposal without a payment, and
  the retry is refused; a send whose mail fails leaves only dead links (`CurrentLinkMailed`);
- a delivery that read its event before it was marked settles the payment once more, over
  what another event reported in between, and a failure that comes late undoes a success and
  leaves the invoice paid (`SettledIsStable` excludes events that disagree);
- two refreshes that overlap fork a session unnoticed (`OneLivePerFamily` excepts forks), and a
  refresh that dies or whose answer is lost leaves its browser with a revoked token, whose next
  use revokes the session (`DeadCookieHasCause`);
- overlapping logins lose counts, a late failure can clear a lock, and one failure after a
  lock has run out locks again (`LockIsEarned` says only that no lock comes early);
- a sign-up that dies before its mail leaves a user without a link
  (`VerificationFollowsMail`), and a seed that dies between tenant and owner leaves a
  workspace without one (`TenantHasOwner`);
- in the browser, a package changed while its call is under way, colours on a host with its
  own branding, lists whose answers cross, and a demo login that is answered after the sign
  out (`SelectionAgrees`, `ProposalBrandStays`, `ShownIsFresh`, `SignedOutStaysOut` except them).

`BilledAtMostOnce` is the other face of `reopened`: although the status guard of
`sign` can be undone, the unique key still keeps a second signature from billing.

**Fairness.** `FairSpec` asks weak fairness of the steps of a request that has
started, one condition per request: a promise that was awaited is settled and its
continuation is queued, in Node by the event loop and in PostgreSQL by the query's
answer. It asks nothing of arrivals, of `Expire` or of `Abort`. Weak fairness of a whole
handler is enough because its steps are sequential: exactly one is enabled at a time.
The other modules state no liveness: what they do next is the provider's, the browser's or
the user's choice, and no code of the repository retries it.

## 5. The proofs

Every theorem about `Proposals` holds for all finite sets of proposals and arbitrary sets of
requests, packages and menus, from the named assumptions in `Proposals`: the kinds of requests
are disjoint (they are requests to different endpoints), an offered menu is a non-empty set of
packages, the `No...` values are outside their sets. `Proposals` is finite because the
database is. The theorems about `Webhooks` hold for all sets of payments, events and
deliveries; they assume that an event names one payment and one status, and that what may die
and what has an invoice are subsets of what there is. Those about `Sessions` hold for all sets
of users, browsers and requests, disjoint by kind, and any positive `MaxFailed`. Those about
`Accounts` hold for all addresses, slugs, tiers and requests, again disjoint by kind, any
roles that people are invited to and any positive number of demo rows; they assume that the
seed's slug, plan and two distinct addresses are among them. Those about `Web` hold for all
options, lists, fields and calls, where a call is for one purpose. Those about `Tenancy` hold
for all tenants, hosts, tokens, tables and rows, where a subdomain names a slug, a custom
domain a tenant, and every seeded row has a tenant and refers to rows of that tenant.

| Theorem | Module | States |
|---|---|---|
| `TypesHold` | `ProposalsProofs` | `Spec => []TypeOK` |
| `RequestsAreOnLiveRows` | `ProposalsProofs` | `Spec => []LifeInv` |
| `SigningCorrect` | `ProposalsProofs` | `Spec => [](Inv1 /\ SigningInv)` |
| `BillingIsSingle` | `ProposalsProofs` | `Spec => []BilledAtMostOnce` |
| `BillingIsForTheSignature` | `ProposalsProofs` | `Spec => []BillingFollowsSignature` |
| `AuditTrailIsWhole` | `ProposalsProofs` | `Spec => []AuditTrail` |
| `StatusIsEvidenced` | `StatusProofs` | `Spec => []StatusHasEvidence` |
| `LinksAreMailed` | `StatusProofs` | `Spec => []CurrentLinkMailed` |
| `NumbersAreCounted` | `StatusProofs` | `Spec => []NumbersFollowCount` |
| `ViewsCorrect` | `StatusProofs` | `Spec => []ViewsInv` |
| `NoViewIsLost`, `FirstViewIsLogged` | `StatusProofs` | `Spec => []ViewsCounted`, `Spec => []FirstViewRecorded` |
| `ProposalsKeepPromise` | `EngagementProofs` | `Spec => KeepsPromise` |
| `WebhooksCorrect` | `WebhooksProofs` | `Spec => []Inv` |
| `AcknowledgedEvents` | `WebhooksProofs` | `Spec => []AcknowledgedIsProcessed` |
| `ProcessedEvents` | `WebhooksProofs` | `Spec => []ProcessedTookEffect` |
| `SettledPayments` | `WebhooksProofs` | `Spec => []SettledByEvent` |
| `DeliveryTypes`, `SettledStays` | `WebhooksProofs` | `Spec => []TypeOK`, `Spec => SettledIsStable` |
| `SessionsCorrect`, `SessionTypes` | `SessionsProofs` | `Spec => []SessionsInv`, `Spec => []TypeOK` |
| `ResetsEndSessions` | `SessionsProofs` | `Spec => []SessionsOnRecordEnd` |
| `OneTokenPerSession` | `SessionsProofs` | `Spec => []OneLivePerFamily` |
| `SessionsEndForACause` | `SessionsProofs` | `Spec => []DeadCookieHasCause` |
| `LocksAreEarned` | `SessionsProofs` | `Spec => []LockIsEarned` |
| `AccountsCorrect`, `AccountsTypes` | `AccountsProofs` | `Spec => []AccountsInv`, `Spec => []TypeOK` |
| `WorkspaceHasOwner` | `AccountsProofs` | `Spec => []TenantHasOwner` |
| `MembersWereGranted` | `AccountsProofs` | `Spec => []MembershipHasGrant` |
| `SessionsAreBacked` | `AccountsProofs` | `Spec => []SessionIsBacked` |
| `VerifiedByMail` | `AccountsProofs` | `Spec => []VerificationFollowsMail` |
| `SeededOnce` | `AccountsProofs` | `Spec => []DemoIsSeededOnce` |
| `TenancyCorrect`, `TenancyTypes` | `TenancyProofs` | `Spec => []Inv`, `Spec => []TypeOK` |
| `ReadsInScope` | `TenancyProofs` | `Spec => []ReadsStayInScope` |
| `WritesInScope` | `TenancyProofs` | `Spec => []WritesStayInScope` |
| `WritersAreEntitled` | `TenancyProofs` | `Spec => []WritesAreEntitled` |
| `RereadsFindRows` | `TenancyProofs` | `Spec => []RereadFindsRow` |
| `WebCorrect`, `WebTypes` | `WebProofs` | `Spec => []WebInv`, `Spec => []TypeOK` |
| `WizardIsOrdered` | `WebProofs` | `Spec => []OrderIsStrict` |
| `HighlightedIsSelected` | `WebProofs` | `Spec => []SelectionAgrees` |
| `WizardGoesForward` | `WebProofs` | `Spec => NeverBack` |
| `ProposalKeepsColours` | `WebProofs` | `Spec => []ProposalBrandStays` |
| `ListsCatchUp` | `WebProofs` | `Spec => []ShownIsFresh` |
| `SignedOutTabs` | `WebProofs` | `Spec => []SignedOutStaysOut` |

*The argument.* Types alone are not inductive: a request writes the row its local
state names, so `Inv1` adds `LifeInv`, that this row exists, has been sent when a
link led to it, and offers the option the request holds. Options never change and
rows are never removed, which is why what was true at the first await is still true
at the last. `BilledAtMostOnce` is not inductive either: the insert of a payment
checks nothing. `SigningInv` supplies the reason: a request past its transaction
*owns* the signature of its proposal (`BillingInv`), signatures are unique
(`AuditTrail`), hence two requests that bill one proposal are the same request, which
passes each step once. `StatusHasEvidence` needs `RememberedInv`: the status in a
view's copy had its evidence when it was read, and evidence (a signature, a
selection, a first view) is never taken back. `KeepsPromise` maps each step to an
engagement (`SignCommit`), one charge, or a stutter; that a charge is not raised
twice is again `SigningInv`, plus that a saved schedule's request has moved on.

The rest of `Proposals` rests on `Inv1` and three short invariants stated in `StatusProofs`.
`CurrentLinkMailed` is inductive with `Inv1`: a later send replaces the token only with its
own. `NumbersFollowCount` needs that a composer holds a number of at most one above the
count it would find now (`NumbersInv`), which is so because rows are never removed.
`ViewsCounted` is a statement about three cardinalities. `CountInv` makes it inductive by
separating the views between their two writes from those that died there: the record of a
view raises the counter and the first group by one, the log moves one from that group to the
log, a death moves one to the other group. `FirstViewRecorded` needs that a view whose copy says
the proposal was viewed still finds it so (`CopyInv`).

For `Webhooks`, `Inv` is `TypeOK`, `DeliveryInv`, `ProcessedTookEffect` and
`SettledByEvent`. The last two are not inductive by themselves: `Mark` asks nothing.
`DeliveryInv` says why it may: a delivery at `mark` found no payment or left its event
in effect, and a settled payment, a paid invoice and a processed event never revert
(`EffectsRemain`), whatever other deliveries do in between. That `found = "none"` is not
forgotten is the point where the model's history is used. `SettledByEvent` is about the reported
status: a failure is always reported as one, while a success may rest on any event that is not
one, for that is what the code takes for a success.

For `Sessions`, `OneLivePerFamily` is not inductive: `Issue` inserts a live row whatever else
lives. `SessionsInv` says why it may. The rows of a family form a tree along their parents,
and a parent is revoked (`RowsInv`), because `Rotate` revoked what it presented before `Issue`
ran (`RequestsInv`, which carries that fact across the await between them). So a live token
has no successor, and two tokens without a successor in one family mean that some token has
two (`ForksInv`): the new row is a second end of the tree only when its parent already had a
child. `LiveUnderCurrentPassword` holds because `ResetCommit` sets the password and revokes in
one transaction.

More invariants stand on `SessionsInv`. `RecordInv` serves `SessionsOnRecordEnd`: every row, and
every refresh between its read and its insert, is of a session opened under the password the row
has, or its user has now, or a refresh of it straddled the reset that set that password. It is
inductive because `RefreshRead` proceeds only on a live token, which is under the current
password, and because a reset notes down whoever is past that read. `LossInv` serves `DeadCookieHasCause`: whoever
revokes a token leaves its trace (`CausesInv`: the request that presented it, the family's reuse,
or the new password), a cookie holds the token of a login or refresh that was answered to that browser
(`HeldInv`), and a refresh or logout that was answered leaves no cookie with the token it
presented (`ClientsInv`). `LockInv` serves `LockIsEarned`: the count a login read before the
password was verified is not above the number of logins refused by now, for that number only
grows, so writing it back one higher when the login is refused cannot overtake it.

For `Accounts`, each handler checks in one step and writes in a later one, and `AccountsInv`
says what is still true in between: the plan is there (`PlansInv`), a link has come as far as
its request (`LinksInv`, `InvitesInv`), and a link being followed was mailed to the address it
serves, though another request may have used it first (`VerifyInv`, `AcceptInv`). A session is
backed because membership is written in the transaction before, and is changed only by an
acceptance (`SignupInv`, `Backed`). Of two runs of the seed at most one gets past the owner,
whose address is unique (`SeedInv`), so the rows are `1 .. k` and written once (`RowsInv`).
A workspace has an owner because its opening made one, in the transaction that inserted the
tenant or later in the seed's run (`OpenedInv`, over the history `opened`), and a founder's role
changes only by an invitation he accepts; what other members accept does not matter. `Kept`
lists what no step undoes.

For `Web`, `WebInv` says what a call under way tells of both ends (`CallsInv`): a selection
that was served means that the server has one, an acceptance likewise, and a list that was
served is not ahead of the server. The page moves on only by such an answer, so its order is
the server's. `SelectionInv` is why the highlighted option is the selected one while the user
waits: there is one selection under way and it carries the page's choice. `FreshInv` says that
a list which is behind has a call under way that will bring it up to date, and `SignedOutInv`
that no login is under way behind a tab that signed out.

For `Tenancy`, `Inv` follows one request from its arrival: while the tenant is looked up its
store is empty (`StoreOK`); afterwards its tenant is the one the request is for; what it touched
is within reach of that tenant, unless it is an administrator's (`TouchOK`); and it reaches a
query only with the rank of the route (`EntitledOK`). What is loaded with a row, or goes with it,
is within reach because every reference stays within a tenant or was written across the two
(`RefsInv`), and what was written once is not forgotten (`CrossingGrows`). No step of another
request changes a row's tenant (`RowsMove`, `OtherRequests`). `RereadOK` says that between the
update and the read only a deletion by another request can hide the row.

Lemmas come one per handler, and the row updates (`SentRow`, `ViewedRow`,
`RowWithChoice`, `ExpiredRow`) are stated once and cited by name. Cardinalities are counted
with the library's theorems on adding or removing one element; that the counted sets are
finite is part of the invariant, not an assumption on the requests. Each inductive invariant
was model-checked on the run of its module before it was proved.

*Only model-checked:* liveness (`SigningCompletes` and `IssuedLinkIsMailed`, run `completion`).
Their proof needs fairness and `ENABLED`, which the prover does not treat. The statements of the
runs that fail have no theorem.

## 6. Not modelled

- *Money and VAT* (`libs/core/src/money`): pure arithmetic in one expression per function,
  which nothing in the API calls. Amounts are abstracted everywhere else too; so is that the
  mandate amount of `sign` ignores `taxMode` (322).
- *Accounting, key and scheduler ports*: a stub, and ports without a caller or an
  implementation.
- *Bootstrap, configuration, health, build and deployment*: wiring and read-only probes.
- *The wizard's `sign()`*: the button that calls it is never enabled (`unsignable`). The
  server's `sign` is in `Proposals`.
- *The login page* has no route (`/login` leads to the console), and the landing page is static.
- *Reads* that change nothing: `list` and `get` of proposals, `me`.
- Operations of the scoped client without a caller (`findUnique`, `update`, `delete`,
  `upsert`, `createMany`), and of the payment port (`collect`, `refund`, `getPaymentStatus`).

Storage is modelled as durable, which the S3 adapter is and the in-memory double is not. The
payment provider is modelled by what `sign` sees of it: a call that opens a request, or fails,
and by the events it delivers. A call that opens a request at the provider and whose answer is
lost is an `Abort` after `SignRequestPayment`. A transaction is one step: PostgreSQL keeps
what is inside it from being seen before it commits, and a unique key decides between two.
