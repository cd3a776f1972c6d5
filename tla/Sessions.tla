------------------------------- MODULE Sessions -------------------------------
(***************************************************************************)
(* Sessions of apps/api/src/auth: login with lockout, demo login, rotation *)
(* of refresh tokens with reuse detection, logout and password reset.      *)
(*                                                                         *)
(* A session is a family of RefreshToken rows: refresh revokes the token   *)
(* it was given and then, several awaits later, inserts its successor.     *)
(* The browser holds the last token in a cookie that all its tabs share,   *)
(* so two requests may carry the same one.  Each await of a handler is a   *)
(* point where any other request may run; pc names the next step.          *)
(* Expiry is left out: a token or link that has expired is refused, which  *)
(* changes nothing.  So are a wrong email and an account that is locked.   *)
(***************************************************************************)
EXTENDS Naturals, FiniteSets

CONSTANTS
    Users, Admins,        \* Admins: the users with isPlatformAdmin
    Browsers,
    LoginReqs, DemoReqs, RefreshReqs, LogoutReqs,
    ForgotReqs,           \* reset requests; each also names the row it inserts
    ResetReqs,            \* each also names the password it sets
    Fallible,             \* requests that may die between two awaits
    MaxFailed,            \* MAX_FAILED_LOGINS, 5 in the code
    Original,             \* the password a user starts with
    NoToken, NoUser, NoBrowser

\* A RefreshToken row is named by the request that inserts it.
Tokens   == LoginReqs \cup DemoReqs \cup RefreshReqs
Requests == Tokens \cup LogoutReqs \cup ForgotReqs \cup ResetReqs

ASSUME SessionsAdmins == Admins \subseteq Users
ASSUME SessionsFallible == Fallible \subseteq Requests
ASSUME SessionsMaxFailed == MaxFailed \in Nat \ {0}
ASSUME SessionsNull ==
    NoToken \notin Requests /\ NoUser \notin Users /\ NoBrowser \notin Browsers
ASSUME SessionsOriginal == Original \notin ResetReqs
ASSUME SessionsRequests ==
    /\ LoginReqs \cap (DemoReqs \cup RefreshReqs \cup LogoutReqs \cup ForgotReqs \cup ResetReqs) = {}
    /\ DemoReqs \cap (RefreshReqs \cup LogoutReqs \cup ForgotReqs \cup ResetReqs) = {}
    /\ RefreshReqs \cap (LogoutReqs \cup ForgotReqs \cup ResetReqs) = {}
    /\ LogoutReqs \cap (ForgotReqs \cup ResetReqs) = {}
    /\ ForgotReqs \cap ResetReqs = {}

VARIABLES
    token,      \* the RefreshToken rows
    password,   \* User.passwordHash: the reset that set it
    failed,     \* User.failedLoginCount
    locked,     \* User.lockedUntil is in the future
    reset,      \* the PasswordReset rows: "absent", "open", "consumed"
    cookie,     \* the cadence_rt cookie of each browser
    pc, req,    \* the next step of a request, and what it holds
    reused,     \* history: the families in which a reuse was detected
    straddled   \* history: <<refresh, reset>>, the reset came inside the refresh

vars == <<token, password, failed, locked, reset, cookie, pc, req, reused, straddled>>

Passwords == ResetReqs \cup {Original}

\* under is history: the user's password when the row was inserted.
Row == [state : {"absent", "live", "revoked"}, user : Users \cup {NoUser},
        family : Tokens \cup {NoToken}, parent : Tokens \cup {NoToken},
        under : Passwords]

NoRow == [state |-> "absent", user |-> NoUser, family |-> NoToken, parent |-> NoToken,
          under |-> Original]

\* presented: the token, or the reset link, the request carries.
Locals == [browser : Browsers \cup {NoBrowser}, user : Users \cup {NoUser},
           presented : Requests \cup {NoToken}, seenFailed : Nat]

NoLocals == [browser |-> NoBrowser, user |-> NoUser, presented |-> NoToken,
             seenFailed |-> 0]

Steps == {"idle", "done", "refused", "failed", "countFailure", "accept", "issue", "respond",
          "read", "rotate", "revokeFamily", "revoke", "clear", "mail", "commit"}

Present(t) == t \in Tokens /\ token[t].state # "absent"
InFlight(r) == pc[r] \notin {"idle", "done", "refused", "failed"}

Init ==
    /\ token = [t \in Tokens |-> NoRow]
    /\ password = [u \in Users |-> Original]
    /\ failed = [u \in Users |-> 0]
    /\ locked = [u \in Users |-> FALSE]
    /\ reset = [f \in ForgotReqs |-> "absent"]
    /\ cookie = [b \in Browsers |-> NoToken]
    /\ pc = [r \in Requests |-> "idle"]
    /\ req = [r \in Requests |-> NoLocals]
    /\ reused = {}
    /\ straddled = {}

users   == <<password, failed, locked>>
history == <<reused, straddled>>

Goto(r, step) == pc' = [pc EXCEPT ![r] = step]

Arrive(r, locals, step) ==
    /\ pc[r] = "idle"
    /\ req' = [req EXCEPT ![r] = locals]
    /\ Goto(r, step)

\* UPDATE ... SET revokedAt WHERE the row is in ts and live.
RevokeAll(ts) ==
    token' = [t \in Tokens |->
                IF t \in ts /\ token[t].state = "live"
                THEN [token[t] EXCEPT !.state = "revoked"] ELSE token[t]]

-----------------------------------------------------------------------------
(* login: the row is read, the password verified against it, and the count   *)
(* written back is the one that was read, plus one.                          *)

LoginRead(r, u, b) ==
    /\ ~locked[u]
    /\ \E outcome \in {"countFailure", "accept"} :
          Arrive(r, [browser |-> b, user |-> u, presented |-> NoToken,
                     seenFailed |-> failed[u]], outcome)
    /\ UNCHANGED <<token, users, reset, cookie, history>>

\* Slip: the lock comes one failure early.
LocksOutEarly(count) == count + 1 >= MaxFailed

LocksOut(count) == count >= MaxFailed

LoginCountFailure(r) ==
    /\ pc[r] = "countFailure"
    /\ LET u == req[r].user
           count == req[r].seenFailed + 1 IN
       /\ failed' = [failed EXCEPT ![u] = count]
       /\ locked' = [locked EXCEPT ![u] = LocksOut(count)]
    /\ Goto(r, "refused")
    /\ UNCHANGED <<token, password, reset, cookie, req, history>>

\* Slip: a success takes one failure back.
LoginForgive(r) ==
    /\ pc[r] = "accept"
    /\ failed' = [failed EXCEPT ![req[r].user] = @ - 1]
    /\ locked' = [locked EXCEPT ![req[r].user] = FALSE]
    /\ Goto(r, "issue")
    /\ UNCHANGED <<token, password, reset, cookie, req, history>>

LoginAccept(r) ==
    /\ pc[r] = "accept"
    /\ failed' = [failed EXCEPT ![req[r].user] = 0]
    /\ locked' = [locked EXCEPT ![req[r].user] = FALSE]
    /\ Goto(r, "issue")
    /\ UNCHANGED <<token, password, reset, cookie, req, history>>

\* LOCKOUT_MINUTES pass; the count stays.
Unlock(u) ==
    /\ locked[u]
    /\ locked' = [locked EXCEPT ![u] = FALSE]
    /\ UNCHANGED <<token, password, failed, reset, cookie, pc, req, history>>

\* demoLogin: a platform admin if there is one, else any user; no password.
DemoRead(r, b) ==
    /\ \E u \in IF Admins # {} THEN Admins ELSE Users :
          Arrive(r, [browser |-> b, user |-> u, presented |-> NoToken,
                     seenFailed |-> 0], "issue")
    /\ UNCHANGED <<token, users, reset, cookie, history>>

-----------------------------------------------------------------------------
(* refresh *)

\* A tab sends the cookie as it is now.
RefreshSend(r, b) ==
    /\ cookie[b] # NoToken
    /\ Arrive(r, [NoLocals EXCEPT !.browser = b, !.presented = cookie[b],
                                  !.user = token[cookie[b]].user], "read")
    /\ UNCHANGED <<token, users, reset, cookie, history>>

RefreshRead(r) ==
    /\ pc[r] = "read"
    /\ Goto(r, IF token[req[r].presented].state = "revoked" THEN "revokeFamily" ELSE "rotate")
    /\ UNCHANGED <<token, users, reset, cookie, req, history>>

FamilyOf(t) == {s \in Tokens : Present(s) /\ token[s].family = token[t].family}

\* A revoked token was presented: the whole family is revoked, the request refused.
RevokeFamily(r) ==
    /\ pc[r] = "revokeFamily"
    /\ RevokeAll(FamilyOf(req[r].presented))
    /\ reused' = reused \cup {token[req[r].presented].family}
    /\ Goto(r, "refused")
    /\ UNCHANGED <<users, reset, cookie, req, straddled>>

\* Slip: the successor is issued, the token it replaces stays valid.
RotateNothing(r) ==
    /\ pc[r] = "rotate"
    /\ Goto(r, "issue")
    /\ UNCHANGED <<token, users, reset, cookie, req, history>>

Rotate(r) ==
    /\ pc[r] = "rotate"
    /\ RevokeAll({req[r].presented})
    /\ Goto(r, "issue")
    /\ UNCHANGED <<users, reset, cookie, req, history>>

(* issueTokens, and the controller that puts the token in the cookie *)

NewRow(r) ==
    LET parent == req[r].presented
        user   == req[r].user IN
    [state |-> "live", user |-> user, parent |-> parent, under |-> password[user],
     family |-> IF parent = NoToken THEN r ELSE token[parent].family]

Issue(r) ==
    /\ pc[r] = "issue"
    /\ token' = [token EXCEPT ![r] = NewRow(r)]
    /\ Goto(r, "respond")
    /\ UNCHANGED <<users, reset, cookie, req, history>>

\* Slip: refresh answers with the access token only.
RespondWithoutCookie(r) ==
    /\ pc[r] = "respond"
    /\ cookie' = IF r \in RefreshReqs THEN cookie ELSE [cookie EXCEPT ![req[r].browser] = r]
    /\ Goto(r, "done")
    /\ UNCHANGED <<token, users, reset, req, history>>

Respond(r) ==
    /\ pc[r] = "respond"
    /\ cookie' = [cookie EXCEPT ![req[r].browser] = r]
    /\ Goto(r, "done")
    /\ UNCHANGED <<token, users, reset, req, history>>

-----------------------------------------------------------------------------
(* logout: without a cookie there is nothing to revoke, but the answer still *)
(* clears the cookie, whatever it is by then.                                *)

LogoutSend(r, b) ==
    /\ Arrive(r, [NoLocals EXCEPT !.browser = b, !.presented = cookie[b]],
              IF cookie[b] = NoToken THEN "clear" ELSE "revoke")
    /\ UNCHANGED <<token, users, reset, cookie, history>>

LogoutRevoke(r) ==
    /\ pc[r] = "revoke"
    /\ RevokeAll({req[r].presented})
    /\ Goto(r, "clear")
    /\ UNCHANGED <<users, reset, cookie, req, history>>

LogoutClear(r) ==
    /\ pc[r] = "clear"
    /\ cookie' = [cookie EXCEPT ![req[r].browser] = NoToken]
    /\ Goto(r, "done")
    /\ UNCHANGED <<token, users, reset, req, history>>

-----------------------------------------------------------------------------
(* requestPasswordReset and resetPassword *)

ForgotCreate(f, u) ==
    /\ Arrive(f, [NoLocals EXCEPT !.user = u], "mail")
    /\ reset' = [reset EXCEPT ![f] = "open"]
    /\ UNCHANGED <<token, users, cookie, history>>

ForgotMail(f) ==
    /\ pc[f] = "mail"
    /\ Goto(f, "done")
    /\ UNCHANGED <<token, users, reset, cookie, req, history>>

\* The mailed link is followed; whether it was used is not asked again.
ResetRead(r, f) ==
    /\ pc[f] = "done"
    /\ reset[f] = "open"
    /\ Arrive(r, [NoLocals EXCEPT !.user = req[f].user, !.presented = f], "commit")
    /\ UNCHANGED <<token, users, reset, cookie, history>>

\* Slip: the tokens that opened a session are revoked, their successors are not.
FirstTokensOf(u) == {t \in Tokens : token[t].user = u /\ token[t].parent = NoToken}

SessionsOf(u) == {t \in Tokens : token[t].user = u}

\* Refreshes that have read their token as live and not yet replaced it.
Rotating(u) == {r \in RefreshReqs : req[r].user = u /\ pc[r] \in {"rotate", "issue"}}

\* One transaction: the link is consumed, the password set, the sessions revoked.
ResetCommit(r) ==
    /\ pc[r] = "commit"
    /\ reset' = [reset EXCEPT ![req[r].presented] = "consumed"]
    /\ password' = [password EXCEPT ![req[r].user] = r]
    /\ RevokeAll(SessionsOf(req[r].user))
    /\ straddled' = straddled \cup (Rotating(req[r].user) \X {r})
    /\ Goto(r, "done")
    /\ UNCHANGED <<failed, locked, cookie, req, reused>>

-----------------------------------------------------------------------------
\* The database throws, the function is stopped, or the answer is lost.
Abort(r) ==
    /\ InFlight(r)
    /\ Goto(r, "failed")
    /\ UNCHANGED <<token, users, reset, cookie, req, history>>

Next ==
    \/ \E r \in LoginReqs :
          \/ \E u \in Users, b \in Browsers : LoginRead(r, u, b)
          \/ LoginCountFailure(r) \/ LoginAccept(r)
    \/ \E u \in Users : Unlock(u)
    \/ \E r \in DemoReqs, b \in Browsers : DemoRead(r, b)
    \/ \E r \in RefreshReqs :
          \/ \E b \in Browsers : RefreshSend(r, b)
          \/ RefreshRead(r) \/ RevokeFamily(r) \/ Rotate(r)
    \/ \E r \in Tokens : Issue(r) \/ Respond(r)
    \/ \E r \in LogoutReqs :
          \/ \E b \in Browsers : LogoutSend(r, b)
          \/ LogoutRevoke(r) \/ LogoutClear(r)
    \/ \E f \in ForgotReqs : (\E u \in Users : ForgotCreate(f, u)) \/ ForgotMail(f)
    \/ \E r \in ResetReqs  : (\E f \in ForgotReqs : ResetRead(r, f)) \/ ResetCommit(r)
    \/ \E r \in Fallible   : Abort(r)

Spec == Init /\ [][Next]_vars

-----------------------------------------------------------------------------
(* Properties. *)

\* Rows, cookies and requests are in states the schema and the handlers give them.
TypeOK ==
    /\ token \in [Tokens -> Row]
    /\ password \in [Users -> Passwords]
    /\ failed \in [Users -> Nat]
    /\ locked \in [Users -> BOOLEAN]
    /\ reset \in [ForgotReqs -> {"absent", "open", "consumed"}]
    /\ cookie \in [Browsers -> Tokens \cup {NoToken}]
    /\ pc \in [Requests -> Steps]
    /\ req \in [Requests -> Locals]
    /\ reused \subseteq Tokens
    /\ straddled \subseteq RefreshReqs \X ResetReqs

Live(t) == token[t].state = "live"

Siblings(s, t) ==
    s # t /\ Present(s) /\ Present(t) /\ token[s].parent = token[t].parent

\* Some token of the family was replaced twice.
Forked(f) ==
    \E s, t \in Tokens : Siblings(s, t) /\ token[s].parent # NoToken /\ token[s].family = f

\* Rotation keeps one token of a session alive, however refreshes, logouts and
\* failures interleave: a family has two live tokens only when two refreshes
\* that overlapped replaced the same token.
OneLivePerFamily ==
    \A s, t \in Tokens :
       Live(s) /\ Live(t) /\ s # t /\ token[s].family = token[t].family
          => Forked(token[s].family)

\* A reset leaves no live token behind: one was inserted under the password the
\* user has now.
LiveUnderCurrentPassword ==
    \A t \in Tokens : Live(t) => token[t].under = password[token[t].user]

\* "Password reset revokes all sessions": a session opened under an earlier
\* password has no live token, also not a successor inserted after the reset.
\* The one way around it is a refresh that had read its token as live and was
\* replacing it when the reset, that very one, committed.
SessionsOnRecordEnd ==
    \A t \in Tokens : Live(t) =>
       LET current == password[token[t].user]
           opening == token[t].family IN
       \/ token[opening].under = current
       \/ \E s \in Tokens :
             <<s, current>> \in straddled /\ Present(s) /\ token[s].family = opening

Refused(u) == {r \in LoginReqs : req[r].user = u /\ pc[r] = "refused"}

\* A lock is earned, although the count is read before and written after the
\* password is verified: no account is locked before MaxFailed failures.
LockIsEarned ==
    \A u \in Users :
       /\ failed[u] <= Cardinality(Refused(u))
       /\ locked[u] => Cardinality(Refused(u)) >= MaxFailed

\* No browser loses its session for nothing: a revoked token stays in a cookie
\* only while a request that carries it is under way or has died, or after a
\* reuse in its family or a change of the password.
DeadCookieHasCause ==
    \A b \in Browsers : cookie[b] # NoToken /\ ~Live(cookie[b]) =>
       LET t == cookie[b] IN
       \/ \E r \in Requests : req[r].presented = t /\ (InFlight(r) \/ pc[r] = "failed")
       \/ token[t].family \in reused
       \/ token[t].under # password[token[t].user]

=============================================================================
