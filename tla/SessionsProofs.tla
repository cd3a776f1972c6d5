---------------------------- MODULE SessionsProofs ----------------------------
(***************************************************************************)
(* Safety of sessions, for any number of users, browsers and requests: the *)
(* rows of a family form a tree along their parents, in which only tokens  *)
(* without a successor are live.  On it rests why a browser may lose its   *)
(* session, and which sessions a reset of the password leaves alive; why   *)
(* an account is locked rests on counting the logins that were refused.    *)
(***************************************************************************)
EXTENDS Sessions, FiniteSetTheorems, TLAPS

Childless(t) == Present(t) /\ \A s \in Tokens : Present(s) => token[s].parent # t

\* A row has a user, a family on record and, unless it opened the session, a
\* revoked parent of that family.
RowOK(t) ==
    /\ token[t].user \in Users
    /\ Present(token[t].family)
    /\ token[t].parent = NoToken => token[t].family = t
    /\ token[t].parent # NoToken =>
          /\ Present(token[t].parent)
          /\ token[token[t].parent].state = "revoked"
          /\ token[token[t].parent].family = token[t].family

\* What a request relies on between two awaits.
RequestOK(r) ==
    /\ Present(r) => pc[r] \in {"respond", "done", "failed"}
    /\ r \in Tokens /\ pc[r] = "respond" => Present(r)
    /\ pc[r] \in {"countFailure", "accept"} => req[r].user \in Users /\ req[r].presented = NoToken
    /\ pc[r] \in {"read", "rotate", "revokeFamily"} =>
          req[r].user \in Users /\ Present(req[r].presented)
    /\ pc[r] = "issue" =>
          /\ req[r].user \in Users
          /\ req[r].presented # NoToken =>
                Present(req[r].presented) /\ token[req[r].presented].state = "revoked"
    /\ pc[r] = "commit" => req[r].user \in Users
    /\ r \in ForgotReqs /\ pc[r] \in {"mail", "done"} => req[r].user \in Users

RowsInv     == \A t \in Tokens : Present(t) => RowOK(t)
RequestsInv == \A r \in Requests : RequestOK(r)
CookiesInv  == \A b \in Browsers : cookie[b] # NoToken => Present(cookie[b])

\* Two ends of one session mean that it forked.
ForksInv ==
    \A s, t \in Tokens :
       Childless(s) /\ Childless(t) /\ s # t /\ token[s].family = token[t].family
          => Forked(token[s].family)

\* The inductive invariant.
SessionsInv ==
    TypeOK /\ RowsInv /\ RequestsInv /\ CookiesInv /\ ForksInv /\ LiveUnderCurrentPassword

\* Requests that carry a browser's token: when such a request is over, or the
\* token was put there, is known from what the browser holds.
Clients == RefreshReqs \cup LogoutReqs

HeldInv ==
    \A b \in Browsers : cookie[b] # NoToken => pc[cookie[b]] = "done" /\ req[cookie[b]].browser = b

ClientsInv ==
    \A r \in Clients : pc[r] # "idle" /\ req[r].presented # NoToken =>
       /\ req[r].presented \in Tokens
       /\ pc[req[r].presented] = "done"
       /\ req[req[r].presented].browser = req[r].browser
       /\ pc[r] = "done" => \A b \in Browsers : cookie[b] # req[r].presented

\* A password that is or was a user's was set by a reset that is over.
PasswordsInv ==
    /\ \A u \in Users : password[u] \in ResetReqs => pc[password[u]] = "done"
    /\ \A t \in Tokens : token[t].under \in ResetReqs => pc[token[t].under] = "done"

\* Why a token was revoked.
Cause(t) ==
    \/ \E r \in Clients : req[r].presented = t /\ pc[r] \notin {"idle", "refused"}
    \/ token[t].family \in reused
    \/ token[t].under # password[token[t].user]

CausesInv == \A t \in Tokens : token[t].state = "revoked" => Cause(t)

\* The inductive invariant of what ends in a cookie, on top of SessionsInv.
LossInv == HeldInv /\ ClientsInv /\ PasswordsInv /\ CausesInv

\* The session that t opened was opened under password w, or a refresh of it
\* straddled the reset that set w.
OpenedUnder(t, w) ==
    \/ token[t].under = w
    \/ \E s \in Tokens : <<s, w>> \in straddled /\ Present(s) /\ token[s].family = t

PresentedInv ==
    /\ \A r \in RefreshReqs : pc[r] \in {"read", "rotate", "issue"} =>
          Present(req[r].presented) /\ token[req[r].presented].user = req[r].user
    /\ \A r \in LoginReqs \cup DemoReqs : pc[r] = "issue" => req[r].presented = NoToken

\* The inductive invariant of password resets, on top of SessionsInv: what holds
\* of a row under its password holds of a rotation under the one it will be
\* inserted with, unless the reset came in between.
RecordInv ==
    /\ \A t \in Tokens : Present(t) => OpenedUnder(token[t].family, token[t].under)
    /\ \A r \in RefreshReqs : pc[r] \in {"rotate", "issue"} =>
          \/ OpenedUnder(token[req[r].presented].family, password[req[r].user])
          \/ <<r, password[req[r].user]>> \in straddled

\* The inductive invariant of the lockout, on top of SessionsInv: the count that
\* a login holds is not above the number of those that were refused by now.
LockInv ==
    /\ \A u \in Users : IsFiniteSet(Refused(u))
    /\ \A r \in LoginReqs, u \in Users : pc[r] = "countFailure" /\ req[r].user = u =>
          req[r].seenFailed <= Cardinality(Refused(u))
    /\ LockIsEarned

-----------------------------------------------------------------------------
(* Rows are kept: what a step may do to them. *)

TokensKept ==
    /\ token' = [t \in Tokens |-> token'[t]]
    /\ \A t \in Tokens :
          \/ token'[t] = token[t]
          \/ token[t].state = "live" /\ token'[t] = [token[t] EXCEPT !.state = "revoked"]

LEMMA RevokeKeeps ==
  ASSUME NEW ts, RevokeAll(ts)
  PROVE  TokensKept
  BY DEF RevokeAll, TokensKept

LEMMA TokenStep ==
  ASSUME TypeOK, Next
  PROVE  TokensKept \/ \E r \in Tokens : Issue(r)
  <1>1. ASSUME token' = token
        PROVE  TokensKept
    BY <1>1 DEF TokensKept, TypeOK
  <1>2. CASE \E r \in LoginReqs :
               (\E u \in Users, b \in Browsers : LoginRead(r, u, b))
               \/ LoginCountFailure(r) \/ LoginAccept(r)
    BY <1>2, <1>1 DEF LoginRead, LoginCountFailure, LoginAccept
  <1>3. CASE (\E u \in Users : Unlock(u)) \/ \E r \in DemoReqs, b \in Browsers : DemoRead(r, b)
    BY <1>3, <1>1 DEF Unlock, DemoRead
  <1>4. CASE \E r \in RefreshReqs :
               (\E b \in Browsers : RefreshSend(r, b))
               \/ RefreshRead(r) \/ RevokeFamily(r) \/ Rotate(r)
    BY <1>4, <1>1, RevokeKeeps DEF RefreshSend, RefreshRead, RevokeFamily, Rotate
  <1>5. CASE \E r \in Tokens : Issue(r) \/ Respond(r)
    BY <1>5, <1>1 DEF Respond
  <1>6. CASE \E r \in LogoutReqs :
               (\E b \in Browsers : LogoutSend(r, b)) \/ LogoutRevoke(r) \/ LogoutClear(r)
    BY <1>6, <1>1, RevokeKeeps DEF LogoutSend, LogoutRevoke, LogoutClear
  <1>7. CASE \E f \in ForgotReqs : (\E u \in Users : ForgotCreate(f, u)) \/ ForgotMail(f)
    BY <1>7, <1>1 DEF ForgotCreate, ForgotMail
  <1>8. CASE \E r \in ResetReqs : (\E f \in ForgotReqs : ResetRead(r, f)) \/ ResetCommit(r)
    BY <1>8, <1>1, RevokeKeeps DEF ResetRead, ResetCommit
  <1>9. CASE \E r \in Fallible : Abort(r)
    BY <1>9, <1>1 DEF Abort
  <1> QED  BY <1>2, <1>3, <1>4, <1>5, <1>6, <1>7, <1>8, <1>9 DEF Next

\* A new row: it is live, belongs to a user, and continues what was presented.
LEMMA NewRowIsRow ==
  ASSUME SessionsInv, NEW r \in Tokens, pc[r] = "issue"
  PROVE  /\ NewRow(r) \in Row
         /\ NewRow(r).state = "live" /\ NewRow(r).user = req[r].user
         /\ NewRow(r).parent = req[r].presented
         /\ NewRow(r).under = password[req[r].user]
         /\ req[r].user \in Users
         /\ ~Present(r)
         /\ NewRow(r).parent = NoToken => NewRow(r).family = r
         /\ NewRow(r).parent # NoToken =>
               /\ Present(NewRow(r).parent)
               /\ token[NewRow(r).parent].state = "revoked"
               /\ NewRow(r).family = token[NewRow(r).parent].family
  <1>1. RequestOK(r) /\ req[r] \in Locals
    BY DEF SessionsInv, RequestsInv, TypeOK, Requests
  <1>2. /\ req[r].user \in Users /\ ~Present(r)
        /\ req[r].presented # NoToken =>
              Present(req[r].presented) /\ token[req[r].presented].state = "revoked"
    BY <1>1 DEF RequestOK
  <1>3. req[r].presented \in Tokens \cup {NoToken}
        /\ (req[r].presented # NoToken => token[req[r].presented] \in Row)
    BY <1>2 DEF Present, SessionsInv, TypeOK
  <1>4. password[req[r].user] \in Passwords
    BY <1>1, <1>2 DEF SessionsInv, TypeOK, Locals
  <1> QED
    BY <1>2, <1>3, <1>4 DEF NewRow, Row

LEMMA RowsPersist ==
  ASSUME SessionsInv, Next
  PROVE  /\ token' \in [Tokens -> Row]
         /\ \A t \in Tokens : Present(t) =>
               /\ Present(t)'
               /\ token'[t].user = token[t].user /\ token'[t].family = token[t].family
               /\ token'[t].parent = token[t].parent /\ token'[t].under = token[t].under
               /\ token[t].state = "revoked" => token'[t].state = "revoked"
         /\ \A t \in Tokens : Present(t)' /\ ~Present(t) => Issue(t)
         /\ \A t \in Tokens : Live(t)' /\ ~Live(t) => Issue(t)
  <1> token \in [Tokens -> Row]
    BY DEF SessionsInv, TypeOK
  <1>1. CASE TokensKept
    <2>1. \A t \in Tokens : token'[t] \in Row
      BY <1>1 DEF TokensKept, Row
    <2> QED
      BY <1>1, <2>1 DEF TokensKept, Row, Present, Live
  <1>2. CASE \E r \in Tokens : Issue(r)
    <2> PICK r \in Tokens : Issue(r)
      BY <1>2
    <2>1. /\ token' = [token EXCEPT ![r] = NewRow(r)]
          /\ NewRow(r) \in Row /\ ~Present(r) /\ NewRow(r).state = "live"
      BY NewRowIsRow DEF Issue
    <2> QED
      BY <2>1 DEF Present, Live
  <1> QED  BY <1>1, <1>2, TokenStep DEF SessionsInv

-----------------------------------------------------------------------------
(* The parts of the invariant, one after the other. *)

LEMMA RowsStep ==
  ASSUME SessionsInv, Next
  PROVE  RowsInv'
  <1> SUFFICES ASSUME NEW t \in Tokens, Present(t)'
               PROVE  RowOK(t)'
    BY DEF RowsInv
  <1>1. CASE Present(t)
    <2>1. RowOK(t)
      BY <1>1 DEF SessionsInv, RowsInv
    <2>2. Present(token[t].family) /\ (token[t].parent # NoToken => Present(token[t].parent))
      BY <2>1 DEF RowOK
    <2> QED
      BY <1>1, <2>1, <2>2, RowsPersist DEF RowOK, Present
  <1>2. CASE ~Present(t)
    <2>1. /\ token' = [token EXCEPT ![t] = NewRow(t)] /\ pc[t] = "issue"
          /\ token \in [Tokens -> Row]
      BY <1>2, RowsPersist DEF Issue, SessionsInv, TypeOK
    <2>2. CASE NewRow(t).parent = NoToken
      BY <2>1, <2>2, NewRowIsRow DEF RowOK, Present
    <2>3. CASE NewRow(t).parent # NoToken
      <3>1. PICK p \in Tokens : p = NewRow(t).parent /\ Present(p) /\ token[p].state = "revoked"
                                /\ NewRow(t).family = token[p].family
        BY <2>1, <2>3, NewRowIsRow DEF Present
      <3>2. PICK f \in Tokens : f = token[p].family /\ Present(f)
        BY <3>1 DEF SessionsInv, RowsInv, RowOK, Present
      <3>3. token'[t] = NewRow(t) /\ token'[p] = token[p] /\ p # t
        BY <2>1, <3>1, <1>2
      <3>4. Present(p)' /\ Present(f)'
        BY <3>1, <3>2, RowsPersist
      <3> QED
        BY <2>1, <2>3, <3>1, <3>2, <3>3, <3>4, NewRowIsRow DEF RowOK
    <2> QED  BY <2>2, <2>3
  <1> QED  BY <1>1, <1>2

LEMMA ForksStep ==
  ASSUME SessionsInv, Next
  PROVE  ForksInv'
  <1> SUFFICES ASSUME NEW s \in Tokens, NEW t \in Tokens, Childless(s)', Childless(t)', s # t,
                      token'[s].family = token'[t].family
               PROVE  Forked(token[s].family)'
    BY DEF ForksInv
  \* A fork stays, and who is childless was so.
  <1>1. \A f : Forked(f) => Forked(f)'
    BY RowsPersist DEF Forked, Siblings
  <1>2. \A q \in Tokens : Present(q) /\ Childless(q)' => Childless(q)
    BY RowsPersist DEF Childless
  <1>3. CASE Present(s) /\ Present(t)
    BY <1>1, <1>2, <1>3, RowsPersist DEF SessionsInv, ForksInv
  \* s or t is new: a second end of its parent's session.
  <1>4. ASSUME NEW a \in Tokens, NEW b \in Tokens, Childless(a)', Childless(b)', a # b,
               token'[a].family = token'[b].family, ~Present(b)
        PROVE  Forked(token[a].family)'
    <2>1. /\ token' = [token EXCEPT ![b] = NewRow(b)] /\ pc[b] = "issue"
          /\ token \in [Tokens -> Row]
      BY <1>4, RowsPersist DEF Issue, Childless, SessionsInv, TypeOK
    <2>2. token'[b] = NewRow(b) /\ token'[a] = token[a] /\ Present(a)
      BY <2>1, <1>4 DEF Childless, Present
    <2>3. RowOK(a)
      BY <2>2 DEF SessionsInv, RowsInv
    <2>4. NewRow(b).parent # NoToken
      BY <2>1, <2>2, <2>3, <1>4, NewRowIsRow DEF RowOK
    <2> DEFINE p == NewRow(b).parent
    <2>5. Present(p) /\ p \in Tokens /\ token[p].family = token[a].family
      BY <2>1, <2>2, <2>4, <1>4, NewRowIsRow DEF Present
    <2>6. p # a
      BY <2>2, <1>4 DEF Childless
    <2>7. CASE Childless(p)
      BY <1>1, <1>2, <1>4, <2>2, <2>5, <2>6, <2>7 DEF SessionsInv, ForksInv
    <2>8. CASE ~Childless(p)
      <3>1. PICK q \in Tokens : Present(q) /\ token[q].parent = p
        BY <2>5, <2>8 DEF Childless
      <3>2. token[q].family = token[p].family /\ q # b
        BY <3>1, <2>4, <1>4 DEF SessionsInv, RowsInv, RowOK
      <3>3. Present(q)' /\ Present(b)' /\ token'[q].parent = p /\ token'[q].family = token[a].family
        BY <3>1, <3>2, <2>5, <1>4, RowsPersist DEF Childless
      <3> QED
        BY <3>2, <3>3, <2>2, <2>4 DEF Forked, Siblings
    <2> QED  BY <2>7, <2>8
  <1> QED  BY <1>3, <1>4

LEMMA CookiesStep ==
  ASSUME SessionsInv, Next
  PROVE  CookiesInv'
  <1> SUFFICES ASSUME NEW b \in Browsers, cookie'[b] # NoToken
               PROVE  Present(cookie[b])'
    BY DEF CookiesInv
  <1>1. CASE cookie'[b] = cookie[b]
    BY <1>1, RowsPersist DEF SessionsInv, CookiesInv, Present
  <1>2. CASE cookie'[b] # cookie[b]
    <2>1. \E r \in Tokens : cookie'[b] = r /\ pc[r] = "respond"
      BY <1>2 DEF Next, LoginRead, LoginCountFailure, LoginAccept, Unlock, DemoRead, RefreshSend,
                  RefreshRead, RevokeFamily, Rotate, Issue, Respond, LogoutSend, LogoutRevoke,
                  LogoutClear, ForgotCreate, ForgotMail, ResetRead, ResetCommit, Abort,
                  SessionsInv, TypeOK
    <2> QED
      BY <2>1, RowsPersist DEF SessionsInv, RequestsInv, RequestOK, Requests, Present
  <1> QED  BY <1>1, <1>2

LEMMA PasswordStep ==
  ASSUME SessionsInv, Next
  PROVE  LiveUnderCurrentPassword'
  <1> SUFFICES ASSUME NEW t \in Tokens, Live(t)'
               PROVE  token'[t].under = password'[token'[t].user]
    BY DEF LiveUnderCurrentPassword
  <1>1. CASE Live(t)
    <2>1. /\ token'[t].under = token[t].under /\ token'[t].user = token[t].user
          /\ token[t].under = password[token[t].user]
      BY <1>1, RowsPersist DEF Live, Present, SessionsInv, LiveUnderCurrentPassword
    <2>2. CASE password' = password
      BY <2>1, <2>2
    <2>3. CASE \E r \in ResetReqs : ResetCommit(r)
      <3> PICK r \in ResetReqs : ResetCommit(r)
        BY <2>3
      <3>1. token[t].user # req[r].user
        BY DEF ResetCommit, RevokeAll, SessionsOf, Live, SessionsInv, TypeOK, Row
      <3> QED
        BY <2>1, <3>1 DEF ResetCommit, SessionsInv, TypeOK
    <2> QED
      BY <2>2, <2>3 DEF Next, users, LoginRead, LoginCountFailure, LoginAccept, Unlock, DemoRead,
                RefreshSend, RefreshRead, RevokeFamily, Rotate, Issue, Respond, LogoutSend,
                LogoutRevoke, LogoutClear, ForgotCreate, ForgotMail, ResetRead, Abort
  <1>2. CASE ~Live(t)
    BY <1>2, RowsPersist, NewRowIsRow DEF Issue, users, SessionsInv, TypeOK
  <1> QED  BY <1>1, <1>2

LEMMA TypeStep ==
  ASSUME SessionsInv, Next
  PROVE  TypeOK'
  <1>1. token' \in [Tokens -> Row]
    BY RowsPersist
  <1> USE <1>1 DEF TypeOK, users, history, Requests, Goto
  <1> TypeOK
    BY DEF SessionsInv
  <1> NoLocals \in Locals
    BY DEF NoLocals, Locals, Passwords
  <1>2. ASSUME NEW r \in LoginReqs, NEW u \in Users, NEW b \in Browsers, LoginRead(r, u, b)
        PROVE  TypeOK'
    <2> DEFINE l == [browser |-> b, user |-> u, presented |-> NoToken,
                     seenFailed |-> failed[u]]
    <2>1. l \in Locals
      BY DEF Locals
    <2>2. req' = [req EXCEPT ![r] = l]
      BY <1>2 DEF LoginRead, Arrive
    <2> HIDE DEF l
    <2> QED
      BY <1>2, <2>1, <2>2 DEF LoginRead, Arrive, Steps
  <1>3. ASSUME NEW r \in LoginReqs, LoginCountFailure(r) \/ LoginAccept(r)
        PROVE  TypeOK'
    <2>1. req[r].seenFailed \in Nat
      <3>1. req[r] \in Locals
        BY DEF Tokens
      <3> QED  BY <3>1 DEF Locals
    <2>2. CASE LoginCountFailure(r)
      <3>1. failed' \in [Users -> Nat] /\ locked' \in [Users -> BOOLEAN]
        <4> DEFINE count == req[r].seenFailed + 1
        <4>1. /\ failed' = [failed EXCEPT ![req[r].user] = count]
              /\ locked' = [locked EXCEPT ![req[r].user] = LocksOut(count)]
          BY <2>2 DEF LoginCountFailure
        <4>2. count \in Nat
          BY <2>1
        <4>3. LocksOut(count) = TRUE \/ LocksOut(count) = FALSE
          BY DEF LocksOut
        <4> HIDE DEF count
        <4> QED
          BY <4>1, <4>2, <4>3
      <3> QED
        BY <2>2, <3>1 DEF LoginCountFailure, Steps
    <2>3. CASE LoginAccept(r)
      BY <2>3 DEF LoginAccept, Steps
    <2> QED  BY <1>3, <2>2, <2>3
  <1>4. ASSUME NEW u \in Users, Unlock(u)
        PROVE  TypeOK'
    BY <1>4 DEF Unlock
  <1>5. ASSUME NEW r \in DemoReqs, NEW b \in Browsers, DemoRead(r, b)
        PROVE  TypeOK'
    <2>1. PICK u \in Users :
             Arrive(r, [browser |-> b, user |-> u, presented |-> NoToken,
                        seenFailed |-> 0], "issue")
      BY <1>5, SessionsAdmins DEF DemoRead
    <2> DEFINE l == [browser |-> b, user |-> u, presented |-> NoToken,
                     seenFailed |-> 0]
    <2>2. l \in Locals
      BY DEF Locals
    <2>3. req' = [req EXCEPT ![r] = l]
      BY <2>1 DEF Arrive
    <2> HIDE DEF l
    <2> QED
      BY <1>5, <2>1, <2>2, <2>3 DEF DemoRead, Arrive, Steps, Tokens
  <1>6. ASSUME NEW r \in RefreshReqs, NEW b \in Browsers, RefreshSend(r, b)
        PROVE  TypeOK'
    <2>1. cookie[b] \in Tokens /\ token[cookie[b]].user \in Users
      BY <1>6 DEF RefreshSend, SessionsInv, CookiesInv, RowsInv, RowOK
    <2> DEFINE l == [NoLocals EXCEPT !.browser = b, !.presented = cookie[b],
                                     !.user = token[cookie[b]].user]
    <2>2. l \in Locals
      BY <2>1 DEF Locals
    <2>3. req' = [req EXCEPT ![r] = l]
      BY <1>6 DEF RefreshSend, Arrive
    <2> HIDE DEF l
    <2> QED
      BY <1>6, <2>2, <2>3 DEF RefreshSend, Arrive, Steps
  <1>7. ASSUME NEW r \in RefreshReqs, RefreshRead(r) \/ Rotate(r)
        PROVE  TypeOK'
    BY <1>7 DEF RefreshRead, Rotate, Steps
  <1>8. ASSUME NEW r \in RefreshReqs, RevokeFamily(r)
        PROVE  TypeOK'
    <2>1. token[req[r].presented].family \in Tokens
      <3>1. Present(req[r].presented)
        BY <1>8 DEF RevokeFamily, SessionsInv, RequestsInv, RequestOK, Tokens
      <3> QED
        BY <3>1 DEF SessionsInv, RowsInv, RowOK, Present
    <2> QED
      BY <1>8, <2>1 DEF RevokeFamily, Steps
  <1>9. ASSUME NEW r \in Tokens, Issue(r) \/ Respond(r)
        PROVE  TypeOK'
    BY <1>9 DEF Issue, Respond, Steps
  <1>10. ASSUME NEW r \in LogoutReqs, NEW b \in Browsers, LogoutSend(r, b)
         PROVE  TypeOK'
    BY <1>10 DEF LogoutSend, Arrive, Locals, Steps
  <1>11. ASSUME NEW r \in LogoutReqs, LogoutRevoke(r) \/ LogoutClear(r)
         PROVE  TypeOK'
    BY <1>11 DEF LogoutRevoke, LogoutClear, Steps
  <1>12. ASSUME NEW f \in ForgotReqs, NEW u \in Users, ForgotCreate(f, u)
         PROVE  TypeOK'
    BY <1>12 DEF ForgotCreate, Arrive, Locals, Steps
  <1>13. ASSUME NEW f \in ForgotReqs, ForgotMail(f)
         PROVE  TypeOK'
    BY <1>13 DEF ForgotMail, Steps
  <1>14. ASSUME NEW r \in ResetReqs, NEW f \in ForgotReqs, ResetRead(r, f)
         PROVE  TypeOK'
    BY <1>14 DEF ResetRead, Arrive, Locals, Steps
  <1>15. ASSUME NEW r \in ResetReqs, ResetCommit(r)
         PROVE  TypeOK'
    <2>1. straddled' \subseteq RefreshReqs \X ResetReqs
      <3>1. Rotating(req[r].user) \subseteq RefreshReqs
        BY DEF Rotating
      <3> QED  BY <1>15, <3>1 DEF ResetCommit
    <2> QED  BY <1>15, <2>1 DEF ResetCommit, Steps, Passwords
  <1>16. ASSUME NEW r \in Fallible, Abort(r)
         PROVE  TypeOK'
    BY <1>16 DEF Abort, Steps
  <1> QED
    BY <1>2, <1>3, <1>4, <1>5, <1>6, <1>7, <1>8, <1>9, <1>10, <1>11, <1>12, <1>13, <1>14, <1>15,
       <1>16 DEF Next

LEMMA RequestsStep ==
  ASSUME SessionsInv, Next
  PROVE  RequestsInv'
  <1> SUFFICES ASSUME NEW q \in Requests
               PROVE  RequestOK(q)'
    BY DEF RequestsInv
  <1> USE DEF Goto
  <1>1. RequestOK(q) /\ pc \in [Requests -> Steps] /\ req \in [Requests -> Locals]
    BY DEF SessionsInv, RequestsInv, TypeOK
  <1>2. \A t : Present(t) => Present(t)' /\ (token[t].state = "revoked" => token'[t].state = "revoked")
    BY RowsPersist DEF Present
  \* Only Issue brings a row.
  <1>3. Present(q)' => Present(q) \/ Issue(q)
    BY RowsPersist DEF Present
  <1>4. Issue(q) => pc[q] = "issue" /\ pc'[q] = "respond"
    BY <1>1 DEF Issue
  <1>5. pc'[q] # "respond" /\ pc[q] \notin {"respond", "done", "failed"} => ~Present(q)'
    BY <1>1, <1>3, <1>4 DEF RequestOK
  <1>6. ASSUME pc'[q] = pc[q], req'[q] = req[q]
        PROVE  RequestOK(q)'
    <2>1. Present(q)' => Present(q)
      BY <1>3, <1>4, <1>6
    <2> QED
      BY <1>1, <1>2, <1>6, <2>1 DEF RequestOK
  <1> USE SessionsRequests, <1>1, <1>2, <1>5, <1>6
  <1>7. ASSUME NEW r \in LoginReqs, NEW u \in Users, NEW b \in Browsers, LoginRead(r, u, b)
        PROVE  RequestOK(q)'
    BY <1>7 DEF LoginRead, Arrive, RequestOK
  <1>8. ASSUME NEW r \in LoginReqs, LoginCountFailure(r) \/ LoginAccept(r)
        PROVE  RequestOK(q)'
    BY <1>8 DEF LoginCountFailure, LoginAccept, RequestOK
  <1>9. ASSUME NEW u \in Users, Unlock(u)
        PROVE  RequestOK(q)'
    BY <1>9 DEF Unlock
  <1>10. ASSUME NEW r \in DemoReqs, NEW b \in Browsers, DemoRead(r, b)
         PROVE  RequestOK(q)'
    BY <1>10, SessionsAdmins DEF DemoRead, Arrive, RequestOK
  <1>11. ASSUME NEW r \in RefreshReqs, NEW b \in Browsers, RefreshSend(r, b)
         PROVE  RequestOK(q)'
    <2>1. cookie[b] \in Tokens /\ Present(cookie[b]) /\ token[cookie[b]].user \in Users
      BY <1>11 DEF RefreshSend, SessionsInv, TypeOK, CookiesInv, RowsInv, RowOK
    <2> QED
      BY <1>11, <2>1 DEF RefreshSend, Arrive, RequestOK, NoLocals
  <1>12. ASSUME NEW r \in RefreshReqs, RefreshRead(r) \/ RevokeFamily(r)
         PROVE  RequestOK(q)'
    BY <1>12 DEF RefreshRead, RevokeFamily, RequestOK
  <1>13. ASSUME NEW r \in RefreshReqs, Rotate(r)
         PROVE  RequestOK(q)'
    <2>1. CASE q # r
      BY <1>13, <2>1 DEF Rotate
    <2>2. CASE q = r
      <3>1. Present(req[q].presented) /\ req[q].user \in Users /\ pc'[q] = "issue" /\ req' = req
        BY <1>13, <2>2 DEF Rotate, RequestOK
      <3>2. token'[req[q].presented].state = "revoked"
        BY <1>13, <2>2, <3>1 DEF Rotate, RevokeAll, Present, SessionsInv, TypeOK, Row
      <3> QED
        BY <1>13, <2>2, <3>1, <3>2 DEF RequestOK, Rotate
    <2> QED  BY <2>1, <2>2
  <1>14. ASSUME NEW r \in Tokens, Issue(r)
         PROVE  RequestOK(q)'
    BY <1>14, NewRowIsRow DEF Issue, RequestOK, Present, SessionsInv, TypeOK, Tokens
  <1>15. ASSUME NEW r \in Tokens, Respond(r)
         PROVE  RequestOK(q)'
    BY <1>15 DEF Respond, RequestOK, Tokens
  <1>16. ASSUME NEW r \in LogoutReqs, NEW b \in Browsers, LogoutSend(r, b)
         PROVE  RequestOK(q)'
    BY <1>16 DEF LogoutSend, Arrive, RequestOK
  <1>17. ASSUME NEW r \in LogoutReqs, LogoutRevoke(r) \/ LogoutClear(r)
         PROVE  RequestOK(q)'
    BY <1>17 DEF LogoutRevoke, LogoutClear, RequestOK, Tokens
  <1>18. ASSUME NEW f \in ForgotReqs, NEW u \in Users, ForgotCreate(f, u)
         PROVE  RequestOK(q)'
    BY <1>18 DEF ForgotCreate, Arrive, RequestOK, NoLocals
  <1>19. ASSUME NEW f \in ForgotReqs, ForgotMail(f)
         PROVE  RequestOK(q)'
    BY <1>19 DEF ForgotMail, RequestOK
  <1>20. ASSUME NEW r \in ResetReqs, NEW f \in ForgotReqs, ResetRead(r, f)
         PROVE  RequestOK(q)'
    <2>1. req[f].user \in Users
      BY <1>20 DEF ResetRead, SessionsInv, RequestsInv, RequestOK, Requests
    <2> QED
      BY <1>20, <2>1 DEF ResetRead, Arrive, RequestOK, NoLocals
  <1>21. ASSUME NEW r \in ResetReqs, ResetCommit(r)
         PROVE  RequestOK(q)'
    BY <1>21 DEF ResetCommit, RequestOK
  <1>22. ASSUME NEW r \in Fallible, Abort(r)
         PROVE  RequestOK(q)'
    BY <1>22 DEF Abort, RequestOK
  <1> QED
    BY <1>7, <1>8, <1>9, <1>10, <1>11, <1>12, <1>13, <1>14, <1>15, <1>16, <1>17, <1>18, <1>19,
       <1>20, <1>21, <1>22 DEF Next

-----------------------------------------------------------------------------
LEMMA InitCorrect ==
  ASSUME Init
  PROVE  SessionsInv
  <1> USE SessionsNull, SessionsRequests DEF Init
  <1>1. NoRow \in Row /\ NoLocals \in Locals
    BY DEF NoRow, Row, NoLocals, Locals, Passwords
  <1>2. TypeOK
    BY <1>1 DEF TypeOK, Passwords, Steps
  <1>3. \A t : ~Present(t)
    BY DEF Present, NoRow
  <1>4. RowsInv /\ CookiesInv /\ ForksInv
    BY <1>3 DEF RowsInv, CookiesInv, ForksInv, Childless
  <1>5. RequestsInv
    BY <1>3 DEF RequestsInv, RequestOK
  <1>6. LiveUnderCurrentPassword
    BY DEF LiveUnderCurrentPassword, Live, NoRow
  <1> QED  BY <1>2, <1>4, <1>5, <1>6 DEF SessionsInv

LEMMA NextCorrect ==
  ASSUME SessionsInv, [Next]_vars
  PROVE  SessionsInv'
  <1>1. CASE Next
    BY <1>1, TypeStep, RowsStep, RequestsStep, CookiesStep, ForksStep, PasswordStep DEF SessionsInv
  <1>2. CASE UNCHANGED vars
    BY <1>2 DEF vars, SessionsInv, TypeOK, RowsInv, RowOK, RequestsInv, RequestOK, CookiesInv,
                ForksInv, Childless, Forked, Siblings, LiveUnderCurrentPassword, Live, Present
  <1> QED  BY <1>1, <1>2

\* The tree of tokens, the requests that change it and the cookies that name its
\* rows stay consistent through every interleaving of logins, refreshes,
\* logouts, resets and failures.
THEOREM SessionsCorrect == Spec => []SessionsInv
  BY InitCorrect, NextCorrect, PTL DEF Spec

\* Rows, cookies and requests keep the states the schema and the handlers give
\* them.
THEOREM SessionTypes == Spec => []TypeOK
  <1>1. SessionsInv => TypeOK
    BY DEF SessionsInv
  <1> QED  BY <1>1, SessionsCorrect, PTL

\* Two live tokens of one session have no successors, for rotation revokes a
\* token before it inserts another: they are two ends of a session that forked,
\* which takes two refreshes of one token.
THEOREM OneTokenPerSession == Spec => []OneLivePerFamily
  <1>1. ASSUME SessionsInv, NEW t \in Tokens, Live(t)
        PROVE  Childless(t)
    <2>1. Present(t)
      BY <1>1 DEF Live, Present
    <2>2. ASSUME NEW s \in Tokens, Present(s), token[s].parent = t
          PROVE  FALSE
      BY <1>1, <2>2, SessionsNull DEF SessionsInv, RowsInv, RowOK, Live, Tokens, Requests
    <2> QED  BY <2>1, <2>2 DEF Childless
  <1>2. SessionsInv => OneLivePerFamily
    BY <1>1 DEF OneLivePerFamily, SessionsInv, ForksInv
  <1> QED  BY <1>2, SessionsCorrect, PTL

-----------------------------------------------------------------------------
(* Why a cookie may hold a dead token. *)

\* A request keeps what it holds, and how it ended.
LEMMA RequestsKept ==
  ASSUME SessionsInv, Next
  PROVE  \A r \in Requests :
            /\ pc[r] # "idle" => pc'[r] # "idle" /\ req'[r] = req[r]
            /\ pc[r] \in {"done", "refused", "failed"} => pc'[r] = pc[r]
  <1> SUFFICES ASSUME NEW r \in Requests, pc[r] # "idle"
               PROVE  /\ pc'[r] # "idle" /\ req'[r] = req[r]
                      /\ pc[r] \in {"done", "refused", "failed"} => pc'[r] = pc[r]
    OBVIOUS
  <1> USE DEF SessionsInv, TypeOK, Goto
  <1>1. CASE \E q \in LoginReqs :
               (\E u \in Users, b \in Browsers : LoginRead(q, u, b))
               \/ LoginCountFailure(q) \/ LoginAccept(q)
    BY <1>1 DEF LoginRead, LoginCountFailure, LoginAccept, Arrive
  <1>2. CASE (\E u \in Users : Unlock(u)) \/ \E q \in DemoReqs, b \in Browsers : DemoRead(q, b)
    BY <1>2 DEF Unlock, DemoRead, Arrive
  <1>3. CASE \E q \in RefreshReqs :
               (\E b \in Browsers : RefreshSend(q, b))
               \/ RefreshRead(q) \/ RevokeFamily(q) \/ Rotate(q)
    BY <1>3 DEF RefreshSend, RefreshRead, RevokeFamily, Rotate, Arrive
  <1>4. CASE \E q \in Tokens : Issue(q) \/ Respond(q)
    BY <1>4 DEF Issue, Respond
  <1>5. CASE \E q \in LogoutReqs :
               (\E b \in Browsers : LogoutSend(q, b)) \/ LogoutRevoke(q) \/ LogoutClear(q)
    BY <1>5 DEF LogoutSend, LogoutRevoke, LogoutClear, Arrive
  <1>6. CASE \E f \in ForgotReqs : (\E u \in Users : ForgotCreate(f, u)) \/ ForgotMail(f)
    BY <1>6 DEF ForgotCreate, ForgotMail, Arrive
  <1>7. CASE \E q \in ResetReqs : (\E f \in ForgotReqs : ResetRead(q, f)) \/ ResetCommit(q)
    BY <1>7 DEF ResetRead, ResetCommit, Arrive
  <1>8. CASE \E q \in Fallible : Abort(q)
    BY <1>8 DEF Abort, InFlight
  <1> QED  BY <1>1, <1>2, <1>3, <1>4, <1>5, <1>6, <1>7, <1>8 DEF Next

\* A client starts with the cookie of its browser.
LEMMA ClientStarts ==
  ASSUME SessionsInv, Next, NEW r \in Clients, pc[r] = "idle", pc'[r] # "idle"
  PROVE  \E b \in Browsers :
            /\ req'[r].presented = cookie[b] /\ req'[r].browser = b
            /\ pc'[r] \in {"read", "revoke", "clear"}
  <1> r \in Requests
    BY DEF Clients, Requests, Tokens
  <1> USE DEF SessionsInv, TypeOK, Goto
  <1>1. CASE \E q \in RefreshReqs, b \in Browsers : RefreshSend(q, b)
    <2> PICK q \in RefreshReqs, b \in Browsers : RefreshSend(q, b)
      BY <1>1
    <2>1. q = r /\ pc'[r] = "read"
      BY DEF RefreshSend, Arrive
    <2>2. req'[r] = [NoLocals EXCEPT !.browser = b, !.presented = cookie[b],
                                     !.user = token[cookie[b]].user]
      BY <2>1 DEF RefreshSend, Arrive
    <2>3. req'[r].presented = cookie[b] /\ req'[r].browser = b
      BY <2>2 DEF NoLocals
    <2> QED  BY <2>1, <2>3
  <1>2. CASE \E q \in LogoutReqs, b \in Browsers : LogoutSend(q, b)
    <2> PICK q \in LogoutReqs, b \in Browsers : LogoutSend(q, b)
      BY <1>2
    <2>1. q = r /\ pc'[r] \in {"revoke", "clear"}
      BY DEF LogoutSend, Arrive
    <2>2. req'[r] = [NoLocals EXCEPT !.browser = b, !.presented = cookie[b]]
      BY <2>1 DEF LogoutSend, Arrive
    <2>3. req'[r].presented = cookie[b] /\ req'[r].browser = b
      BY <2>2 DEF NoLocals
    <2> QED  BY <2>1, <2>3
  <1>3. r \notin LoginReqs /\ r \notin DemoReqs /\ r \notin ForgotReqs /\ r \notin ResetReqs
    BY SessionsRequests DEF Clients
  <1>4. CASE \E q \in LoginReqs :
               (\E u \in Users, b \in Browsers : LoginRead(q, u, b))
               \/ LoginCountFailure(q) \/ LoginAccept(q)
    BY <1>3, <1>4 DEF LoginRead, LoginCountFailure, LoginAccept, Arrive
  <1>5. CASE (\E u \in Users : Unlock(u)) \/ \E q \in DemoReqs, b \in Browsers : DemoRead(q, b)
    BY <1>3, <1>5 DEF Unlock, DemoRead, Arrive
  <1>6. CASE \E q \in Requests : RefreshRead(q) \/ RevokeFamily(q) \/ Rotate(q) \/ LogoutRevoke(q)
                                \/ LogoutClear(q) \/ Issue(q) \/ Respond(q) \/ Abort(q)
    BY <1>6 DEF RefreshRead, RevokeFamily, Rotate, LogoutRevoke, LogoutClear, Issue, Respond, Abort, InFlight
  <1>7. CASE \E f \in ForgotReqs : (\E u \in Users : ForgotCreate(f, u)) \/ ForgotMail(f)
    BY <1>3, <1>7 DEF ForgotCreate, ForgotMail, Arrive
  <1>8. CASE \E q \in ResetReqs : (\E f \in ForgotReqs : ResetRead(q, f)) \/ ResetCommit(q)
    BY <1>3, <1>8 DEF ResetRead, ResetCommit, Arrive
  <1> QED
    BY <1>1, <1>2, <1>4, <1>5, <1>6, <1>7, <1>8, SessionsFallible DEF Next, Requests, Tokens

\* A client is over when its answer is in the cookie, or the cookie is cleared.
LEMMA ClientEnds ==
  ASSUME SessionsInv, Next, NEW r \in Clients, pc[r] # "done", pc'[r] = "done"
  PROVE  Respond(r) \/ LogoutClear(r)
  <1> USE DEF SessionsInv, TypeOK, Goto
  <1>0. /\ r \in Requests /\ r \notin ForgotReqs /\ r \notin ResetReqs
        /\ r \notin LoginReqs /\ r \notin DemoReqs
    BY SessionsRequests DEF Clients, Requests, Tokens
  <1>1. CASE \E q \in LoginReqs :
               (\E u \in Users, b \in Browsers : LoginRead(q, u, b))
               \/ LoginCountFailure(q) \/ LoginAccept(q)
    BY <1>0, <1>1 DEF LoginRead, LoginCountFailure, LoginAccept, Arrive
  <1>2. CASE (\E u \in Users : Unlock(u)) \/ \E q \in DemoReqs, b \in Browsers : DemoRead(q, b)
    BY <1>0, <1>2 DEF Unlock, DemoRead, Arrive
  <1>3. CASE \E q \in RefreshReqs :
               (\E b \in Browsers : RefreshSend(q, b))
               \/ RefreshRead(q) \/ RevokeFamily(q) \/ Rotate(q)
    BY <1>0, <1>3 DEF RefreshSend, RefreshRead, RevokeFamily, Rotate, Arrive
  <1>4. CASE \E q \in Tokens : Issue(q) \/ Respond(q)
    BY <1>0, <1>4 DEF Issue, Respond
  <1>5. CASE \E q \in LogoutReqs :
               (\E b \in Browsers : LogoutSend(q, b)) \/ LogoutRevoke(q) \/ LogoutClear(q)
    BY <1>0, <1>5 DEF LogoutSend, LogoutRevoke, LogoutClear, Arrive
  <1>6. CASE \E f \in ForgotReqs : (\E u \in Users : ForgotCreate(f, u)) \/ ForgotMail(f)
    BY <1>0, <1>6 DEF ForgotCreate, ForgotMail, Arrive
  <1>7. CASE \E q \in ResetReqs : (\E f \in ForgotReqs : ResetRead(q, f)) \/ ResetCommit(q)
    BY <1>0, <1>7 DEF ResetRead, ResetCommit, Arrive
  <1>8. CASE \E q \in Fallible : Abort(q)
    BY <1>0, <1>8 DEF Abort
  <1> QED  BY <1>1, <1>2, <1>3, <1>4, <1>5, <1>6, <1>7, <1>8 DEF Next

\* Only an answer puts a token into a cookie.
LEMMA CookieStep ==
  ASSUME SessionsInv, Next, NEW b \in Browsers
  PROVE  \/ cookie'[b] = cookie[b]
         \/ \E r \in Tokens : Respond(r) /\ req[r].browser = b /\ cookie'[b] = r
         \/ \E r \in LogoutReqs : LogoutClear(r) /\ req[r].browser = b /\ cookie'[b] = NoToken
  BY DEF Next, LoginRead, LoginCountFailure, LoginAccept, Unlock, DemoRead, RefreshSend, RefreshRead,
         RevokeFamily, Rotate, Issue, Respond, LogoutSend, LogoutRevoke, LogoutClear, ForgotCreate,
         ForgotMail, ResetRead, ResetCommit, Abort, SessionsInv, TypeOK

LEMMA RespondEnds ==
  ASSUME SessionsInv, NEW r \in Tokens, Respond(r)
  PROVE  pc[r] = "respond" /\ pc'[r] = "done" /\ req' = req
  BY DEF Respond, Goto, SessionsInv, TypeOK, Requests

LEMMA HeldStep ==
  ASSUME SessionsInv, HeldInv, Next
  PROVE  HeldInv'
  <1> SUFFICES ASSUME NEW b \in Browsers, cookie'[b] # NoToken
               PROVE  pc'[cookie'[b]] = "done" /\ req'[cookie'[b]].browser = b
    BY DEF HeldInv
  <1>1. CASE cookie'[b] = cookie[b]
    <2>1. cookie[b] \in Requests /\ pc[cookie[b]] = "done" /\ req[cookie[b]].browser = b
      BY <1>1 DEF HeldInv, SessionsInv, TypeOK, Requests
    <2> QED  BY <1>1, <2>1, RequestsKept
  <1>2. CASE \E r \in Tokens : Respond(r) /\ req[r].browser = b /\ cookie'[b] = r
    BY <1>2, RespondEnds
  <1> QED  BY <1>1, <1>2, CookieStep

LEMMA ClientsStep ==
  ASSUME SessionsInv, HeldInv, ClientsInv, Next
  PROVE  ClientsInv'
  <1> SUFFICES ASSUME NEW r \in Clients, pc'[r] # "idle", req'[r].presented # NoToken
               PROVE  /\ req'[r].presented \in Tokens
                      /\ pc'[req'[r].presented] = "done"
                      /\ req'[req'[r].presented].browser = req'[r].browser
                      /\ pc'[r] = "done" => \A b \in Browsers : cookie'[b] # req'[r].presented
    BY DEF ClientsInv
  <1>0. r \in Requests /\ Tokens \subseteq Requests /\ NoToken \notin Tokens
    BY SessionsNull DEF Clients, Requests, Tokens
  <1>1. CASE pc[r] = "idle"
    <2>1. PICK b \in Browsers : /\ req'[r].presented = cookie[b] /\ req'[r].browser = b
                                /\ pc'[r] \in {"read", "revoke", "clear"}
      BY <1>1, ClientStarts
    <2>2. cookie[b] \in Tokens /\ pc[cookie[b]] = "done" /\ req[cookie[b]].browser = b
      BY <2>1 DEF HeldInv, SessionsInv, TypeOK
    <2> QED  BY <1>0, <2>1, <2>2, RequestsKept
  <1>2. CASE pc[r] # "idle"
    <2> DEFINE t == req[r].presented
    <2>1. /\ req'[r] = req[r] /\ t \in Tokens /\ pc[t] = "done" /\ req[t].browser = req[r].browser
          /\ pc'[t] = "done" /\ req'[t] = req[t]
      BY <1>0, <1>2, RequestsKept DEF ClientsInv
    <2>2. ASSUME pc'[r] = "done", NEW b \in Browsers, cookie'[b] = t
          PROVE  FALSE
      <3>1. cookie'[b] = cookie[b]
        <4>1. ASSUME NEW q \in Tokens, Respond(q), cookie'[b] = q
              PROVE  FALSE
          BY <2>1, <2>2, <4>1, RespondEnds
        <4> QED  BY <1>0, <2>1, <2>2, <4>1, CookieStep
      <3>2. req[t].browser = b
        BY <2>1, <2>2, <3>1, <1>0 DEF HeldInv
      <3>3. pc[r] # "done"
        BY <1>0, <1>2, <2>1, <2>2, <3>1 DEF ClientsInv
      <3>4. CASE Respond(r)
        <4>1. cookie'[b] = r
          BY <2>1, <3>2, <3>4 DEF Respond, SessionsInv, TypeOK
        <4> QED  BY <1>0, <2>1, <2>2, <3>4, <4>1 DEF Respond
      <3>5. CASE LogoutClear(r)
        <4>1. cookie'[b] = NoToken
          BY <2>1, <3>2, <3>5 DEF LogoutClear, SessionsInv, TypeOK
        <4> QED  BY <1>0, <2>1, <2>2, <4>1
      <3>6. Respond(r) \/ LogoutClear(r)
        BY <2>2, <3>3, ClientEnds
      <3> QED  BY <3>4, <3>5, <3>6
    <2> QED  BY <2>1, <2>2
  <1> QED  BY <1>1, <1>2

LEMMA PasswordChanges ==
  ASSUME SessionsInv, Next
  PROVE  \/ password' = password /\ ~\E r \in ResetReqs : ResetCommit(r)
         \/ \E r \in ResetReqs :
               /\ ResetCommit(r) /\ pc[r] = "commit" /\ pc'[r] = "done" /\ req[r].user \in Users
               /\ password'[req[r].user] = r
               /\ \A u \in Users \ {req[r].user} : password'[u] = password[u]
  <1>1. ASSUME NEW r \in ResetReqs, ResetCommit(r)
        PROVE  /\ pc[r] = "commit" /\ pc'[r] = "done" /\ req[r].user \in Users
               /\ password'[req[r].user] = r
               /\ \A u \in Users \ {req[r].user} : password'[u] = password[u]
    <2>1. r \in Requests /\ pc[r] = "commit"
      BY <1>1 DEF ResetCommit, Requests
    <2>2. req[r].user \in Users
      BY <2>1 DEF SessionsInv, RequestsInv, RequestOK
    <2> QED  BY <1>1, <2>1, <2>2 DEF ResetCommit, Goto, SessionsInv, TypeOK
  <1>2. CASE \E r \in ResetReqs : ResetCommit(r)
    BY <1>1, <1>2
  <1>3. CASE ~\E r \in ResetReqs : ResetCommit(r)
    BY <1>3 DEF Next, users, LoginRead, LoginCountFailure, LoginAccept, Unlock, DemoRead,
                RefreshSend, RefreshRead, RevokeFamily, Rotate, Issue, Respond, LogoutSend,
                LogoutRevoke, LogoutClear, ForgotCreate, ForgotMail, ResetRead, Abort
  <1> QED  BY <1>2, <1>3

LEMMA PasswordsStep ==
  ASSUME SessionsInv, PasswordsInv, Next
  PROVE  PasswordsInv'
  <1>0. ResetReqs \subseteq Requests
    BY DEF Requests
  <1>1. ASSUME NEW u \in Users, password'[u] \in ResetReqs
        PROVE  pc'[password'[u]] = "done"
    <2>1. CASE password'[u] = password[u]
      BY <1>0, <1>1, <2>1, RequestsKept DEF PasswordsInv
    <2>2. CASE password'[u] # password[u]
      BY <2>2, PasswordChanges
    <2> QED  BY <2>1, <2>2
  <1>2. ASSUME NEW t \in Tokens, token'[t].under \in ResetReqs
        PROVE  pc'[token'[t].under] = "done"
    <2>1. CASE token'[t].under = token[t].under
      BY <1>0, <1>2, <2>1, RequestsKept DEF PasswordsInv
    <2>2. CASE Issue(t)
      <3>1. token'[t].under = password[req[t].user] /\ req[t].user \in Users
        <4>1. pc[t] = "issue" /\ token'[t] = NewRow(t)
          BY <2>2 DEF Issue, SessionsInv, TypeOK
        <4> QED  BY <4>1, NewRowIsRow
      <3> QED  BY <1>0, <1>2, <3>1, RequestsKept DEF PasswordsInv
    <2>3. TokensKept \/ \E r \in Tokens : Issue(r)
      BY TokenStep DEF SessionsInv
    <2>4. CASE TokensKept
      <3>1. token'[t].under = token[t].under
        BY <2>4 DEF TokensKept, SessionsInv, TypeOK, Row
      <3> QED  BY <2>1, <3>1
    <2>5. ASSUME NEW r \in Tokens, Issue(r), r # t
          PROVE  token'[t] = token[t]
      BY <2>5 DEF Issue, SessionsInv, TypeOK
    <2> QED  BY <2>1, <2>2, <2>3, <2>4, <2>5
  <1> QED  BY <1>1, <1>2 DEF PasswordsInv

\* What revokes a token.
LEMMA RevokedBy ==
  ASSUME SessionsInv, Next, NEW t \in Tokens, Live(t), token'[t].state = "revoked"
  PROVE  \/ \E r \in RefreshReqs : Rotate(r) /\ req[r].presented = t
         \/ \E r \in LogoutReqs : LogoutRevoke(r) /\ req[r].presented = t
         \/ \E r \in RefreshReqs :
               RevokeFamily(r) /\ token[t].family = token[req[r].presented].family
         \/ \E r \in ResetReqs : ResetCommit(r) /\ token[t].user = req[r].user
  <1>1. ASSUME NEW ts, RevokeAll(ts)
        PROVE  t \in ts
    BY <1>1 DEF RevokeAll, Live
  <1>2. ASSUME token' = token
        PROVE  FALSE
    BY <1>2 DEF Live
  <1>3. ASSUME NEW r \in Tokens, Issue(r)
        PROVE  FALSE
    <2>1. token'[t].state = "live"
      BY <1>3, NewRowIsRow DEF Issue, Live, SessionsInv, TypeOK
    <2> QED  BY <2>1
  <1>4. CASE \E r \in LoginReqs :
               (\E u \in Users, b \in Browsers : LoginRead(r, u, b))
               \/ LoginCountFailure(r) \/ LoginAccept(r)
    BY <1>4, <1>2 DEF LoginRead, LoginCountFailure, LoginAccept
  <1>5. CASE (\E u \in Users : Unlock(u)) \/ \E r \in DemoReqs, b \in Browsers : DemoRead(r, b)
    BY <1>5, <1>2 DEF Unlock, DemoRead
  <1>6. CASE \E r \in RefreshReqs :
               (\E b \in Browsers : RefreshSend(r, b)) \/ RefreshRead(r)
    BY <1>6, <1>2 DEF RefreshSend, RefreshRead
  <1>7. CASE \E r \in RefreshReqs : RevokeFamily(r)
    BY <1>7, <1>1 DEF RevokeFamily, FamilyOf
  <1>8. CASE \E r \in RefreshReqs : Rotate(r)
    BY <1>8, <1>1 DEF Rotate
  <1>9. CASE \E r \in Tokens : Issue(r) \/ Respond(r)
    BY <1>9, <1>2, <1>3 DEF Respond
  <1>10. CASE \E r \in LogoutReqs :
               (\E b \in Browsers : LogoutSend(r, b)) \/ LogoutRevoke(r) \/ LogoutClear(r)
    BY <1>10, <1>1, <1>2 DEF LogoutSend, LogoutRevoke, LogoutClear
  <1>11. CASE \E f \in ForgotReqs : (\E u \in Users : ForgotCreate(f, u)) \/ ForgotMail(f)
    BY <1>11, <1>2 DEF ForgotCreate, ForgotMail
  <1>12. CASE \E r \in ResetReqs : (\E f \in ForgotReqs : ResetRead(r, f)) \/ ResetCommit(r)
    BY <1>12, <1>1, <1>2 DEF ResetRead, ResetCommit, SessionsOf
  <1>13. CASE \E r \in Fallible : Abort(r)
    BY <1>13, <1>2 DEF Abort
  <1> QED
    BY <1>4, <1>5, <1>6, <1>7, <1>8, <1>9, <1>10, <1>11, <1>12, <1>13 DEF Next

\* A client is refused only when it presented a revoked token.
LEMMA ClientRefused ==
  ASSUME SessionsInv, Next, NEW r \in Clients, pc[r] # "refused", pc'[r] = "refused"
  PROVE  RevokeFamily(r)
  <1> USE DEF SessionsInv, TypeOK, Goto
  <1>0. /\ r \in Requests /\ r \notin ForgotReqs /\ r \notin ResetReqs
        /\ r \notin LoginReqs /\ r \notin DemoReqs
    BY SessionsRequests DEF Clients, Requests, Tokens
  <1>1. CASE \E q \in LoginReqs :
               (\E u \in Users, b \in Browsers : LoginRead(q, u, b))
               \/ LoginCountFailure(q) \/ LoginAccept(q)
    BY <1>0, <1>1 DEF LoginRead, LoginCountFailure, LoginAccept, Arrive
  <1>2. CASE (\E u \in Users : Unlock(u)) \/ \E q \in DemoReqs, b \in Browsers : DemoRead(q, b)
    BY <1>0, <1>2 DEF Unlock, DemoRead, Arrive
  <1>3. CASE \E q \in RefreshReqs :
               (\E b \in Browsers : RefreshSend(q, b))
               \/ RefreshRead(q) \/ RevokeFamily(q) \/ Rotate(q)
    BY <1>0, <1>3 DEF RefreshSend, RefreshRead, RevokeFamily, Rotate, Arrive
  <1>4. CASE \E q \in Tokens : Issue(q) \/ Respond(q)
    BY <1>0, <1>4 DEF Issue, Respond
  <1>5. CASE \E q \in LogoutReqs :
               (\E b \in Browsers : LogoutSend(q, b)) \/ LogoutRevoke(q) \/ LogoutClear(q)
    BY <1>0, <1>5 DEF LogoutSend, LogoutRevoke, LogoutClear, Arrive
  <1>6. CASE \E f \in ForgotReqs : (\E u \in Users : ForgotCreate(f, u)) \/ ForgotMail(f)
    BY <1>0, <1>6 DEF ForgotCreate, ForgotMail, Arrive
  <1>7. CASE \E q \in ResetReqs : (\E f \in ForgotReqs : ResetRead(q, f)) \/ ResetCommit(q)
    BY <1>0, <1>7 DEF ResetRead, ResetCommit, Arrive
  <1>8. CASE \E q \in Fallible : Abort(q)
    BY <1>0, <1>8 DEF Abort
  <1> QED  BY <1>1, <1>2, <1>3, <1>4, <1>5, <1>6, <1>7, <1>8 DEF Next

LEMMA ReusedGrows ==
  ASSUME Next
  PROVE  reused \subseteq reused'
  BY DEF Next, history, LoginRead, LoginCountFailure, LoginAccept, Unlock, DemoRead, RefreshSend, RefreshRead,
         RevokeFamily, Rotate, Issue, Respond, LogoutSend, LogoutRevoke, LogoutClear, ForgotCreate,
         ForgotMail, ResetRead, ResetCommit, Abort

LEMMA CausesStep ==
  ASSUME SessionsInv, LossInv, Next
  PROVE  CausesInv'
  <1> SUFFICES ASSUME NEW t \in Tokens, token'[t].state = "revoked"
               PROVE  Cause(t)'
    BY DEF CausesInv
  <1>0. Clients \subseteq Requests /\ ResetReqs \subseteq Requests
    BY DEF Clients, Requests, Tokens
  <1>1. token[t].state \in {"live", "revoked"}
    <2>1. token[t].state \in {"absent", "live", "revoked"}
      BY DEF SessionsInv, TypeOK, Row
    <2>2. CASE token[t].state = "absent"
      <3>1. Issue(t)
        BY <2>2, RowsPersist DEF Present
      <3>2. token'[t].state = "live"
        BY <3>1, NewRowIsRow DEF Issue, SessionsInv, TypeOK
      <3> QED  BY <3>2
    <2> QED  BY <2>1, <2>2
  <1>2. /\ token'[t].family = token[t].family /\ token'[t].under = token[t].under
        /\ token'[t].user = token[t].user /\ token[t].user \in Users
    BY <1>1, RowsPersist DEF Present, SessionsInv, RowsInv, RowOK
  <1>3. CASE token[t].state = "revoked"
    <2>1. Cause(t)
      BY <1>3 DEF LossInv, CausesInv
    <2>2. ASSUME NEW r \in Clients, req[r].presented = t, pc[r] \notin {"idle", "refused"}
          PROVE  Cause(t)'
      <3>1. req'[r] = req[r] /\ pc'[r] # "idle"
        BY <1>0, <2>2, RequestsKept
      <3>2. CASE pc'[r] = "refused"
        BY <1>2, <2>2, <3>2, ClientRefused DEF RevokeFamily, Cause
      <3> QED  BY <2>2, <3>1, <3>2 DEF Cause
    <2>3. CASE token[t].family \in reused
      BY <1>2, <2>3, ReusedGrows DEF Cause
    <2>4. ASSUME token[t].under # password[token[t].user]
          PROVE  token'[t].under # password'[token'[t].user]
      <3>1. ASSUME NEW r \in ResetReqs, pc[r] = "commit"
            PROVE  token[t].under # r
        BY <3>1 DEF LossInv, PasswordsInv
      <3> QED  BY <1>2, <2>4, <3>1, PasswordChanges
    <2> QED  BY <2>1, <2>2, <2>3, <2>4 DEF Cause
  <1>4. CASE Live(t)
    <2>1. ASSUME NEW r \in RefreshReqs, Rotate(r), req[r].presented = t
          PROVE  Cause(t)'
      BY <1>0, <2>1 DEF Rotate, Goto, Clients, Cause, SessionsInv, TypeOK
    <2>2. ASSUME NEW r \in LogoutReqs, LogoutRevoke(r), req[r].presented = t
          PROVE  Cause(t)'
      BY <1>0, <2>2 DEF LogoutRevoke, Goto, Clients, Cause, SessionsInv, TypeOK
    <2>3. ASSUME NEW r \in RefreshReqs, RevokeFamily(r), token[t].family = token[req[r].presented].family
          PROVE  Cause(t)'
      BY <1>2, <2>3 DEF RevokeFamily, Cause
    <2>4. ASSUME NEW r \in ResetReqs, ResetCommit(r), token[t].user = req[r].user
          PROVE  Cause(t)'
      <3>1. pc[r] = "commit" /\ password'[token[t].user] = r
        BY <1>2, <2>4 DEF ResetCommit, SessionsInv, TypeOK
      <3>2. token[t].under = password[token[t].user]
        BY <1>4 DEF SessionsInv, LiveUnderCurrentPassword
      <3>3. password[token[t].user] # r
        BY <1>2, <2>4, <3>1 DEF LossInv, PasswordsInv
      <3> QED  BY <1>2, <3>1, <3>2, <3>3 DEF Cause
    <2> QED  BY <1>4, <2>1, <2>2, <2>3, <2>4, RevokedBy
  <1> QED  BY <1>1, <1>3, <1>4 DEF Live

\* A session is lost only for a cause: the browser finds its token revoked while
\* a request that carries it is under way or died, after a reuse in the family,
\* or after a change of the password.
THEOREM SessionsEndForACause == Spec => []DeadCookieHasCause
  <1>1. Init => SessionsInv /\ LossInv
    <2> SUFFICES ASSUME Init
                 PROVE  SessionsInv /\ LossInv
      OBVIOUS
    <2>1. HeldInv /\ ClientsInv /\ PasswordsInv
      BY SessionsNull, SessionsOriginal
         DEF Init, HeldInv, ClientsInv, Clients, Requests, Tokens, PasswordsInv, NoRow
    <2>2. CausesInv
      BY DEF Init, CausesInv, NoRow
    <2> QED  BY <2>1, <2>2, InitCorrect DEF LossInv
  <1>2. SessionsInv /\ LossInv /\ [Next]_vars => (SessionsInv /\ LossInv)'
    <2> SUFFICES ASSUME SessionsInv, LossInv, [Next]_vars
                 PROVE  (SessionsInv /\ LossInv)'
      OBVIOUS
    <2>1. CASE Next
      BY <2>1, NextCorrect, HeldStep, ClientsStep, PasswordsStep, CausesStep DEF LossInv
    <2>2. CASE UNCHANGED vars
      BY <2>2, NextCorrect DEF vars, LossInv, HeldInv, ClientsInv, PasswordsInv, CausesInv, Cause
    <2> QED  BY <2>1, <2>2
  <1>3. SessionsInv /\ LossInv => DeadCookieHasCause
    <2> SUFFICES ASSUME SessionsInv, LossInv, NEW b \in Browsers, cookie[b] # NoToken, ~Live(cookie[b]),
                        NEW t, t = cookie[b]
                 PROVE  \/ \E r \in Requests : req[r].presented = t /\ (InFlight(r) \/ pc[r] = "failed")
                        \/ token[t].family \in reused
                        \/ token[t].under # password[token[t].user]
      BY DEF DeadCookieHasCause
    <2>1. t \in Tokens /\ token[t].state = "revoked"
      BY DEF SessionsInv, TypeOK, CookiesInv, Present, Live, Row
    <2>2. ASSUME NEW r \in Clients, req[r].presented = t, pc[r] \notin {"idle", "refused"}
          PROVE  r \in Requests /\ (InFlight(r) \/ pc[r] = "failed")
      BY <2>2 DEF LossInv, ClientsInv, InFlight, Clients, Requests, Tokens
    <2> QED  BY <2>1, <2>2 DEF LossInv, CausesInv, Cause
  <1> QED  BY <1>1, <1>2, <1>3, PTL DEF Spec

-----------------------------------------------------------------------------
(* What a password reset leaves of the sessions on record. *)

\* Refreshes read their token, replace it and insert its successor; other
\* requests insert a first token.
LEMMA RefreshProceeds ==
  ASSUME SessionsInv, Next, NEW r \in RefreshReqs, pc'[r] \in {"read", "rotate", "issue"}
  PROVE  \/ \E b \in Browsers : RefreshSend(r, b)
         \/ pc'[r] = pc[r]
         \/ RefreshRead(r) /\ pc'[r] = "rotate"
         \/ Rotate(r) /\ pc'[r] = "issue"
  <1> USE DEF SessionsInv, TypeOK, Goto
  <1>0. /\ r \in Requests /\ r \notin LoginReqs /\ r \notin DemoReqs /\ r \notin LogoutReqs
        /\ r \notin ForgotReqs /\ r \notin ResetReqs
    BY SessionsRequests DEF Requests, Tokens
  <1>1. CASE \E q \in LoginReqs :
               (\E u \in Users, b \in Browsers : LoginRead(q, u, b))
               \/ LoginCountFailure(q) \/ LoginAccept(q)
    BY <1>0, <1>1 DEF LoginRead, LoginCountFailure, LoginAccept, Arrive
  <1>2. CASE (\E u \in Users : Unlock(u)) \/ \E q \in DemoReqs, b \in Browsers : DemoRead(q, b)
    BY <1>0, <1>2 DEF Unlock, DemoRead, Arrive
  <1>3. CASE \E q \in RefreshReqs :
               (\E b \in Browsers : RefreshSend(q, b))
               \/ RefreshRead(q) \/ RevokeFamily(q) \/ Rotate(q)
    <2>1. PICK q \in RefreshReqs :
               (\E b \in Browsers : RefreshSend(q, b))
               \/ RefreshRead(q) \/ RevokeFamily(q) \/ Rotate(q)
      BY <1>3
    <2>2. CASE q = r
      BY <1>0, <2>1, <2>2 DEF RefreshRead, RevokeFamily, Rotate
    <2>3. CASE q # r
      BY <1>0, <2>1, <2>3 DEF RefreshSend, RefreshRead, RevokeFamily, Rotate, Arrive
    <2> QED  BY <2>2, <2>3
  <1>4. CASE \E q \in Tokens : Issue(q) \/ Respond(q)
    BY <1>0, <1>4 DEF Issue, Respond
  <1>5. CASE \E q \in LogoutReqs :
               (\E b \in Browsers : LogoutSend(q, b)) \/ LogoutRevoke(q) \/ LogoutClear(q)
    BY <1>0, <1>5 DEF LogoutSend, LogoutRevoke, LogoutClear, Arrive
  <1>6. CASE \E f \in ForgotReqs : (\E u \in Users : ForgotCreate(f, u)) \/ ForgotMail(f)
    BY <1>0, <1>6 DEF ForgotCreate, ForgotMail, Arrive
  <1>7. CASE \E q \in ResetReqs : (\E f \in ForgotReqs : ResetRead(q, f)) \/ ResetCommit(q)
    BY <1>0, <1>7 DEF ResetRead, ResetCommit, Arrive
  <1>8. CASE \E q \in Fallible : Abort(q)
    BY <1>0, <1>8 DEF Abort
  <1> QED  BY <1>1, <1>2, <1>3, <1>4, <1>5, <1>6, <1>7, <1>8 DEF Next

LEMMA StraddledStep ==
  ASSUME Next
  PROVE  /\ straddled \subseteq straddled'
         /\ \A r \in ResetReqs : ResetCommit(r) =>
               \A q \in Rotating(req[r].user) : <<q, r>> \in straddled'
  <1>1. straddled \subseteq straddled'
    BY DEF Next, history, LoginRead, LoginCountFailure, LoginAccept, Unlock, DemoRead, RefreshSend,
           RefreshRead, RevokeFamily, Rotate, Issue, Respond, LogoutSend, LogoutRevoke, LogoutClear,
           ForgotCreate, ForgotMail, ResetRead, ResetCommit, Abort
  <1> QED  BY <1>1 DEF ResetCommit

LEMMA OpenedPersists ==
  ASSUME SessionsInv, Next, NEW f \in Tokens, Present(f), NEW w, OpenedUnder(f, w)
  PROVE  \/ token'[f].under = w
         \/ \E s \in Tokens :
               <<s, w>> \in straddled' /\ token'[s].state # "absent" /\ token'[s].family = f
  BY RowsPersist, StraddledStep DEF OpenedUnder, Present

\* A refresh under way is for the user of the token it presented, and a first
\* token presents none.
LEMMA PresentedStep ==
  ASSUME SessionsInv, PresentedInv, Next
  PROVE  PresentedInv'
  <1>0. Tokens \subseteq Requests
    BY DEF Requests
  <1>1. ASSUME NEW r \in RefreshReqs, pc'[r] \in {"read", "rotate", "issue"}
        PROVE  Present(req[r].presented)' /\ token'[req'[r].presented].user = req'[r].user
    <2>0. r \in Requests
      BY <1>0 DEF Tokens
    <2>1. ASSUME NEW b \in Browsers, RefreshSend(r, b)
          PROVE  Present(req[r].presented)' /\ token'[req'[r].presented].user = req'[r].user
      <3>1. /\ req'[r].presented = cookie[b] /\ req'[r].user = token[cookie[b]].user
            /\ cookie[b] # NoToken
        BY <2>0, <2>1 DEF RefreshSend, Arrive, NoLocals, SessionsInv, TypeOK
      <3>2. Present(cookie[b]) /\ cookie[b] \in Tokens
        BY <3>1 DEF SessionsInv, CookiesInv, Present
      <3> QED  BY <3>1, <3>2, RowsPersist DEF Present
    <2>2. CASE pc[r] \in {"read", "rotate", "issue"}
      <3>1. req'[r] = req[r] /\ Present(req[r].presented) /\ token[req[r].presented].user = req[r].user
        BY <2>0, <2>2, RequestsKept DEF PresentedInv
      <3> QED  BY <3>1, RowsPersist DEF Present
    <2> QED  BY <1>1, <2>1, <2>2, RefreshProceeds DEF RefreshRead, Rotate
  <1>2. ASSUME NEW r \in LoginReqs \cup DemoReqs, pc'[r] = "issue"
        PROVE  req'[r].presented = NoToken
    <2> USE DEF SessionsInv, TypeOK, Goto
    <2>0. /\ r \in Requests /\ r \notin RefreshReqs /\ r \notin LogoutReqs
          /\ r \notin ForgotReqs /\ r \notin ResetReqs
      BY SessionsRequests DEF Requests, Tokens
    <2>1. CASE pc[r] = "issue"
      BY <2>0, <2>1, RequestsKept DEF PresentedInv
    <2>2. CASE pc[r] = "accept"
      BY <2>0, <2>2, RequestsKept DEF RequestsInv, RequestOK
    <2>3. ASSUME NEW b \in Browsers, r \in DemoReqs, DemoRead(r, b)
          PROVE  req'[r].presented = NoToken
      BY <2>0, <2>3 DEF DemoRead, Arrive
    <2>4. CASE pc[r] \notin {"issue", "accept"}
      <3>1. CASE \E q \in LoginReqs :
                   (\E u \in Users, b \in Browsers : LoginRead(q, u, b))
                   \/ LoginCountFailure(q) \/ LoginAccept(q)
        BY <1>2, <2>0, <2>4, <3>1 DEF LoginRead, LoginCountFailure, LoginAccept, Arrive
      <3>2. CASE (\E u \in Users : Unlock(u)) \/ \E q \in DemoReqs, b \in Browsers : DemoRead(q, b)
        BY <1>2, <2>0, <2>3, <2>4, <3>2 DEF Unlock, DemoRead, Arrive
      <3>3. CASE \E q \in RefreshReqs :
                   (\E b \in Browsers : RefreshSend(q, b))
                   \/ RefreshRead(q) \/ RevokeFamily(q) \/ Rotate(q)
        BY <1>2, <2>0, <2>4, <3>3 DEF RefreshSend, RefreshRead, RevokeFamily, Rotate, Arrive
      <3>4. CASE \E q \in Tokens : Issue(q) \/ Respond(q)
        BY <1>2, <2>0, <2>4, <3>4 DEF Issue, Respond
      <3>5. CASE \E q \in LogoutReqs :
                   (\E b \in Browsers : LogoutSend(q, b)) \/ LogoutRevoke(q) \/ LogoutClear(q)
        BY <1>2, <2>0, <2>4, <3>5 DEF LogoutSend, LogoutRevoke, LogoutClear, Arrive
      <3>6. CASE \E f \in ForgotReqs : (\E u \in Users : ForgotCreate(f, u)) \/ ForgotMail(f)
        BY <1>2, <2>0, <2>4, <3>6 DEF ForgotCreate, ForgotMail, Arrive
      <3>7. CASE \E q \in ResetReqs : (\E f \in ForgotReqs : ResetRead(q, f)) \/ ResetCommit(q)
        BY <1>2, <2>0, <2>4, <3>7 DEF ResetRead, ResetCommit, Arrive
      <3>8. CASE \E q \in Fallible : Abort(q)
        BY <1>2, <2>0, <2>4, <3>8 DEF Abort
      <3> QED  BY <3>1, <3>2, <3>3, <3>4, <3>5, <3>6, <3>7, <3>8 DEF Next
    <2> QED  BY <2>1, <2>2, <2>4
  <1> QED  BY <1>1, <1>2 DEF PresentedInv

\* What a refresh may insert under the password its user has by now.
LEMMA RotatingStep ==
  ASSUME SessionsInv, PresentedInv, RecordInv, Next, NEW r \in RefreshReqs,
         pc'[r] \in {"rotate", "issue"}
  PROVE  \/ OpenedUnder(token[req[r].presented].family, password[req[r].user])'
         \/ <<r, password[req[r].user]>>' \in straddled'
  <1> DEFINE p == req[r].presented
             u == req[r].user
  <1>0. r \in Requests
    BY DEF Requests, Tokens
  <1>1. pc'[r] # "read" /\ ~\E b \in Browsers : RefreshSend(r, b)
    BY <1>0 DEF RefreshSend, Arrive, Goto, SessionsInv, TypeOK
  <1>2. \/ pc'[r] = pc[r]
        \/ RefreshRead(r) /\ pc'[r] = "rotate"
        \/ Rotate(r) /\ pc'[r] = "issue"
    BY <1>1, RefreshProceeds
  <1>3. pc[r] \in {"read", "rotate", "issue"} /\ req'[r] = req[r]
    BY <1>0, <1>2, RequestsKept DEF RefreshRead, Rotate
  <1>4. p \in Tokens /\ Present(p) /\ token[p].user = u /\ u \in Users
        /\ token[p].family \in Tokens /\ Present(token[p].family) /\ token'[p].family = token[p].family
    <2>1. p \in Tokens /\ Present(p) /\ token[p].user = u
      BY <1>3 DEF PresentedInv, Present
    <2> QED  BY <2>1, RowsPersist DEF SessionsInv, RowsInv, RowOK, Present
  <1> DEFINE f == token[p].family
  <1>5. ASSUME OpenedUnder(f, password'[u])
        PROVE  OpenedUnder(token[req[r].presented].family, password[req[r].user])'
    <2> DEFINE w == password'[u]
    <2>1. \/ token'[f].under = w
          \/ \E s \in Tokens :
                <<s, w>> \in straddled' /\ token'[s].state # "absent" /\ token'[s].family = f
      BY <1>4, <1>5, OpenedPersists
    <2>2. token'[req'[r].presented].family = f /\ password'[req'[r].user] = w
      BY <1>3, <1>4
    <2> HIDE DEF w, f
    <2> QED  BY <2>1, <2>2 DEF OpenedUnder, Present
  <1>6. CASE pc[r] = "read"
    <2>1. RefreshRead(r) /\ password' = password
      BY <1>2, <1>6 DEF RefreshRead, Rotate, users
    <2>2. token[p].state # "revoked"
      BY <1>0, <1>1, <2>1 DEF RefreshRead, Goto, SessionsInv, TypeOK
    <2>3. Live(p)
      BY <1>4, <2>2 DEF Live, Present, SessionsInv, TypeOK, Row
    <2>4. token[p].under = password[u]
      BY <1>4, <2>3 DEF SessionsInv, LiveUnderCurrentPassword
    <2>5. OpenedUnder(f, password[u])
      BY <1>4, <2>4 DEF RecordInv
    <2> QED  BY <1>5, <2>1, <2>5
  <1>7. CASE pc[r] \in {"rotate", "issue"}
    <2>1. CASE password'[u] = password[u]
      <3>1. OpenedUnder(f, password[u]) \/ <<r, password[u]>> \in straddled
        BY <1>7 DEF RecordInv
      <3> QED  BY <1>3, <1>5, <2>1, <3>1, StraddledStep
    <2>2. CASE password'[u] # password[u]
      <3>1. PICK q \in ResetReqs : ResetCommit(q) /\ password'[u] = q /\ req[q].user = u
        BY <1>4, <2>2, PasswordChanges
      <3>2. r \in Rotating(u)
        BY <1>7 DEF Rotating
      <3> QED  BY <1>3, <3>1, <3>2, StraddledStep
    <2> QED  BY <2>1, <2>2
  <1> QED  BY <1>3, <1>6, <1>7

LEMMA RecordStep ==
  ASSUME SessionsInv, PresentedInv, RecordInv, Next
  PROVE  RecordInv'
  <1>1. ASSUME NEW t \in Tokens, Present(t)'
        PROVE  OpenedUnder(token[t].family, token[t].under)'
    <2>1. CASE Present(t)
      <3>1. /\ token'[t].family = token[t].family /\ token'[t].under = token[t].under
            /\ token[t].family \in Tokens /\ Present(token[t].family)
        BY <2>1, RowsPersist DEF SessionsInv, RowsInv, RowOK, Present
      <3>2. OpenedUnder(token[t].family, token[t].under)
        BY <2>1 DEF RecordInv
      <3> DEFINE f == token[t].family
                 w == token[t].under
      <3>3. \/ token'[f].under = w
            \/ \E s \in Tokens :
                  <<s, w>> \in straddled' /\ token'[s].state # "absent" /\ token'[s].family = f
        BY <3>1, <3>2, OpenedPersists
      <3>4. token'[t].family = f /\ token'[t].under = w
        BY <3>1
      <3> HIDE DEF f, w
      <3> QED  BY <3>3, <3>4 DEF OpenedUnder, Present
    <2>2. CASE ~Present(t)
      <3>1. Issue(t) /\ pc[t] = "issue" /\ token'[t] = NewRow(t)
        BY <1>1, <2>2, RowsPersist DEF Issue, SessionsInv, TypeOK
      <3>2. token'[t].under = password[req[t].user]
        BY <3>1, NewRowIsRow
      <3>3. CASE req[t].presented = NoToken
        BY <3>1, <3>3, NewRowIsRow DEF OpenedUnder
      <3>4. CASE req[t].presented # NoToken
        <4> DEFINE f == token[req[t].presented].family
        <4>1. t \in RefreshReqs
          BY <3>1, <3>4 DEF PresentedInv, Tokens
        <4>2. OpenedUnder(f, password[req[t].user]) \/ <<t, password[req[t].user]>> \in straddled
          BY <3>1, <4>1 DEF RecordInv
        <4>3. token'[t].family = f /\ Present(req[t].presented) /\ f \in Tokens /\ Present(f)
          BY <3>1, <3>4, NewRowIsRow DEF SessionsInv, RowsInv, RowOK, Present
        <4>4. CASE OpenedUnder(f, password[req[t].user])
          <5> DEFINE w == password[req[t].user]
          <5>1. \/ token'[f].under = w
                \/ \E s \in Tokens :
                      <<s, w>> \in straddled' /\ token'[s].state # "absent" /\ token'[s].family = f
            BY <4>3, <4>4, OpenedPersists
          <5>2. token'[t].family = f /\ token'[t].under = w
            BY <3>2, <4>3
          <5> HIDE DEF f, w
          <5> QED  BY <5>1, <5>2 DEF OpenedUnder, Present
        <4>5. CASE <<t, password[req[t].user]>> \in straddled
          BY <1>1, <3>2, <4>3, <4>5, StraddledStep DEF OpenedUnder
        <4> QED  BY <4>2, <4>4, <4>5
      <3> QED  BY <3>3, <3>4
    <2> QED  BY <2>1, <2>2
  <1>2. ASSUME NEW r \in RefreshReqs, pc'[r] \in {"rotate", "issue"}
        PROVE  \/ OpenedUnder(token[req[r].presented].family, password[req[r].user])'
               \/ <<r, password[req[r].user]>>' \in straddled'
    BY <1>2, RotatingStep
  <1> QED  BY <1>1, <1>2 DEF RecordInv

\* resetPassword revokes the sessions on record in the transaction that sets the
\* password.  A live token of a session opened under an earlier password is
\* there because a refresh of that session was between the read of its token
\* and the insert of the successor when that transaction committed.
THEOREM ResetsEndSessions == Spec => []SessionsOnRecordEnd
  <1>1. Init => PresentedInv /\ RecordInv
    BY SessionsNull DEF Init, PresentedInv, RecordInv, Requests, Tokens, Present, NoRow
  <1>2. SessionsInv /\ PresentedInv /\ RecordInv /\ [Next]_vars => (PresentedInv /\ RecordInv)'
    <2>1. CASE Next
      BY <2>1, PresentedStep, RecordStep
    <2>2. CASE UNCHANGED vars
      BY <2>2 DEF vars, PresentedInv, RecordInv, OpenedUnder, Present
    <2> QED  BY <2>1, <2>2
  <1>3. SessionsInv /\ RecordInv => SessionsOnRecordEnd
    <2> SUFFICES ASSUME SessionsInv, RecordInv, NEW t \in Tokens, Live(t)
                 PROVE  OpenedUnder(token[t].family, password[token[t].user])
      BY DEF SessionsOnRecordEnd, OpenedUnder
    <2>1. token[t].under = password[token[t].user] /\ Present(t)
      BY DEF SessionsInv, LiveUnderCurrentPassword, Live, Present
    <2> QED  BY <2>1 DEF RecordInv
  <1> QED  BY <1>1, <1>2, <1>3, SessionsCorrect, PTL DEF Spec

-----------------------------------------------------------------------------
(* Why an account is locked. *)

\* Logins are refused one at a time, and stay refused.
LEMMA RefusedStep ==
  ASSUME SessionsInv, Next, NEW u \in Users
  PROVE  \/ Refused(u)' = Refused(u) /\ ~\E r \in LoginReqs : LoginCountFailure(r) /\ req[r].user = u
         \/ \E r \in LoginReqs :
               /\ LoginCountFailure(r) /\ req[r].user = u
               /\ r \notin Refused(u) /\ Refused(u)' = Refused(u) \cup {r}
  <1>0. LoginReqs \subseteq Requests
    BY DEF Requests, Tokens
  <1>1. ASSUME NEW q \in LoginReqs, pc[q] # "refused", pc'[q] = "refused"
        PROVE  LoginCountFailure(q)
    <2> USE DEF SessionsInv, TypeOK, Goto
    <2>0. q \in Requests /\ q \notin RefreshReqs /\ q \notin LogoutReqs /\ q \notin ForgotReqs
          /\ q \notin ResetReqs /\ q \notin DemoReqs
      BY SessionsRequests DEF Requests, Tokens
    <2>1. CASE \E r \in LoginReqs :
                 (\E v \in Users, b \in Browsers : LoginRead(r, v, b))
                 \/ LoginCountFailure(r) \/ LoginAccept(r)
      BY <1>1, <2>0, <2>1 DEF LoginRead, LoginCountFailure, LoginAccept, Arrive
    <2>2. CASE (\E v \in Users : Unlock(v)) \/ \E r \in DemoReqs, b \in Browsers : DemoRead(r, b)
      BY <1>1, <2>0, <2>2 DEF Unlock, DemoRead, Arrive
    <2>3. CASE \E r \in RefreshReqs :
                 (\E b \in Browsers : RefreshSend(r, b))
                 \/ RefreshRead(r) \/ RevokeFamily(r) \/ Rotate(r)
      BY <1>1, <2>0, <2>3 DEF RefreshSend, RefreshRead, RevokeFamily, Rotate, Arrive
    <2>4. CASE \E r \in Tokens : Issue(r) \/ Respond(r)
      BY <1>1, <2>0, <2>4 DEF Issue, Respond
    <2>5. CASE \E r \in LogoutReqs :
                 (\E b \in Browsers : LogoutSend(r, b)) \/ LogoutRevoke(r) \/ LogoutClear(r)
      BY <1>1, <2>0, <2>5 DEF LogoutSend, LogoutRevoke, LogoutClear, Arrive
    <2>6. CASE \E f \in ForgotReqs : (\E v \in Users : ForgotCreate(f, v)) \/ ForgotMail(f)
      BY <1>1, <2>0, <2>6 DEF ForgotCreate, ForgotMail, Arrive
    <2>7. CASE \E r \in ResetReqs : (\E f \in ForgotReqs : ResetRead(r, f)) \/ ResetCommit(r)
      BY <1>1, <2>0, <2>7 DEF ResetRead, ResetCommit, Arrive
    <2>8. CASE \E r \in Fallible : Abort(r)
      BY <1>1, <2>0, <2>8 DEF Abort
    <2> QED  BY <2>1, <2>2, <2>3, <2>4, <2>5, <2>6, <2>7, <2>8 DEF Next
  <1>2. ASSUME NEW r \in LoginReqs, LoginCountFailure(r)
        PROVE  /\ pc[r] = "countFailure" /\ pc'[r] = "refused" /\ req' = req
               /\ \A q \in LoginReqs \ {r} : pc'[q] = pc[q]
    BY <1>0, <1>2 DEF LoginCountFailure, Goto, SessionsInv, TypeOK
  <1>3. Refused(u) \subseteq Refused(u)'
    BY <1>0, RequestsKept DEF Refused
  <1>4. ASSUME NEW q \in Refused(u)', q \notin Refused(u)
        PROVE  q \in LoginReqs /\ LoginCountFailure(q) /\ req[q].user = u
    <2>1. q \in LoginReqs /\ pc'[q] = "refused" /\ req'[q].user = u
      BY <1>4 DEF Refused
    <2>2. pc[q] # "refused"
      BY <1>0, <1>4, <2>1, RequestsKept DEF Refused
    <2> QED  BY <1>1, <1>2, <2>1, <2>2
  <1>5. CASE \E r \in LoginReqs : LoginCountFailure(r) /\ req[r].user = u
    <2>1. PICK r \in LoginReqs : LoginCountFailure(r) /\ req[r].user = u
      BY <1>5
    <2>2. r \notin Refused(u) /\ Refused(u)' = Refused(u) \cup {r}
      BY <1>2, <2>1 DEF Refused
    <2> QED  BY <2>1, <2>2
  <1>6. CASE ~\E r \in LoginReqs : LoginCountFailure(r) /\ req[r].user = u
    BY <1>3, <1>4, <1>6
  <1> QED  BY <1>5, <1>6

LEMMA RefusedGrows ==
  ASSUME SessionsInv, LockInv, Next, NEW u \in Users
  PROVE  /\ IsFiniteSet(Refused(u)') /\ Cardinality(Refused(u)') \in Nat
         /\ Cardinality(Refused(u)) \in Nat
         /\ Cardinality(Refused(u)) <= Cardinality(Refused(u)')
         /\ \A r \in LoginReqs : LoginCountFailure(r) /\ req[r].user = u =>
               Cardinality(Refused(u)') = Cardinality(Refused(u)) + 1
  <1>1. IsFiniteSet(Refused(u)) /\ Cardinality(Refused(u)) \in Nat
    BY FS_CardinalityType DEF LockInv
  <1>2. ASSUME NEW r \in LoginReqs, r \notin Refused(u), Refused(u)' = Refused(u) \cup {r}
        PROVE  /\ IsFiniteSet(Refused(u)') /\ Cardinality(Refused(u)') = Cardinality(Refused(u)) + 1
    BY <1>1, <1>2, FS_AddElement
  <1> QED  BY <1>1, <1>2, RefusedStep

\* What changes the count and the lock of an account.
LEMMA CountStep ==
  ASSUME SessionsInv, Next, NEW u \in Users
  PROVE  \/ failed'[u] = failed[u] /\ (locked'[u] => locked[u])
         \/ failed'[u] = 0 /\ ~locked'[u]
         \/ \E r \in LoginReqs :
               /\ LoginCountFailure(r) /\ req[r].user = u
               /\ failed'[u] = req[r].seenFailed + 1
               /\ locked'[u] => req[r].seenFailed + 1 >= MaxFailed
  <1> USE DEF SessionsInv, TypeOK
  <1>1. ASSUME UNCHANGED <<failed, locked>>
        PROVE  failed'[u] = failed[u] /\ (locked'[u] => locked[u])
    BY <1>1
  <1>2. ASSUME NEW r \in LoginReqs, LoginCountFailure(r)
        PROVE  \/ failed'[u] = failed[u] /\ (locked'[u] => locked[u])
               \/ /\ req[r].user = u /\ failed'[u] = req[r].seenFailed + 1
                  /\ locked'[u] => req[r].seenFailed + 1 >= MaxFailed
    <2> DEFINE count == req[r].seenFailed + 1
    <2>1. /\ failed' = [failed EXCEPT ![req[r].user] = count]
          /\ locked' = [locked EXCEPT ![req[r].user] = LocksOut(count)]
      BY <1>2 DEF LoginCountFailure
    <2>2. LocksOut(count) => count >= MaxFailed
      BY DEF LocksOut
    <2> HIDE DEF count
    <2>3. CASE req[r].user = u
      <3>1. failed'[u] = count /\ (locked'[u] => LocksOut(count))
        BY <2>1, <2>3, Zenon
      <3> QED  BY <2>2, <2>3, <3>1 DEF count
    <2>4. CASE req[r].user # u
      BY <2>1, <2>4, Zenon
    <2> QED  BY <2>3, <2>4
  <1>3. ASSUME NEW r \in LoginReqs, LoginAccept(r)
        PROVE  \/ failed'[u] = failed[u] /\ (locked'[u] => locked[u])
               \/ failed'[u] = 0 /\ ~locked'[u]
    BY <1>3 DEF LoginAccept
  <1>4. ASSUME NEW v \in Users, Unlock(v)
        PROVE  failed'[u] = failed[u] /\ (locked'[u] => locked[u])
    BY <1>4 DEF Unlock
  <1>5. \/ UNCHANGED <<failed, locked>>
        \/ \E r \in LoginReqs : LoginCountFailure(r) \/ LoginAccept(r)
        \/ \E v \in Users : Unlock(v)
    BY DEF Next, users, LoginRead, DemoRead, RefreshSend, RefreshRead, RevokeFamily, Rotate, Issue,
           Respond, LogoutSend, LogoutRevoke, LogoutClear, ForgotCreate, ForgotMail, ResetRead,
           ResetCommit, Abort
  <1> QED  BY <1>1, <1>2, <1>3, <1>4, <1>5

LEMMA LockStep ==
  ASSUME SessionsInv, LockInv, Next
  PROVE  LockInv'
  <1>0. LoginReqs \subseteq Requests
    BY DEF Requests, Tokens
  <1>1. \A u \in Users : failed[u] \in Nat /\ failed[u] <= Cardinality(Refused(u))
                          /\ (locked[u] => Cardinality(Refused(u)) >= MaxFailed)
    BY DEF LockInv, LockIsEarned, SessionsInv, TypeOK
  <1>2. MaxFailed \in Nat
    BY SessionsMaxFailed
  <1>3. ASSUME NEW r \in LoginReqs, NEW u \in Users, pc[r] = "countFailure", req[r].user = u
        PROVE  req[r].seenFailed \in Nat /\ req[r].seenFailed <= Cardinality(Refused(u))
    BY <1>0, <1>3 DEF LockInv, SessionsInv, TypeOK, Locals
  <1>4. ASSUME NEW u \in Users
        PROVE  /\ failed'[u] <= Cardinality(Refused(u)')
               /\ locked'[u] => Cardinality(Refused(u)') >= MaxFailed
    <2>1. CASE failed'[u] = failed[u] /\ (locked'[u] => locked[u])
      BY <1>1, <1>2, <2>1, RefusedGrows
    <2>2. CASE failed'[u] = 0 /\ ~locked'[u]
      BY <2>2, RefusedGrows
    <2>3. CASE \E r \in LoginReqs :
                 /\ LoginCountFailure(r) /\ req[r].user = u
                 /\ failed'[u] = req[r].seenFailed + 1
                 /\ locked'[u] => req[r].seenFailed + 1 >= MaxFailed
      <3>1. PICK r \in LoginReqs :
                 /\ LoginCountFailure(r) /\ req[r].user = u
                 /\ failed'[u] = req[r].seenFailed + 1
                 /\ locked'[u] => req[r].seenFailed + 1 >= MaxFailed
        BY <2>3
      <3>2. pc[r] = "countFailure"
        BY <3>1 DEF LoginCountFailure
      <3>3. Cardinality(Refused(u)') = Cardinality(Refused(u)) + 1 /\ Cardinality(Refused(u)) \in Nat
        BY <3>1, RefusedGrows
      <3> QED  BY <1>2, <1>3, <3>1, <3>2, <3>3
    <2> QED  BY <2>1, <2>2, <2>3, CountStep
  <1>5. \A u \in Users : /\ Cardinality(Refused(u)) <= Cardinality(Refused(u)')
                         /\ Cardinality(Refused(u)) \in Nat /\ Cardinality(Refused(u)') \in Nat
    BY RefusedGrows
  <1>6. ASSUME NEW r \in LoginReqs, NEW u \in Users, pc'[r] = "countFailure", req'[r].user = u
        PROVE  req'[r].seenFailed <= Cardinality(Refused(u)')
    <2>1. CASE pc[r] = "countFailure"
      <3>1. req'[r] = req[r]
        BY <1>0, <2>1, RequestsKept
      <3> QED  BY <1>3, <1>6, <1>5, <2>1, <3>1
    <2>2. CASE pc[r] # "countFailure"
      <3>1. PICK w \in Users, b \in Browsers : LoginRead(r, w, b)
        <4> USE DEF SessionsInv, TypeOK, Goto
        <4>0. /\ r \in Requests /\ r \notin RefreshReqs /\ r \notin LogoutReqs
              /\ r \notin ForgotReqs /\ r \notin ResetReqs /\ r \notin DemoReqs
          BY <1>0, SessionsRequests
        <4>1. ASSUME NEW q \in Requests,
                     \/ RefreshRead(q) \/ RevokeFamily(q) \/ Rotate(q) \/ LogoutRevoke(q) \/ LogoutClear(q)
                     \/ Issue(q) \/ Respond(q) \/ LoginCountFailure(q) \/ LoginAccept(q) \/ ForgotMail(q)
                     \/ ResetCommit(q) \/ Abort(q)
              PROVE  FALSE
          <5>1. pc'[r] = "countFailure" => (pc'[q] = "countFailure" /\ q = r) \/ pc'[r] = pc[r]
            BY <4>0, <4>1 DEF RefreshRead, RevokeFamily, Rotate, LogoutRevoke, LogoutClear, Issue,
                   Respond, LoginCountFailure, LoginAccept, ForgotMail, ResetCommit, Abort
          <5>2. pc'[q] # "countFailure"
            BY <4>1 DEF RefreshRead, RevokeFamily, Rotate, LogoutRevoke, LogoutClear, Issue,
                   Respond, LoginCountFailure, LoginAccept, ForgotMail, ResetCommit, Abort
          <5> QED  BY <1>6, <2>2, <5>1, <5>2
        <4>2. CASE (\E v \in Users : Unlock(v)) \/ \E q \in DemoReqs, b \in Browsers : DemoRead(q, b)
          BY <1>6, <2>2, <4>0, <4>2 DEF Unlock, DemoRead, Arrive
        <4>3. CASE \/ \E q \in RefreshReqs, b \in Browsers : RefreshSend(q, b)
                   \/ \E q \in LogoutReqs, b \in Browsers : LogoutSend(q, b)
          BY <1>6, <2>2, <4>0, <4>3 DEF RefreshSend, LogoutSend, Arrive
        <4>4. CASE \/ \E f \in ForgotReqs, v \in Users : ForgotCreate(f, v)
                   \/ \E q \in ResetReqs, f \in ForgotReqs : ResetRead(q, f)
          BY <1>6, <2>2, <4>0, <4>4 DEF ForgotCreate, ResetRead, Arrive
        <4>5. CASE \E q \in LoginReqs, v \in Users, b \in Browsers : LoginRead(q, v, b)
          BY <1>6, <2>2, <4>0, <4>5 DEF LoginRead, Arrive
        <4> QED
          BY <4>1, <4>2, <4>3, <4>4, <4>5, SessionsFallible DEF Next, Requests, Tokens
      <3>2. req'[r].user = w /\ req'[r].seenFailed = failed[w]
        BY <1>0, <3>1 DEF LoginRead, Arrive, SessionsInv, TypeOK
      <3> QED  BY <1>1, <1>6, <1>5, <3>2
    <2> QED  BY <2>1, <2>2
  <1>7. \A u \in Users : IsFiniteSet(Refused(u)')
    BY RefusedGrows
  <1>8. LockIsEarned'
    BY <1>4 DEF LockIsEarned
  <1> QED  BY <1>6, <1>7, <1>8 DEF LockInv

\* However the reads and writes of concurrent logins interleave, an account is
\* locked only after MaxFailed logins to it were refused.
THEOREM LocksAreEarned == Spec => []LockIsEarned
  <1>1. Init => LockInv
    <2> SUFFICES ASSUME Init
                 PROVE  LockInv
      OBVIOUS
    <2>1. \A u \in Users : Refused(u) = {}
      BY DEF Init, Refused, Requests, Tokens
    <2>2. \A u \in Users : IsFiniteSet(Refused(u)) /\ Cardinality(Refused(u)) = 0
      BY <2>1, FS_EmptySet
    <2>3. \A u \in Users : failed[u] = 0 /\ ~locked[u]
      BY DEF Init
    <2>4. \A r \in LoginReqs : pc[r] # "countFailure"
      BY DEF Init, Requests, Tokens
    <2> QED  BY <2>2, <2>3, <2>4 DEF LockInv, LockIsEarned
  <1>2. SessionsInv /\ LockInv /\ [Next]_vars => LockInv'
    <2> SUFFICES ASSUME SessionsInv, LockInv, [Next]_vars
                 PROVE  LockInv'
      OBVIOUS
    <2>1. CASE Next
      BY <2>1, LockStep
    <2>2. CASE UNCHANGED vars
      <3>1. \A u : Refused(u)' = Refused(u)
        BY <2>2 DEF vars, Refused
      <3> QED  BY <2>2, <3>1 DEF vars, LockInv, LockIsEarned
    <2> QED  BY <2>1, <2>2
  <1>3. LockInv => LockIsEarned
    BY DEF LockInv
  <1> QED  BY <1>1, <1>2, <1>3, SessionsCorrect, PTL DEF Spec

=============================================================================
