\* One user; logins, refreshes, a logout and a reset overlap, and any may die.
SPECIFICATION Spec
CONSTANTS
    Users = {u1}
    Admins = {}
    Browsers = {b1}
    LoginReqs = {login1, login2}
    DemoReqs = {demo1}
    RefreshReqs = {refresh1, refresh2}
    LogoutReqs = {logout1}
    ForgotReqs = {forgot1}
    ResetReqs = {reset1}
    Fallible = {refresh1, refresh2, logout1}
    MaxFailed = 2
    Original = Original
    NoToken = NoToken
    NoUser = NoUser
    NoBrowser = NoBrowser
SYMMETRY SessionSymmetry
CHECK_DEADLOCK FALSE
INVARIANTS
    TypeOK
    OneLivePerFamily
    SessionsOnRecordEnd
    LockIsEarned
    DeadCookieHasCause
