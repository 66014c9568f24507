\* A refresh in flight across a password reset or logout-all.
CONSTANTS
    Users = {u1}
    Tokens = {t1, t2, t3}
    Procs = {p1, p2}
    NoUser = NoUser
    NoToken = NoToken
    Lifetime = 1
    MaxTime = 1
SPECIFICATION ClaimSpec
INVARIANT ExistingSessionsInvalidated
