\* One account, two tabs, two calls from the same tab or from different ones,
\* two requests at once at the server, three refresh tokens, one login, logout,
\* reset, revocation from another device, lost answer or crash.  No symmetry: it is unsound for liveness.
CONSTANTS
    Users = {u1}
    Tokens = {t1, t2, t3}
    Procs = {p1, p2}
    MaxTabs = 2
    MaxCalls = 2
    NoUser = NoUser
    NoToken = NoToken
    NoProc = NoProc
    Lifetime = 1
    MaxTime = 0
    MaxEvents = 1
SPECIFICATION FairClientSpec
CHECK_DEADLOCK FALSE
INVARIANT NoSessionLostToReuse
PROPERTY CallsSettle
PROPERTY RevokedPurged
