\* Two accounts, three tokens, two requests at once: rotation chains, logins and
\* erasure of either account, GC and expiry (a token is accepted up to and
\* including its last instant, then the clock passes it).
CONSTANTS
    Users = {u1, u2}
    Tokens = {t1, t2, t3}
    Procs = {p1, p2}
    NoUser = NoUser
    NoToken = NoToken
    Lifetime = 0
    MaxTime = 1
SPECIFICATION Spec
SYMMETRY Symmetry
INVARIANT TypeOK
INVARIANT FamilyHasOneOwner
PROPERTY ErasedSessionsFrozen
PROPERTY UsableUntilRevoked
PROPERTY ImplementsSessionStore
