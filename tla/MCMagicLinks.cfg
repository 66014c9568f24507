\* Two addresses and two requests at once.  Two links: one presented twice at once,
\* both for one new account, a registration in between.  Or one link and two
\* identities of one provider: an identity that comes back with another address,
\* two identities for one account.
CONSTANTS
    Emails = {e1, e2}
    Links = {l1, l2}
    Procs = {p1, p2}
    NoEmail = NoEmail
    NoLink = NoLink
    Providers = {google}
    Subjects = {s1, s2}
    NoIdentity = NoIdentity
    LinkLifetime = 1
    MaxTime = 3
    SocialTime = 1
SPECIFICATION MCSpec
SYMMETRY Symmetry
INVARIANT SpentOnceInTime
INVARIANT SessionsAreEarned
INVARIANT VerifiedIsVouched
