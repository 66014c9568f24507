\* Limiter: three requests from two addresses, one of them perhaps with a user or an
\* e-mail address, one request per minute, two minutes, one failing Redis command.
\* CSRF: three calls, six requests.  Quota: a verified and an unverified user, two
\* requests at once, every endpoint, two days, a limit of three: with overlaps at
\* most 9 requests are served in a day.  Summarizer: two requests at once, chunks of five
\* words.  Extractive: every text of four sentences with binary scores, two clusters.
\* API keys: an owner, two keys, two requests at once, a process that starts twice.
CONSTANTS
    Users = {u1, u2}
    Verified = {u1}
    Procs = {p1, p2}
    NoUser = NoUser
    Endpoints = {"chat", "study", "summarize"}
    Limit = 3
    MaxDay = 2
    MaxServed = 10
    MaxRequests = 3
    Addresses = {a1, a2}
    Subjects = {s1}
    NoSubject = NoSubject
    RateLimit = 1
    TicksPerMinute = 1
    MaxTime = 1
    MaxFaults = 1
    MaxCalls = 3
    Texts <- TheTexts
    Modes = {"paragraph"}
    Tasks = {k1, k2}
    MinWords = 3
    MaxWords = 12
    ChunkLimit = 5
    Sentences = 4
    Lengths = {1, 2}
    Scale = 1
    Clusters = 2
    Targets = {2, 4}
    Counts = {2}
    SentenceLimit = 12
    MaxSentences = 40
    Handlers = {h1, h2}
    AuditEvents <- TheEvents
    NoEvent = NoEvent
    MaxStarts = 2
    Owners = {o1}
    Secrets = {k1, k2}
    NoOwner = NoOwner
    NoSecret = NoSecret
SPECIFICATION ServicesSpec
SYMMETRY Symmetry
CHECK_DEADLOCK FALSE
INVARIANT LimitIsExact
INVARIANT OwnPagesPass
INVARIANT ServedWithinLimit
INVARIANT OvershootBound
INVARIANT FullIsWhole
INVARIANT SelectionIsSound
INVARIANT DeadKeysOpenNothing
INVARIANT AuditTrail
PROPERTY ChargedOnItsDay
