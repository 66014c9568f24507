---------------------------- MODULE RateLimiter ----------------------------
(***************************************************************************)
(* RateLimitingMiddleware of app/middleware.py over its two backends: the  *)
(* dictionary of one process and the counters in Redis.  A request is      *)
(* counted for its IP address and then for the user its access token       *)
(* names, or on the auth routes for the e-mail address in its body.        *)
(* Counters are per tier and minute; the minute is the one in which the    *)
(* request arrived, read before any await.  Tiers share no counter: a      *)
(* behaviour is about one of them, auth or another.                        *)
(***************************************************************************)
EXTENDS Naturals, FiniteSets

CONSTANTS
    MaxRequests,     \* bound on the requests
    Addresses,       \* client IPs
    Subjects,        \* users and e-mail addresses
    NoSubject,       \* anonymous, or a body without an address
    RateLimit,       \* requests per minute of a tier
    TicksPerMinute,
    MaxTime,         \* bound on the clock
    MaxFaults        \* bound on failing Redis commands

ASSUME RateAssumption ==
    /\ MaxRequests \in Nat /\ MaxTime \in Nat /\ MaxFaults \in Nat
    /\ NoSubject \notin Addresses \cup Subjects /\ Addresses \cap Subjects = {}
    /\ RateLimit \in Nat \ {0} /\ TicksPerMinute \in Nat \ {0}

VARIABLES
    backend,  \* "memory" or "redis", chosen at start-up
    tier,     \* the tier of the requests: "auth" or "llm" (general is the same)
    now,      \* time in ticks
    minute,   \* InMemoryRateLimiter._current_minute
    hits,     \* hits[k]: the counter of key k, 0 if there is none
    expires,  \* expires[k]: when Redis drops key k, 0 if it has no TTL
    pending,  \* pending[r]: how far dispatch has come for request r
    faults

rateVars == <<backend, tier, now, minute, hits, expires, pending, faults>>

Requests == 1 .. MaxRequests
Minutes == 0 .. MaxTime \div TicksPerMinute
Counters == (Addresses \cup Subjects) \X Minutes

Minute(t) == t \div TicksPerMinute
PassageStages == {"new", "ip", "ipExpire", "subject", "subjectExpire", "passed", "refused"}

\* count: what INCR returned; by: whose counter refused it; open, late: history,
\* a check failed open or took place after the request's minute.
Passage == [stage : PassageStages,
            ip : Addresses \cup {NoSubject}, subject : Subjects \cup {NoSubject},
            minute : Minutes, count : 0 .. MaxRequests,
            by : Addresses \cup Subjects \cup {NoSubject}, open : BOOLEAN, late : BOOLEAN]

RateTypeOK ==
    /\ backend \in {"memory", "redis"} /\ tier \in {"auth", "llm"}
    /\ now \in 0 .. MaxTime
    /\ minute \in Minutes
    /\ hits \in [Counters -> 0 .. MaxRequests]
    /\ expires \in [Counters -> 0 .. MaxTime + TicksPerMinute]
    /\ pending \in [Requests -> Passage]
    /\ faults \in 0 .. MaxFaults
    /\ backend = "memory" => \A k \in Counters : hits[k] <= RateLimit

RateInit ==
    /\ backend \in {"memory", "redis"} /\ tier \in {"auth", "llm"}
    /\ now = 0 /\ minute = 0
    /\ hits = [k \in Counters |-> 0]
    /\ expires = [k \in Counters |-> 0]
    /\ pending = [r \in Requests |->
          [stage |-> "new", ip |-> NoSubject, subject |-> NoSubject, minute |-> 0,
           count |-> 0, by |-> NoSubject, open |-> FALSE, late |-> FALSE]]
    /\ faults = 0

Reached(r, stage) == pending[r].stage = stage

\* No await suspends these: the dictionary is consulted at once, except after
\* the body of a request to an auth route has been read.
Immediate(r) ==
    /\ backend = "memory"
    /\ Reached(r, "ip") \/ (Reached(r, "subject") /\ tier # "auth")
Turn(r) == \A q \in Requests \ {r} : ~Immediate(q)

\* Whose counter the request is at, and its key.
Who(r) == IF pending[r].stage \in {"ip", "ipExpire"} THEN pending[r].ip ELSE pending[r].subject

Key(r) == <<Who(r), pending[r].minute>>

\* Requests are numbered as they arrive.
Arrive(r) ==
    /\ Reached(r, "new") /\ \A q \in Requests : q < r => ~Reached(q, "new")
    /\ Turn(r)
    /\ \E ip \in Addresses, subject \in Subjects \cup {NoSubject} :
          pending' = [pending EXCEPT ![r].stage = "ip", ![r].ip = ip, ![r].subject = subject,
                             ![r].minute = Minute(now)]
    /\ UNCHANGED <<backend, tier, now, minute, hits, expires, faults>>

\* The answer of check_and_increment: on to the next counter, the handler, or 429.
Verdict(r, allowed, open) ==
    pending' = [pending EXCEPT ![r].stage =
                IF ~allowed THEN "refused"
                ELSE IF pending[r].stage \in {"ip", "ipExpire"} /\ pending[r].subject # NoSubject
                THEN "subject" ELSE "passed",
              ![r].by = IF allowed THEN @ ELSE Who(r),
              ![r].count = 0,
              ![r].open = @ \/ open,
              ![r].late = @ \/ Minute(now) # pending[r].minute]

Checking(r) == pending[r].stage \in {"ip", "subject"} /\ Turn(r)

\* Variant: the minute of the request, not that of the check.
CheckInMemoryAsArrived(r) ==
    /\ backend = "memory" /\ Checking(r)
    /\ LET known == IF minute = pending[r].minute THEN hits ELSE [k \in Counters |-> 0]
           allowed == known[Key(r)] < RateLimit IN
       /\ hits' = IF allowed THEN [known EXCEPT ![Key(r)] = @ + 1] ELSE known
       /\ Verdict(r, allowed, FALSE)
    /\ minute' = pending[r].minute
    /\ UNCHANGED <<backend, tier, now, expires, faults>>

\* InMemoryRateLimiter: the first call of a minute forgets all keys.
CheckInMemory(r) ==
    /\ backend = "memory" /\ Checking(r)
    /\ LET known == IF minute = Minute(now) THEN hits ELSE [k \in Counters |-> 0]
           allowed == known[Key(r)] < RateLimit IN
       /\ hits' = IF allowed THEN [known EXCEPT ![Key(r)] = @ + 1] ELSE known
       /\ Verdict(r, allowed, FALSE)
    /\ minute' = Minute(now)
    /\ UNCHANGED <<backend, tier, now, expires, faults>>

\* RedisRateLimiter: INCR, which counts refused requests too.
Incr(r) ==
    /\ backend = "redis" /\ Checking(r)
    /\ LET count == hits[Key(r)] + 1 IN
       /\ hits' = [hits EXCEPT ![Key(r)] = count]
       /\ IF count = 1
          THEN pending' = [pending EXCEPT ![r].stage = IF @ = "ip" THEN "ipExpire" ELSE "subjectExpire",
                                  ![r].count = count]
          ELSE Verdict(r, count <= RateLimit, FALSE)
    /\ UNCHANGED <<backend, tier, now, minute, expires, faults>>

Expiring(r) == pending[r].stage \in {"ipExpire", "subjectExpire"}

\* EXPIRE of the first request of a window; nothing happens if the key is gone.
SetExpiry(r) ==
    /\ Expiring(r)
    /\ expires' = [expires EXCEPT ![Key(r)] = IF hits[Key(r)] = 0 THEN 0 ELSE now + TicksPerMinute]
    /\ Verdict(r, pending[r].count <= RateLimit, FALSE)
    /\ UNCHANGED <<backend, tier, now, minute, hits, faults>>

\* A command fails, having been executed or not: the request is allowed.
RedisError(r) ==
    /\ backend = "redis" /\ (Checking(r) \/ Expiring(r))
    /\ faults < MaxFaults /\ faults' = faults + 1
    /\ \/ UNCHANGED hits
       \/ Checking(r) /\ hits' = [hits EXCEPT ![Key(r)] = @ + 1]
    /\ Verdict(r, TRUE, TRUE)
    /\ UNCHANGED <<backend, tier, now, minute, expires>>

\* Time passes; Redis drops the keys whose TTL is over.
RateTick ==
    /\ now < MaxTime
    /\ \A r \in Requests : ~Immediate(r)
    /\ now' = now + 1
    /\ hits' = [k \in Counters |-> IF expires[k] = now' THEN 0 ELSE hits[k]]
    /\ expires' = [k \in Counters |-> IF expires[k] = now' THEN 0 ELSE expires[k]]
    /\ UNCHANGED <<backend, tier, minute, pending, faults>>

RateNext ==
    \/ \E r \in Requests :
          Arrive(r) \/ CheckInMemory(r) \/ Incr(r) \/ SetExpiry(r) \/ RedisError(r)
    \/ RateTick

RateSpec == RateInit /\ [][RateNext]_rateVars

-----------------------------------------------------------------------------
(* Properties.                                                             *)

Arrived == {r \in Requests : ~Reached(r, "new")}

\* Requests of w (an address, a user, an e-mail address) in one minute.
Of(w, m) == {r \in Arrived : w \in {pending[r].ip, pending[r].subject} /\ pending[r].minute = m}

\* Within the limit: in each minute at most RateLimit requests of an address, and
\* of a subject over all addresses, get through, except those let through by a
\* failing Redis or checked when their minute was over (a body that comes slowly).
WithinLimit ==
    \A w \in Addresses \cup Subjects, m \in Minutes :
        Cardinality({r \in Of(w, m) :
            Reached(r, "passed") /\ ~pending[r].open /\ ~pending[r].late}) <= RateLimit

\* Only over the limit: a request is refused only if RateLimit others of the same
\* address, or subject, were there in the same minute, never for the sake of other
\* minutes (counters left without a TTL by a lost EXPIRE do no harm) or clients.
OnlyOverLimit ==
    \A r \in Requests : Reached(r, "refused") =>
        Cardinality(Of(pending[r].by, pending[r].minute) \ {r}) >= RateLimit

\* Both: nobody gets more requests through in a minute than the limit, and nobody
\* is refused below it.
LimitIsExact == WithinLimit /\ OnlyOverLimit
=============================================================================
