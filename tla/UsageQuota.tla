----------------------------- MODULE UsageQuota -----------------------------
(***************************************************************************)
(* The daily quota of app/rbac.py as the LLM endpoints use it.  A request  *)
(* loads its user, checks and increments the loaded copy, and the value    *)
(* reaches the table only if the endpoint commits later on: POST /chat     *)
(* commits before it asks the model, flashcards and synthesis after the    *)
(* model answered, /summarize never.  Anonymous callers are users without  *)
(* a verified address: neither is counted.                                 *)
(***************************************************************************)
EXTENDS Naturals, FiniteSets, Combinatorics

CONSTANTS
    Users,
    Verified,     \* users with is_verified
    Procs,        \* requests in flight at the same time
    NoUser,
    Endpoints,    \* subset of {"chat", "study", "summarize"}
    Limit,        \* summarizations_per_day of the plan
    MaxDay,       \* bound on the calendar
    MaxServed     \* bound on the requests counted in a day

ASSUME QuotaAssumption ==
    /\ Verified \subseteq Users /\ NoUser \notin Users
    /\ Endpoints \subseteq {"chat", "study", "summarize"}
    /\ Limit \in Nat \ {0} /\ MaxDay \in Nat \ {0} /\ MaxServed \in Nat
    /\ IsFiniteSet(Procs)

VARIABLES
    usage,     \* usage[u]: usage_today in the table
    resetDay,  \* resetDay[u]: the day of usage_reset_at, 0 for NULL
    req,       \* req[p]: the request in slot p with its copy of the user
    day,       \* today (UTC)
    served,    \* history: today's counted requests of u that were charged or answered
    seen       \* history: seen[u]: what u's requests did that weakens the count

vars == <<usage, resetDay, req, day, served, seen>>

\* Two requests in flight at once, a request in flight at midnight, a request
\* to the endpoint that never commits.
Circumstances == {"overlap", "midnight", "summarize"}

Days == 1 .. MaxDay
Steps == {"idle", "commit", "model", "commitLast"}

\* What the session's User object holds: the usage_today it was loaded with and
\* the one it has now, and whether usage_reset_at was set when the request was
\* let through, on day since.
Request == [step : Steps, user : Users \cup {NoUser}, endpoint : Endpoints \cup {"none"},
            loaded : Nat, usage : Nat, fresh : BOOLEAN, since : Nat]

Idle == [step |-> "idle", user |-> NoUser, endpoint |-> "none",
         loaded |-> 0, usage |-> 0, fresh |-> FALSE, since |-> 0]

TypeOK ==
    /\ usage \in [Users -> 0 .. Limit]
    /\ resetDay \in [Users -> 0 .. day]
    /\ req \in [Procs -> Request]
    /\ day \in Days
    /\ served \in [Users -> Nat]
    /\ seen \in [Users -> SUBSET Circumstances]

Init ==
    /\ usage = [u \in Users |-> 0]
    /\ resetDay = [u \in Users |-> 0]
    /\ req = [p \in Procs |-> Idle]
    /\ day = 1
    /\ served = [u \in Users |-> 0]
    /\ seen = [u \in Users |-> {}]

At(p, step) == req[p].step = step
Finish(p) == req' = [req EXCEPT ![p] = Idle]
GoTo(p, step) == req' = [req EXCEPT ![p].step = step]

FirstStep(k) == IF k = "chat" THEN "commit" ELSE "model"

-----------------------------------------------------------------------------
(* rbac.py                                                                 *)

_is_new_day(u) == resetDay[u] < day

\* What the session's copy of usage_today is after the reset and before the
\* increment.
UsedToday(u) == IF _is_new_day(u) THEN 0 ELSE usage[u]

\* What letting a request of u through to endpoint k adds to the history.
Admission(u, k) ==
    (IF \E q \in Procs : req[q].user = u THEN {"overlap"} ELSE {}) \cup ({k} \cap Circumstances)

\* Variant: the limit itself is let through.
CheckOffByOne(p, u, k) ==
    /\ At(p, "idle")
    /\ u \in Verified
    /\ UsedToday(u) <= Limit
    /\ req' = [req EXCEPT ![p] =
                 [step |-> FirstStep(k), user |-> u, endpoint |-> k, loaded |-> usage[u],
                  usage |-> UsedToday(u) + 1,
                  fresh |-> _is_new_day(u), since |-> day]]
    /\ seen' = [seen EXCEPT ![u] = seen[u] \cup Admission(u, k)]
    /\ UNCHANGED <<usage, resetDay, day, served>>

\* The user is loaded, checked and incremented without an await in between; at
\* the limit the request ends ...
_check_and_increment_usage(p, u, k) ==
    /\ At(p, "idle")
    /\ u \in Verified
    /\ UsedToday(u) < Limit
    /\ req' = [req EXCEPT ![p] =
                 [step |-> FirstStep(k), user |-> u, endpoint |-> k, loaded |-> usage[u],
                  usage |-> UsedToday(u) + 1,
                  fresh |-> _is_new_day(u), since |-> day]]
    /\ seen' = [seen EXCEPT ![u] = seen[u] \cup Admission(u, k)]
    /\ UNCHANGED <<usage, resetDay, day, served>>

\* ... with 429 at the limit.
Refuse(p, u) ==
    /\ At(p, "idle")
    /\ u \in Verified
    /\ UsedToday(u) >= Limit
    /\ UNCHANGED vars

\* enforce_optional_usage_limit hands an unverified user on as it is.
PassUncounted(p, u, k) ==
    /\ At(p, "idle")
    /\ u \in Users \ Verified
    /\ req' = [req EXCEPT ![p] =
                 [step |-> FirstStep(k), user |-> u, endpoint |-> k, loaded |-> usage[u],
                  usage |-> usage[u], fresh |-> FALSE, since |-> day]]
    /\ UNCHANGED <<usage, resetDay, day, served, seen>>

-----------------------------------------------------------------------------
(* The endpoints.                                                          *)

Serve(p) ==
    LET u == req[p].user IN
    served' = IF u \in Verified /\ req[p].since = day
              THEN [served EXCEPT ![u] = @ + 1] ELSE served

NotFull(p) == req[p].user \in Verified => served[req[p].user] < MaxServed

\* Variant: the counter is written on the first request of a day only.
CommitOnlyOnReset(p) ==
    /\ At(p, "commit") \/ At(p, "commitLast")
    /\ NotFull(p)
    /\ LET u == req[p].user IN
       /\ usage' = IF req[p].fresh
                   THEN [usage EXCEPT ![u] = req[p].usage] ELSE usage
       /\ resetDay' = IF req[p].fresh
                      THEN [resetDay EXCEPT ![u] = req[p].since] ELSE resetDay
    /\ Serve(p)
    /\ IF At(p, "commit") THEN GoTo(p, "model") ELSE Finish(p)
    /\ UNCHANGED <<day, seen>>

\* Variant: usage_reset_at is not written.
CommitKeepsDay(p) ==
    /\ At(p, "commit") \/ At(p, "commitLast")
    /\ NotFull(p)
    /\ LET u == req[p].user IN
       /\ usage' = IF req[p].usage # req[p].loaded
                   THEN [usage EXCEPT ![u] = req[p].usage] ELSE usage
       /\ UNCHANGED resetDay
    /\ Serve(p)
    /\ IF At(p, "commit") THEN GoTo(p, "model") ELSE Finish(p)
    /\ UNCHANGED <<day, seen>>

\* The session's commit: the columns of User that differ from what was loaded
\* are written, over whatever another session committed since.
Commit(p) ==
    /\ At(p, "commit") \/ At(p, "commitLast")
    /\ NotFull(p)
    /\ LET u == req[p].user IN
       /\ usage' = IF req[p].usage # req[p].loaded
                   THEN [usage EXCEPT ![u] = req[p].usage] ELSE usage
       /\ resetDay' = IF req[p].fresh
                      THEN [resetDay EXCEPT ![u] = req[p].since] ELSE resetDay
    /\ Serve(p)
    /\ IF At(p, "commit") THEN GoTo(p, "model") ELSE Finish(p)
    /\ UNCHANGED <<day, seen>>

\* The model answers.  Chat and study then store their results.
CallModel(p) ==
    /\ At(p, "model")
    /\ CASE req[p].endpoint = "chat" -> Finish(p) /\ UNCHANGED served
         [] req[p].endpoint = "study" -> GoTo(p, "commitLast") /\ UNCHANGED served
         [] req[p].endpoint = "summarize" -> NotFull(p) /\ Finish(p) /\ Serve(p)
    /\ UNCHANGED <<usage, resetDay, day, seen>>

\* The model or the database fails, or the client goes away: the session is
\* rolled back, what it committed stays.
Abort(p) ==
    /\ ~At(p, "idle")
    /\ Finish(p)
    /\ UNCHANGED <<usage, resetDay, day, served, seen>>

NewDay ==
    /\ day < MaxDay
    /\ day' = day + 1
    /\ served' = [u \in Users |-> 0]
    /\ seen' = [u \in Users |-> IF \E p \in Procs : req[p].user = u
                               THEN seen[u] \cup {"midnight"} ELSE seen[u]]
    /\ UNCHANGED <<usage, resetDay, req>>

Next ==
    \/ \E p \in Procs, u \in Users, k \in Endpoints :
          _check_and_increment_usage(p, u, k) \/ PassUncounted(p, u, k)
    \/ \E p \in Procs, u \in Users : Refuse(p, u)
    \/ \E p \in Procs : Commit(p) \/ CallModel(p) \/ Abort(p)
    \/ NewDay

Spec == Init /\ [][Next]_vars

-----------------------------------------------------------------------------
(* Properties.                                                             *)

\* rbac.py:94 "Raises HTTPException 429 if the daily limit is exceeded": no
\* more counted requests than the plan allows are served in a day.
DailyLimitHolds == \A u \in Users : served[u] <= Limit

\* The limit holds for a user who sends one request at a time to endpoints that
\* commit, whatever fails and whenever the day changes.
ServedWithinLimit ==
    \A u \in Users : seen[u] \cap {"overlap", "summarize"} = {} => served[u] <= Limit

\* Requests of one user that overlap lose updates of the counter, but not
\* without bound: a value v can be charged again only by a request that was
\* let through when the counter stood at v - 1, so within one day N overlapping
\* slots serve at most C(Limit + N, N) - 1 requests (and can serve as many).
OvershootBound ==
    LET N == Cardinality(Procs) IN
    \A u \in Users : seen[u] \subseteq {"overlap"} => served[u] < choose(Limit + N, N)

\* rbac.py:15 "The counter resets automatically when a new day is detected":
\* without overlaps a request is charged to the day it was let through on,
\* never to a later one.
ChargedOnItsDay ==
    [][\A p \in Procs :
         LET u == req[p].user IN
         req'[p] # req[p] /\ u \in Users /\ "overlap" \notin seen[u] /\ usage'[u] # usage[u]
             => resetDay'[u] = req[p].since]_vars
=============================================================================
