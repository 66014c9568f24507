-------------------------- MODULE Services_proofs --------------------------
(***************************************************************************)
(* Proofs about the stages of a request behind the CORS layer: the daily   *)
(* quota, the double-submit check, the rate limiter and the API keys, and  *)
(* the summarizer with its cache, for any number of users, days, calls and *)
(* requests, every limit and every text.                                   *)
(* The lemmas about recursive functions are those of Extractive_proofs.    *)
(***************************************************************************)
EXTENDS UsageQuota, RateLimiter, Csrf, ApiKeys, Summarizer, Extractive_proofs

-----------------------------------------------------------------------------
(***************************************************************************)
(* The daily quota: what is charged and served when the requests of a user *)
(* do not overlap.                                                         *)
(***************************************************************************)

\* A copy loaded by _check_and_increment_usage holds a count that is within
\* the limit; one handed on uncounted is not changed.
RequestOK(r) ==
    /\ r \in Request
    /\ r.step # "idle" => r.user \in Users /\ r.endpoint \in {"chat", "study", "summarize"}
    /\ r.step = "commit" => r.endpoint = "chat"
    /\ r.since <= day
    /\ r.user \in Users =>
         IF r.user \in Verified
         THEN /\ r.usage \in 1 .. Limit
              /\ r.usage = (IF r.fresh THEN 1 ELSE r.loaded + 1)
         ELSE r.usage = r.loaded /\ ~r.fresh

TablesOK ==
    /\ usage \in [Users -> 0 .. Limit]
    /\ resetDay \in [Users -> 0 .. day]
    /\ req \in [Procs -> Request] /\ \A p \in Procs : RequestOK(req[p])
    /\ day \in Days
    /\ served \in [Users -> Nat]
    /\ seen \in [Users -> SUBSET Circumstances]

\* The copy has not been written yet, and may be.
Pending(r) ==
    \/ r.step \in {"commit", "commitLast"}
    \/ r.step = "model" /\ r.endpoint # "chat"

\* What the copy was loaded from is still in the table.
Current(r) ==
    /\ usage[r.user] = r.loaded
    /\ IF r.fresh THEN resetDay[r.user] < r.since ELSE resetDay[r.user] = r.since

\* Without an overlap a user has one request, and its copy stays current until
\* it is written.
AloneOK(u) ==
    "overlap" \notin seen[u] =>
        /\ \A p, q \in Procs : req[p].user = u /\ req[q].user = u => p = q
        /\ \A p \in Procs : req[p].user = u /\ Pending(req[p]) => Current(req[p])

\* What was served today has been counted today.
CountedOK(u) ==
    seen[u] \cap {"overlap", "summarize"} = {} => served[u] <= UsedToday(u)

\* A request to the endpoint that never commits is on record.
Noted(r) == r.endpoint = "summarize" /\ r.user \in Verified => "summarize" \in seen[r.user]

QuotaIInv ==
    /\ TablesOK
    /\ \A p \in Procs : Noted(req[p])
    /\ \A u \in Verified : AloneOK(u) /\ CountedOK(u)
    /\ \A u \in Users \ Verified : served[u] = 0

LEMMA IdleOK == day \in Days => RequestOK(Idle) /\ ~Pending(Idle)
  BY QuotaAssumption DEF RequestOK, Idle, Request, Pending, Steps, Days

LEMMA QuotaInitIInv == Init => QuotaIInv
<1> SUFFICES ASSUME Init PROVE QuotaIInv
  OBVIOUS
<1>1. day \in Days
  BY QuotaAssumption DEF Init, Days
<1>2. TablesOK
  <2>1. RequestOK(Idle) /\ Idle \in Request
    BY <1>1, IdleOK DEF RequestOK
  <2>2. /\ usage \in [Users -> 0 .. Limit] /\ resetDay \in [Users -> 0 .. day]
        /\ served \in [Users -> Nat] /\ seen \in [Users -> SUBSET Circumstances]
    BY <1>1, QuotaAssumption DEF Init, Days
  <2>3. QED
    BY <1>1, <2>1, <2>2 DEF Init, TablesOK
<1>3. ASSUME NEW u \in Verified PROVE AloneOK(u) /\ CountedOK(u)
  <2>1. u \in Users /\ u # NoUser
    BY QuotaAssumption
  <2>2. \A p \in Procs : req[p].user # u
    BY <2>1 DEF Init, Idle
  <2>3. served[u] <= UsedToday(u)
    BY <2>1, <1>1 DEF Init, UsedToday, _is_new_day, Days
  <2>4. QED
    BY <2>2, <2>3 DEF AloneOK, CountedOK
<1>4. \A p \in Procs : Noted(req[p])
  BY DEF Init, Idle, Noted
<1>5. QED
  BY <1>2, <1>3, <1>4 DEF QuotaIInv, Init

\* A step of slot p that writes no table.  What is served here is on record.
LEMMA SlotStep ==
  ASSUME QuotaIInv, NEW p \in Procs, NEW r,
         req' = [req EXCEPT ![p] = r],
         UNCHANGED <<usage, resetDay, day, seen>>,
         RequestOK(r),
         r.user \in {req[p].user, NoUser}, r.endpoint \in {req[p].endpoint, "none"},
         Pending(r) => /\ Pending(req[p])
                       /\ r.loaded = req[p].loaded /\ r.fresh = req[p].fresh
                       /\ r.since = req[p].since /\ r.user = req[p].user,
         \/ served' = served
         \/ /\ req[p].user \in Verified /\ req[p].endpoint = "summarize"
            /\ served' = [served EXCEPT ![req[p].user] = @ + 1]
  PROVE  QuotaIInv'
<1> USE DEF QuotaIInv
<1>1. /\ req'[p] = r /\ \A q \in Procs \ {p} : req'[q] = req[q]
      /\ r \in Request /\ req' \in [Procs -> Request]
  BY DEF TablesOK, RequestOK
<1>2. /\ served' \in [Users -> Nat]
      /\ \A v \in Users : served'[v] # served[v] => v \in Verified /\ "summarize" \in seen[v]
  BY QuotaAssumption DEF TablesOK, Noted
<1>3. TablesOK'
  <2>1. \A q \in Procs : RequestOK(req[q])'
    BY <1>1 DEF TablesOK, RequestOK
  <2>2. QED
    BY <1>1, <1>2, <2>1 DEF TablesOK
<1>4. ASSUME NEW u \in Verified PROVE AloneOK(u)'
  <2> SUFFICES ASSUME "overlap" \notin seen[u] PROVE
        /\ \A a, b \in Procs : req'[a].user = u /\ req'[b].user = u => a = b
        /\ \A a \in Procs : req'[a].user = u /\ Pending(req'[a]) => Current(req'[a])
    BY DEF AloneOK, Current
  <2>1. u # NoUser
    BY QuotaAssumption
  <2>2. \A a \in Procs : req'[a].user = u => req[a].user = u
    BY <1>1, <2>1
  <2>3. ASSUME NEW a \in Procs, req'[a].user = u, Pending(req'[a]) PROVE Current(req'[a])
    <3>1. Pending(req[a]) /\ req[a].user = u
      BY <1>1, <2>2, <2>3
    <3>2. Current(req[a])
      BY <3>1 DEF AloneOK
    <3>3. QED
      BY <1>1, <2>3, <3>2 DEF Current
  <2>4. QED
    BY <2>2, <2>3 DEF AloneOK
<1>5. ASSUME NEW u \in Verified PROVE CountedOK(u)'
  BY <1>2, QuotaAssumption DEF CountedOK, UsedToday, _is_new_day
<1>6. \A q \in Procs : Noted(req[q])'
  <2> SUFFICES ASSUME NEW q \in Procs, req'[q].endpoint = "summarize", req'[q].user \in Verified
               PROVE  "summarize" \in seen[req'[q].user]
    BY DEF Noted
  <2>1. req[q].endpoint = "summarize" /\ req[q].user = req'[q].user
    BY <1>1, QuotaAssumption
  <2>2. QED
    BY <2>1 DEF Noted
<1>7. \A u \in Users \ Verified : served'[u] = 0
  BY <1>2
<1>8. QED
  BY <1>3, <1>4, <1>5, <1>6, <1>7

LEMMA FinishStep ==
  ASSUME QuotaIInv, NEW p \in Procs, Finish(p), UNCHANGED <<usage, resetDay, day, seen>>,
         \/ served' = served
         \/ /\ req[p].user \in Verified /\ req[p].endpoint = "summarize"
            /\ served' = [served EXCEPT ![req[p].user] = @ + 1]
  PROVE  QuotaIInv'
<1>1. RequestOK(Idle) /\ ~Pending(Idle) /\ Idle.user = NoUser /\ Idle.endpoint = "none"
  BY IdleOK DEF QuotaIInv, TablesOK, Idle
<1>2. QED
  BY <1>1, SlotStep DEF Finish

\* The history that admitting a request leaves.
LEMMA AdmissionOK ==
  ASSUME QuotaIInv, NEW u \in Users, NEW k \in Endpoints,
         seen' = [seen EXCEPT ![u] = seen[u] \cup Admission(u, k)]
  PROVE  /\ seen' \in [Users -> SUBSET Circumstances]
         /\ \A v \in Users : seen[v] \subseteq seen'[v]
         /\ "overlap" \notin seen'[u] => \A q \in Procs : req[q].user # u
         /\ k = "summarize" => k \in seen'[u]
<1>1. Admission(u, k) \subseteq Circumstances
  BY DEF Admission, Circumstances
<1>2. (\E q \in Procs : req[q].user = u) => "overlap" \in Admission(u, k)
  BY DEF Admission
<1>3. k = "summarize" => k \in Admission(u, k)
  BY DEF Admission, Circumstances
<1>4. QED
  BY <1>1, <1>2, <1>3 DEF QuotaIInv, TablesOK

\* A request is let through: its copy is current when nobody else has one.
LEMMA CheckStep ==
  ASSUME QuotaIInv, NEW p \in Procs, NEW u \in Users, NEW k \in Endpoints,
         _check_and_increment_usage(p, u, k)
  PROVE  QuotaIInv'
<1> USE DEF QuotaIInv
<1> DEFINE r == [step |-> FirstStep(k), user |-> u, endpoint |-> k, loaded |-> usage[u],
                 usage |-> UsedToday(u) + 1, fresh |-> _is_new_day(u), since |-> day]
<1>1. /\ u \in Verified /\ UsedToday(u) < Limit /\ req' = [req EXCEPT ![p] = r]
      /\ seen' = [seen EXCEPT ![u] = seen[u] \cup Admission(u, k)]
      /\ UNCHANGED <<usage, resetDay, day, served>>
  BY DEF _check_and_increment_usage
<1>2. /\ usage[u] \in 0 .. Limit /\ resetDay[u] \in 0 .. day /\ day \in Nat /\ Limit \in Nat
      /\ k \in {"chat", "study", "summarize"}
  BY QuotaAssumption DEF TablesOK, Days
<1>3. /\ FirstStep(k) \in {"commit", "model"} /\ UsedToday(u) + 1 \in 1 .. Limit
      /\ _is_new_day(u) \in BOOLEAN /\ (FirstStep(k) = "commit" => k = "chat")
  BY <1>1, <1>2 DEF FirstStep, UsedToday, _is_new_day
<1>4. RequestOK(r) /\ r \in Request /\ r.user = u /\ Current(r)
  <2>1. /\ r.step = FirstStep(k) /\ r.user = u /\ r.endpoint = k /\ r.loaded = usage[u]
        /\ r.usage = UsedToday(u) + 1 /\ r.since = day /\ r.fresh = _is_new_day(u)
    BY <1>3
  <2>2. r \in Request
    BY <1>2, <1>3 DEF Request, Steps
  <2> HIDE DEF r
  <2>3. CASE r.fresh
    <3>1. resetDay[u] < day
      BY <2>1, <2>3, Zenon DEF _is_new_day
    <3>2. UsedToday(u) = 0
      BY <3>1 DEF UsedToday, _is_new_day
    <3>3. RequestOK(r)
      BY <1>1, <1>2, <1>3, <2>1, <2>2, <2>3, <3>2 DEF RequestOK
    <3>4. Current(r)
      BY <1>2, <2>1, <2>3, <3>1 DEF Current
    <3>5. QED
      BY <2>1, <2>2, <3>3, <3>4
  <2>4. CASE ~r.fresh
    <3>1. ~(resetDay[u] < day)
      BY <2>1, <2>4, Zenon DEF _is_new_day
    <3>2. UsedToday(u) = usage[u]
      BY <3>1 DEF UsedToday, _is_new_day
    <3>3. RequestOK(r)
      BY <1>1, <1>2, <1>3, <2>1, <2>2, <2>4, <3>2 DEF RequestOK
    <3>4. Current(r)
      BY <1>2, <2>1, <2>4, <3>1 DEF Current
    <3>5. QED
      BY <2>1, <2>2, <3>3, <3>4
  <2>5. QED
    BY <2>3, <2>4
<1> HIDE DEF r
<1>5. /\ req'[p] = r /\ \A q \in Procs \ {p} : req'[q] = req[q]
      /\ req' \in [Procs -> Request]
  BY <1>1, <1>4 DEF TablesOK
<1>6. /\ seen' \in [Users -> SUBSET Circumstances]
      /\ \A v \in Users : seen[v] \subseteq seen'[v]
      /\ "overlap" \notin seen'[u] => \A q \in Procs : req[q].user # u
      /\ k = "summarize" => k \in seen'[u]
  BY <1>1, AdmissionOK
<1>7. TablesOK'
  <2>1. \A q \in Procs : RequestOK(req[q])'
    BY <1>1, <1>4, <1>5 DEF TablesOK, RequestOK
  <2>2. QED
    BY <1>1, <1>5, <1>6, <2>1 DEF TablesOK
<1>8. ASSUME NEW v \in Verified PROVE AloneOK(v)'
  <2> SUFFICES ASSUME "overlap" \notin seen'[v] PROVE
        /\ \A a, b \in Procs : req'[a].user = v /\ req'[b].user = v => a = b
        /\ \A a \in Procs : req'[a].user = v /\ Pending(req'[a]) => Current(req'[a])
    BY <1>1 DEF AloneOK, Current
  <2>0. v \in Users
    BY QuotaAssumption
  <2>1. CASE v = u
    BY <1>4, <1>5, <1>6, <2>1
  <2>2. CASE v # u
    <3>1. "overlap" \notin seen[v]
      BY <1>6, <2>0
    <3>2. \A a \in Procs : req'[a].user = v => a # p /\ req'[a] = req[a]
      BY <1>4, <1>5, <2>2
    <3>3. QED
      BY <3>1, <3>2 DEF AloneOK
  <2>3. QED
    BY <2>1, <2>2
<1>9. ASSUME NEW v \in Verified PROVE CountedOK(v)'
  <2>1. v \in Users
    BY QuotaAssumption
  <2>2. seen[v] \subseteq seen'[v]
    BY <1>6, <2>1
  <2>3. QED
    BY <1>1, <2>2 DEF CountedOK, UsedToday, _is_new_day
<1>10. \A q \in Procs : Noted(req[q])'
  <2>1. r.endpoint = k
    BY DEF r
  <2>2. QED
    BY <1>4, <1>5, <1>6, <2>1, QuotaAssumption DEF Noted
<1>11. QED
  BY <1>1, <1>7, <1>8, <1>9, <1>10

\* An unverified user's request concerns no verified user.
LEMMA PassStep ==
  ASSUME QuotaIInv, NEW p \in Procs, NEW u \in Users, NEW k \in Endpoints,
         PassUncounted(p, u, k)
  PROVE  QuotaIInv'
<1> USE DEF QuotaIInv
<1> DEFINE r == [step |-> FirstStep(k), user |-> u, endpoint |-> k, loaded |-> usage[u],
                 usage |-> usage[u], fresh |-> FALSE, since |-> day]
<1>1. /\ u \notin Verified /\ req' = [req EXCEPT ![p] = r]
      /\ UNCHANGED <<usage, resetDay, day, served, seen>>
  BY DEF PassUncounted
<1>2. /\ usage[u] \in 0 .. Limit /\ day \in Nat /\ Limit \in Nat
      /\ k \in {"chat", "study", "summarize"}
  BY QuotaAssumption DEF TablesOK, Days
<1>3. RequestOK(r) /\ r \in Request /\ r.user = u
  BY <1>1, <1>2 DEF RequestOK, Request, FirstStep, Steps
<1> HIDE DEF r
<1>4. /\ req'[p] = r /\ \A q \in Procs \ {p} : req'[q] = req[q]
      /\ req' \in [Procs -> Request]
  BY <1>1, <1>3 DEF TablesOK
<1>5. TablesOK'
  <2>1. \A q \in Procs : RequestOK(req[q])'
    BY <1>1, <1>3, <1>4 DEF TablesOK, RequestOK
  <2>2. QED
    BY <1>1, <1>4, <2>1 DEF TablesOK
<1>6. ASSUME NEW v \in Verified PROVE AloneOK(v)'
  <2>1. \A a \in Procs : req'[a].user = v => a # p /\ req'[a] = req[a]
    BY <1>1, <1>3, <1>4
  <2> SUFFICES ASSUME "overlap" \notin seen[v] PROVE
        /\ \A a, b \in Procs : req'[a].user = v /\ req'[b].user = v => a = b
        /\ \A a \in Procs : req'[a].user = v /\ Pending(req'[a]) => Current(req'[a])
    BY <1>1 DEF AloneOK, Current
  <2>2. QED
    BY <2>1 DEF AloneOK
<1>7. ASSUME NEW v \in Verified PROVE CountedOK(v)'
  BY <1>1 DEF CountedOK, UsedToday, _is_new_day
<1>8. \A q \in Procs : Noted(req[q])'
  BY <1>1, <1>3, <1>4 DEF Noted
<1>9. QED
  BY <1>1, <1>5, <1>6, <1>7, <1>8

\* A copy is written, and served: the count it was loaded with was still there,
\* so the new one counts this request too.
LEMMA CommitStep ==
  ASSUME QuotaIInv, NEW p \in Procs, Commit(p)
  PROVE  QuotaIInv'
<1> USE DEF QuotaIInv
<1> DEFINE old == req[p]
           u == old.user
           new == IF old.step = "commit" THEN [old EXCEPT !.step = "model"] ELSE Idle
<1>1. /\ old.step \in {"commit", "commitLast"}
      /\ usage' = IF old.usage # old.loaded THEN [usage EXCEPT ![u] = old.usage] ELSE usage
      /\ resetDay' = IF old.fresh THEN [resetDay EXCEPT ![u] = old.since] ELSE resetDay
      /\ served' = IF u \in Verified /\ old.since = day
                   THEN [served EXCEPT ![u] = @ + 1] ELSE served
      /\ req' = [req EXCEPT ![p] = new] /\ UNCHANGED <<day, seen>>
  BY DEF Commit, At, Serve, GoTo, Finish
<1>2. /\ old \in Request /\ RequestOK(old) /\ u \in Users
      /\ old.usage \in Nat /\ old.loaded \in Nat /\ old.since \in Nat
      /\ old.fresh \in BOOLEAN
  BY <1>1 DEF TablesOK, RequestOK, Request
<1>3. /\ usage \in [Users -> 0 .. Limit] /\ resetDay \in [Users -> 0 .. day]
      /\ served \in [Users -> Nat] /\ day \in Nat /\ Limit \in Nat
  BY QuotaAssumption DEF TablesOK, Days
<1>4. RequestOK(new) /\ new.user \in {u, NoUser} /\ ~Pending(new)
  <2>1. CASE old.step = "commit"
    BY <1>1, <1>2, <2>1 DEF RequestOK, Request, Pending, Steps
  <2>2. CASE old.step # "commit"
    BY <2>2, IdleOK DEF TablesOK, Idle
  <2>3. QED
    BY <2>1, <2>2
<1>5. u \notin Verified => old.usage = old.loaded /\ ~old.fresh
  BY <1>2 DEF RequestOK
<1>6. u \in Verified => old.usage \in 1 .. Limit /\ old.usage = (IF old.fresh THEN 1 ELSE old.loaded + 1)
  BY <1>2 DEF RequestOK
<1>7. old.since <= day
  BY <1>2 DEF RequestOK
<1>8. u \in Verified /\ "overlap" \notin seen[u] =>
         /\ \A q \in Procs : req[q].user = u => q = p
         /\ usage[u] = old.loaded
         /\ IF old.fresh THEN resetDay[u] < old.since ELSE resetDay[u] = old.since
  BY <1>1 DEF AloneOK, Pending, Current
<1> HIDE DEF new, old, u
<1>9. /\ req'[p] = new /\ \A q \in Procs \ {p} : req'[q] = req[q]
      /\ req' \in [Procs -> Request]
  BY <1>1, <1>4 DEF TablesOK, RequestOK
<1>10. /\ usage' \in [Users -> 0 .. Limit] /\ resetDay' \in [Users -> 0 .. day]
       /\ served' \in [Users -> Nat]
       /\ \A v \in Users \ {u} : usage'[v] = usage[v] /\ resetDay'[v] = resetDay[v]
                                 /\ served'[v] = served[v]
  <2>1. usage' \in [Users -> 0 .. Limit] /\ \A v \in Users \ {u} : usage'[v] = usage[v]
    BY <1>1, <1>2, <1>3, <1>5, <1>6
  <2>2. /\ resetDay' \in [Users -> 0 .. day]
        /\ \A v \in Users \ {u} : resetDay'[v] = resetDay[v]
    BY <1>1, <1>2, <1>3, <1>7
  <2>3. served' \in [Users -> Nat] /\ \A v \in Users \ {u} : served'[v] = served[v]
    BY <1>1, <1>2, <1>3
  <2>4. QED
    BY <2>1, <2>2, <2>3
<1>11. TablesOK'
  <2>1. \A q \in Procs : RequestOK(req[q])'
    BY <1>1, <1>4, <1>9 DEF TablesOK, RequestOK
  <2>2. QED
    BY <1>1, <1>9, <1>10, <2>1 DEF TablesOK
<1>12. ASSUME NEW v \in Verified PROVE AloneOK(v)'
  <2>1. v \in Users /\ v # NoUser
    BY QuotaAssumption
  <2> SUFFICES ASSUME "overlap" \notin seen[v] PROVE
        /\ \A a, b \in Procs : req'[a].user = v /\ req'[b].user = v => a = b
        /\ \A a \in Procs : req'[a].user = v /\ Pending(req'[a]) => Current(req[a])'
    BY <1>1 DEF AloneOK, Current
  <2>2. \A a \in Procs : req'[a].user = v => req[a].user = v
    BY <1>4, <1>9, <2>1 DEF u, old
  <2>3. \A a \in Procs : Pending(req'[a]) => a # p /\ req'[a] = req[a]
    BY <1>4, <1>9
  <2>4. ASSUME NEW a \in Procs, req'[a].user = v, Pending(req'[a]) PROVE Current(req[a])'
    <3>1. a # p /\ req'[a] = req[a] /\ req[a].user = v
      BY <2>2, <2>3, <2>4
    <3>2. v # u
      BY <1>8, <3>1
    <3>3. Current(req[a])
      BY <2>4, <3>1 DEF AloneOK
    <3>4. QED
      BY <1>10, <2>1, <3>1, <3>2, <3>3 DEF Current
  <2>5. QED
    BY <2>2, <2>4 DEF AloneOK
<1>13. ASSUME NEW v \in Verified PROVE CountedOK(v)'
  <2>1. v \in Users
    BY QuotaAssumption
  <2>2. CASE v # u
    BY <1>1, <1>10, <2>1, <2>2 DEF CountedOK, UsedToday, _is_new_day
  <2>3. CASE v = u
    <3> SUFFICES ASSUME seen[v] \cap {"overlap", "summarize"} = {}
                 PROVE  served'[v] <= UsedToday(v)'
      BY <1>1 DEF CountedOK
    <3>1. served[u] <= (IF resetDay[u] < day THEN 0 ELSE usage[u])
      BY <2>3 DEF CountedOK, UsedToday, _is_new_day
    <3>2. /\ usage[u] = old.loaded
          /\ IF old.fresh THEN resetDay[u] < old.since ELSE resetDay[u] = old.since
      BY <1>8, <2>3
    <3>3. old.usage \in 1 .. Limit /\ old.usage = (IF old.fresh THEN 1 ELSE old.loaded + 1)
      BY <1>6, <2>3
    <3>4. usage'[u] = old.usage
      BY <1>1, <1>2, <1>3, <3>2
    <3>5. resetDay'[u] = old.since
      BY <1>1, <1>2, <1>3, <3>2
    <3>6. served'[u] = IF old.since = day THEN served[u] + 1 ELSE served[u]
      BY <1>1, <1>2, <1>3, <2>3
    <3>7. /\ served[u] \in Nat /\ usage[u] \in Nat /\ resetDay[u] \in Nat
      BY <1>2, <1>3
    <3>8. served'[u] <= IF old.since < day THEN 0 ELSE old.usage
      BY <1>2, <1>3, <1>7, <3>1, <3>2, <3>3, <3>6, <3>7
    <3>9. QED
      BY <1>1, <2>3, <3>4, <3>5, <3>8 DEF UsedToday, _is_new_day
  <2>4. QED
    BY <2>2, <2>3
<1>14. \A v \in Users \ Verified : served'[v] = 0
  BY <1>1, <1>3
<1>15. \A q \in Procs : Noted(req[q])'
  <2>1. new.user \in Verified => new.endpoint = old.endpoint
    BY QuotaAssumption DEF new, Request, Idle
  <2>2. QED
    BY <1>1, <1>4, <1>9, <2>1, QuotaAssumption DEF Noted, old, u
<1>16. QED
  BY <1>11, <1>12, <1>13, <1>14, <1>15

\* The model answers; only a request to /summarize is served here.
LEMMA CallModelStep ==
  ASSUME QuotaIInv, NEW p \in Procs, CallModel(p)
  PROVE  QuotaIInv'
<1> USE DEF QuotaIInv
<1> DEFINE old == req[p]
<1>1. /\ old.step = "model" /\ old.user \in Users /\ RequestOK(old) /\ old \in Request
      /\ old.endpoint \in {"chat", "study", "summarize"}
      /\ UNCHANGED <<usage, resetDay, day, seen>>
  BY DEF CallModel, At, TablesOK, RequestOK
<1>2. CASE old.endpoint = "chat"
  BY <1>1, <1>2, FinishStep DEF CallModel
<1>3. CASE old.endpoint = "study"
  <2> DEFINE new == [old EXCEPT !.step = "commitLast"]
  <2>1. req' = [req EXCEPT ![p] = new] /\ served' = served
    BY <1>1, <1>3 DEF CallModel, GoTo
  <2>2. /\ RequestOK(new) /\ Pending(old) /\ new.endpoint = old.endpoint
        /\ new.loaded = old.loaded /\ new.fresh = old.fresh
        /\ new.since = old.since /\ new.user = old.user
    BY <1>1, <1>3 DEF RequestOK, Request, Pending, Steps
  <2> HIDE DEF new
  <2>3. QED
    BY <1>1, <2>1, <2>2, SlotStep
<1>4. CASE old.endpoint = "summarize"
  <2>1. Finish(p) /\ Serve(p)
    BY <1>1, <1>4 DEF CallModel
  <2>2. QED
    BY <1>1, <1>4, <2>1, FinishStep DEF Serve
<1>5. QED
  BY <1>1, <1>2, <1>3, <1>4

\* At midnight nothing has been served of the new day.
LEMMA NewDayStep ==
  ASSUME QuotaIInv, NewDay
  PROVE  QuotaIInv'
<1> USE DEF QuotaIInv
<1>1. /\ day' = day + 1 /\ day \in Nat /\ day' \in Days
      /\ served' = [u \in Users |-> 0] /\ UNCHANGED <<usage, resetDay, req>>
  BY QuotaAssumption DEF NewDay, TablesOK, Days
<1>2. /\ seen' \in [Users -> SUBSET Circumstances]
      /\ \A u \in Users : seen[u] \subseteq seen'[u]
  BY DEF NewDay, TablesOK, Circumstances
<1>3. TablesOK'
  <2>1. \A q \in Procs : RequestOK(req[q])'
    BY <1>1 DEF TablesOK, RequestOK, Request
  <2>2. resetDay' \in [Users -> 0 .. day']
    BY <1>1 DEF TablesOK
  <2>3. QED
    BY <1>1, <1>2, <2>1, <2>2 DEF TablesOK
<1>4. ASSUME NEW u \in Verified PROVE AloneOK(u)' /\ CountedOK(u)'
  <2>1. u \in Users /\ seen[u] \subseteq seen'[u]
    BY <1>2, QuotaAssumption
  <2>2. AloneOK(u)'
    BY <1>1, <2>1 DEF AloneOK, Current
  <2>3. served'[u] = 0 /\ usage'[u] \in Nat
    BY <1>1, <2>1, QuotaAssumption DEF TablesOK
  <2>4. CountedOK(u)'
    BY <2>3 DEF CountedOK, UsedToday, _is_new_day
  <2>5. QED
    BY <2>2, <2>4
<1>5. \A q \in Procs : Noted(req[q])'
  BY <1>1, <1>2, QuotaAssumption DEF Noted
<1>6. QED
  BY <1>1, <1>3, <1>4, <1>5

LEMMA QuotaNextIInv == QuotaIInv /\ [Next]_vars => QuotaIInv'
<1> SUFFICES ASSUME QuotaIInv, [Next]_vars PROVE QuotaIInv'
  OBVIOUS
<1>1. ASSUME NEW p \in Procs, NEW u \in Users, NEW k \in Endpoints,
             _check_and_increment_usage(p, u, k) \/ PassUncounted(p, u, k)
      PROVE  QuotaIInv'
  BY <1>1, CheckStep, PassStep
<1>2. CASE UNCHANGED vars
  BY <1>2 DEF vars, QuotaIInv, TablesOK, RequestOK, AloneOK, Current, CountedOK, UsedToday,
              _is_new_day, Noted
<1>3. ASSUME NEW p \in Procs, Commit(p) \/ CallModel(p) \/ Abort(p) PROVE QuotaIInv'
  BY <1>3, CommitStep, CallModelStep, FinishStep DEF Abort
<1>4. CASE NewDay
  BY <1>4, NewDayStep
<1>5. ASSUME NEW p \in Procs, NEW u \in Users, Refuse(p, u) PROVE QuotaIInv'
  BY <1>2, <1>5 DEF Refuse
<1>6. QED
  BY <1>1, <1>2, <1>3, <1>4, <1>5 DEF Next

\* The invariant the theorems rest on.
THEOREM QuotaInductive == Spec => []QuotaIInv
<1>1. QED
  BY QuotaInitIInv, QuotaNextIInv, PTL DEF Spec

\* The counter in the table never exceeds the limit.
THEOREM QuotaTypeCorrect == Spec => []TypeOK
<1>1. QuotaIInv => TypeOK
  BY DEF QuotaIInv, TablesOK, TypeOK
<1>2. QED
  BY QuotaInductive, <1>1, PTL

\* A user who sends one request at a time to endpoints that commit gets no more
\* than the plan allows, whatever fails and whenever the day changes.
THEOREM QuotaWithinLimit == Spec => []ServedWithinLimit
<1>1. QuotaIInv => ServedWithinLimit
  <2> SUFFICES ASSUME QuotaIInv, NEW u \in Users, seen[u] \cap {"overlap", "summarize"} = {}
               PROVE  served[u] <= Limit
    BY DEF ServedWithinLimit
  <2>1. Limit \in Nat /\ usage[u] \in 0 .. Limit
    BY QuotaAssumption DEF QuotaIInv, TablesOK
  <2>2. CASE u \in Verified
    <3>1. served[u] <= UsedToday(u) /\ served[u] \in Nat
      BY <2>2 DEF QuotaIInv, CountedOK, TablesOK
    <3>2. QED
      BY <2>1, <3>1 DEF UsedToday
  <2>3. CASE u \notin Verified
    BY <2>1, <2>3 DEF QuotaIInv
  <2>4. QED
    BY <2>2, <2>3
<1>2. QED
  BY QuotaInductive, <1>1, PTL

\* A request that does not overlap another is charged to the day it was let
\* through on, even if midnight passes before the commit.
THEOREM OnItsDay == Spec => ChargedOnItsDay
<1> DEFINE Charged == \A p \in Procs :
         LET u == req[p].user IN
         req'[p] # req[p] /\ u \in Users /\ "overlap" \notin seen[u] /\ usage'[u] # usage[u]
             => resetDay'[u] = req[p].since
<1>1. QuotaIInv /\ [Next]_vars => [Charged]_vars
  <2> SUFFICES ASSUME QuotaIInv, Next, NEW p \in Procs, NEW u, u = req[p].user,
                      req'[p] # req[p], u \in Users, "overlap" \notin seen[u],
                      usage'[u] # usage[u]
               PROVE  resetDay'[u] = req[p].since
    BY DEF Charged
  <2>1. PICK q \in Procs : Commit(q)
    BY DEF Next, _check_and_increment_usage, PassUncounted, Refuse, CallModel, Abort, NewDay, vars
  <2>2. /\ req' = [req EXCEPT ![q] = req'[q]]
        /\ usage' = IF req[q].usage # req[q].loaded
                    THEN [usage EXCEPT ![req[q].user] = req[q].usage] ELSE usage
        /\ resetDay' = IF req[q].fresh
                       THEN [resetDay EXCEPT ![req[q].user] = req[q].since] ELSE resetDay
    BY <2>1 DEF Commit, GoTo, Finish, QuotaIInv, TablesOK
  <2>3. q = p
    BY <2>2 DEF QuotaIInv, TablesOK
  <2>4. req[p].usage # req[p].loaded
    BY <2>2, <2>3
  <2>5. u \in Verified
    BY <2>4 DEF QuotaIInv, TablesOK, RequestOK
  <2>6. Pending(req[p])
    BY <2>1, <2>3 DEF Commit, At, Pending
  <2>7. Current(req[p])
    BY <2>5, <2>6 DEF QuotaIInv, AloneOK
  <2>8. QED
    BY <2>2, <2>3, <2>7 DEF Current, QuotaIInv, TablesOK
<1>2. QED
  BY QuotaInductive, <1>1, PTL DEF Spec, ChargedOnItsDay

-----------------------------------------------------------------------------
(* Arithmetic.                                                             *)

\* Products of natural numbers.
LEMMA TimesNat ==
  ASSUME NEW a \in Nat, NEW b \in Nat
  PROVE  a * b \in Nat /\ (a >= 1 /\ b >= 1 => a * b >= 1)
  OBVIOUS

\* Pascal's rule after the denominators are cleared.
LEMMA Ring ==
  ASSUME NEW c \in Nat, NEW d \in Nat, NEW x \in Nat, NEW y \in Nat, NEW A \in Nat, NEW B \in Nat
  PROVE  (c + d) * ((x * A) * (y * B)) = x * (c * (A * (y * B))) + y * (d * ((x * A) * B))
  OBVIOUS

\* Division undoes multiplication.
LEMMA Quotient ==
  ASSUME NEW c \in Nat, NEW m \in Nat, m >= 1
  PROVE  (c * m) \div m = c
  OBVIOUS

\* Two multiples of one number.
LEMMA Distribute ==
  ASSUME NEW x \in Nat, NEW y \in Nat, NEW f \in Nat
  PROVE  x * f + y * f = (x + y) * f
  OBVIOUS

\* The first n values of factorial.
FactorialUpTo(f, n) ==
    /\ f \in [0 .. n -> Nat] /\ f[0] = 1
    /\ \A i \in 1 .. n : f[i] = i * f[i - 1]

\* Such a function exists ...
LEMMA FactorialsExist ==
  ASSUME NEW n \in Nat
  PROVE  \E f : FactorialUpTo(f, n)
<1> DEFINE step == [i \in 1 .. n |-> [x \in Nat |-> i * x]]
<1>1. step \in StepsOn(n, Nat)
  <2>1. \A i \in 1 .. n : \A x \in Nat : i * x \in Nat
    BY TimesNat
  <2>2. QED
    BY <2>1 DEF StepsOn
<1>2. \A i \in 1 .. n : \A x \in Nat : step[i][x] = i * x
  OBVIOUS
<1> HIDE DEF step
<1>3. PICK f : Recursion(f, n, Nat, 1, step)
  <2>1. 1 \in Nat
    OBVIOUS
  <2>2. QED
    BY <1>1, <2>1, RecursionExists
<1>4. FactorialUpTo(f, n)
  <2>1. \A i \in 1 .. n : i - 1 \in 0 .. n
    OBVIOUS
  <2>2. f \in [0 .. n -> Nat] /\ f[0] = 1 /\ \A i \in 1 .. n : f[i] = step[i][f[i - 1]]
    BY <1>3 DEF Recursion
  <2>3. \A i \in 1 .. n : f[i - 1] \in Nat
    BY <2>1, <2>2
  <2>4. QED
    BY <1>2, <2>2, <2>3 DEF FactorialUpTo
<1>5. QED
  BY <1>4

\* ... and a longer one continues a shorter one.
LEMMA FactorialsAgree ==
  ASSUME NEW n \in Nat, NEW f, NEW g, FactorialUpTo(f, n), FactorialUpTo(g, n + 1)
  PROVE  \A i \in 0 .. n : g[i] = f[i]
<1>1. Follows(g, f, n)
  <2>1. g[0] = f[0]
    BY DEF FactorialUpTo
  <2>2. \A i \in 1 .. n : i \in 1 .. n + 1
    OBVIOUS
  <2>3. \A i \in 1 .. n : g[i] = i * g[i - 1] /\ f[i] = i * f[i - 1]
    BY <2>2 DEF FactorialUpTo
  <2>4. QED
    BY <2>1, <2>3 DEF Follows
<1>2. QED
  BY <1>1, SameRecursion

\* Its recursive definition defines a function on all numbers.
LEMMA FactorialIs ==
  /\ factorial \in [Nat -> Nat] /\ factorial[0] = 1
  /\ \A n \in Nat : factorial[n + 1] = (n + 1) * factorial[n]
<1> DEFINE F(n) == CHOOSE f : FactorialUpTo(f, n)
           G == [n \in Nat |-> F(n)[n]]
           R(g) == [n \in Nat |-> IF n = 0 THEN 1 ELSE n * g[n - 1]]
<1>1. \A n \in Nat : FactorialUpTo(F(n), n)
  BY FactorialsExist
<1> HIDE DEF F
<1>2. G[0] = 1
  BY <1>1 DEF FactorialUpTo
<1>3. ASSUME NEW n \in Nat PROVE G[n] \in Nat /\ G[n + 1] = (n + 1) * G[n]
  <2>1. n \in 0 .. n /\ n + 1 \in 1 .. n + 1 /\ (n + 1) - 1 = n /\ n + 1 \in Nat
    OBVIOUS
  <2>2. F(n + 1)[n + 1] = (n + 1) * F(n + 1)[n]
    <3>1. FactorialUpTo(F(n + 1), n + 1)
      BY <1>1, <2>1
    <3>2. QED
      BY <2>1, <3>1 DEF FactorialUpTo
  <2>3. F(n + 1)[n] = F(n)[n]
    BY <1>1, <2>1, FactorialsAgree
  <2>4. F(n)[n] \in Nat
    BY <1>1, <2>1 DEF FactorialUpTo
  <2>5. QED
    BY <2>1, <2>2, <2>3, <2>4
<1>4. G = R(G)
  <2> SUFFICES ASSUME NEW n \in Nat PROVE G[n] = (IF n = 0 THEN 1 ELSE n * G[n - 1])
    <3>1. G = [n \in Nat |-> G[n]]
      OBVIOUS
    <3> HIDE DEF G
    <3>2. QED
      BY <3>1
  <2>1. CASE n = 0
    BY <1>2, <2>1
  <2>2. CASE n # 0
    <3>1. n - 1 \in Nat /\ (n - 1) + 1 = n
      BY <2>2
    <3> HIDE DEF G
    <3>2. QED
      BY <1>3, <2>2, <3>1
  <2>3. QED
    BY <2>1, <2>2
<1>5. factorial = R(factorial)
  BY <1>4, Zenon DEF factorial
<1>6. factorial[0] = 1 /\ \A n \in Nat : factorial[n + 1] = (n + 1) * factorial[n]
  <2>1. \A n \in Nat : factorial[n] = R(factorial)[n]
    BY <1>5
  <2>2. \A n \in Nat : n + 1 \in Nat /\ n + 1 # 0 /\ (n + 1) - 1 = n
    OBVIOUS
  <2>3. QED
    BY <2>1, <2>2
<1>7. \A n \in Nat : factorial[n] \in Nat
  <2> DEFINE S == {n \in Nat : factorial[n] \in Nat}
  <2>1. 0 \in S
    BY <1>6
  <2>2. ASSUME NEW n \in Nat, n \in S PROVE n + 1 \in S
    BY <1>6, <2>2, TimesNat
  <2>3. Nat \subseteq S
    <3> HIDE DEF S
    <3>1. QED
      BY <2>1, <2>2, SetInduction
  <2>4. QED
    BY <2>3
<1>8. factorial \in [Nat -> Nat]
  <2>1. factorial = [n \in Nat |-> IF n = 0 THEN 1 ELSE n * factorial[n - 1]]
    BY <1>5
  <2>2. DOMAIN factorial = Nat /\ factorial = [n \in Nat |-> factorial[n]]
    BY <2>1, Zenon
  <2>3. QED
    BY <1>7, <2>2
<1>9. QED
  BY <1>6, <1>8

\* No factorial is zero.
LEMMA FactorialPositive == \A n \in Nat : factorial[n] \in Nat /\ factorial[n] >= 1
<1> DEFINE S == {n \in Nat : factorial[n] >= 1}
<1>1. \A n \in Nat : factorial[n] \in Nat
  BY FactorialIs
<1>2. 0 \in S
  BY FactorialIs
<1>3. ASSUME NEW n \in Nat, n \in S PROVE n + 1 \in S
  <2>1. factorial[n + 1] = (n + 1) * factorial[n] /\ factorial[n] >= 1
    BY <1>3, FactorialIs
  <2>2. n + 1 \in Nat /\ n + 1 >= 1
    OBVIOUS
  <2>3. factorial[n + 1] >= 1
    BY <1>1, <2>1, <2>2, TimesNat
  <2>4. QED
    BY <2>2, <2>3
<1>4. Nat \subseteq S
  <2> HIDE DEF S
  <2>1. QED
    BY <1>2, <1>3, SetInduction
<1>5. QED
  BY <1>1, <1>4

\* The number of ways to choose a (or b) out of a + b.
Ways(c, a, b) == c \in Nat /\ c * (factorial[a] * factorial[b]) = factorial[a + b]

\* There is one way to choose none or all.
LEMMA WaysOfNone ==
  ASSUME NEW a \in Nat
  PROVE  Ways(1, a, 0) /\ Ways(1, 0, a)
<1>1. factorial[a] \in Nat /\ factorial[0] = 1
  BY FactorialIs
<1>2. a + 0 = a /\ 0 + a = a
  OBVIOUS
<1>3. QED
  BY <1>1, <1>2 DEF Ways

\* One more of each: Pascal's rule for the numbers of ways.
LEMMA WaysOfMore ==
  ASSUME NEW a \in Nat, NEW b \in Nat, NEW c, NEW d, Ways(c, a, b + 1), Ways(d, a + 1, b)
  PROVE  Ways(c + d, a + 1, b + 1)
<1>1. PICK x \in Nat, y \in Nat : x = a + 1 /\ y = b + 1
  OBVIOUS
<1>2. PICK A \in Nat, B \in Nat, f \in Nat :
         A = factorial[a] /\ B = factorial[b] /\ f = factorial[a + b + 1]
  <2>1. a + b + 1 \in Nat
    OBVIOUS
  <2>2. factorial[a] \in Nat /\ factorial[b] \in Nat /\ factorial[a + b + 1] \in Nat
    BY <2>1, FactorialPositive
  <2>3. QED
    BY <2>2
<1>3. /\ factorial[a + 1] = x * A /\ factorial[b + 1] = y * B
      /\ factorial[(a + 1) + (b + 1)] = (x + y) * f
  <2>1. a + b + 1 \in Nat /\ (a + 1) + (b + 1) = (a + b + 1) + 1 /\ (a + b + 1) + 1 = x + y
    BY <1>1
  <2>2. factorial[(a + b + 1) + 1] = ((a + b + 1) + 1) * factorial[a + b + 1]
    BY <2>1, FactorialIs
  <2>3. factorial[a + 1] = (a + 1) * factorial[a] /\ factorial[b + 1] = (b + 1) * factorial[b]
    BY FactorialIs
  <2>4. QED
    BY <1>1, <1>2, <2>1, <2>2, <2>3
<1>4. c \in Nat /\ c * (A * (y * B)) = f
  <2>1. a + (b + 1) = a + b + 1
    OBVIOUS
  <2>2. QED
    BY <1>2, <1>3, <2>1 DEF Ways
<1>5. d \in Nat /\ d * ((x * A) * B) = f
  <2>1. (a + 1) + b = a + b + 1
    OBVIOUS
  <2>2. QED
    BY <1>2, <1>3, <2>1 DEF Ways
<1>6. (c + d) * ((x * A) * (y * B)) = x * (c * (A * (y * B))) + y * (d * ((x * A) * B))
  BY <1>4, <1>5, Ring
<1>7. (c + d) * ((x * A) * (y * B)) = (x + y) * f
  <2>1. (c + d) * ((x * A) * (y * B)) = x * f + y * f
    BY <1>4, <1>5, <1>6
  <2>2. QED
    BY <2>1, Distribute
<1>8. c + d \in Nat
  BY <1>4, <1>5
<1>9. QED
  BY <1>3, <1>7, <1>8 DEF Ways

\* The numbers of ways exist, by induction over a + b.
LEMMA WaysExist ==
  \A a \in Nat : \A b \in Nat : \E c : Ways(c, a, b)
<1> DEFINE S == {n \in Nat : \A a \in Nat : \A b \in Nat : a + b = n => \E c : Ways(c, a, b)}
<1>1. 0 \in S
  BY WaysOfNone
<1>2. ASSUME NEW n \in Nat, n \in S PROVE n + 1 \in S
  <2> SUFFICES ASSUME NEW a \in Nat, NEW b \in Nat, a + b = n + 1 PROVE \E c : Ways(c, a, b)
    OBVIOUS
  <2>1. CASE a = 0 \/ b = 0
    BY <2>1, WaysOfNone
  <2>2. CASE a # 0 /\ b # 0
    <3>1. PICK i \in Nat, j \in Nat : a = i + 1 /\ b = j + 1
      <4>1. a - 1 \in Nat /\ b - 1 \in Nat /\ a = (a - 1) + 1 /\ b = (b - 1) + 1
        BY <2>2
      <4>2. QED
        BY <4>1
    <3>2. i + (j + 1) = n /\ (i + 1) + j = n /\ j + 1 \in Nat /\ i + 1 \in Nat
      BY <3>1
    <3>3. PICK c : Ways(c, i, j + 1)
      BY <1>2, <3>2
    <3>4. PICK d : Ways(d, i + 1, j)
      BY <1>2, <3>2
    <3>5. Ways(c + d, i + 1, j + 1)
      BY <3>3, <3>4, WaysOfMore
    <3>6. QED
      BY <3>1, <3>5
  <2>3. QED
    BY <2>1, <2>2
<1>3. Nat \subseteq S
  <2> HIDE DEF S
  <2>1. QED
    BY <1>1, <1>2, SetInduction
<1>4. ASSUME NEW a \in Nat, NEW b \in Nat PROVE \E c : Ways(c, a, b)
  <2>1. a + b \in Nat
    OBVIOUS
  <2>2. a + b \in S
    <3> HIDE DEF S
    <3>1. QED
      BY <1>3, <2>1
  <2>3. QED
    BY <2>2
<1>5. QED
  BY <1>4

\* choose counts them.
LEMMA ChooseIs ==
  ASSUME NEW a \in Nat, NEW b \in Nat, NEW c, Ways(c, a, b)
  PROVE  choose(a + b, b) = c
<1>1. PICK A \in Nat, B \in Nat : A = factorial[a] /\ B = factorial[b] /\ A >= 1 /\ B >= 1
  BY FactorialPositive
<1>2. (a + b) - b = a
  OBVIOUS
<1>3. choose(a + b, b) = (c * (A * B)) \div (B * A)
  <2>1. factorial[a + b] = c * (A * B)
    BY <1>1 DEF Ways
  <2>2. choose(a + b, b) = factorial[a + b] \div (factorial[b] * factorial[(a + b) - b])
    BY DEF choose
  <2>3. QED
    BY <1>1, <1>2, <2>1, <2>2
<1>4. A * B \in Nat /\ A * B >= 1 /\ B * A = A * B /\ c \in Nat
  BY <1>1, TimesNat DEF Ways
<1>5. QED
  BY <1>3, <1>4, Quotient

\* The number of ways in which a levels hold b things.
Multisets(a, b) == choose(a + b, b)

\* The rule of Pascal's triangle, from the division of factorials.
LEMMA Pascal ==
  ASSUME NEW a \in Nat, NEW b \in Nat
  PROVE  /\ Multisets(a, b) \in Nat /\ Multisets(a, b) >= 1
         /\ Multisets(a, 0) = 1 /\ Multisets(0, b) = 1
         /\ Multisets(a + 1, b + 1) = Multisets(a, b + 1) + Multisets(a + 1, b)
<1>1. PICK e : Ways(e, a, b)
  BY WaysExist
<1>2. Multisets(a, b) = e
  BY <1>1, ChooseIs DEF Multisets
<1>3. e \in Nat /\ e >= 1
  <2>1. e \in Nat /\ e * (factorial[a] * factorial[b]) = factorial[a + b]
    BY <1>1 DEF Ways
  <2>2. factorial[a + b] >= 1 /\ factorial[a] \in Nat /\ factorial[b] \in Nat
    BY FactorialPositive
  <2>3. CASE e = 0
    BY <2>1, <2>2, <2>3
  <2>4. QED
    BY <2>1, <2>3
<1>4. Multisets(a, 0) = 1 /\ Multisets(0, b) = 1
  <2>1. 0 \in Nat
    OBVIOUS
  <2>2. QED
    BY <2>1, WaysOfNone, ChooseIs DEF Multisets
<1>5. Multisets(a + 1, b + 1) = Multisets(a, b + 1) + Multisets(a + 1, b)
  <2>1. a + 1 \in Nat /\ b + 1 \in Nat
    OBVIOUS
  <2>2. PICK c : Ways(c, a, b + 1)
    BY <2>1, WaysExist
  <2>3. PICK d : Ways(d, a + 1, b)
    BY <2>1, WaysExist
  <2>4. Ways(c + d, a + 1, b + 1)
    BY <2>2, <2>3, WaysOfMore
  <2>5. QED
    BY <2>1, <2>2, <2>3, <2>4, ChooseIs DEF Multisets
<1>6. QED
  BY <1>2, <1>3, <1>4, <1>5

\* What d things above a level are worth when k levels are above it.
Weight(k, d) == IF d = 0 THEN 0 ELSE Multisets(k + 1, d - 1)

\* A weight is what one level more adds to the number of ways.
LEMMA WeightIs ==
  ASSUME NEW k \in Nat, NEW d \in Nat
  PROVE  /\ Weight(k, d) \in Nat /\ Weight(k, d + 1) \in Nat
         /\ Multisets(k, d) \in Nat /\ Multisets(k, d) >= 1
         /\ Multisets(k + 1, d) = Multisets(k, d) + Weight(k, d)
         /\ Weight(k, d + 1) = Multisets(k, d) + Weight(k, d)
<1>1. Multisets(k, d) \in Nat /\ Multisets(k, d) >= 1
  BY Pascal
<1>2. k + 1 \in Nat
  OBVIOUS
<1>3. Multisets(k + 1, d) \in Nat
  BY <1>2, Pascal
<1>4. Weight(k, d + 1) = Multisets(k + 1, d)
  <2>1. d + 1 # 0 /\ (d + 1) - 1 = d
    OBVIOUS
  <2>2. QED
    BY <2>1 DEF Weight
<1>5. CASE d = 0
  <2>1. Weight(k, d) = 0
    BY <1>5 DEF Weight
  <2>2. Multisets(k + 1, d) = 1 /\ Multisets(k, d) = 1
    BY <1>2, <1>5, Pascal
  <2>3. QED
    BY <1>1, <1>3, <1>4, <2>1, <2>2
<1>6. CASE d # 0
  <2>1. PICK e \in Nat : d = e + 1
    <3>1. d - 1 \in Nat /\ d = (d - 1) + 1
      BY <1>6
    <3>2. QED
      BY <3>1
  <2>2. Weight(k, d) = Multisets(k + 1, e)
    <3>1. (e + 1) - 1 = e
      OBVIOUS
    <3>2. QED
      BY <1>6, <2>1, <3>1 DEF Weight
  <2>3. Multisets(k + 1, e + 1) = Multisets(k, e + 1) + Multisets(k + 1, e)
    BY Pascal
  <2>4. Multisets(k + 1, e) \in Nat
    BY <1>2, Pascal
  <2>5. Multisets(k + 1, d) = Multisets(k, d) + Weight(k, d) /\ Weight(k, d) \in Nat
    BY <2>1, <2>2, <2>3, <2>4
  <2>6. QED
    BY <1>1, <1>3, <1>4, <2>5
<1>7. QED
  BY <1>5, <1>6

\* More things weigh more.
LEMMA WeightGrows ==
  ASSUME NEW k \in Nat, NEW d \in Nat, NEW e \in Nat, d <= e
  PROVE  Weight(k, d) <= Weight(k, e)
<1> DEFINE S == {h \in Nat : Weight(k, d) <= Weight(k, d + h)}
<1>1. 0 \in S
  <2>1. d + 0 = d /\ Weight(k, d) \in Nat
    BY WeightIs
  <2>2. QED
    BY <2>1
<1>2. ASSUME NEW h \in Nat, h \in S PROVE h + 1 \in S
  <2>1. d + h \in Nat /\ d + (h + 1) = (d + h) + 1
    OBVIOUS
  <2>2. /\ Weight(k, (d + h) + 1) = Multisets(k, d + h) + Weight(k, d + h)
        /\ Weight(k, d + h) \in Nat /\ Multisets(k, d + h) \in Nat
    BY <2>1, WeightIs
  <2>3. Weight(k, d) \in Nat
    BY WeightIs
  <2>4. Weight(k, d) <= Weight(k, d + (h + 1))
    BY <1>2, <2>1, <2>2, <2>3
  <2>5. QED
    BY <2>4
<1>3. Nat \subseteq S
  <2> HIDE DEF S
  <2>1. QED
    BY <1>1, <1>2, SetInduction
<1>4. e - d \in Nat /\ d + (e - d) = e
  OBVIOUS
<1>5. e - d \in S
  <2> HIDE DEF S
  <2>1. QED
    BY <1>3, <1>4
<1>6. QED
  BY <1>4, <1>5

\* Q[k] adds up the weights of the k highest of the levels 1 .. n; D[v] things are
\* above level v.
SumsUp(Q, D, n) ==
    /\ D \in [1 .. n -> Nat] /\ Q \in [0 .. n -> Nat] /\ Q[0] = 0
    /\ \A k \in 1 .. n : Q[k] = Q[k - 1] + Weight(k - 1, D[(n + 1) - k])

\* Every heap of things has its sum.
LEMMA SumsExist ==
  ASSUME NEW n \in Nat, NEW D \in [1 .. n -> Nat]
  PROVE  \E Q : SumsUp(Q, D, n)
<1> DEFINE w(i) == Weight(i - 1, D[(n + 1) - i])
           step == [i \in 1 .. n |-> [x \in Nat |-> x + w(i)]]
<1>1. ASSUME NEW i \in 1 .. n PROVE w(i) \in Nat
  <2>1. i - 1 \in Nat /\ (n + 1) - i \in 1 .. n
    OBVIOUS
  <2>2. D[(n + 1) - i] \in Nat
    BY <2>1
  <2>3. QED
    BY <2>1, <2>2, WeightIs
<1> HIDE DEF w
<1>2. step \in StepsOn(n, Nat)
  <2>1. \A i \in 1 .. n : \A x \in Nat : x + w(i) \in Nat
    BY <1>1
  <2>2. QED
    BY <2>1 DEF StepsOn
<1>3. \A i \in 1 .. n : \A x \in Nat : step[i][x] = x + w(i)
  OBVIOUS
<1> HIDE DEF step
<1>4. PICK Q : Recursion(Q, n, Nat, 0, step)
  <2>1. 0 \in Nat
    OBVIOUS
  <2>2. QED
    BY <1>2, <2>1, RecursionExists
<1>5. Q \in [0 .. n -> Nat] /\ Q[0] = 0 /\ \A i \in 1 .. n : Q[i] = Q[i - 1] + w(i)
  <2>1. \A i \in 1 .. n : i - 1 \in 0 .. n
    OBVIOUS
  <2>2. Q \in [0 .. n -> Nat] /\ Q[0] = 0 /\ \A i \in 1 .. n : Q[i] = step[i][Q[i - 1]]
    BY <1>4 DEF Recursion
  <2>3. \A i \in 1 .. n : Q[i - 1] \in Nat
    BY <2>1, <2>2
  <2>4. QED
    BY <1>3, <2>2, <2>3
<1>6. QED
  BY <1>5 DEF SumsUp, w

\* One more level.
LEMMA SumStep ==
  ASSUME NEW n \in Nat, NEW Q, NEW D, SumsUp(Q, D, n), NEW k \in Nat, k < n
  PROVE  /\ Q[k] \in Nat /\ Q[k + 1] \in Nat /\ n - k \in 1 .. n /\ D[n - k] \in Nat
         /\ Weight(k, D[n - k]) \in Nat
         /\ Q[k + 1] = Q[k] + Weight(k, D[n - k])
<1>1. /\ k \in 0 .. n /\ k + 1 \in 1 .. n /\ k + 1 \in 0 .. n /\ (k + 1) - 1 = k
      /\ (n + 1) - (k + 1) = n - k /\ n - k \in 1 .. n
  OBVIOUS
<1>2. Q[k] \in Nat /\ Q[k + 1] \in Nat /\ D[n - k] \in Nat
  BY <1>1 DEF SumsUp
<1>3. Q[k + 1] = Q[(k + 1) - 1] + Weight((k + 1) - 1, D[(n + 1) - (k + 1)])
  BY <1>1 DEF SumsUp
<1>4. Weight(k, D[n - k]) \in Nat
  BY <1>2, WeightIs
<1>5. QED
  BY <1>1, <1>2, <1>3, <1>4

\* With at most d things above each of the K highest levels.
LEMMA TailBound ==
  ASSUME NEW n \in Nat, NEW Q, NEW D, SumsUp(Q, D, n), NEW K \in 0 .. n, NEW d \in Nat,
         \A w \in 1 .. n : w > n - K => D[w] <= d
  PROVE  Q[K] \in Nat /\ Q[K] + 1 <= Multisets(K, d)
<1> DEFINE S == {k \in Nat : k <= K => Q[k] \in Nat /\ Q[k] + 1 <= Multisets(k, d)}
<1>1. 0 \in S
  <2>1. Q[0] = 0
    BY DEF SumsUp
  <2>2. Multisets(0, d) = 1
    BY Pascal
  <2>3. QED
    BY <2>1, <2>2
<1>2. ASSUME NEW k \in Nat, k \in S PROVE k + 1 \in S
  <2> SUFFICES ASSUME k + 1 <= K PROVE Q[k + 1] \in Nat /\ Q[k + 1] + 1 <= Multisets(k + 1, d)
    OBVIOUS
  <2>1. k < n /\ n - k > n - K /\ k <= K
    OBVIOUS
  <2>2. /\ Q[k] \in Nat /\ Q[k + 1] \in Nat /\ n - k \in 1 .. n /\ D[n - k] \in Nat
        /\ Weight(k, D[n - k]) \in Nat /\ Q[k + 1] = Q[k] + Weight(k, D[n - k])
    BY <2>1, SumStep
  <2>3. Weight(k, D[n - k]) <= Weight(k, d)
    <3>1. D[n - k] <= d
      BY <2>1, <2>2
    <3>2. QED
      BY <2>2, <3>1, WeightGrows
  <2>4. /\ Multisets(k + 1, d) = Multisets(k, d) + Weight(k, d)
        /\ Multisets(k, d) \in Nat /\ Weight(k, d) \in Nat
    BY WeightIs
  <2>5. Q[k] + 1 <= Multisets(k, d)
    BY <1>2, <2>1
  <2>6. QED
    BY <2>2, <2>3, <2>4, <2>5
<1>3. Nat \subseteq S
  <2> HIDE DEF S
  <2>1. QED
    BY <1>1, <1>2, SetInduction
<1>4. K \in Nat /\ K \in S
  <2> HIDE DEF S
  <2>1. QED
    BY <1>3
<1>5. QED
  BY <1>4

\* A sum that is ahead by x after m levels stays ahead.
LEMMA StaysAhead ==
  ASSUME NEW n \in Nat, NEW Q, NEW D, NEW R, NEW E, SumsUp(Q, D, n), SumsUp(R, E, n),
         NEW x \in Nat, NEW m \in 0 .. n, R[m] >= Q[m] + x,
         \A w \in 1 .. n : w <= n - m => D[w] <= E[w]
  PROVE  Q[n] \in Nat /\ R[n] \in Nat /\ R[n] >= Q[n] + x
<1> DEFINE S == {h \in Nat : m + h <= n => R[m + h] >= Q[m + h] + x}
<1>1. 0 \in S
  <2>1. m + 0 = m
    OBVIOUS
  <2>2. QED
    BY <2>1
<1>2. ASSUME NEW h \in Nat, h \in S PROVE h + 1 \in S
  <2> SUFFICES ASSUME m + (h + 1) <= n PROVE R[m + (h + 1)] >= Q[m + (h + 1)] + x
    OBVIOUS
  <2>1. PICK k \in Nat : k = m + h /\ k < n /\ m + (h + 1) = k + 1 /\ n - k <= n - m
    <3>1. m + h \in Nat /\ m + h < n /\ m + (h + 1) = (m + h) + 1 /\ n - (m + h) <= n - m
      OBVIOUS
    <3>2. QED
      BY <3>1
  <2>2. /\ Q[k] \in Nat /\ Q[k + 1] \in Nat /\ n - k \in 1 .. n /\ D[n - k] \in Nat
        /\ Weight(k, D[n - k]) \in Nat /\ Q[k + 1] = Q[k] + Weight(k, D[n - k])
    BY <2>1, SumStep
  <2>3. /\ R[k] \in Nat /\ R[k + 1] \in Nat /\ E[n - k] \in Nat
        /\ Weight(k, E[n - k]) \in Nat /\ R[k + 1] = R[k] + Weight(k, E[n - k])
    BY <2>1, SumStep
  <2>4. Weight(k, D[n - k]) <= Weight(k, E[n - k])
    <3>1. D[n - k] <= E[n - k]
      BY <2>1, <2>2
    <3>2. QED
      BY <2>2, <2>3, <3>1, WeightGrows
  <2>5. R[k] >= Q[k] + x
    BY <1>2, <2>1
  <2>6. R[k + 1] >= Q[k + 1] + x
    BY <2>2, <2>3, <2>4, <2>5
  <2>7. QED
    BY <2>1, <2>6
<1>3. Nat \subseteq S
  <2> HIDE DEF S
  <2>1. QED
    BY <1>1, <1>2, SetInduction
<1>4. n - m \in Nat /\ m + (n - m) = n
  OBVIOUS
<1>5. n - m \in S
  <2> HIDE DEF S
  <2>1. QED
    BY <1>3, <1>4
<1>6. n \in 0 .. n
  OBVIOUS
<1>7. Q[n] \in Nat /\ R[n] \in Nat
  BY <1>6 DEF SumsUp
<1>8. R[n] >= Q[n] + x
  BY <1>4, <1>5
<1>9. QED
  BY <1>7, <1>8

\* One thing more above level v outweighs whatever falls from the levels above it.
LEMMA OneMoreAbove ==
  ASSUME NEW n \in Nat, NEW Q, NEW D, NEW R, NEW E, SumsUp(Q, D, n), SumsUp(R, E, n),
         NEW v \in 1 .. n, D[v] + 1 <= E[v],
         \A w \in 1 .. n : w < v => D[w] <= E[w],
         \A w \in 1 .. n : w > v => D[w] <= D[v]
  PROVE  Q[n] \in Nat /\ R[n] \in Nat /\ R[n] >= Q[n] + 1
<1>1. PICK k \in Nat : k = n - v /\ k < n /\ n - k = v /\ k \in 0 .. n /\ k + 1 \in 0 .. n
  <2>1. n - v \in Nat /\ n - v < n /\ n - (n - v) = v /\ n - v \in 0 .. n
        /\ (n - v) + 1 \in 0 .. n
    OBVIOUS
  <2>2. QED
    BY <2>1
<1>2. /\ Q[k] \in Nat /\ Q[k + 1] \in Nat /\ D[v] \in Nat
      /\ Weight(k, D[v]) \in Nat /\ Q[k + 1] = Q[k] + Weight(k, D[v])
  BY <1>1, SumStep
<1>3. /\ R[k] \in Nat /\ R[k + 1] \in Nat /\ E[v] \in Nat
      /\ Weight(k, E[v]) \in Nat /\ R[k + 1] = R[k] + Weight(k, E[v])
  BY <1>1, SumStep
<1>4. Q[k] + 1 <= Multisets(k, D[v])
  <2>1. \A w \in 1 .. n : w > n - k => D[w] <= D[v]
    BY <1>1
  <2>2. QED
    BY <1>1, <1>2, <2>1, TailBound
<1>5. /\ Weight(k, D[v] + 1) = Multisets(k, D[v]) + Weight(k, D[v])
      /\ Multisets(k, D[v]) \in Nat /\ Weight(k, D[v] + 1) \in Nat
  BY <1>2, WeightIs
<1>6. Weight(k, D[v] + 1) <= Weight(k, E[v])
  <2>1. D[v] + 1 \in Nat
    BY <1>2
  <2>2. QED
    BY <1>3, <2>1, WeightGrows
<1>7. R[k + 1] >= Q[k + 1] + 1
  BY <1>2, <1>3, <1>4, <1>5, <1>6
<1>8. \A w \in 1 .. n : w <= n - (k + 1) => D[w] <= E[w]
  BY <1>1
<1>9. 1 \in Nat
  OBVIOUS
<1>10. QED
  BY <1>1, <1>7, <1>8, <1>9, StaysAhead

-----------------------------------------------------------------------------
(* How often a slot can be served.  The level of a slot is the count it    *)
(* would charge; what was served today is at most the sum that the slots   *)
(* above each level are worth.                                             *)

Levels == 1 .. Limit + 1

\* The slots above level v.
AboveLevel(l, v) == {p \in Procs : l[p] > v}

Heights(l) == [v \in 1 .. Limit |-> Cardinality(AboveLevel(l, v))]

Room(l, s) == \E Q : SumsUp(Q, Heights(l), Limit) /\ s <= Q[Limit]

\* How many slots are above a level.
LEMMA HeightsAre ==
  ASSUME NEW l \in [Procs -> Levels]
  PROVE  /\ Limit \in Nat /\ Limit >= 1
         /\ Heights(l) \in [1 .. Limit -> Nat]
         /\ \A v \in 1 .. Limit :
               /\ Heights(l)[v] = Cardinality(AboveLevel(l, v))
               /\ IsFiniteSet(AboveLevel(l, v)) /\ Cardinality(AboveLevel(l, v)) \in Nat
               /\ Cardinality(AboveLevel(l, v)) <= Cardinality(Procs)
         /\ Cardinality(Procs) \in Nat
<1>1. Limit \in Nat /\ Limit >= 1 /\ IsFiniteSet(Procs)
  BY QuotaAssumption
<1>2. ASSUME NEW v \in 1 .. Limit
      PROVE  /\ IsFiniteSet(AboveLevel(l, v)) /\ Cardinality(AboveLevel(l, v)) \in Nat
             /\ Cardinality(AboveLevel(l, v)) <= Cardinality(Procs)
  <2>1. AboveLevel(l, v) \subseteq Procs
    BY DEF AboveLevel
  <2>2. QED
    BY <1>1, <2>1, FS_Subset, FS_CardinalityType
<1>3. Cardinality(Procs) \in Nat
  BY <1>1, FS_CardinalityType
<1>4. QED
  BY <1>1, <1>2, <1>3 DEF Heights

\* The levels of the slots have a sum.
LEMMA RoomExists ==
  ASSUME NEW l \in [Procs -> Levels]
  PROVE  \E Q : SumsUp(Q, Heights(l), Limit)
  BY HeightsAre, SumsExist

\* A day begins with room for nothing served.
LEMMA RoomStart ==
  ASSUME NEW l \in [Procs -> Levels]
  PROVE  Room(l, 0)
<1>1. PICK Q : SumsUp(Q, Heights(l), Limit)
  BY RoomExists
<1>2. Limit \in 0 .. Limit
  BY QuotaAssumption
<1>3. Q[Limit] \in Nat
  BY <1>1, <1>2 DEF SumsUp
<1>4. QED
  BY <1>1, <1>3 DEF Room

\* More slots above a level.
LEMMA MoreAbove ==
  ASSUME NEW l \in [Procs -> Levels], NEW m \in [Procs -> Levels], NEW v \in 1 .. Limit,
         \A q \in Procs : l[q] > v => m[q] > v
  PROVE  /\ Heights(l)[v] <= Heights(m)[v]
         /\ \A p \in Procs : ~(l[p] > v) /\ m[p] > v => Heights(l)[v] + 1 <= Heights(m)[v]
<1>1. PICK A, B : A = AboveLevel(l, v) /\ B = AboveLevel(m, v)
  OBVIOUS
<1>2. /\ IsFiniteSet(A) /\ Cardinality(A) \in Nat /\ Heights(l)[v] = Cardinality(A)
      /\ IsFiniteSet(B) /\ Cardinality(B) \in Nat /\ Heights(m)[v] = Cardinality(B)
  BY <1>1, HeightsAre
<1>3. A \subseteq B
  BY <1>1 DEF AboveLevel
<1>4. Cardinality(A) <= Cardinality(B)
  BY <1>2, <1>3, FS_Subset
<1>5. ASSUME NEW p \in Procs, ~(l[p] > v), m[p] > v PROVE Cardinality(A) + 1 <= Cardinality(B)
  <2>1. p \notin A /\ p \in B
    BY <1>1, <1>5 DEF AboveLevel
  <2>2. A \cup {p} \subseteq B
    BY <1>3, <2>1
  <2>3. Cardinality(A \cup {p}) = Cardinality(A) + 1
    BY <1>2, <2>1, FS_AddElement
  <2>4. Cardinality(A \cup {p}) <= Cardinality(B)
    BY <1>2, <2>2, FS_Subset
  <2>5. QED
    BY <2>3, <2>4
<1>6. QED
  BY <1>2, <1>4, <1>5

\* No slot sinks.
LEMMA RoomStays ==
  ASSUME NEW l \in [Procs -> Levels], NEW m \in [Procs -> Levels], NEW s \in Nat, Room(l, s),
         \A q \in Procs : l[q] <= m[q]
  PROVE  Room(m, s)
<1>1. PICK Q : SumsUp(Q, Heights(l), Limit) /\ s <= Q[Limit]
  BY DEF Room
<1>2. PICK R : SumsUp(R, Heights(m), Limit)
  BY RoomExists
<1>3. ASSUME NEW v \in 1 .. Limit PROVE Heights(l)[v] <= Heights(m)[v]
  <2>1. \A q \in Procs : l[q] > v => m[q] > v
    BY QuotaAssumption DEF Levels
  <2>2. QED
    BY <2>1, MoreAbove
<1>4. Limit \in Nat /\ 0 \in 0 .. Limit /\ 0 \in Nat
  BY QuotaAssumption
<1>5. R[0] >= Q[0] + 0
  BY <1>1, <1>2 DEF SumsUp
<1>6. \A w \in 1 .. Limit : w <= Limit - 0 => Heights(l)[w] <= Heights(m)[w]
  BY <1>3
<1>7. Q[Limit] \in Nat /\ R[Limit] \in Nat /\ R[Limit] >= Q[Limit] + 0
  BY <1>1, <1>2, <1>4, <1>5, <1>6, StaysAhead
<1>8. s <= R[Limit]
  BY <1>1, <1>7
<1>9. QED
  BY <1>2, <1>8 DEF Room

\* A slot is served and rises; those above it may sink, but not to its level.
LEMMA RoomServes ==
  ASSUME NEW l \in [Procs -> Levels], NEW m \in [Procs -> Levels], NEW s \in Nat, Room(l, s),
         NEW p \in Procs, l[p] <= Limit, m[p] > l[p],
         \A q \in Procs : l[q] <= m[q] \/ (l[q] > l[p] /\ m[q] > l[p])
  PROVE  Room(m, s + 1)
<1>1. PICK Q : SumsUp(Q, Heights(l), Limit) /\ s <= Q[Limit]
  BY DEF Room
<1>2. PICK R : SumsUp(R, Heights(m), Limit)
  BY RoomExists
<1>3. PICK v \in 1 .. Limit : v = l[p]
  <2>1. l[p] \in Levels
    OBVIOUS
  <2>2. QED
    BY <2>1, QuotaAssumption DEF Levels
<1>4. \A q \in Procs : l[q] \in Nat /\ m[q] \in Nat
  BY QuotaAssumption DEF Levels
<1>5. \A w \in 1 .. Limit : w \in Nat
  OBVIOUS
<1>6. ASSUME NEW w \in 1 .. Limit, w <= v PROVE \A q \in Procs : l[q] > w => m[q] > w
  BY <1>3, <1>4, <1>5, <1>6
<1>7. Heights(l)[v] + 1 <= Heights(m)[v]
  <2>1. \A q \in Procs : l[q] > v => m[q] > v
    BY <1>6
  <2>2. ~(l[p] > v) /\ m[p] > v
    BY <1>3, <1>4
  <2>3. QED
    BY <2>1, <2>2, MoreAbove
<1>8. ASSUME NEW w \in 1 .. Limit, w < v PROVE Heights(l)[w] <= Heights(m)[w]
  <2>1. \A q \in Procs : l[q] > w => m[q] > w
    BY <1>5, <1>6, <1>8
  <2>2. QED
    BY <2>1, MoreAbove
<1>9. ASSUME NEW w \in 1 .. Limit, w > v PROVE Heights(l)[w] <= Heights(l)[v]
  <2>1. AboveLevel(l, w) \subseteq AboveLevel(l, v)
    BY <1>4, <1>5, <1>9 DEF AboveLevel
  <2>2. IsFiniteSet(AboveLevel(l, v))
    BY HeightsAre
  <2>3. Cardinality(AboveLevel(l, w)) <= Cardinality(AboveLevel(l, v))
    BY <2>1, <2>2, FS_Subset
  <2>4. QED
    BY <2>3, HeightsAre
<1>10. Limit \in Nat
  BY QuotaAssumption
<1>11. Q[Limit] \in Nat /\ R[Limit] \in Nat /\ R[Limit] >= Q[Limit] + 1
  BY <1>1, <1>2, <1>7, <1>8, <1>9, <1>10, OneMoreAbove
<1>12. s + 1 <= R[Limit]
  BY <1>1, <1>11
<1>13. QED
  BY <1>2, <1>12 DEF Room

\* The bound.
LEMMA RoomBound ==
  ASSUME NEW l \in [Procs -> Levels], NEW s \in Nat, Room(l, s)
  PROVE  s < choose(Limit + Cardinality(Procs), Cardinality(Procs))
<1>1. PICK Q : SumsUp(Q, Heights(l), Limit) /\ s <= Q[Limit]
  BY DEF Room
<1>2. PICK N \in Nat : N = Cardinality(Procs)
  BY HeightsAre
<1>3. Limit \in Nat /\ Limit \in 0 .. Limit
  BY QuotaAssumption
<1>4. \A w \in 1 .. Limit : w > Limit - Limit => Heights(l)[w] <= N
  BY <1>2, HeightsAre
<1>5. Q[Limit] \in Nat /\ Q[Limit] + 1 <= Multisets(Limit, N)
  BY <1>1, <1>3, <1>4, TailBound
<1>6. Multisets(Limit, N) \in Nat
  BY <1>3, Pascal
<1>7. s < Multisets(Limit, N)
  BY <1>1, <1>5, <1>6
<1>8. QED
  BY <1>2, <1>7 DEF Multisets

-----------------------------------------------------------------------------
(* Overlapping requests within a day.                                      *)

\* The count slot p would charge to u next, but at most one more than today's:
\* if its copy is ahead of the table it may still give up and load it again.
Level(u, p) ==
    IF req[p].user = u /\ Pending(req[p]) /\ req[p].usage <= UsedToday(u)
    THEN req[p].usage ELSE UsedToday(u) + 1

LevelsOf(u) == [p \in Procs |-> Level(u, p)]

\* A request of today whose copy was loaded before anything was charged today
\* sees the table as it still is.
Today(u, r) ==
    r.user = u =>
        /\ r.since = day
        /\ Pending(r) /\ resetDay[u] < day => r.fresh /\ r.loaded = usage[u]

OverOK(u) ==
    seen[u] \subseteq {"overlap"} =>
        /\ \A p \in Procs : Today(u, req[p])
        /\ resetDay[u] = day => usage[u] >= 1
        /\ Room(LevelsOf(u), served[u])

OverIInv == QuotaIInv /\ \A u \in Verified : OverOK(u)

\* The types of what the levels are made of.
LEMMA UserTypes ==
  ASSUME QuotaIInv, NEW u \in Verified
  PROVE  /\ u \in Users /\ Limit \in Nat /\ Limit >= 1 /\ day \in Nat /\ day >= 1
         /\ usage[u] \in 0 .. Limit /\ resetDay[u] \in 0 .. day /\ served[u] \in Nat
         /\ UsedToday(u) \in 0 .. Limit
         /\ (resetDay[u] < day => UsedToday(u) = 0)
         /\ (~(resetDay[u] < day) => UsedToday(u) = usage[u])
<1>1. /\ u \in Users /\ Limit \in Nat /\ Limit >= 1 /\ day \in Nat /\ day >= 1
      /\ usage[u] \in 0 .. Limit /\ resetDay[u] \in 0 .. day /\ served[u] \in Nat
  BY QuotaAssumption DEF QuotaIInv, TablesOK, Days
<1>2. /\ (resetDay[u] < day => UsedToday(u) = 0)
      /\ (~(resetDay[u] < day) => UsedToday(u) = usage[u])
  BY DEF UsedToday, _is_new_day
<1>3. QED
  BY <1>1, <1>2

\* The copy of a verified user's request.
LEMMA CopyTypes ==
  ASSUME QuotaIInv, NEW u \in Verified, NEW p \in Procs, req[p].user = u
  PROVE  /\ req[p].usage \in 1 .. Limit /\ req[p].usage \in Nat /\ req[p].usage >= 1
         /\ req[p].loaded \in Nat /\ req[p].fresh \in BOOLEAN /\ req[p].since \in Nat
         /\ (req[p].fresh => req[p].usage = 1)
         /\ (~req[p].fresh => req[p].usage = req[p].loaded + 1)
<1>1. RequestOK(req[p]) /\ req[p] \in Request /\ u \in Users
  BY QuotaAssumption DEF QuotaIInv, TablesOK, RequestOK
<1>2. req[p].loaded \in Nat /\ req[p].fresh \in BOOLEAN /\ req[p].since \in Nat
  BY <1>1 DEF Request
<1>3. req[p].usage \in 1 .. Limit /\ req[p].usage = (IF req[p].fresh THEN 1 ELSE req[p].loaded + 1)
  BY <1>1 DEF RequestOK
<1>4. QED
  BY <1>2, <1>3, QuotaAssumption

\* A level is one of Limit + 1.
LEMMA LevelTypes ==
  ASSUME QuotaIInv, NEW u \in Verified
  PROVE  /\ LevelsOf(u) \in [Procs -> Levels]
         /\ \A p \in Procs : /\ LevelsOf(u)[p] = Level(u, p) /\ Level(u, p) \in Nat
                             /\ Level(u, p) <= UsedToday(u) + 1
                             /\ Level(u, p) >= 1
<1>1. UsedToday(u) \in 0 .. Limit /\ Limit \in Nat
  BY UserTypes
<1>2. ASSUME NEW p \in Procs PROVE Level(u, p) \in Levels /\ Level(u, p) <= UsedToday(u) + 1
  <2>1. CASE req[p].user = u /\ Pending(req[p]) /\ req[p].usage <= UsedToday(u)
    <3>1. Level(u, p) = req[p].usage
      BY <2>1 DEF Level
    <3>2. req[p].usage \in 1 .. Limit
      BY <2>1, CopyTypes
    <3>3. QED
      BY <1>1, <2>1, <3>1, <3>2 DEF Levels
  <2>2. CASE ~(req[p].user = u /\ Pending(req[p]) /\ req[p].usage <= UsedToday(u))
    <3>1. Level(u, p) = UsedToday(u) + 1
      BY <2>2 DEF Level
    <3>2. QED
      BY <1>1, <3>1 DEF Levels
  <2>3. QED
    BY <2>1, <2>2
<1>3. \A p \in Procs : Level(u, p) \in Nat /\ Level(u, p) >= 1
  BY <1>1, <1>2 DEF Levels
<1>4. QED
  BY <1>2, <1>3 DEF LevelsOf

LevelsOK == \A u \in Verified : /\ LevelsOf(u) \in [Procs -> Levels]
                               /\ \A q \in Procs : LevelsOf(u)[q] = Level(u, q)

\* Levels are levels, in this state ...
LEMMA LevelsNow == QuotaIInv => LevelsOK
  BY LevelTypes DEF LevelsOK

\* ... and in the next.
LEMMA LevelsNext == QuotaIInv' => LevelsOK'
  BY LevelsNow, PTL

\* It holds on the first day, before any request.
THEOREM OverInitIInv == Init => OverIInv
<1> SUFFICES ASSUME Init PROVE OverIInv
  OBVIOUS
<1>1. QuotaIInv
  BY QuotaInitIInv
<1>2. ASSUME NEW u \in Verified PROVE OverOK(u)
  <2>1. u \in Users /\ u # NoUser
    BY QuotaAssumption
  <2>2. \A p \in Procs : Today(u, req[p])
    BY <2>1 DEF Init, Idle, Today
  <2>3. resetDay[u] # day
    BY <2>1 DEF Init
  <2>4. Room(LevelsOf(u), 0)
    BY <1>1, LevelTypes, RoomStart
  <2>5. served[u] = 0
    BY <2>1 DEF Init
  <2>6. QED
    BY <2>2, <2>3, <2>4, <2>5 DEF OverOK
<1>3. QED
  BY <1>1, <1>2 DEF OverIInv

\* A step of slot p that writes no table: the slot's request is over, goes on, or
\* is a new one with the next count.
LEMMA SlotOver ==
  ASSUME OverIInv, QuotaIInv', NEW u \in Verified, NEW p \in Procs, NEW r,
         req' = [req EXCEPT ![p] = r], r \in Request,
         usage'[u] = usage[u], resetDay'[u] = resetDay[u], day' = day,
         seen[u] \subseteq seen'[u],
         seen'[u] \subseteq {"overlap"} => served'[u] = served[u],
         r.user = u =>
            /\ Today(u, req[p]) => Today(u, r)
            /\ Pending(r) => \/ r.usage = UsedToday(u) + 1
                             \/ /\ req[p].user = u /\ Pending(req[p])
                                /\ r.usage = req[p].usage
  PROVE  OverOK(u)'
<1> SUFFICES ASSUME seen'[u] \subseteq {"overlap"}
             PROVE  /\ \A q \in Procs : Today(u, req[q])'
                    /\ resetDay'[u] = day' => usage'[u] >= 1
                    /\ Room(LevelsOf(u)', served'[u])
  BY DEF OverOK
<1>1. QuotaIInv /\ OverOK(u) /\ seen[u] \subseteq {"overlap"}
  BY DEF OverIInv
<1>2. /\ \A q \in Procs : Today(u, req[q])
      /\ resetDay[u] = day => usage[u] >= 1
      /\ Room(LevelsOf(u), served[u])
  BY <1>1 DEF OverOK
<1>3. req'[p] = r /\ \A q \in Procs \ {p} : req'[q] = req[q]
  BY <1>1 DEF QuotaIInv, TablesOK
<1>4. UsedToday(u)' = UsedToday(u)
  BY DEF UsedToday, _is_new_day
<1>5. ASSUME NEW q \in Procs PROVE Today(u, req[q])'
  <2>1. CASE q # p
    BY <1>2, <1>3, <2>1 DEF Today
  <2>2. CASE q = p
    <3>1. r.user = u => Today(u, r)
      BY <1>2
    <3>2. QED
      BY <1>3, <2>2, <3>1 DEF Today
  <2>3. QED
    BY <2>1, <2>2
<1>6. ASSUME NEW q \in Procs PROVE Level(u, q) <= Level(u, q)'
  <2>1. Level(u, q) \in Nat /\ Level(u, q) <= UsedToday(u) + 1 /\ UsedToday(u) \in 0 .. Limit
    BY <1>1, LevelTypes, UserTypes
  <2>2. CASE q # p
    BY <1>3, <1>4, <2>1, <2>2 DEF Level
  <2>3. CASE q = p
    <3>1. CASE ~(r.user = u /\ Pending(r) /\ r.usage <= UsedToday(u))
      <4>1. Level(u, q)' = UsedToday(u) + 1
        BY <1>3, <1>4, <2>3, <3>1 DEF Level
      <4>2. QED
        BY <2>1, <4>1
    <3>2. CASE r.user = u /\ Pending(r) /\ r.usage <= UsedToday(u)
      <4>1. Level(u, q)' = r.usage
        BY <1>3, <1>4, <2>3, <3>2 DEF Level
      <4>2. req[p].user = u /\ Pending(req[p]) /\ r.usage = req[p].usage
        <5>1. r.usage # UsedToday(u) + 1
          BY <2>1, <3>2
        <5>2. QED
          BY <3>2, <5>1
      <4>3. Level(u, q) = r.usage
        BY <2>3, <3>2, <4>2 DEF Level
      <4>4. QED
        BY <2>1, <4>1, <4>3
    <3>3. QED
      BY <3>1, <3>2
  <2>4. QED
    BY <2>2, <2>3
<1>7. LevelsOf(u)' \in [Procs -> Levels] /\ \A q \in Procs : LevelsOf(u)'[q] = Level(u, q)'
  BY LevelsNext DEF LevelsOK
<1>8. served[u] \in Nat /\ LevelsOf(u) \in [Procs -> Levels]
      /\ \A q \in Procs : LevelsOf(u)[q] = Level(u, q)
  BY <1>1, LevelTypes, UserTypes
<1>9. Room(LevelsOf(u)', served'[u])
  <2>1. \A q \in Procs : LevelsOf(u)[q] <= LevelsOf(u)'[q]
    BY <1>6, <1>7, <1>8
  <2>2. Room(LevelsOf(u)', served[u])
    BY <1>2, <1>7, <1>8, <2>1, RoomStays
  <2>3. QED
    BY <2>2
<1>10. QED
  BY <1>2, <1>5, <1>9

\* A request is over, or was not counted.
LEMMA IdleOver ==
  ASSUME OverIInv, QuotaIInv', NEW u \in Verified, NEW p \in Procs, Finish(p),
         usage'[u] = usage[u], resetDay'[u] = resetDay[u], day' = day, seen' = seen,
         seen[u] \subseteq {"overlap"} => served'[u] = served[u]
  PROVE  OverOK(u)'
<1>1. req' = [req EXCEPT ![p] = Idle] /\ Idle \in Request /\ Idle.user = NoUser
  BY DEF Finish, Idle, Request, Steps
<1>2. u # NoUser
  BY QuotaAssumption
<1> HIDE DEF Idle
<1>3. QED
  BY <1>1, <1>2, SlotOver

\* A request let through loads the next count: its slot is above all of today's.
LEMMA CheckOver ==
  ASSUME OverIInv, QuotaIInv', NEW u \in Verified,
         NEW p \in Procs, NEW v \in Users, NEW k \in Endpoints,
         _check_and_increment_usage(p, v, k)
  PROVE  OverOK(u)'
<1> DEFINE r == [step |-> FirstStep(k), user |-> v, endpoint |-> k, loaded |-> usage[v],
                 usage |-> UsedToday(v) + 1, fresh |-> _is_new_day(v), since |-> day]
<1>1. /\ v \in Verified /\ req' = [req EXCEPT ![p] = r]
      /\ seen' = [seen EXCEPT ![v] = seen[v] \cup Admission(v, k)]
      /\ UNCHANGED <<usage, resetDay, day, served>>
  BY DEF _check_and_increment_usage
<1>2. QuotaIInv /\ u \in Users /\ TablesOK
  BY QuotaAssumption DEF OverIInv, QuotaIInv
<1>3. seen[u] \subseteq seen'[u]
  BY <1>1, <1>2 DEF TablesOK
<1>4. UsedToday(v) \in 0 .. Limit /\ Limit \in Nat /\ day \in Nat /\ usage[v] \in Nat
  BY <1>1, <1>2, UserTypes
<1>5. r \in Request
  BY <1>4 DEF Request, Steps, FirstStep, _is_new_day
<1>6. r.user = v /\ r.since = day /\ r.usage = UsedToday(v) + 1
      /\ r.loaded = usage[v] /\ (resetDay[v] < day => r.fresh)
  BY DEF _is_new_day
<1> HIDE DEF r
<1>7. r.user = u => Today(u, r) /\ r.usage = UsedToday(u) + 1
  BY <1>6 DEF Today
<1>8. QED
  BY <1>1, <1>3, <1>5, <1>7, SlotOver

\* A request of another user, who is not verified.
LEMMA PassOver ==
  ASSUME OverIInv, QuotaIInv', NEW u \in Verified,
         NEW p \in Procs, NEW v \in Users, NEW k \in Endpoints, PassUncounted(p, v, k)
  PROVE  OverOK(u)'
<1> DEFINE r == [step |-> FirstStep(k), user |-> v, endpoint |-> k, loaded |-> usage[v],
                 usage |-> usage[v], fresh |-> FALSE, since |-> day]
<1>1. /\ v \notin Verified /\ req' = [req EXCEPT ![p] = r]
      /\ UNCHANGED <<usage, resetDay, day, served, seen>>
  BY DEF PassUncounted
<1>2. usage[v] \in Nat /\ day \in Nat
  BY QuotaAssumption DEF OverIInv, QuotaIInv, TablesOK, Days
<1>3. r \in Request /\ r.user = v
  BY <1>2 DEF Request, Steps, FirstStep
<1> HIDE DEF r
<1>4. r.user # u
  BY <1>1, <1>3
<1>5. QED
  BY <1>1, <1>3, <1>4, SlotOver

\* A request that is rolled back.
LEMMA AbortOver ==
  ASSUME OverIInv, QuotaIInv', NEW u \in Verified, NEW p \in Procs, Abort(p)
  PROVE  OverOK(u)'
  BY IdleOver DEF Abort

\* Only /summarize serves here, and then it is on record.
LEMMA ModelOver ==
  ASSUME OverIInv, QuotaIInv', NEW u \in Verified, NEW p \in Procs, CallModel(p)
  PROVE  OverOK(u)'
<1> DEFINE old == req[p]
<1>1. /\ old.step = "model" /\ old \in Request
      /\ old.endpoint \in {"chat", "study", "summarize"}
      /\ UNCHANGED <<usage, resetDay, day, seen>>
  BY DEF OverIInv, QuotaIInv, CallModel, At, TablesOK, RequestOK
<1>2. CASE old.endpoint = "chat"
  <2>1. Finish(p) /\ UNCHANGED served
    BY <1>1, <1>2 DEF CallModel
  <2>2. QED
    BY <1>1, <2>1, IdleOver
<1>3. CASE old.endpoint = "study"
  <2> DEFINE new == [old EXCEPT !.step = "commitLast"]
  <2>1. req' = [req EXCEPT ![p] = new] /\ served' = served
    BY <1>1, <1>3 DEF CallModel, GoTo
  <2>2. /\ Pending(old) /\ new \in Request
        /\ new.loaded = old.loaded /\ new.fresh = old.fresh /\ new.usage = old.usage
        /\ new.since = old.since /\ new.user = old.user
    BY <1>1, <1>3 DEF Request, Pending, Steps
  <2> HIDE DEF new
  <2>3. new.user = u => (Today(u, old) => Today(u, new))
    BY <2>2 DEF Today
  <2>4. QED
    BY <1>1, <2>1, <2>2, <2>3, SlotOver
<1>4. CASE old.endpoint = "summarize"
  <2>1. Finish(p) /\ Serve(p)
    BY <1>1, <1>4 DEF CallModel
  <2>2. seen[u] \subseteq {"overlap"} => served'[u] = served[u]
    <3>1. old.user = u => "summarize" \in seen[u]
      BY <1>4 DEF OverIInv, QuotaIInv, Noted
    <3>2. old.user # u => served'[u] = served[u]
      BY <2>1, QuotaAssumption DEF Serve, OverIInv, QuotaIInv, TablesOK
    <3>3. QED
      BY <3>1, <3>2
  <2>3. QED
    BY <1>1, <2>1, <2>2, IdleOver
<1>5. QED
  BY <1>1, <1>2, <1>3, <1>4

\* A day that begins with nobody's request in flight begins with all the room.
LEMMA NewDayOver ==
  ASSUME OverIInv, QuotaIInv', NEW u \in Verified, NewDay
  PROVE  OverOK(u)'
<1>1. u \in Users /\ day' = day + 1 /\ served' = [v \in Users |-> 0]
      /\ UNCHANGED <<usage, resetDay, req>>
      /\ seen' = [v \in Users |-> IF \E p \in Procs : req[p].user = v
                               THEN seen[v] \cup {"midnight"} ELSE seen[v]]
  BY QuotaAssumption DEF NewDay
<1>2. resetDay[u] \in 0 .. day /\ day \in Nat
  BY UserTypes DEF OverIInv
<1>3. ASSUME seen'[u] \subseteq {"overlap"} PROVE \A p \in Procs : Today(u, req[p])'
  BY <1>1, <1>3 DEF Today
<1>4. resetDay'[u] # day'
  BY <1>1, <1>2
<1>5. LevelsOf(u)' \in [Procs -> Levels]
  BY LevelsNext DEF LevelsOK
<1>6. Room(LevelsOf(u)', 0)
  BY <1>5, RoomStart
<1>7. Room(LevelsOf(u)', served'[u])
  BY <1>1, <1>6
<1>8. QED
  BY <1>3, <1>4, <1>7 DEF OverOK

\* What the commit of a counted request leaves in its user's row: the copy's
\* count, or the same count where nothing was to be written.
LEMMA Committed ==
  ASSUME OverIInv, QuotaIInv', NEW p \in Procs, NEW u \in Verified, Commit(p),
         req[p].user = u, Today(u, req[p]), resetDay[u] = day => usage[u] >= 1
  PROVE  /\ resetDay'[u] = day /\ usage'[u] >= 1 /\ UsedToday(u)' = usage'[u]
         /\ served'[u] = served[u] + 1 /\ day' = day /\ usage'[u] \in 1 .. Limit
         /\ \/ usage'[u] = req[p].usage
            \/ usage'[u] = UsedToday(u) /\ req[p].usage = 1
<1>1. u \in Users /\ TablesOK /\ QuotaIInv
  BY QuotaAssumption DEF OverIInv, QuotaIInv
<1>2. /\ usage[u] \in 0 .. Limit /\ resetDay[u] \in 0 .. day /\ day \in Nat /\ Limit \in Nat
      /\ (resetDay[u] < day => UsedToday(u) = 0)
      /\ (~(resetDay[u] < day) => UsedToday(u) = usage[u])
  BY <1>1, UserTypes
<1>3. /\ req[p].usage \in 1 .. Limit /\ req[p].fresh \in BOOLEAN /\ req[p].loaded \in Nat
      /\ (req[p].fresh => req[p].usage = 1)
      /\ (~req[p].fresh => req[p].usage = req[p].loaded + 1)
  BY <1>1, CopyTypes
<1>4. Pending(req[p])
  BY DEF Commit, At, Pending
<1>5. req[p].since = day /\ (resetDay[u] < day => req[p].fresh /\ req[p].loaded = usage[u])
  BY <1>4 DEF Today
<1>6. /\ day' = day
      /\ usage'[u] = IF req[p].usage # req[p].loaded THEN req[p].usage ELSE usage[u]
      /\ resetDay'[u] = IF req[p].fresh THEN req[p].since ELSE resetDay[u]
  BY <1>1 DEF Commit, TablesOK
<1>7. served'[u] = served[u] + 1
  BY <1>1, <1>5 DEF Commit, Serve, TablesOK
<1>8. resetDay'[u] = day
  BY <1>2, <1>5, <1>6
<1>9. \/ usage'[u] = req[p].usage
      \/ usage'[u] = UsedToday(u) /\ req[p].usage = 1
  BY <1>2, <1>3, <1>5, <1>6
<1>10. usage'[u] >= 1 /\ usage'[u] \in 1 .. Limit
  BY <1>2, <1>3, <1>5, <1>6
<1>11. UsedToday(u)' = usage'[u]
  BY <1>2, <1>6, <1>8 DEF UsedToday, _is_new_day
<1>12. QED
  BY <1>6, <1>7, <1>8, <1>9, <1>10, <1>11

\* The slot that commits rises; the others stay above where it was, or stay.
LEMMA CommitLevels ==
  ASSUME OverIInv, QuotaIInv', NEW p \in Procs, NEW u \in Verified, Commit(p),
         req[p].user = u, Today(u, req[p]), resetDay[u] = day => usage[u] >= 1,
         NEW q \in Procs
  PROVE  /\ Level(u, p) <= Limit /\ Level(u, p)' > Level(u, p)
         /\ \/ Level(u, q) <= Level(u, q)'
            \/ Level(u, q) > Level(u, p) /\ Level(u, q)' > Level(u, p)
<1>1. QuotaIInv /\ Pending(req[p]) /\ u # NoUser
  BY QuotaAssumption DEF OverIInv, Commit, At, Pending
<1>2. PICK v \in Nat, c \in Nat, d \in Nat :
         v = req[p].usage /\ c = UsedToday(u) /\ d = UsedToday(u)'
  <2>1. UsedToday(u)' \in Nat
    BY Committed
  <2>2. UsedToday(u) \in Nat /\ req[p].usage \in Nat
    BY <1>1, UserTypes, CopyTypes
  <2>3. QED
    BY <2>1, <2>2
<1>3. v >= 1 /\ v <= Limit /\ Limit \in Nat
  BY <1>1, <1>2, CopyTypes, QuotaAssumption
<1>4. d >= 1 /\ (d = v \/ (d = c /\ v = 1))
  BY <1>2, Committed
<1>5. Level(u, p) = IF v <= c THEN v ELSE c + 1
  BY <1>1, <1>2 DEF Level
<1>6. /\ ~(req'[p].user = u /\ Pending(req'[p]))
      /\ \A x \in Procs \ {p} : req'[x] = req[x]
  <2>1. /\ req[p] \in Request /\ req \in [Procs -> Request]
        /\ (req[p].step = "commit" => req[p].endpoint = "chat")
    BY <1>1 DEF QuotaIInv, TablesOK, RequestOK
  <2>2. CASE At(p, "commit")
    <3>1. req' = [req EXCEPT ![p].step = "model"]
      BY <2>2 DEF Commit, GoTo
    <3>2. req'[p].step = "model" /\ req'[p].endpoint = "chat"
      BY <2>1, <2>2, <3>1 DEF At, Request
    <3>3. QED
      BY <2>1, <3>1, <3>2 DEF Pending
  <2>3. CASE ~At(p, "commit")
    <3>1. req' = [req EXCEPT ![p] = Idle]
      BY <2>3 DEF Commit, Finish
    <3>2. QED
      BY <1>1, <2>1, <3>1 DEF Idle
  <2>4. QED
    BY <2>2, <2>3
<1>7. Level(u, p)' = d + 1
  BY <1>2, <1>6 DEF Level
<1>8. Level(u, p) <= Limit /\ Level(u, p)' > Level(u, p)
  BY <1>3, <1>4, <1>5, <1>7
<1>9. CASE q = p
  BY <1>3, <1>4, <1>5, <1>7, <1>9
<1>10. CASE q # p /\ req[q].user = u /\ Pending(req[q])
  <2>1. PICK w \in Nat : w = req[q].usage
    BY <1>1, <1>10, CopyTypes
  <2>2. /\ Level(u, q) = IF w <= c THEN w ELSE c + 1
        /\ Level(u, q)' = IF w <= d THEN w ELSE d + 1
    BY <1>2, <1>6, <1>10, <2>1 DEF Level
  <2>3. w >= 1
    BY <1>1, <1>10, <2>1, CopyTypes
  <2>4. QED
    BY <1>3, <1>4, <1>5, <1>8, <2>2, <2>3
<1>11. CASE q # p /\ ~(req[q].user = u /\ Pending(req[q]))
  <2>1. Level(u, q) = c + 1 /\ Level(u, q)' = d + 1
    BY <1>2, <1>6, <1>11 DEF Level
  <2>2. QED
    BY <1>3, <1>4, <1>5, <1>8, <2>1
<1>12. QED
  BY <1>8, <1>9, <1>10, <1>11

\* A commit serves one request and moves its slot up.
LEMMA CommitOver ==
  ASSUME OverIInv, QuotaIInv', NEW u \in Verified, NEW p \in Procs, Commit(p)
  PROVE  OverOK(u)'
<1>1. QuotaIInv /\ TablesOK /\ u \in Users /\ seen' = seen /\ day' = day
  BY QuotaAssumption DEF OverIInv, QuotaIInv, Commit
<1>2. CASE req[p].user # u
  <2> DEFINE r == req'[p]
  <2>1. /\ usage'[u] = usage[u] /\ resetDay'[u] = resetDay[u] /\ served'[u] = served[u]
    BY <1>1, <1>2 DEF Commit, Serve, TablesOK
  <2>2. req' = [req EXCEPT ![p] = r] /\ r \in Request
    <3>1. req' \in [Procs -> Request]
      BY DEF QuotaIInv, TablesOK
    <3>2. \A q \in Procs \ {p} : req'[q] = req[q]
      BY <1>1 DEF Commit, GoTo, Finish, TablesOK
    <3>3. QED
      BY <1>1, <3>1, <3>2 DEF TablesOK
  <2>3. r.user # u
    <3>1. CASE At(p, "commit")
      BY <1>1, <1>2, <3>1 DEF Commit, GoTo, TablesOK, Request
    <3>2. CASE ~At(p, "commit")
      BY <1>1, <1>2, <3>2, QuotaAssumption DEF Commit, Finish, TablesOK, Idle
    <3>3. QED
      BY <3>1, <3>2
  <2> HIDE DEF r
  <2>4. QED
    BY <1>1, <2>1, <2>2, <2>3, SlotOver
<1>3. CASE req[p].user = u
  <2> SUFFICES ASSUME seen[u] \subseteq {"overlap"}
               PROVE  /\ \A q \in Procs : Today(u, req[q])'
                      /\ resetDay'[u] = day' => usage'[u] >= 1
                      /\ Room(LevelsOf(u)', served'[u])
    BY <1>1 DEF OverOK
  <2>1. /\ \A q \in Procs : Today(u, req[q])
        /\ resetDay[u] = day => usage[u] >= 1
        /\ Room(LevelsOf(u), served[u])
    BY DEF OverIInv, OverOK
  <2>2. /\ resetDay'[u] = day /\ usage'[u] >= 1 /\ served'[u] = served[u] + 1
        /\ \A q \in Procs :
             /\ Level(u, p) <= Limit /\ Level(u, p)' > Level(u, p)
             /\ \/ Level(u, q) <= Level(u, q)'
                \/ Level(u, q) > Level(u, p) /\ Level(u, q)' > Level(u, p)
    BY <1>3, <2>1, Committed, CommitLevels
  <2>3. ASSUME NEW q \in Procs PROVE Today(u, req[q])'
    <3>1. CASE q # p
      <4>1. req'[q] = req[q]
        BY <1>1, <3>1 DEF Commit, GoTo, Finish, TablesOK
      <4>2. req[q].user = u => req[q].since = day
        BY <2>1 DEF Today
      <4>3. ~(resetDay'[u] < day)
        BY <1>1, <2>2, UserTypes
      <4>4. QED
        BY <1>1, <4>1, <4>2, <4>3 DEF Today
    <3>2. CASE q = p
      <4>1. ~(resetDay'[u] < day) /\ req[p].since = day
        BY <1>1, <1>3, <2>1, <2>2, UserTypes DEF Today
      <4>2. req'[p].user = u => req'[p].since = day
        <5>1. CASE At(p, "commit")
          BY <1>1, <4>1, <5>1 DEF Commit, GoTo, TablesOK, Request
        <5>2. CASE ~At(p, "commit")
          BY <1>1, <5>2, QuotaAssumption DEF Commit, Finish, TablesOK, Idle
        <5>3. QED
          BY <5>1, <5>2
      <4>3. QED
        BY <1>1, <3>2, <4>1, <4>2 DEF Today
    <3>3. QED
      BY <3>1, <3>2
  <2>4. /\ LevelsOf(u)' \in [Procs -> Levels] /\ \A q \in Procs : LevelsOf(u)'[q] = Level(u, q)'
        /\ LevelsOf(u) \in [Procs -> Levels] /\ \A q \in Procs : LevelsOf(u)[q] = Level(u, q)
        /\ served[u] \in Nat
    BY <1>1, LevelsNow, LevelsNext, UserTypes DEF LevelsOK
  <2>5. Room(LevelsOf(u)', served[u] + 1)
    <3> DEFINE l == LevelsOf(u)
               m == LevelsOf(u)'
    <3>1. /\ l[p] <= Limit /\ m[p] > l[p]
          /\ \A q \in Procs : l[q] <= m[q] \/ (l[q] > l[p] /\ m[q] > l[p])
      BY <2>2, <2>4
    <3>2. l \in [Procs -> Levels] /\ m \in [Procs -> Levels] /\ Room(l, served[u])
      BY <2>1, <2>4
    <3> HIDE DEF l, m
    <3>3. Room(m, served[u] + 1)
      BY <2>4, <3>1, <3>2, RoomServes
    <3>4. QED
      BY <3>3 DEF m
  <2>6. Room(LevelsOf(u)', served'[u])
    BY <2>2, <2>5
  <2>7. QED
    BY <1>1, <2>2, <2>3, <2>6
<1>4. QED
  BY <1>2, <1>3

\* Every step keeps it.
LEMMA OverNextIInv == OverIInv /\ [Next]_vars => OverIInv'
<1> SUFFICES ASSUME OverIInv, [Next]_vars PROVE OverIInv'
  OBVIOUS
<1>1. QuotaIInv'
  BY QuotaNextIInv DEF OverIInv
<1>2. ASSUME NEW u \in Verified PROVE OverOK(u)'
  <2>1. CASE UNCHANGED vars
    BY <2>1 DEF vars, OverIInv, OverOK, Today, LevelsOf, Level, UsedToday, _is_new_day
  <2>2. ASSUME NEW p \in Procs, NEW v \in Users, NEW k \in Endpoints,
               _check_and_increment_usage(p, v, k) \/ PassUncounted(p, v, k)
        PROVE  OverOK(u)'
    BY <1>1, <2>2, CheckOver, PassOver
  <2>3. ASSUME NEW p \in Procs, Commit(p) \/ CallModel(p) \/ Abort(p) PROVE OverOK(u)'
    BY <1>1, <2>3, CommitOver, ModelOver, AbortOver
  <2>4. CASE NewDay
    BY <1>1, <2>4, NewDayOver
  <2>5. ASSUME NEW p \in Procs, NEW v \in Users, Refuse(p, v) PROVE OverOK(u)'
    BY <2>1, <2>5 DEF Refuse
  <2>6. QED
    BY <2>1, <2>2, <2>3, <2>4, <2>5 DEF Next
<1>3. QED
  BY <1>1, <1>2 DEF OverIInv

\* The invariant the bound rests on.
THEOREM OverInductive == Spec => []OverIInv
<1>1. QED
  BY OverInitIInv, OverNextIInv, PTL DEF Spec

\* Overlapping requests of one user are served fewer than C(Limit + N, N) times
\* a day, N the number of slots: what losing updates of rbac.py's counter costs.
THEOREM Overshooting == Spec => []OvershootBound
<1>1. OverIInv => OvershootBound
  <2> SUFFICES ASSUME OverIInv, NEW u \in Users, seen[u] \subseteq {"overlap"}
               PROVE  served[u] < choose(Limit + Cardinality(Procs), Cardinality(Procs))
    BY DEF OvershootBound
  <2>1. CASE u \in Verified
    <3>1. Room(LevelsOf(u), served[u])
      BY <2>1 DEF OverIInv, OverOK
    <3>2. served[u] \in Nat /\ LevelsOf(u) \in [Procs -> Levels]
      BY <2>1, UserTypes, LevelTypes DEF OverIInv
    <3>3. QED
      BY <3>1, <3>2, RoomBound
  <2>2. CASE u \notin Verified
    <3>1. served[u] = 0
      BY <2>2 DEF OverIInv, QuotaIInv
    <3>2. PICK N \in Nat : N = Cardinality(Procs)
      BY QuotaAssumption, FS_CardinalityType
    <3>3. Multisets(Limit, N) >= 1 /\ Multisets(Limit, N) \in Nat
      BY <3>2, Pascal, QuotaAssumption
    <3>4. QED
      BY <3>1, <3>2, <3>3 DEF Multisets
  <2>3. QED
    BY <2>1, <2>2
<1>2. QED
  BY OverInductive, <1>1, PTL

-----------------------------------------------------------------------------
(***************************************************************************)
(* The double-submit check.                                                *)
(***************************************************************************)

Live == {c \in Calls : call[c].stage \in {"sent", "answered", "unauthorized"}}

\* What a request carries: the first try the cookie its header was read from;
\* its answer a new token only if it had none.
RequestsOK ==
    \A c \in Calls :
        /\ CallAt(c, "sent") /\ ~call[c].again => call[c].header = call[c].cookie
        /\ CallAt(c, "answered") /\ call[c].cookie # 0 => call[c].set \in {0, call[c].cookie}

\* As long as no two first visits have raced, all pages agree on one token: every
\* request under way carries the cookie of the jar, at most one is there without
\* a cookie, and every header is that cookie or was read before there was one.
OneToken ==
    ~raced =>
        /\ \A c \in InFlight : call[c].cookie = jar
        /\ jar = 0 => \A c, d \in InFlight : c = d
        /\ \A c \in Live : call[c].header \in {0, jar}

CsrfIInv == CsrfTypeOK /\ RequestsOK /\ OneToken /\ OwnPagesPass

-----------------------------------------------------------------------------

\* A call that has not begun or is over carries nothing.
LEMMA BlankOK ==
  ASSUME NEW phase \in {"idle", "done"}
  PROVE  /\ Blank(phase) \in Call /\ Blank(phase).stage = phase /\ Blank(phase).header = 0
         /\ Blank(phase).cookie = 0 /\ Blank(phase).set = 0
<1>1. 0 \in Tokens /\ phase \in CallStages
  BY CsrfAssumption DEF Tokens, CallStages
<1>2. QED
  BY <1>1 DEF Blank, Call

LEMMA CsrfInitIInv == CsrfInit => CsrfIInv
<1> SUFFICES ASSUME CsrfInit PROVE CsrfIInv
  OBVIOUS
<1>1. \A c \in Calls : call[c] = Blank("idle")
  BY DEF CsrfInit
<1>2. CsrfTypeOK
  <2>1. call \in [Calls -> Call]
    BY BlankOK DEF CsrfInit
  <2>2. \A c \in Calls : {call[c].header, call[c].cookie, call[c].set, jar} \subseteq 0 .. issued
    BY <1>1, BlankOK DEF CsrfInit
  <2>3. jar \in Tokens /\ issued \in Tokens
    BY CsrfAssumption DEF CsrfInit, Tokens
  <2>4. QED
    BY <2>1, <2>2, <2>3 DEF CsrfInit, CsrfTypeOK
<1>3. RequestsOK /\ OwnPagesPass
  BY <1>1, BlankOK DEF RequestsOK, OwnPagesPass, CallAt
<1>4. OneToken
  BY <1>1, BlankOK DEF OneToken, InFlight, Live
<1>5. QED
  BY <1>2, <1>3, <1>4 DEF CsrfIInv

\* A call that ends, however it does, leaves nothing behind.
LEMMA EndIInv ==
  ASSUME CsrfIInv, NEW c \in Calls, call' = [call EXCEPT ![c] = Blank("done")],
         UNCHANGED <<origin, jar, issued, raced>>
  PROVE  CsrfIInv'
<1> DEFINE b == Blank("done")
<1>1. b \in Call /\ b.stage = "done" /\ b.header = 0 /\ b.cookie = 0 /\ b.set = 0
  BY BlankOK
<1> HIDE DEF b
<1>2. \A d \in Calls : call'[d] = IF d = c THEN b ELSE call[d]
  BY DEF CsrfIInv, CsrfTypeOK, b
<1>3. CsrfTypeOK'
  BY <1>1, <1>2 DEF CsrfIInv, CsrfTypeOK, b, Tokens
<1>4. RequestsOK' /\ OwnPagesPass'
  BY <1>1, <1>2 DEF CsrfIInv, RequestsOK, OwnPagesPass, CallAt
<1>5. OneToken'
  BY <1>1, <1>2 DEF CsrfIInv, OneToken, InFlight, Live
<1>6. QED
  BY <1>3, <1>4, <1>5 DEF CsrfIInv

\* A request leaves with the cookie of the jar: the race is noted when another one
\* is under way without a cookie, and the header is the jar's or an earlier one's.
LEMMA LeaveIInv ==
  ASSUME CsrfIInv, NEW c \in Calls, NEW header \in Tokens, NEW safe \in BOOLEAN,
         NEW again \in BOOLEAN, Leave(c, header, safe, again),
         c \notin InFlight,
         ~again => header = jar, ~raced => header \in {0, jar}, header \in 0 .. issued
  PROVE  CsrfIInv'
<1> DEFINE r == [call[c] EXCEPT !.stage = "sent", !.header = header, !.safe = safe,
                                !.cookie = jar, !.again = again]
<1>1. call' = [call EXCEPT ![c] = r] /\ UNCHANGED <<origin, jar, issued>>
  BY DEF Leave, CsrfIInv, CsrfTypeOK
<1>2. /\ r \in Call /\ r.stage = "sent" /\ r.header = header /\ r.cookie = jar
      /\ r.again = again /\ r.set = call[c].set
  BY DEF CsrfIInv, CsrfTypeOK, Call, CallStages
<1> HIDE DEF r
<1>3. \A d \in Calls : call'[d] = IF d = c THEN r ELSE call[d]
  BY <1>1 DEF CsrfIInv, CsrfTypeOK
<1>4. raced' = (raced \/ (jar = 0 /\ \E d \in InFlight : call[d].cookie = 0))
  BY DEF Leave
<1>5. CsrfTypeOK'
  <2>1. call' \in [Calls -> Call]
    BY <1>1, <1>2 DEF CsrfIInv, CsrfTypeOK
  <2>2. raced' \in BOOLEAN
    BY <1>4
  <2>3. \A d \in Calls :
          {call'[d].header, call'[d].cookie, call'[d].set, jar'} \subseteq 0 .. issued'
    BY <1>1, <1>2, <1>3 DEF CsrfIInv, CsrfTypeOK
  <2>4. QED
    BY <1>1, <2>1, <2>2, <2>3 DEF CsrfIInv, CsrfTypeOK
<1>6. RequestsOK' /\ OwnPagesPass'
  <2>1. RequestsOK'
    BY <1>2, <1>3 DEF CsrfIInv, RequestsOK, CallAt
  <2>2. raced => raced'
    BY <1>4
  <2>3. OwnPagesPass'
    BY <1>1, <1>2, <1>3, <2>2 DEF CsrfIInv, OwnPagesPass, CallAt
  <2>4. QED
    BY <2>1, <2>3
<1>7. OneToken'
  <2> SUFFICES ASSUME ~raced'
               PROVE  /\ \A d \in InFlight' : call'[d].cookie = jar
                      /\ jar = 0 => \A d, e \in InFlight' : d = e
                      /\ \A d \in Live' : call'[d].header \in {0, jar}
    BY <1>1 DEF OneToken
  <2>1. /\ \A d \in InFlight : call[d].cookie = jar
        /\ \A d \in Live : call[d].header \in {0, jar}
        /\ jar = 0 => InFlight = {}
    BY <1>4 DEF CsrfIInv, OneToken
  <2>2. InFlight' = InFlight \cup {c} /\ Live' = Live \cup {c}
    BY <1>2, <1>3 DEF InFlight, Live
  <2>3. QED
    BY <1>2, <1>3, <1>4, <2>1, <2>2 DEF InFlight, Live
<1>8. QED
  BY <1>5, <1>6, <1>7 DEF CsrfIInv

\* An answer sets the jar: without a race to the token it holds already, or, when
\* it is the only request under way, to the first one.
LEMMA ReceiveIInv ==
  ASSUME CsrfIInv, NEW c \in Calls, Receive(c)
  PROVE  CsrfIInv'
<1> DEFINE r == IF call[c].status = "unauthorized" /\ ~call[c].again
                THEN [call[c] EXCEPT !.stage = "unauthorized"] ELSE Blank("done")
<1>1. /\ CallAt(c, "answered") /\ call' = [call EXCEPT ![c] = r]
      /\ jar' = IF call[c].set = 0 THEN jar ELSE call[c].set
      /\ UNCHANGED <<origin, issued, raced>>
  BY DEF Receive, CsrfIInv, CsrfTypeOK
<1>2. /\ r \in Call /\ r.stage \in {"unauthorized", "done"} /\ r.header \in {0, call[c].header}
      /\ r.cookie \in {0, call[c].cookie} /\ r.set \in {0, call[c].set}
  BY BlankOK DEF CsrfIInv, CsrfTypeOK, Call, CallStages
<1> HIDE DEF r
<1>3. \A d \in Calls : call'[d] = IF d = c THEN r ELSE call[d]
  BY <1>1 DEF CsrfIInv, CsrfTypeOK
<1>4. CsrfTypeOK'
  <2>1. call' \in [Calls -> Call] /\ jar' \in 0 .. issued /\ jar' \in Tokens
    BY <1>1, <1>2, CsrfAssumption DEF CsrfIInv, CsrfTypeOK, Tokens, Call
  <2>2. \A d \in Calls : {call'[d].header, call'[d].cookie, call'[d].set, jar'} \subseteq 0 .. issued
    BY <1>2, <1>3, <2>1 DEF CsrfIInv, CsrfTypeOK
  <2>3. QED
    BY <1>1, <2>1, <2>2 DEF CsrfIInv, CsrfTypeOK
<1>5. RequestsOK' /\ OwnPagesPass'
  BY <1>1, <1>2, <1>3 DEF CsrfIInv, RequestsOK, OwnPagesPass, CallAt
<1>6. OneToken'
  <2> SUFFICES ASSUME ~raced
               PROVE  OneToken'
    BY <1>1 DEF OneToken
  <2>1. c \in InFlight /\ c \in Live
    BY <1>1 DEF CallAt, InFlight, Live
  <2>2. call[c].cookie = jar /\ \A d \in Live : call[d].header \in {0, jar}
    BY <2>1 DEF CsrfIInv, OneToken
  <2>3. jar' = jar \/ (jar = 0 /\ InFlight = {c})
    BY <1>1, <2>1, <2>2 DEF CsrfIInv, RequestsOK, OneToken
  <2>4. InFlight' = InFlight \ {c} /\ Live' \subseteq Live
    BY <1>2, <1>3, <2>1 DEF InFlight, Live
  <2>5. \A d \in Live' : call'[d].header \in {0, jar}
    BY <1>2, <1>3, <2>1, <2>2, <2>4 DEF Live
  <2>6. \A d \in InFlight' : call'[d] = call[d]
    BY <1>3, <2>4 DEF InFlight
  <2>7. QED
    BY <1>1, <2>3, <2>4, <2>5, <2>6 DEF CsrfIInv, OneToken
<1>7. QED
  BY <1>4, <1>5, <1>6 DEF CsrfIInv

\* The check refuses what OwnPagesPass says: a first try carries one token twice
\* or none, a second one too, unless two first visits have raced.
LEMMA DispatchIInv ==
  ASSUME CsrfIInv, NEW c \in Calls, Dispatch(c)
  PROVE  CsrfIInv'
<1>1. PICK status \in {"ok", "unauthorized"} \cup Refusals :
        /\ status \in IF Refusal(c) = "none" THEN {"ok", "unauthorized"} ELSE {Refusal(c)}
        /\ LET token == IF status = "origin" THEN 0 ELSE _ensure_csrf_cookie(c) IN
           /\ call' = [call EXCEPT ![c].stage = "answered", ![c].status = status,
                                   ![c].set = token]
           /\ issued' = IF token > issued THEN token ELSE issued
  <2>1. Refusal(c) = "none" \/ Refusal(c) \in Refusals
    BY DEF Refusal, Refusals, CsrfIInv, CsrfTypeOK, Call
  <2>2. QED
    BY <2>1 DEF Dispatch
<1> DEFINE token == IF status = "origin" THEN 0 ELSE _ensure_csrf_cookie(c)
           r == [call[c] EXCEPT !.stage = "answered", !.status = status, !.set = token]
<1>2. /\ CallAt(c, "sent") /\ issued < 2 * MaxCalls
      /\ call' = [call EXCEPT ![c] = r]
      /\ issued' = IF token > issued THEN token ELSE issued
      /\ UNCHANGED <<origin, jar, raced>>
  BY <1>1 DEF Dispatch, CsrfIInv, CsrfTypeOK
<1>3. /\ call[c] \in Call /\ issued \in Nat
      /\ call[c].cookie \in 0 .. issued /\ call[c].header \in 0 .. issued /\ jar \in 0 .. issued
  BY CsrfAssumption DEF CsrfIInv, CsrfTypeOK, Tokens
<1>4. /\ token \in 0 .. issued + 1 /\ issued + 1 \in Tokens /\ issued' \in {issued, issued + 1}
      /\ token \in 0 .. issued' /\ token \in Tokens
      /\ call[c].cookie # 0 => token \in {0, call[c].cookie}
      /\ status # "origin" => token # 0
  BY <1>2, <1>3, CsrfAssumption DEF _ensure_csrf_cookie, Tokens, CsrfIInv, CsrfTypeOK
<1> HIDE DEF token
<1>5. /\ r \in Call /\ r.stage = "answered" /\ r.status = status /\ r.set = token
      /\ r.header = call[c].header /\ r.cookie = call[c].cookie
      /\ r.safe = call[c].safe /\ r.again = call[c].again
  BY <1>3, <1>4 DEF Call, CallStages
<1> HIDE DEF r
<1>6. \A d \in Calls : call'[d] = IF d = c THEN r ELSE call[d]
  BY <1>2 DEF CsrfIInv, CsrfTypeOK
<1>7. CsrfTypeOK'
  <2>1. call' \in [Calls -> Call] /\ issued' \in Tokens
    BY <1>2, <1>4, <1>5 DEF CsrfIInv, CsrfTypeOK
  <2>2. \A d \in Calls : {call'[d].header, call'[d].cookie, call'[d].set, jar} \subseteq 0 .. issued'
    <3>1. 0 .. issued \subseteq 0 .. issued'
      BY <1>3, <1>4
    <3>2. QED
      BY <1>3, <1>4, <1>5, <1>6, <3>1 DEF CsrfIInv, CsrfTypeOK
  <2>3. QED
    BY <1>2, <2>1, <2>2 DEF CsrfIInv, CsrfTypeOK
<1>8. RequestsOK'
  BY <1>2, <1>4, <1>5, <1>6 DEF CsrfIInv, RequestsOK, CallAt
<1>9. OneToken'
  <2>1. InFlight' = InFlight /\ Live' = Live
    BY <1>2, <1>5, <1>6 DEF InFlight, Live, CallAt
  <2>2. \A d \in Calls : call'[d].cookie = call[d].cookie /\ call'[d].header = call[d].header
    BY <1>5, <1>6
  <2>3. QED
    BY <1>2, <2>1, <2>2 DEF CsrfIInv, OneToken, InFlight, Live
<1>10. OwnPagesPass'
  <2>1. ASSUME status \in Refusals, origin # "other"
        PROVE  /\ origin = "none" /\ ~call[c].safe /\ token # 0
               /\ call[c].header = 0 \/ (call[c].again /\ raced)
    <3>1. status = Refusal(c) /\ status # "none"
      BY <1>1, <2>1 DEF Refusals
    <3>2. origin = "none" /\ ~call[c].safe
      BY <1>3, <2>1, <3>1 DEF Refusal, CsrfIInv, CsrfTypeOK, Call
    <3>3. /\ status # "origin"
          /\ 0 \in {call[c].cookie, call[c].header} \/ call[c].cookie # call[c].header
      BY <3>1, <3>2 DEF Refusal
    <3>4. call[c].header = 0 \/ call[c].cookie # call[c].header
      BY <3>3
    <3>5. call[c].header # 0 => call[c].again
      BY <1>2, <3>4, <1>3 DEF CsrfIInv, RequestsOK, Call
    <3>6. call[c].header # 0 => raced
      BY <1>2, <3>4 DEF CsrfIInv, OneToken, CallAt, InFlight, Live
    <3>7. QED
      BY <1>4, <3>2, <3>3, <3>5, <3>6
  <2>2. QED
    BY <1>2, <1>5, <1>6, <2>1 DEF CsrfIInv, OwnPagesPass, CallAt
<1>11. QED
  BY <1>7, <1>8, <1>9, <1>10 DEF CsrfIInv

-----------------------------------------------------------------------------

\* Every step preserves the invariant.
LEMMA CsrfNextIInv == CsrfIInv /\ [CsrfNext]_csrfVars => CsrfIInv'
<1> SUFFICES ASSUME CsrfIInv, [CsrfNext]_csrfVars PROVE CsrfIInv'
  OBVIOUS
<1>1. ASSUME NEW c \in Calls, Start(c)
      PROVE  CsrfIInv'
  <2>1. PICK safe \in BOOLEAN : Leave(c, jar, safe, FALSE)
    BY <1>1 DEF Start
  <2>2. c \notin InFlight /\ jar \in Tokens /\ jar \in 0 .. issued
    BY <1>1 DEF Start, CallAt, InFlight, CsrfIInv, CsrfTypeOK
  <2>3. QED
    BY <2>1, <2>2, LeaveIInv
<1>2. ASSUME NEW c \in Calls, Retry(c)
      PROVE  CsrfIInv'
  <2>1. /\ c \notin InFlight /\ c \in Live
        /\ call[c].header \in Tokens /\ call[c].safe \in BOOLEAN
        /\ call[c].header \in 0 .. issued
    BY <1>2 DEF Retry, CallAt, InFlight, Live, CsrfIInv, CsrfTypeOK, Call
  <2>2. ~raced => call[c].header \in {0, jar}
    BY <2>1 DEF CsrfIInv, OneToken
  <2>3. Leave(c, call[c].header, call[c].safe, TRUE)
    BY <1>2 DEF Retry
  <2>4. QED
    BY <2>1, <2>2, <2>3, LeaveIInv
<1>3. ASSUME NEW c \in Calls, GiveUp(c) \/ Lose(c)
      PROVE  CsrfIInv'
  BY <1>3, EndIInv DEF GiveUp, Lose
<1>4. ASSUME CookieExpires
      PROVE  CsrfIInv'
  <2>1. /\ jar' = 0 /\ InFlight = {} /\ Live = {}
        /\ UNCHANGED <<origin, issued, call, raced>>
    BY <1>4 DEF CookieExpires, InFlight, Live, CallAt
  <2>2. CsrfTypeOK'
    BY <2>1, CsrfAssumption DEF CsrfIInv, CsrfTypeOK, Tokens
  <2>3. RequestsOK' /\ OwnPagesPass' /\ OneToken'
    BY <2>1 DEF CsrfIInv, RequestsOK, OwnPagesPass, OneToken, CallAt, InFlight, Live
  <2>4. QED
    BY <2>2, <2>3 DEF CsrfIInv
<1>5. CASE UNCHANGED csrfVars
  BY <1>5 DEF csrfVars, CsrfIInv, CsrfTypeOK, RequestsOK, OneToken, OwnPagesPass, CallAt,
              InFlight, Live
<1>6. QED
  BY <1>1, <1>2, <1>3, <1>4, <1>5, ReceiveIInv, DispatchIInv DEF CsrfNext

\* The invariant the theorems about the double-submit check rest on.
THEOREM CsrfInductive == CsrfSpec => []CsrfIInv
  BY CsrfInitIInv, CsrfNextIInv, PTL DEF CsrfSpec

\* The jar and the calls keep their types.
THEOREM CsrfTypeCorrect == CsrfSpec => []CsrfTypeOK
<1>1. CsrfIInv => CsrfTypeOK
  BY DEF CsrfIInv
<1>2. QED
  BY <1>1, CsrfInductive, PTL

\* The check of CSRFMiddleware refuses a page of the program only a call begun with
\* an empty jar, or the second try of one after two first visits raced.
THEOREM OwnPages == CsrfSpec => []OwnPagesPass
<1>1. CsrfIInv => OwnPagesPass
  BY DEF CsrfIInv
<1>2. QED
  BY <1>1, CsrfInductive, PTL

-----------------------------------------------------------------------------
(***************************************************************************)
(* The rate limiter: the limit is exact.  Requests are counted as sets: of *)
(* those with a place below the limit, and of those that were asked.       *)
(***************************************************************************)

\* The clock and its minutes.
LEMMA MinuteBounds ==
    ASSUME NEW t \in Nat
    PROVE  /\ Minute(t) \in Nat
           /\ Minute(t) * TicksPerMinute <= t
           /\ t < (Minute(t) + 1) * TicksPerMinute
  BY RateAssumption DEF Minute

LEMMA MinuteGrows ==
    ASSUME NEW t \in Nat, NEW u \in Nat, t <= u
    PROVE  Minute(t) <= Minute(u)
  BY RateAssumption, MinuteBounds DEF Minute

\* A key that expires a whole minute after the request's has outlived it.
LEMMA MinuteOver ==
    ASSUME NEW t \in Nat, NEW u \in Nat, t + TicksPerMinute <= u
    PROVE  Minute(t) < Minute(u)
<1>1. (Minute(t) + 1) * TicksPerMinute <= u
  BY MinuteBounds, RateAssumption
<1>2. QED
  BY <1>1, RateAssumption, MinuteBounds DEF Minute

Clients == Addresses \cup Subjects

\* Whose counter a request is at, and whether it came from w in minute m.
AtOf(x) == IF x.stage \in {"ip", "ipExpire"} THEN x.ip ELSE x.subject
From(x, w, m) == x.stage # "new" /\ w \in {x.ip, x.subject} /\ x.minute = m

\* The request has its place below the limit of w in minute m, or will have it when
\* the EXPIRE behind its INCR is done within the minute.
CountedFor(x, w, m) ==
    /\ From(x, w, m)
    /\ \/ /\ ~x.open /\ ~x.late
          /\ x.stage = "passed" \/ (w \in Addresses /\ x.stage \in {"subject", "subjectExpire"})
       \/ x.stage \in {"ipExpire", "subjectExpire"} /\ AtOf(x) = w /\ m = Minute(now)

\* The request has been checked against the counter of w.
AskedFor(x, w, m) ==
    /\ From(x, w, m)
    /\ IF w \in Addresses THEN x.stage # "ip"
       ELSE x.stage \in {"subjectExpire", "passed"} \/ (x.stage = "refused" /\ x.by = w)

Counted(w, m) == {r \in Requests : CountedFor(pending[r], w, m)}
Asked(w, m) == {r \in Requests : AskedFor(pending[r], w, m)}

\* The counter as the next check of this minute sees it.
Known(w, m) ==
    IF backend = "memory" /\ minute # Minute(now) THEN 0 ELSE hits[<<w, m>>]

PassageOK(x) ==
    /\ x \in Passage
    /\ x.stage # "new" => x.ip \in Addresses
    /\ x.stage \in {"subject", "subjectExpire"} => x.subject \in Subjects
    /\ x.stage \in {"ipExpire", "subjectExpire"} => x.count = 1 /\ backend = "redis"
    /\ x.minute <= Minute(now)
    /\ x.stage = "refused" => x.by \in {x.ip, x.subject} \cap Clients

\* A key with a TTL outlives its minute.
WindowsOK(e) ==
    /\ e \in [Counters -> 0 .. MaxTime + TicksPerMinute]
    /\ \A w \in Clients, m \in Minutes : e[<<w, m>>] # 0 => m < Minute(e[<<w, m>>])

RateTables ==
    /\ backend \in {"memory", "redis"} /\ tier \in {"auth", "llm"}
    /\ now \in 0 .. MaxTime
    /\ minute \in 0 .. Minute(now)
    /\ hits \in [Counters -> Nat]
    /\ WindowsOK(expires)
    /\ pending \in [Requests -> Passage]
    /\ faults \in 0 .. MaxFaults
    /\ backend = "memory" => \A k \in Counters : hits[k] <= RateLimit
    /\ \A r \in Requests : PassageOK(pending[r])

RateIInv ==
    /\ RateTables
    /\ \A w \in Clients, m \in Minutes :
          /\ Cardinality(Counted(w, m)) <= RateLimit
          /\ m = Minute(now) => Cardinality(Counted(w, m)) <= Known(w, m)
          /\ hits[<<w, m>>] <= Cardinality(Asked(w, m))
    /\ OnlyOverLimit

LEMMA RequestSets ==
    ASSUME NEW S \in SUBSET Requests
    PROVE  IsFiniteSet(S) /\ Cardinality(S) \in Nat
<1>1. IsFiniteSet(Requests)
  BY FS_Interval, RateAssumption DEF Requests
<1>2. QED
  BY <1>1, FS_Subset, FS_CardinalityType

LEMMA RequestSubsets ==
    ASSUME NEW T \in SUBSET Requests, NEW S \in SUBSET T
    PROVE  Cardinality(S) <= Cardinality(T)
  BY RequestSets, FS_Subset

LEMMA OneMore ==
    ASSUME NEW S \in SUBSET Requests, NEW T \in SUBSET Requests, NEW r \in Requests
    PROVE  /\ T \subseteq S \cup {r} => Cardinality(T) <= Cardinality(S) + 1
           /\ r \notin S /\ S \cup {r} \subseteq T => Cardinality(S) + 1 <= Cardinality(T)
<1>1. /\ IsFiniteSet(S \cup {r}) /\ S \cup {r} \in SUBSET Requests
      /\ Cardinality(S \cup {r}) = IF r \in S THEN Cardinality(S) ELSE Cardinality(S) + 1
  BY RequestSets, FS_AddElement
<1>2. Cardinality(S) \in Nat /\ Cardinality(T) \in Nat
  BY RequestSets
<1>3. CASE T \subseteq S \cup {r}
  BY <1>1, <1>2, <1>3, RequestSubsets
<1>4. CASE r \notin S /\ S \cup {r} \subseteq T
  BY <1>1, <1>2, <1>4, RequestSubsets
<1>5. QED
  BY <1>3, <1>4

LEMMA TheMinute ==
    ASSUME NEW t \in 0 .. MaxTime
    PROVE  Minute(t) \in Minutes
  BY MinuteGrows, MinuteBounds, RateAssumption DEF Minutes, Minute

\* The invariant of the rate limiter holds with no request and no count.
THEOREM RateInitIInv == RateInit => RateIInv
<1> SUFFICES ASSUME RateInit PROVE RateIInv
  OBVIOUS
<1>1. Minute(0) = 0 /\ 0 \in Minutes
  BY TheMinute, RateAssumption DEF Minute
<1>2. \A r \in Requests : pending[r] = [stage |-> "new", ip |-> NoSubject, subject |-> NoSubject,
         minute |-> 0, count |-> 0, by |-> NoSubject, open |-> FALSE, late |-> FALSE]
  BY DEF RateInit
<1>3. RateTables
  <2>1. pending \in [Requests -> Passage]
    BY <1>1, RateAssumption DEF RateInit, Passage, PassageStages
  <2>2. /\ backend \in {"memory", "redis"} /\ tier \in {"auth", "llm"}
        /\ now = 0 /\ minute = 0 /\ faults = 0 /\ Minute(now) = 0
        /\ hits = [k \in Counters |-> 0] /\ expires = [k \in Counters |-> 0]
    BY <1>1 DEF RateInit
  <2>3. \A r \in Requests : PassageOK(pending[r])
    BY <1>2, <2>1, <2>2 DEF PassageOK
  <2>4. \A w \in Clients, m \in Minutes : expires[<<w, m>>] = 0
    BY <2>2 DEF Counters, Clients
  <2>5. /\ now \in 0 .. MaxTime /\ minute \in 0 .. Minute(now) /\ faults \in 0 .. MaxFaults
        /\ hits \in [Counters -> Nat] /\ expires \in [Counters -> 0 .. MaxTime + TicksPerMinute]
        /\ \A k \in Counters : hits[k] <= RateLimit
    BY <2>2, RateAssumption
  <2>6. QED
    BY <2>1, <2>2, <2>3, <2>4, <2>5 DEF RateTables, WindowsOK
<1>4. ASSUME NEW w \in Clients, NEW m \in Minutes
      PROVE  Counted(w, m) = {} /\ Asked(w, m) = {}
  BY <1>2 DEF Counted, Asked, CountedFor, AskedFor, From
<1>5. ASSUME NEW w \in Clients, NEW m \in Minutes
      PROVE  hits[<<w, m>>] = 0
  BY <1>5 DEF RateInit, Counters, Clients
<1>6. OnlyOverLimit
  BY <1>2 DEF OnlyOverLimit, Reached
<1>7. QED
  BY <1>3, <1>4, <1>5, <1>6, FS_EmptySet, RateAssumption DEF RateIInv, Known

\* A check of request r at the counter of w in minute m, with or without its answer:
\* what the tables, the sets of requests and a refusal must agree on.
CounterStep(r, q, w, m) ==
    /\ w = Who(r) /\ m = pending[r].minute /\ ~Reached(r, "new")
    /\ pending' = [pending EXCEPT ![r] = q]
    /\ q.ip = pending[r].ip /\ q.subject = pending[r].subject /\ q.minute = m /\ q.stage # "new"
    /\ PassageOK(q)
    /\ UNCHANGED <<backend, tier, now>> /\ faults' \in 0 .. MaxFaults
    /\ minute' \in 0 .. Minute(now)
    /\ hits' \in [Counters -> Nat] /\ WindowsOK(expires')
    /\ backend = "memory" => \A k \in Counters : hits'[k] <= RateLimit
    /\ \A v \in Clients, n \in Minutes : AskedFor(pending[r], v, n) => AskedFor(q, v, n)
    /\ \A v \in Clients, n \in Minutes :
           hits'[<<v, n>>] <= hits[<<v, n>>] \/ <<v, n>> = <<w, m>>
    /\ \/ hits'[<<w, m>>] <= hits[<<w, m>>]
       \/ /\ hits'[<<w, m>>] = hits[<<w, m>>] + 1
          /\ ~AskedFor(pending[r], w, m) /\ AskedFor(q, w, m)
    /\ \A v \in Clients : Known(v, Minute(now)) <= Known(v, Minute(now))'
    /\ \A v \in Clients, n \in Minutes : CountedFor(q, v, n) =>
           \/ CountedFor(pending[r], v, n)
           \/ /\ v = w /\ n = m /\ m = Minute(now)
              /\ Known(w, m) < RateLimit /\ Known(w, m) + 1 <= Known(w, m)'
    /\ q.stage = "refused" => q.by = w /\ hits[<<w, m>>] >= RateLimit
                                 /\ ~AskedFor(pending[r], w, m)

LEMMA AskStep ==
    ASSUME RateIInv, NEW r \in Requests, NEW q \in Passage,
           NEW w \in Clients, NEW m \in Minutes, CounterStep(r, q, w, m)
    PROVE  RateIInv'
<1> USE DEF CounterStep
<1>1. /\ \A s \in Requests : PassageOK(pending[s]) /\ pending[s] \in Passage
      /\ pending \in [Requests -> Passage] /\ hits \in [Counters -> Nat]
      /\ now \in 0 .. MaxTime
  BY DEF RateIInv, RateTables, PassageOK
<1>2. pending' \in [Requests -> Passage] /\ pending'[r] = q
  BY <1>1
<1>3. \A s \in Requests \ {r} : pending'[s] = pending[s]
  BY <1>1
<1>4. RateTables'
  <2>1. \A s \in Requests : PassageOK(pending[s])'
    BY <1>1, <1>2, <1>3 DEF PassageOK
  <2>2. QED
    BY <1>2, <2>1 DEF RateIInv, RateTables
<1>5. ASSUME NEW v \in Clients, NEW n \in Minutes
      PROVE  /\ Counted(v, n)' \subseteq Counted(v, n) \cup {r}
             /\ ~CountedFor(q, v, n) => Counted(v, n)' \subseteq Counted(v, n)
             /\ CountedFor(pending[r], v, n) => Counted(v, n)' \subseteq Counted(v, n)
             /\ Asked(v, n) \subseteq Asked(v, n)'
             /\ ~AskedFor(pending[r], v, n) /\ AskedFor(q, v, n) =>
                   r \notin Asked(v, n) /\ Asked(v, n) \cup {r} \subseteq Asked(v, n)'
  <2>1. \A s \in Requests : CountedFor(pending[s], v, n)' <=> CountedFor(pending'[s], v, n)
    BY DEF CountedFor, From, AtOf
  <2>2. \A s \in Requests : AskedFor(pending[s], v, n)' <=> AskedFor(pending'[s], v, n)
    BY DEF AskedFor, From
  <2>3. QED
    BY <1>2, <1>3, <2>1, <2>2 DEF Counted, Asked
<1>6. ASSUME NEW v \in Clients, NEW n \in Minutes
      PROVE  /\ Counted(v, n) \in SUBSET Requests /\ Counted(v, n)' \in SUBSET Requests
             /\ Asked(v, n) \in SUBSET Requests /\ Asked(v, n)' \in SUBSET Requests
             /\ Cardinality(Counted(v, n)) \in Nat /\ Cardinality(Counted(v, n)') \in Nat
             /\ Cardinality(Asked(v, n)) \in Nat /\ Cardinality(Asked(v, n)') \in Nat
             /\ hits[<<v, n>>] \in Nat /\ hits'[<<v, n>>] \in Nat
             /\ Known(v, n) \in Nat /\ Known(v, n)' \in Nat
  <2>1. /\ Counted(v, n) \in SUBSET Requests /\ Counted(v, n)' \in SUBSET Requests
        /\ Asked(v, n) \in SUBSET Requests /\ Asked(v, n)' \in SUBSET Requests
    BY DEF Counted, Asked, Requests
  <2>2. hits[<<v, n>>] \in Nat /\ hits'[<<v, n>>] \in Nat
    BY <1>1 DEF Counters, Clients
  <2>3. QED
    BY <2>1, <2>2, RequestSets DEF Known
<1>7. ASSUME NEW v \in Clients, NEW n \in Minutes
      PROVE  /\ Cardinality(Counted(v, n)') <= RateLimit
             /\ n = Minute(now) => Cardinality(Counted(v, n)') <= Known(v, n)'
  <2>1. /\ Cardinality(Counted(v, n)) <= RateLimit
        /\ n = Minute(now) => Cardinality(Counted(v, n)) <= Known(v, n)
    BY DEF RateIInv
  <2>2. n = Minute(now) => Known(v, n) <= Known(v, n)'
    OBVIOUS
  <2>3. CASE ~CountedFor(q, v, n) \/ CountedFor(pending[r], v, n)
    <3>1. Counted(v, n)' \subseteq Counted(v, n)
      BY <1>5, <2>3
    <3>2. Cardinality(Counted(v, n)') <= Cardinality(Counted(v, n))
      BY <1>6, <3>1, RequestSubsets
    <3>3. \A i, j, k \in Nat : i <= j /\ j <= k => i <= k
      OBVIOUS
    <3>4. Cardinality(Counted(v, n)') <= RateLimit
      BY <1>6, <2>1, <3>2, <3>3, RateAssumption
    <3>5. ASSUME n = Minute(now)
          PROVE  Cardinality(Counted(v, n)') <= Known(v, n)'
      <4>1. Cardinality(Counted(v, n)') <= Known(v, n)
        BY <1>6, <2>1, <3>2, <3>3, <3>5
      <4>2. QED
        BY <1>6, <2>2, <3>3, <3>5, <4>1
    <3>6. QED
      BY <3>4, <3>5
  <2>4. CASE CountedFor(q, v, n) /\ ~CountedFor(pending[r], v, n)
    <3>1. v = w /\ n = m /\ m = Minute(now) /\ Known(w, m) < RateLimit
            /\ Known(w, m) + 1 <= Known(w, m)'
      BY <2>4
    <3>2. Cardinality(Counted(v, n)') <= Cardinality(Counted(v, n)) + 1
      BY <1>5, <1>6, OneMore
    <3>3. QED
      BY <1>6, <2>1, <3>1, <3>2, RateAssumption
  <2>5. QED
    BY <2>3, <2>4
<1>8. ASSUME NEW v \in Clients, NEW n \in Minutes
      PROVE  hits'[<<v, n>>] <= Cardinality(Asked(v, n)')
  <2>1. hits[<<v, n>>] <= Cardinality(Asked(v, n))
    BY DEF RateIInv
  <2>2. CASE hits'[<<v, n>>] <= hits[<<v, n>>]
    <3>1. Cardinality(Asked(v, n)) <= Cardinality(Asked(v, n)')
      BY <1>5, <1>6, RequestSubsets
    <3>2. QED
      BY <1>6, <2>1, <2>2, <3>1
  <2>3. CASE ~(hits'[<<v, n>>] <= hits[<<v, n>>])
    <3>1. v = w /\ n = m
      BY <2>3
    <3>2. hits'[<<v, n>>] = hits[<<v, n>>] + 1 /\ ~AskedFor(pending[r], v, n) /\ AskedFor(q, v, n)
      BY <2>3, <3>1
    <3>3. Cardinality(Asked(v, n)) + 1 <= Cardinality(Asked(v, n)')
      BY <1>5, <1>6, <3>2, OneMore
    <3>4. QED
      BY <1>6, <2>1, <3>2, <3>3
  <2>4. QED
    BY <2>2, <2>3
<1>9. ASSUME NEW s \in Requests, Reached(s, "refused")'
      PROVE  Cardinality(Of(pending[s].by, pending[s].minute) \ {s})' >= RateLimit
  <2>1. \A v, n : Of(v, n)' = Of(v, n)
    BY <1>2, <1>3 DEF Of, Arrived, Reached
  <2>2. CASE s # r
    BY <1>3, <1>9, <2>1, <2>2 DEF RateIInv, OnlyOverLimit, Reached
  <2>3. CASE s = r
    <3>1. q.by = w /\ hits[<<w, m>>] >= RateLimit /\ ~AskedFor(pending[r], w, m)
      BY <1>2, <1>9, <2>3 DEF Reached
    <3>2. Asked(w, m) \subseteq Of(w, m) \ {r}
      BY <3>1 DEF Asked, AskedFor, From, Of, Arrived, Reached
    <3>3. Of(w, m) \ {r} \in SUBSET Requests
      BY DEF Of, Arrived
    <3>4. Cardinality(Asked(w, m)) <= Cardinality(Of(w, m) \ {r})
            /\ Cardinality(Of(w, m) \ {r}) \in Nat
      BY <3>2, <3>3, RequestSubsets, RequestSets
    <3>5. Cardinality(Of(w, m) \ {r}) >= RateLimit
      BY <1>6, <3>1, <3>4, RateAssumption DEF RateIInv
    <3>6. QED
      BY <1>2, <2>1, <2>3, <3>1, <3>5
  <2>4. QED
    BY <2>2, <2>3
<1>10. OnlyOverLimit'
  BY <1>9 DEF OnlyOverLimit
<1>11. QED
  BY <1>4, <1>7, <1>8, <1>10 DEF RateIInv

LEMMA ArriveIInv ==
    ASSUME RateIInv, NEW r \in Requests, Arrive(r)
    PROVE  RateIInv'
<1>1. PICK ip \in Addresses, subject \in Subjects \cup {NoSubject} :
         pending' = [pending EXCEPT ![r].stage = "ip", ![r].ip = ip, ![r].subject = subject,
                            ![r].minute = Minute(now)]
  BY DEF Arrive
<1>2. /\ UNCHANGED <<backend, tier, now, minute, hits, expires, faults>>
      /\ pending[r].stage = "new" /\ pending \in [Requests -> Passage] /\ now \in 0 .. MaxTime
  BY DEF Arrive, Reached, RateIInv, RateTables
<1>3. Minute(now) \in Minutes /\ Minute(now) <= Minute(now) /\ pending[r] \in Passage
  BY <1>2, TheMinute, MinuteBounds
<1>4. /\ pending'[r].stage = "ip" /\ pending'[r].ip = ip /\ pending'[r].minute = Minute(now)
      /\ pending'[r] \in Passage /\ pending' \in [Requests -> Passage]
      /\ \A s \in Requests \ {r} : pending'[s] = pending[s]
  BY <1>1, <1>2, <1>3 DEF Passage, PassageStages
<1>5. RateTables'
  <2>1. \A s \in Requests : PassageOK(pending[s])'
    BY <1>2, <1>3, <1>4 DEF RateIInv, RateTables, PassageOK
  <2>2. QED
    BY <1>2, <1>4, <2>1 DEF RateIInv, RateTables
<1>6. ASSUME NEW v \in Clients, NEW n \in Minutes
      PROVE  /\ Counted(v, n)' \subseteq Counted(v, n) /\ Asked(v, n) \subseteq Asked(v, n)'
             /\ Known(v, n)' = Known(v, n)
  <2>1. \A s \in Requests :
           /\ CountedFor(pending[s], v, n)' <=> CountedFor(pending'[s], v, n)
           /\ AskedFor(pending[s], v, n)' <=> AskedFor(pending'[s], v, n)
    BY <1>2 DEF CountedFor, AskedFor, From, AtOf
  <2>2. ~CountedFor(pending'[r], v, n) /\ ~AskedFor(pending[r], v, n)
    BY <1>2, <1>4 DEF CountedFor, AskedFor, From
  <2>3. QED
    BY <1>2, <1>4, <2>1, <2>2 DEF Counted, Asked, Known
<1>7. ASSUME NEW v \in Clients, NEW n \in Minutes
      PROVE  /\ Cardinality(Counted(v, n)') <= RateLimit
             /\ n = Minute(now) => Cardinality(Counted(v, n)') <= Known(v, n)
             /\ hits[<<v, n>>] <= Cardinality(Asked(v, n)')
  <2>1. /\ Counted(v, n) \in SUBSET Requests /\ Asked(v, n)' \in SUBSET Requests
    BY DEF Counted, Asked, Requests
  <2>2. /\ Cardinality(Counted(v, n)') <= Cardinality(Counted(v, n))
        /\ Cardinality(Asked(v, n)) <= Cardinality(Asked(v, n)')
    BY <1>6, <2>1, RequestSubsets
  <2>3. /\ Cardinality(Counted(v, n)') \in Nat /\ Cardinality(Counted(v, n)) \in Nat
        /\ Cardinality(Asked(v, n)) \in Nat /\ Cardinality(Asked(v, n)') \in Nat
    BY <1>6, <2>1, RequestSets
  <2>4. hits[<<v, n>>] \in Nat /\ Known(v, n) \in Nat
    BY DEF RateIInv, RateTables, Counters, Clients, Known
  <2>5. \A i, j, k \in Nat : i <= j /\ j <= k => i <= k
    OBVIOUS
  <2>6. /\ Cardinality(Counted(v, n)) <= RateLimit
        /\ n = Minute(now) => Cardinality(Counted(v, n)) <= Known(v, n)
        /\ hits[<<v, n>>] <= Cardinality(Asked(v, n))
    BY DEF RateIInv
  <2>7. QED
    BY <2>2, <2>3, <2>4, <2>5, <2>6, RateAssumption
<1>8. OnlyOverLimit'
  <2>1. ASSUME NEW s \in Requests, pending'[s].stage = "refused"
        PROVE  Cardinality(Of(pending[s].by, pending[s].minute) \ {s})' >= RateLimit
    <3>1. s # r /\ pending'[s] = pending[s] /\ Reached(s, "refused")
      BY <1>4, <2>1 DEF Reached
    <3>2. PICK v, n : v = pending[s].by /\ n = pending[s].minute
      OBVIOUS
    <3>3. Of(v, n) \subseteq Of(v, n)' /\ Of(v, n)' \in SUBSET Requests
      BY <1>2, <1>4 DEF Of, Arrived, Reached
    <3>4. Cardinality(Of(v, n) \ {s}) >= RateLimit
      BY <3>1, <3>2 DEF RateIInv, OnlyOverLimit
    <3>5. /\ Cardinality(Of(v, n) \ {s}) <= Cardinality(Of(v, n)' \ {s})
          /\ Cardinality(Of(v, n) \ {s}) \in Nat /\ Cardinality(Of(v, n)' \ {s}) \in Nat
      BY <3>3, RequestSubsets, RequestSets
    <3>6. Cardinality(Of(v, n)' \ {s}) >= RateLimit
      BY <3>4, <3>5, RateAssumption
    <3>7. v = pending'[s].by /\ n = pending'[s].minute
      BY <3>1, <3>2
    <3>8. Of(v, n)' = Of(pending[s].by, pending[s].minute)'
      BY <3>7 DEF Of
    <3>9. QED
      BY <3>6, <3>8
  <2>2. QED
    BY <2>1 DEF OnlyOverLimit, Reached
<1>9. QED
  BY <1>2, <1>5, <1>6, <1>7, <1>8 DEF RateIInv

\* The answer of a check: who is counted, who has asked, who is refused.
VerdictOf(r, q, w, m, allowed, open) ==
    /\ q.ip = pending[r].ip /\ q.subject = pending[r].subject /\ q.minute = m
    /\ q.stage # "new" /\ PassageOK(q)
    /\ \A v \in Clients, n \in Minutes : AskedFor(pending[r], v, n) => AskedFor(q, v, n)
    /\ AskedFor(q, w, m)
    /\ \A v \in Clients, n \in Minutes : CountedFor(q, v, n) =>
          \/ CountedFor(pending[r], v, n)
          \/ v = w /\ n = m /\ m = Minute(now) /\ allowed /\ ~open
    /\ q.stage = "refused" => ~allowed /\ q.by = w

LEMMA VerdictStep ==
    ASSUME RateIInv, NEW r \in Requests,
           pending[r].stage \in {"ip", "ipExpire", "subject", "subjectExpire"},
           NEW w, w = Who(r), NEW m, m = pending[r].minute,
           NEW allowed \in BOOLEAN, NEW open \in BOOLEAN, Verdict(r, allowed, open)
    PROVE  \E q \in Passage : pending' = [pending EXCEPT ![r] = q] /\ VerdictOf(r, q, w, m, allowed, open)
<1> USE DEF VerdictOf
<1> DEFINE x == pending[r]
           late == x.late \/ Minute(now) # x.minute
           phase == IF ~allowed THEN "refused"
                    ELSE IF x.stage \in {"ip", "ipExpire"} /\ x.subject # NoSubject
                    THEN "subject" ELSE "passed"
           by == IF allowed THEN x.by ELSE w
           opened == x.open \/ open
           q == [stage |-> phase, ip |-> x.ip, subject |-> x.subject, minute |-> x.minute,
                 count |-> 0, by |-> by, open |-> opened, late |-> late]
<1>1. x \in Passage /\ PassageOK(x)
  BY DEF RateIInv, RateTables
<1>2. /\ x.ip \in Addresses /\ w = AtOf(x) /\ w \in {x.ip, x.subject} \cap Clients
      /\ x.subject \in Subjects \cup {NoSubject}
      /\ x.stage \in {"subject", "subjectExpire"} => x.subject \in Subjects
  BY <1>1 DEF PassageOK, Passage, Who, AtOf, Clients
<1>3. late \in BOOLEAN /\ 0 \in 0 .. MaxRequests /\ w \in Clients \cup {NoSubject}
  BY <1>2, RateAssumption
<1>4. /\ q.ip = x.ip /\ q.subject = x.subject /\ q.minute = m /\ q.count = 0
      /\ q.by = (IF allowed THEN x.by ELSE w)
      /\ q.open = (x.open \/ open) /\ q.late = late
      /\ q.stage = IF ~allowed THEN "refused"
                   ELSE IF x.stage \in {"ip", "ipExpire"} /\ x.subject # NoSubject
                   THEN "subject" ELSE "passed"
  BY <1>1 DEF Passage
<1>5. /\ phase \in PassageStages /\ by \in Addresses \cup Subjects \cup {NoSubject}
      /\ opened \in BOOLEAN
  BY <1>1, <1>3 DEF Passage, PassageStages, Clients
<1>6. [x EXCEPT !.stage = phase, !.by = by, !.count = 0, !.open = opened, !.late = late] = q
  <2> HIDE DEF phase, by, opened, late
  <2> DEFINE y == [x EXCEPT !.stage = phase, !.by = by, !.count = 0, !.open = opened, !.late = late]
  <2>1. x \in Passage /\ 0 \in 0 .. MaxRequests /\ late \in BOOLEAN
    BY <1>1, <1>3
  <2> HIDE DEF x
  <2>2. /\ y.stage = phase /\ y.by = by /\ y.count = 0 /\ y.open = opened /\ y.late = late
        /\ y.ip = x.ip /\ y.subject = x.subject /\ y.minute = x.minute
    BY <2>1 DEF Passage
  <2>3. y \in Passage
    BY <1>5, <2>1 DEF Passage
  <2> HIDE DEF y
  <2>4. y = [stage |-> y.stage, ip |-> y.ip, subject |-> y.subject, minute |-> y.minute,
             count |-> y.count, by |-> y.by, open |-> y.open, late |-> y.late]
    BY <2>3 DEF Passage
  <2>5. y = q
    BY <2>2, <2>4
  <2>6. QED
    BY <2>5 DEF y
<1>7. pending' = [pending EXCEPT ![r] =
         [x EXCEPT !.stage = phase, !.by = by, !.count = 0, !.open = opened, !.late = late]]
  BY DEF Verdict
<1>8. q \in Passage
  BY <1>1, <1>3, <1>5 DEF Passage
<1>9. pending' = [pending EXCEPT ![r] = q]
  BY <1>6, <1>7
<1> HIDE DEF q, x, phase, by, opened
<1>10. PassageOK(q)
  BY <1>1, <1>2, <1>4, <1>8 DEF PassageOK, x
<1>11. x.stage \in {"ip", "ipExpire", "subject", "subjectExpire"} /\ x = pending[r] /\ x.minute = m
  BY DEF x
<1>12. ASSUME NEW v \in Clients, NEW n \in Minutes, AskedFor(x, v, n)
      PROVE  AskedFor(q, v, n)
  BY <1>2, <1>4, <1>11, <1>12, RateAssumption DEF AskedFor, From, AtOf, Clients
<1>13. AskedFor(q, w, m)
  BY <1>2, <1>4, <1>11, RateAssumption DEF AskedFor, From, AtOf, Clients
<1>14. ASSUME NEW v \in Clients, NEW n \in Minutes, CountedFor(q, v, n)
       PROVE  CountedFor(x, v, n) \/ (v = w /\ n = m /\ m = Minute(now) /\ allowed /\ ~open)
  <2>1. /\ v \in {x.ip, x.subject} /\ n = m /\ allowed /\ ~open /\ ~x.open /\ ~x.late
        /\ Minute(now) = m
        /\ q.stage = "passed" \/ (v \in Addresses /\ q.stage = "subject")
    BY <1>4, <1>11, <1>14 DEF CountedFor, From
  <2>2. CASE v = w
    BY <2>1, <2>2
  <2>3. CASE v # w
    BY <1>2, <1>4, <1>11, <2>1, <2>3, RateAssumption DEF CountedFor, From, AtOf, Clients
  <2>4. QED
    BY <2>2, <2>3
<1>15. q.stage # "new" /\ (q.stage = "refused" => ~allowed /\ q.by = w)
  BY <1>4
<1>16. QED
  BY <1>4, <1>10, <1>11, <1>12, <1>13, <1>14, <1>15, <1>8, <1>9

\* A request at a counter: whose it is, and that it has not been asked before.
LEMMA AtCounter ==
    ASSUME RateIInv, NEW r \in Requests,
           pending[r].stage \in {"ip", "ipExpire", "subject", "subjectExpire"}
    PROVE  /\ Who(r) \in Clients /\ pending[r].minute \in Minutes
           /\ pending[r].minute <= Minute(now)
           /\ Key(r) = <<Who(r), pending[r].minute>> /\ Key(r) \in Counters
           /\ hits[Key(r)] \in Nat /\ ~Reached(r, "new")
           /\ pending[r].stage \in {"ip", "subject"} =>
                 ~AskedFor(pending[r], Who(r), pending[r].minute)
<1>1. PassageOK(pending[r]) /\ hits \in [Counters -> Nat] /\ pending[r] \in Passage
  BY DEF RateIInv, RateTables, PassageOK
<1>2. Who(r) \in Clients /\ pending[r].minute \in Minutes /\ ~Reached(r, "new")
  BY <1>1 DEF PassageOK, Passage, Who, Clients, Reached
<1>3. pending[r].stage \in {"ip", "subject"} => ~AskedFor(pending[r], Who(r), pending[r].minute)
  BY <1>1, RateAssumption DEF PassageOK, Passage, AskedFor, Who
<1>4. QED
  BY <1>1, <1>2, <1>3 DEF Key, Counters, Clients, PassageOK

LEMMA CheckInMemoryIInv ==
    ASSUME RateIInv, NEW r \in Requests, CheckInMemory(r)
    PROVE  RateIInv'
<1> DEFINE known == IF minute = Minute(now) THEN hits ELSE [k \in Counters |-> 0]
<1>1. PICK allowed \in BOOLEAN : allowed <=> known[Key(r)] < RateLimit
  OBVIOUS
<1>2. /\ backend = "memory" /\ pending[r].stage \in {"ip", "subject"}
      /\ UNCHANGED <<backend, tier, now, expires, faults>> /\ minute' = Minute(now)
      /\ hits' = IF allowed THEN [known EXCEPT ![Key(r)] = @ + 1] ELSE known
      /\ Verdict(r, allowed, FALSE)
  <2>1. Verdict(r, known[Key(r)] < RateLimit, FALSE)
    BY DEF CheckInMemory
  <2>2. Verdict(r, allowed, FALSE)
    BY <1>1, <2>1 DEF Verdict
  <2>3. QED
    BY <1>1, <2>2 DEF CheckInMemory, Checking
<1>3. PICK w \in Clients, m \in Minutes :
         /\ w = Who(r) /\ m = pending[r].minute
         /\ Key(r) = <<w, m>> /\ <<w, m>> \in Counters
         /\ ~AskedFor(pending[r], w, m) /\ ~Reached(r, "new")
  BY <1>2, AtCounter
<1>4. /\ hits \in [Counters -> Nat] /\ \A k \in Counters : hits[k] <= RateLimit
      /\ now \in 0 .. MaxTime /\ minute \in 0 .. Minute(now)
  BY <1>2 DEF RateIInv, RateTables
<1>5. Minute(now) \in Nat /\ RateLimit \in Nat \ {0}
  BY <1>4, MinuteBounds, RateAssumption
<1>6. /\ known \in [Counters -> Nat]
      /\ \A k \in Counters : known[k] <= RateLimit /\ known[k] <= hits[k]
  BY <1>4, <1>5
<1>7. \A v \in Clients : <<v, Minute(now)>> \in Counters /\ Minute(now) \in Minutes
  BY <1>4, TheMinute DEF Counters, Clients
<1>8. /\ \A v \in Clients : Known(v, Minute(now)) = known[<<v, Minute(now)>>]
      /\ \A v \in Clients : Known(v, Minute(now))' = hits'[<<v, Minute(now)>>]
  BY <1>2, <1>7 DEF Known, Minute
<1> HIDE DEF known
<1>9. /\ hits' \in [Counters -> Nat] /\ \A k \in Counters : hits'[k] <= RateLimit
      /\ \A k \in Counters \ {<<w, m>>} : hits'[k] = known[k]
      /\ hits'[<<w, m>>] = IF allowed THEN known[<<w, m>>] + 1 ELSE known[<<w, m>>]
  <2>1. known[<<w, m>>] \in Nat /\ known[<<w, m>>] + 1 \in Nat
    BY <1>3, <1>6
  <2>2. CASE allowed
    <3>1. hits' = [known EXCEPT ![<<w, m>>] = known[<<w, m>>] + 1]
      BY <1>2, <1>3, <2>2
    <3>2. known[<<w, m>>] < RateLimit
      BY <1>1, <1>3, <2>2
    <3>3. QED
      BY <1>3, <1>5, <1>6, <2>1, <2>2, <3>1, <3>2
  <2>3. CASE ~allowed
    BY <1>2, <1>3, <1>6, <2>3
  <2>4. QED
    BY <2>2, <2>3
<1>10. PICK q \in Passage : pending' = [pending EXCEPT ![r] = q] /\ VerdictOf(r, q, w, m, allowed, FALSE)
  <2>1. pending[r].stage \in {"ip", "ipExpire", "subject", "subjectExpire"}
    BY <1>2
  <2>2. PICK open \in BOOLEAN : open = FALSE
    OBVIOUS
  <2>3. allowed \in BOOLEAN /\ open \in BOOLEAN /\ Verdict(r, allowed, open)
    BY <1>1, <1>2, <2>2 DEF Verdict
  <2>4. \E q \in Passage : pending' = [pending EXCEPT ![r] = q] /\ VerdictOf(r, q, w, m, allowed, open)
    BY <1>3, <2>1, <2>3, VerdictStep
  <2>5. QED
    BY <2>2, <2>4 DEF VerdictOf
<1>11. \A v \in Clients, n \in Minutes : <<v, n>> \in Counters
  BY DEF Counters, Clients
<1>12. \A v \in Clients, n \in Minutes :
               hits'[<<v, n>>] <= hits[<<v, n>>] \/ <<v, n>> = <<w, m>>
  BY <1>6, <1>9, <1>11
<1>13. \/ hits'[<<w, m>>] <= hits[<<w, m>>]
       \/ hits'[<<w, m>>] = hits[<<w, m>>] + 1
  BY <1>3, <1>4, <1>6, <1>9
<1>14. \A k \in Counters : known[k] <= hits'[k]
  BY <1>6, <1>9
<1>15. \A v \in Clients : Known(v, Minute(now)) <= Known(v, Minute(now))'
  BY <1>7, <1>8, <1>14
<1>16. m = Minute(now) /\ allowed => Known(w, m) < RateLimit /\ Known(w, m) + 1 <= Known(w, m)'
  <2> SUFFICES ASSUME m = Minute(now), allowed
               PROVE  Known(w, m) < RateLimit /\ Known(w, m) + 1 <= Known(w, m)'
    OBVIOUS
  <2>1. Known(w, m) = known[<<w, m>>]
    BY <1>3, <1>8
  <2>2. Known(w, m)' = hits'[<<w, m>>]
    BY <1>2, <1>3 DEF Known, Minute
  <2>3. QED
    BY <1>1, <1>3, <1>6, <1>9, <2>1, <2>2
<1>17. ~allowed => hits[<<w, m>>] >= RateLimit
  BY <1>1, <1>3, <1>4, <1>5, <1>6
<1>18. CounterStep(r, q, w, m)
  <2>1. expires' = expires /\ faults' = faults /\ minute' \in 0 .. Minute(now)
    BY <1>2, <1>5
  <2>2. WindowsOK(expires') /\ faults' \in 0 .. MaxFaults
    BY <2>1 DEF RateIInv, RateTables
  <2>3. QED
    BY <1>2, <1>3, <1>9, <1>10, <1>12, <1>13, <1>15, <1>16, <1>17, <2>1, <2>2 DEF CounterStep, VerdictOf
<1>19. QED
  BY <1>18, AskStep

\* What a command in Redis has counted when the check of r gets its verdict.
CountsFor(r, w, m, allowed, open) ==
    /\ hits' \in [Counters -> Nat]
    /\ hits' = hits \/ (hits' = [hits EXCEPT ![<<w, m>>] = @ + 1] /\ ~AskedFor(pending[r], w, m))
    /\ m = Minute(now) /\ allowed /\ ~open =>
          \/ CountedFor(pending[r], w, m)
          \/ hits[<<w, m>>] < RateLimit /\ hits[<<w, m>>] + 1 <= hits'[<<w, m>>]
    /\ ~allowed => hits[<<w, m>>] >= RateLimit /\ ~AskedFor(pending[r], w, m)

\* The answer of a check that leaves the window alone.
LEMMA AnswerStep ==
    ASSUME RateIInv, NEW r \in Requests, NEW q \in Passage,
           NEW w \in Clients, NEW m \in Minutes,
           NEW allowed \in BOOLEAN, NEW open \in BOOLEAN,
           w = Who(r), m = pending[r].minute, ~Reached(r, "new"),
           pending' = [pending EXCEPT ![r] = q], VerdictOf(r, q, w, m, allowed, open),
           backend = "redis", UNCHANGED <<backend, tier, now, minute>>, faults' \in 0 .. MaxFaults,
           WindowsOK(expires'), CountsFor(r, w, m, allowed, open)
    PROVE  RateIInv'
<1> USE DEF CountsFor
<1>1. /\ hits \in [Counters -> Nat] /\ now \in 0 .. MaxTime /\ minute \in 0 .. Minute(now)
      /\ Minute(now) \in Minutes
  BY TheMinute DEF RateIInv, RateTables
<1>2. \A v \in Clients, n \in Minutes : <<v, n>> \in Counters
  BY DEF Counters, Clients
<1>3. \A v \in Clients, n \in Minutes : Known(v, n) = hits[<<v, n>>] /\ Known(v, n)' = hits'[<<v, n>>]
  BY DEF Known
<1>4. \A k \in Counters : hits[k] <= hits'[k] /\ (hits'[k] <= hits[k] \/ k = <<w, m>>)
  <2>1. CASE hits' = hits
    BY <1>1, <2>1
  <2>2. CASE hits' = [hits EXCEPT ![<<w, m>>] = @ + 1]
    BY <1>1, <2>2
  <2>3. QED
    BY <2>1, <2>2
<1>5. \A v \in Clients, n \in Minutes : hits[<<v, n>>] <= hits'[<<v, n>>]
  BY <1>4, <1>2
<1>6. \A v \in Clients, n \in Minutes :
          hits'[<<v, n>>] <= hits[<<v, n>>] \/ <<v, n>> = <<w, m>>
  BY <1>4, <1>2
<1>7. \/ hits'[<<w, m>>] <= hits[<<w, m>>]
      \/ hits'[<<w, m>>] = hits[<<w, m>>] + 1 /\ ~AskedFor(pending[r], w, m)
  BY <1>1, <1>2
<1>8. AskedFor(q, w, m)
  BY DEF VerdictOf
<1>9. ASSUME NEW v \in Clients, NEW n \in Minutes, CountedFor(q, v, n), ~CountedFor(pending[r], v, n)
      PROVE  /\ v = w /\ n = m /\ m = Minute(now)
             /\ Known(w, m) < RateLimit /\ Known(w, m) + 1 <= Known(w, m)'
  <2>1. v = w /\ n = m /\ m = Minute(now) /\ allowed /\ ~open
    BY <1>9 DEF VerdictOf
  <2>2. hits[<<w, m>>] < RateLimit /\ hits[<<w, m>>] + 1 <= hits'[<<w, m>>]
    BY <1>9, <2>1
  <2>3. QED
    BY <1>3, <2>1, <2>2
<1>10. minute' \in 0 .. Minute(now)
  BY <1>1
<1>11. \A v \in Clients : Known(v, Minute(now)) <= Known(v, Minute(now))'
  <2>1. \A v \in Clients : Known(v, Minute(now))' = hits'[<<v, Minute(now)>>]
    BY DEF Known, Minute
  <2>2. ASSUME NEW v \in Clients
        PROVE  Known(v, Minute(now)) <= Known(v, Minute(now))'
    <3>1. Known(v, Minute(now)) = hits[<<v, Minute(now)>>]
      BY <1>1, <1>3
    <3>2. QED
      BY <1>1, <1>5, <2>1, <3>1
  <2>3. QED
    BY <2>2
<1>12. CounterStep(r, q, w, m)
  BY <1>6, <1>7, <1>8, <1>9, <1>10, <1>11 DEF CounterStep, VerdictOf
<1>13. QED
  BY <1>12, AskStep

LEMMA SetExpiryIInv ==
    ASSUME RateIInv, NEW r \in Requests, SetExpiry(r)
    PROVE  RateIInv'
<1>1. /\ pending[r].stage \in {"ipExpire", "subjectExpire"}
      /\ expires' = [expires EXCEPT ![Key(r)] = IF hits[Key(r)] = 0 THEN 0 ELSE now + TicksPerMinute]
      /\ UNCHANGED <<backend, tier, now, minute, hits, faults>>
  BY DEF SetExpiry, Expiring
<1>2. PICK w \in Clients, m \in Minutes :
         /\ w = Who(r) /\ m = pending[r].minute /\ m <= Minute(now)
         /\ Key(r) = <<w, m>> /\ <<w, m>> \in Counters /\ ~Reached(r, "new")
  BY <1>1, AtCounter
<1>3. pending[r].count = 1 /\ backend = "redis" /\ PassageOK(pending[r])
  BY <1>1 DEF RateIInv, RateTables, PassageOK
<1>4. PICK allowed \in BOOLEAN, open \in BOOLEAN : allowed /\ ~open
  OBVIOUS
<1>5. Verdict(r, allowed, open)
  <2>1. Verdict(r, pending[r].count <= RateLimit, FALSE)
    BY DEF SetExpiry
  <2>2. allowed <=> pending[r].count <= RateLimit
    BY <1>3, <1>4, RateAssumption
  <2>3. QED
    BY <1>4, <2>1, <2>2 DEF Verdict
<1>6. PICK q \in Passage : pending' = [pending EXCEPT ![r] = q] /\ VerdictOf(r, q, w, m, allowed, open)
  BY <1>1, <1>2, <1>5, VerdictStep
<1>7. /\ now \in 0 .. MaxTime /\ hits \in [Counters -> Nat] /\ faults \in 0 .. MaxFaults
      /\ WindowsOK(expires)
  BY DEF RateIInv, RateTables
<1>8. now + TicksPerMinute \in 0 .. MaxTime + TicksPerMinute
  BY <1>7, RateAssumption
<1>9. expires' \in [Counters -> 0 .. MaxTime + TicksPerMinute]
  <2>1. 0 \in 0 .. MaxTime + TicksPerMinute
    BY RateAssumption
  <2>2. QED
    BY <1>1, <1>7, <1>8, <2>1 DEF WindowsOK
<1>10. m < Minute(now + TicksPerMinute)
  <2>1. Minute(now) < Minute(now + TicksPerMinute)
    BY <1>7, MinuteOver, RateAssumption
  <2>2. m \in Nat /\ Minute(now) \in Nat /\ Minute(now + TicksPerMinute) \in Nat
    BY <1>7, MinuteBounds, RateAssumption DEF Minutes
  <2>3. QED
    BY <1>2, <2>1, <2>2
<1>11. ASSUME NEW v \in Clients, NEW n \in Minutes, expires'[<<v, n>>] # 0
       PROVE  n < Minute(expires'[<<v, n>>])
  <2>1. <<v, n>> \in Counters
    BY DEF Counters, Clients
  <2>2. CASE <<v, n>> = <<w, m>>
    <3>1. v = w /\ n = m
      BY <2>2
    <3>2. expires'[<<v, n>>] = now + TicksPerMinute
      BY <1>1, <1>2, <1>7, <1>11, <2>1, <2>2 DEF WindowsOK
    <3>3. QED
      BY <1>10, <3>1, <3>2
  <2>3. CASE <<v, n>> # <<w, m>>
    <3>1. expires'[<<v, n>>] = expires[<<v, n>>]
      BY <1>1, <1>2, <1>7, <2>1, <2>3 DEF WindowsOK
    <3>2. QED
      BY <1>7, <1>11, <3>1 DEF WindowsOK
  <2>4. QED
    BY <2>2, <2>3
<1>12. m = Minute(now) => CountedFor(pending[r], w, m)
  BY <1>1, <1>2, <1>3 DEF CountedFor, From, AtOf, Who, Reached
<1>13. /\ UNCHANGED <<backend, tier, now, minute>> /\ faults' \in 0 .. MaxFaults
       /\ hits' = hits /\ hits' \in [Counters -> Nat]
  BY <1>1, <1>7
<1>14. WindowsOK(expires')
  BY <1>9, <1>11 DEF WindowsOK
<1>15. CountsFor(r, w, m, allowed, open)
  BY <1>4, <1>12, <1>13 DEF CountsFor
<1>16. QED
  BY <1>2, <1>3, <1>4, <1>6, <1>13, <1>14, <1>15, AnswerStep

LEMMA RedisErrorIInv ==
    ASSUME RateIInv, NEW r \in Requests, RedisError(r)
    PROVE  RateIInv'
<1>1. /\ pending[r].stage \in {"ip", "ipExpire", "subject", "subjectExpire"}
      /\ backend = "redis" /\ UNCHANGED <<backend, tier, now, minute, expires>>
      /\ faults < MaxFaults /\ faults' = faults + 1
      /\ \/ hits' = hits
         \/ pending[r].stage \in {"ip", "subject"} /\ hits' = [hits EXCEPT ![Key(r)] = @ + 1]
  BY DEF RedisError, Checking, Expiring
<1>2. PICK w \in Clients, m \in Minutes :
         /\ w = Who(r) /\ m = pending[r].minute
         /\ Key(r) = <<w, m>> /\ <<w, m>> \in Counters /\ ~Reached(r, "new")
         /\ pending[r].stage \in {"ip", "subject"} => ~AskedFor(pending[r], w, m)
  BY <1>1, AtCounter
<1>3. PICK allowed \in BOOLEAN, open \in BOOLEAN : allowed /\ open
  OBVIOUS
<1>4. Verdict(r, allowed, open)
  BY <1>3 DEF RedisError, Verdict
<1>5. PICK q \in Passage : pending' = [pending EXCEPT ![r] = q] /\ VerdictOf(r, q, w, m, allowed, open)
  BY <1>1, <1>2, <1>4, VerdictStep
<1>6. /\ hits \in [Counters -> Nat] /\ faults \in 0 .. MaxFaults
      /\ WindowsOK(expires)
  BY DEF RateIInv, RateTables
<1>7. hits' \in [Counters -> Nat] /\ faults' \in 0 .. MaxFaults
  BY <1>1, <1>2, <1>6, RateAssumption
<1>8. CountsFor(r, w, m, allowed, open)
  BY <1>1, <1>2, <1>3, <1>7 DEF CountsFor
<1>9. QED
  BY <1>1, <1>2, <1>3, <1>5, <1>6, <1>7, <1>8, AnswerStep

LEMMA IncrIInv ==
    ASSUME RateIInv, NEW r \in Requests, Incr(r)
    PROVE  RateIInv'
<1>1. /\ pending[r].stage \in {"ip", "subject"}
      /\ backend = "redis" /\ UNCHANGED <<backend, tier, now, minute, expires, faults>>
      /\ hits' = [hits EXCEPT ![Key(r)] = hits[Key(r)] + 1]
      /\ IF hits[Key(r)] + 1 = 1
         THEN pending' = [pending EXCEPT ![r].stage = IF @ = "ip" THEN "ipExpire" ELSE "subjectExpire",
                                 ![r].count = hits[Key(r)] + 1]
         ELSE Verdict(r, hits[Key(r)] + 1 <= RateLimit, FALSE)
  BY DEF Incr, Checking
<1>2. PICK w \in Clients, m \in Minutes :
         /\ w = Who(r) /\ m = pending[r].minute
         /\ Key(r) = <<w, m>> /\ <<w, m>> \in Counters /\ ~Reached(r, "new")
         /\ ~AskedFor(pending[r], w, m) /\ hits[<<w, m>>] \in Nat
  BY <1>1, AtCounter
<1>3. /\ hits \in [Counters -> Nat] /\ faults \in 0 .. MaxFaults /\ now \in 0 .. MaxTime
      /\ WindowsOK(expires) /\ minute \in 0 .. Minute(now)
      /\ PassageOK(pending[r]) /\ pending[r] \in Passage
  BY DEF RateIInv, RateTables, PassageOK
<1>4. hits' = [hits EXCEPT ![<<w, m>>] = @ + 1] /\ hits' \in [Counters -> Nat]
        /\ hits'[<<w, m>>] = hits[<<w, m>>] + 1
  BY <1>1, <1>2, <1>3
<1>5. CASE hits[<<w, m>>] + 1 # 1
  <2>1. Verdict(r, hits[<<w, m>>] + 1 <= RateLimit, FALSE)
    BY <1>1, <1>2, <1>5
  <2>2. hits[<<w, m>>] + 1 <= hits'[<<w, m>>]
    BY <1>2, <1>4
  <2>3. /\ UNCHANGED <<backend, tier, now, minute>> /\ backend = "redis" /\ faults' \in 0 .. MaxFaults
        /\ WindowsOK(expires')
    BY <1>1, <1>3
  <2>4. CASE hits[<<w, m>>] + 1 <= RateLimit
    <3>1. PICK allowed \in BOOLEAN, open \in BOOLEAN : allowed /\ ~open
      OBVIOUS
    <3>2. Verdict(r, allowed, open)
      BY <2>1, <2>4, <3>1 DEF Verdict
    <3>3. PICK q \in Passage : pending' = [pending EXCEPT ![r] = q] /\ VerdictOf(r, q, w, m, allowed, open)
      BY <1>1, <1>2, <3>2, VerdictStep
    <3>4. hits[<<w, m>>] < RateLimit
      BY <1>2, <2>4, RateAssumption
    <3>5. CountsFor(r, w, m, allowed, open)
      BY <1>2, <1>4, <2>2, <3>1, <3>4 DEF CountsFor
    <3>6. w = Who(r) /\ m = pending[r].minute /\ ~Reached(r, "new")
      BY <1>2
    <3>7. QED
      BY <2>3, <3>3, <3>5, <3>6, AnswerStep
  <2>5. CASE ~(hits[<<w, m>>] + 1 <= RateLimit)
    <3>1. PICK allowed \in BOOLEAN, open \in BOOLEAN : ~allowed /\ ~open
      OBVIOUS
    <3>2. Verdict(r, allowed, open)
      BY <2>1, <2>5, <3>1 DEF Verdict
    <3>3. PICK q \in Passage : pending' = [pending EXCEPT ![r] = q] /\ VerdictOf(r, q, w, m, allowed, open)
      BY <1>1, <1>2, <3>2, VerdictStep
    <3>4. hits[<<w, m>>] >= RateLimit
      BY <1>2, <2>5, RateAssumption
    <3>5. CountsFor(r, w, m, allowed, open)
      BY <1>2, <1>4, <2>2, <3>1, <3>4 DEF CountsFor
    <3>6. w = Who(r) /\ m = pending[r].minute /\ ~Reached(r, "new")
      BY <1>2
    <3>7. QED
      BY <2>3, <3>3, <3>5, <3>6, AnswerStep
  <2>6. QED
    BY <2>4, <2>5
<1>6. CASE hits[<<w, m>>] + 1 = 1
  <2> DEFINE phase == IF pending[r].stage = "ip" THEN "ipExpire" ELSE "subjectExpire"
             q == [pending[r] EXCEPT !.stage = phase, !.count = 1]
  <2>1. pending' = [pending EXCEPT ![r] = q]
    BY <1>1, <1>2, <1>6
  <2>2. /\ q.stage = phase /\ q.count = 1 /\ q.ip = pending[r].ip /\ q.subject = pending[r].subject
        /\ q.minute = m /\ q.open = pending[r].open /\ q.late = pending[r].late
        /\ q.by = pending[r].by
    BY <1>2, <1>3 DEF Passage
  <2>3. 1 \in 0 .. MaxRequests /\ phase \in PassageStages
    BY RateAssumption DEF Requests, PassageStages
  <2>4. q \in Passage
    <3> HIDE DEF phase
    <3>1. QED
      BY <1>3, <2>3 DEF Passage
  <2> HIDE DEF q
  <2>5. PassageOK(q)
    BY <1>1, <1>2, <1>3, <2>2, <2>4 DEF PassageOK
  <2>6. AtOf(q) = w /\ From(q, w, m)
    BY <1>1, <1>2, <1>3, <2>2 DEF AtOf, From, Who
  <2>7. AskedFor(q, w, m)
    BY <1>1, <1>2, <1>3, <2>2, <2>6, RateAssumption DEF AskedFor, Who, PassageOK, Passage, Clients
  <2>8. ASSUME NEW v \in Clients, NEW n \in Minutes, AskedFor(pending[r], v, n)
        PROVE  AskedFor(q, v, n)
    <3>1. From(pending[r], v, n) /\ From(q, v, n) /\ v \in Addresses /\ pending[r].stage = "subject"
      BY <1>1, <1>2, <1>3, <2>2, <2>8, RateAssumption DEF AskedFor, From, Clients
    <3>2. q.stage = "subjectExpire"
      BY <2>2, <3>1
    <3>3. QED
      BY <3>1, <3>2 DEF AskedFor
  <2>9. /\ \A v \in Clients, n \in Minutes : <<v, n>> \in Counters
        /\ \A v \in Clients, n \in Minutes :
               Known(v, n) = hits[<<v, n>>] /\ Known(v, n)' = hits'[<<v, n>>]
    BY <1>1 DEF Known, Counters, Clients
  <2>10. ASSUME NEW v \in Clients, NEW n \in Minutes, CountedFor(q, v, n), ~CountedFor(pending[r], v, n)
         PROVE  v = w /\ n = m /\ m = Minute(now)
    BY <1>1, <1>2, <1>3, <2>2, <2>6, <2>10 DEF CountedFor, From, AtOf
  <2>11. /\ Known(w, m) < RateLimit /\ Known(w, m) + 1 <= Known(w, m)'
    BY <1>2, <1>4, <1>6, <2>9, RateAssumption
  <2>12. \A v \in Clients, n \in Minutes :
              /\ hits'[<<v, n>>] <= hits[<<v, n>>] \/ <<v, n>> = <<w, m>>
              /\ hits[<<v, n>>] <= hits'[<<v, n>>]
    <3>1. \A k \in Counters : hits[k] <= hits'[k] /\ (hits'[k] <= hits[k] \/ k = <<w, m>>)
      BY <1>2, <1>3, <1>4
    <3>2. QED
      BY <2>9, <3>1
  <2>13. \A v \in Clients : Known(v, Minute(now)) <= Known(v, Minute(now))'
    <3>1. \A v \in Clients : Known(v, Minute(now))' = hits'[<<v, Minute(now)>>]
      BY <1>1 DEF Known, Minute
    <3>2. QED
      BY <1>3, <2>9, <2>12, <3>1, TheMinute
  <2>14. /\ q.stage # "new" /\ q.stage # "refused" /\ minute' \in 0 .. Minute(now)
         /\ faults' \in 0 .. MaxFaults
         /\ WindowsOK(expires')
    BY <1>1, <1>3, <2>2
  <2>15. CounterStep(r, q, w, m)
    BY <1>1, <1>2, <1>4, <2>1, <2>2, <2>5, <2>7, <2>8, <2>10, <2>11, <2>12, <2>13, <2>14 DEF CounterStep
  <2>16. QED
    BY <2>4, <2>15, AskStep
<1>7. QED
  BY <1>5, <1>6

LEMMA RateTickIInv ==
    ASSUME RateIInv, RateTick
    PROVE  RateIInv'
<1>1. /\ now < MaxTime /\ now' = now + 1
      /\ hits' = [k \in Counters |-> IF expires[k] = now' THEN 0 ELSE hits[k]]
      /\ expires' = [k \in Counters |-> IF expires[k] = now' THEN 0 ELSE expires[k]]
      /\ UNCHANGED <<backend, tier, minute, pending, faults>>
  BY DEF RateTick
<1>2. /\ now \in 0 .. MaxTime /\ minute \in 0 .. Minute(now) /\ hits \in [Counters -> Nat]
      /\ WindowsOK(expires) /\ \A r \in Requests : PassageOK(pending[r])
      /\ backend = "memory" => \A k \in Counters : hits[k] <= RateLimit
  BY DEF RateIInv, RateTables
<1>3. /\ now' \in 0 .. MaxTime /\ Minute(now) <= Minute(now')
      /\ Minute(now) \in Nat /\ Minute(now') \in Nat
  <2>1. now' \in 0 .. MaxTime /\ now \in Nat /\ now' \in Nat /\ now <= now'
    BY <1>1, <1>2, RateAssumption
  <2>2. QED
    BY <2>1, MinuteGrows, MinuteBounds
<1>4. /\ \A v \in Clients, n \in Minutes : <<v, n>> \in Counters
      /\ \A k \in Counters : hits'[k] \in Nat /\ hits'[k] <= hits[k] /\ (expires[k] # now' => hits'[k] = hits[k])
      /\ hits' \in [Counters -> Nat]
  <2>1. \A v \in Clients, n \in Minutes : <<v, n>> \in Counters
    BY DEF Counters, Clients
  <2>2. \A k \in Counters : hits[k] \in Nat /\ hits'[k] = IF expires[k] = now' THEN 0 ELSE hits[k]
    BY <1>1, <1>2
  <2>3. hits' \in [Counters -> Nat]
    BY <1>1, <1>2
  <2>4. QED
    BY <2>1, <2>2, <2>3
<1>5. RateTables'
  <2>1. WindowsOK(expires')
    <3>1. expires' \in [Counters -> 0 .. MaxTime + TicksPerMinute]
      <4>1. 0 \in 0 .. MaxTime + TicksPerMinute
        BY RateAssumption
      <4>2. QED
        BY <1>1, <1>2, <4>1 DEF WindowsOK
    <3>2. \A k \in Counters : expires'[k] # 0 => expires'[k] = expires[k]
      BY <1>1
    <3>3. QED
      BY <1>2, <1>4, <3>1, <3>2 DEF WindowsOK
  <2>2. \A r \in Requests : PassageOK(pending[r])'
    <3> SUFFICES ASSUME NEW r \in Requests PROVE PassageOK(pending[r])'
      OBVIOUS
    <3>1. PassageOK(pending[r]) /\ pending[r] \in Passage /\ pending'[r] = pending[r]
      BY <1>1, <1>2 DEF PassageOK
    <3>2. pending[r].minute \in Nat
      BY <3>1, RateAssumption DEF Passage, Minutes
    <3>3. pending[r].minute <= Minute(now')
      BY <1>3, <3>1, <3>2 DEF PassageOK
    <3>4. QED
      BY <1>1, <3>1, <3>3 DEF PassageOK, Minute
  <2>3. minute' \in 0 .. Minute(now')
    BY <1>1, <1>2, <1>3
  <2>4. backend' = "memory" => \A k \in Counters : hits'[k] <= RateLimit
    BY <1>1, <1>2, <1>4, RateAssumption
  <2>5. (WindowsOK(expires))'
    BY <2>1 DEF WindowsOK, Minute
  <2>6. QED
    BY <1>1, <1>3, <1>4, <2>2, <2>3, <2>4, <2>5 DEF RateIInv, RateTables, Minute
<1>6. ASSUME NEW v \in Clients, NEW n \in Minutes
      PROVE  /\ Counted(v, n)' \subseteq Counted(v, n) /\ Asked(v, n)' = Asked(v, n)
             /\ n = Minute(now') /\ Minute(now) # Minute(now') => Counted(v, n)' = {}
  <2>1. \A r \in Requests : AskedFor(pending[r], v, n)' <=> AskedFor(pending[r], v, n)
    BY <1>1 DEF AskedFor, From
  <2>2. ASSUME NEW r \in Requests, CountedFor(pending[r], v, n)'
        PROVE  CountedFor(pending[r], v, n) /\ ~(n = Minute(now') /\ Minute(now) # Minute(now'))
    <3>1. /\ From(pending[r], v, n)
          /\ \/ /\ ~pending[r].open /\ ~pending[r].late
                /\ pending[r].stage = "passed"
                     \/ (v \in Addresses /\ pending[r].stage \in {"subject", "subjectExpire"})
             \/ pending[r].stage \in {"ipExpire", "subjectExpire"} /\ AtOf(pending[r]) = v /\ n = Minute(now')
      BY <1>1, <2>2 DEF CountedFor, From, AtOf, Minute
    <3>2. n <= Minute(now) /\ n \in Nat
      BY <1>2, <3>1, RateAssumption DEF PassageOK, From, Minutes
    <3>3. n = Minute(now') => n = Minute(now)
      BY <1>3, <3>2
    <3>4. QED
      BY <3>1, <3>3 DEF CountedFor
  <2>3. QED
    BY <2>1, <2>2 DEF Counted, Asked
<1>7. ASSUME NEW v \in Clients, NEW n \in Minutes
      PROVE  /\ Cardinality(Counted(v, n)') <= RateLimit
             /\ n = Minute(now') => Cardinality(Counted(v, n)') <= Known(v, n)'
             /\ hits'[<<v, n>>] <= Cardinality(Asked(v, n)')
  <2>1. /\ Cardinality(Counted(v, n)) <= RateLimit
        /\ n = Minute(now) => Cardinality(Counted(v, n)) <= Known(v, n)
        /\ hits[<<v, n>>] <= Cardinality(Asked(v, n))
    BY DEF RateIInv
  <2>2. Counted(v, n) \in SUBSET Requests /\ Asked(v, n) \in SUBSET Requests
    BY DEF Counted, Asked
  <2>3. /\ Cardinality(Counted(v, n)') <= Cardinality(Counted(v, n))
        /\ Cardinality(Counted(v, n)') \in Nat /\ Cardinality(Counted(v, n)) \in Nat
        /\ Cardinality(Asked(v, n)) \in Nat
    BY <1>6, <2>2, RequestSubsets, RequestSets
  <2>4. hits[<<v, n>>] \in Nat /\ hits'[<<v, n>>] \in Nat /\ hits'[<<v, n>>] <= hits[<<v, n>>]
    BY <1>2, <1>4
  <2>5. Cardinality(Counted(v, n)') <= RateLimit
    BY <2>1, <2>3, RateAssumption
  <2>6. ASSUME n = Minute(now')
        PROVE  Cardinality(Counted(v, n)') <= Known(v, n)'
    <3>1. CASE Minute(now) # Minute(now')
      <4>1. Cardinality(Counted(v, n)') = 0
        BY <1>6, <2>6, <3>1, FS_EmptySet
      <4>2. Known(v, n)' \in Nat
        BY <2>4 DEF Known
      <4>3. QED
        BY <4>1, <4>2
    <3>2. CASE Minute(now) = Minute(now')
      <4>1. expires[<<v, n>>] # now'
        <5>1. now' # 0 /\ n \in Nat
          BY <1>1, <1>2, RateAssumption DEF Minutes
        <5>2. expires[<<v, n>>] = now' => n < Minute(now')
          BY <1>2, <1>4, <5>1 DEF WindowsOK
        <5>3. QED
          BY <2>6, <5>1, <5>2
      <4>2. hits'[<<v, n>>] = hits[<<v, n>>]
        BY <1>4, <4>1
      <4>3. Known(v, n)' = Known(v, n)
        BY <1>1, <3>2, <4>2 DEF Known, Minute
      <4>4. Known(v, n) \in Nat
        BY <2>4 DEF Known
      <4>5. QED
        BY <2>1, <2>3, <2>6, <3>2, <4>3, <4>4
    <3>3. QED
      BY <3>1, <3>2
  <2>7. hits'[<<v, n>>] <= Cardinality(Asked(v, n)')
    BY <1>6, <2>1, <2>3, <2>4
  <2>8. QED
    BY <2>5, <2>6, <2>7
<1>8. OnlyOverLimit'
  BY <1>1 DEF RateIInv, OnlyOverLimit, Of, Arrived, Reached
<1>9. QED
  BY <1>5, <1>7, <1>8 DEF RateIInv, Minute

\* Every step of the rate limiter keeps it.
THEOREM RateNextIInv == RateIInv /\ [RateNext]_rateVars => RateIInv'
<1> SUFFICES ASSUME RateIInv, [RateNext]_rateVars PROVE RateIInv'
  OBVIOUS
<1>1. ASSUME UNCHANGED rateVars
      PROVE  RateIInv'
  <2>1. UNCHANGED <<backend, tier, now, minute, hits, expires, pending, faults>>
    BY <1>1 DEF rateVars
  <2>2. RateTables'
    BY <2>1 DEF RateIInv, RateTables, WindowsOK, PassageOK, Minute
  <2>3. \A w \in Clients, m \in Minutes :
           Counted(w, m)' = Counted(w, m) /\ Asked(w, m)' = Asked(w, m) /\ Known(w, m)' = Known(w, m)
    BY <2>1 DEF Counted, CountedFor, Asked, AskedFor, From, AtOf, Known, Minute
  <2>4. OnlyOverLimit'
    BY <2>1 DEF RateIInv, OnlyOverLimit, Of, Arrived, Reached
  <2>5. ASSUME NEW w \in Clients, NEW m \in Minutes
        PROVE  /\ Cardinality(Counted(w, m)') <= RateLimit
               /\ m = Minute(now') => Cardinality(Counted(w, m)') <= Known(w, m)'
               /\ hits'[<<w, m>>] <= Cardinality(Asked(w, m)')
    BY <2>1, <2>3 DEF RateIInv
  <2>6. QED
    BY <2>2, <2>4, <2>5 DEF RateIInv, Minute
<1>2. QED
  BY <1>1, ArriveIInv, CheckInMemoryIInv, IncrIInv, SetExpiryIInv, RedisErrorIInv, RateTickIInv
     DEF RateNext

\* The invariant the theorems about the rate limiter rest on.
THEOREM RateInductive == RateSpec => []RateIInv
  BY RateInitIInv, RateNextIInv, PTL DEF RateSpec

\* Nobody gets more requests through in a minute than the limit, and nobody is
\* refused below it (check_and_increment of both backends), whatever the number of
\* clients and requests, the limit, the minutes and the failures of Redis.
THEOREM ExactLimit == RateSpec => []LimitIsExact
<1>1. ASSUME RateIInv, NEW w \in Clients, NEW m \in Minutes
      PROVE  Cardinality({r \in Of(w, m) :
               Reached(r, "passed") /\ ~pending[r].open /\ ~pending[r].late}) <= RateLimit
  <2> DEFINE S == {r \in Of(w, m) : Reached(r, "passed") /\ ~pending[r].open /\ ~pending[r].late}
  <2>1. S \subseteq Counted(w, m) /\ Counted(w, m) \in SUBSET Requests
    BY DEF Counted, CountedFor, From, Of, Arrived, Reached
  <2>2. /\ Cardinality(S) <= Cardinality(Counted(w, m))
        /\ Cardinality(S) \in Nat /\ Cardinality(Counted(w, m)) \in Nat
    BY <2>1, RequestSubsets, RequestSets
  <2>3. Cardinality(Counted(w, m)) <= RateLimit
    BY <1>1 DEF RateIInv
  <2> HIDE DEF S
  <2>4. Cardinality(S) <= RateLimit
    BY <2>2, <2>3, RateAssumption
  <2>5. QED
    BY <2>4 DEF S
<1>2. RateIInv => LimitIsExact
  BY <1>1 DEF RateIInv, LimitIsExact, WithinLimit, Clients
<1>3. QED
  BY <1>2, RateInductive, PTL

\* Counters never pass the number of requests, nor the limit in memory.
THEOREM RateTypeCorrect == RateSpec => []RateTypeOK
<1>1. RateIInv => RateTypeOK
  <2> SUFFICES ASSUME RateIInv PROVE RateTypeOK
    OBVIOUS
  <2>1. ASSUME NEW w \in Clients, NEW m \in Minutes
        PROVE  hits[<<w, m>>] \in 0 .. MaxRequests
    <3>1. Asked(w, m) \in SUBSET Requests /\ hits[<<w, m>>] \in Nat
      BY DEF Asked, RateIInv, RateTables, Counters, Clients
    <3>2. Cardinality(Requests) = MaxRequests
      BY FS_Interval, RateAssumption DEF Requests
    <3>3. /\ Cardinality(Asked(w, m)) <= MaxRequests
          /\ Cardinality(Asked(w, m)) \in Nat /\ hits[<<w, m>>] <= Cardinality(Asked(w, m))
      BY <3>1, <3>2, RequestSubsets, RequestSets DEF RateIInv
    <3>4. QED
      BY <3>1, <3>3, RateAssumption
  <2>2. hits \in [Counters -> 0 .. MaxRequests]
    BY <2>1 DEF RateIInv, RateTables, Counters, Clients
  <2>3. minute \in Minutes
    <3>1. Minute(now) \in Minutes /\ minute \in 0 .. Minute(now)
      BY TheMinute DEF RateIInv, RateTables
    <3>2. QED
      BY <3>1, RateAssumption DEF Minutes
  <2>4. QED
    BY <2>2, <2>3 DEF RateIInv, RateTables, RateTypeOK, WindowsOK
<1>2. QED
  BY <1>1, RateInductive, PTL

-----------------------------------------------------------------------------
(***************************************************************************)
(* The summarizer and its cache.  What _chunk_text computes is defined by  *)
(* recursion over the sentences.                                           *)
(***************************************************************************)

\* The function in the definition of Words.
WordsUpTo(s) == CHOOSE f : f = [i \in 0 .. Len(s) |-> IF i = 0 THEN 0 ELSE f[i - 1] + s[i]]

\* The definition of Words, with its function named.
LEMMA WordsIsUpTo == \A s : Words(s) = WordsUpTo(s)[Len(s)]
  BY DEF Words, WordsUpTo

\* WordsUpTo(s)[i] counts the words of the first i sentences.
CountsUp(W, s) == /\ W \in [0 .. Len(s) -> Nat] /\ W[0] = 0
                /\ \A i \in 1 .. Len(s) : W[i] = W[i - 1] + s[i]

\* That function satisfies its recursive definition.
LEMMA WordsRecursion ==
  ASSUME NEW s \in Seq(Nat)
  PROVE  CountsUp(WordsUpTo(s), s)
<1>0. PICK n \in Nat : n = Len(s)
  OBVIOUS
<1> DEFINE step == [i \in 1 .. n |-> [x \in Nat |-> x + s[i]]]
           R(f) == [i \in 0 .. n |-> IF i = 0 THEN 0 ELSE f[i - 1] + s[i]]
           W == WordsUpTo(s)
<1>1. step \in StepsOn(n, Nat)
  BY <1>0 DEF StepsOn
<1>2. \A i \in 1 .. n : \A x \in Nat : step[i][x] = x + s[i]
  BY <1>0
<1> HIDE DEF step
<1>3. PICK f : Recursion(f, n, Nat, 0, step)
  <2>1. 0 \in Nat
    OBVIOUS
  <2>2. QED
    BY <1>1, <2>1, RecursionExists
<1>4. f \in [0 .. n -> Nat] /\ f[0] = 0 /\ \A i \in 1 .. n : f[i] = f[i - 1] + s[i]
  <2>1. \A i \in 1 .. n : i - 1 \in 0 .. n
    OBVIOUS
  <2>2. f \in [0 .. n -> Nat] /\ f[0] = 0 /\ \A i \in 1 .. n : f[i] = step[i][f[i - 1]]
    BY <1>3 DEF Recursion
  <2>3. \A i \in 1 .. n : f[i - 1] \in Nat
    BY <2>1, <2>2
  <2>4. QED
    BY <1>2, <2>2, <2>3
<1>5. f = R(f)
  <2>1. \A i \in 0 .. n : i # 0 => i \in 1 .. n
    OBVIOUS
  <2>2. QED
    BY <1>4, <2>1
<1>6. W = R(W)
  BY <1>0, <1>5 DEF WordsUpTo
<1> HIDE DEF W
<1>7. W[0] = 0 /\ \A i \in 1 .. n : W[i] = W[i - 1] + s[i]
  <2>1. 0 \in 0 .. n /\ \A i \in 1 .. n : i # 0 /\ i \in 0 .. n
    OBVIOUS
  <2>2. \A i \in 0 .. n : W[i] = R(W)[i]
    BY <1>6
  <2>3. QED
    BY <2>1, <2>2
<1>8. \A i \in 0 .. n : W[i] = f[i]
  <2>1. Follows(W, f, n)
    BY <1>4, <1>7 DEF Follows
  <2>2. QED
    BY <2>1, SameRecursion
<1>9. W \in [0 .. n -> Nat]
  BY <1>4, <1>6, <1>8
<1>10. QED
  BY <1>0, <1>7, <1>9 DEF CountsUp, W

\* The empty text has no words.
LEMMA WordsOfNone == Words(<< >>) = 0
<1>1. << >> \in Seq(Nat) /\ Len(<< >>) = 0
  OBVIOUS
<1>2. QED
  BY <1>1, WordsRecursion, WordsIsUpTo DEF CountsUp

\* One more sentence adds its words.
LEMMA WordsOfMore ==
  ASSUME NEW s \in Seq(Nat), NEW e \in Nat
  PROVE  Words(s) \in Nat /\ Words(Append(s, e)) = Words(s) + e
<1>0. PICK n \in Nat : n = Len(s)
  OBVIOUS
<1> DEFINE t == Append(s, e)
           W == WordsUpTo(s)
           V == WordsUpTo(t)
<1>1. t \in Seq(Nat) /\ Len(t) = n + 1 /\ t[n + 1] = e /\ \A i \in 1 .. n : t[i] = s[i]
  BY <1>0
<1> HIDE DEF t
<1>2. CountsUp(W, s) /\ CountsUp(V, t)
  BY <1>1, WordsRecursion
<1> HIDE DEF W, V
<1>3. \A i \in 1 .. n : i \in 1 .. n + 1
  OBVIOUS
<1>4. Follows(V, W, n)
  <2>1. V[0] = W[0]
    BY <1>2 DEF CountsUp
  <2>2. \A i \in 1 .. n : V[i] = V[i - 1] + s[i] /\ W[i] = W[i - 1] + s[i]
    BY <1>0, <1>1, <1>2, <1>3 DEF CountsUp
  <2>3. QED
    BY <2>1, <2>2 DEF Follows
<1>5. n \in 0 .. n /\ V[n] = W[n] /\ W[n] \in Nat
  <2>1. n \in 0 .. n
    OBVIOUS
  <2>2. \A i \in 0 .. n : V[i] = W[i]
    BY <1>4, SameRecursion
  <2>3. QED
    BY <1>0, <1>2, <2>1, <2>2 DEF CountsUp
<1>6. V[n + 1] = V[n] + e
  <2>1. n + 1 \in 1 .. n + 1 /\ (n + 1) - 1 = n
    OBVIOUS
  <2>2. V[n + 1] = V[(n + 1) - 1] + t[n + 1]
    BY <1>1, <1>2, <2>1 DEF CountsUp
  <2>3. QED
    BY <1>1, <2>1, <2>2
<1>7. Words(s) = W[n] /\ Words(t) = V[n + 1]
  BY <1>0, <1>1, WordsIsUpTo DEF W, V
<1>8. QED
  BY <1>5, <1>6, <1>7 DEF t

-----------------------------------------------------------------------------
(* The chunks go through the whole text.                                   *)

\* What holds of a chunk, and of two that follow one another.
Piece(sizes, c) ==
    /\ c \in Seq(1 .. Len(sizes)) /\ Len(c) >= 1
    /\ \A j \in 2 .. Len(c) : c[j] = c[j - 1] + 1
    /\ Words(LengthsOf(sizes, c)) > ChunkLimit => Len(c) <= 4

Joins(c, d) == d[1] <= c[Len(c)] + 1 /\ d[Len(d)] > c[Len(c)]

\* A function on 1 .. n is a sequence.
LEMMA FunctionIsSeq ==
  ASSUME NEW n \in Nat, NEW S, NEW f \in [1 .. n -> S]
  PROVE  f \in Seq(S) /\ Len(f) = n
  OBVIOUS

\* The lengths of a chunk with one more sentence.
LEMMA LengthsGrow ==
  ASSUME NEW sizes \in Seq(Nat), NEW c \in Seq(1 .. Len(sizes)), NEW s \in 1 .. Len(sizes)
  PROVE  /\ LengthsOf(sizes, c) \in Seq(Nat)
         /\ LengthsOf(sizes, Append(c, s)) = Append(LengthsOf(sizes, c), sizes[s])
<1> DEFINE d == Append(c, s)
           l == LengthsOf(sizes, c)
           r == Append(l, sizes[s])
<1>1. l \in Seq(Nat) /\ Len(l) = Len(c) /\ \A i \in 1 .. Len(c) : l[i] = sizes[c[i]]
  <2>1. PICK n \in Nat : n = Len(c) /\ DOMAIN c = 1 .. n
    OBVIOUS
  <2>2. l = [i \in 1 .. n |-> sizes[c[i]]]
    BY <2>1 DEF LengthsOf
  <2>3. ASSUME NEW i \in 1 .. n PROVE sizes[c[i]] \in Nat
    <3>1. c[i] \in 1 .. Len(sizes)
      BY <2>1, ElementOfSeq
    <3>2. QED
      BY <3>1, ElementOfSeq
  <2> HIDE DEF l
  <2>4. l \in [1 .. n -> Nat]
    BY <2>2, <2>3
  <2>5. l \in Seq(Nat) /\ Len(l) = n
    BY <2>4, FunctionIsSeq
  <2>6. QED
    BY <2>1, <2>2, <2>5
<1>2. d \in Seq(1 .. Len(sizes)) /\ Len(d) = Len(c) + 1 /\ d[Len(c) + 1] = s
      /\ \A i \in 1 .. Len(c) : d[i] = c[i]
  OBVIOUS
<1>3. LengthsOf(sizes, d) = [i \in 1 .. Len(c) + 1 |-> sizes[d[i]]]
  BY <1>2 DEF LengthsOf
<1>4. r \in Seq(Nat) /\ Len(r) = Len(c) + 1 /\ r[Len(c) + 1] = sizes[s]
      /\ \A i \in 1 .. Len(c) : r[i] = l[i]
  BY <1>1
<1> HIDE DEF d, l, r
<1>5. r = [i \in 1 .. Len(c) + 1 |-> r[i]]
  BY <1>4
<1>6. \A i \in 1 .. Len(c) + 1 : r[i] = sizes[d[i]]
  <2>1. \A i \in 1 .. Len(c) + 1 : i \in 1 .. Len(c) \/ i = Len(c) + 1
    <3>1. Len(c) \in Nat
      OBVIOUS
    <3>2. QED
      BY <3>1
  <2>2. QED
    BY <1>1, <1>2, <1>4, <2>1
<1>7. LengthsOf(sizes, d) = r
  BY <1>3, <1>5, <1>6
<1>8. QED
  BY <1>1, <1>7 DEF d, l, r

\* A sentence alone is a piece of the text.
LEMMA PieceOfOne ==
  ASSUME NEW sizes \in Seq(Nat), NEW s \in 1 .. Len(sizes)
  PROVE  /\ Piece(sizes, <<s>>) /\ Len(<<s>>) = 1 /\ <<s>>[1] = s
         /\ << >> \in Seq(1 .. Len(sizes)) /\ Append(<< >>, s) = <<s>>
  BY DEF Piece

\* A sentence that fits is added.
LEMMA PieceGrows ==
  ASSUME NEW sizes \in Seq(Nat), NEW c, Piece(sizes, c), NEW s \in 1 .. Len(sizes),
         s = c[Len(c)] + 1, ~(Words(LengthsOf(sizes, c)) + sizes[s] > ChunkLimit)
  PROVE  /\ Piece(sizes, Append(c, s))
         /\ Append(c, s)[1] = c[1]
         /\ Append(c, s)[Len(Append(c, s))] = s
<1> DEFINE d == Append(c, s)
<1>1. c \in Seq(1 .. Len(sizes)) /\ Len(c) \in Nat /\ Len(c) >= 1
  BY DEF Piece
<1>2. d \in Seq(1 .. Len(sizes)) /\ Len(d) = Len(c) + 1 /\ d[Len(c) + 1] = s
      /\ \A i \in 1 .. Len(c) : d[i] = c[i]
  BY <1>1
<1>3. ~(Words(LengthsOf(sizes, d)) > ChunkLimit)
  <2>1. Words(LengthsOf(sizes, d)) = Words(LengthsOf(sizes, c)) + sizes[s]
    <3>1. /\ LengthsOf(sizes, c) \in Seq(Nat) /\ sizes[s] \in Nat
          /\ LengthsOf(sizes, d) = Append(LengthsOf(sizes, c), sizes[s])
      <4>1. sizes[s] \in Nat
        OBVIOUS
      <4>2. QED
        BY <1>1, <4>1, LengthsGrow, Zenon
    <3>2. QED
      BY <3>1, WordsOfMore
  <2>2. QED
    BY <2>1
<1> HIDE DEF d
<1>4. ASSUME NEW j \in 2 .. Len(d) PROVE d[j] = d[j - 1] + 1
  <2>1. CASE j \in 2 .. Len(c)
    <3>1. j \in 1 .. Len(c) /\ j - 1 \in 1 .. Len(c)
      BY <1>1, <2>1
    <3>2. QED
      BY <1>2, <2>1, <3>1 DEF Piece
  <2>2. CASE j \notin 2 .. Len(c)
    <3>1. j = Len(c) + 1 /\ j - 1 = Len(c) /\ Len(c) \in 1 .. Len(c)
      BY <1>1, <1>2, <2>2
    <3>2. QED
      BY <1>2, <3>1
  <2>3. QED
    BY <2>1, <2>2
<1>5. Piece(sizes, d)
  BY <1>1, <1>2, <1>3, <1>4 DEF Piece
<1>6. d[1] = c[1] /\ d[Len(d)] = s
  BY <1>1, <1>2
<1>7. QED
  BY <1>5, <1>6 DEF d

\* l is what is left of c behind its first k elements.
EndOf(c, l, k) ==
    k + Len(l) = Len(c) /\ \A i \in 1 .. Len(l) : l[i] = c[k + i]

\* The last three sentences are the end of the chunk.
LEMMA LastThreeOf ==
  ASSUME NEW S, NEW c \in Seq(S), Len(c) >= 1
  PROVE  /\ LastThree(c) \in Seq(S) /\ Len(LastThree(c)) \in 1 .. 3
         /\ \E k \in Nat : EndOf(c, LastThree(c), k)
<1> DEFINE n == Len(c)
           a == IF n > 3 THEN n - 2 ELSE 1
<1>1. n \in Nat /\ n >= 1
  OBVIOUS
<1>2. LastThree(c) = SubSeq(c, a, n)
  BY DEF LastThree
<1>3. a \in 1 .. n /\ n - a + 1 \in 1 .. 3 /\ a - 1 \in Nat /\ (a - 1) + (n - a + 1) = n
  <2> HIDE DEF n
  <2>1. CASE n > 3
    <3>1. a = n - 2
      BY <2>1
    <3> HIDE DEF a
    <3>2. QED
      BY <1>1, <2>1, <3>1
  <2>2. CASE ~(n > 3)
    <3>1. a = 1
      BY <2>2
    <3> HIDE DEF a
    <3>2. QED
      BY <1>1, <2>2, <3>1
  <2>3. QED
    BY <2>1, <2>2
<1> HIDE DEF a, n
<1>4. a \in 1 .. n + 1 /\ n \in a - 1 .. n
  BY <1>1, <1>3
<1>5. /\ SubSeq(c, a, n) \in Seq(S) /\ Len(SubSeq(c, a, n)) = n - a + 1
      /\ \A i \in 1 .. n - a + 1 : SubSeq(c, a, n)[i] = c[a + i - 1]
  BY <1>4, SubSeqProperties DEF n
<1>6. \A i \in 1 .. n - a + 1 : a + i - 1 = (a - 1) + i
  BY <1>1, <1>3
<1>7. QED
  <2>1. Len(LastThree(c)) = n - a + 1 /\ LastThree(c) \in Seq(S)
    BY <1>2, <1>5
  <2>2. \A i \in 1 .. n - a + 1 : LastThree(c)[i] = c[(a - 1) + i]
    BY <1>2, <1>5, <1>6
  <2>3. EndOf(c, LastThree(c), a - 1)
    BY <1>3, <2>1, <2>2 DEF EndOf, n
  <2>4. QED
    BY <1>3, <2>1, <2>3

\* No sentence of a piece comes after its last one.
LEMMA LastIsGreatest ==
  ASSUME NEW sizes \in Seq(Nat), NEW c, Piece(sizes, c)
  PROVE  \A i \in 1 .. Len(c) : c[i] \in Nat /\ c[i] <= c[Len(c)]
<1>1. c \in Seq(1 .. Len(sizes)) /\ Len(c) \in Nat /\ Len(c) >= 1
  BY DEF Piece
<1>2. PICK n \in Nat : n = Len(c) /\ n >= 1
  BY <1>1
<1>3. ASSUME NEW i \in 1 .. n PROVE c[i] \in Nat
  <2>1. c[i] \in 1 .. Len(sizes)
    BY <1>1, <1>2, ElementOfSeq
  <2>2. QED
    BY <2>1
<1>4. \A j \in 2 .. n : c[j] = c[j - 1] + 1
  BY <1>2 DEF Piece
<1> DEFINE S == {h \in Nat : h < n => c[n - h] <= c[n]}
<1>5. 0 \in S
  <2>1. n - 0 = n /\ n \in 1 .. n
    BY <1>2
  <2>2. c[n - 0] <= c[n]
    BY <1>3, <2>1
  <2>3. QED
    BY <2>2
<1>6. ASSUME NEW h \in Nat, h \in S PROVE h + 1 \in S
  <2> SUFFICES ASSUME h + 1 < n PROVE c[n - (h + 1)] <= c[n]
    OBVIOUS
  <2> DEFINE j == n - h
  <2>1. j \in 2 .. n /\ j - 1 = n - (h + 1) /\ j - 1 \in 1 .. n /\ j \in 1 .. n
    BY <1>2
  <2>2. c[j] = c[j - 1] + 1
    BY <1>4, <2>1
  <2>3. c[j] <= c[n]
    BY <1>6
  <2> HIDE DEF j
  <2>4. c[j] \in Nat /\ c[j - 1] \in Nat /\ c[n] \in Nat
    BY <1>2, <1>3, <2>1
  <2>5. c[j - 1] <= c[n]
    BY <2>2, <2>3, <2>4
  <2>6. QED
    BY <2>1, <2>5
<1>7. Nat \subseteq S
  <2> HIDE DEF S
  <2>1. QED
    BY <1>5, <1>6, SetInduction
<1>8. ASSUME NEW i \in 1 .. n PROVE c[i] <= c[n]
  <2> DEFINE h == n - i
  <2>1. h \in Nat /\ h < n /\ n - h = i
    BY <1>2
  <2> HIDE DEF h
  <2>2. h \in S
    BY <1>7, <2>1
  <2>3. QED
    BY <2>1, <2>2
<1>9. QED
  BY <1>2, <1>3, <1>8

\* A new chunk begins with the end of the last one.
LEMMA PieceRestarts ==
  ASSUME NEW sizes \in Seq(Nat), NEW c, Piece(sizes, c), NEW s \in 1 .. Len(sizes),
         s = c[Len(c)] + 1
  PROVE  LET d == Append(LastThree(c), s)
         IN  Piece(sizes, d) /\ Joins(c, d) /\ d[Len(d)] = s
<1> DEFINE l == LastThree(c)
           d == Append(l, s)
<1>1. c \in Seq(1 .. Len(sizes)) /\ Len(c) \in Nat /\ Len(c) >= 1
  BY DEF Piece
<1>2. /\ l \in Seq(1 .. Len(sizes)) /\ Len(l) \in 1 .. 3
      /\ \E k \in Nat : EndOf(c, l, k)
  BY <1>1, LastThreeOf
<1> HIDE DEF l
<1>21. PICK m \in 1 .. 3 : m = Len(l)
  BY <1>2
<1>22. PICK k \in Nat : EndOf(c, l, k)
  BY <1>2
<1>3. k + m = Len(c) /\ \A i \in 1 .. m : l[i] = c[k + i]
  BY <1>21, <1>22 DEF EndOf
<1>4. d \in Seq(1 .. Len(sizes)) /\ Len(d) = m + 1 /\ d[m + 1] = s
      /\ \A i \in 1 .. m : d[i] = c[k + i]
  BY <1>2, <1>21, <1>3
<1> HIDE DEF d
<1>5. ASSUME NEW j \in 2 .. Len(d) PROVE d[j] = d[j - 1] + 1
  <2>1. CASE j = m + 1
    <3>1. j - 1 \in 1 .. m /\ k + (j - 1) = Len(c)
      BY <1>3, <2>1
    <3>2. QED
      BY <1>4, <2>1, <3>1
  <2>2. CASE j # m + 1
    <3>1. j \in 1 .. m /\ j - 1 \in 1 .. m /\ k + j \in 2 .. Len(c) /\ k + (j - 1) = (k + j) - 1
      BY <1>3, <1>4, <2>2
    <3>2. QED
      BY <1>4, <3>1 DEF Piece
  <2>3. QED
    BY <2>1, <2>2
<1>6. Piece(sizes, d)
  BY <1>4, <1>5 DEF Piece
<1>7. c[Len(c)] \in Nat
  <2>1. Len(c) \in 1 .. Len(c)
    BY <1>1
  <2>2. QED
    BY <2>1, LastIsGreatest
<1>8. d[1] <= c[Len(c)] + 1
  <2>1. 1 \in 1 .. m /\ d[1] = c[k + 1] /\ k + 1 \in 1 .. Len(c)
    BY <1>3, <1>4
  <2>2. c[k + 1] \in Nat /\ c[k + 1] <= c[Len(c)]
    BY <2>1, LastIsGreatest
  <2>3. d[1] \in Nat /\ d[1] <= c[Len(c)]
    BY <2>1, <2>2
  <2>4. QED
    BY <1>7, <2>3
<1>9. d[Len(d)] = s /\ s > c[Len(c)]
  BY <1>4, <1>7
<1>10. QED
  BY <1>6, <1>8, <1>9 DEF Joins, d, l

\* The chunks that are closed and the one being filled, after s sentences.
Filling(sizes, acc, s) ==
    /\ acc \in [chunks : Seq(Seq(1 .. Len(sizes))), curr : Seq(1 .. Len(sizes))]
    /\ Piece(sizes, acc.curr) /\ acc.curr[Len(acc.curr)] = s
    /\ \A i \in 1 .. Len(acc.chunks) : Piece(sizes, acc.chunks[i])
    /\ \A i \in 2 .. Len(acc.chunks) : Joins(acc.chunks[i - 1], acc.chunks[i])
    /\ acc.chunks = << >> => acc.curr[1] = 1
    /\ acc.chunks # << >> => /\ acc.chunks[1][1] = 1
                             /\ Joins(acc.chunks[Len(acc.chunks)], acc.curr)

NothingFilled == [chunks |-> << >>, curr |-> << >>]

\* Sentence numbers stay within the text.
LEMMA FillingType ==
  ASSUME NEW sizes \in Seq(Nat), NEW s \in 1 .. Len(sizes),
         NEW acc \in [chunks : Seq(Seq(1 .. Len(sizes))), curr : Seq(1 .. Len(sizes))]
  PROVE  AddSentence(sizes, acc, s)
            \in [chunks : Seq(Seq(1 .. Len(sizes))), curr : Seq(1 .. Len(sizes))]
<1>1. Append(acc.curr, s) \in Seq(1 .. Len(sizes))
  OBVIOUS
<1>2. CASE Words(LengthsOf(sizes, acc.curr)) + sizes[s] > ChunkLimit /\ acc.curr # << >>
  <2>1. Len(acc.curr) >= 1
    BY <1>2
  <2>2. LastThree(acc.curr) \in Seq(1 .. Len(sizes))
    BY <2>1, LastThreeOf
  <2>3. /\ Append(LastThree(acc.curr), s) \in Seq(1 .. Len(sizes))
        /\ Append(acc.chunks, acc.curr) \in Seq(Seq(1 .. Len(sizes)))
    BY <2>2
  <2>4. QED
    BY <1>2, <2>3 DEF AddSentence
<1>3. CASE ~(Words(LengthsOf(sizes, acc.curr)) + sizes[s] > ChunkLimit /\ acc.curr # << >>)
  BY <1>1, <1>3 DEF AddSentence
<1>4. QED
  BY <1>2, <1>3

\* The first sentence opens the first chunk.
LEMMA FirstSentence ==
  ASSUME NEW sizes \in Seq(Nat), Len(sizes) >= 1
  PROVE  Filling(sizes, AddSentence(sizes, NothingFilled, 1), 1)
<1>1. 1 \in 1 .. Len(sizes)
  OBVIOUS
<1> DEFINE new == AddSentence(sizes, NothingFilled, 1)
<1>2. new = [chunks |-> << >>, curr |-> <<1>>]
  BY <1>1, PieceOfOne DEF AddSentence, NothingFilled
<1>21. new.chunks = << >> /\ new.curr = <<1>>
  BY <1>2
<1>3. << >> \in Seq(Seq(1 .. Len(sizes))) /\ <<1>> \in Seq(1 .. Len(sizes)) /\ Len(<< >>) = 0
  BY <1>1
<1>4. Piece(sizes, <<1>>) /\ <<1>>[Len(<<1>>)] = 1 /\ <<1>>[1] = 1
  BY <1>1, PieceOfOne
<1>5. new \in [chunks : Seq(Seq(1 .. Len(sizes))), curr : Seq(1 .. Len(sizes))]
  <2>1. [chunks |-> << >>, curr |-> <<1>>]
           \in [chunks : Seq(Seq(1 .. Len(sizes))), curr : Seq(1 .. Len(sizes))]
    BY <1>3
  <2>2. QED
    BY <1>2, <2>1
<1> HIDE DEF new
<1>6. Filling(sizes, new, 1)
  BY <1>21, <1>3, <1>4, <1>5 DEF Filling
<1>7. QED
  BY <1>6 DEF new

\* What joins a chunk still does when one more sentence is added.
LEMMA JoinsGrown ==
  ASSUME NEW b, NEW c, NEW d, Joins(b, c), d[1] = c[1], NEW s \in Nat, c[Len(c)] = s,
         d[Len(d)] = s + 1, b[Len(b)] \in Nat
  PROVE  Joins(b, d)
  BY DEF Joins

\* A piece begins and ends with sentences of the text.
LEMMA PieceEnds ==
  ASSUME NEW sizes \in Seq(Nat), NEW c, Piece(sizes, c)
  PROVE  /\ c[1] \in Nat /\ c[Len(c)] \in Nat /\ Len(c) \in Nat
         /\ c[1] \in 1 .. Len(sizes) /\ c[Len(c)] \in 1 .. Len(sizes)
<1>1. c \in Seq(1 .. Len(sizes)) /\ Len(c) \in Nat /\ Len(c) >= 1
  BY DEF Piece
<1>2. 1 \in 1 .. Len(c) /\ Len(c) \in 1 .. Len(c)
  BY <1>1
<1>3. c[1] \in 1 .. Len(sizes) /\ c[Len(c)] \in 1 .. Len(sizes)
  BY <1>1, <1>2, ElementOfSeq
<1>4. QED
  BY <1>1, <1>3

\* The list after Append.
Grown(list, q, e, n) ==
    /\ Len(list) = n + 1 /\ list[n + 1] = e /\ list # << >>
    /\ \A i \in 1 .. n : list[i] = q[i]

\* Append adds one at the end and changes nothing before it.
LEMMA AppendIs ==
  ASSUME NEW S, NEW q \in Seq(S), NEW e \in S, NEW n \in Nat, n = Len(q)
  PROVE  Grown(Append(q, e), q, e, n)
  BY DEF Grown

\* One more sentence, in the open chunk or in a new one.
LEMMA NextSentence ==
  ASSUME NEW sizes \in Seq(Nat), NEW s \in Nat, s >= 1, s + 1 <= Len(sizes),
         NEW acc, Filling(sizes, acc, s)
  PROVE  Filling(sizes, AddSentence(sizes, acc, s + 1), s + 1)
<1>0. PICK n \in Nat : n = Len(acc.chunks)
  <2>1. acc.chunks \in Seq(Seq(1 .. Len(sizes)))
    BY DEF Filling
  <2>2. QED
    BY <2>1
<1> DEFINE c == acc.curr
           new == AddSentence(sizes, acc, s + 1)
<1>1. s + 1 \in 1 .. Len(sizes)
  OBVIOUS
<1>2. Piece(sizes, c) /\ c[Len(c)] = s /\ s + 1 = c[Len(c)] + 1 /\ c # << >>
  <2>1. Piece(sizes, c) /\ c[Len(c)] = s
    BY DEF Filling
  <2>2. c # << >>
    BY <2>1 DEF Piece
  <2>3. QED
    BY <2>1, <2>2
<1>3. new \in [chunks : Seq(Seq(1 .. Len(sizes))), curr : Seq(1 .. Len(sizes))]
  BY <1>1, FillingType DEF Filling
<1>4. acc.chunks \in Seq(Seq(1 .. Len(sizes))) /\ n \in Nat /\ n = Len(acc.chunks)
  BY <1>0 DEF Filling
<1>F. /\ \A i \in 1 .. n : Piece(sizes, acc.chunks[i])
      /\ \A i \in 2 .. n : Joins(acc.chunks[i - 1], acc.chunks[i])
      /\ acc.chunks = << >> => c[1] = 1 /\ n = 0
      /\ acc.chunks # << >> => acc.chunks[1][1] = 1 /\ Joins(acc.chunks[n], c) /\ n >= 1
  <2>1. /\ \A i \in 1 .. n : Piece(sizes, acc.chunks[i])
        /\ \A i \in 2 .. n : Joins(acc.chunks[i - 1], acc.chunks[i])
        /\ acc.chunks = << >> => c[1] = 1
        /\ acc.chunks # << >> => acc.chunks[1][1] = 1 /\ Joins(acc.chunks[n], c)
    BY <1>0 DEF Filling
  <2>2. (acc.chunks = << >> => n = 0) /\ (acc.chunks # << >> => n >= 1)
    BY <1>4
  <2>3. QED
    BY <2>1, <2>2
<1>5. CASE ~(Words(LengthsOf(sizes, c)) + sizes[s + 1] > ChunkLimit)
  <2> DEFINE d == Append(c, s + 1)
  <2>1. new = [chunks |-> acc.chunks, curr |-> d]
    BY <1>5 DEF AddSentence
  <2>2. Piece(sizes, d) /\ d[1] = c[1] /\ d[Len(d)] = s + 1
    BY <1>1, <1>2, <1>5, PieceGrows
  <2> HIDE DEF d
  <2>3. acc.chunks = << >> => d[1] = 1
    BY <2>2, <1>F
  <2>4. ASSUME acc.chunks # << >> PROVE acc.chunks[1][1] = 1 /\ Joins(acc.chunks[n], d)
    <3>1. n \in 1 .. n
      BY <1>4, <2>4
    <3>2. Piece(sizes, acc.chunks[n])
      BY <3>1, <1>F
    <3>3. acc.chunks[n][Len(acc.chunks[n])] \in Nat
      BY <3>2, PieceEnds
    <3>4. Joins(acc.chunks[n], c) /\ acc.chunks[1][1] = 1
      BY <2>4, <1>F
    <3>5. QED
      BY <1>2, <2>2, <3>3, <3>4, JoinsGrown
  <2> HIDE DEF c, new
  <2>5. new.chunks = acc.chunks /\ new.curr = d
    BY <2>1
  <2>6. QED
    BY <1>3, <1>4, <2>2, <2>3, <2>4, <2>5, <1>F DEF Filling, new
<1>6. CASE Words(LengthsOf(sizes, c)) + sizes[s + 1] > ChunkLimit
  <2> DEFINE d == Append(LastThree(c), s + 1)
             list == Append(acc.chunks, c)
  <2>1. new = [chunks |-> list, curr |-> d]
    BY <1>2, <1>6 DEF AddSentence
  <2>2. Piece(sizes, d) /\ Joins(c, d) /\ d[Len(d)] = s + 1
    BY <1>1, <1>2, PieceRestarts
  <2>3. c \in Seq(1 .. Len(sizes))
    BY <1>2 DEF Piece
  <2>4. /\ Len(list) = n + 1 /\ list[n + 1] = c /\ list # << >>
        /\ \A i \in 1 .. n : list[i] = acc.chunks[i]
    <3>1. Grown(list, acc.chunks, c, n)
      BY <1>4, <2>3, AppendIs, Zenon
    <3> HIDE DEF list, c, new, d
    <3>2. QED
      BY <3>1 DEF Grown
  <2>5. new.chunks = list /\ new.curr = d
    BY <2>1
  <2> HIDE DEF list, d, new
  <2>6. \A i \in 1 .. n + 1 : Piece(sizes, list[i])
    <3>1. \A i \in 1 .. n : Piece(sizes, list[i])
      BY <2>4, <1>F
    <3>2. \A i \in 1 .. n + 1 : i \in 1 .. n \/ i = n + 1
      OBVIOUS
    <3>3. QED
      BY <1>2, <2>4, <3>1, <3>2
  <2>7. ASSUME NEW i \in 2 .. n + 1 PROVE Joins(list[i - 1], list[i])
    <3>1. CASE i = n + 1
      <4>1. i - 1 = n /\ n \in 1 .. n /\ acc.chunks # << >>
        BY <1>4, <3>1
      <4>2. Joins(acc.chunks[n], c)
        BY <4>1, <1>F
      <4>3. QED
        BY <2>4, <3>1, <4>1, <4>2
    <3>2. CASE i # n + 1
      <4>1. i \in 2 .. n /\ i \in 1 .. n /\ i - 1 \in 1 .. n
        BY <1>4, <3>2
      <4>2. Joins(acc.chunks[i - 1], acc.chunks[i])
        BY <4>1, <1>F
      <4>3. QED
        BY <2>4, <4>1, <4>2
    <3>3. QED
      BY <3>1, <3>2
  <2>8. list[1][1] = 1
    <3>1. CASE acc.chunks = << >>
      <4>1. n + 1 = 1 /\ c[1] = 1
        BY <3>1, <1>F
      <4>2. QED
        BY <2>4, <4>1
    <3>2. CASE acc.chunks # << >>
      <4>1. 1 \in 1 .. n /\ acc.chunks[1][1] = 1
        BY <1>4, <3>2, <1>F
      <4>2. QED
        BY <2>4, <4>1
    <3>3. QED
      BY <3>1, <3>2
  <2>9. Joins(list[Len(list)], d)
    BY <2>2, <2>4
  <2> HIDE DEF c
  <2>10. QED
    BY <1>3, <2>2, <2>4, <2>5, <2>6, <2>7, <2>8, <2>9, <1>F DEF Filling, new
<1>7. QED
  BY <1>5, <1>6

\* The function in the definition of _chunk_text.
FilledUpTo(sizes) == CHOOSE f : f =
    [s \in 0 .. Len(sizes) |-> IF s = 0 THEN [chunks |-> << >>, curr |-> << >>]
                              ELSE AddSentence(sizes, f[s - 1], s)]

\* The definition of _chunk_text, with its function named.
LEMMA ChunkTextIsUpTo ==
  \A sizes : _chunk_text(sizes) = Append(FilledUpTo(sizes)[Len(sizes)].chunks,
                                       FilledUpTo(sizes)[Len(sizes)].curr)
  BY DEF _chunk_text, FilledUpTo

\* That function satisfies its recursive definition.
LEMMA FilledRecursion ==
  ASSUME NEW sizes \in Seq(Nat)
  PROVE  /\ FilledUpTo(sizes)[0] = NothingFilled
         /\ \A s \in 1 .. Len(sizes) :
               FilledUpTo(sizes)[s] = AddSentence(sizes, FilledUpTo(sizes)[s - 1], s)
<1>0. PICK n \in Nat : n = Len(sizes)
  OBVIOUS
<1> DEFINE V == [chunks : Seq(Seq(1 .. Len(sizes))), curr : Seq(1 .. Len(sizes))]
           step == [i \in 1 .. n |-> [x \in V |-> AddSentence(sizes, x, i)]]
           R(f) == [s \in 0 .. n |-> IF s = 0 THEN NothingFilled
                                     ELSE AddSentence(sizes, f[s - 1], s)]
           F == FilledUpTo(sizes)
<1>1. NothingFilled \in V
  BY DEF NothingFilled
<1>2. \A i \in 1 .. n : \A x \in V : AddSentence(sizes, x, i) \in V
  BY <1>0, FillingType
<1> HIDE DEF V
<1>3. step \in StepsOn(n, V)
  BY <1>2 DEF StepsOn
<1>4. \A i \in 1 .. n : \A x \in V : step[i][x] = AddSentence(sizes, x, i)
  OBVIOUS
<1> HIDE DEF step
<1>5. PICK f : Recursion(f, n, V, NothingFilled, step)
  BY <1>1, <1>3, RecursionExists
<1>6. /\ f \in [0 .. n -> V] /\ f[0] = NothingFilled
      /\ \A i \in 1 .. n : f[i] = AddSentence(sizes, f[i - 1], i)
  <2>1. \A i \in 1 .. n : i - 1 \in 0 .. n
    OBVIOUS
  <2>2. f \in [0 .. n -> V] /\ f[0] = NothingFilled /\ \A i \in 1 .. n : f[i] = step[i][f[i - 1]]
    BY <1>5 DEF Recursion
  <2>3. \A i \in 1 .. n : f[i - 1] \in V
    BY <2>1, <2>2
  <2>4. QED
    BY <1>4, <2>2, <2>3
<1>7. f = R(f)
  <2>1. \A i \in 0 .. n : i # 0 => i \in 1 .. n
    OBVIOUS
  <2>2. QED
    BY <1>6, <2>1
<1>8. F = R(F)
  BY <1>0, <1>7 DEF FilledUpTo, NothingFilled
<1> HIDE DEF F
<1>9. F[0] = NothingFilled /\ \A i \in 1 .. n : F[i] = AddSentence(sizes, F[i - 1], i)
  <2>1. 0 \in 0 .. n /\ \A i \in 1 .. n : i # 0 /\ i \in 0 .. n
    OBVIOUS
  <2>2. \A i \in 0 .. n : F[i] = R(F)[i]
    BY <1>8
  <2>3. QED
    BY <2>1, <2>2
<1>10. QED
  BY <1>0, <1>9 DEF F

\* Induction over the sentences.
LEMMA FilledToTheEnd ==
  ASSUME NEW sizes \in Seq(Nat), Len(sizes) >= 1
  PROVE  Filling(sizes, FilledUpTo(sizes)[Len(sizes)], Len(sizes))
<1>0. PICK n \in Nat : n = Len(sizes) /\ n >= 1
  OBVIOUS
<1> DEFINE F == FilledUpTo(sizes)
           S == {k \in Nat : k + 1 <= n => Filling(sizes, F[k + 1], k + 1)}
<1>1. F[0] = NothingFilled /\ \A s \in 1 .. n : F[s] = AddSentence(sizes, F[s - 1], s)
  BY <1>0, FilledRecursion
<1> HIDE DEF F
<1>2. 0 \in S
  <2>1. F[1] = AddSentence(sizes, NothingFilled, 1)
    <3>1. 1 \in 1 .. n /\ 1 - 1 = 0
      BY <1>0
    <3>2. QED
      BY <1>1, <3>1
  <2>2. Filling(sizes, F[0 + 1], 0 + 1)
    BY <1>0, <2>1, FirstSentence
  <2>3. QED
    BY <2>2
<1>3. ASSUME NEW k \in Nat, k \in S PROVE k + 1 \in S
  <2> SUFFICES ASSUME (k + 1) + 1 <= n PROVE Filling(sizes, F[(k + 1) + 1], (k + 1) + 1)
    OBVIOUS
  <2>1. k + 1 >= 1 /\ k + 1 \in Nat /\ (k + 1) + 1 \in 1 .. n /\ ((k + 1) + 1) - 1 = k + 1
        /\ k + 1 <= n
    OBVIOUS
  <2>2. Filling(sizes, F[k + 1], k + 1)
    BY <1>3, <2>1
  <2>3. F[(k + 1) + 1] = AddSentence(sizes, F[k + 1], (k + 1) + 1)
    BY <1>1, <2>1
  <2>4. QED
    BY <1>0, <2>1, <2>2, <2>3, NextSentence
<1>4. Nat \subseteq S
  <2> HIDE DEF S
  <2>1. QED
    BY <1>2, <1>3, SetInduction
<1>5. n - 1 \in S /\ (n - 1) + 1 = n
  <2> HIDE DEF S
  <2>1. n - 1 \in Nat /\ (n - 1) + 1 = n
    BY <1>0
  <2>2. QED
    BY <1>4, <2>1
<1>6. QED
  BY <1>0, <1>5 DEF F

\* A list of chunks as Filling describes it goes through the text.
LEMMA FilledCovers ==
  ASSUME NEW sizes \in Seq(Nat), NEW acc, Filling(sizes, acc, Len(sizes))
  PROVE  Covers(Append(acc.chunks, acc.curr), sizes)
<1> DEFINE parts == Append(acc.chunks, acc.curr)
           c == acc.curr
<1>0. acc.chunks \in Seq(Seq(1 .. Len(sizes))) /\ c \in Seq(1 .. Len(sizes))
  BY DEF Filling
<1>A. PICK n \in Nat : n = Len(acc.chunks)
  BY <1>0
<1>1. /\ acc.chunks \in Seq(Seq(1 .. Len(sizes))) /\ c \in Seq(1 .. Len(sizes))
      /\ n \in Nat /\ n = Len(acc.chunks)
  BY <1>0, <1>A
<1>F. /\ \A i \in 1 .. n : Piece(sizes, acc.chunks[i])
      /\ \A i \in 2 .. n : Joins(acc.chunks[i - 1], acc.chunks[i])
      /\ acc.chunks = << >> => c[1] = 1 /\ n = 0
      /\ acc.chunks # << >> => acc.chunks[1][1] = 1 /\ Joins(acc.chunks[n], c) /\ n >= 1
  <2>1. /\ \A i \in 1 .. n : Piece(sizes, acc.chunks[i])
        /\ \A i \in 2 .. n : Joins(acc.chunks[i - 1], acc.chunks[i])
        /\ acc.chunks = << >> => c[1] = 1
        /\ acc.chunks # << >> => acc.chunks[1][1] = 1 /\ Joins(acc.chunks[n], c)
    BY <1>A DEF Filling
  <2>2. (acc.chunks = << >> => n = 0) /\ (acc.chunks # << >> => n >= 1)
    BY <1>1
  <2>3. QED
    BY <2>1, <2>2
<1>2. /\ parts \in Seq(Seq(1 .. Len(sizes))) /\ Len(parts) = n + 1 /\ parts[n + 1] = c
      /\ \A i \in 1 .. n : parts[i] = acc.chunks[i]
  BY <1>1
<1> HIDE DEF parts
<1>3. \A i \in 1 .. n + 1 : i \in 1 .. n \/ i = n + 1
  OBVIOUS
<1>G. Piece(sizes, c)
  BY DEF Filling
<1>4. \A i \in 1 .. n + 1 : Piece(sizes, parts[i])
  BY <1>2, <1>3, <1>F, <1>G
<1>5. ASSUME NEW i \in 2 .. n + 1 PROVE Joins(parts[i - 1], parts[i])
  <2>1. CASE i = n + 1
    <3>1. i - 1 = n /\ n \in 1 .. n /\ acc.chunks # << >>
      BY <1>1, <2>1
    <3>2. Joins(acc.chunks[n], c)
      BY <3>1, <1>F
    <3>3. QED
      BY <1>2, <2>1, <3>1, <3>2
  <2>2. CASE i # n + 1
    <3>1. i \in 2 .. n /\ i \in 1 .. n /\ i - 1 \in 1 .. n
      BY <1>1, <2>2
    <3>2. Joins(acc.chunks[i - 1], acc.chunks[i])
      BY <3>1, <1>F
    <3>3. QED
      BY <1>2, <3>1, <3>2
  <2>3. QED
    BY <2>1, <2>2
<1>6. parts[1][1] = 1
  <2>1. CASE acc.chunks = << >>
    <3>1. n + 1 = 1 /\ c[1] = 1
      BY <2>1, <1>F
    <3>2. QED
      BY <1>2, <3>1
  <2>2. CASE acc.chunks # << >>
    <3>1. 1 \in 1 .. n /\ acc.chunks[1][1] = 1
      BY <1>1, <2>2, <1>F
    <3>2. QED
      BY <1>2, <3>1
  <2>3. QED
    BY <2>1, <2>2
<1>7. c[Len(c)] = Len(sizes)
  BY DEF Filling
<1> HIDE DEF c
<1>8. parts # << >> /\ Head(parts) = parts[1] /\ DOMAIN parts = 1 .. n + 1
  <2>1. parts # << >> /\ DOMAIN parts = 1 .. n + 1
    BY <1>1, <1>2
  <2>2. Head(parts) = parts[1]
    BY <1>2, <2>1, HeadTailProperties
  <2>3. QED
    BY <2>1, <2>2
<1>9. \A i \in 1 .. n + 1 : \A j \in 2 .. Len(parts[i]) : parts[i][j] = parts[i][j - 1] + 1
  BY <1>4 DEF Piece
<1>10. \A i \in 1 .. n + 1 :
          Words(LengthsOf(sizes, parts[i])) > ChunkLimit => Len(parts[i]) <= 4
  BY <1>4 DEF Piece
<1>11. \A i \in 2 .. Len(parts) : /\ parts[i][1] <= Last(parts[i - 1]) + 1
                                  /\ Last(parts[i]) > Last(parts[i - 1])
  BY <1>2, <1>5 DEF Joins, Last
<1>12. Last(Last(parts)) = Len(sizes)
  BY <1>2, <1>7 DEF Last
<1>13. Covers(parts, sizes)
  BY <1>6, <1>8, <1>9, <1>10, <1>11, <1>12 DEF Covers
<1>14. QED
  BY <1>13 DEF parts

\* A number of words is a number.
LEMMA WordsType ==
  ASSUME NEW s \in Seq(Nat)
  PROVE  Words(s) \in Nat
<1>1. 0 \in Nat
  OBVIOUS
<1>2. QED
  BY <1>1, WordsOfMore

\* A text that fits is one chunk.
LEMMA OneChunk ==
  ASSUME NEW sizes \in Seq(Nat), Len(sizes) >= 1, ~(Words(sizes) > ChunkLimit)
  PROVE  /\ Covers(<<[i \in DOMAIN sizes |-> i]>>, sizes)
         /\ <<[i \in DOMAIN sizes |-> i]>> \in Seq(Seq(Nat))
<1> DEFINE id == [i \in DOMAIN sizes |-> i]
           parts == <<id>>
<1>0. PICK n \in Nat : n = Len(sizes) /\ n >= 1
  OBVIOUS
<1>1. id \in Seq(Nat) /\ Len(id) = n /\ \A i \in 1 .. n : id[i] = i
  BY <1>0
<1>2. LengthsOf(sizes, id) = sizes
  <2>1. sizes = [i \in 1 .. n |-> sizes[i]]
    BY <1>0
  <2>2. DOMAIN id = 1 .. n
    BY <1>0
  <2> HIDE DEF id
  <2>3. LengthsOf(sizes, id) = [i \in 1 .. n |-> sizes[i]]
    BY <1>1, <2>2 DEF LengthsOf
  <2>4. QED
    BY <2>1, <2>3
<1> HIDE DEF id
<1>3. /\ parts \in Seq(Seq(Nat)) /\ Len(parts) = 1 /\ parts[1] = id /\ parts # << >>
      /\ DOMAIN parts = {1} /\ Head(parts) = id
  BY <1>1
<1> HIDE DEF parts
<1>4. Head(parts)[1] = 1 /\ Last(Last(parts)) = Len(sizes)
  <2>1. 1 \in 1 .. n /\ n \in 1 .. n
    BY <1>0
  <2>2. id[1] = 1 /\ id[n] = n
    BY <1>1, <2>1
  <2>3. Last(parts) = id
    BY <1>3 DEF Last
  <2>4. Last(id) = n
    BY <1>1, <2>2 DEF Last
  <2>5. QED
    BY <1>0, <1>3, <2>2, <2>3, <2>4
<1>5. \A j \in 2 .. Len(id) : id[j] = id[j - 1] + 1
  <2>1. \A j \in 2 .. n : j \in 1 .. n /\ j - 1 \in 1 .. n /\ (j - 1) + 1 = j
    OBVIOUS
  <2>2. QED
    BY <1>1, <2>1
<1>6. \A i \in DOMAIN parts : parts[i] = id
  BY <1>3
<1>7. \A i \in 2 .. Len(parts) : FALSE
  BY <1>3
<1>8. Covers(parts, sizes)
  BY <1>2, <1>3, <1>4, <1>5, <1>6, <1>7 DEF Covers
<1>9. QED
  BY <1>3, <1>8 DEF parts, id

\* What the requests are served from goes through the whole text.
LEMMA ChunksCover ==
  ASSUME NEW sizes \in Texts, Words(sizes) \in MinWords .. MaxWords
  PROVE  Covers(Chunks[sizes], sizes) /\ Chunks[sizes] \in Seq(Seq(Nat))
<1>1. sizes \in Seq(Nat) /\ MinWords \in Nat \ {0} /\ MaxWords \in Nat /\ ChunkLimit \in Nat
  BY CoreAssumption
<1>2. Words(sizes) \in Nat /\ Words(sizes) >= 1
  BY <1>1, WordsType
<1>3. Len(sizes) >= 1
  <2>1. sizes # << >>
    BY <1>2, WordsOfNone
  <2>2. QED
    BY <1>1, <2>1
<1>4. CASE Words(sizes) > ChunkLimit
  <2>1. Chunks[sizes] = _chunk_text(sizes)
    BY <1>4 DEF Chunks
  <2> DEFINE acc == FilledUpTo(sizes)[Len(sizes)]
  <2>2. _chunk_text(sizes) = Append(acc.chunks, acc.curr)
    BY ChunkTextIsUpTo, Zenon
  <2>3. Filling(sizes, acc, Len(sizes))
    BY <1>1, <1>3, FilledToTheEnd, Zenon
  <2> HIDE DEF acc
  <2>4. Covers(Append(acc.chunks, acc.curr), sizes)
    BY <1>1, <2>3, FilledCovers
  <2>5. acc.chunks \in Seq(Seq(1 .. Len(sizes))) /\ acc.curr \in Seq(1 .. Len(sizes))
    BY <2>3 DEF Filling
  <2>6. Append(acc.chunks, acc.curr) \in Seq(Seq(Nat))
    <3>1. PICK n \in Nat : n = Len(sizes)
      BY <1>1
    <3>2. acc.chunks \in Seq(Seq(1 .. n)) /\ acc.curr \in Seq(1 .. n)
      BY <2>5, <3>1
    <3>3. Seq(1 .. n) \subseteq Seq(Nat)
      <4>1. ASSUME NEW q \in Seq(1 .. n) PROVE q \in Seq(Nat)
        OBVIOUS
      <4>2. QED
        BY <4>1
    <3>4. PICK T : T = Seq(1 .. n) /\ T \subseteq Seq(Nat)
      BY <3>3
    <3>5. acc.chunks \in Seq(T) /\ acc.curr \in T
      BY <3>2, <3>4
    <3>6. PICK U : U = Seq(Nat) /\ T \subseteq U
      BY <3>4
    <3>7. Append(acc.chunks, acc.curr) \in Seq(U)
      BY <3>5, <3>6
    <3>8. QED
      BY <3>6, <3>7
  <2>7. QED
    BY <2>1, <2>2, <2>4, <2>6
<1>5. CASE ~(Words(sizes) > ChunkLimit)
  <2>1. Chunks[sizes] = <<[i \in DOMAIN sizes |-> i]>>
    BY <1>5 DEF Chunks
  <2>2. QED
    BY <1>1, <1>3, <1>5, <2>1, OneChunk
<1>6. QED
  BY <1>4, <1>5

-----------------------------------------------------------------------------
(* The requests.                                                           *)

Whole(result, key) ==
    result \in Result /\ result.quality = "full" /\ Covers(result.parts, key[1])

\* A request that uses the cache is for a text within the limits; at the reduce
\* call it has one summary per chunk; after it, its result is of the whole text.
TaskOK(t, configured) ==
    \/ t = NoTask
    \/ /\ t \in Task
       /\ t.stage \in {"lookup", "model", "merge"} => Words(t.key[1]) \in MinWords .. MaxWords
       /\ t.stage = "merge" => Len(t.got) = Len(Chunks[t.key[1]])
       /\ t.stage \in {"takeaways", "store"} => Whole(t.result, t.key)
       /\ t.stage = "answered" /\ configured => Whole(t.result, t.key)

CacheOK(stored) ==
    /\ stored \in [Keys -> Result]
    /\ \A k \in Keys : stored[k] = Nothing \/ Whole(stored[k], k)

TasksOK(tasks, configured) ==
    tasks = [p \in Tasks |-> tasks[p]] /\ \A p \in Tasks : TaskOK(tasks[p], configured)

CoreIInv == provider \in BOOLEAN /\ CacheOK(cache) /\ TasksOK(task, provider)

\* What a miss is, as a result.
LEMMA NothingType == Nothing \in Result /\ Nothing.quality = "none" /\ Nothing.parts = << >>
                     /\ Nothing.takeaways = FALSE
  BY DEF Nothing, Result

\* The result of a summary with these parts.
LEMMA ResultType ==
  ASSUME NEW parts \in Seq(Seq(Nat)), NEW q \in {"none", "full", "extractive"},
         NEW b \in BOOLEAN
  PROVE  [parts |-> parts, quality |-> q, takeaways |-> b] \in Result
  BY DEF Result

\* It holds with an empty cache and no request.
THEOREM CoreInitIInv == CoreInit => CoreIInv
<1> SUFFICES ASSUME CoreInit PROVE CoreIInv
  OBVIOUS
<1>1. CacheOK(cache)
  BY NothingType DEF CoreInit, CacheOK
<1>2. TasksOK(task, provider)
  BY DEF CoreInit, TasksOK, TaskOK
<1>3. QED
  BY <1>1, <1>2 DEF CoreInit, CoreIInv

\* A step of one request.
LEMMA CoreTaskStep ==
  ASSUME CoreIInv, NEW p \in Tasks, NEW t, TaskOK(t, provider),
         task' = [task EXCEPT ![p] = t], provider' = provider, CacheOK(cache')
  PROVE  CoreIInv'
<1>1. TasksOK(task', provider')
  BY DEF CoreIInv, TasksOK
<1>2. QED
  BY <1>1 DEF CoreIInv

\* A step that leaves the cache alone.
LEMMA CacheStays ==
  ASSUME CoreIInv, UNCHANGED <<provider, cache>>
  PROVE  provider' = provider /\ CacheOK(cache')
  BY DEF CoreIInv

\* A request under way.
LEMMA UnderWay ==
  ASSUME CoreIInv, NEW p \in Tasks, task[p].stage # "idle"
  PROVE  /\ task[p] \in Task /\ TaskOK(task[p], provider) /\ task[p] # NoTask
         /\ task[p].key \in Keys /\ task[p].key[1] \in Texts /\ task[p].got \in Seq(Nat)
         /\ task[p].result \in Result /\ task[p].stage \in TaskStages
<1>1. TaskOK(task[p], provider)
  BY DEF CoreIInv, TasksOK
<1>2. task[p] # NoTask
  BY DEF NoTask
<1>3. task[p] \in Task
  BY <1>1, <1>2 DEF TaskOK
<1>4. QED
  BY <1>1, <1>2, <1>3 DEF Task, Keys

\* A request of these parts.
LEMMA RequestIs ==
  ASSUME NEW phase \in TaskStages, NEW key \in Keys, NEW got \in Seq(Nat),
         NEW result \in Result
  PROVE  LET t == [stage |-> phase, key |-> key, got |-> got, result |-> result]
         IN  t \in Task /\ t.stage = phase /\ t.key = key /\ t.got = got /\ t.result = result
  BY DEF Task

\* The answer of the extractive fallback is a result.
LEMMA OtherQuality ==
  ASSUME NEW q \in {"none", "full", "extractive"}
  PROVE  [Nothing EXCEPT !.quality = q] \in Result
  BY NothingType DEF Result

\* A request is taken on, for a text within the limits.
LEMMA SummarizeIInv ==
  ASSUME CoreIInv, NEW p \in Tasks, Summarize(p) PROVE CoreIInv'
<1>1. PICK k \in Keys :
         /\ Words(k[1]) \in MinWords .. MaxWords
         /\ task' = [task EXCEPT ![p] =
                IF provider
                THEN [stage |-> "lookup", key |-> k, got |-> << >>, result |-> Nothing]
                ELSE [stage |-> "answered", key |-> k, got |-> << >>,
                      result |-> [Nothing EXCEPT !.quality = "extractive"]]]
  BY DEF Summarize
<1>2. UNCHANGED <<provider, cache>>
  BY DEF Summarize
<1>3. << >> \in Seq(Nat)
  OBVIOUS
<1>4. CASE provider
  <2> DEFINE t == [stage |-> "lookup", key |-> k, got |-> << >>, result |-> Nothing]
  <2>1. task' = [task EXCEPT ![p] = t]
    BY <1>1, <1>4
  <2>2. t \in Task /\ t.stage = "lookup" /\ t.key = k
    BY <1>3, NothingType, RequestIs DEF TaskStages
  <2> HIDE DEF t
  <2>3. TaskOK(t, provider)
    BY <1>1, <2>2 DEF TaskOK
  <2>4. QED
    BY <1>2, <2>1, <2>3, CacheStays, CoreTaskStep
<1>5. CASE ~provider
  <2> DEFINE r == [Nothing EXCEPT !.quality = "extractive"]
             t == [stage |-> "answered", key |-> k, got |-> << >>, result |-> r]
  <2>1. task' = [task EXCEPT ![p] = t]
    BY <1>1, <1>5
  <2>2. r \in Result
    BY OtherQuality
  <2> HIDE DEF r
  <2>3. t \in Task /\ t.stage = "answered"
    BY <1>3, <2>2, RequestIs DEF TaskStages
  <2> HIDE DEF t
  <2>4. TaskOK(t, provider)
    BY <1>5, <2>3 DEF TaskOK
  <2>5. QED
    BY <1>2, <2>1, <2>4, CacheStays, CoreTaskStep
<1>6. QED
  BY <1>4, <1>5

\* A stream is taken on; it neither reads nor writes the cache.
LEMMA PrepareIInv ==
  ASSUME CoreIInv, NEW p \in Tasks, Prepare(p) PROVE CoreIInv'
<1>1. PICK k \in Keys :
         task' = [task EXCEPT ![p] =
                [stage |-> IF provider THEN "stream" ELSE "answered", key |-> k, got |-> << >>,
                 result |-> [Nothing EXCEPT !.quality =
                                IF provider THEN "none" ELSE "extractive"]]]
  BY DEF Prepare
<1>2. UNCHANGED <<provider, cache>>
  BY DEF Prepare
<1> DEFINE q == IF provider THEN "none" ELSE "extractive"
           phase == IF provider THEN "stream" ELSE "answered"
           r == [Nothing EXCEPT !.quality = q]
           t == [stage |-> phase, key |-> k, got |-> << >>, result |-> r]
<1>3. task' = [task EXCEPT ![p] = t]
  BY <1>1
<1>4. q \in {"none", "extractive"} /\ phase \in TaskStages
  BY DEF TaskStages
<1>5. phase = "stream" \/ (phase = "answered" /\ ~provider)
  OBVIOUS
<1> HIDE DEF q, phase
<1>6. r \in Result
  BY <1>4, OtherQuality
<1> HIDE DEF r
<1>7. t \in Task /\ t.stage = phase
  <2>1. << >> \in Seq(Nat)
    OBVIOUS
  <2>2. QED
    BY <1>4, <1>6, <2>1, RequestIs
<1> HIDE DEF t
<1>8. TaskOK(t, provider)
  BY <1>5, <1>7 DEF TaskOK
<1>9. QED
  BY <1>2, <1>3, <1>8, CacheStays, CoreTaskStep

\* A hit is whole since the cache is.
LEMMA LookupIInv ==
  ASSUME CoreIInv, NEW p \in Tasks, Lookup(p) PROVE CoreIInv'
<1>1. task[p].stage = "lookup" /\ UNCHANGED <<provider, cache>>
  BY DEF Lookup, TaskAt
<1>2. /\ task[p] \in Task /\ TaskOK(task[p], provider) /\ task[p] # NoTask
      /\ task[p].key \in Keys /\ task[p].got \in Seq(Nat) /\ task[p].result \in Result
  BY <1>1, UnderWay
<1>3. CASE TaskTo(p, "model")
  <2> DEFINE t == [task[p] EXCEPT !.stage = "model"]
  <2>1. task' = [task EXCEPT ![p] = t]
    BY <1>3 DEF TaskTo
  <2>2. t \in Task /\ t.stage = "model" /\ t.key = task[p].key
    BY <1>2 DEF Task, TaskStages
  <2> HIDE DEF t
  <2>3. TaskOK(t, provider)
    BY <1>1, <1>2, <2>2 DEF TaskOK
  <2>4. QED
    BY <1>1, <2>1, <2>3, CacheStays, CoreTaskStep
<1>4. CASE /\ cache[task[p].key] # Nothing
           /\ task' = [task EXCEPT ![p].stage = "answered", ![p].result = cache[task[p].key]]
  <2> DEFINE r == cache[task[p].key]
             t == [task[p] EXCEPT !.stage = "answered", !.result = r]
  <2>1. task' = [task EXCEPT ![p] = t]
    BY <1>4
  <2>2. Whole(r, task[p].key)
    BY <1>2, <1>4 DEF CoreIInv, CacheOK
  <2>3. r \in Result
    BY <2>2 DEF Whole
  <2> HIDE DEF r
  <2>4. t \in Task /\ t.stage = "answered" /\ t.key = task[p].key /\ t.result = r
    BY <1>2, <2>3 DEF Task, TaskStages
  <2> HIDE DEF t
  <2>5. TaskOK(t, provider)
    BY <2>2, <2>4 DEF TaskOK
  <2>6. QED
    BY <1>1, <2>1, <2>5, CacheStays, CoreTaskStep
<1>5. QED
  BY <1>3, <1>4 DEF Lookup

\* The last summary of a chunk completes the list.
LEMMA _map_chunkIInv ==
  ASSUME CoreIInv, NEW p \in Tasks, _map_chunk(p) PROVE CoreIInv'
<1>1. task[p].stage = "model" /\ UNCHANGED <<provider, cache>>
  BY DEF _map_chunk, TaskAt
<1>2. /\ task[p] \in Task /\ TaskOK(task[p], provider) /\ task[p] # NoTask
      /\ task[p].key \in Keys /\ task[p].key[1] \in Texts /\ task[p].got \in Seq(Nat)
      /\ task[p].result \in Result
  BY <1>1, UnderWay
<1>3. Words(task[p].key[1]) \in MinWords .. MaxWords
  BY <1>1, <1>2 DEF TaskOK
<1> DEFINE chunks == Chunks[task[p].key[1]]
<1>4. chunks \in Seq(Seq(Nat))
  BY <1>2, <1>3, ChunksCover
<1>5. PICK c \in DOMAIN chunks :
         task' = [task EXCEPT ![p].got = Append(@, c),
                        ![p].stage = IF Len(task[p].got) + 1 = Len(chunks)
                                     THEN "merge" ELSE "model"]
  BY DEF _map_chunk, Text
<1> DEFINE phase == IF Len(task[p].got) + 1 = Len(chunks) THEN "merge" ELSE "model"
           got == Append(task[p].got, c)
           t == [task[p] EXCEPT !.got = got, !.stage = phase]
<1> HIDE DEF chunks
<1>6. task' = [task EXCEPT ![p] = t]
  BY <1>5
<1>7. got \in Seq(Nat) /\ Len(got) = Len(task[p].got) + 1
  <2>1. c \in Nat
    BY <1>4
  <2>2. QED
    BY <1>2, <2>1
<1>8. phase \in {"merge", "model"} /\ (phase = "merge" => Len(got) = Len(chunks))
  BY <1>7
<1> HIDE DEF phase, got
<1>9. t \in Task /\ t.stage = phase /\ t.key = task[p].key /\ t.got = got
  <2>1. phase \in TaskStages
    BY <1>8 DEF TaskStages
  <2>2. QED
    BY <1>2, <1>7, <2>1 DEF Task
<1> HIDE DEF t
<1>10. TaskOK(t, provider)
  BY <1>3, <1>8, <1>9 DEF TaskOK, chunks
<1>11. QED
  BY <1>1, <1>6, <1>10, CacheStays, CoreTaskStep

\* asyncio.gather hands on the chunks in their order, whatever order they came in.
LEMMA MergeIInv ==
  ASSUME CoreIInv, NEW p \in Tasks, Merge(p) PROVE CoreIInv'
<1>1. task[p].stage = "merge" /\ UNCHANGED <<provider, cache>>
  BY DEF Merge, TaskAt
<1>2. /\ task[p] \in Task /\ TaskOK(task[p], provider) /\ task[p] # NoTask
      /\ task[p].key \in Keys /\ task[p].key[1] \in Texts /\ task[p].got \in Seq(Nat)
      /\ task[p].result \in Result
  BY <1>1, UnderWay
<1> DEFINE sizes == task[p].key[1]
           r == [Nothing EXCEPT !.parts = Parts(p), !.quality = "full"]
<1>3. Words(sizes) \in MinWords .. MaxWords /\ Len(task[p].got) = Len(Chunks[sizes])
  BY <1>1, <1>2 DEF TaskOK
<1>4. Covers(Chunks[sizes], sizes) /\ Chunks[sizes] \in Seq(Seq(Nat))
  BY <1>2, <1>3, ChunksCover
<1>5. Parts(p) = Chunks[sizes]
  <2>1. PICK n \in Nat : n = Len(Chunks[sizes])
    BY <1>4
  <2>2. DOMAIN task[p].got = 1 .. n
    BY <1>2, <1>3, <2>1
  <2>3. Parts(p) = [i \in 1 .. n |-> Chunks[sizes][i]]
    BY <2>2 DEF Parts, Gather, Text
  <2>4. Chunks[sizes] = [i \in 1 .. n |-> Chunks[sizes][i]]
    BY <1>4, <2>1
  <2>5. QED
    BY <2>3, <2>4
<1>6. PICK phase \in {"takeaways", "store"} :
         task' = [task EXCEPT
                ![p].result = [Nothing EXCEPT !.parts = Parts(p), !.quality = "full"],
                ![p].got = << >>,
                ![p].stage = phase]
  BY DEF Merge
<1> DEFINE t == [task[p] EXCEPT !.result = r, !.got = << >>, !.stage = phase]
<1>7. task' = [task EXCEPT ![p] = t]
  BY <1>6
<1>8. r \in Result /\ r.quality = "full" /\ r.parts = Chunks[sizes]
  BY <1>4, <1>5, NothingType DEF Result
<1> HIDE DEF r
<1>9. Whole(r, task[p].key)
  BY <1>4, <1>8 DEF Whole
<1>10. t \in Task /\ t.stage = phase /\ t.key = task[p].key /\ t.result = r
  <2>1. phase \in TaskStages /\ << >> \in Seq(Nat)
    BY DEF TaskStages
  <2>2. QED
    BY <1>2, <1>8, <2>1 DEF Task
<1> HIDE DEF t
<1>11. TaskOK(t, provider)
  BY <1>9, <1>10 DEF TaskOK
<1>12. QED
  BY <1>1, <1>7, <1>11, CacheStays, CoreTaskStep

\* The second call changes nothing but the takeaways.
LEMMA TakeawaysIInv ==
  ASSUME CoreIInv, NEW p \in Tasks, Takeaways(p) PROVE CoreIInv'
<1>1. task[p].stage = "takeaways" /\ UNCHANGED <<provider, cache>>
  BY DEF Takeaways, TaskAt
<1>2. /\ task[p] \in Task /\ TaskOK(task[p], provider) /\ task[p] # NoTask
      /\ task[p].key \in Keys /\ task[p].got \in Seq(Nat) /\ task[p].result \in Result
  BY <1>1, UnderWay
<1>3. Whole(task[p].result, task[p].key)
  BY <1>1, <1>2 DEF TaskOK
<1>4. PICK found \in BOOLEAN :
         task' = [task EXCEPT ![p].stage = "store", ![p].result.takeaways = found]
  BY DEF Takeaways
<1> DEFINE r == [task[p].result EXCEPT !.takeaways = found]
           t == [task[p] EXCEPT !.stage = "store", !.result = r]
<1>5. task' = [task EXCEPT ![p] = t]
  BY <1>2, <1>4 DEF CoreIInv, TasksOK, Task
<1>6. r \in Result /\ r.quality = task[p].result.quality /\ r.parts = task[p].result.parts
  BY <1>2 DEF Result
<1> HIDE DEF r
<1>7. Whole(r, task[p].key)
  BY <1>3, <1>6 DEF Whole
<1>8. t \in Task /\ t.stage = "store" /\ t.key = task[p].key /\ t.result = r
  BY <1>2, <1>6 DEF Task, TaskStages
<1> HIDE DEF t
<1>9. TaskOK(t, provider)
  BY <1>7, <1>8 DEF TaskOK
<1>10. QED
  BY <1>1, <1>5, <1>9, CacheStays, CoreTaskStep

\* What is stored is whole, over whatever was there.
LEMMA StoreIInv ==
  ASSUME CoreIInv, NEW p \in Tasks, Store(p) PROVE CoreIInv'
<1>1. /\ task[p].stage = "store" /\ provider' = provider /\ TaskTo(p, "answered")
      /\ cache' \in {cache, [cache EXCEPT ![task[p].key] = task[p].result]}
  BY DEF Store, TaskAt
<1>2. /\ task[p] \in Task /\ TaskOK(task[p], provider) /\ task[p] # NoTask
      /\ task[p].key \in Keys /\ task[p].got \in Seq(Nat) /\ task[p].result \in Result
  BY <1>1, UnderWay
<1>3. Whole(task[p].result, task[p].key)
  BY <1>1, <1>2 DEF TaskOK
<1>4. CacheOK(cache')
  BY <1>1, <1>2, <1>3 DEF CoreIInv, CacheOK
<1> DEFINE t == [task[p] EXCEPT !.stage = "answered"]
<1>5. task' = [task EXCEPT ![p] = t]
  BY <1>1 DEF TaskTo
<1>6. t \in Task /\ t.stage = "answered" /\ t.key = task[p].key /\ t.result = task[p].result
  BY <1>2 DEF Task, TaskStages
<1> HIDE DEF t
<1>7. TaskOK(t, provider)
  BY <1>3, <1>6 DEF TaskOK
<1>8. QED
  BY <1>1, <1>4, <1>5, <1>7, CoreTaskStep

\* A request that fails or is answered leaves nothing.
LEMMA ForgetsIInv ==
  ASSUME CoreIInv, NEW p \in Tasks, ModelFails(p) \/ Answer(p) PROVE CoreIInv'
<1>1. task' = [task EXCEPT ![p] = NoTask] /\ UNCHANGED <<provider, cache>>
  BY DEF ModelFails, Fail, Answer
<1>2. TaskOK(NoTask, provider)
  BY DEF TaskOK
<1>3. QED
  BY <1>1, <1>2, CacheStays, CoreTaskStep

\* A key that expires is a miss.
LEMMA CacheExpiresIInv ==
  ASSUME CoreIInv, CacheExpires PROVE CoreIInv'
<1>1. PICK k \in Keys : cache' = [cache EXCEPT ![k] = Nothing]
  BY DEF CacheExpires
<1>2. CacheOK(cache')
  BY <1>1, NothingType DEF CoreIInv, CacheOK
<1>3. QED
  BY <1>2 DEF CoreIInv, CacheExpires

\* Every step keeps the invariant.
THEOREM CoreNextIInv == CoreIInv /\ [CoreNext]_coreVars => CoreIInv'
<1> SUFFICES ASSUME CoreIInv, [CoreNext]_coreVars PROVE CoreIInv'
  OBVIOUS
<1>1. CASE UNCHANGED coreVars
  BY <1>1 DEF CoreIInv, coreVars
<1>2. ASSUME NEW p \in Tasks,
             \/ Summarize(p) \/ RefuseText(p) \/ Prepare(p) \/ Lookup(p) \/ _map_chunk(p)
             \/ Merge(p) \/ Takeaways(p) \/ Store(p) \/ ModelFails(p) \/ Answer(p)
      PROVE  CoreIInv'
  <2>1. CASE Summarize(p)
    BY <2>1, SummarizeIInv
  <2>2. CASE RefuseText(p)
    BY <2>2 DEF RefuseText, CoreIInv, coreVars
  <2>3. CASE Prepare(p)
    BY <2>3, PrepareIInv
  <2>4. CASE Lookup(p)
    BY <2>4, LookupIInv
  <2>5. CASE _map_chunk(p)
    BY <2>5, _map_chunkIInv
  <2>6. CASE Merge(p)
    BY <2>6, MergeIInv
  <2>7. CASE Takeaways(p)
    BY <2>7, TakeawaysIInv
  <2>8. CASE Store(p)
    BY <2>8, StoreIInv
  <2>9. CASE ModelFails(p) \/ Answer(p)
    BY <2>9, ForgetsIInv
  <2>10. QED
    BY <1>2, <2>1, <2>2, <2>3, <2>4, <2>5, <2>6, <2>7, <2>8, <2>9
<1>3. CASE CacheExpires
  BY <1>3, CacheExpiresIInv
<1>4. QED
  BY <1>1, <1>2, <1>3 DEF CoreNext

\* The invariant the theorems about the summarizer rest on.
THEOREM CoreInductive == CoreSpec => []CoreIInv
  BY CoreInitIInv, CoreNextIInv, PTL DEF CoreSpec

\* The state of the summarizer and of its cache is well formed.
THEOREM CoreTypeCorrect == CoreSpec => []CoreTypeOK
<1>1. CoreIInv => CoreTypeOK
  BY DEF CoreIInv, CacheOK, TasksOK, TaskOK, CoreTypeOK
<1>2. QED
  BY <1>1, CoreInductive, PTL

\* Whatever requests compute the same key at the same time and whatever fails,
\* what is cached under a text, and what a configured provider answers for it, was
\* made from the whole text in order: for any texts, limits and chunk size.
THEOREM WholeResults == CoreSpec => []FullIsWhole
<1>1. CoreIInv => FullIsWhole
  <2> SUFFICES ASSUME CoreIInv PROVE FullIsWhole
    OBVIOUS
  <2>1. ASSUME NEW k \in Keys, cache[k] # Nothing
        PROVE  cache[k].quality = "full" /\ Covers(cache[k].parts, k[1])
    BY <2>1 DEF CoreIInv, CacheOK, Whole
  <2>2. ASSUME NEW p \in Tasks, TaskAt(p, "answered"), provider
        PROVE  task[p].result.quality = "full" /\ Covers(task[p].result.parts, Text(p))
    <3>1. task[p].stage = "answered"
      BY <2>2 DEF TaskAt
    <3>2. TaskOK(task[p], provider) /\ task[p] # NoTask
      BY <3>1, UnderWay
    <3>3. Whole(task[p].result, task[p].key)
      BY <2>2, <3>1, <3>2 DEF TaskOK
    <3>4. QED
      BY <3>3 DEF Whole, Text
  <2>3. QED
    BY <2>1, <2>2 DEF FullIsWhole
<1>2. QED
  BY <1>1, CoreInductive, PTL

-----------------------------------------------------------------------------
(***************************************************************************)
(* API keys: which requests a key admits, and what the audit log says.     *)
(***************************************************************************)

\* A key that was dead when the request came has been refused, or will be at the
\* second read; what the request is about to record has been committed.
WorkOK(p) ==
    /\ ~WorkAt(p, "idle") => Quiet(p) /\ work[p].owner \in Owners
    /\ WorkAt(p, "owner") /\ work[p].key \in work[p].dead => work[p].owner \in erased
    /\ WorkAt(p, "endpoint") \/ WorkAt(p, "revoke") \/ WorkAt(p, "record")
         => work[p].key \notin work[p].dead
    /\ WorkAt(p, "revoke") \/ WorkAt(p, "record") => work[p].event \in AuditEvents
    /\ WorkAt(p, "revoke") => work[p].event[1] = "revoked"
    /\ WorkAt(p, "record") => Happened(work[p].event)

KeysIInv ==
    /\ KeysTypeOK
    /\ gone \subseteq disabled
    /\ \A p \in Handlers : WorkOK(p)
    /\ \A p \in Handlers : ~Quiet(p) => Happened(writing[p])
    /\ AuditTrail

USE KeyAssumption, BackgroundAssumption

\* The invariant of the API keys holds with no key, task and event.
THEOREM KeysInitIInv == KeysInit => KeysIInv
<1> SUFFICES ASSUME KeysInit PROVE KeysIInv
  OBVIOUS
<1>1. NoWork \in Work
  BY DEF NoWork, Work, WorkSteps
<1>2. KeysTypeOK
  BY <1>1 DEF KeysInit, BackgroundInit, KeysTypeOK, BackgroundTypeOK
<1>3. \A p \in Handlers : WorkOK(p)
  BY DEF KeysInit, BackgroundInit, WorkOK, WorkAt, NoWork
<1>4. QED
  BY <1>2, <1>3 DEF KeysInit, BackgroundInit, KeysIInv, AuditTrail, Quiet

\* What happened to a key stays so.
LEMMA HappenedStays ==
    ASSUME KeysIInv, NEW e \in AuditEvents, Happened(e),
           disabled \subseteq disabled',
           \A k \in Secrets : keyOwner'[k] = keyOwner[k] \/ keyOwner'[k] \in Owners
    PROVE  Happened(e)'
<1>1. PICK w \in {"created", "revoked"}, k \in Secrets : e = <<w, k>>
  OBVIOUS
<1>2. e[1] = w /\ e[2] = k
  BY <1>1
<1>3. CASE w = "created"
  BY <1>2, <1>3 DEF Happened, Made
<1>4. CASE w = "revoked"
  BY <1>2, <1>4 DEF Happened
<1>5. QED
  BY <1>1, <1>3, <1>4

\* A step of one request: what it leaves alone, and what it must establish.
LEMMA RequestStep ==
    ASSUME KeysIInv, NEW p \in Handlers,
           UNCHANGED <<backgroundVars, erased, answered>>,
           gone' \subseteq disabled', disabled \subseteq disabled',
           disabled' \in SUBSET Secrets, lastUsed' \in SUBSET Secrets,
           \A k \in Secrets : keyOwner'[k] = keyOwner[k] \/ keyOwner'[k] \in Owners,
           keyOwner' \in [Secrets -> Owners \cup {NoOwner}],
           NEW w \in Work, work' = [work EXCEPT ![p] = w], WorkOK(p)'
    PROVE  KeysIInv'
<1>1. KeysTypeOK'
  BY DEF KeysIInv, KeysTypeOK, BackgroundTypeOK, backgroundVars
<1>2. ASSUME NEW q \in Handlers
      PROVE  WorkOK(q)'
  <2>1. CASE q = p
    BY <2>1
  <2>2. CASE q # p
    <3>1. work'[q] = work[q] /\ writing'[q] = writing[q] /\ erased' = erased
      BY <2>2 DEF KeysIInv, KeysTypeOK, backgroundVars
    <3>2. WorkOK(q)
      BY DEF KeysIInv
    <3>3. ASSUME WorkAt(q, "record")
          PROVE  Happened(work[q].event)'
      <4>1. work[q].event \in AuditEvents /\ Happened(work[q].event)
        BY <3>2, <3>3 DEF WorkOK
      <4>2. PICK e \in AuditEvents : e = work[q].event
        BY <4>1
      <4>3. Happened(e)'
        BY <4>1, <4>2, HappenedStays
      <4>4. QED
        BY <3>1, <4>2, <4>3 DEF Happened, Made
    <3>4. QED
      BY <3>1, <3>2, <3>3 DEF WorkOK, WorkAt, Quiet
  <2>3. QED
    BY <2>1, <2>2
<1>3. ASSUME NEW e \in AuditEvents, Happened(e)
      PROVE  Happened(e)'
  BY <1>3, HappenedStays
<1>4. writing' = writing /\ auditLog' = auditLog /\ lost' = lost
  BY DEF backgroundVars
<1>5. \A q \in Handlers : ~Quiet(q)' => Happened(writing[q])'
  BY <1>3, <1>4 DEF KeysIInv, KeysTypeOK, BackgroundTypeOK, Quiet
<1>6. AuditTrail'
  BY <1>3, <1>4 DEF KeysIInv, KeysTypeOK, BackgroundTypeOK, AuditTrail
<1>7. QED
  BY <1>1, <1>2, <1>4, <1>5, <1>6 DEF KeysIInv

\* A step of the log and the tasks that write it.
LEMMA TaskStep ==
    ASSUME KeysIInv, UNCHANGED keyVars, process' \in {"down", "up", "leaving"}, starts' \in Nat,
           writing' \in [Handlers -> AuditEvents \cup {NoEvent}],
           \A p \in Handlers : writing'[p] \in {writing[p], NoEvent},
           auditLog' \in SUBSET AuditEvents, lost' \in SUBSET AuditEvents,
           \A e \in auditLog' : e \in auditLog \/ \E p \in Handlers : ~Quiet(p) /\ e = writing[p],
           auditLog \cup lost \subseteq auditLog' \cup lost',
           \A p \in Handlers : writing'[p] # writing[p] => writing[p] \in auditLog' \cup lost'
    PROVE  KeysIInv'
<1> USE DEF keyVars
<1>1. KeysTypeOK'
  BY DEF KeysIInv, KeysTypeOK, BackgroundTypeOK
<1>2. \A e : Happened(e)' = Happened(e)
  BY DEF Happened, Made
<1>3. ASSUME NEW p \in Handlers
      PROVE  WorkOK(p)'
  <2>1. WorkOK(p) /\ (Happened(work[p].event)' = Happened(work[p].event)) /\ work' = work
    BY <1>2 DEF KeysIInv, Happened, Made
  <2>2. Quiet(p) => Quiet(p)'
    BY DEF Quiet
  <2>3. QED
    BY <2>1, <2>2 DEF WorkOK, WorkAt
<1>4. ASSUME NEW p \in Handlers, ~Quiet(p)'
      PROVE  Happened(writing[p])'
  <2>1. writing'[p] = writing[p] /\ ~Quiet(p)
    BY <1>4 DEF Quiet
  <2>2. QED
    BY <2>1 DEF KeysIInv, Happened, Made
<1>5. AuditTrail'
  <2>1. ASSUME NEW e \in auditLog'
        PROVE  Happened(e)'
    <3>1. Happened(e)
      BY DEF KeysIInv, AuditTrail
    <3>2. QED
      BY <3>1, <1>2
  <2>2. ASSUME NEW e \in answered'
        PROVE  e \in (auditLog \cup lost)' \/ \E p \in Handlers : writing'[p] = e
    BY DEF KeysIInv, AuditTrail
  <2>3. QED
    BY <2>1, <2>2 DEF AuditTrail
<1>6. QED
  BY <1>1, <1>3, <1>4, <1>5 DEF KeysIInv

\* Record is the one step of a request that hands an event to a task.
LEMMA RecordIInv ==
    ASSUME KeysIInv, NEW p \in Handlers, Record(p)
    PROVE  KeysIInv'
<1> DEFINE e == work[p].event
<1>1. /\ e \in AuditEvents /\ Happened(e) /\ writing[p] = NoEvent
      /\ writing' = [writing EXCEPT ![p] = e] /\ writing'[p] = e
      /\ answered' = answered \cup {e}
      /\ work' = [work EXCEPT ![p] = NoWork] /\ work'[p] = NoWork
      /\ UNCHANGED <<process, starts, auditLog, lost, keyOwner, disabled, lastUsed, erased, gone>>
  BY DEF Record, record_audit_event, Done, KeysIInv, WorkOK, WorkAt, Quiet, KeysTypeOK,
         BackgroundTypeOK
<1>2. NoWork \in Work
  BY DEF NoWork, Work, WorkSteps
<1>3. KeysTypeOK'
  BY <1>1, <1>2 DEF KeysIInv, KeysTypeOK, BackgroundTypeOK
<1>4. \A f : Happened(f)' = Happened(f)
  BY <1>1 DEF Happened, Made
<1>5. ASSUME NEW q \in Handlers
      PROVE  WorkOK(q)' /\ (~Quiet(q)' => Happened(writing[q])')
  <2>1. CASE q = p
    <3>1. WorkOK(q)'
      BY <1>1, <2>1 DEF WorkOK, WorkAt, NoWork
    <3>2. Happened(writing[q])'
      BY <1>1, <2>1 DEF Happened, Made
    <3>3. QED
      BY <3>1, <3>2
  <2>2. CASE q # p
    <3>1. work'[q] = work[q] /\ writing'[q] = writing[q] /\ erased' = erased
      BY <1>1, <2>2 DEF KeysIInv, KeysTypeOK, BackgroundTypeOK
    <3>2. /\ Happened(work[q].event)' = Happened(work[q].event)
          /\ Happened(writing[q])' = Happened(writing[q])
      BY <1>1, <3>1 DEF Happened, Made
    <3>3. WorkOK(q)'
      BY <3>1, <3>2 DEF KeysIInv, WorkOK, WorkAt, Quiet
    <3>4. QED
      BY <3>1, <3>2, <3>3 DEF KeysIInv, Quiet
  <2>3. QED
    BY <2>1, <2>2
<1>6. AuditTrail'
  <2>1. ASSUME NEW f \in auditLog'
        PROVE  Happened(f)'
    BY <1>1, <1>4 DEF KeysIInv, AuditTrail
  <2>2. ASSUME NEW f \in answered'
        PROVE  f \in (auditLog \cup lost)' \/ \E q \in Handlers : writing'[q] = f
    <3>1. CASE f = e
      BY <1>1, <3>1
    <3>2. CASE f # e
      <4>1. f \in auditLog \cup lost \/ \E q \in Handlers : writing[q] = f
        BY <1>1, <3>2 DEF KeysIInv, AuditTrail
      <4>2. ASSUME NEW q \in Handlers, writing[q] = f
            PROVE  writing'[q] = f
        BY <1>1, <4>2 DEF KeysIInv, KeysTypeOK, BackgroundTypeOK
      <4>3. QED
        BY <1>1, <4>1, <4>2
    <3>3. QED
      BY <3>1, <3>2
  <2>3. QED
    BY <2>1, <2>2 DEF AuditTrail
<1>7. QED
  BY <1>1, <1>3, <1>5, <1>6 DEF KeysIInv

\* A request is taken by a slot at rest.
LEMMA AdmitIInv ==
    ASSUME KeysIInv, NEW p \in Handlers, NEW step \in {"owner", "endpoint"},
           NEW k \in Secrets \cup {NoSecret}, NEW u \in Owners, Admit(p, step, k, u),
           step = "endpoint" => k = NoSecret,
           step = "owner" => (k \in Made \ gone) /\ u = keyOwner[k]
    PROVE  KeysIInv'
<1> DEFINE w == [step |-> step, key |-> k, dead |-> Dead, owner |-> u, event |-> NoEvent]
<1>1. Dead \subseteq Secrets
  BY DEF Dead, Made, KeysIInv, KeysTypeOK
<1>2. w \in Work
  BY <1>1 DEF Work, WorkSteps
<1>3. work' = [work EXCEPT ![p] = w]
  BY DEF Admit
<1>4. work'[p] = w
  BY <1>3 DEF KeysIInv, KeysTypeOK
<1>5. /\ UNCHANGED <<backgroundVars, erased, answered, disabled, lastUsed, gone, keyOwner>>
      /\ Quiet(p)
  BY DEF Admit
<1>6. Quiet(p)'
  BY <1>5 DEF Quiet, backgroundVars
<1>7. step = "owner" /\ k \in Dead => u \in erased
  BY DEF Dead
<1>8. step = "endpoint" => k \notin Dead
  BY <1>1
<1>9. WorkOK(p)'
  BY <1>4, <1>5, <1>6, <1>7, <1>8 DEF WorkOK, WorkAt
<1> HIDE DEF w
<1>10. QED
  BY <1>2, <1>3, <1>5, <1>9, RequestStep DEF KeysIInv, KeysTypeOK

\* A request ends.
LEMMA DoneIInv ==
    ASSUME KeysIInv, NEW p \in Handlers, Done(p),
           UNCHANGED <<backgroundVars, keyOwner, disabled, lastUsed, erased, gone, answered>>
    PROVE  KeysIInv'
<1>1. NoWork \in Work
  BY DEF NoWork, Work, WorkSteps
<1>2. work'[p] = NoWork
  BY DEF Done, KeysIInv, KeysTypeOK
<1>3. WorkOK(p)'
  BY <1>2 DEF WorkOK, WorkAt, NoWork
<1>4. QED
  BY <1>1, <1>3, RequestStep DEF Done, KeysIInv, KeysTypeOK

\* A request goes on to the next step, perhaps about an event.
LEMMA GoOnIInv ==
    ASSUME KeysIInv, NEW p \in Handlers, ~WorkAt(p, "idle"),
           NEW step \in {"endpoint", "revoke", "record"}, NEW e \in AuditEvents \cup {NoEvent},
           work' = [work EXCEPT ![p] = [work[p] EXCEPT !.step = step, !.event = e]],
           UNCHANGED <<backgroundVars, erased, answered>>,
           gone' \subseteq disabled', disabled \subseteq disabled',
           disabled' \in SUBSET Secrets, lastUsed' \in SUBSET Secrets,
           \A k \in Secrets : keyOwner'[k] = keyOwner[k] \/ keyOwner'[k] \in Owners,
           keyOwner' \in [Secrets -> Owners \cup {NoOwner}],
           WorkAt(p, "owner") => work[p].owner \notin erased,
           step \in {"revoke", "record"} => e \in AuditEvents,
           step = "revoke" => e[1] = "revoked",
           step = "record" => Happened(e)'
    PROVE  KeysIInv'
<1> DEFINE w == [work[p] EXCEPT !.step = step, !.event = e]
<1>1. work[p] \in Work
  BY DEF KeysIInv, KeysTypeOK
<1>2. /\ w \in Work
      /\ w.step = step /\ w.event = e
      /\ w.key = work[p].key /\ w.dead = work[p].dead /\ w.owner = work[p].owner
  BY <1>1 DEF Work, WorkSteps
<1> HIDE DEF w
<1>3. work' = [work EXCEPT ![p] = w] /\ work'[p] = w
  BY DEF KeysIInv, KeysTypeOK, w
<1>4. WorkOK(p) /\ work[p].step \in WorkSteps
  BY <1>1 DEF KeysIInv, Work
<1>5. work[p].key \notin work[p].dead /\ Quiet(p) /\ work[p].owner \in Owners
  BY <1>4 DEF WorkOK, WorkAt, WorkSteps
<1>6. Quiet(p)'
  BY <1>5 DEF Quiet, backgroundVars
<1>7. step = "record" => Happened(work[p].event)'
  BY <1>2, <1>3 DEF Happened, Made
<1>8. WorkOK(p)'
  BY <1>2, <1>3, <1>5, <1>6, <1>7 DEF WorkOK, WorkAt
<1>9. QED
  BY <1>2, <1>3, <1>8, RequestStep

LEMMA LoadOwnerIInv ==
    ASSUME KeysIInv, NEW p \in Handlers, LoadOwner(p)
    PROVE  KeysIInv'
<1>1. UNCHANGED <<backgroundVars, keyOwner, disabled, lastUsed, erased, gone, answered>>
  BY DEF LoadOwner
<1>2. CASE work[p].owner \in erased
  BY <1>1, <1>2, DoneIInv DEF LoadOwner
<1>3. CASE work[p].owner \notin erased
  <2>1. work[p] \in Work
    BY DEF KeysIInv, KeysTypeOK
  <2>2. work[p].event \in AuditEvents \cup {NoEvent}
    BY <2>1 DEF Work
  <2>3. [work[p] EXCEPT !.step = "endpoint"]
           = [work[p] EXCEPT !.step = "endpoint", !.event = work[p].event]
    BY <2>1 DEF Work
  <2>4. work' = [work EXCEPT ![p] = [work[p] EXCEPT !.step = "endpoint"]]
    BY <1>3 DEF LoadOwner
  <2>5. work' = [work EXCEPT ![p] = [work[p] EXCEPT !.step = "endpoint", !.event = work[p].event]]
    BY <2>3, <2>4
  <2>6. ~WorkAt(p, "idle")
    BY DEF LoadOwner, WorkAt
  <2>7. QED
    BY <1>1, <1>3, <2>2, <2>5, <2>6, GoOnIInv DEF KeysIInv, KeysTypeOK
<1>4. QED
  BY <1>2, <1>3

LEMMA create_api_keyIInv ==
    ASSUME KeysIInv, NEW p \in Handlers, NEW k \in Secrets, create_api_key(p, k)
    PROVE  KeysIInv'
<1> DEFINE e == <<"created", k>>
<1>1. e \in AuditEvents /\ e[1] = "created" /\ e[2] = k
  OBVIOUS
<1>2. work[p] \in Work /\ work[p].owner \in Owners
  BY DEF create_api_key, KeysIInv, KeysTypeOK, WorkOK, WorkAt
<1>3. keyOwner' = [keyOwner EXCEPT ![k] = work[p].owner]
  BY DEF create_api_key
<1>4. /\ keyOwner' \in [Secrets -> Owners \cup {NoOwner}]
      /\ \A j \in Secrets : keyOwner'[j] = keyOwner[j] \/ keyOwner'[j] \in Owners
      /\ keyOwner'[k] # NoOwner
  BY <1>2, <1>3 DEF KeysIInv, KeysTypeOK
<1>5. lastUsed' \in SUBSET Secrets
  BY <1>2 DEF create_api_key, Stamp, KeysIInv, KeysTypeOK, Work
<1>6. Happened(e)'
  BY <1>1, <1>4 DEF Happened, Made
<1>7. /\ ~WorkAt(p, "idle") /\ ~WorkAt(p, "owner")
      /\ UNCHANGED <<backgroundVars, disabled, erased, gone, answered>>
      /\ work' = [work EXCEPT ![p] = [work[p] EXCEPT !.step = "record", !.event = e]]
  BY DEF create_api_key, WorkAt
<1> HIDE DEF e
<1>8. QED
  BY <1>1, <1>4, <1>5, <1>6, <1>7, GoOnIInv DEF KeysIInv, KeysTypeOK

LEMMA RevokeReadIInv ==
    ASSUME KeysIInv, NEW p \in Handlers, NEW k \in Secrets, RevokeRead(p, k)
    PROVE  KeysIInv'
<1> DEFINE e == <<"revoked", k>>
<1>1. e \in AuditEvents /\ e[1] = "revoked"
  OBVIOUS
<1>2. /\ ~WorkAt(p, "idle") /\ ~WorkAt(p, "owner")
      /\ UNCHANGED <<backgroundVars, keyOwner, disabled, lastUsed, erased, gone, answered>>
      /\ \/ work' = [work EXCEPT ![p] = [work[p] EXCEPT !.step = "revoke", !.event = e]]
         \/ Done(p)
  BY DEF RevokeRead, WorkAt
<1> HIDE DEF e
<1>3. CASE Done(p)
  BY <1>2, <1>3, DoneIInv
<1>4. CASE work' = [work EXCEPT ![p] = [work[p] EXCEPT !.step = "revoke", !.event = e]]
  BY <1>1, <1>2, <1>4, GoOnIInv DEF KeysIInv, KeysTypeOK
<1>5. QED
  BY <1>2, <1>3, <1>4

LEMMA revoke_api_keyIInv ==
    ASSUME KeysIInv, NEW p \in Handlers, revoke_api_key(p)
    PROVE  KeysIInv'
<1> DEFINE e == work[p].event
           w == [work[p] EXCEPT !.step = "record"]
<1>1. work[p] \in Work /\ e \in AuditEvents /\ e[1] = "revoked" /\ e[2] \in Secrets
  BY DEF revoke_api_key, KeysIInv, KeysTypeOK, WorkOK, WorkAt
<1>2. /\ disabled' = disabled \cup {e[2]} /\ gone' = gone \cup {e[2]}
      /\ UNCHANGED <<backgroundVars, keyOwner, erased, answered>>
      /\ ~WorkAt(p, "idle") /\ ~WorkAt(p, "owner")
      /\ work' = [work EXCEPT ![p] = w]
  BY DEF revoke_api_key, WorkAt
<1>3. lastUsed' \in SUBSET Secrets
  BY <1>1 DEF revoke_api_key, Stamp, KeysIInv, KeysTypeOK, Work
<1>4. w = [work[p] EXCEPT !.step = "record", !.event = e]
  BY <1>1 DEF Work
<1>5. /\ disabled' \in SUBSET Secrets /\ disabled \subseteq disabled'
      /\ gone' \subseteq disabled'
  BY <1>1, <1>2 DEF KeysIInv, KeysTypeOK
<1>6. PICK f \in AuditEvents : f = e
  BY <1>1
<1>7. Happened(f)'
  BY <1>1, <1>2, <1>6 DEF Happened
<1> HIDE DEF w
<1>8. work' = [work EXCEPT ![p] = [work[p] EXCEPT !.step = "record", !.event = f]]
  BY <1>2, <1>4, <1>6
<1> HIDE DEF e
<1>9. QED
  BY <1>2, <1>3, <1>5, <1>7, <1>8, GoOnIInv DEF KeysIInv, KeysTypeOK

\* An owner is erased: requests on their way are not.
LEMMA EraseIInv ==
    ASSUME KeysIInv, NEW u \in Owners, Erase(u)
    PROVE  KeysIInv'
<1>1. /\ erased' = erased \cup {u}
      /\ UNCHANGED <<backgroundVars, keyOwner, disabled, lastUsed, work, gone, answered>>
  BY DEF Erase
<1>2. KeysTypeOK'
  BY <1>1 DEF KeysIInv, KeysTypeOK, BackgroundTypeOK, backgroundVars
<1>3. \A e : Happened(e)' = Happened(e)
  BY <1>1 DEF Happened, Made
<1>4. ASSUME NEW p \in Handlers
      PROVE  WorkOK(p)' /\ (~Quiet(p)' => Happened(writing[p])')
  BY <1>1, <1>3 DEF KeysIInv, WorkOK, WorkAt, Quiet, backgroundVars, Happened, Made
<1>5. AuditTrail'
  BY <1>1, <1>3 DEF KeysIInv, AuditTrail, backgroundVars
<1>6. QED
  BY <1>1, <1>2, <1>4, <1>5 DEF KeysIInv

LEMMA WriteAuditIInv ==
    ASSUME KeysIInv, NEW p \in Handlers, WriteAudit(p), UNCHANGED keyVars
    PROVE  KeysIInv'
<1>1. /\ writing[p] \in AuditEvents /\ ~Quiet(p)
      /\ writing' = [writing EXCEPT ![p] = NoEvent]
      /\ UNCHANGED <<process, starts>>
      /\ \/ auditLog' = auditLog \cup {writing[p]} /\ lost' = lost
         \/ lost' = lost \cup {writing[p]} /\ auditLog' = auditLog
  BY DEF WriteAudit, Quiet, KeysIInv, KeysTypeOK, BackgroundTypeOK
<1>2. /\ writing' \in [Handlers -> AuditEvents \cup {NoEvent}]
      /\ \A q \in Handlers : writing'[q] \in {writing[q], NoEvent}
      /\ \A q \in Handlers : writing'[q] # writing[q] => q = p
  BY <1>1 DEF KeysIInv, KeysTypeOK, BackgroundTypeOK
<1>3. auditLog' \in SUBSET AuditEvents /\ lost' \in SUBSET AuditEvents
  BY <1>1 DEF KeysIInv, KeysTypeOK, BackgroundTypeOK
<1>4. process' \in {"down", "up", "leaving"} /\ starts' \in Nat
  BY <1>1 DEF KeysIInv, KeysTypeOK, BackgroundTypeOK
<1>5. QED
  BY <1>1, <1>2, <1>3, <1>4, TaskStep

\* Start and shutdown of the process touch neither tasks nor log.
LEMMA LifespanIInv ==
    ASSUME KeysIInv, StartUp \/ ShutDown, UNCHANGED keyVars
    PROVE  KeysIInv'
<1>1. /\ process' \in {"down", "up", "leaving"} /\ starts' \in Nat
      /\ UNCHANGED <<writing, auditLog, lost>>
  BY DEF StartUp, ShutDown, KeysIInv, KeysTypeOK, BackgroundTypeOK
<1>2. QED
  BY <1>1, TaskStep DEF KeysIInv, KeysTypeOK, BackgroundTypeOK

\* The end of the process: no request and no task is left, the database is.
LEMMA EndProcessIInv ==
    ASSUME KeysIInv, EndProcess
    PROVE  KeysIInv'
<1>1. /\ process' = "down" /\ UNCHANGED <<starts, auditLog>>
      /\ writing' = [p \in Handlers |-> NoEvent]
      /\ lost' = lost \cup ({writing[p] : p \in Handlers} \ {NoEvent})
      /\ work' = [p \in Handlers |-> NoWork]
      /\ UNCHANGED <<keyOwner, disabled, lastUsed, erased, gone, answered>>
  BY DEF EndProcess, Exit
<1>2. NoWork \in Work
  BY DEF NoWork, Work, WorkSteps
<1>3. KeysTypeOK'
  <2>1. lost' \in SUBSET AuditEvents
    BY <1>1 DEF KeysIInv, KeysTypeOK, BackgroundTypeOK
  <2>2. writing' \in [Handlers -> AuditEvents \cup {NoEvent}] /\ work' \in [Handlers -> Work]
    BY <1>1, <1>2
  <2>3. QED
    BY <1>1, <2>1, <2>2 DEF KeysIInv, KeysTypeOK, BackgroundTypeOK
<1>4. \A e : Happened(e)' = Happened(e)
  BY <1>1 DEF Happened, Made
<1>5. \A p \in Handlers : WorkOK(p)' /\ Quiet(p)'
  BY <1>1 DEF WorkOK, WorkAt, NoWork, Quiet
<1>6. AuditTrail'
  <2>1. \A e \in auditLog' : Happened(e)'
    BY <1>1, <1>4 DEF KeysIInv, AuditTrail
  <2>2. ASSUME NEW e \in answered'
        PROVE  e \in auditLog' \cup lost'
    <3>1. e \in auditLog \cup lost \/ \E p \in Handlers : writing[p] = e
      BY <1>1 DEF KeysIInv, AuditTrail
    <3>2. e # NoEvent
      BY <1>1 DEF KeysIInv, KeysTypeOK
    <3>3. QED
      BY <1>1, <3>1, <3>2
  <2>3. QED
    BY <2>1, <2>2 DEF AuditTrail
<1>7. QED
  BY <1>1, <1>3, <1>5, <1>6 DEF KeysIInv

\* Every step of the keys, the tasks and the log keeps it.
THEOREM KeysNextIInv == KeysIInv /\ [KeysNext]_keysVars => KeysIInv'
<1> SUFFICES ASSUME KeysIInv, [KeysNext]_keysVars PROVE KeysIInv'
  OBVIOUS
<1>1. ASSUME NEW p \in Handlers, NEW u \in Owners, get_current_user(p, u)
      PROVE  KeysIInv'
  <2>1. Admit(p, "endpoint", NoSecret, u)
    BY <1>1 DEF get_current_user
  <2>2. QED
    BY <2>1, AdmitIInv
<1>2. ASSUME NEW p \in Handlers, NEW k \in Secrets, _authenticate_api_key(p, k)
      PROVE  KeysIInv'
  <2>1. k \in Made \ gone /\ Admit(p, "owner", k, keyOwner[k])
    BY <1>2 DEF _authenticate_api_key, KeysIInv
  <2>2. PICK u \in Owners : u = keyOwner[k]
    BY <2>1 DEF Made, KeysIInv, KeysTypeOK
  <2>3. Admit(p, "owner", k, u)
    BY <2>1, <2>2
  <2>4. QED
    BY <2>1, <2>2, <2>3, AdmitIInv
<1>3. ASSUME NEW p \in Handlers, list_api_keys(p) \/ Abort_(p)
      PROVE  KeysIInv'
  BY <1>3, DoneIInv DEF list_api_keys, Abort_
<1>4. CASE StopServing
  BY <1>4, LifespanIInv DEF StopServing
<1>5. CASE StartUp /\ UNCHANGED keyVars
  BY <1>5, LifespanIInv
<1>6. CASE UNCHANGED keysVars
  <2>1. UNCHANGED <<process, starts, writing, auditLog, lost>> /\ UNCHANGED keyVars
    BY <1>6 DEF keysVars, backgroundVars
  <2>2. QED
    BY <2>1, TaskStep DEF KeysIInv, KeysTypeOK, BackgroundTypeOK
<1>7. QED
  BY <1>1, <1>2, <1>3, <1>4, <1>5, <1>6, LoadOwnerIInv, create_api_keyIInv, RevokeReadIInv,
     revoke_api_keyIInv, RecordIInv, WriteAuditIInv, EraseIInv, EndProcessIInv DEF KeysNext

\* The invariant the theorems about the API keys rest on.
THEOREM KeysInductive == KeysSpec => []KeysIInv
  BY KeysInitIInv, KeysNextIInv, PTL DEF KeysSpec

\* Keys, requests, tasks and the log keep their types.
THEOREM KeysTypeCorrect == KeysSpec => []KeysTypeOK
<1>1. KeysIInv => KeysTypeOK
  BY DEF KeysIInv
<1>2. QED
  BY <1>1, KeysInductive, PTL

\* No request gets to its endpoint with a key that was revoked, or whose owner was
\* erased, when it came (_authenticate_api_key).
THEOREM DeadKeys == KeysSpec => []DeadKeysOpenNothing
<1>1. KeysIInv => DeadKeysOpenNothing
  BY DEF KeysIInv, WorkOK, DeadKeysOpenNothing
<1>2. QED
  BY <1>1, KeysInductive, PTL

\* The audit log holds only what was committed, and an answered request's event is
\* there, on its way, or known as lost (record_audit_event).
THEOREM TrueTrail == KeysSpec => []AuditTrail
<1>1. KeysIInv => AuditTrail
  BY DEF KeysIInv
<1>2. QED
  BY <1>1, KeysInductive, PTL
=============================================================================
