--------------------------- MODULE Lockout_proofs ---------------------------
(***************************************************************************)
(* Proofs about the lockout counter, for every set of addresses and        *)
(* concurrent logins, every threshold and window, and both stores.         *)
(***************************************************************************)
EXTENDS Lockout, FiniteSetTheorems, TLAPS

\* A slot at work has an address; only Redis has a step at which the TTL is to
\* come, and a counter of the dictionary always has its window.
RequestsOK == \A p \in Procs : ~At(p, "idle") => req[p].email \in Emails

WindowOK == ~redis => keyed = Emails /\ \A p \in Procs : ~At(p, "expire")

IInv == TypeOK /\ RequestsOK /\ WindowOK /\ BoundedOvershoot /\ CounterResetsAfterWindow

-----------------------------------------------------------------------------

LEMMA IdleOK == Idle \in Request /\ Idle.step = "idle" /\ Idle.email = NoEmail
<1>1. (CHOOSE w \in Passwords : TRUE) \in Passwords
  BY LockoutAssumption
<1>2. QED
  BY <1>1 DEF Idle, Request, Steps

LEMMA FailuresType == ASSUME TypeOK, NEW e \in Emails PROVE Failures(e) \in Nat
  BY DEF TypeOK, Failures

\* Those who have passed the lock check are finitely many slots.
LEMMA TryingFinite ==
  ASSUME NEW e \in Emails
  PROVE  /\ IsFiniteSet(Trying(e)) /\ Cardinality(Trying(e)) \in Nat
         /\ Cardinality(Procs) \in Nat /\ Cardinality(Trying(e)) <= Cardinality(Procs)
  BY LockoutAssumption, FS_Subset, FS_CardinalityType DEF Trying

\* The bound carries over to a step after which as many or fewer slots try and
\* the counter reads as before or less.
LEMMA OvershootKept ==
  ASSUME IInv, TypeOK', NEW e \in Emails, e \notin opened,
         Trying(e)' \subseteq Trying(e), Failures(e)' <= Failures(e)
  PROVE  Failures(e)' + Cardinality(Trying(e)') <= MaxAttempts - 1 + Cardinality(Procs)
<1>1. Cardinality(Trying(e)') <= Cardinality(Trying(e)) /\ Cardinality(Trying(e)') \in Nat
  BY TryingFinite, FS_Subset, FS_CardinalityType
<1>2. Failures(e) \in Nat /\ Failures(e)' \in Nat
  BY DEF IInv, TypeOK, Failures
<1>3. Failures(e) + Cardinality(Trying(e)) <= MaxAttempts - 1 + Cardinality(Procs)
  BY DEF IInv, BoundedOvershoot
<1>4. QED
  BY <1>1, <1>2, <1>3, TryingFinite, LockoutAssumption

\* It carries over to a failure that is counted by a slot that ends with it.
LEMMA OvershootCounted ==
  ASSUME IInv, TypeOK', NEW e \in Emails, e \notin opened, NEW p \in Trying(e),
         Trying(e)' \subseteq Trying(e) \ {p}, Failures(e)' <= Failures(e) + 1
  PROVE  Failures(e)' + Cardinality(Trying(e)') <= MaxAttempts - 1 + Cardinality(Procs)
<1>1. /\ IsFiniteSet(Trying(e) \ {p})
      /\ Cardinality(Trying(e) \ {p}) = Cardinality(Trying(e)) - 1
  BY TryingFinite, FS_RemoveElement
<1>2. Cardinality(Trying(e)') <= Cardinality(Trying(e)) - 1 /\ Cardinality(Trying(e)') \in Nat
  BY <1>1, FS_Subset, FS_CardinalityType
<1>3. Failures(e) \in Nat /\ Failures(e)' \in Nat
  BY DEF IInv, TypeOK, Failures
<1>4. Failures(e) + Cardinality(Trying(e)) <= MaxAttempts - 1 + Cardinality(Procs)
  BY DEF IInv, BoundedOvershoot
<1>5. QED
  BY <1>2, <1>3, <1>4, TryingFinite, LockoutAssumption

-----------------------------------------------------------------------------

LEMMA InitIInv == Init => IInv
<1> SUFFICES ASSUME Init PROVE IInv
  OBVIOUS
<1>1. TypeOK /\ RequestsOK /\ WindowOK
  BY IdleOK DEF Init, TypeOK, RequestsOK, WindowOK, At
<1>2. \A e \in Emails : Failures(e) = 0
  BY DEF Init, Failures
<1>3. BoundedOvershoot
  BY <1>2, TryingFinite, LockoutAssumption DEF BoundedOvershoot
<1>4. CounterResetsAfterWindow
  BY <1>2 DEF CounterResetsAfterWindow
<1>5. QED
  BY <1>1, <1>3, <1>4 DEF IInv

\* A step that changes neither the store nor the clock keeps the bounds if a
\* slot that tries had tried before, and one whose EXPIRE is lost is recorded.
LEMMA SlotOnly ==
  ASSUME IInv, NEW p \in Procs, NEW r \in Request,
         UNCHANGED <<store, password, now>>,
         opened' \in SUBSET Emails, opened \subseteq opened',
         lost' \in SUBSET Emails, lost \subseteq lost',
         req' = [req EXCEPT ![p] = r],
         r.step # "idle" => r.email = req[p].email /\ ~At(p, "idle"),
         r.step \in {"verify", "record"} => req[p].step \in {"verify", "record"},
         r.step # "expire",
         At(p, "expire") => req[p].email \in lost' \/ Failures(req[p].email) = 0
  PROVE  IInv'
<1>1. TypeOK'
  BY DEF IInv, TypeOK, store
<1>2. \A e \in Emails : Failures(e)' = Failures(e)
  BY DEF Failures, store
<1>3. \A q \in Procs : req'[q] = IF q = p THEN r ELSE req[q]
  BY DEF IInv, TypeOK
<1>4. RequestsOK'
  BY <1>3 DEF IInv, RequestsOK, At
<1>5. WindowOK'
  BY <1>3 DEF IInv, WindowOK, At, store
<1>6. BoundedOvershoot'
  <2> SUFFICES ASSUME NEW e \in Emails, e \notin opened
               PROVE  Failures(e)' + Cardinality(Trying(e)') <= MaxAttempts - 1 + Cardinality(Procs)
    BY DEF BoundedOvershoot
  <2>1. Trying(e)' \subseteq Trying(e)
    BY <1>3 DEF Trying, At
  <2>2. Failures(e)' <= Failures(e)
    BY <1>2, FailuresType DEF IInv
  <2>3. QED
    BY <1>1, <2>1, <2>2, OvershootKept
<1>7. CounterResetsAfterWindow'
  <2> SUFFICES ASSUME NEW e \in Emails, e \notin lost', Failures(e)' > 0
               PROVE  Expiring(e)' \/ (e \in keyed' /\ until'[e] <= now' + Window)
    BY DEF CounterResetsAfterWindow
  <2>1. Expiring(e) \/ (e \in keyed /\ until[e] <= now + Window)
    BY <1>2 DEF IInv, CounterResetsAfterWindow
  <2>2. Expiring(e) => Expiring(e)'
    <3> SUFFICES ASSUME NEW q \in Procs, At(q, "expire"), req[q].email = e
                 PROVE  Expiring(e)'
      BY DEF Expiring
    <3>1. q # p
      BY <1>2 
    <3>2. QED
      BY <1>3, <3>1 DEF Expiring, At
  <2>3. QED
    BY <2>1, <2>2 DEF store
<1>8. QED
  BY <1>1, <1>4, <1>5, <1>6, <1>7 DEF IInv

\* The lock check lets a request pass whose counter is below the threshold, or
\* whose address is noted as opened.
LEMMA AdmitIInv ==
  ASSUME IInv, NEW p \in Procs, NEW e \in Emails, NEW w \in Passwords,
         At(p, "idle"),
         req' = [req EXCEPT ![p] = [step |-> "verify", email |-> e, guess |-> w]],
         UNCHANGED <<store, password, now, lost>>,
         (opened' = opened /\ ~Locked(e)) \/ opened' = opened \cup {e}
  PROVE  IInv'
<1> DEFINE r == [step |-> "verify", email |-> e, guess |-> w]
<1>0. r \in Request /\ r.step = "verify" /\ r.email = e
  BY DEF Request, Steps
<1>1. TypeOK'
  BY <1>0 DEF IInv, TypeOK, store
<1>2. \A f \in Emails : Failures(f)' = Failures(f)
  BY DEF Failures, store
<1>3. \A q \in Procs : req'[q] = IF q = p THEN r ELSE req[q]
  BY DEF IInv, TypeOK
<1> HIDE DEF r
<1>4. RequestsOK' /\ WindowOK'
  BY <1>0, <1>3 DEF IInv, RequestsOK, WindowOK, At, store
<1>5. BoundedOvershoot'
  <2> SUFFICES ASSUME NEW f \in Emails, f \notin opened'
               PROVE  Failures(f)' + Cardinality(Trying(f)') <= MaxAttempts - 1 + Cardinality(Procs)
    BY DEF BoundedOvershoot
  <2>1. CASE f = e
    <3>1. Failures(f)' <= MaxAttempts - 1 /\ Failures(f) \in Nat
      BY <1>2, <2>1, FailuresType, LockoutAssumption DEF Locked, IInv
    <3>2. Cardinality(Trying(f)') <= Cardinality(Procs) /\ Cardinality(Trying(f)') \in Nat
      BY LockoutAssumption, FS_Subset, FS_CardinalityType DEF Trying
    <3>3. QED
      BY <1>2, <3>1, <3>2, TryingFinite, LockoutAssumption
  <2>2. CASE f # e
    <3>1. Trying(f)' \subseteq Trying(f)
      BY <1>0, <1>3, <2>2 DEF Trying
    <3>2. Failures(f)' <= Failures(f) /\ f \notin opened
      BY <1>2, FailuresType DEF IInv
    <3>3. QED
      BY <1>1, <3>1, <3>2, OvershootKept
  <2>3. QED
    BY <2>1, <2>2
<1>6. CounterResetsAfterWindow'
  <2> SUFFICES ASSUME NEW f \in Emails, f \notin lost, Failures(f)' > 0
               PROVE  Expiring(f)' \/ (f \in keyed' /\ until'[f] <= now' + Window)
    BY DEF CounterResetsAfterWindow
  <2>1. Expiring(f) \/ (f \in keyed /\ until[f] <= now + Window)
    BY <1>2 DEF IInv, CounterResetsAfterWindow
  <2>2. Expiring(f) => Expiring(f)'
    BY <1>3 DEF Expiring, At
  <2>3. QED
    BY <2>1, <2>2 DEF store
<1>7. QED
  BY <1>1, <1>4, <1>5, <1>6 DEF IInv

\* The failure that starts a count in the dictionary starts its window as well.
LEMMA RecordInMemoryIInv ==
  ASSUME IInv, NEW p \in Procs, RecordInMemory(p)
  PROVE  IInv'
<1> DEFINE e == req[p].email
<1>1. /\ ~redis /\ At(p, "record") /\ req' = [req EXCEPT ![p] = Idle]
      /\ count' = [count EXCEPT ![e] = Failures(e) + 1]
      /\ until' = [until EXCEPT ![e] = IF Failures(e) = 0 THEN now + Window ELSE until[e]]
      /\ UNCHANGED <<redis, keyed, password, now, opened, lost>>
  BY DEF RecordInMemory, Finish, history
<1>2. e \in Emails
  BY <1>1 DEF IInv, RequestsOK, At
<1>3. Failures(e) \in Nat /\ now \in Nat /\ Window \in Nat
  BY <1>2, FailuresType, LockoutAssumption DEF IInv, TypeOK
<1>4. keyed = Emails /\ \A q \in Procs : ~At(q, "expire")
  BY <1>1 DEF IInv, WindowOK
<1> HIDE DEF e
<1>5. TypeOK'
  BY <1>1, <1>2, <1>3, IdleOK DEF IInv, TypeOK
<1>6. \A q \in Procs : req'[q] = IF q = p THEN Idle ELSE req[q]
  BY <1>1 DEF IInv, TypeOK
<1>7. RequestsOK' /\ WindowOK'
  BY <1>1, <1>6, IdleOK DEF IInv, RequestsOK, WindowOK, At
<1>8. \A f \in Emails \ {e} : Failures(f)' = Failures(f)
  BY <1>1, <1>2 DEF IInv, TypeOK, Failures
<1>9. \A f \in Emails : f = e => Failures(f)' <= Failures(f) + 1
  BY <1>1, <1>2, <1>3 DEF IInv, TypeOK, Failures
<1>10. BoundedOvershoot'
  <2> SUFFICES ASSUME NEW f \in Emails, f \notin opened
               PROVE  Failures(f)' + Cardinality(Trying(f)') <= MaxAttempts - 1 + Cardinality(Procs)
    BY <1>1 DEF BoundedOvershoot
  <2>1. CASE f = e
    <3>1. p \in Trying(f) /\ Trying(f)' \subseteq Trying(f) \ {p}
      BY <1>1, <1>6, <2>1, IdleOK DEF Trying, At, e
    <3>2. QED
      BY <1>5, <1>9, <2>1, <3>1, OvershootCounted
  <2>2. CASE f # e
    <3>1. Trying(f)' \subseteq Trying(f)
      BY <1>6, IdleOK DEF Trying
    <3>2. Failures(f)' <= Failures(f)
      BY <1>8, <2>2, FailuresType DEF IInv
    <3>3. QED
      BY <1>5, <3>1, <3>2, OvershootKept
  <2>3. QED
    BY <2>1, <2>2
<1>11. CounterResetsAfterWindow'
  <2> SUFFICES ASSUME NEW f \in Emails, f \notin lost, Failures(f)' > 0
               PROVE  f \in keyed' /\ until'[f] <= now' + Window
    BY <1>1 DEF CounterResetsAfterWindow
  <2>1. CASE f = e /\ Failures(e) = 0
    BY <1>1, <1>3, <1>4, <2>1 DEF IInv, TypeOK
  <2>2. CASE f = e /\ Failures(e) # 0
    <3>1. until[f] <= now + Window
      BY <1>1, <1>3, <1>4, <2>2 DEF IInv, CounterResetsAfterWindow, Expiring
    <3>2. QED
      BY <1>1, <1>4, <2>2, <3>1 DEF IInv, TypeOK
  <2>3. CASE f # e
    <3>1. until[f] <= now + Window
      BY <1>1, <1>4, <1>8, <2>3 DEF IInv, CounterResetsAfterWindow, Expiring
    <3>2. QED
      BY <1>1, <1>4, <2>3, <3>1 DEF IInv, TypeOK
  <2>4. QED
    BY <2>1, <2>2, <2>3
<1>12. QED
  BY <1>5, <1>7, <1>10, <1>11 DEF IInv

\* INCR: the first failure leaves a key without a TTL and a slot that is about to
\* set one; a later one counts within the window.
LEMMA IncrIInv ==
  ASSUME IInv, NEW p \in Procs, Incr(p)
  PROVE  IInv'
<1> DEFINE e == req[p].email
           r == IF Failures(e) = 0
                THEN [step |-> "expire", email |-> e, guess |-> req[p].guess] ELSE Idle
<1>1. /\ redis /\ At(p, "record") /\ req' = [req EXCEPT ![p] = r]
      /\ count' = [count EXCEPT ![e] = Failures(e) + 1]
      /\ keyed' = IF Failures(e) = 0 THEN keyed \ {e} ELSE keyed
      /\ UNCHANGED <<redis, until, password, now, opened, lost>>
  BY DEF Incr, Finish, GoTo, history
<1>2. e \in Emails /\ req[p] \in Request
  BY <1>1 DEF IInv, TypeOK, RequestsOK, At
<1>3. Failures(e) \in Nat
  BY <1>2, FailuresType DEF IInv
<1>4. /\ r \in Request /\ r.step \in {"expire", "idle"}
      /\ r.step # "idle" => r.email = e
      /\ Failures(e) = 0 => r.step = "expire" /\ r.email = e
  BY <1>2, IdleOK DEF Request, Steps
<1> HIDE DEF e, r
<1>5. TypeOK'
  BY <1>1, <1>2, <1>3, <1>4 DEF IInv, TypeOK
<1>6. \A q \in Procs : req'[q] = IF q = p THEN r ELSE req[q]
  BY <1>1 DEF IInv, TypeOK
<1>7. RequestsOK' /\ WindowOK'
  BY <1>1, <1>2, <1>4, <1>6 DEF IInv, RequestsOK, WindowOK, At
<1>8. \A f \in Emails \ {e} : Failures(f)' = Failures(f)
  BY <1>1, <1>2 DEF IInv, TypeOK, Failures
<1>9. \A f \in Emails : f = e => Failures(f)' <= Failures(f) + 1
  BY <1>1, <1>2, <1>3 DEF IInv, TypeOK, Failures
<1>10. BoundedOvershoot'
  <2> SUFFICES ASSUME NEW f \in Emails, f \notin opened
               PROVE  Failures(f)' + Cardinality(Trying(f)') <= MaxAttempts - 1 + Cardinality(Procs)
    BY <1>1 DEF BoundedOvershoot
  <2>1. CASE f = e
    <3>1. p \in Trying(f) /\ Trying(f)' \subseteq Trying(f) \ {p}
      BY <1>1, <1>4, <1>6, <2>1 DEF Trying, At, e
    <3>2. QED
      BY <1>5, <1>9, <2>1, <3>1, OvershootCounted
  <2>2. CASE f # e
    <3>1. Trying(f)' \subseteq Trying(f)
      BY <1>4, <1>6 DEF Trying
    <3>2. Failures(f)' <= Failures(f)
      BY <1>8, <2>2, FailuresType DEF IInv
    <3>3. QED
      BY <1>5, <3>1, <3>2, OvershootKept
  <2>3. QED
    BY <2>1, <2>2
<1>11. CounterResetsAfterWindow'
  <2> SUFFICES ASSUME NEW f \in Emails, f \notin lost, Failures(f)' > 0
               PROVE  Expiring(f)' \/ (f \in keyed' /\ until'[f] <= now' + Window)
    BY <1>1 DEF CounterResetsAfterWindow
  <2>1. CASE f = e /\ Failures(e) = 0
    BY <1>4, <1>6, <2>1 DEF Expiring, At
  <2>2. CASE ~(f = e /\ Failures(e) = 0)
    <3>1. Failures(f) > 0
      BY <1>3, <1>8, <2>2
    <3>2. Expiring(f) \/ (f \in keyed /\ until[f] <= now + Window)
      BY <1>1, <3>1 DEF IInv, CounterResetsAfterWindow
    <3>3. Expiring(f) => Expiring(f)'
      BY <1>1, <1>6 DEF Expiring, At
    <3>4. QED
      BY <1>1, <2>2, <3>2, <3>3
  <2>3. QED
    BY <2>1, <2>2
<1>12. QED
  BY <1>5, <1>7, <1>10, <1>11 DEF IInv

\* EXPIRE changes no count that can be read, and ends the window one tick before
\* a whole one is over.
LEMMA ExpireIInv ==
  ASSUME IInv, NEW p \in Procs, Expire(p)
  PROVE  IInv'
<1> DEFINE e == req[p].email
<1>1. /\ At(p, "expire") /\ req' = [req EXCEPT ![p] = Idle]
      /\ UNCHANGED <<redis, count, password, now, opened, lost>>
      /\ \/ Failures(e) = 0 /\ UNCHANGED store
         \/ /\ Failures(e) # 0 /\ keyed' = keyed \cup {e}
            /\ until' = [until EXCEPT ![e] = now + Window - 1]
  BY DEF Expire, Finish, history, store
<1>2. e \in Emails
  BY <1>1 DEF IInv, RequestsOK, At
<1>3. CASE Failures(e) = 0 /\ UNCHANGED store
  <2>1. Idle.step = "idle" /\ Idle \in Request
    BY IdleOK
  <2>2. opened \in SUBSET Emails /\ lost \in SUBSET Emails
    BY DEF IInv, TypeOK
  <2>3. QED
    BY <1>1, <1>3, <2>1, <2>2, SlotOnly
<1>4. CASE /\ Failures(e) # 0 /\ keyed' = keyed \cup {e}
           /\ until' = [until EXCEPT ![e] = now + Window - 1]
  <2>1. now \in Nat /\ Window \in Nat \ {0} /\ redis
    BY <1>1, LockoutAssumption DEF IInv, TypeOK, WindowOK
  <2> HIDE DEF e
  <2>2. TypeOK'
    BY <1>1, <1>2, <1>4, <2>1, IdleOK DEF IInv, TypeOK
  <2>3. \A q \in Procs : req'[q] = IF q = p THEN Idle ELSE req[q]
    BY <1>1 DEF IInv, TypeOK
  <2>4. RequestsOK' /\ WindowOK'
    BY <1>1, <2>1, <2>3, IdleOK DEF IInv, RequestsOK, WindowOK, At
  <2>5. /\ \A f \in Emails : Failures(f)' = Failures(f)
        /\ \A f \in Emails \ {e} : until'[f] = until[f]
        /\ until'[e] <= now + Window
    BY <1>1, <1>2, <1>4, <2>1 DEF IInv, TypeOK, Failures
  <2>6. BoundedOvershoot'
    <3> SUFFICES ASSUME NEW f \in Emails, f \notin opened
                 PROVE  Failures(f)' + Cardinality(Trying(f)') <= MaxAttempts - 1 + Cardinality(Procs)
      BY <1>1 DEF BoundedOvershoot
    <3>1. Trying(f)' \subseteq Trying(f)
      BY <2>3, IdleOK DEF Trying
    <3>2. Failures(f)' <= Failures(f)
      BY <2>5, FailuresType DEF IInv
    <3>3. QED
      BY <2>2, <3>1, <3>2, OvershootKept
  <2>7. CounterResetsAfterWindow'
    <3> SUFFICES ASSUME NEW f \in Emails, f \notin lost, Failures(f)' > 0
                 PROVE  Expiring(f)' \/ (f \in keyed' /\ until'[f] <= now' + Window)
      BY <1>1 DEF CounterResetsAfterWindow
    <3>1. CASE f = e
      BY <1>1, <1>4, <2>5, <3>1
    <3>2. CASE f # e
      <4>1. Expiring(f) \/ (f \in keyed /\ until[f] <= now + Window)
        BY <2>5 DEF IInv, CounterResetsAfterWindow
      <4>2. Expiring(f) => Expiring(f)'
        BY <2>3, <3>2 DEF Expiring, At, e
      <4>3. QED
        BY <1>1, <1>4, <2>5, <3>2, <4>1, <4>2
    <3>3. QED
      BY <3>1, <3>2
  <2>8. QED
    BY <2>2, <2>4, <2>6, <2>7 DEF IInv
<1>5. QED
  BY <1>1, <1>3, <1>4

\* Counters that are cleared, or read as expired: no bound is disturbed.
LEMMA StoreLess ==
  ASSUME IInv, TypeOK', RequestsOK', WindowOK', redis' = redis,
         opened' = opened, lost' = lost, now <= now', until' = until, keyed \subseteq keyed',
         \A e \in Emails : Failures(e)' = 0 \/ Failures(e)' = Failures(e),
         \A q \in Procs : req'[q] = req[q]
                          \/ (req'[q] = Idle /\ (~At(q, "expire")))
  PROVE  IInv'
<1>1. ASSUME NEW e \in Emails
      PROVE  Trying(e)' \subseteq Trying(e) /\ Failures(e)' <= Failures(e)
                /\ (Expiring(e) => Expiring(e)')
  <2>1. Trying(e)' \subseteq Trying(e)
    BY IdleOK DEF Trying
  <2>2. Failures(e)' <= Failures(e)
    BY FailuresType DEF IInv
  <2>3. Expiring(e) => Expiring(e)'
    BY DEF Expiring, At
  <2>4. QED
    BY <2>1, <2>2, <2>3
<1>2. BoundedOvershoot'
  BY <1>1, OvershootKept DEF BoundedOvershoot
<1>3. CounterResetsAfterWindow'
  <2> SUFFICES ASSUME NEW f \in Emails, f \notin lost, Failures(f)' > 0
               PROVE  Expiring(f)' \/ (f \in keyed' /\ until'[f] <= now' + Window)
    BY DEF CounterResetsAfterWindow
  <2>1. Failures(f) > 0
    OBVIOUS
  <2>2. Expiring(f) \/ (f \in keyed /\ until[f] <= now + Window)
    BY <2>1 DEF IInv, CounterResetsAfterWindow
  <2>3. until[f] <= now + Window => until'[f] <= now' + Window
    BY LockoutAssumption DEF IInv, TypeOK
  <2>4. QED
    BY <1>1, <2>2, <2>3
<1>4. QED
  BY <1>2, <1>3 DEF IInv

\* A success clears the counter.
LEMMA ResetIInv ==
  ASSUME IInv, NEW p \in Procs, Reset(p)
  PROVE  IInv'
<1>1. /\ At(p, "reset") /\ req' = [req EXCEPT ![p] = Idle]
      /\ count' = [count EXCEPT ![req[p].email] = 0]
      /\ keyed' = keyed \cup {req[p].email}
      /\ UNCHANGED <<redis, until, password, now, opened, lost>>
  BY DEF Reset, Finish, history
<1>2. req[p].email \in Emails
  BY <1>1 DEF IInv, RequestsOK, At
<1>3. TypeOK'
  BY <1>1, <1>2, IdleOK DEF IInv, TypeOK
<1>4. \A q \in Procs : req'[q] = IF q = p THEN Idle ELSE req[q]
  BY <1>1 DEF IInv, TypeOK
<1>5. RequestsOK' /\ WindowOK'
  BY <1>1, <1>2, <1>4, IdleOK DEF IInv, RequestsOK, WindowOK, At
<1>6. \A e \in Emails : Failures(e)' = 0 \/ Failures(e)' = Failures(e)
  BY <1>1, <1>2 DEF IInv, TypeOK, Failures
<1>7. now <= now' /\ keyed \subseteq keyed'
  BY <1>1 DEF IInv, TypeOK
<1>8. QED
  BY <1>1, <1>3, <1>4, <1>5, <1>6, <1>7, StoreLess DEF At

\* A restart forgets the dictionary and the logins in flight.
LEMMA RestartIInv == ASSUME IInv, Restart PROVE IInv'
<1>1. /\ ~redis /\ count' = [e \in Emails |-> 0] /\ req' = [p \in Procs |-> Idle]
      /\ UNCHANGED <<redis, until, keyed, password, now, opened, lost>>
  BY DEF Restart, history
<1>2. TypeOK'
  BY <1>1, IdleOK DEF IInv, TypeOK
<1>3. RequestsOK' /\ WindowOK' /\ \A q \in Procs : req'[q] = Idle /\ ~At(q, "expire")
  BY <1>1, IdleOK DEF IInv, RequestsOK, WindowOK, At
<1>4. \A e \in Emails : Failures(e)' = 0
  BY <1>1 DEF Failures
<1>5. now <= now' /\ keyed \subseteq keyed'
  BY <1>1 DEF IInv, TypeOK
<1>6. QED
  BY <1>1, <1>2, <1>3, <1>4, <1>5, StoreLess

\* Time only lets counters expire.
LEMMA TickIInv == ASSUME IInv, Tick PROVE IInv'
<1>1. now' = now + 1 /\ UNCHANGED <<redis, count, until, keyed, password, req, opened, lost>>
  BY DEF Tick, store, history
<1>2. TypeOK' /\ RequestsOK' /\ WindowOK' /\ now <= now'
  BY <1>1 DEF IInv, TypeOK, RequestsOK, WindowOK, At
<1>3. \A e \in Emails : Failures(e)' = 0 \/ Failures(e)' = Failures(e)
  BY <1>1, <1>2 DEF IInv, TypeOK, Failures
<1>4. QED
  BY <1>1, <1>2, <1>3, StoreLess

-----------------------------------------------------------------------------

\* Every step preserves the invariant.
LEMMA NextIInv == IInv /\ [Next]_vars => IInv'
<1> SUFFICES ASSUME IInv, [Next]_vars PROVE IInv'
  OBVIOUS
<1>0. opened \in SUBSET Emails /\ lost \in SUBSET Emails /\ Idle \in Request /\ Idle.step = "idle"
  BY IdleOK DEF IInv, TypeOK
<1>1. ASSUME NEW p \in Procs, NEW e \in Emails, NEW w \in Passwords, CheckLock(p, e, w)
      PROVE  IInv'
  BY <1>1, AdmitIInv DEF CheckLock, history
<1>2. ASSUME NEW p \in Procs, NEW e \in Emails, NEW w \in Passwords, CheckLockFailsOpen(p, e, w)
      PROVE  IInv'
  BY <1>2, AdmitIInv DEF CheckLockFailsOpen
<1>3. ASSUME NEW p \in Procs, VerifyPassword(p)
      PROVE  IInv'
  <2> DEFINE r == [step |-> IF req[p].guess = password[req[p].email] THEN "reset" ELSE "record",
                   email |-> req[p].email, guess |-> req[p].guess]
  <2>1. /\ At(p, "verify") /\ req' = [req EXCEPT ![p] = r]
        /\ UNCHANGED <<store, password, now, opened, lost>>
    BY <1>3 DEF VerifyPassword, GoTo, history
  <2>2. r \in Request /\ r.step \in {"reset", "record"} /\ r.email = req[p].email
    BY DEF IInv, TypeOK, Request, Steps
  <2> HIDE DEF r
  <2>3. QED
    BY <1>0, <2>1, <2>2, SlotOnly DEF At
<1>4. ASSUME NEW p \in Procs, RefuseInactive(p)
      PROVE  IInv'
  BY <1>0, <1>4, SlotOnly DEF RefuseInactive, Finish, At, history
<1>5. ASSUME NEW p \in Procs, Drop(p), ~At(p, "idle"), UNCHANGED <<store, password, now, opened>>
      PROVE  IInv'
  <2>1. req[p].email \in Emails
    BY <1>5 DEF IInv, RequestsOK
  <2>2. QED
    BY <1>0, <1>5, <2>1, SlotOnly DEF Drop, Finish
<1>6. ASSUME NEW p \in Procs, RedisError(p)
      PROVE  IInv'
  BY <1>5, <1>6 DEF RedisError, At
<1>7. ASSUME NEW p \in Procs, Abort(p)
      PROVE  IInv'
  BY <1>5, <1>7 DEF Abort
<1>8. ASSUME NEW e \in Emails, NEW w \in Passwords, ResetPassword(e, w)
      PROVE  IInv'
  <2>1. password' = [password EXCEPT ![e] = w] /\ UNCHANGED <<redis, count, until, keyed, req, now, opened, lost>>
    BY <1>8 DEF ResetPassword, store, history
  <2>2. TypeOK' /\ RequestsOK' /\ WindowOK'
    BY <2>1 DEF IInv, TypeOK, RequestsOK, WindowOK, At
  <2>3. (\A f \in Emails : Failures(f)' = Failures(f)) /\ now <= now'
    BY <2>1 DEF Failures, IInv, TypeOK
  <2>4. QED
    BY <2>1, <2>2, <2>3, StoreLess
<1>9. CASE UNCHANGED vars
  <2>1. UNCHANGED <<redis, count, until, keyed, password, req, now, opened, lost>>
    BY <1>9 DEF vars
  <2>2. TypeOK' /\ RequestsOK' /\ WindowOK'
    BY <2>1 DEF IInv, TypeOK, RequestsOK, WindowOK, At
  <2>3. (\A f \in Emails : Failures(f)' = Failures(f)) /\ now <= now'
    BY <2>1 DEF Failures, IInv, TypeOK
  <2>4. QED
    BY <2>1, <2>2, <2>3, StoreLess
<1>10. QED
  BY <1>1, <1>2, <1>3, <1>4, <1>6, <1>7, <1>8, <1>9, RecordInMemoryIInv, IncrIInv,
     ExpireIInv, ResetIInv, RestartIInv, TickIInv DEF Next, Step

THEOREM Inductive == Spec => []IInv
  BY InitIInv, NextIInv, PTL DEF Spec

\* The counter, the accounts and the logins in flight keep their types.
THEOREM TypeCorrect == Spec => []TypeOK
<1>1. IInv => TypeOK
  BY DEF IInv
<1>2. QED
  BY <1>1, Inductive, PTL

\* However many logins are in flight, the guesses that authenticate_user lets
\* through exceed the threshold by less than their number.
THEOREM Overshoot == Spec => []BoundedOvershoot
<1>1. IInv => BoundedOvershoot
  BY DEF IInv
<1>2. QED
  BY <1>1, Inductive, PTL

\* A counter ends with its window in both stores, unless an EXPIRE is to come or lost.
THEOREM CounterResets == Spec => []CounterResetsAfterWindow
<1>1. IInv => CounterResetsAfterWindow
  BY DEF IInv
<1>2. QED
  BY <1>1, Inductive, PTL

\* No step but a delayed EXPIRE moves the window of a locked account.
THEOREM LockKept == Spec => LockNotExtended
<1>1. IInv /\ [Next]_vars =>
        [\A e \in Emails :
           Locked(e) /\ Locked(e)' /\ ~Expiring(e) => until'[e] = until[e]]_vars
  <2> SUFFICES ASSUME IInv, [Next]_vars, NEW e \in Emails, Locked(e), ~Expiring(e)
               PROVE  until'[e] = until[e]
    OBVIOUS
  <2>1. ASSUME NEW p \in Procs, RecordInMemory(p)
        PROVE  until'[e] = until[e]
    <3>1. Failures(e) # 0
      BY LockoutAssumption DEF Locked
    <3>2. until' = [until EXCEPT ![req[p].email] =
                      IF Failures(req[p].email) = 0 THEN now + Window ELSE until[req[p].email]]
      BY <2>1 DEF RecordInMemory
    <3>3. QED
      BY <3>1, <3>2 DEF IInv, TypeOK
  <2>2. ASSUME NEW p \in Procs, Expire(p)
        PROVE  until'[e] = until[e]
    <3>1. req[p].email # e
      BY <2>2 DEF Expire, Expiring
    <3>2. QED
      BY <2>2, <3>1 DEF Expire, store, IInv, TypeOK
  <2>3. ASSUME ~\E p \in Procs : RecordInMemory(p) \/ Expire(p)
        PROVE  until' = until
    BY <2>3 DEF Next, Step, vars, store, CheckLock, CheckLockFailsOpen, VerifyPassword,
                RefuseInactive, Incr, RedisError, Reset, Abort, ResetPassword, Restart, Tick
  <2>4. QED
    BY <2>1, <2>2, <2>3
<1>2. QED
  BY <1>1, Inductive, PTL DEF Spec, LockNotExtended
=============================================================================
