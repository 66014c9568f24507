------------------------------- MODULE Lockout -------------------------------
(***************************************************************************)
(* Failed-login counting and account lockout, as POST /auth/login uses it: *)
(* the counter is read first, then the database is asked and the password  *)
(* checked, and the failure recorded or the counter reset afterwards, each *)
(* with awaits in between.  Two stores implement the counter: a dictionary *)
(* in the process (entry = count and window start) and Redis (INCR, then   *)
(* EXPIRE by whoever counted 1), the latter failing open.                  *)
(***************************************************************************)
EXTENDS Naturals, FiniteSets

CONSTANTS
    Emails,
    Procs,         \* login requests in flight at the same time
    NoEmail,
    Passwords,     \* what a client may submit
    MaxAttempts,   \* lockout_max_attempts
    Window,        \* lockout_window_seconds, in ticks
    MaxCount,      \* bound on a Redis counter (fail-open checks never stop it)
    MaxTime        \* bound on the modelled clock

ASSUME LockoutAssumption ==
    /\ MaxAttempts \in Nat \ {0} /\ Window \in Nat \ {0}
    /\ MaxCount \in Nat /\ MaxTime \in Nat
    /\ NoEmail \notin Emails /\ IsFiniteSet(Procs)
    /\ Passwords # {}

VARIABLES
    redis,     \* which store main.py set up: RedisLockoutStore or InMemoryLockoutStore
    count,     \* count[e]: failures stored for e
    until,     \* until[e]: last instant at which the stored count is valid
    keyed,     \* addresses whose count expires (Redis: the key has a TTL)
    password,  \* password[e]: the password of the account
    req,       \* req[p]: where the login in slot p is
    now,
    opened,    \* history: addresses a failing lock check let through
    lost       \* history: addresses whose EXPIRE was never sent or failed

vars == <<redis, count, until, keyed, password, req, now, opened, lost>>
store == <<redis, count, until, keyed>>
history == <<opened, lost>>

Steps == {"idle", "verify", "record", "expire", "reset"}

Request == [step : Steps, email : Emails \cup {NoEmail}, guess : Passwords]

TypeOK ==
    /\ count \in [Emails -> Nat]
    /\ until \in [Emails -> Nat]
    /\ keyed \in SUBSET Emails
    /\ password \in [Emails -> Passwords]
    /\ req \in [Procs -> Request]
    /\ now \in Nat
    /\ redis \in BOOLEAN
    /\ opened \in SUBSET Emails
    /\ lost \in SUBSET Emails

Idle == [step |-> "idle", email |-> NoEmail, guess |-> CHOOSE w \in Passwords : TRUE]

Init ==
    /\ count = [e \in Emails |-> 0]
    /\ until = [e \in Emails |-> 0]
    /\ keyed = Emails
    /\ password \in [Emails -> Passwords]
    /\ req = [p \in Procs |-> Idle]
    /\ now = 0
    /\ redis \in BOOLEAN
    /\ opened = {}
    /\ lost = {}

At(p, step) == req[p].step = step
GoTo(p, step) ==
    req' = [req EXCEPT ![p] = [step |-> step, email |-> req[p].email, guess |-> req[p].guess]]
Finish(p) == req' = [req EXCEPT ![p] = Idle]

\* The request ends before its next command reaches the store.
Drop(p) ==
    /\ Finish(p)
    /\ lost' = IF At(p, "expire") THEN lost \cup {req[p].email} ELSE lost

\* The counter as a reader sees it: an expired one reads as 0.
Failures(e) == IF e \in keyed /\ now > until[e] THEN 0 ELSE count[e]

Locked(e) == Failures(e) >= MaxAttempts

-----------------------------------------------------------------------------
(* authenticate_user.                                                      *)

\* Variant: a locked account is let through.
CheckNothing(p, e, w) ==
    /\ At(p, "idle")
    /\ req' = [req EXCEPT ![p] = [step |-> "verify", email |-> e, guess |-> w]]
    /\ UNCHANGED <<store, password, now, history>>

\* is_locked: a locked account is refused here; a Redis error lets it pass.
CheckLock(p, e, w) ==
    /\ At(p, "idle")
    /\ ~Locked(e)
    /\ req' = [req EXCEPT ![p] = [step |-> "verify", email |-> e, guess |-> w]]
    /\ UNCHANGED <<store, password, now, history>>

CheckLockFailsOpen(p, e, w) ==
    /\ redis
    /\ At(p, "idle")
    /\ req' = [req EXCEPT ![p] = [step |-> "verify", email |-> e, guess |-> w]]
    /\ opened' = opened \cup {e}
    /\ UNCHANGED <<store, password, now, lost>>

VerifyPassword(p) ==
    /\ At(p, "verify")
    /\ GoTo(p, IF req[p].guess = password[req[p].email] THEN "reset" ELSE "record")
    /\ UNCHANGED <<store, password, now, history>>

\* The password is right and the account inactive: neither counted nor reset.
RefuseInactive(p) ==
    /\ At(p, "verify")
    /\ req[p].guess = password[req[p].email]
    /\ Finish(p)
    /\ UNCHANGED <<store, password, now, history>>

\* Variant: every failure restarts the window.
RecordSliding(p) ==
    /\ ~redis
    /\ At(p, "record")
    /\ LET e == req[p].email IN
       /\ count' = [count EXCEPT ![e] = Failures(e) + 1]
       /\ until' = [until EXCEPT ![e] = now + Window]
    /\ Finish(p)
    /\ UNCHANGED <<redis, keyed, password, now, history>>

\* InMemoryLockoutStore.record_failure runs without an await: it reads the
\* entry as _get does and starts a window only with the first failure.
RecordInMemory(p) ==
    /\ ~redis
    /\ At(p, "record")
    /\ LET e == req[p].email IN
       /\ count' = [count EXCEPT ![e] = Failures(e) + 1]
       /\ until' = [until EXCEPT ![e] = IF Failures(e) = 0 THEN now + Window ELSE until[e]]
    /\ Finish(p)
    /\ UNCHANGED <<redis, keyed, password, now, history>>

\* Variant: the TTL is set one failure too late.
IncrLateTTL(p) ==
    /\ redis
    /\ At(p, "record")
    /\ count[req[p].email] < MaxCount
    /\ LET e == req[p].email IN
       /\ count' = [count EXCEPT ![e] = Failures(e) + 1]
       /\ keyed' = IF Failures(e) = 0 THEN keyed \ {e} ELSE keyed
       /\ IF Failures(e) = 1 THEN GoTo(p, "expire") ELSE Finish(p)
    /\ UNCHANGED <<redis, until, password, now, history>>

\* RedisLockoutStore.record_failure: INCR creates the key without a TTL.
Incr(p) ==
    /\ redis
    /\ At(p, "record")
    /\ count[req[p].email] < MaxCount
    /\ LET e == req[p].email IN
       /\ count' = [count EXCEPT ![e] = Failures(e) + 1]
       /\ keyed' = IF Failures(e) = 0 THEN keyed \ {e} ELSE keyed
       /\ IF Failures(e) = 0 THEN GoTo(p, "expire") ELSE Finish(p)
    /\ UNCHANGED <<redis, until, password, now, history>>

\* EXPIRE of a key that exists; a key reset meanwhile is left absent.
Expire(p) ==
    /\ At(p, "expire")
    /\ LET e == req[p].email IN
       IF Failures(e) = 0
       THEN UNCHANGED store
       ELSE /\ keyed' = keyed \cup {e}
            /\ until' = [until EXCEPT ![e] = now + Window - 1]
            /\ UNCHANGED <<redis, count>>
    /\ Finish(p)
    /\ UNCHANGED <<password, now, history>>

\* A Redis error in record_failure or reset is logged and swallowed.
RedisError(p) ==
    /\ redis
    /\ At(p, "record") \/ At(p, "expire") \/ At(p, "reset")
    /\ Drop(p)
    /\ UNCHANGED <<store, password, now, opened>>

\* Variant: a success takes one failure back.
ResetOne(p) ==
    /\ At(p, "reset")
    /\ count' = [count EXCEPT ![req[p].email] = count[req[p].email] - 1]
    /\ keyed' = keyed \cup {req[p].email}
    /\ Finish(p)
    /\ UNCHANGED <<redis, until, password, now, history>>

\* The login succeeded: the counter is cleared.
Reset(p) ==
    /\ At(p, "reset")
    /\ count' = [count EXCEPT ![req[p].email] = 0]
    /\ keyed' = keyed \cup {req[p].email}
    /\ Finish(p)
    /\ UNCHANGED <<redis, until, password, now, history>>

\* POST /auth/reset-password stores the new password and nothing else here.
ResetPassword(e, w) ==
    /\ w # password[e]
    /\ password' = [password EXCEPT ![e] = w]
    /\ UNCHANGED <<store, req, now, history>>

\* The request dies at an await (disconnect, restart of this worker).
Abort(p) ==
    /\ ~At(p, "idle")
    /\ Drop(p)
    /\ UNCHANGED <<store, password, now, opened>>

\* The in-memory counters are lost with their process.
Restart ==
    /\ ~redis
    /\ count' = [e \in Emails |-> 0]
    /\ req' = [p \in Procs |-> Idle]
    /\ UNCHANGED <<redis, until, keyed, password, now, history>>

Tick ==
    /\ now < MaxTime
    /\ now' = now + 1
    /\ UNCHANGED <<store, password, req, history>>

Step(p) ==
    \/ VerifyPassword(p)
    \/ RefuseInactive(p)
    \/ RecordInMemory(p)
    \/ Incr(p)
    \/ Expire(p)
    \/ RedisError(p)
    \/ Reset(p)

Next ==
    \/ \E p \in Procs, e \in Emails, w \in Passwords :
          CheckLock(p, e, w) \/ CheckLockFailsOpen(p, e, w)
    \/ \E p \in Procs : Step(p) \/ Abort(p)
    \/ \E e \in Emails, w \in Passwords : ResetPassword(e, w)
    \/ Restart
    \/ Tick

Spec == Init /\ [][Next]_vars

-----------------------------------------------------------------------------
(* Properties.                                                             *)

\* Login requests for e that have passed the lock check.
Trying(e) == {p \in Procs : req[p].email = e /\ req[p].step \in {"verify", "record"}}

\* Check-then-act between is_locked and record_failure lets concurrent guesses
\* overshoot the threshold, but never by more than the requests in flight as
\* long as Redis answers the lock check.
BoundedOvershoot ==
    \A e \in Emails \ opened :
        Failures(e) + Cardinality(Trying(e)) <= MaxAttempts - 1 + Cardinality(Procs)

\* About to give the counter of e a TTL.
Expiring(e) == \E p \in Procs : At(p, "expire") /\ req[p].email = e

\* A failure that was in flight when the account locked does not prolong the
\* lock: only the first failure starts a window.  (In Redis an EXPIRE delayed
\* over a reset and a new first failure does.)
LockNotExtended ==
    [][\A e \in Emails :
         Locked(e) /\ Locked(e)' /\ ~Expiring(e) => until'[e] = until[e]]_vars

\* lockout.py:11 "Window-based: after `window_seconds` the counter naturally
\* resets": a counter ends within a window of now unless the EXPIRE that
\* follows its INCR is still to come or was lost; resets and concurrent
\* failures in between never leave one behind.
CounterResetsAfterWindow ==
    \A e \in Emails \ lost :
        Failures(e) > 0 => Expiring(e) \/ (e \in keyed /\ until[e] <= now + Window)

\* services/auth.py:470 "Please try again in 15 minutes or reset your
\* password": the reset lets the user try again.
ResetPasswordUnlocks ==
    [][\A e \in Emails : password'[e] # password[e] => ~Locked(e)']_vars
=============================================================================
