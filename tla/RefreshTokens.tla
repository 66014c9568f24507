---------------------------- MODULE RefreshTokens ----------------------------
(***************************************************************************)
(* The refresh-token table of PROBEXR and the requests that race on it:    *)
(* logins, POST /auth/refresh (rotation with reuse detection), logout,     *)
(* logout-all, password reset, account erasure, and the hourly token GC.   *)
(*                                                                         *)
(* Every request runs in its own database session (READ COMMITTED) and     *)
(* yields at each await, so a handler is split where another request can   *)
(* run: between a SELECT and the commit of what was decided from it.  A    *)
(* commit is one step: the rows it writes are locked until it ends.        *)
(***************************************************************************)
EXTENDS Naturals

CONSTANTS
    Users,      \* accounts
    Tokens,     \* refresh-token values (uuid4: never reissued)
    Procs,      \* requests in flight at the same time
    NoUser, NoToken,
    Lifetime,   \* refresh_token_expire_days, in ticks
    MaxTime     \* bound on the modelled clock

ASSUME LifetimeAssumption == Lifetime \in Nat
ASSUME MaxTimeAssumption == MaxTime \in Nat
ASSUME NullAssumption == NoUser \notin Users /\ NoToken \notin Tokens

VARIABLES
    active,   \* active[u]: User.is_active
    issued,   \* tokens ever inserted in the table
    stored,   \* tokens whose row is in the table now
    revoked,  \* tokens whose row has (or had, when deleted) is_revoked
    owner,    \* RefreshToken.user_id
    family,   \* RefreshToken.token_family, named by the family's first token
    expires,  \* RefreshToken.expires_at
    req,      \* req[p]: what the handler in slot p has read and does next
    now

table == <<issued, stored, revoked, owner, family, expires>>
vars == <<active, issued, stored, revoked, owner, family, expires, req, now>>

Steps == {"idle", "lookup", "rotate", "kill", "logout",
          "revokeAll", "erase", "deactivate", "issue"}

Request == [step : Steps, user : Users \cup {NoUser}, token : Tokens \cup {NoToken}]

Idle == [step |-> "idle", user |-> NoUser, token |-> NoToken]

TypeOK ==
    /\ active \in [Users -> BOOLEAN]
    /\ issued \in SUBSET Tokens
    /\ stored \in SUBSET issued
    /\ revoked \in SUBSET issued
    /\ owner \in [Tokens -> Users \cup {NoUser}]
    /\ family \in [Tokens -> Tokens \cup {NoToken}]
    /\ expires \in [Tokens -> Nat]
    /\ req \in [Procs -> Request]
    /\ now \in Nat

Init ==
    /\ active = [u \in Users |-> TRUE]
    /\ issued = {}
    /\ stored = {}
    /\ revoked = {}
    /\ owner = [t \in Tokens |-> NoUser]
    /\ family = [t \in Tokens |-> NoToken]
    /\ expires = [t \in Tokens |-> 0]
    /\ req = [p \in Procs |-> Idle]
    /\ now = 0

-----------------------------------------------------------------------------
(* Reading and writing the table.                                          *)

\* The row would be accepted by a refresh: present, not revoked, not expired.
Usable(t) == t \in stored /\ t \notin revoked /\ expires[t] >= now

FamilyOf(f) == {t \in issued : family[t] = f}

\* Variant: the inserted value is not remembered as issued.
InsertUnrecorded(t, u, f) ==
    /\ stored' = stored \cup {t}
    /\ owner' = [owner EXCEPT ![t] = u]
    /\ family' = [family EXCEPT ![t] = f]
    /\ expires' = [expires EXCEPT ![t] = now + Lifetime]
    /\ UNCHANGED issued

\* INSERT of token t for user u in family f.
Insert(t, u, f) ==
    /\ issued' = issued \cup {t}
    /\ stored' = stored \cup {t}
    /\ owner' = [owner EXCEPT ![t] = u]
    /\ family' = [family EXCEPT ![t] = f]
    /\ expires' = [expires EXCEPT ![t] = now + Lifetime]

\* UPDATE ... SET is_revoked = true on the rows of S still in the table.
Revoke(S) ==
    /\ revoked' = revoked \cup (S \cap stored)
    /\ UNCHANGED <<issued, stored, owner, family, expires>>

At(p, step) == req[p].step = step
GoTo(p, step) ==
    req' = [req EXCEPT ![p] = [step |-> step, user |-> req[p].user, token |-> req[p].token]]
Finish(p) == req' = [req EXCEPT ![p] = Idle]
Begin(p, step, u, t) ==
    /\ At(p, "idle")
    /\ req' = [req EXCEPT ![p] = [step |-> step, user |-> u, token |-> t]]

-----------------------------------------------------------------------------
(* Logging in: the account is found first, the session is created by a     *)
(* later commit.  Passwords and emailed links find only accounts that are  *)
(* not erased; a social login finds the account by its provider id and     *)
(* does not look at is_active.                                             *)

LoginByCredential(p, u) ==
    /\ active[u]
    /\ Begin(p, "issue", u, NoToken)
    /\ UNCHANGED <<active, table, now>>

LoginBySocialId(p, u) ==
    /\ Begin(p, "issue", u, NoToken)
    /\ UNCHANGED <<active, table, now>>

\* Variant: the family default is evaluated once, for the first row.
LoginSharedFamily(p, t) ==
    /\ At(p, "issue")
    /\ t \notin issued
    /\ Insert(t, req[p].user, IF issued = {} THEN t ELSE CHOOSE f \in issued : family[f] = f)
    /\ Finish(p)
    /\ UNCHANGED <<active, revoked, now>>

create_refresh_token(p, t) ==
    /\ At(p, "issue")
    /\ t \notin issued
    /\ Insert(t, req[p].user, t)
    /\ Finish(p)
    /\ UNCHANGED <<active, revoked, now>>

-----------------------------------------------------------------------------
(* Rotation.  The client presents any token it ever received.              *)

\* Variant: no reuse check, a revoked row is rotated.
RotateReadUnchecked(p, t) ==
    /\ t \in stored /\ expires[t] >= now
    /\ Begin(p, "lookup", owner[t], t)
    /\ UNCHANGED <<active, table, now>>

RotateRead(p, t) ==
    /\ t \in issued
    /\ \/ /\ t \in stored \cap revoked
          /\ Begin(p, "kill", owner[t], t)
       \/ /\ Usable(t)
          /\ Begin(p, "lookup", owner[t], t)
       \/ /\ t \notin stored \/ (t \notin revoked /\ expires[t] < now)
          /\ At(p, "idle")                       \* 401, nothing changes
          /\ UNCHANGED req
    /\ UNCHANGED <<active, table, now>>

\* Variant: is_active is not looked at.
RotateLookupAnyUser(p) ==
    /\ At(p, "lookup")
    /\ GoTo(p, "rotate")
    /\ UNCHANGED <<active, table, now>>

RotateLookup(p) ==
    /\ At(p, "lookup")
    /\ IF active[req[p].user] THEN GoTo(p, "rotate") ELSE Finish(p)
    /\ UNCHANGED <<active, table, now>>

\* The commit: old row revoked, successor inserted.  When the GC has deleted
\* the old row meanwhile the UPDATE matches nothing and everything rolls back.
RotateCommit(p, t) ==
    /\ At(p, "rotate")
    /\ t \notin issued
    /\ IF req[p].token \in stored
       THEN /\ Insert(t, req[p].user, family[req[p].token])
            /\ revoked' = revoked \cup {req[p].token}
       ELSE UNCHANGED table
    /\ Finish(p)
    /\ UNCHANGED <<active, now>>

RevokeFamily(p) ==
    /\ At(p, "kill")
    /\ Revoke(FamilyOf(family[req[p].token]))
    /\ Finish(p)
    /\ UNCHANGED <<active, now>>

-----------------------------------------------------------------------------
(* Ending sessions.                                                        *)

\* The row is read first; one already revoked is written back unchanged.
LogoutRead(p, t) ==
    /\ t \in stored \ revoked
    /\ Begin(p, "logout", owner[t], t)
    /\ UNCHANGED <<active, table, now>>

LogoutCommit(p) ==
    /\ At(p, "logout")
    /\ Revoke({req[p].token})
    /\ Finish(p)
    /\ UNCHANGED <<active, now>>

\* POST /logout-all and the password reset: the user is read, then every row
\* of the user is revoked in one commit.  DELETE /account begins alike.
RevokeAllBegin(p, u, step) ==
    /\ active[u]
    /\ step \in {"revokeAll", "erase"}
    /\ Begin(p, step, u, NoToken)
    /\ UNCHANGED <<active, table, now>>

revoke_all_user_tokens(p) ==
    /\ \/ At(p, "revokeAll") /\ Finish(p)
       \/ At(p, "erase") /\ GoTo(p, "deactivate")
    /\ Revoke({t \in issued : owner[t] = req[p].user})
    /\ UNCHANGED <<active, now>>

\* Second commit of DELETE /account.
Deactivate(p) ==
    /\ At(p, "deactivate")
    /\ active' = [active EXCEPT ![req[p].user] = FALSE]
    /\ Finish(p)
    /\ UNCHANGED <<table, now>>

-----------------------------------------------------------------------------
(* The surroundings: GC, failures, time.                                   *)

\* Variant: a row that expires at this very instant is deleted too.
CleanupEarly ==
    /\ stored' = {t \in stored : t \notin revoked /\ expires[t] > now}
    /\ stored' # stored
    /\ UNCHANGED <<active, issued, revoked, owner, family, expires, req, now>>

\* Variant: only expired rows are deleted.
CleanupExpiredOnly ==
    /\ stored' = {t \in stored : expires[t] >= now}
    /\ stored' # stored
    /\ UNCHANGED <<active, issued, revoked, owner, family, expires, req, now>>

\* _cleanup_tokens: expired or revoked rows, in one transaction.
CleanupTokens ==
    /\ stored' = {t \in stored : t \notin revoked /\ expires[t] >= now}
    /\ stored' # stored
    /\ UNCHANGED <<active, issued, revoked, owner, family, expires, req, now>>

\* A request dies at an await (disconnect, database error, restart): what it
\* committed stays, what it was about to commit is lost.
Abort(p) ==
    /\ ~At(p, "idle")
    /\ Finish(p)
    /\ UNCHANGED <<active, table, now>>

Tick ==
    /\ now < MaxTime
    /\ now' = now + 1
    /\ UNCHANGED <<active, table, req>>

Step(p) ==
    \/ \E t \in Tokens : create_refresh_token(p, t) \/ RotateCommit(p, t)
    \/ RotateLookup(p)
    \/ RevokeFamily(p)
    \/ LogoutCommit(p)
    \/ revoke_all_user_tokens(p)
    \/ Deactivate(p)

Start(p) ==
    \/ \E u \in Users :
          \/ LoginByCredential(p, u)
          \/ LoginBySocialId(p, u)
          \/ \E step \in Steps : RevokeAllBegin(p, u, step)
    \/ \E t \in Tokens : RotateRead(p, t) \/ LogoutRead(p, t)

Next ==
    \/ \E p \in Procs : Start(p) \/ Step(p) \/ Abort(p)
    \/ CleanupTokens
    \/ Tick

Spec == Init /\ [][Next]_vars

\* The GC task is restarted by every process start and survives its errors.
FairSpec == Spec /\ WF_vars(CleanupTokens)

-----------------------------------------------------------------------------
(* Properties.                                                             *)

\* A rotation of family f has passed its reuse check and not committed.
InFlight(f) ==
    \E p \in Procs : (At(p, "lookup") \/ At(p, "rotate")) /\ family[req[p].token] = f

\* The session can still produce tokens.
Continuing(f) == InFlight(f) \/ \E t \in FamilyOf(f) : Usable(t)

\* Refinement mapping: a session is a token family, it is open while it can
\* still produce tokens.
sessionPhase ==
    [f \in Tokens |-> IF family[f] # f THEN "none"
                      ELSE IF Continuing(f) THEN "open" ELSE "ended"]
sessionHolder ==
    [f \in Tokens |-> IF family[f] # f THEN NoUser ELSE owner[f]]

Store == INSTANCE SessionStore
           WITH Sessions <- Tokens, phase <- sessionPhase, holder <- sessionHolder

\* The table implements the session store: whatever rotations, logouts,
\* revocations, GC runs, failures and expiries interleave, a session that can
\* no longer produce tokens (rotate_refresh_token's checks) never does again,
\* and each session keeps the user it was opened for.
ImplementsSessionStore == Store!Spec

\* A family never mixes two accounts: rotation copies user_id and
\* token_family from the row read before the awaits, so a refresh can never
\* hand one user's session to another.
FamilyHasOneOwner ==
    \A s, t \in issued : family[s] = family[t] => owner[s] = owner[t]

\* DELETE /account has deactivated u and no rotation that had seen u active is
\* about to commit.
Erased(u) ==
    /\ ~active[u]
    /\ \A p \in Procs : req[p].user = u => ~At(p, "rotate")

\* From then on, for ever, no session of the user is prolonged: rotation reads
\* is_active again after its token, so none begun earlier or later gets through
\* and only a new login can add a row.
ErasedSessionsFrozen ==
    [][\A u \in Users : Erased(u) =>
         /\ Erased(u)'
         /\ \A t \in issued' \ issued : owner'[t] = u => family'[t] = t]_vars

\* A row accepted by a refresh stays accepted until it is revoked or expires:
\* the GC's deletion condition never reaches a row that rotation would accept
\* (the two compare expires_at with their own clock reading).
UsableUntilRevoked ==
    [][\A t \in Tokens :
         Usable(t) /\ t \notin revoked' /\ now' <= expires[t] => Usable(t)']_vars

\* The hourly GC eventually removes every revoked row, so the table does not
\* grow with each rotation.
RevokedPurged == \A t \in Tokens : (t \in stored \cap revoked) ~> (t \notin stored)
=============================================================================
