------------------------- MODULE TokenClient_proofs -------------------------
(***************************************************************************)
(* Proofs about the refresh-token table, for every set of users, tokens    *)
(* and concurrent requests, every token lifetime and every clock bound;    *)
(* then about the browser on top of it, for any number of tabs, calls,     *)
(* requests and mishaps.                                                   *)
(***************************************************************************)
EXTENDS TokenClient, TLAPS

-----------------------------------------------------------------------------
(***************************************************************************)
(* The table.                                                              *)
(***************************************************************************)

\* Every row points to the root of its family, which has the same owner; a
\* token never inserted has no family.
RowsOK ==
    /\ \A t \in issued : /\ owner[t] \in Users
                         /\ family[t] \in issued
                         /\ family[family[t]] = family[t]
                         /\ owner[family[t]] = owner[t]
    /\ \A t \in Tokens \ issued : family[t] = NoToken

\* What a handler carries across an await still agrees with the table.
RequestsOK ==
    \A p \in Procs :
        /\ req[p].step \in {"lookup", "rotate", "kill", "logout"} =>
              req[p].token \in issued /\ req[p].user = owner[req[p].token]
        /\ req[p].step \in {"issue", "revokeAll", "erase", "deactivate"} =>
              req[p].user \in Users

IInv == TypeOK /\ RowsOK /\ RequestsOK

-----------------------------------------------------------------------------

\* The initial table is empty and no request is in flight.
LEMMA InitIInv == Init => IInv
  BY NullAssumption DEF Init, IInv, TypeOK, RowsOK, RequestsOK, Request, Steps, Idle

\* Starting a request reads the table and writes nothing.
LEMMA StartIInv ==
  ASSUME IInv, NEW p \in Procs, Start(p)
  PROVE  IInv'
<1>1. UNCHANGED <<active, table, now>>
  BY DEF Start, LoginByCredential, LoginBySocialId, RevokeAllBegin, RotateRead, LogoutRead
<1>2. UNCHANGED <<active, issued, stored, revoked, owner, family, expires, now>>
  BY <1>1 DEF table
<1>3. \/ UNCHANGED req
      \/ \E step \in {"issue", "revokeAll", "erase"}, u \in Users :
            req' = [req EXCEPT ![p] = [step |-> step, user |-> u, token |-> NoToken]]
      \/ \E step \in {"lookup", "kill", "logout"}, t \in issued :
            req' = [req EXCEPT ![p] = [step |-> step, user |-> owner[t], token |-> t]]
  BY DEF Start, LoginByCredential, LoginBySocialId, RevokeAllBegin, RotateRead,
         LogoutRead, Begin, IInv, TypeOK, Usable
<1>4. CASE UNCHANGED req
  BY <1>2, <1>4 DEF IInv, TypeOK, RowsOK, RequestsOK
<1>5. ASSUME NEW step \in {"issue", "revokeAll", "erase"}, NEW u \in Users,
             req' = [req EXCEPT ![p] = [step |-> step, user |-> u, token |-> NoToken]]
      PROVE  IInv'
  BY <1>2, <1>5 DEF IInv, TypeOK, RowsOK, RequestsOK, Request, Steps
<1>6. ASSUME NEW step \in {"lookup", "kill", "logout"}, NEW t \in issued,
             req' = [req EXCEPT ![p] = [step |-> step, user |-> owner[t], token |-> t]]
      PROVE  IInv'
  BY <1>2, <1>6 DEF IInv, TypeOK, RowsOK, RequestsOK, Request, Steps
<1>7. QED
  BY <1>3, <1>4, <1>5, <1>6

\* A step that inserts no row and only finishes a request, or moves it on
\* within the step kinds that carry the same data, keeps the invariant.
LEMMA NoInsertIInv ==
  ASSUME IInv,
         UNCHANGED <<issued, owner, family, expires>>,
         stored' \in SUBSET issued, revoked' \in SUBSET issued,
         active' \in [Users -> BOOLEAN], now' \in Nat,
         \/ UNCHANGED req
         \/ \E p \in Procs :
               \/ Finish(p)
               \/ At(p, "lookup") /\ GoTo(p, "rotate")
               \/ At(p, "erase") /\ GoTo(p, "deactivate")
  PROVE  IInv'
<1>1. TypeOK' /\ RowsOK'
  BY DEF IInv, TypeOK, RowsOK, Finish, GoTo, Idle, Request, Steps
<1>2. RequestsOK'
  BY DEF IInv, TypeOK, RequestsOK, Finish, GoTo, At, Idle, Request, Steps
<1>3. QED
  BY <1>1, <1>2 DEF IInv

\* A new row is the root of its own family, or joins an existing family under
\* that family's owner.
LEMMA InsertIInv ==
  ASSUME IInv, NEW p \in Procs, NEW t \in Tokens \ issued, NEW u \in Users,
         NEW f \in issued \cup {t}, f = t \/ (family[f] = f /\ owner[f] = u),
         Insert(t, u, f), Finish(p),
         revoked' \in SUBSET issued, UNCHANGED <<active, now>>
  PROVE  IInv'
<1>1. TypeOK'
  BY LifetimeAssumption DEF IInv, TypeOK, Insert, Finish, Idle, Request, Steps
<1>2. RowsOK'
  BY DEF IInv, TypeOK, RowsOK, Insert
<1>3. RequestsOK'
  BY DEF IInv, TypeOK, RequestsOK, Insert, Finish, Idle, Request, Steps
<1>4. QED
  BY <1>1, <1>2, <1>3 DEF IInv

LEMMA StepIInv ==
  ASSUME IInv, NEW p \in Procs, Step(p)
  PROVE  IInv'
<1>1. ASSUME NEW t \in Tokens, create_refresh_token(p, t) PROVE IInv'
  BY <1>1, InsertIInv DEF create_refresh_token, At, IInv, TypeOK, RequestsOK
<1>2. ASSUME NEW t \in Tokens, RotateCommit(p, t) PROVE IInv'
  <2>1. CASE req[p].token \in stored
    <3> DEFINE old == req[p].token
    <3>1. /\ old \in issued
          /\ req[p].user = owner[old] /\ owner[old] \in Users
          /\ family[old] \in issued
          /\ family[family[old]] = family[old]
          /\ owner[family[old]] = owner[old]
      BY <1>2 DEF RotateCommit, At, IInv, RowsOK, RequestsOK
    <3>2. Insert(t, req[p].user, family[old]) /\ revoked' = revoked \cup {old}
      BY <1>2, <2>1 DEF RotateCommit
    <3>3. QED
      BY <1>2, <3>1, <3>2, InsertIInv DEF RotateCommit, IInv, TypeOK
  <2>2. CASE req[p].token \notin stored
    BY <1>2, <2>2, NoInsertIInv DEF RotateCommit, table, IInv, TypeOK
  <2>3. QED
    BY <2>1, <2>2
<1>3. CASE RotateLookup(p)
  BY <1>3, NoInsertIInv DEF RotateLookup, table, IInv, TypeOK
<1>4. CASE RevokeFamily(p)
  BY <1>4, NoInsertIInv DEF RevokeFamily, Revoke, IInv, TypeOK
<1>5. CASE LogoutCommit(p)
  BY <1>5, NoInsertIInv DEF LogoutCommit, Revoke, IInv, TypeOK
<1>6. CASE revoke_all_user_tokens(p)
  BY <1>6, NoInsertIInv DEF revoke_all_user_tokens, Revoke, IInv, TypeOK
<1>7. CASE Deactivate(p)
  BY <1>7, NoInsertIInv DEF Deactivate, table, IInv, TypeOK
<1>8. QED
  BY <1>1, <1>2, <1>3, <1>4, <1>5, <1>6, <1>7 DEF Step

\* The inductive step.
LEMMA NextIInv == IInv /\ [Next]_vars => IInv'
<1> SUFFICES ASSUME IInv, [Next]_vars PROVE IInv'
  OBVIOUS
<1>1. ASSUME NEW p \in Procs, Abort(p) PROVE IInv'
  BY <1>1, NoInsertIInv DEF Abort, table, IInv, TypeOK
<1>2. CASE CleanupTokens
  BY <1>2, NoInsertIInv DEF CleanupTokens, IInv, TypeOK
<1>3. CASE Tick
  BY <1>3, NoInsertIInv DEF Tick, table, IInv, TypeOK
<1>4. CASE UNCHANGED vars
  BY <1>4, NoInsertIInv DEF vars, IInv, TypeOK
<1>5. QED
  BY <1>1, <1>2, <1>3, <1>4, StartIInv, StepIInv DEF Next

\* Every reachable state satisfies the strengthened invariant.
THEOREM Inductive == Spec => []IInv
  BY InitIInv, NextIInv, PTL DEF Spec

\* Type correctness of the table and of the requests in flight.
THEOREM TypeCorrect == Spec => []TypeOK
<1>1. IInv => TypeOK
  BY DEF IInv
<1>2. QED
  BY <1>1, Inductive, PTL

\* A token family never mixes two accounts.
THEOREM OneOwner == Spec => []FamilyHasOneOwner
<1>1. IInv => FamilyHasOneOwner
  BY DEF IInv, RowsOK, FamilyHasOneOwner
<1>2. QED
  BY <1>1, Inductive, PTL

-----------------------------------------------------------------------------
(* What one step may do, independently of the action that takes it.        *)

\* Rows already inserted keep user, family and expiry, and none becomes
\* acceptable to a refresh again.
LEMMA OldRows ==
  ASSUME IInv, [Next]_vars, NEW t \in issued
  PROVE  /\ t \in issued' /\ owner'[t] = owner[t] /\ family'[t] = family[t]
         /\ expires'[t] = expires[t]
         /\ Usable(t)' => Usable(t)
<1>1. CASE UNCHANGED <<issued, owner, family, expires>> /\ stored' \subseteq stored
            /\ revoked \subseteq revoked' /\ now' \in {now, now + 1}
  BY <1>1 DEF Usable, IInv, TypeOK
<1>2. ASSUME NEW x \in Tokens \ issued, NEW u, NEW f, Insert(x, u, f),
             revoked \subseteq revoked', now' = now
      PROVE  /\ t \in issued' /\ owner'[t] = owner[t] /\ family'[t] = family[t]
             /\ expires'[t] = expires[t]
             /\ Usable(t)' => Usable(t)
  BY <1>2 DEF Usable, Insert, IInv, TypeOK
<1>3. ASSUME NEW p \in Procs, Start(p) \/ Abort(p)
      PROVE  UNCHANGED <<issued, owner, family, expires>> /\ stored' \subseteq stored
             /\ revoked \subseteq revoked' /\ now' = now
  BY <1>3 DEF Start, Abort, LoginByCredential, LoginBySocialId, RevokeAllBegin,
              RotateRead, LogoutRead, table
<1>4. CASE CleanupTokens \/ Tick \/ UNCHANGED vars
  BY <1>4, <1>1 DEF CleanupTokens, Tick, vars, table
<1>5. ASSUME NEW p \in Procs, NEW x \in Tokens, create_refresh_token(p, x) \/ RotateCommit(p, x)
      PROVE  \/ /\ x \notin issued /\ revoked \subseteq revoked' /\ now' = now
                /\ Insert(x, req[p].user, x) \/ Insert(x, req[p].user, family[req[p].token])
             \/ UNCHANGED <<issued, stored, revoked, owner, family, expires, now>>
  BY <1>5 DEF create_refresh_token, RotateCommit, table
<1>6. ASSUME NEW p \in Procs, \/ RotateLookup(p) \/ RevokeFamily(p) \/ LogoutCommit(p)
                              \/ revoke_all_user_tokens(p) \/ Deactivate(p)
      PROVE  UNCHANGED <<issued, owner, family, expires>> /\ stored' \subseteq stored
             /\ revoked \subseteq revoked' /\ now' = now
  BY <1>6 DEF RotateLookup, RevokeFamily, LogoutCommit, revoke_all_user_tokens,
              Deactivate, Revoke, table
<1>7. QED
  BY <1>1, <1>2, <1>3, <1>4, <1>5, <1>6 DEF Next, Step

\* A row appears only by a login, as the root of a new family, or by a
\* rotation that has passed its checks, in the family of the token presented.
LEMMA NewRows ==
  ASSUME IInv, [Next]_vars, NEW t \in issued' \ issued
  PROVE  \/ \E p \in Procs : create_refresh_token(p, t)
         \/ \E p \in Procs : /\ At(p, "rotate") /\ family'[t] = family[req[p].token]
                             /\ owner'[t] = req[p].user
<1>1. ASSUME NEW p \in Procs, NEW x \in Tokens, create_refresh_token(p, x) \/ RotateCommit(p, x)
      PROVE  \/ create_refresh_token(p, t)
             \/ /\ At(p, "rotate") /\ family'[t] = family[req[p].token]
                /\ owner'[t] = req[p].user
  BY <1>1 DEF create_refresh_token, RotateCommit, Insert, table, IInv, TypeOK
<1>2. ASSUME NEW p \in Procs,
             \/ Start(p) \/ Abort(p) \/ RotateLookup(p) \/ RevokeFamily(p)
             \/ LogoutCommit(p) \/ revoke_all_user_tokens(p) \/ Deactivate(p)
      PROVE  FALSE
  BY <1>2 DEF Start, LoginByCredential, LoginBySocialId, RevokeAllBegin, RotateRead,
              LogoutRead, Abort, RotateLookup, RevokeFamily, LogoutCommit,
              revoke_all_user_tokens, Deactivate, Revoke, table
<1>3. CASE CleanupTokens \/ Tick \/ UNCHANGED vars
  BY <1>3 DEF CleanupTokens, Tick, vars, table
<1>4. QED
  BY <1>1, <1>2, <1>3 DEF Next, Step

\* A rotation past its reuse check was so before the step, or has just read a
\* usable row.
LEMMA Rotations ==
  ASSUME IInv, [Next]_vars, NEW q \in Procs, (At(q, "lookup") \/ At(q, "rotate"))'
  PROVE  \/ (At(q, "lookup") \/ At(q, "rotate")) /\ req'[q].token = req[q].token
         \/ Usable(req'[q].token)
<1> USE DEF At
<1>1. ASSUME NEW p \in Procs, Start(p)
      PROVE  \/ req'[q] = req[q]
             \/ req'[q].step \in {"issue", "revokeAll", "erase", "kill", "logout"}
             \/ Usable(req'[q].token)
  BY <1>1 DEF Start, LoginByCredential, LoginBySocialId, RevokeAllBegin, RotateRead,
              LogoutRead, Begin, IInv, TypeOK
<1>2. ASSUME NEW p \in Procs, Step(p) \/ Abort(p)
      PROVE  \/ req'[q] = req[q]
             \/ req'[q].step \in {"idle", "deactivate"}
             \/ req[q].step = "lookup" /\ req'[q].token = req[q].token
  BY <1>2 DEF Step, create_refresh_token, RotateCommit, RotateLookup, RevokeFamily,
              LogoutCommit, revoke_all_user_tokens, Deactivate, Abort, Finish, GoTo,
              Idle, IInv, TypeOK
<1>3. CASE CleanupTokens \/ Tick \/ UNCHANGED vars
  BY <1>3 DEF CleanupTokens, Tick, vars
<1>4. QED
  BY <1>1, <1>2, <1>3 DEF Next

-----------------------------------------------------------------------------
(* Action properties.                                                      *)

\* No step brings an erased account back or lets one of its rotations reach the
\* commit: a rotation gets there only past the check of is_active.
LEMMA ErasedStays ==
  ASSUME IInv, [Next]_vars, NEW u \in Users, Erased(u)
  PROVE  Erased(u)'
<1>1. ASSUME NEW p \in Procs, Start(p)
      PROVE  Erased(u)'
  <2>1. UNCHANGED active
    BY <1>1 DEF Start, LoginByCredential, LoginBySocialId, RevokeAllBegin, RotateRead, LogoutRead
  <2>2. \/ UNCHANGED req
        \/ \E r : r.step # "rotate" /\ req' = [req EXCEPT ![p] = r]
    BY <1>1 DEF Start, LoginByCredential, LoginBySocialId, RevokeAllBegin, RotateRead,
                LogoutRead, Begin
  <2>3. QED
    BY <2>1, <2>2 DEF Erased, At, IInv, TypeOK
<1>2. ASSUME NEW p \in Procs, RotateLookup(p)
      PROVE  Erased(u)'
  <2>1. UNCHANGED active
    BY <1>2 DEF RotateLookup
  <2>2. CASE active[req[p].user]
    BY <1>2, <2>1, <2>2 DEF RotateLookup, GoTo, Erased, At, IInv, TypeOK, Request
  <2>3. CASE ~active[req[p].user]
    BY <1>2, <2>1, <2>3 DEF RotateLookup, Finish, Idle, Erased, At, IInv, TypeOK
  <2>4. QED
    BY <2>2, <2>3
<1>3. ASSUME NEW p \in Procs, Step(p) \/ Abort(p), ~RotateLookup(p)
      PROVE  Erased(u)'
  <2>1. ~active'[u]
    BY <1>3 DEF Step, Abort, create_refresh_token, RotateCommit, RevokeFamily, LogoutCommit,
                revoke_all_user_tokens, Deactivate, Erased, IInv, TypeOK
  <2>2. \E r : r.step # "rotate" /\ req' = [req EXCEPT ![p] = r]
    BY <1>3 DEF Step, Abort, create_refresh_token, RotateCommit, RevokeFamily, LogoutCommit,
                revoke_all_user_tokens, Deactivate, Finish, GoTo, Idle
  <2>3. QED
    BY <2>1, <2>2 DEF Erased, At, IInv, TypeOK
<1>4. CASE CleanupTokens \/ Tick \/ UNCHANGED vars
  BY <1>4 DEF CleanupTokens, Tick, vars, Erased, At
<1>5. QED
  BY <1>1, <1>2, <1>3, <1>4 DEF Next

\* After the erasure of an account its sessions are never prolonged.
THEOREM ErasedFrozen == Spec => ErasedSessionsFrozen
<1>1. IInv /\ [Next]_vars =>
        [\A u \in Users : Erased(u) =>
           /\ Erased(u)'
           /\ \A t \in issued' \ issued : owner'[t] = u => family'[t] = t]_vars
  <2> SUFFICES ASSUME IInv, [Next]_vars, NEW u \in Users, Erased(u)
               PROVE  /\ Erased(u)'
                      /\ \A t \in issued' \ issued : owner'[t] = u => family'[t] = t
    OBVIOUS
  <2>1. ASSUME NEW t \in issued' \ issued, owner'[t] = u
        PROVE  family'[t] = t
    <3>1. ASSUME NEW p \in Procs, create_refresh_token(p, t) PROVE family'[t] = t
      BY <3>1, NextIInv DEF create_refresh_token, Insert, IInv, TypeOK
    <3>2. QED
      BY <2>1, <3>1, NewRows DEF Erased
  <2>2. QED
    BY <2>1, ErasedStays
<1>2. QED
  BY <1>1, Inductive, PTL DEF Spec, ErasedSessionsFrozen

\* The GC never removes a row that a refresh would still accept.
THEOREM GCSparesUsable == Spec => UsableUntilRevoked
<1>1. IInv /\ [Next]_vars =>
        [\A t \in Tokens :
           Usable(t) /\ t \notin revoked' /\ now' <= expires[t] => Usable(t)']_vars
  <2> SUFFICES ASSUME IInv, [Next]_vars, NEW t \in Tokens, Usable(t),
                      t \notin revoked', now' <= expires[t]
               PROVE  Usable(t)'
    OBVIOUS
  <2>1. t \in issued /\ expires'[t] = expires[t]
    BY OldRows DEF Usable, IInv, TypeOK
  <2>2. t \in stored'
    <3>1. ASSUME NEW p \in Procs, Start(p) \/ Abort(p) PROVE stored' = stored
      BY <3>1 DEF Start, Abort, LoginByCredential, LoginBySocialId, RevokeAllBegin,
                  RotateRead, LogoutRead, table
    <3>2. ASSUME NEW p \in Procs, Step(p) PROVE stored \subseteq stored'
      BY <3>2 DEF Step, create_refresh_token, RotateCommit, RotateLookup, RevokeFamily,
                  LogoutCommit, revoke_all_user_tokens, Deactivate, Revoke, Insert, table
    <3>3. CASE CleanupTokens
      BY <3>3 DEF CleanupTokens, Usable
    <3>4. CASE Tick \/ UNCHANGED vars
      BY <3>4 DEF Tick, vars, table, Usable
    <3>5. QED
      BY <3>1, <3>2, <3>3, <3>4 DEF Next, Usable
  <2>3. now' \in Nat /\ expires[t] \in Nat
    BY NextIInv DEF IInv, TypeOK
  <2>4. QED
    BY <2>1, <2>2, <2>3 DEF Usable
<1>2. QED
  BY <1>1, Inductive, PTL DEF Spec, UsableUntilRevoked

-----------------------------------------------------------------------------
(* Refinement of SessionStore.                                             *)

Root(f) == family[f] = f

\* A family root is a row of the table.
LEMMA RootIssued ==
  ASSUME IInv, NEW f \in Tokens, Root(f)
  PROVE  f \in issued /\ owner[f] \in Users
  BY NullAssumption DEF IInv, RowsOK, Root

\* A session that cannot produce tokens is not brought back by any step.
LEMMA EndedStaysEnded ==
  ASSUME IInv, [Next]_vars, NEW f \in Tokens, Root(f), Continuing(f)'
  PROVE  Continuing(f)
<1>0. f \in issued /\ IInv'
  BY RootIssued, NextIInv
<1>1. CASE InFlight(f)'
  <2>1. PICK q \in Procs : (At(q, "lookup") \/ At(q, "rotate"))' /\ family'[req'[q].token] = f
    BY <1>1 DEF InFlight, At
  <2>2. CASE (At(q, "lookup") \/ At(q, "rotate")) /\ req'[q].token = req[q].token
    <3>1. req[q].token \in issued
      BY <2>2 DEF At, IInv, RequestsOK
    <3>2. family[req[q].token] = f
      BY <2>1, <2>2, <3>1, OldRows
    <3>3. QED
      BY <2>2, <3>2 DEF Continuing, InFlight
  <2>3. CASE Usable(req'[q].token)
    <3>1. req'[q].token \in issued
      BY <2>3 DEF Usable, IInv, TypeOK
    <3>2. family[req'[q].token] = f
      BY <2>1, <3>1, OldRows
    <3>3. QED
      BY <2>3, <3>1, <3>2 DEF Continuing, FamilyOf
  <2>4. QED
    BY <2>1, <2>2, <2>3, Rotations
<1>2. CASE \E t \in FamilyOf(f)' : Usable(t)'
  <2>1. PICK t \in issued' : family'[t] = f /\ Usable(t)'
    BY <1>2 DEF FamilyOf
  <2>2. CASE t \in issued
    BY <2>1, <2>2, OldRows DEF Continuing, FamilyOf
  <2>3. CASE t \notin issued
    <3>1. ASSUME NEW p \in Procs, create_refresh_token(p, t) PROVE FALSE
      <4>1. family'[t] = t
        BY <3>1, <2>1, <1>0 DEF create_refresh_token, Insert, IInv, TypeOK
      <4>2. QED
        BY <4>1, <2>1, <2>3, <1>0
    <3>2. PICK p \in Procs : At(p, "rotate") /\ family'[t] = family[req[p].token]
      BY <2>1, <2>3, <3>1, NewRows
    <3>3. QED
      BY <2>1, <3>2 DEF Continuing, InFlight
  <2>4. QED
    BY <2>2, <2>3
<1>3. QED
  BY <1>1, <1>2 DEF Continuing

\* A login opens the session it creates and touches no other.
LEMMA LoginOpens ==
  ASSUME IInv, NEW p \in Procs, NEW t \in Tokens, create_refresh_token(p, t)
  PROVE  \E u \in Users : Store!Open(t, u)
<1> DEFINE u == req[p].user
<1>1. u \in Users /\ IInv' /\ t \notin issued /\ ~Root(t)
  BY NextIInv, NullAssumption
     DEF Next, Step, create_refresh_token, At, IInv, RequestsOK, RowsOK, Root
<1>2. /\ issued' = issued \cup {t} /\ stored' = stored \cup {t} /\ revoked' = revoked
      /\ owner' = [owner EXCEPT ![t] = u] /\ family' = [family EXCEPT ![t] = t]
      /\ expires' = [expires EXCEPT ![t] = now + Lifetime] /\ now' = now
      /\ req' = [req EXCEPT ![p] = Idle] /\ req[p].step = "issue"
  BY DEF create_refresh_token, Insert, Finish, At
<1>3. family'[t] = t /\ owner'[t] = u /\ Continuing(t)'
  <2>1. now + Lifetime >= now /\ t \notin revoked
    BY <1>1, LifetimeAssumption DEF IInv, TypeOK
  <2>2. t \in FamilyOf(t)' /\ Usable(t)'
    BY <1>2, <2>1 DEF FamilyOf, Usable, IInv, TypeOK
  <2>3. QED
    BY <1>2, <2>2 DEF Continuing, IInv, TypeOK
<1>4. ASSUME NEW f \in Tokens, f # t
      PROVE  /\ family'[f] = family[f] /\ owner'[f] = owner[f]
             /\ Root(f) => (Continuing(f)' <=> Continuing(f))
  <2>1. family'[f] = family[f] /\ owner'[f] = owner[f]
    BY <1>2, <1>4 DEF IInv, TypeOK
  <2>2. ASSUME Root(f), Continuing(f) PROVE Continuing(f)'
    <3>1. CASE InFlight(f)
      <4>1. PICK q \in Procs : (At(q, "lookup") \/ At(q, "rotate")) /\ family[req[q].token] = f
        BY <3>1 DEF InFlight
      <4>2. q # p /\ req'[q] = req[q] /\ req[q].token \in issued
        BY <4>1, <1>2 DEF At, IInv, TypeOK, RequestsOK
      <4>3. family'[req'[q].token] = f
        BY <4>1, <4>2, <1>1, <1>2 DEF IInv, TypeOK
      <4>4. QED
        BY <4>1, <4>2, <4>3 DEF Continuing, InFlight, At
    <3>2. CASE \E s \in FamilyOf(f) : Usable(s)
      <4>1. PICK s \in issued : family[s] = f /\ Usable(s)
        BY <3>2 DEF FamilyOf
      <4>2. s \in FamilyOf(f)' /\ Usable(s)'
        BY <4>1, <1>1, <1>2 DEF FamilyOf, Usable, IInv, TypeOK
      <4>3. QED
        BY <4>2 DEF Continuing
    <3>3. QED
      BY <2>2, <3>1, <3>2 DEF Continuing
  <2>3. ASSUME Root(f), Continuing(f)' PROVE Continuing(f)
    BY <2>3, EndedStaysEnded DEF Next, Step
  <2>4. QED
    BY <2>1, <2>2, <2>3
<1>5. sessionPhase[t] = "none"
  BY <1>1 DEF sessionPhase, Root
<1>6. sessionPhase' = [sessionPhase EXCEPT ![t] = "open"]
  BY <1>3, <1>4 DEF sessionPhase, Root
<1>7. sessionHolder' = [sessionHolder EXCEPT ![t] = u]
  BY <1>3, <1>4 DEF sessionHolder
<1>8. QED
  BY <1>1, <1>5, <1>6, <1>7 DEF Store!Open

\* Any other step ends the sessions that stop producing tokens, possibly none.
LEMMA OtherStepsEnd ==
  ASSUME IInv, [Next]_vars,
         \A p \in Procs, t \in Tokens : ~create_refresh_token(p, t)
  PROVE  \E S \in SUBSET Tokens : Store!End(S)
<1> DEFINE S == {f \in Tokens : Root(f) /\ Continuing(f) /\ ~Continuing(f)'}
<1>1. ASSUME NEW f \in Tokens
      PROVE  (Root(f)' <=> Root(f)) /\ (Root(f) => owner'[f] = owner[f])
  <2>1. CASE f \in issued
    BY <2>1, OldRows DEF Root
  <2>2. CASE f \in issued' \ issued
    <3>1. PICK p \in Procs : At(p, "rotate") /\ family'[f] = family[req[p].token]
      BY <2>2, NewRows
    <3>2. family[req[p].token] \in issued
      BY <3>1 DEF At, IInv, RequestsOK, RowsOK
    <3>3. QED
      BY <2>2, <3>1, <3>2, RootIssued DEF Root
  <2>3. CASE f \notin issued'
    <3>1. f \notin issued /\ IInv'
      BY <2>3, OldRows, NextIInv
    <3>2. family[f] = NoToken /\ family'[f] = NoToken
      BY <2>3, <3>1 DEF IInv, RowsOK
    <3>3. QED
      BY <3>2, NullAssumption DEF Root
  <2>4. QED
    BY <2>1, <2>2, <2>3
<1>2. \A f \in S : sessionPhase[f] = "open"
  BY DEF sessionPhase, Root
<1>3. sessionPhase' = [f \in Tokens |-> IF f \in S THEN "ended" ELSE sessionPhase[f]]
  <2>1. ASSUME NEW f \in Tokens
        PROVE  sessionPhase'[f] = IF f \in S THEN "ended" ELSE sessionPhase[f]
    BY <1>1, EndedStaysEnded DEF sessionPhase, Root
  <2>2. QED
    BY <2>1 DEF sessionPhase
<1>4. sessionHolder' = sessionHolder
  BY <1>1 DEF sessionHolder, Root
<1>5. QED
  BY <1>2, <1>3, <1>4 DEF Store!End

\* The refresh-token table implements the session store.
THEOREM Refinement == Spec => ImplementsSessionStore
<1>1. Init => Store!Init
  BY NullAssumption DEF Init, Store!Init, sessionPhase, sessionHolder
<1>2. IInv /\ [Next]_vars => [Store!Next]_(Store!vars)
  BY LoginOpens, OtherStepsEnd DEF Store!Next
<1>3. QED
  BY <1>1, <1>2, Inductive, PTL DEF Spec, Store!Spec, ImplementsSessionStore

-----------------------------------------------------------------------------
(***************************************************************************)
(* The browser.                                                            *)
(***************************************************************************)

\* The state of the browser itself.
BrowserOK ==
    /\ jar \in issued \cup {NoToken}
    /\ access \in BOOLEAN
    /\ tab \in [Calls -> Tabs]
    /\ load \in [Calls -> BOOLEAN]
    /\ call \in [Calls -> Phases]
    /\ events \in 0 .. MaxEvents
    /\ mishap \in BOOLEAN

\* The steps a handler goes through for a request of the browser.
Serving(step, kind) ==
    \/ kind = "refresh" /\ step \in {"lookup", "rotate", "kill"}
    \/ kind = "login" /\ step = "issue"
    \/ kind = "logout" /\ step = "logout"
    \/ kind \in {"logoutAll", "reset"} /\ step = "revokeAll"

\* A request at the server is unanswered and its handler does what was asked
\* for; an answer with a token brings one that was issued.
FlightOK(g) ==
    /\ g # User => flight[g].kind \in {"none", "refresh"}
    /\ flight[g].slot # NoProc =>
          /\ flight[g].answer = "pending"
          /\ Serving(req[flight[g].slot].step, flight[g].kind)
    /\ flight[g].answer = "ok" /\ flight[g].kind \in {"refresh", "login"} =>
          flight[g].token \in issued

FlightsOK ==
    /\ flight \in [Groups -> Flight \cup {NoFlight}]
    /\ \A g \in Groups : FlightOK(g)
    /\ \A g, h \in Groups : flight[g].slot = flight[h].slot /\ g # h => flight[g].slot = NoProc
    /\ \A p \in Procs : At(p, "idle") => req[p] = Idle
    /\ \A c \in Calls : call[c] = "waiting" => flight[<<tab[c], "auto">>].kind = "refresh"

\* What a handler does for a browser that asked for a token or gave one back;
\* the other steps end all sessions of an account, maybe for another device.
Asked == {"lookup", "rotate", "kill", "logout", "issue"}

\* A new cookie is on its way.
Answered(g) == flight[g].answer = "ok" /\ flight[g].kind \in {"refresh", "login"}

\* The session of token t lives in no other token.
OnlyLive(t) == \A s \in issued : family[s] = family[t] /\ s # t => s \in revoked

\* As long as nothing went wrong: one session request at a time, and nobody
\* else's works with the cookie; the cookie, or the one that is about to
\* replace it, is all that may be left of its session.
Calm ==
    /\ \A g, h \in Groups : Busy(g) /\ Busy(h) => g = h
    /\ \A p \in Procs : req[p].step \in Asked => \E g \in Groups : flight[g].slot = p
    /\ \A p \in Procs : req[p].step \in {"lookup", "rotate", "kill"} => req[p].token = jar
    /\ \A p \in Procs : At(p, "kill") => jar \in revoked
    /\ \A g \in Groups : Answered(g) => OnlyLive(flight[g].token)
    /\ jar # NoToken /\ (\A g \in Groups : ~Answered(g)) => OnlyLive(jar)

ClientIInv == IInv /\ BrowserOK /\ FlightsOK /\ (~mishap => Calm)

-----------------------------------------------------------------------------
(* What the steps have in common.                                          *)

\* A flight that has a kind has been sent; one that has none is no flight.
LEMMA FlightShape ==
  ASSUME FlightsOK, NEW g \in Groups
  PROVE  /\ Busy(g) => flight[g] \in Flight
         /\ ~Busy(g) => flight[g] = NoFlight
         /\ ~Busy(g) => flight[g].slot = NoProc /\ flight[g].answer = "pending"
         /\ flight[g].slot # NoProc => flight[g].slot \in Procs
  BY DEF FlightsOK, Flight, Kinds, NoFlight, Busy

\* A slot that is free serves no flight, and a slot that serves one is not idle.
LEMMA SlotsNotIdle ==
  ASSUME FlightsOK, NEW g \in Groups, NEW p \in Procs, flight[g].slot = p
  PROVE  ~At(p, "idle") /\ flight[g].answer = "pending"
  BY NoProcAssumption DEF FlightsOK, FlightOK, Serving, At

\* The cookie names a row, which has an owner.
LEMMA JarOwned ==
  ASSUME IInv, BrowserOK, jar # NoToken
  PROVE  jar \in issued /\ jar \in Tokens /\ owner[jar] \in Users
  BY DEF IInv, TypeOK, RowsOK, BrowserOK

\* The browser sends no request that the model of the table does not have.
LEMMA SendStarts ==
  ASSUME IInv, BrowserOK, NEW g \in Groups, SendRefresh(g)
  PROVE  [Next]_vars
<1>1. ASSUME UNCHANGED server PROVE UNCHANGED vars
  BY <1>1 DEF server, vars
<1>2. ASSUME NEW p \in Procs, jar # NoToken, RotateRead(p, jar) PROVE Next
  BY <1>2, JarOwned DEF Next, Start
<1>3. QED
  BY <1>1, <1>2 DEF SendRefresh

\* The end of all sessions of an account is asked for.
LEMMA RevocationStarts ==
  ASSUME NEW p \in Procs, NEW u \in Users, NEW step \in {"revokeAll", "erase"},
         RevokeAllBegin(p, u, step)
  PROVE  Next
  BY DEF Next, Start, Steps

LEMMA ClientStepsAreNext ==
  ASSUME IInv, BrowserOK, [ClientNext]_allVars
  PROVE  [Next]_vars
<1>1. CASE UserAction
  <2>1. ASSUME UNCHANGED server PROVE UNCHANGED vars
    BY <2>1 DEF server, vars
  <2>2. ASSUME NEW p \in Procs, NEW u \in Users, LoginByCredential(p, u) PROVE Next
    BY <2>2 DEF Next, Start
  <2>3. ASSUME NEW p \in Procs, jar \in stored \ revoked, LogoutRead(p, jar) PROVE Next
    BY <2>3 DEF Next, Start, IInv, TypeOK
  <2>4. ASSUME NEW p \in Procs, jar # NoToken, RevokeAllBegin(p, owner[jar], "revokeAll")
        PROVE  Next
    BY <2>4, JarOwned, RevocationStarts
  <2>5. ASSUME NEW p \in Procs, NEW u \in Users, RevokeAllBegin(p, u, "revokeAll") PROVE Next
    BY <2>5, RevocationStarts
  <2>6. QED
    BY <1>1, <2>1, <2>2, <2>3, <2>4, <2>5 DEF UserAction
<1>2. ASSUME NEW p \in Procs, Serve(p) \/ Crash(p) PROVE Next
  BY <1>2 DEF Serve, Crash, Next
<1>3. ASSUME NEW g \in Groups, Receive(g) \/ Lose(g) PROVE UNCHANGED vars
  BY <1>3 DEF Receive, Lose, server, vars
<1>4. ASSUME NEW c \in Calls, Request_(c) \/ Handle(c) PROVE [Next]_vars
  <2>1. CASE Request_(c) \/ Retry(c)
    BY <2>1 DEF Request_, Retry, server, vars
  <2>2. CASE Join(c)
    <3>1. <<tab[c], "auto">> \in Groups
      BY DEF BrowserOK, Groups
    <3>2. CASE UNCHANGED server
      BY <3>2 DEF server, vars
    <3>3. CASE SendRefresh(<<tab[c], "auto">>)
      BY <3>1, <3>3, SendStarts
    <3>4. QED
      BY <2>2, <3>2, <3>3 DEF Join
  <2>3. CASE Reload(c)
    <3>1. <<tab[c], "load">> \in Groups
      BY DEF BrowserOK, Groups
    <3>2. QED
      BY <2>3, <3>1, SendStarts DEF Reload
  <2>4. QED
    BY <1>4, <2>1, <2>2, <2>3 DEF Handle
<1>5. CASE ExpireAccess
  BY <1>5 DEF ExpireAccess, server, vars
<1>6. CASE (CleanupTokens \/ Tick) /\ UNCHANGED client
  BY <1>6 DEF Next
<1>7. CASE UNCHANGED allVars
  BY <1>7 DEF allVars, vars
<1>8. CASE Elsewhere
  BY <1>8, RevocationStarts DEF Elsewhere
<1>9. QED
  BY <1>1, <1>2, <1>3, <1>4, <1>5, <1>6, <1>7, <1>8 DEF ClientNext

\* What Sent leaves behind when a request has been given to slot p, or been
\* answered at once.
LEMMA SentFlights ==
  ASSUME FlightsOK, NEW g \in Groups, NEW kind \in Kinds,
         NEW p \in Procs \cup {NoProc}, NEW answer \in {"pending", "failed", "ok"},
         Sent(g, kind, p, answer), g # User => kind = "refresh",
         issued' = issued,
         p # NoProc => /\ answer = "pending" /\ At(p, "idle")
                       /\ Serving(req'[p].step, kind),
         p = NoProc => kind = "logout" \/ answer # "ok",
         \A q \in Procs \ {p} : req'[q] = req[q],
         UNCHANGED tab,
         \A c \in Calls : call'[c] = "waiting" =>
             call[c] = "waiting" \/ g = <<tab[c], "auto">>,
         \A c \in Calls : <<tab[c], "auto">> \in Groups
  PROVE  FlightsOK'
<1>1. /\ ~Busy(g)
      /\ flight' = [flight EXCEPT ![g] = [kind |-> kind, slot |-> p, answer |-> answer,
                                          token |-> NoToken]]
  BY DEF Sent
<1>2. /\ flight'[g] = [kind |-> kind, slot |-> p, answer |-> answer, token |-> NoToken]
      /\ \A h \in Groups \ {g} : flight'[h] = flight[h]
      /\ flight' \in [Groups -> Flight \cup {NoFlight}]
  BY <1>1 DEF FlightsOK, Flight
<1>3. ASSUME NEW h \in Groups \ {g}, flight[h].slot # NoProc
      PROVE  flight[h].slot # p /\ flight[h].slot \in Procs
  BY <1>3, FlightShape, SlotsNotIdle
<1>4. FlightOK(g)'
  <2>1. g # User => flight'[g].kind \in {"none", "refresh"}
    BY <1>2
  <2>2. flight'[g].slot # NoProc => /\ flight'[g].answer = "pending"
                                    /\ Serving(req'[flight'[g].slot].step, flight'[g].kind)
    BY <1>2
  <2>3. ~(flight'[g].answer = "ok" /\ flight'[g].kind \in {"refresh", "login"})
    BY <1>2
  <2>4. QED
    BY <2>1, <2>2, <2>3 DEF FlightOK, Serving
<1>5. ASSUME NEW h \in Groups \ {g} PROVE FlightOK(h)'
  <2>1. FlightOK(h) /\ flight'[h] = flight[h]
    BY <1>2 DEF FlightsOK
  <2>2. flight[h].slot # NoProc => req'[flight[h].slot] = req[flight[h].slot]
    BY <1>3
  <2>3. QED
    BY <2>1, <2>2 DEF FlightOK, Serving
<1>6. \A h, k \in Groups : flight'[h].slot = flight'[k].slot /\ h # k => flight'[h].slot = NoProc
  BY <1>2, <1>3 DEF FlightsOK
<1>7. \A q \in Procs : At(q, "idle")' => req'[q] = Idle
  <2>1. p # NoProc => req'[p].step # "idle"
    BY DEF Serving
  <2>2. QED
    BY <2>1, NoProcAssumption DEF At, FlightsOK
<1>8. \A c \in Calls : call'[c] = "waiting" => flight'[<<tab'[c], "auto">>].kind = "refresh"
  <2> SUFFICES ASSUME NEW c \in Calls, call'[c] = "waiting"
               PROVE  flight'[<<tab[c], "auto">>].kind = "refresh"
    OBVIOUS
  <2>1. <<tab[c], "auto">> # User
    BY DEF User
  <2>2. CASE g = <<tab[c], "auto">>
    BY <1>2, <2>1, <2>2
  <2>3. CASE g # <<tab[c], "auto">>
    BY <1>2, <2>3 DEF FlightsOK
  <2>4. QED
    BY <2>2, <2>3
<1>9. QED
  BY <1>2, <1>4, <1>5, <1>6, <1>7, <1>8 DEF FlightsOK

\* Flights that stay as they are while the handlers do.
LEMMA FlightsKept ==
  ASSUME FlightsOK, UNCHANGED <<flight, req, tab>>, issued \subseteq issued',
         \A c \in Calls : call'[c] = "waiting" => flight[<<tab[c], "auto">>].kind = "refresh"
  PROVE  FlightsOK'
<1>1. ASSUME NEW g \in Groups PROVE FlightOK(g)'
  BY DEF FlightsOK, FlightOK, Serving
<1>2. QED
  BY <1>1 DEF FlightsOK, At

\* A flight that ends, with all calls that waited for it told.
LEMMA FlightEnds ==
  ASSUME FlightsOK, NEW g \in Groups, flight' = [flight EXCEPT ![g] = NoFlight],
         UNCHANGED <<req, tab, issued>>,
         \A c \in Calls : call'[c] = "waiting" => call[c] = "waiting" /\ g # <<tab[c], "auto">>,
         \A c \in Calls : <<tab[c], "auto">> \in Groups
  PROVE  FlightsOK'
<1>1. /\ flight'[g] = NoFlight
      /\ \A h \in Groups \ {g} : flight'[h] = flight[h]
      /\ flight' \in [Groups -> Flight \cup {NoFlight}]
  BY DEF FlightsOK
<1>2. FlightOK(g)'
  BY <1>1 DEF FlightOK, NoFlight, Serving
<1>3. ASSUME NEW h \in Groups \ {g} PROVE FlightOK(h)'
  <2>1. FlightOK(h)
    BY DEF FlightsOK
  <2>2. QED
    BY <1>1, <2>1 DEF FlightOK, Serving
<1>4. \A h, k \in Groups : flight'[h].slot = flight'[k].slot /\ h # k => flight'[h].slot = NoProc
  BY <1>1 DEF FlightsOK, NoFlight
<1>5. \A c \in Calls : call'[c] = "waiting" => flight'[<<tab'[c], "auto">>].kind = "refresh"
  BY <1>1 DEF FlightsOK
<1>6. QED
  BY <1>1, <1>2, <1>3, <1>4, <1>5 DEF FlightsOK, At

\* The groups the calls of a tab belong to.
LEMMA CallGroups ==
  ASSUME BrowserOK, NEW c \in Calls
  PROVE  <<tab[c], "auto">> \in Groups /\ <<tab[c], "load">> \in Groups
  BY DEF BrowserOK, Groups

\* Which requests there are, and the table's rows, while one is sent.
LEMMA RequestsBegin ==
  ASSUME IInv, FlightsOK, NEW p \in Procs, NEW u, NEW t, NEW step, Begin(p, step, u, t)
  PROVE  /\ At(p, "idle") /\ req'[p].step = step /\ req'[p].token = t
         /\ \A q \in Procs \ {p} : req'[q] = req[q]
  BY DEF Begin, IInv, TypeOK

\* The shape of calls after Resume.
LEMMA ResumeCalls ==
  ASSUME BrowserOK, NEW g \in Groups, NEW ok \in BOOLEAN, Resume(g, ok)
  PROVE  /\ call' \in [Calls -> Phases]
         /\ \A c \in Calls : call'[c] = "waiting" => call[c] = "waiting" /\ g # <<tab[c], "auto">>
<1>1. ASSUME NEW c \in Calls
      PROVE  /\ call'[c] \in {call[c], "retry", "reload", "failed", "new"}
             /\ call'[c] = "waiting" => call[c] = "waiting" /\ g # <<tab[c], "auto">>
  BY <1>1 DEF Resume
<1>2. call' = [c \in Calls |-> call'[c]]
  BY DEF Resume
<1>3. QED
  BY <1>1, <1>2 DEF BrowserOK, Phases

-----------------------------------------------------------------------------
(* Session requests are sent.                                              *)

\* The rows do not change but for revocations, no request that may touch the
\* cookie is added and no new cookie is sent: everything stays calm.
LEMMA CalmKept ==
  ASSUME Calm, UNCHANGED <<jar, issued, family>>, revoked \subseteq revoked',
         \A g \in Groups : Busy(g)' => Busy(g),
         \A g \in Groups : /\ Answered(g)' <=> Answered(g)
                           /\ Answered(g) => flight'[g].token = flight[g].token,
         \A q \in Procs : req'[q].step \in Asked =>
             /\ req[q].step \in Asked /\ req'[q].token = req[q].token
             /\ req'[q].step = "rotate" => req[q].step \in {"lookup", "rotate"}
             /\ req'[q].step \in {"lookup", "kill"} => req[q].step = req'[q].step
             /\ \A g \in Groups : flight[g].slot = q => flight'[g].slot = q
  PROVE  Calm'
<1>1. \A t : OnlyLive(t) => OnlyLive(t)'
  BY DEF OnlyLive
<1>2. (\A g, h \in Groups : Busy(g) /\ Busy(h) => g = h)'
  BY DEF Calm
<1>3. (\A p \in Procs : req[p].step \in Asked => \E g \in Groups : flight[g].slot = p)'
  BY DEF Calm
<1>4. (\A p \in Procs : req[p].step \in {"lookup", "rotate", "kill"} => req[p].token = jar)'
  BY DEF Calm, Asked
<1>5. (\A p \in Procs : At(p, "kill") => jar \in revoked)'
  BY DEF Calm, At, Asked
<1>6. (\A g \in Groups : Answered(g) => OnlyLive(flight[g].token))'
  <2>1. ASSUME NEW g \in Groups, Answered(g)' PROVE OnlyLive(flight[g].token)'
    <3>1. Answered(g)
      BY <2>1 DEF Answered
    <3>2. OnlyLive(flight[g].token) /\ flight'[g].token = flight[g].token
      BY <3>1 DEF Calm, Answered
    <3>3. QED
      BY <3>2 DEF OnlyLive
  <2>2. QED
    BY <2>1
<1>7. (jar # NoToken /\ (\A g \in Groups : ~Answered(g)) => OnlyLive(jar))'
  <2>1. ASSUME jar # NoToken, \A g \in Groups : ~Answered(g)' PROVE OnlyLive(jar)'
    <3>1. \A g \in Groups : ~Answered(g)
      BY <2>1 DEF Answered
    <3>2. OnlyLive(jar)
      BY <2>1, <3>1 DEF Calm
    <3>3. QED
      BY <3>2 DEF OnlyLive
  <2>2. QED
    BY <2>1
<1>8. QED
  BY <1>2, <1>3, <1>4, <1>5, <1>6, <1>7 DEF Calm

\* A request that does not overlap another finds nobody else at work with the
\* cookie, and the cookie all that is left of its session.
LEMMA NothingUnderWay ==
  ASSUME FlightsOK, ~mishap => Calm, ~mishap',
         NEW g \in Groups, NEW kind, NEW p, NEW answer, Sent(g, kind, p, answer)
  PROVE  /\ \A h \in Groups : ~Busy(h) /\ flight[h] = NoFlight
         /\ \A q \in Procs : req[q].step \notin Asked
         /\ jar # NoToken => OnlyLive(jar)
<1>1. \A h \in Groups : ~Busy(h)
  BY DEF Sent
<1>2. Calm
  BY DEF Sent
<1>3. \A h \in Groups : flight[h] = NoFlight /\ flight[h].slot = NoProc /\ ~Answered(h)
  BY <1>1, FlightShape DEF Answered
<1>4. QED
  BY <1>1, <1>2, <1>3, NoProcAssumption DEF Calm

LEMMA SentCalm ==
  ASSUME FlightsOK, ~mishap => Calm, ~mishap',
         NEW g \in Groups, NEW kind \in Kinds,
         NEW p \in Procs \cup {NoProc}, NEW answer \in {"pending", "failed", "ok"},
         Sent(g, kind, p, answer),
         UNCHANGED <<jar, issued, family, revoked>>,
         \A q \in Procs \ {p} : req'[q] = req[q],
         p # NoProc /\ req'[p].step \in {"lookup", "rotate", "kill"} => req'[p].token = jar,
         p # NoProc /\ req'[p].step = "kill" => jar \in revoked,
         answer = "ok" => kind = "logout"
  PROVE  Calm'
<1>1. /\ \A h \in Groups : ~Busy(h) /\ flight[h] = NoFlight
      /\ \A q \in Procs : req[q].step \notin Asked
      /\ jar # NoToken => OnlyLive(jar)
  BY NothingUnderWay
<1>2. /\ flight'[g] = [kind |-> kind, slot |-> p, answer |-> answer, token |-> NoToken]
      /\ \A h \in Groups \ {g} : flight'[h] = NoFlight
  BY <1>1 DEF Sent, FlightsOK
<1>3. (\A h, k \in Groups : Busy(h) /\ Busy(k) => h = k)'
  BY <1>2 DEF Busy, NoFlight
<1>4. \A q \in Procs : req'[q].step \in Asked => q = p
  BY <1>1
<1>5. (\A q \in Procs : req[q].step \in Asked => \E h \in Groups : flight[h].slot = q)'
  BY <1>2, <1>4
<1>6. /\ (\A q \in Procs : req[q].step \in {"lookup", "rotate", "kill"} => req[q].token = jar)'
      /\ (\A q \in Procs : At(q, "kill") => jar \in revoked)'
  BY <1>4, NoProcAssumption DEF Asked, At
<1>7. \A h \in Groups : ~Answered(h)'
  BY <1>2 DEF Answered, NoFlight
<1>8. (jar # NoToken => OnlyLive(jar))'
  BY <1>1 DEF OnlyLive
<1>9. QED
  BY <1>3, <1>5, <1>6, <1>7, <1>8 DEF Calm

\* A refresh is sent: by the calls of a tab or by its page load.
LEMMA SendRefreshOK ==
  ASSUME IInv, BrowserOK, FlightsOK, ~mishap => Calm,
         NEW g \in Groups, SendRefresh(g), UNCHANGED <<jar, tab>>,
         \A c \in Calls : call'[c] = "waiting" => call[c] = "waiting" \/ g = <<tab[c], "auto">>
  PROVE  FlightsOK' /\ (~mishap' => Calm') /\ mishap' \in BOOLEAN
<1>0. \A c \in Calls : <<tab[c], "auto">> \in Groups
  BY CallGroups
<1>1. ASSUME UNCHANGED server, Sent(g, "refresh", NoProc, "failed")
      PROVE  FlightsOK' /\ (~mishap' => Calm') /\ mishap' \in BOOLEAN
  <2>1. UNCHANGED <<issued, family, revoked, req>>
    BY <1>1 DEF server
  <2>2. FlightsOK'
    BY <1>0, <1>1, <2>1, SentFlights DEF Kinds
  <2>3. ~mishap' => Calm'
    BY <1>1, <2>1, SentCalm DEF Kinds
  <2>4. QED
    BY <1>1, <2>2, <2>3 DEF Sent, BrowserOK
<1>2. ASSUME NEW p \in Procs, jar # NoToken, Free(p), RotateRead(p, jar),
             IF req'[p] = Idle THEN Sent(g, "refresh", NoProc, "failed")
                               ELSE Sent(g, "refresh", p, "pending")
      PROVE  FlightsOK' /\ (~mishap' => Calm') /\ mishap' \in BOOLEAN
  <2>1. UNCHANGED <<active, issued, stored, revoked, owner, family, expires, now>>
    BY <1>2 DEF RotateRead, table
  <2>2. req[p] = Idle
    BY <1>2 DEF Free, FlightsOK
  <2>3. CASE req'[p] = Idle
    <3>1. req' = req
      <4>1. UNCHANGED req \/ req'[p].step \in {"lookup", "kill"}
        BY <1>2, RequestsBegin DEF RotateRead
      <4>2. QED
        BY <2>3, <4>1 DEF Idle
    <3>2. Sent(g, "refresh", NoProc, "failed")
      BY <1>2, <2>3
    <3>3. FlightsOK'
      BY <1>0, <2>1, <3>1, <3>2, SentFlights DEF Kinds
    <3>4. ~mishap' => Calm'
      BY <2>1, <3>1, <3>2, SentCalm DEF Kinds
    <3>5. QED
      BY <3>2, <3>3, <3>4 DEF Sent, BrowserOK
  <2>4. CASE req'[p] # Idle
    <3>1. Sent(g, "refresh", p, "pending")
      BY <1>2, <2>4
    <3>2. PICK step \in {"lookup", "kill"} :
             Begin(p, step, owner[jar], jar) /\ (step = "kill" => jar \in revoked)
      BY <1>2, <2>2, <2>4 DEF RotateRead
    <3>3. /\ At(p, "idle") /\ req'[p].step = step /\ req'[p].token = jar
          /\ \A q \in Procs \ {p} : req'[q] = req[q]
      BY <3>2, RequestsBegin
    <3>4. p # NoProc
      BY NoProcAssumption
    <3>5. Serving(req'[p].step, "refresh")
      BY <3>3 DEF Serving
    <3>6. FlightsOK'
      BY <1>0, <2>1, <3>1, <3>3, <3>4, <3>5, SentFlights DEF Kinds
    <3>7. ASSUME ~mishap' PROVE Calm'
      BY <2>1, <3>1, <3>2, <3>3, <3>7, SentCalm DEF Kinds
    <3>8. QED
      BY <3>1, <3>6, <3>7 DEF Sent, BrowserOK
  <2>5. QED
    BY <2>3, <2>4
<1>3. QED
  BY <1>1, <1>2 DEF SendRefresh

\* Logins, logouts and resets of the user.
LEMMA UserActionOK ==
  ASSUME IInv, BrowserOK, FlightsOK, ~mishap => Calm, UserAction
  PROVE  FlightsOK' /\ (~mishap' => Calm') /\ mishap' \in BOOLEAN
<1> User \in Groups
  BY DEF Groups
<1>0. /\ \A c \in Calls : <<tab[c], "auto">> \in Groups
      /\ UNCHANGED <<jar, tab, call>>
  BY CallGroups DEF UserAction
<1>1. ASSUME NEW p \in Procs, Free(p), NEW kind \in Kinds,
             NEW step, Serving(step, kind), kind # "refresh", NEW u, NEW t,
             Begin(p, step, u, t), Sent(User, kind, p, "pending"),
             UNCHANGED <<active, table, now>>
      PROVE  FlightsOK' /\ (~mishap' => Calm') /\ mishap' \in BOOLEAN
  <2>1. UNCHANGED <<issued, family, revoked>>
    BY <1>1 DEF table
  <2>2. /\ At(p, "idle") /\ req'[p].step = step
        /\ \A q \in Procs \ {p} : req'[q] = req[q]
    BY <1>1, RequestsBegin
  <2>3. p # NoProc /\ step \notin {"lookup", "rotate", "kill"}
    BY <1>1, NoProcAssumption DEF Serving
  <2>4. FlightsOK'
    BY <1>0, <1>1, <2>1, <2>2, <2>3, SentFlights
  <2>5. ~mishap' => Calm'
    BY <1>0, <1>1, <2>1, <2>2, <2>3, SentCalm
  <2>6. QED
    BY <1>1, <2>4, <2>5 DEF Sent, BrowserOK
<1>2. ASSUME NEW p \in Procs, NEW u \in Users, Free(p), LoginByCredential(p, u),
             Sent(User, "login", p, "pending")
      PROVE  FlightsOK' /\ (~mishap' => Calm') /\ mishap' \in BOOLEAN
  <2>1. Serving("issue", "login") /\ Begin(p, "issue", u, NoToken) /\ UNCHANGED <<active, table, now>>
    BY <1>2 DEF Serving, LoginByCredential
  <2>2. QED
    BY <1>1, <1>2, <2>1 DEF Kinds
<1>3. ASSUME NEW p \in Procs, Free(p), LogoutRead(p, jar), Sent(User, "logout", p, "pending")
      PROVE  FlightsOK' /\ (~mishap' => Calm') /\ mishap' \in BOOLEAN
  <2>1. /\ Serving("logout", "logout") /\ Begin(p, "logout", owner[jar], jar)
        /\ UNCHANGED <<active, table, now>>
    BY <1>3 DEF Serving, LogoutRead
  <2>2. QED
    BY <1>1, <1>3, <2>1 DEF Kinds
<1>4. ASSUME NEW p \in Procs, Free(p), RevokeAllBegin(p, owner[jar], "revokeAll"),
             Sent(User, "logoutAll", p, "pending")
      PROVE  FlightsOK' /\ (~mishap' => Calm') /\ mishap' \in BOOLEAN
  <2>1. /\ Serving("revokeAll", "logoutAll") /\ Begin(p, "revokeAll", owner[jar], NoToken)
        /\ UNCHANGED <<active, table, now>>
    BY <1>4 DEF Serving, RevokeAllBegin
  <2>2. QED
    BY <1>1, <1>4, <2>1 DEF Kinds
<1>5. ASSUME UNCHANGED server, Sent(User, "logout", NoProc, "ok")
      PROVE  FlightsOK' /\ (~mishap' => Calm') /\ mishap' \in BOOLEAN
  <2>1. UNCHANGED <<issued, family, revoked, req>>
    BY <1>5 DEF server
  <2>2. FlightsOK'
    BY <1>0, <1>5, <2>1, SentFlights DEF Kinds
  <2>3. ~mishap' => Calm'
    BY <1>0, <1>5, <2>1, SentCalm DEF Kinds
  <2>4. QED
    BY <1>5, <2>2, <2>3 DEF Sent, BrowserOK
<1>6. ASSUME NEW p \in Procs, NEW u \in Users, Free(p), RevokeAllBegin(p, u, "revokeAll"),
             Sent(User, "reset", p, "pending")
      PROVE  FlightsOK' /\ (~mishap' => Calm') /\ mishap' \in BOOLEAN
  <2>1. /\ Serving("revokeAll", "reset") /\ Begin(p, "revokeAll", u, NoToken)
        /\ UNCHANGED <<active, table, now>>
    BY <1>6 DEF Serving, RevokeAllBegin
  <2>2. QED
    BY <1>1, <1>6, <2>1 DEF Kinds
<1>7. QED
  BY <1>2, <1>3, <1>4, <1>5, <1>6 DEF UserAction

\* Sessions ended on another device: nothing of this browser's is touched.
LEMMA ElsewhereOK ==
  ASSUME IInv, BrowserOK, FlightsOK, ~mishap => Calm, Elsewhere
  PROVE  FlightsOK' /\ (~mishap' => Calm')
<1>1. /\ UNCHANGED <<jar, tab, call, flight, mishap>>
      /\ \E p \in Procs, u \in Users, step \in {"revokeAll", "erase"} :
           Free(p) /\ RevokeAllBegin(p, u, step)
  BY DEF Elsewhere
<1>2. PICK p \in Procs, u \in Users, step \in {"revokeAll", "erase"} :
         Free(p) /\ RevokeAllBegin(p, u, step)
  BY <1>1
<1>3. UNCHANGED <<issued, family, revoked>>
  BY <1>2 DEF RevokeAllBegin, table
<1>4. /\ At(p, "idle") /\ req'[p].step = step
      /\ \A q \in Procs \ {p} : req'[q] = req[q]
  BY <1>2, RequestsBegin DEF RevokeAllBegin
<1>5. \A g \in Groups : flight[g].slot # p
  BY <1>4, SlotsNotIdle
<1>6. FlightsOK'
  <2>1. ASSUME NEW g \in Groups PROVE FlightOK(g)'
    <3>1. FlightOK(g) /\ (flight[g].slot # NoProc => flight[g].slot \in Procs \ {p})
      BY <1>5, FlightShape DEF FlightsOK
    <3>2. QED
      BY <1>1, <1>3, <1>4, <3>1 DEF FlightOK, Serving
  <2>2. \A q \in Procs : At(q, "idle")' => req'[q] = Idle
    BY <1>4 DEF At, FlightsOK
  <2>3. QED
    BY <1>1, <2>1, <2>2 DEF FlightsOK
<1>7. Calm => Calm'
  <2>1. \A q \in Procs : req'[q].step \in Asked => req'[q] = req[q]
    BY <1>4 DEF Asked
  <2>2. QED
    BY <1>1, <1>3, <2>1, CalmKept DEF Busy, Answered, Asked
<1>8. QED
  BY <1>1, <1>6, <1>7

-----------------------------------------------------------------------------
(* Requests are served.                                                    *)

\* A step of a handler moves its own request, to the end but for the check of
\* the user in a rotation and the first commit of an erasure.
LEMMA StepRequest ==
  ASSUME IInv, NEW p \in Procs, Step(p)
  PROVE  /\ \A q \in Procs \ {p} : req'[q] = req[q]
         /\ ~At(p, "idle")
         /\ \/ req'[p] = Idle
            \/ At(p, "lookup") /\ req'[p].step = "rotate" /\ req'[p].token = req[p].token
            \/ At(p, "erase") /\ req'[p].step = "deactivate"
<1> USE DEF IInv, TypeOK
<1>1. CASE \E t \in Tokens : create_refresh_token(p, t) \/ RotateCommit(p, t)
  BY <1>1 DEF create_refresh_token, RotateCommit, Finish, At
<1>2. CASE RotateLookup(p)
  BY <1>2 DEF RotateLookup, Finish, GoTo, At
<1>3. CASE RevokeFamily(p) \/ LogoutCommit(p) \/ Deactivate(p)
  BY <1>3 DEF RevokeFamily, LogoutCommit, Deactivate, Finish, At
<1>4. CASE revoke_all_user_tokens(p)
  BY <1>4 DEF revoke_all_user_tokens, Finish, GoTo, At
<1>5. QED
  BY <1>1, <1>2, <1>3, <1>4 DEF Step

\* A step of a handler inserts a row, in a family of its own or in that of the
\* one row it revokes, or it inserts none.
LEMMA StepRows ==
  ASSUME IInv, NEW p \in Procs, Step(p)
  PROVE  \/ At(p, "issue") /\ \E t \in Tokens \ issued :
                /\ issued' = issued \cup {t} /\ family' = [family EXCEPT ![t] = t]
                /\ revoked' = revoked /\ req'[p] = Idle
         \/ At(p, "rotate") /\ \E t \in Tokens \ issued :
                /\ issued' = issued \cup {t}
                /\ family' = [family EXCEPT ![t] = family[req[p].token]]
                /\ revoked' = revoked \cup {req[p].token} /\ req'[p] = Idle
         \/ UNCHANGED <<issued, family>> /\ revoked \subseteq revoked'
<1>1. ASSUME NEW t \in Tokens, create_refresh_token(p, t)
      PROVE  /\ At(p, "issue") /\ revoked' = revoked /\ t \notin issued
             /\ issued' = issued \cup {t} /\ family' = [family EXCEPT ![t] = t] /\ req'[p] = Idle
  BY <1>1 DEF create_refresh_token, Insert, Finish, IInv, TypeOK
<1>2. ASSUME NEW t \in Tokens, RotateCommit(p, t)
      PROVE  \/ /\ At(p, "rotate") /\ revoked' = revoked \cup {req[p].token} /\ t \notin issued
                /\ issued' = issued \cup {t}
                /\ family' = [family EXCEPT ![t] = family[req[p].token]] /\ req'[p] = Idle
             \/ UNCHANGED <<issued, family, revoked>>
  BY <1>2 DEF RotateCommit, Insert, Finish, table, IInv, TypeOK
<1>3. CASE RotateLookup(p) \/ Deactivate(p)
  BY <1>3 DEF RotateLookup, Deactivate, table
<1>4. CASE RevokeFamily(p) \/ LogoutCommit(p) \/ revoke_all_user_tokens(p)
  BY <1>4 DEF RevokeFamily, LogoutCommit, revoke_all_user_tokens, Revoke
<1>5. CASE \E t \in Tokens : create_refresh_token(p, t) \/ RotateCommit(p, t)
  <2>1. PICK t \in Tokens : create_refresh_token(p, t) \/ RotateCommit(p, t)
    BY <1>5
  <2>2. CASE create_refresh_token(p, t)
    BY <1>1, <2>2
  <2>3. CASE RotateCommit(p, t)
    BY <1>2, <2>3
  <2>4. QED
    BY <2>1, <2>2, <2>3
<1>6. QED
  BY <1>3, <1>4, <1>5 DEF Step

\* The answer of a served request: the new token if a row was inserted.
LEMMA ServeAnswers ==
  ASSUME IInv, FlightsOK, NEW p \in Procs, Serve(p), NEW g \in Groups,
         flight[g].slot = p, req'[p] = Idle
  PROVE  /\ flight'[g] \in Flight
         /\ flight'[g].kind = flight[g].kind /\ flight'[g].slot = NoProc
         /\ flight'[g].answer \in {"ok", "failed"}
         /\ flight'[g].answer = "ok" => \/ issued' # issued
                                        \/ flight[g].kind \in Endings
         /\ flight'[g].answer = "failed" => issued' = issued
                                            /\ flight[g].kind \notin Endings
         /\ issued' # issued => flight'[g].token \in issued' \ issued
<1>0. Step(p) /\ \A t \in issued' \ issued : t = NextToken
  BY DEF Serve
<1>1. flight[g] \in Flight /\ p # NoProc
  BY NoProcAssumption, FlightShape DEF FlightsOK, NoFlight
<1>2. /\ issued' \subseteq Tokens
      /\ issued' # issued => NextToken \in issued' \ issued
  <2>1. IInv'
    BY <1>0, StepIInv
  <2>2. issued' = issued \/ \E t \in Tokens \ issued : issued' = issued \cup {t}
    BY <1>0, StepRows
  <2>3. QED
    BY <1>0, <2>1, <2>2 DEF IInv, TypeOK
<1>3. PICK a \in {"ok", "failed"} :
         a = IF issued' # issued \/ flight[g].kind \in Endings
             THEN "ok" ELSE "failed"
  OBVIOUS
<1>4. PICK k \in Tokens \cup {NoToken} : k = IF issued' # issued THEN NextToken ELSE NoToken
  BY <1>2
<1>5. flight'[g] = [flight[g] EXCEPT !.slot = NoProc, !.answer = a, !.token = k]
  <2>1. flight'[g] = IF flight[g].slot # p \/ req'[p] # Idle THEN flight[g]
         ELSE [flight[g] EXCEPT
                 !.slot = NoProc,
                 !.answer = IF issued' # issued \/ flight[g].kind \in Endings
                            THEN "ok" ELSE "failed",
                 !.token = IF issued' # issued THEN NextToken
                           ELSE NoToken]
    BY Zenon DEF Serve
  <2>2. QED
    BY <1>3, <1>4, <2>1, Zenon
<1>6. /\ flight'[g] \in Flight /\ flight'[g].kind = flight[g].kind
      /\ flight'[g].slot = NoProc /\ flight'[g].answer = a /\ flight'[g].token = k
  BY <1>1, <1>5 DEF Flight
<1>7. QED
  BY <1>2, <1>3, <1>4, <1>6

\* Everything else that a step of a handler leaves alone.
LEMMA ServeKeeps ==
  ASSUME IInv, FlightsOK, NEW p \in Procs, Serve(p), NEW g \in Groups,
         flight[g].slot # p \/ req'[p] # Idle
  PROVE  flight'[g] = flight[g]
<1>1. flight'[g] = IF flight[g].slot # p \/ req'[p] # Idle THEN flight[g]
         ELSE [flight[g] EXCEPT
                 !.slot = NoProc,
                 !.answer = IF issued' # issued \/ flight[g].kind \in Endings
                            THEN "ok" ELSE "failed",
                 !.token = IF issued' # issued THEN NextToken
                           ELSE NoToken]
  BY Zenon DEF Serve
<1>2. QED
  BY <1>1, Zenon

LEMMA ServeFlightsOK ==
  ASSUME IInv, BrowserOK, FlightsOK, NEW p \in Procs, Serve(p)
  PROVE  FlightsOK'
<1>0. /\ Step(p) /\ UNCHANGED <<tab, call>> /\ p # NoProc
      /\ flight' = [g \in Groups |-> flight'[g]]
      /\ issued \subseteq issued'
  <2>1. Step(p) /\ UNCHANGED <<tab, call>> /\ flight' = [g \in Groups |-> flight'[g]]
    BY Zenon DEF Serve
  <2>2. QED
    BY <2>1, NoProcAssumption, StepRows
<1>1. /\ \A q \in Procs \ {p} : req'[q] = req[q]
      /\ ~At(p, "idle")
      /\ \/ req'[p] = Idle
         \/ At(p, "lookup") /\ req'[p].step = "rotate" /\ req'[p].token = req[p].token
         \/ At(p, "erase") /\ req'[p].step = "deactivate"
  BY <1>0, StepRequest
<1>2. ASSUME NEW g \in Groups
      PROVE  /\ flight'[g] \in Flight \cup {NoFlight} /\ FlightOK(g)'
             /\ flight'[g].kind = flight[g].kind /\ flight'[g].slot \in {flight[g].slot, NoProc}
  <2>1. FlightOK(g) /\ flight[g] \in Flight \cup {NoFlight}
    BY DEF FlightsOK
  <2>2. CASE flight[g].slot = p /\ req'[p] = Idle
    <3>1. /\ flight'[g] \in Flight
          /\ flight'[g].kind = flight[g].kind /\ flight'[g].slot = NoProc
          /\ flight'[g].answer = "ok" => \/ issued' # issued
                                         \/ flight[g].kind \in Endings
          /\ issued' # issued => flight'[g].token \in issued'
      BY <2>2, ServeAnswers
    <3>2. QED
      BY <2>1, <3>1 DEF FlightOK, Endings
  <2>3. CASE flight[g].slot = p /\ req'[p] # Idle
    <3>1. flight'[g] = flight[g]
      BY <2>3, ServeKeeps
    <3>2. Serving(req[p].step, flight[g].kind) /\ flight[g].answer = "pending"
      BY <1>0, <2>1, <2>3 DEF FlightOK
    <3>3. Serving(req'[p].step, flight[g].kind)
      BY <1>1, <2>3, <3>2 DEF Serving, At
    <3>4. QED
      BY <2>1, <2>3, <3>1, <3>2, <3>3 DEF FlightOK
  <2>4. CASE flight[g].slot # p
    <3>1. flight'[g] = flight[g]
      BY <2>4, ServeKeeps
    <3>2. flight[g].slot # NoProc => req'[flight[g].slot] = req[flight[g].slot]
      BY <1>1, <2>4, FlightShape
    <3>3. QED
      BY <1>0, <2>1, <3>1, <3>2 DEF FlightOK, Serving
  <2>5. QED
    BY <2>2, <2>3, <2>4
<1>3. \A q \in Procs : At(q, "idle")' => req'[q] = Idle
  BY <1>1 DEF At, FlightsOK
<1>4. flight' \in [Groups -> Flight \cup {NoFlight}]
  BY <1>0, <1>2
<1>5. \A g, h \in Groups : flight'[g].slot = flight'[h].slot /\ g # h => flight'[g].slot = NoProc
  BY <1>2 DEF FlightsOK
<1>6. \A c \in Calls : call'[c] = "waiting" => flight'[<<tab'[c], "auto">>].kind = "refresh"
  BY <1>0, <1>2, CallGroups DEF FlightsOK
<1>7. QED
  BY <1>2, <1>3, <1>4, <1>5, <1>6 DEF FlightsOK

\* While nothing went wrong a handler either ends the sessions of an account,
\* or is the only one at work with the cookie; then what it revokes is the
\* cookie, whose successor is now on its way.
LEMMA ServeCalm ==
  ASSUME IInv, BrowserOK, FlightsOK, Calm, NEW p \in Procs, Serve(p)
  PROVE  Calm'
<1>0. Step(p) /\ UNCHANGED jar /\ p # NoProc
  <2>1. Step(p) /\ UNCHANGED jar
    BY Zenon DEF Serve
  <2>2. QED
    BY <2>1, NoProcAssumption
<1>1. /\ \A q \in Procs \ {p} : req'[q] = req[q]
      /\ ~At(p, "idle")
      /\ \/ req'[p] = Idle
         \/ At(p, "lookup") /\ req'[p].step = "rotate" /\ req'[p].token = req[p].token
         \/ At(p, "erase") /\ req'[p].step = "deactivate"
  BY <1>0, StepRequest
<1>2. Idle.step \notin Asked /\ "deactivate" \notin Asked /\ "erase" \notin Asked
  BY DEF Idle, Asked
<1>3. \A g \in Groups : flight[g].slot # p => flight'[g] = flight[g]
  BY ServeKeeps
<1>4. ASSUME NEW g \in Groups, flight[g].slot = p, req'[p] # Idle
      PROVE  flight'[g] = flight[g]
  BY <1>4, ServeKeeps
<1>5. ASSUME NEW g \in Groups, flight[g].slot = p, req'[p] = Idle
      PROVE  /\ flight'[g].kind = flight[g].kind
             /\ flight'[g].answer = "ok" => \/ issued' # issued
                                            \/ flight[g].kind \in Endings
             /\ flight'[g].answer = "failed" => issued' = issued
             /\ flight'[g].answer \in {"ok", "failed"}
             /\ issued' # issued => flight'[g].token \in issued' \ issued
  BY <1>0, <1>5, ServeAnswers
<1>6. \A g \in Groups : Busy(g)' => Busy(g)
  BY <1>3, <1>4, <1>5 DEF Busy
<1>7. \A g \in Groups : flight[g].slot = p =>
         /\ flight[g].answer = "pending" /\ ~Answered(g) /\ Busy(g)
         /\ Serving(req[p].step, flight[g].kind)
  BY <1>0, FlightShape DEF FlightsOK, FlightOK, Answered
<1>8. \A q \in Procs \ {p} : \A g \in Groups : flight[g].slot = q => flight'[g].slot = q
  BY <1>3
<1>9. CASE issued' = issued
  <2>1. UNCHANGED <<issued, family>> /\ revoked \subseteq revoked'
    <3>1. \A t \in Tokens \ issued : issued \cup {t} # issued
      OBVIOUS
    <3>2. QED
      BY <1>0, <1>9, <3>1, StepRows
  <2>2. \A g \in Groups : /\ Answered(g)' <=> Answered(g)
                          /\ Answered(g) => flight'[g].token = flight[g].token
    <3>1. ASSUME NEW g \in Groups, flight[g].slot = p, req'[p] = Idle
          PROVE  ~Answered(g)' /\ ~Answered(g)
      BY <1>5, <1>7, <1>9, <3>1 DEF Answered, Endings
    <3>2. ASSUME NEW g \in Groups, ~(flight[g].slot = p /\ req'[p] = Idle)
          PROVE  flight'[g] = flight[g]
      BY <1>3, <1>4, <3>2
    <3>3. ASSUME NEW g \in Groups, flight'[g] = flight[g]
          PROVE  Answered(g)' <=> Answered(g)
      BY <3>3 DEF Answered
    <3>4. QED
      BY <3>1, <3>2, <3>3 DEF Answered
  <2>3. \A q \in Procs : req'[q].step \in Asked =>
           /\ req[q].step \in Asked /\ req'[q].token = req[q].token
           /\ req'[q].step = "rotate" => req[q].step \in {"lookup", "rotate"}
           /\ req'[q].step \in {"lookup", "kill"} => req[q].step = req'[q].step
           /\ \A g \in Groups : flight[g].slot = q => flight'[g].slot = q
    <3> SUFFICES ASSUME NEW q \in Procs, req'[q].step \in Asked
                 PROVE  /\ req[q].step \in Asked /\ req'[q].token = req[q].token
                        /\ req'[q].step = "rotate" => req[q].step \in {"lookup", "rotate"}
                        /\ req'[q].step \in {"lookup", "kill"} => req[q].step = req'[q].step
                        /\ \A g \in Groups : flight[g].slot = q => flight'[g].slot = q
      OBVIOUS
    <3>1. CASE q # p
      BY <1>1, <1>8, <3>1
    <3>2. CASE q = p
      <4>1. At(p, "lookup") /\ req'[p].step = "rotate" /\ req'[p].token = req[p].token
        BY <1>1, <1>2, <3>2
      <4>2. req'[p] # Idle
        BY <4>1 DEF Idle
      <4>3. QED
        BY <1>4, <3>2, <4>1, <4>2 DEF At, Asked
    <3>3. QED
      BY <3>1, <3>2
  <2>4. QED
    BY <1>0, <1>6, <2>1, <2>2, <2>3, CalmKept
<1>10. CASE issued' # issued
  <2>1. PICK t \in Tokens \ issued :
           /\ issued' = issued \cup {t} /\ req'[p] = Idle
           /\ \/ At(p, "issue") /\ family' = [family EXCEPT ![t] = t] /\ revoked' = revoked
              \/ /\ At(p, "rotate") /\ family' = [family EXCEPT ![t] = family[req[p].token]]
                 /\ revoked' = revoked \cup {req[p].token}
    BY <1>0, <1>10, StepRows
  <2>2. req[p].step \in Asked
    BY <2>1 DEF At, Asked
  <2>3. PICK g \in Groups : flight[g].slot = p
    BY <2>2 DEF Calm
  <2>4. /\ flight'[g].answer = "ok" /\ flight'[g].kind = flight[g].kind
        /\ flight'[g].token = t
    BY <1>5, <1>10, <2>1, <2>3
  <2>5. flight[g].kind \in {"refresh", "login"} /\ Busy(g)
    BY <1>7, <2>1, <2>3 DEF Serving, At
  <2>6. \A h \in Groups \ {g} : ~Busy(h) /\ flight[h] = NoFlight /\ flight'[h] = NoFlight
    <3> SUFFICES ASSUME NEW h \in Groups \ {g}
                 PROVE  ~Busy(h) /\ flight[h] = NoFlight /\ flight'[h] = NoFlight
      OBVIOUS
    <3>1. ~Busy(h)
      BY <2>5 DEF Calm
    <3>2. flight[h] = NoFlight /\ flight[h].slot # p
      BY <1>0, <3>1, FlightShape
    <3>3. QED
      BY <1>3, <3>1, <3>2
  <2>7. \A q \in Procs : req'[q].step \notin Asked
    <3> SUFFICES ASSUME NEW q \in Procs, req'[q].step \in Asked PROVE FALSE
      OBVIOUS
    <3>1. q # p /\ req[q].step \in Asked
      BY <1>1, <1>2, <2>1
    <3>2. PICK h \in Groups : flight[h].slot = q
      BY <3>1 DEF Calm
    <3>3. QED
      BY <2>3, <2>6, <3>1, <3>2, NoProcAssumption DEF NoFlight
  <2>8. Answered(g)'
    BY <2>4, <2>5 DEF Answered
  <2>9. family \in [Tokens -> Tokens \cup {NoToken}] /\ issued \subseteq Tokens
    BY DEF IInv, TypeOK
  <2>10. OnlyLive(flight[g].token)'
    <3> SUFFICES ASSUME NEW s \in issued', family'[s] = family'[t], s # t
                 PROVE  s \in revoked'
      BY <2>4 DEF OnlyLive
    <3>1. s \in issued /\ family'[s] = family[s]
      BY <2>1, <2>9
    <3>2. CASE At(p, "issue")
      <4>1. family'[t] = t
        BY <2>1, <2>9, <3>2 DEF At
      <4>2. family[s] \in issued
        BY <3>1 DEF IInv, RowsOK
      <4>3. QED
        BY <2>1, <3>1, <4>1, <4>2
    <3>3. CASE At(p, "rotate")
      <4>1. family'[t] = family[req[p].token] /\ revoked' = revoked \cup {req[p].token}
        BY <2>1, <2>9, <3>3 DEF At
      <4>2. req[p].token = jar /\ jar \in issued /\ jar # NoToken
        BY <3>3, NullAssumption DEF Calm, At, IInv, TypeOK, RequestsOK
      <4>3. \A h \in Groups : ~Answered(h)
        BY <1>7, <2>3, <2>6 DEF Answered, NoFlight
      <4>4. OnlyLive(jar)
        BY <4>2, <4>3 DEF Calm
      <4>5. QED
        BY <3>1, <4>1, <4>2, <4>4 DEF OnlyLive
    <3>4. QED
      BY <2>1, <3>2, <3>3
  <2>11. (\A h, k \in Groups : Busy(h) /\ Busy(k) => h = k)'
    BY <2>6 DEF Busy, NoFlight
  <2>12. \A h \in Groups \ {g} : ~Answered(h)'
    BY <2>6 DEF Answered, NoFlight
  <2>13. QED
    BY <2>7, <2>8, <2>10, <2>11, <2>12 DEF Calm, Asked, At
<1>11. QED
  BY <1>9, <1>10

\* A handler that dies leaves its flight a failure.
LEMMA CrashOK ==
  ASSUME IInv, BrowserOK, FlightsOK, ~mishap => Calm, NEW p \in Procs, Crash(p)
  PROVE  FlightsOK' /\ (~mishap' => Calm')
<1>1. /\ req' = [req EXCEPT ![p] = Idle]
      /\ UNCHANGED <<issued, family, revoked, jar, tab, call, mishap>>
      /\ p # NoProc
  BY NoProcAssumption DEF Crash, Abort, Finish, table
<1>2. req'[p] = Idle /\ \A q \in Procs \ {p} : req'[q] = req[q]
  BY <1>1 DEF IInv, TypeOK
<1>3. /\ flight' = [g \in Groups |-> flight'[g]]
      /\ \A g \in Groups :
           flight'[g] = IF flight[g].slot = p
                        THEN [flight[g] EXCEPT !.slot = NoProc, !.answer = "failed"]
                        ELSE flight[g]
  BY DEF Crash
<1>4. ASSUME NEW g \in Groups, flight[g].slot = p
      PROVE  /\ flight'[g] \in Flight /\ flight'[g].kind = flight[g].kind
             /\ flight'[g].slot = NoProc /\ flight'[g].answer = "failed"
  <2>1. flight[g] \in Flight
    BY <1>1, <1>4, FlightShape
  <2>2. QED
    BY <1>3, <1>4, <2>1 DEF Flight
<1>5. ASSUME NEW g \in Groups
      PROVE  /\ flight'[g] \in Flight \cup {NoFlight} /\ FlightOK(g)'
             /\ flight'[g].kind = flight[g].kind /\ flight'[g].slot \in {flight[g].slot, NoProc}
  <2>1. FlightOK(g) /\ flight[g] \in Flight \cup {NoFlight}
    BY DEF FlightsOK
  <2>2. CASE flight[g].slot = p
    BY <1>4, <2>1, <2>2 DEF FlightOK
  <2>3. CASE flight[g].slot # p
    <3>1. flight'[g] = flight[g]
      BY <1>3, <2>3
    <3>2. flight[g].slot # NoProc => req'[flight[g].slot] = req[flight[g].slot]
      BY <1>2, <2>3, FlightShape
    <3>3. QED
      BY <1>1, <2>1, <3>1, <3>2 DEF FlightOK, Serving
  <2>4. QED
    BY <2>2, <2>3
<1>6. FlightsOK'
  <2>1. \A q \in Procs : At(q, "idle")' => req'[q] = Idle
    BY <1>2 DEF At, FlightsOK
  <2>2. flight' \in [Groups -> Flight \cup {NoFlight}]
    BY <1>3, <1>5
  <2>3. \A g, h \in Groups : flight'[g].slot = flight'[h].slot /\ g # h => flight'[g].slot = NoProc
    BY <1>5 DEF FlightsOK
  <2>4. \A c \in Calls : call'[c] = "waiting" => flight'[<<tab'[c], "auto">>].kind = "refresh"
    BY <1>1, <1>5, CallGroups DEF FlightsOK
  <2>5. QED
    BY <1>5, <2>1, <2>2, <2>3, <2>4 DEF FlightsOK
<1>7. ASSUME Calm PROVE Calm'
  <2>1. \A g \in Groups : flight[g].slot # p => flight'[g] = flight[g]
    BY <1>3
  <2>2. \A g \in Groups : Busy(g)' => Busy(g)
    BY <1>5 DEF Busy
  <2>3. \A g \in Groups : /\ Answered(g)' <=> Answered(g)
                          /\ Answered(g) => flight'[g].token = flight[g].token
    <3>1. ASSUME NEW g \in Groups, flight[g].slot = p PROVE ~Answered(g)' /\ ~Answered(g)
      BY <1>1, <1>4, <3>1, SlotsNotIdle DEF Answered
    <3>2. ASSUME NEW g \in Groups, flight'[g] = flight[g] PROVE Answered(g)' <=> Answered(g)
      BY <3>2 DEF Answered
    <3>3. QED
      BY <2>1, <3>1, <3>2 DEF Answered
  <2>4. \A q \in Procs : req'[q].step \in Asked => q # p /\ req'[q] = req[q]
    BY <1>2 DEF Idle, Asked
  <2>5. QED
    BY <1>1, <1>7, <2>1, <2>2, <2>3, <2>4, CalmKept DEF Asked
<1>8. QED
  BY <1>1, <1>6, <1>7

-----------------------------------------------------------------------------
(* Answers arrive or are lost, calls go on, time passes.                   *)

\* The answer brings the successor of the cookie, or takes the cookie away.
LEMMA ReceiveOK ==
  ASSUME IInv, BrowserOK, FlightsOK, ~mishap => Calm, NEW g \in Groups, Receive(g)
  PROVE  BrowserOK' /\ FlightsOK' /\ (~mishap' => Calm')
<1>1. /\ Busy(g) /\ flight[g].answer # "pending"
      /\ flight' = [flight EXCEPT ![g] = NoFlight]
      /\ UNCHANGED <<issued, family, revoked, req, tab, load, events, mishap>>
  BY DEF Receive, server
<1>2. PICK ok \in BOOLEAN : /\ ok <=> flight[g].answer = "ok"
                            /\ Resume(g, ok)
                            /\ access' \in BOOLEAN
                            /\ jar' = IF ok /\ flight[g].kind \in {"logout", "logoutAll"}
                                      THEN NoToken
                                      ELSE IF ok /\ flight[g].kind \in {"login", "refresh"}
                                      THEN flight[g].token ELSE jar
  <2>1. CASE flight[g].answer = "ok"
    BY <2>1 DEF Receive, BrowserOK
  <2>2. CASE flight[g].answer # "ok"
    BY <2>2 DEF Receive, BrowserOK
  <2>3. QED
    BY <2>1, <2>2
<1>3. /\ flight'[g] = NoFlight /\ \A h \in Groups \ {g} : flight'[h] = flight[h]
      /\ flight[g] \in Flight /\ flight[g].slot = NoProc
  BY <1>1, FlightShape, SlotsNotIdle DEF FlightsOK
<1>4. ok /\ flight[g].kind \in {"login", "refresh"} => flight[g].token \in issued
  BY <1>2, <1>3 DEF FlightsOK, FlightOK, Flight
<1>5. BrowserOK'
  <2>1. jar' \in issued' \cup {NoToken}
    BY <1>1, <1>2, <1>4 DEF BrowserOK
  <2>2. call' \in [Calls -> Phases]
    BY <1>2, ResumeCalls
  <2>3. QED
    BY <1>1, <1>2, <2>1, <2>2 DEF BrowserOK
<1>6. FlightsOK'
  BY <1>1, <1>2, ResumeCalls, CallGroups, FlightEnds
<1>7. ASSUME Calm PROVE Calm'
  <2>1. \A h \in Groups \ {g} : flight[h] = NoFlight
    BY <1>1, <1>7, FlightShape DEF Calm
  <2>2. \A h \in Groups : flight'[h] = NoFlight
    BY <1>3, <2>1
  <2>3. \A q \in Procs : req[q].step \notin Asked
    BY <1>3, <1>7, <2>1, NoProcAssumption DEF Calm, NoFlight
  <2>4. jar' # NoToken => OnlyLive(jar')
    <3>1. CASE Answered(g)
      BY <1>2, <1>7, <3>1 DEF Calm, Answered
    <3>2. CASE ~Answered(g)
      <4>1. \A h \in Groups : ~Answered(h)
        BY <2>1, <3>2 DEF Answered, NoFlight
      <4>2. jar' \in {jar, NoToken}
        BY <1>2, <3>2 DEF Answered
      <4>3. QED
        BY <1>7, <4>1, <4>2 DEF Calm
    <3>3. QED
      BY <3>1, <3>2
  <2>5. (jar # NoToken => OnlyLive(jar))'
    BY <1>1, <2>4 DEF OnlyLive
  <2>6. QED
    BY <1>1, <2>2, <2>3, <2>5 DEF Calm, NoFlight, Busy, Answered, Asked, At
<1>8. QED
  BY <1>1, <1>5, <1>6, <1>7

\* A lost answer is a mishap.
LEMMA LoseOK ==
  ASSUME BrowserOK, FlightsOK, NEW g \in Groups, Lose(g)
  PROVE  BrowserOK' /\ FlightsOK' /\ mishap'
<1>1. /\ flight' = [flight EXCEPT ![g] = NoFlight] /\ Resume(g, FALSE) /\ mishap' = TRUE
      /\ UNCHANGED <<issued, req, jar, access, tab, load>>
      /\ events < MaxEvents /\ events' = events + 1
  BY DEF Lose, Event, server
<1>2. BrowserOK'
  <2>1. call' \in [Calls -> Phases]
    BY <1>1, ResumeCalls
  <2>2. events' \in 0 .. MaxEvents
    BY <1>1, ClientBoundsAssumption DEF BrowserOK
  <2>3. QED
    BY <1>1, <2>1, <2>2 DEF BrowserOK
<1>3. FlightsOK'
  BY <1>1, ResumeCalls, CallGroups, FlightEnds
<1>4. QED
  BY <1>1, <1>2, <1>3

\* A call moves on by itself, or sends the refresh it waits for.
LEMMA CallOK ==
  ASSUME IInv, BrowserOK, FlightsOK, ~mishap => Calm,
         NEW c \in Calls, Request_(c) \/ Handle(c)
  PROVE  BrowserOK' /\ FlightsOK' /\ (~mishap' => Calm')
<1>1. PICK phase \in Phases : Go(c, phase) /\ (phase = "waiting" => Join(c))
  BY DEF Request_, Handle, Join, Retry, Reload, Phases
<1>2. /\ call' \in [Calls -> Phases]
      /\ \A d \in Calls : call'[d] = "waiting" => call[d] = "waiting" \/ (d = c /\ Join(c))
  BY <1>1 DEF Go, BrowserOK
<1>3. UNCHANGED <<jar, access, tab, events>> /\ load' \in [Calls -> BOOLEAN]
  BY DEF Request_, Handle, Join, Retry, Reload, BrowserOK
<1>4. \A d \in Calls : <<tab[d], "auto">> \in Groups /\ <<tab[d], "load">> \in Groups
  BY CallGroups
<1>5. CASE UNCHANGED <<server, flight, mishap>>
  <2>1. UNCHANGED <<issued, family, revoked, req, flight, mishap>>
    BY <1>5 DEF server
  <2>2. \A d \in Calls : call'[d] = "waiting" => flight[<<tab[d], "auto">>].kind = "refresh"
    <3> SUFFICES ASSUME NEW d \in Calls, call'[d] = "waiting"
                 PROVE  flight[<<tab[d], "auto">>].kind = "refresh"
      OBVIOUS
    <3>1. CASE call[d] = "waiting"
      BY <3>1 DEF FlightsOK
    <3>2. CASE d = c /\ Join(c)
      <4> DEFINE g == <<tab[c], "auto">>
      <4>1. Busy(g)
        <5>1. Busy(g) \/ SendRefresh(g)
          BY <3>2 DEF Join
        <5>2. ASSUME SendRefresh(g), ~Busy(g) PROVE flight' # flight
          <6>1. PICK p \in Procs \cup {NoProc}, answer \in {"pending", "failed"} :
                   Sent(g, "refresh", p, answer)
            BY <5>2 DEF SendRefresh
          <6>2. flight'[g].kind = "refresh"
            BY <1>4, <6>1 DEF Sent, FlightsOK
          <6>3. QED
            BY <5>2, <6>2 DEF Busy
        <5>3. QED
          BY <5>1, <5>2, <2>1
      <4>2. g # User
        BY DEF User
      <4>3. QED
        BY <1>4, <3>2, <4>1, <4>2 DEF FlightsOK, FlightOK, Busy
    <3>3. QED
      BY <1>2, <3>1, <3>2
  <2>3. FlightsOK'
    BY <1>3, <2>1, <2>2, FlightsKept
  <2>4. BrowserOK'
    BY <1>2, <1>3, <2>1 DEF BrowserOK
  <2>5. Calm => Calm'
    BY <1>3, <2>1, CalmKept DEF Busy, Answered, Asked
  <2>6. QED
    BY <2>1, <2>3, <2>4, <2>5
<1>6. ASSUME NEW g \in Groups, SendRefresh(g),
             \A d \in Calls : call'[d] = "waiting" => call[d] = "waiting" \/ g = <<tab[d], "auto">>
      PROVE  BrowserOK' /\ FlightsOK' /\ (~mishap' => Calm')
  <2>1. FlightsOK' /\ (~mishap' => Calm') /\ mishap' \in BOOLEAN
    BY <1>3, <1>6, SendRefreshOK
  <2>2. UNCHANGED issued
    BY <1>6 DEF SendRefresh, RotateRead, server, table
  <2>3. QED
    BY <1>2, <1>3, <2>1, <2>2 DEF BrowserOK
<1>7. CASE Join(c)
  <2>1. UNCHANGED <<server, flight, mishap>> \/ SendRefresh(<<tab[c], "auto">>)
    BY <1>7 DEF Join
  <2>2. QED
    BY <1>2, <1>4, <1>5, <1>6, <2>1
<1>8. CASE ~Join(c) /\ Reload(c)
  <2>1. SendRefresh(<<tab[c], "load">>)
    BY <1>8 DEF Reload
  <2>2. QED
    BY <1>2, <1>4, <1>6, <1>8, <2>1
<1>9. CASE Request_(c) \/ Retry(c)
  BY <1>5, <1>9 DEF Request_, Retry
<1>10. QED
  BY <1>7, <1>8, <1>9 DEF Handle

\* The access token expires, the GC runs, the clock ticks.
LEMMA OthersOK ==
  ASSUME IInv, BrowserOK, FlightsOK, ~mishap => Calm,
         \/ ExpireAccess
         \/ (CleanupTokens \/ Tick) /\ UNCHANGED client
         \/ UNCHANGED allVars
  PROVE  BrowserOK' /\ FlightsOK' /\ (~mishap' => Calm')
<1>1. /\ UNCHANGED <<issued, family, revoked, req, jar, tab, load, call, flight, events, mishap>>
      /\ access' \in BOOLEAN
  BY DEF ExpireAccess, CleanupTokens, Tick, client, server, table, allVars, BrowserOK
<1>2. FlightsOK'
  BY <1>1, FlightsKept DEF FlightsOK
<1>3. BrowserOK'
  BY <1>1 DEF BrowserOK
<1>4. Calm => Calm'
  BY <1>1, CalmKept DEF Busy, Answered, Asked
<1>5. QED
  BY <1>1, <1>2, <1>3, <1>4

-----------------------------------------------------------------------------
(* The theorems.                                                           *)

LEMMA ClientInitIInv == ClientInit => ClientIInv
<1> SUFFICES ASSUME ClientInit PROVE ClientIInv
  OBVIOUS
<1>1. IInv /\ issued = {jar} \ {NoToken} /\ req = [p \in Procs |-> Idle]
  <2>1. CASE Init /\ jar = NoToken
    BY <2>1, InitIInv DEF Init
  <2>2. CASE ~(Init /\ jar = NoToken)
    <3>1. PICK u \in Users :
             /\ jar = FirstToken
             /\ issued = {jar} /\ stored = {jar} /\ revoked = {}
             /\ owner = [t \in Tokens |-> IF t = jar THEN u ELSE NoUser]
             /\ family = [t \in Tokens |-> IF t = jar THEN jar ELSE NoToken]
             /\ expires = [t \in Tokens |-> IF t = jar THEN Lifetime ELSE 0]
             /\ active = [v \in Users |-> TRUE]
             /\ req = [p \in Procs |-> Idle]
             /\ now = 0
      BY <2>2 DEF ClientInit
    <3>2. jar \in Tokens
      BY <3>1, SomeTokenAssumption DEF FirstToken
    <3>3. TypeOK
      BY <3>1, <3>2, LifetimeAssumption DEF TypeOK, Request, Steps, Idle
    <3>4. RowsOK
      BY <3>1, <3>2 DEF RowsOK
    <3>5. RequestsOK
      BY <3>1 DEF RequestsOK, Idle
    <3>6. QED
      BY <3>1, <3>2, <3>3, <3>4, <3>5, NullAssumption DEF IInv
  <2>3. QED
    BY <2>1, <2>2
<1>2. /\ flight = [g \in Groups |-> NoFlight]
      /\ call = [c \in Calls |-> "new"]
      /\ access = FALSE /\ events = 0 /\ mishap = FALSE
      /\ tab \in [Calls -> Tabs] /\ load \in [Calls -> BOOLEAN]
  BY DEF ClientInit
<1>3. BrowserOK
  <2>1. 0 \in 0 .. MaxEvents
    BY ClientBoundsAssumption
  <2>2. call \in [Calls -> Phases]
    BY <1>2 DEF Phases
  <2>3. QED
    BY <1>1, <1>2, <2>1, <2>2 DEF BrowserOK
<1>4. FlightsOK
  BY <1>1, <1>2, CallGroups DEF FlightsOK, FlightOK, NoFlight, Serving, At
<1>5. Calm
  BY <1>1, <1>2 DEF Calm, NoFlight, Busy, Answered, OnlyLive, Asked, At, Idle
<1>6. QED
  BY <1>1, <1>3, <1>4, <1>5 DEF ClientIInv

\* The inductive step.
LEMMA ClientNextIInv == ClientIInv /\ [ClientNext]_allVars => ClientIInv'
<1> SUFFICES ASSUME ClientIInv, [ClientNext]_allVars PROVE ClientIInv'
  OBVIOUS
<1> USE DEF ClientIInv
<1>1. [Next]_vars /\ IInv'
  BY ClientStepsAreNext, NextIInv
<1>2. issued \subseteq issued'
  BY <1>1, OldRows
<1>3. CASE UserAction
  <2>1. /\ UNCHANGED <<jar, access, tab, load, call>>
        /\ events < MaxEvents /\ events' = events + 1
    BY <1>3 DEF UserAction, Event
  <2>2. events' \in 0 .. MaxEvents
    BY <2>1, ClientBoundsAssumption DEF BrowserOK
  <2>3. FlightsOK' /\ (~mishap' => Calm') /\ mishap' \in BOOLEAN
    BY <1>3, UserActionOK
  <2>4. BrowserOK'
    BY <1>2, <2>1, <2>2, <2>3 DEF BrowserOK
  <2>5. QED
    BY <1>1, <2>3, <2>4
<1>4. ASSUME NEW p \in Procs, Serve(p) PROVE ClientIInv'
  <2>1. UNCHANGED <<jar, access, tab, load, call, events, mishap>>
    BY <1>4, Zenon DEF Serve
  <2>2. BrowserOK'
    BY <1>2, <2>1 DEF BrowserOK
  <2>3. QED
    BY <1>1, <1>4, <2>1, <2>2, ServeFlightsOK, ServeCalm
<1>5. ASSUME NEW p \in Procs, Crash(p) PROVE ClientIInv'
  <2>1. /\ UNCHANGED <<jar, access, tab, load, call, mishap>>
        /\ events < MaxEvents /\ events' = events + 1
    BY <1>5 DEF Crash, Event
  <2>2. events' \in 0 .. MaxEvents
    BY <2>1, ClientBoundsAssumption DEF BrowserOK
  <2>3. BrowserOK'
    BY <1>2, <2>1, <2>2 DEF BrowserOK
  <2>4. QED
    BY <1>1, <1>5, <2>3, CrashOK
<1>6. ASSUME NEW g \in Groups, Receive(g) \/ Lose(g) PROVE ClientIInv'
  BY <1>1, <1>6, ReceiveOK, LoseOK
<1>7. ASSUME NEW c \in Calls, Request_(c) \/ Handle(c) PROVE ClientIInv'
  BY <1>1, <1>7, CallOK
<1>8. CASE ExpireAccess \/ ((CleanupTokens \/ Tick) /\ UNCHANGED client) \/ UNCHANGED allVars
  BY <1>1, <1>8, OthersOK
<1>9. CASE Elsewhere
  <2>1. /\ UNCHANGED <<jar, access, tab, load, call, mishap>>
        /\ events < MaxEvents /\ events' = events + 1
    BY <1>9 DEF Elsewhere, Event
  <2>2. events' \in 0 .. MaxEvents
    BY <2>1, ClientBoundsAssumption DEF BrowserOK
  <2>3. BrowserOK'
    BY <1>2, <2>1, <2>2 DEF BrowserOK
  <2>4. QED
    BY <1>1, <1>9, <2>3, ElsewhereOK
<1>10. QED
  BY <1>3, <1>4, <1>5, <1>6, <1>7, <1>8, <1>9 DEF ClientNext

\* Every reachable state satisfies the strengthened invariant.
THEOREM ClientInductive == ClientSpec => []ClientIInv
  BY ClientInitIInv, ClientNextIInv, PTL DEF ClientSpec

\* Type correctness of the browser, its session requests and the table: a call
\* that waits has a refresh to wait for, and no two requests share a slot.
THEOREM ClientTypeCorrect == ClientSpec => []ClientTypeOK
<1>1. ClientIInv => ClientTypeOK
  BY DEF ClientIInv, IInv, BrowserOK, FlightsOK, ClientTypeOK
<1>2. QED
  BY <1>1, ClientInductive, PTL

\* A session that still works is lost to reuse detection only after a mishap,
\* whatever the number of tabs, calls and requests, and whatever resets and
\* revocations from elsewhere leave a revoked token in the cookie.
THEOREM HonestBrowser == ClientSpec => []NoSessionLostToReuse
<1>1. ClientIInv => NoSessionLostToReuse
  <2> SUFFICES ASSUME ClientIInv, ~mishap, NEW p \in Procs, At(p, "kill"),
                      NEW t \in FamilyOf(family[req[p].token])
               PROVE  t \in revoked
    BY DEF NoSessionLostToReuse
  <2>1. Calm /\ FlightsOK /\ req[p].token = jar /\ jar \in revoked
    BY DEF ClientIInv, Calm, At
  <2>2. jar \in issued /\ jar # NoToken
    BY <2>1, NullAssumption DEF ClientIInv, IInv, TypeOK, RequestsOK, At
  <2>3. PICK g \in Groups : flight[g].slot = p
    BY <2>1 DEF Calm, At, Asked
  <2>4. flight[g].answer = "pending" /\ Busy(g)
    BY <2>1, <2>3, SlotsNotIdle, FlightShape, NoProcAssumption
  <2>5. \A h \in Groups : ~Answered(h)
    <3> SUFFICES ASSUME NEW h \in Groups, Answered(h) PROVE FALSE
      OBVIOUS
    <3>1. Busy(h) /\ h # g
      BY <2>4 DEF Answered, Busy
    <3>2. QED
      BY <2>1, <2>4, <3>1 DEF Calm
  <2>6. OnlyLive(jar)
    BY <2>1, <2>2, <2>5 DEF Calm
  <2>7. QED
    BY <2>1, <2>6 DEF OnlyLive, FamilyOf
<1>2. QED
  BY <1>1, ClientInductive, PTL

\* The browser drives the table by the requests that RefreshTokens models and by
\* nothing else, so what is proved of each step of the table holds under it.
THEOREM BrowserStepsAreRequests == ClientSpec => [][Next]_vars
<1>1. ClientIInv /\ [ClientNext]_allVars => [Next]_vars
  BY ClientStepsAreNext DEF ClientIInv
<1>2. QED
  BY <1>1, ClientInductive, PTL DEF ClientSpec

\* A browser's sessions never mix two accounts either.
THEOREM BrowserOneOwner == ClientSpec => []FamilyHasOneOwner
<1>1. ClientIInv => FamilyHasOneOwner
  BY DEF ClientIInv, IInv, RowsOK, FamilyHasOneOwner
<1>2. QED
  BY <1>1, ClientInductive, PTL
=============================================================================
