---------------------------- MODULE SessionClaims ----------------------------
(***************************************************************************)
(* What services/auth.py says of revoke-all, against what the handlers of  *)
(* RefreshTokens do.  A history variable remembers which sessions existed  *)
(* when a revoke-all committed; the steps are those of RefreshTokens,      *)
(* unchanged.                                                              *)
(***************************************************************************)
EXTENDS RefreshTokens

VARIABLE closed   \* families alive when a revoke-all of their user committed

ClaimInit == Init /\ closed = {}

RevokeAll(p) ==
    /\ revoke_all_user_tokens(p)
    /\ closed' = closed \cup {family[t] : t \in {x \in issued : owner[x] = req[p].user}}

ClaimNext ==
    \/ \E p \in Procs : RevokeAll(p)
    \/ Next /\ UNCHANGED closed

ClaimSpec == ClaimInit /\ [][ClaimNext]_<<vars, closed>>

\* services/auth.py:124 "Revoke all refresh tokens so all existing sessions are
\* invalidated": no session that existed when the revoke-all committed can
\* still be refreshed.
ExistingSessionsInvalidated ==
    \A t \in issued : Usable(t) => family[t] \notin closed
=============================================================================
