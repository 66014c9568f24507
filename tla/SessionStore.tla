---------------------------- MODULE SessionStore ----------------------------
(***************************************************************************)
(* What the backend promises about login sessions, without saying how.     *)
(* A session is opened for one user, may be ended at any time (logout,     *)
(* logout everywhere, password reset, reuse detection, account erasure,    *)
(* expiry), several at once, and an ended session never opens again: only  *)
(* a new login gives the user a new session.                               *)
(***************************************************************************)
CONSTANTS Sessions, Users, NoUser

VARIABLES phase,   \* phase[s]: has session s not begun, is it open, or ended?
          holder   \* holder[s]: the user the session was opened for

vars == <<phase, holder>>

TypeOK ==
    /\ phase \in [Sessions -> {"none", "open", "ended"}]
    /\ holder \in [Sessions -> Users \cup {NoUser}]

Init ==
    /\ phase = [s \in Sessions |-> "none"]
    /\ holder = [s \in Sessions |-> NoUser]

Open(s, u) ==
    /\ phase[s] = "none"
    /\ phase' = [phase EXCEPT ![s] = "open"]
    /\ holder' = [holder EXCEPT ![s] = u]

End(S) ==
    /\ \A s \in S : phase[s] = "open"
    /\ phase' = [s \in Sessions |-> IF s \in S THEN "ended" ELSE phase[s]]
    /\ UNCHANGED holder

Next ==
    \/ \E s \in Sessions, u \in Users : Open(s, u)
    \/ \E S \in SUBSET Sessions : End(S)

Spec == Init /\ [][Next]_vars
=============================================================================
