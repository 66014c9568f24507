---------------------------- MODULE MCMagicLinks ----------------------------
(* Small instances of MagicLinks for TLC. *)
EXTENDS MagicLinks, TLC

CONSTANT SocialTime   \* bound on the clock once somebody came from a provider

\* Logins through a provider meet one link; two links are for behaviours without.
Few ==
    vouched # {} =>
        /\ now <= SocialTime
        /\ \A l1, l2 \in Links : to[l1] # NoEmail /\ to[l2] # NoEmail => l1 = l2

MCSpec == Init /\ [][Next /\ Few']_vars

Symmetry == Permutations(Emails) \cup Permutations(Links) \cup Permutations(Procs)
            \cup Permutations(Subjects)
=============================================================================
