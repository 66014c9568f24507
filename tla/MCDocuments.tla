---------------------------- MODULE MCDocuments ----------------------------
(* Small instances of Documents for TLC. *)
EXTENDS Documents, TLC

Symmetry ==
    Permutations(Users) \cup Permutations(Keys) \cup Permutations(Docs)
        \cup Permutations(Items) \cup Permutations(Procs)
=============================================================================
