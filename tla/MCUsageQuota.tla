---------------------------- MODULE MCUsageQuota ----------------------------
(* Small instances of UsageQuota for TLC. *)
EXTENDS UsageQuota, TLC

Symmetry == Permutations(Procs)
=============================================================================
