--------------------------- MODULE MCTokenClient ---------------------------
(* Small instance of TokenClient for TLC. *)
EXTENDS TokenClient
=============================================================================
