------------------------------- MODULE MCChat -------------------------------
(* Small instance of Chat for TLC. *)
EXTENDS Chat
=============================================================================
