--------------------------- MODULE MCSummaryView ---------------------------
(* Small instance of SummaryView for TLC. *)
EXTENDS SummaryView
=============================================================================
