---------------------------- MODULE MCSummaries ----------------------------
(* Small instances of Summaries. *)
EXTENDS Summaries
=============================================================================
