---------------------------- MODULE MCPublishing ----------------------------
(* Small instances of Publishing: see publishing.cfg and                   *)
(* publishing_again.cfg.                                                   *)
EXTENDS Publishing
=============================================================================
