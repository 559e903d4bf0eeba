------------------------------ MODULE MCIngest ------------------------------
(* Small instances of Ingest. *)
EXTENDS Ingest, MCCommands

EditLook == {Edit, Look}
=============================================================================
