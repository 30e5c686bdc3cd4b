---------------------------- MODULE MCPersistence ---------------------------
(* Recovery of the application's memory on a few lines and batches. *)
EXTENDS Persistence
=============================================================================
