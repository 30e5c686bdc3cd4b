----------------------------- MODULE MCStartup ------------------------------
(* Model-checking root of Startup. *)
EXTENDS Startup
=============================================================================
