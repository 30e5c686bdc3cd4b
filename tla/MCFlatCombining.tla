--------------------------- MODULE MCFlatCombining --------------------------
(* The flat-combining executor on a small number of threads. *)
EXTENDS FlatCombining
=============================================================================
