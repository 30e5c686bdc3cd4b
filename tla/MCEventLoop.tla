---------------------------- MODULE MCEventLoop -----------------------------
(* One worker and its clients. *)
EXTENDS EventLoop
=============================================================================
