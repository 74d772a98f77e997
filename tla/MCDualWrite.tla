----------------------------- MODULE MCDualWrite ----------------------------
(* DualWrite on a small instance: one blob, two requests. *)
EXTENDS DualWrite
=============================================================================
