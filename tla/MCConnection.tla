---------------------------- MODULE MCConnection ----------------------------
(* Model-checking instance of LteConnection. *)
EXTENDS LteConnection
=============================================================================
