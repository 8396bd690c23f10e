----------------------------- MODULE MCHandover -----------------------------
(* Model-checking instance of LteHandover. *)
EXTENDS LteHandover
=============================================================================
