------------------------------ MODULE MCAmLink ------------------------------
(* Model-checking instance of LteRlcAmLink. *)
EXTENDS LteRlcAmLink
=============================================================================
