---------------------------- MODULE MCReordering ----------------------------
(* Model-checking instance of LteRlcUmReordering. *)
EXTENDS LteRlcUmReordering

\* PDUs told apart by their numbers alone.
Numbered == [sn : SnValue]
=============================================================================
