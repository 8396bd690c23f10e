--------------------------- MODULE MCTransmitter ----------------------------
(* Model-checking instance of LteRlcUmTransmitter. *)
EXTENDS LteRlcUmTransmitter
=============================================================================
