---------------------------- MODULE MCSimulator ----------------------------
(* Model-checking instances of DefaultSimulatorImpl. *)
EXTENDS DefaultSimulatorImpl
=============================================================================
