----------------------------- MODULE MCBearers ------------------------------
(* Model-checking instance of NrSlBearers: the scenario of                  *)
(* scratch/simulator/main.cc, and a bidirectional template in its place.    *)
EXTENDS NrSlBearers

CONSTANTS u1, u2, u3, g, h

Tft(d, id) == [dir |-> d, dst |-> id]

MainPlan == <<Tft("TRANSMIT", g), Tft("RECEIVE", g)>>
OneGroup  == {MainPlan, <<Tft("BIDIRECTIONAL", g)>>}
TwoGroups == {<<Tft("BIDIRECTIONAL", g), Tft("BIDIRECTIONAL", h)>>}
=============================================================================
