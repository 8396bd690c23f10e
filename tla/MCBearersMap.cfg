SPECIFICATION SpecBearers
CONSTANTS
  u1 = u1  u2 = u2  u3 = u3  g = g  h = h
  Ues = {u1, u2, u3}
  Groups = {g}
  Plans <- OneGroup
INVARIANTS TxMapHoldsTxOnly
CHECK_DEADLOCK FALSE
