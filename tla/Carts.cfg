SPECIFICATION Spec
CONSTANTS
  Cabins = {c1, c2}
  Tokens = {g1, g2, g3}
  MaxHolds = 2
  TTL = 3
  Ext = 1
  Grace = 1
  None = None
  Scenarios <- Carts
SYMMETRY Symmetric
INVARIANT TypeOK OneCountdown CountdownIsHonest CapRespected
CHECK_DEADLOCK FALSE
