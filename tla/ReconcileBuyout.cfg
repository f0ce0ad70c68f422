SPECIFICATION Spec
CONSTANTS
  Cabins = {c1, c2}
  Owners = {o1, o2}
  Staff = {o2}
  HoldIds = {h1,h2}
  BookingIds = {b1,b2}
  None = None
  MaxCabins = 2
  MaxFlights = 2
  MaxReplays = 0
  Features = {"reconcile"}
SYMMETRY Symmetric
INVARIANT BuyoutExclusive
CHECK_DEADLOCK FALSE
