SPECIFICATION FairSpec
CONSTANTS
  Cabins = {c1}
  Owners = {o1, o2}
  Staff = {o2}
  HoldIds = {h1, h2}
  BookingIds = {b1}
  None = None
  MaxCabins = 2
  MaxFlights = 1
  MaxReplays = 1
  Features = {"reconcile"}
PROPERTY LapsedHoldIsReclaimed
CHECK_DEADLOCK FALSE
