SPECIFICATION Spec
CONSTANTS
  Cabins = {c1}
  Owners = {o1, o2}
  Staff = {o2}
  HoldIds = {h1, h2}
  BookingIds = {b1, b2, b3}
  None = None
  MaxCabins = 2
  MaxFlights = 1
  MaxReplays = 0
  Features = {"release", "openSeat", "host"}
SYMMETRY Symmetric
INVARIANT ClosedRowsShareOnlyByJoin
CHECK_DEADLOCK FALSE
