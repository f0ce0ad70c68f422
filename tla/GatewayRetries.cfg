SPECIFICATION FairSpec
CONSTANTS
  Payments = {p1, p2}
  Slots = {s1, s2}
  None = None
  MinDeposit = 1
  Total = 2
  OddAmounts = {3}
  MaxCredit = 1
  SecondPage = FALSE
  Bypass = TRUE
  MaxCrashes = 1
INVARIANT TypeOK OneBookingPerIntent NeverSilent
PROPERTY PaymentsAreAnswered
CHECK_DEADLOCK FALSE
