SPECIFICATION Spec
CONSTANTS
  Requests = {r1, r2}
  Cashouts = {q1, q2}
  None = None
  MaxIssued = 3
  OpenAnytime = FALSE
  MaxUses = 2
  PerUserLimit = 1
SYMMETRY Symmetric
INVARIANT TypeOK WalletConserved CashoutCovered CouponWithinLimits
