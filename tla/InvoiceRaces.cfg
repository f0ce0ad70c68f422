SPECIFICATION Spec
CONSTANTS
  Accounts = {s1, s2, s3}
  Customer = customer
  None = None
  Total = 2
  CommissionPct = 50
  RefundPcts = {100}
  Credits = {0, 2}
  MaxReceipts = 0
  MaxRefunds = 1
  MaxFlights = 2
  Serial = FALSE
  Joinable = FALSE
SYMMETRY Symmetric
INVARIANT TypeOK PaidOnceInFull MoneyOnRecord DutiesSeparate
