SPECIFICATION Spec
CONSTANTS
  Accounts = {s1, s2, s3}
  Customer = customer
  None = None
  Total = 2
  CommissionPct = 50
  RefundPcts = {0, 50, 100}
  Credits = {0, 1, 2}
  MaxReceipts = 1
  MaxRefunds = 2
  MaxFlights = 1
  Serial = TRUE
  Joinable = TRUE
SYMMETRY Symmetric
INVARIANT BooksBalance
