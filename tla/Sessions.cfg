SPECIFICATION Spec
CONSTANTS
  Tabs = {t1, t2}
  Requests = {q1, q2}
  Verifies = {v1, v2}
  Logins = {l1, l2}
  None = None
  MaxTokens = 4
  MaxAttempts = 2
  MaxSends = 2
  MaxCodes = 2
  LockThreshold = 2
  Scenarios <- Overlaps
SYMMETRY Symmetric
INVARIANT TypeOK TabKeepsItsSession EndedStaysEnded GuessesAreCounted
CHECK_DEADLOCK FALSE
