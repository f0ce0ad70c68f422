SPECIFICATION FairSpec
CONSTANTS
  Ops = {o1}
  DateChanges = {o1}
  Flushers = {chrome, page}
  Requests = {r1, r2}
  None = None
  MaxDay = 2
  MaxEvents = 2
  MaxChanges = 1
INVARIANT TypeOK NeverSilentlyDropped NoDoubleReplay FiredNeverApplies
PROPERTY QueueDrains
CHECK_DEADLOCK FALSE
