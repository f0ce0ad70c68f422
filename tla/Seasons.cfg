SPECIFICATION Spec
CONSTANTS
  Guests = {g1, g2}
  Topics = {g1, g2}
  NoteIds = {1, 2}
  Scanners = {p1, p2}
  Desks = {w1, w2}
  Nightly = cron
  None = None
  SlotNos = {1}
  MaxScheds = 2
  MaxDeps = 6
  Week = 2
  Window = 2
  LastDay = 1
  MaxAttempts = 2
  Scenarios <- Seasons
INVARIANT TypeOK GuestsKeepTheirDate OneTripPerSlotDay GuestsAreTold RetriesBounded
PROPERTY CronJobsCatchUp
CHECK_DEADLOCK FALSE
