SPECIFICATION LiveSpec
CONSTANTS
  None = None
  timer = timer
  owner = owner
  d1 = d1
  d2 = d2
  Sender = {timer, owner}
  Report = {d1, d2}
  Tearing = TRUE
  MaxCopies = 2
INVARIANTS
  TypeOK
  DeliveredOnce
  HistoryHonest
PROPERTY
  HistoryCatchesUp
