SPECIFICATION Spec
CONSTANTS
  None = None
  a = a
  b = b
  o = o
  j = j
  Source = {1}
  Posting = {j}
  Scheduler = {a, b}
  Operator = {o}
  Cooldown <- NoCooldown
  Midnight <- Midnights
  Opening <- Openings
  Interval = 2
  MaxRuns = 3
  MaxTime = 4
CHECK_DEADLOCK FALSE
SYMMETRY Interchangeable
INVARIANTS
  TypeOK
  OneScheduledRunPerDay
  OpenWasSeen
