SPECIFICATION LiveSpec
CONSTANTS
  None = None
  a = a
  b = b
  o = o
  j = j
  Source = {1, 2}
  Posting = {j}
  Scheduler = {a}
  Operator = {o}
  Cooldown <- FeedCooldown
  Midnight <- Midnights
  Opening <- Openings
  Interval = 2
  MaxRuns = 2
  MaxTime = 1
CHECK_DEADLOCK FALSE
PROPERTY
  NoStandstill
