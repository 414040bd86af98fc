SPECIFICATION LiveSpec
CONSTANTS
  None = None
  w1 = w1
  w2 = w2
  s1 = s1
  s2 = s2
  feed = feed
  board = board
  Worker = {w1, w2}
  Source = {s1}
  Provider = {feed}
  ProviderOf <- OneFeed
  Cooldown <- FeedCooldown
  MaxRuns = 1
  Lease = 2
  MaxRun = 3
  MaxAttempts = 2
  ScanLimit = 2
  AgeCap = 5
  MaxWait = 1
  Switched = {s1}
  GateMayDrop = TRUE
PROPERTY
  RunsSettle
