SPECIFICATION LiveSpec
CONSTANTS
  None = None
  c1 = c1
  c2 = c2
  old = old
  p1 = p1
  p2 = p2
  Container = {c1, c2, old}
  ServiceOf <- Services
  Replicas <- Configuration
  Probed = {c1}
  Process = {p1, p2}
  MaxRuns = 2
INVARIANTS
  TypeOK
PROPERTIES
  VerifiedWasMet
  StatusHonest
  RunsEnd
CHECK_DEADLOCK FALSE
