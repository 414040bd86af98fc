SPECIFICATION Spec
CONSTANTS
  None = None
  j1 = j1
  j2 = j2
  i1 = i1
  i2 = i2
  q1 = q1
  q2 = q2
  r1 = r1
  r2 = r2
  Job = {j1, j2}
  Identity = {i1, i2}
  Request = {q1, q2}
  Reason = {r1}
  Movable = {j2}
  MaxRequests = 3
  MaxUploads = 1
SYMMETRY Interchangeable
INVARIANTS
  TypeOK
  ArchiveAgrees
PROPERTIES
  ArchivedFrozen
  NoneDismissedPrepared
  AttemptKept
