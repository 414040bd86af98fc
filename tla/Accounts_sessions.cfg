SPECIFICATION Spec
CONSTANTS
  None = None
  Global = Global
  n1 = n1
  n2 = n2
  p1 = p1
  p2 = p2
  t1 = t1
  t2 = t2
  q1 = q1
  q2 = q2
  Name = {n1, n2}
  Password = {p1, p2}
  Token = {t1, t2}
  Request = {q1, q2}
  GlobalLimit = 2
  NameLimit = 1
  Window = 0
  Life = 1
  MaxClock = 1
SYMMETRY Interchangeable
INVARIANTS
  TypeOK
  SessionsCurrent
  ServedWereLive
  Throttled
PROPERTIES
  PasswordStands
  SessionKept
