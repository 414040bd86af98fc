SPECIFICATION Spec
CONSTANTS
  None = None
  q1 = q1
  q2 = q2
  Identity = {1, 2}
  Variants <- Editions
  Request = {q1, q2}
  Taken = {"applied", "not_relevant", "wrong_seniority"}
  MinEvidence = 2
  MaxWeight = 2
  MaxAdjustment = 1
  MaxClock = 4
SYMMETRY Interchangeable
INVARIANTS
  TypeOK
  AnswerInForce
  ResetSeparates
  InfluenceBounded
