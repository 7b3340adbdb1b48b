CONSTANTS
  Criteria = {k1, k2}
  Reviewers = {p1, p2}
  Tolerated = 1
  Improvement = 1
  MaxFaults = 1
  NONE = NONE
SPECIFICATION Spec
INVARIANTS
  ActivatedBacked
  VerifiedMeans
PROPERTIES
  InterruptedResumed
CHECK_DEADLOCK FALSE
