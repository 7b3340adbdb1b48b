CONSTANTS
  Criteria = {k1}
  Reviewers = {p1}
  Tolerated = 1
  Improvement = 1
  MaxFaults = 1
  NONE = NONE
SPECIFICATION Spec
PROPERTY
  MissingStepsResumed
CHECK_DEADLOCK FALSE
