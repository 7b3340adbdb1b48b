CONSTANTS
  i1 = i1
  i2 = i2
  i3 = i3
  x = x
  y = y
  lesson = lesson
  opposite = opposite
  Inputs = {i1, i2, i3}
  Exchanges = {x, y}
  ExchangeOf <- MCExchangeOf
  Blank = {y}
  Policies = {lesson, opposite}
  SuggestedBy <- MCSuggestedBy
  LessonOf <- MCLessonOf
  Opposite <- MCOpposite
  MINIMUM_INDEPENDENT_EVIDENCE = 2
  Records = {r1, r2, r3, r4}
  MaxFaults = 0
  MaxBusy = 1
  NONE = NONE
SPECIFICATION Spec
INVARIANTS
  LinkedReviewable
CHECK_DEADLOCK FALSE
SYMMETRY Symmetry
