SPECIFICATION Spec
CONSTANTS
  good = good
  weak = weak
  forged = forged
  ann = ann
  bob = bob
  Chains = {good, weak, forged}
  Input <- Inputs
  Callers = {p1, p2}
  Commands <- Orders
  None = None
  MaxPersists = 1
  MaxCalls = 3
  MaxFaults = 1
SYMMETRY Symmetric
CHECK_DEADLOCK FALSE
INVARIANTS
  AnswersHold
  ReadsCurrent
  RequestWarranted
PROPERTIES
  RetryAccepted
  ImplementsRegister
