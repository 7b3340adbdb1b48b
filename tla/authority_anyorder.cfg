SPECIFICATION Spec
CONSTANTS
  c1 = c1
  c2 = c2
  m1 = m1
  x1 = x1
  Cands = {c1, c2}
  Memories = {m1}
  Contexts = {x1}
  Procs = {p1, p2}
  Intent <- MergeAndTransition
  RecoverFirst = FALSE
  EditWhen = {"quiet", "pending", "locked"}
  CrashPoints <- AllPoints
  MaxCrashes = 1
  MaxEdits = 1
  MaxDecisions = 2
SYMMETRY Symmetric
CHECK_DEADLOCK FALSE
INVARIANTS
  OutcomeAccounted
  AppliedOnce
  GenerationBacked
PROPERTIES
  ImplementsLedger
