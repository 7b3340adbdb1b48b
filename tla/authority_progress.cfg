SPECIFICATION FairSpec
CONSTANTS
  c1 = c1
  c2 = c2
  m1 = m1
  x1 = x1
  Cands = {c1, c2}
  Memories = {m1}
  Contexts = {x1}
  Procs = {p1, p2}
  Intent <- UpdateAndConflict
  RecoverFirst = TRUE
  EditWhen = {"quiet"}
  CrashPoints <- WholePoints
  MaxCrashes = 1
  MaxEdits = 1
  MaxDecisions = 2
CHECK_DEADLOCK FALSE
PROPERTIES
  PendingResolved
INVARIANTS
  NoLostMemory
  ReceiptScope
  OneOutcome
  ActiveAuthorized
