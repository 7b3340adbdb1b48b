SPECIFICATION Spec
CONSTANTS
  Cands = {c1, c2}
  Targets = {t1, t2}
  Plans = {l1, l2}
  Texts = {a, b}
  Note = Note
  None = None
  Procs = {p1}
  Serial = TRUE
  OnePlan = TRUE
  Outages = TRUE
  MaxCrashes = 1
  MaxEdits = 2
INVARIANTS
  PromotedReviewed
  ActiveByOnePlan
  TextKept
PROPERTY NotesKept
SYMMETRY Interchangeable
CHECK_DEADLOCK FALSE
