SPECIFICATION Spec
CONSTANTS
  user = user
  answer = answer
  again = again
  check = check
  chat = chat
  m1 = m1
  m2 = m2
  m3 = m3
  m4 = m4
  Events = {user, answer}
  Sessions = {chat}
  Names = {m1, m2, m3, m4}
  Texts = {a, b}
  None = None
  About <- Reply
  Contested = {chat}
  Restricted = {}
  Tools <- OneTool
  Interval <- Every
  Procs = {p1, p2}
  RecoverAlone = FALSE
  Outages = TRUE
  MaxAttempts = 1
  MaxClaims = 2
  MaxCrashes = 1
SYMMETRY Symmetric
CHECK_DEADLOCK FALSE
INVARIANTS
  AcknowledgedLogged
  AfterParent
PROPERTY
  ImplementsDeliveries
