SPECIFICATION FairSpec
CONSTANTS
  user = user
  answer = answer
  again = again
  check = check
  chat = chat
  m1 = m1
  m2 = m2
  m3 = m3
  m4 = m4
  Events = {answer, again, check}
  Sessions = {chat}
  Names = {m1, m2, m3, m4}
  Texts = {a}
  None = None
  About <- TwoTurns
  Contested = {}
  Restricted = {}
  Tools <- OneTool
  Interval <- Intervals
  Procs = {p1}
  RecoverAlone = TRUE
  Outages = FALSE
  MaxAttempts = 2
  MaxClaims = 4
  MaxCrashes = 1
CHECK_DEADLOCK FALSE
INVARIANTS
  MessageOnce
  CandidateOnce
PROPERTIES
  ImplementsLog
  EventSettled
