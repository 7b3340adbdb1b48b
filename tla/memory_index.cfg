CONSTANTS
  MemoryIds = {i}
  Slugs = {s, t}
  Conversations = {c}
  Texts = {a, b}
  RawFiles = {q, r}
  Notes = {}
  Indexers = {x, y}
  Logs = {l1, l2, l3, l4}
  MaxChanges = 1
  MaxStarts = 3
  NONE = NONE
SPECIFICATION Spec
INVARIANTS
  IndexSound
  SearchTruthful
PROPERTIES
  IndexExact
CHECK_DEADLOCK FALSE
SYMMETRY Symmetry
