CONSTANTS
  create1 = create1
  create2 = create2
  update = update
  add = add
  Proposals = {create1, create2, update, add}
  ActionOf <- MCActionOf
  Expected <- MCExpected
  Callers = {c1}
  NONE = NONE
  Tasks = {t1, t2, t3}
  Workers = {w1, w2}
  FREE = FREE
SPECIFICATION Spec
INVARIANTS
  AppliedReversible
  DocumentStands
  DependenciesDone
CHECK_DEADLOCK FALSE
