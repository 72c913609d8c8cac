SPECIFICATION Spec
CONSTANTS
  None = None
  Runs = {r1, r2}
  Jobs = {j1, j2}
  Calls = {c1, c2}
SYMMETRY Symmetry
INVARIANTS WorkIsOwned FailedForCause RecordsInOrder
CHECK_DEADLOCK FALSE
