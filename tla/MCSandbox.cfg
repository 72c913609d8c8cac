SPECIFICATION Spec
CONSTANTS
  Processes = {p1, p2}
  Calls = {c1, c2, c3}
  FewCalls = {f1, f2}
  Count = 2
  MaxCancels = 1
SYMMETRY Symmetry
INVARIANTS LaunchedOnce NothingRunsUnseen ResultIsTrue
PROPERTIES OutcomesAreFinal
CHECK_DEADLOCK FALSE
