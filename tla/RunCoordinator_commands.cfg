SPECIFICATION Spec
CONSTANTS
  None = None
  Runs = {r1}
  Jobs = {j1}
  Calls = {c1}
INVARIANTS EveryCommandIsOffered
CHECK_DEADLOCK FALSE
