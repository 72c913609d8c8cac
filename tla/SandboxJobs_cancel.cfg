SPECIFICATION Spec
CONSTANTS
  Processes = {p1, p2}
  Calls = {c1, c2}
INVARIANTS CancelledDuringPrepare
