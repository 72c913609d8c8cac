SPECIFICATION FairSpec
CONSTANTS
  None = None
  Runs = {r1}
  Jobs = {j1, j2, j3}
  Calls = {c1, c2}
PROPERTIES EveryJobEnds ImplementsLifecycle
CHECK_DEADLOCK FALSE
