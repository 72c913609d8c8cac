SPECIFICATION FairSpec
CONSTANTS
  None = None
  Runs = {r1}
  Procs = {p1, p2}
  Entries = {e1, e2}
  Ttl = 1
  MaxTime = 1
  MaxVersion = 2
INVARIANTS OneWinnerPerVersion NoLostUpdate
PROPERTIES DeadStaysDead NoLateWrite ImplementsAtomicStore EveryCallReturns
CHECK_DEADLOCK FALSE
