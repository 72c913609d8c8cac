SPECIFICATION FairSpec
CONSTANTS
  None = None
  Reaper = Reaper
  Closer = Closer
  Runs = {r1}
  Jobs = {j1, j2}
  Requests = {q1, q2}
INVARIANTS ProviderOutlivesJobs PlannersAreReleased NoJobEscapes CancelledForCause
PROPERTIES EveryoneFinishes
CHECK_DEADLOCK FALSE
