SPECIFICATION Spec
CONSTANTS
  Requests = {q1, q2}
  Suites = {s1, s2}
  MostOverlapping = 3
  MostSerial = 4
  SerialSlots = 1
  Recorders = {r1, r2}
  BlindCandidates = {"a", "b"}
  BlindOutputs = {"o", "p"}
  ContendedOutputs = {"p"}
  BlindAims <- SomeAims
  Other = other
  NoFile = NoFile
  PacketEditions <- SomeEditions
  ProgramEngine = "E"
  PackedMembers = {"m", "n"}
  FileContents = {"c", "d"}
  CommittedContent = "c"
  PackagerRuns = 2
  TreeEdits = 3
  Assessors = {"a1", "a2"}
  GoldCandidates = {"c", "d"}
  Engines = {"E", "F"}
  GoldScenarios = {"s", "t"}
  RootPrints = {"p", "q"}
  MostDefects = 2
  MostFindings = 2
  MetricKinds <- SomeKinds
  Artifacts = {"a1", "a2"}
  TextSources = {"script", "notes"}
  FinalScript = "script"
  ClaimedRatios <- SomeRatios
  PackageBytes = 3
  AuthorEdits = 2
SYMMETRY Symmetry
INVARIANTS RecordsAreConsistent ProbesAreSound SuitesAreHonest EvidenceIsFirstHand ClaimsHold
PROPERTIES NothingIsForgotten
CHECK_DEADLOCK FALSE
