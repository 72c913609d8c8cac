------------------------------ MODULE MCCustody ------------------------------
(***************************************************************************)
(* What is recorded, sealed, judged, packaged and claimed of a benchmark,  *)
(* for TLC: blind attempts, the sealed packet, assessments and their       *)
(* score, the archive with its manifest, and the gate of a submission.     *)
(* The tools share no state; a behaviour is of the part chosen at its      *)
(* beginning.                                                              *)
(***************************************************************************)
EXTENDS Integers, FiniteSets

CONSTANTS
  Recorders, BlindCandidates, BlindOutputs,            \* of recorded runs
  ContendedOutputs, BlindAims, Other, NoFile,
  PacketEditions, ProgramEngine,                       \* of sealed packets
  PackedMembers, FileContents, CommittedContent,       \* of packages
  PackagerRuns, TreeEdits,
  Assessors, GoldCandidates, Engines,                  \* of assessments
  GoldScenarios, RootPrints, MostDefects, MostFindings, \* of scores
  MetricKinds, Artifacts, TextSources, FinalScript,    \* of submissions
  ClaimedRatios, PackageBytes, AuthorEdits

VARIABLES
  part, state, pc, tree, output, edits,                 \* of several parts; state is their phase
  aim, approved, record, error, ran, reservation, custody, raw, audit,   \* BlindAttempt
  packet, policy, ids, seal,                            \* BlindPacket
  runs, hashes, staged, backup, published, paired,      \* PackagePair
  given, temporary,                                     \* GoldAssessment
  defects, findings, traced, score,                     \* GoldScore
  sub, errors                                           \* SubmissionClaims

Blind == INSTANCE BlindAttempt WITH
  Candidates <- BlindCandidates, Outputs <- BlindOutputs, Contended <- ContendedOutputs,
  Aims <- BlindAims, None <- NoFile

Packet == INSTANCE BlindPacket WITH
  phase <- state, Editions <- PacketEditions, EngineNow <- ProgramEngine

Pair == INSTANCE PackagePair WITH
  Members <- PackedMembers, Contents <- FileContents, Committed <- CommittedContent,
  MaxRuns <- PackagerRuns, MaxEdits <- TreeEdits

Gold == INSTANCE GoldAssessment WITH
  Candidates <- GoldCandidates, EngineNow <- ProgramEngine, None <- NoFile

Scoring == INSTANCE GoldScore WITH
  phase <- state, Scenarios <- GoldScenarios, Prints <- RootPrints,
  MaxDefects <- MostDefects, MaxFindings <- MostFindings

Claims == INSTANCE SubmissionClaims WITH
  phase <- state, Kinds <- MetricKinds, Sources <- TextSources, Script <- FinalScript,
  Ratios <- ClaimedRatios, MaxBytes <- PackageBytes, MaxEdits <- AuthorEdits

(* What the proofs assume of these constants: a name of nothing or of      *)
(* nobody is no file, reservation or directory, and no recorder; and what  *)
(* is committed is something that a file may hold.                         *)
ASSUME NamesAssumption ==
  Blind!Distinct /\ \A a \in Assessors : NoFile # [by |-> a, files |-> Gold!Names]
ASSUME CommitAssumption == CommittedContent \in FileContents

(* A ratio that is written down is of integers, and there is something to  *)
(* divide by; any other is an error of the gate.                           *)
ASSUME RatiosAssumption == ClaimedRatios \subseteq Int \X (Nat \ {0})

blindVars  == <<aim, approved, record, error, ran, reservation, custody, raw, audit>>
packetVars == <<packet, policy, ids, seal>>
pairVars   == <<runs, hashes, staged, backup, published, paired>>
goldVars   == <<given, temporary>>
scoreVars  == <<defects, findings, traced, score>>
claimVars  == <<sub, errors>>
custodyVars == <<state, pc, tree, output, edits,
                 blindVars, packetVars, pairVars, goldVars, scoreVars, claimVars>>

NoBlind ==
  /\ aim = "idle" /\ approved = "idle" /\ record = "idle" /\ error = "idle" /\ ran = "idle"
  /\ reservation = "idle" /\ custody = "idle" /\ raw = "idle" /\ audit = "idle"
NoPacket == packet = "idle" /\ policy = "idle" /\ ids = "idle" /\ seal = "idle"
NoPair ==
  /\ runs = "idle" /\ hashes = "idle" /\ staged = "idle" /\ backup = "idle"
  /\ published = "idle" /\ paired = "idle"
NoGold   == given = "idle" /\ temporary = "idle"
NoScore  == defects = "idle" /\ findings = "idle" /\ traced = "idle" /\ score = "idle"
NoClaims == sub = "idle" /\ errors = "idle"
CustodyIdle ==
  /\ state = "idle" /\ pc = "idle" /\ tree = "idle" /\ output = "idle" /\ edits = "idle"
  /\ NoBlind /\ NoPacket /\ NoPair /\ NoGold /\ NoScore /\ NoClaims

CustodyInit ==
  \/ /\ part = "blind" /\ Blind!Init /\ state = "idle" /\ output = "idle" /\ edits = "idle"
     /\ NoPacket /\ NoPair /\ NoGold /\ NoScore /\ NoClaims
  \/ /\ part = "packet" /\ Packet!Init /\ pc = "idle" /\ tree = "idle" /\ output = "idle"
     /\ edits = "idle" /\ NoBlind /\ NoPair /\ NoGold /\ NoScore /\ NoClaims
  \/ /\ part = "pair" /\ Pair!Init /\ state = "idle"
     /\ NoBlind /\ NoPacket /\ NoGold /\ NoScore /\ NoClaims
  \/ /\ part = "gold" /\ Gold!Init /\ state = "idle" /\ tree = "idle" /\ edits = "idle"
     /\ NoBlind /\ NoPacket /\ NoPair /\ NoScore /\ NoClaims
  \/ /\ part = "score" /\ Scoring!Init /\ pc = "idle" /\ tree = "idle" /\ output = "idle"
     /\ edits = "idle" /\ NoBlind /\ NoPacket /\ NoPair /\ NoGold /\ NoClaims
  \/ /\ part = "claims" /\ Claims!Init /\ pc = "idle" /\ tree = "idle" /\ output = "idle"
     /\ NoBlind /\ NoPacket /\ NoPair /\ NoGold /\ NoScore

Part(name, A, others) == part = name /\ A /\ UNCHANGED <<part, others>>

CustodyNext ==
  \/ Part("blind", Blind!Next,
          <<state, output, edits, packetVars, pairVars, goldVars, scoreVars, claimVars>>)
  \/ Part("packet", Packet!Next,
          <<pc, tree, output, edits, blindVars, pairVars, goldVars, scoreVars, claimVars>>)
  \/ Part("pair", Pair!Next, <<state, blindVars, packetVars, goldVars, scoreVars, claimVars>>)
  \/ Part("gold", Gold!Next,
          <<state, tree, edits, blindVars, packetVars, pairVars, scoreVars, claimVars>>)
  \/ Part("score", Scoring!Next,
          <<pc, tree, output, edits, blindVars, packetVars, pairVars, goldVars, claimVars>>)
  \/ Part("claims", Claims!Next,
          <<pc, tree, output, blindVars, packetVars, pairVars, goldVars, scoreVars>>)

-----------------------------------------------------------------------------
(* Whatever crashes, fails or is written in between, a candidate has one   *)
(* recorded run (record_blind_run.py), an assessment is of one complete    *)
(* run (gold_assessment.py), an archive has its manifest                   *)
(* (package_submission.py) and a sealed packet is the work of one edition  *)
(* (validate_and_seal_blind_contracts.py).                                 *)
EvidenceIsFirstHand ==
  /\ part = "blind" =>
       /\ Blind!TypeOK /\ Blind!OneExecution /\ Blind!ExposedIsKept
       /\ Blind!BoundIsFirst /\ Blind!RecordedIsThere
  /\ part = "gold" => Gold!TypeOK /\ Gold!OutputIsOneAssessment /\ Gold!FailureIsClean
  /\ part = "pair" => Pair!TypeOK /\ Pair!PairIsOne /\ Pair!PairIsSomewhere
  /\ part = "packet" => Packet!TypeOK /\ Packet!SealedIsOneEdition /\ Packet!RevealedIsSealed

(* A score counts a largest pairing (benchmark.py), and what a submission  *)
(* that passed claims in a text is what was measured                       *)
(* (verify_submission.py).                                                 *)
ClaimsHold ==
  /\ part = "score" => Scoring!ScoreIsBest
  /\ part = "claims" => Claims!PassedIsTrue
=============================================================================
