------------------------ MODULE RunCoordinatorProofs ------------------------
(***************************************************************************)
(* Theorems about RunCoordinator for every set of runs and every number of *)
(* jobs and requests at a time.                                            *)
(***************************************************************************)
EXTENDS RunCoordinator, FiniteSetTheorems, SequenceTheorems, TLAPS

-----------------------------------------------------------------------------
(* The edges of state_machine.py, looked up once.                          *)

AutomaticStages ==
  {"queued", "ingesting", "extracting", "generating_initial_tests",
   "provisional_execution", "targeting_coverage", "freezing_suite",
   "baseline_execution", "analyzing", "drafting_revision", "applying_revision",
   "retesting"}
TerminalStages ==
  {"complete", "completed_no_findings", "completed_no_revision", "contract_rejected",
   "revision_rejected", "coverage_limit_exceeded", "failed"}

(* Every stage is worked through, decided or final.                        *)
LEMMA StagesAre == Stages = AutomaticStages \union Gates \union TerminalStages
BY DEF Stages, Transitions, AutomaticStages, TerminalStages, Gates

LEMMA TerminalAre == Terminal = TerminalStages
<1>1. \A s \in AutomaticStages \union Gates : "failed" \in Transitions[s]
  BY DEF AutomaticStages, Gates, Transitions
<1>2. \A s \in TerminalStages : Transitions[s] = {}
  BY DEF TerminalStages, Transitions
<1>. QED
  BY <1>1, <1>2, StagesAre DEF Terminal

LEMMA AutomaticAre == Automatic = AutomaticStages
BY StagesAre, TerminalAre DEF Automatic, AutomaticStages, TerminalStages, Gates

(* Nothing leaves a final stage; from everywhere else a run can fail.      *)
LEMMA FinalOrFallible ==
  ASSUME NEW s \in Stages
  PROVE  /\ s \in Terminal => \A t : ~Legal(s, t)
         /\ s \notin Terminal => Legal(s, "failed")
<1>1. \A a \in AutomaticStages \union Gates : "failed" \in Transitions[a]
  BY DEF AutomaticStages, Gates, Transitions
<1>. QED
  BY <1>1, StagesAre, TerminalAre DEF Legal, Terminal

(* The edges the coordinator takes are legal.                              *)
LEMMA EdgesTaken ==
  /\ Legal("queued", "ingesting")
  /\ Legal("ingesting", "extracting")
  /\ Legal("extracting", "awaiting_contract")
  /\ Legal("awaiting_contract", "generating_initial_tests")
  /\ Legal("awaiting_contract", "contract_rejected")
  /\ Legal("generating_initial_tests", "provisional_execution")
  /\ Legal("provisional_execution", "targeting_coverage")
  /\ Legal("provisional_execution", "freezing_suite")
  /\ Legal("targeting_coverage", "freezing_suite")
  /\ Legal("targeting_coverage", "coverage_limit_exceeded")
  /\ Legal("freezing_suite", "baseline_execution")
  /\ Legal("baseline_execution", "analyzing")
  /\ Legal("analyzing", "awaiting_finding_review")
  /\ Legal("analyzing", "completed_no_findings")
  /\ Legal("awaiting_finding_review", "drafting_revision")
  /\ Legal("awaiting_finding_review", "completed_no_revision")
  /\ Legal("drafting_revision", "awaiting_revision_confirmation")
  /\ Legal("awaiting_revision_confirmation", "applying_revision")
  /\ Legal("awaiting_revision_confirmation", "revision_rejected")
  /\ Legal("applying_revision", "retesting")
  /\ Legal("retesting", "complete")
BY DEF Legal, Transitions

(* Where a run comes from when it reaches a stage.                         *)
LEMMA EdgesInto ==
  ASSUME NEW s \in Stages, NEW t, Legal(s, t)
  PROVE  /\ t \in Stages \ {"queued"}
         /\ s \notin Terminal
         /\ t = "ingesting" => s = "queued"
         /\ t = "extracting" => s = "ingesting"
         /\ t = "awaiting_contract" => s = "extracting"
         /\ t \in {"generating_initial_tests", "contract_rejected"} => s = "awaiting_contract"
         /\ t = "provisional_execution" => s = "generating_initial_tests"
         /\ t = "targeting_coverage" => s = "provisional_execution"
         /\ t \in {"freezing_suite", "coverage_limit_exceeded"} =>
              s \in {"provisional_execution", "targeting_coverage"}
         /\ t = "baseline_execution" => s = "freezing_suite"
         /\ t = "analyzing" => s = "baseline_execution"
         /\ t \in {"awaiting_finding_review", "completed_no_findings"} => s = "analyzing"
         /\ t \in {"drafting_revision", "completed_no_revision"} => s = "awaiting_finding_review"
         /\ t = "awaiting_revision_confirmation" => s = "drafting_revision"
         /\ t \in {"applying_revision", "revision_rejected"} =>
              s = "awaiting_revision_confirmation"
         /\ t = "retesting" => s = "applying_revision"
         /\ t = "complete" => s = "retesting"
<1>1. s \notin Terminal
  BY FinalOrFallible
<1>2. s \in AutomaticStages \union Gates
  BY <1>1, StagesAre, TerminalAre
<1>3. CASE s \in Gates
  BY <1>1, <1>3, StagesAre DEF Gates, Legal, Transitions, AutomaticStages, TerminalStages
<1>4. CASE s \in AutomaticStages
  BY <1>1, <1>4, StagesAre DEF Gates, Legal, Transitions, AutomaticStages, TerminalStages
<1>. QED
  BY <1>2, <1>3, <1>4

-----------------------------------------------------------------------------
(* What a record's artifacts add up to, and what filing one more changes.  *)

Tally(arts) ==
  LET Total(kind) == Count(kind, arts, Len(arts))
  IN  [ir |-> Total("policy_ir"), contracts |-> Total("policy_contract"),
       suites |-> Total("scenario_suite"), evaluations |-> Total("evaluation_report"),
       findings |-> Total("finding_report"), metrics |-> Total("metrics_report"),
       proposals |-> Total("revision_proposal"),
       comparisons |-> Total("comparison_bundle")]

With(t, a) ==
  LET Plus(n, kind) == IF a = kind THEN n + 1 ELSE n
  IN  [ir |-> Plus(t.ir, "policy_ir"), contracts |-> Plus(t.contracts, "policy_contract"),
       suites |-> Plus(t.suites, "scenario_suite"),
       evaluations |-> Plus(t.evaluations, "evaluation_report"),
       findings |-> Plus(t.findings, "finding_report"),
       metrics |-> Plus(t.metrics, "metrics_report"),
       proposals |-> Plus(t.proposals, "revision_proposal"),
       comparisons |-> Plus(t.comparisons, "comparison_bundle")]

(* What EvidenceInOrder asks of the n-th artifact, and of an artifact that *)
(* makes the tally t.                                                      *)
InPlace(arts, n) ==
  LET N(kind) == Count(kind, arts, n)
  IN  /\ arts[n] = "scenario_suite" => N("policy_contract") = 1 /\ N("scenario_suite") = 1
      /\ arts[n] = "evaluation_report" =>
           N("scenario_suite") = 1 /\ N("policy_ir") = N("evaluation_report") + 1
      /\ arts[n] = "revision_proposal" => N("finding_report") = N("metrics_report") + 1
      /\ arts[n] = "comparison_bundle" =>
           N("evaluation_report") = 2 /\ N("revision_proposal") = 1

Fits(a, t) ==
  /\ a = "scenario_suite" => t.contracts = 1 /\ t.suites = 1
  /\ a = "evaluation_report" => t.suites = 1 /\ t.ir = t.evaluations + 1
  /\ a = "revision_proposal" => t.findings = t.metrics + 1
  /\ a = "comparison_bundle" => t.evaluations = 2 /\ t.proposals = 1

(* Artifacts in order that add up to t.                                    *)
Filed(arts, t) ==
  /\ arts \in Seq(Artifacts)
  /\ \A n \in DOMAIN arts : InPlace(arts, n)
  /\ Tally(arts) = t

(* The places of one kind are finitely many.                               *)
LEMMA PlacesAreFinite ==
  ASSUME NEW kind, NEW arts, NEW n \in Nat
  PROVE  /\ IsFiniteSet({i \in 1 .. n : arts[i] = kind})
         /\ Count(kind, arts, n) \in Nat
<1>1. IsFiniteSet(1 .. n)
  BY FS_Interval
<1>2. {i \in 1 .. n : arts[i] = kind} \subseteq 1 .. n
  OBVIOUS
<1>. QED
  BY <1>1, <1>2, FS_Subset, FS_CardinalityType DEF Count

(* Appending an artifact counts it, and leaves the counts before it alone. *)
LEMMA CountAppended ==
  ASSUME NEW arts \in Seq(Artifacts), NEW a \in Artifacts, NEW kind
  PROVE  /\ \A n \in 1 .. Len(arts) : Count(kind, Append(arts, a), n) = Count(kind, arts, n)
         /\ Count(kind, Append(arts, a), Len(arts) + 1) =
              IF a = kind THEN Count(kind, arts, Len(arts)) + 1
              ELSE Count(kind, arts, Len(arts))
<1> DEFINE new == Append(arts, a)
           P(s, n) == {i \in 1 .. n : s[i] = kind}
<1>1. /\ Len(arts) \in Nat
      /\ Len(new) = Len(arts) + 1
      /\ new[Len(arts) + 1] = a
      /\ \A i \in 1 .. Len(arts) : new[i] = arts[i]
  OBVIOUS
<1> HIDE DEF new
<1>2. \A n \in 1 .. Len(arts) : P(new, n) = P(arts, n)
  BY <1>1
<1>3. P(new, Len(arts)) = P(arts, Len(arts))
  BY <1>1
<1>4. a = kind => P(new, Len(arts) + 1) = P(arts, Len(arts)) \union {Len(arts) + 1}
  BY <1>1
<1>5. a # kind => P(new, Len(arts) + 1) = P(arts, Len(arts))
  BY <1>1
<1>6. IsFiniteSet(P(arts, Len(arts))) /\ Len(arts) + 1 \notin P(arts, Len(arts))
  <2>1. IsFiniteSet(P(arts, Len(arts)))
    BY <1>1, PlacesAreFinite, Zenon
  <2>2. Len(arts) + 1 \notin 1 .. Len(arts)
    BY <1>1
  <2>. QED
    BY <2>1, <2>2
<1>7. Cardinality(P(arts, Len(arts)) \union {Len(arts) + 1}) =
        Cardinality(P(arts, Len(arts))) + 1
  BY <1>6, FS_AddElement
<1>. QED
  BY <1>2, <1>4, <1>5, <1>7 DEF Count, new

(* Filing one more artifact that fits.                                     *)
LEMMA FiledOneMore ==
  ASSUME NEW arts, NEW t, Filed(arts, t), NEW a \in Artifacts, Fits(a, With(t, a))
  PROVE  Filed(Append(arts, a), With(t, a))
<1> DEFINE new == Append(arts, a)
           l == Len(arts)
<1>1. /\ arts \in Seq(Artifacts) /\ l \in Nat /\ Len(new) = l + 1
      /\ new \in Seq(Artifacts) /\ new[l + 1] = a
      /\ DOMAIN new = 1 .. l + 1 /\ DOMAIN arts = 1 .. l
      /\ \A i \in 1 .. l : new[i] = arts[i]
  BY DEF Filed
<1>2. \A kind : \A n \in 1 .. l : Count(kind, new, n) = Count(kind, arts, n)
  BY <1>1, CountAppended
<1>3. \A kind : Count(kind, new, l + 1) =
        IF a = kind THEN Count(kind, arts, l) + 1 ELSE Count(kind, arts, l)
  BY <1>1, CountAppended
<1> HIDE DEF new, l
<1>4. Tally(new) = With(t, a)
  <2>1. Tally(arts) = t
    BY DEF Filed
  <2>. QED
    BY <2>1, <1>1, <1>3 DEF Tally, With, l
<1>5. ASSUME NEW n \in 1 .. l PROVE InPlace(new, n)
  <2>1. InPlace(arts, n)
    BY <1>1 DEF Filed
  <2>. QED
    BY <2>1, <1>1, <1>2 DEF InPlace
<1>6. InPlace(new, l + 1)
  <2>1. /\ Count("policy_ir", new, l + 1) = With(t, a).ir
        /\ Count("policy_contract", new, l + 1) = With(t, a).contracts
        /\ Count("scenario_suite", new, l + 1) = With(t, a).suites
        /\ Count("evaluation_report", new, l + 1) = With(t, a).evaluations
        /\ Count("finding_report", new, l + 1) = With(t, a).findings
        /\ Count("metrics_report", new, l + 1) = With(t, a).metrics
        /\ Count("revision_proposal", new, l + 1) = With(t, a).proposals
    BY <1>1, <1>4 DEF Tally
  <2>. QED
    BY <2>1, <1>1 DEF InPlace, Fits
<1>. QED
  BY <1>1, <1>4, <1>5, <1>6 DEF Filed, new, l

(* What the coordinator appends, one artifact at a time.                   *)
LEMMA ConcatAppend ==
  ASSUME NEW arts \in Seq(Artifacts), NEW more \in Seq(Artifacts), NEW a \in Artifacts
  PROVE  arts \o Append(more, a) = Append(arts \o more, a)
OBVIOUS

LEMMA AppendedOneByOne ==
  ASSUME NEW arts \in Seq(Artifacts)
  PROVE  /\ arts \o <<>> = arts
         /\ \A a \in Artifacts : arts \o <<a>> = Append(arts, a)
         /\ \A a, b \in Artifacts : arts \o <<a, b>> = Append(Append(arts, a), b)
         /\ \A a, b, c, d \in Artifacts :
              arts \o <<a, b, c, d>> = Append(Append(Append(Append(arts, a), b), c), d)
         /\ \A a, b, c, d, e, f \in Artifacts :
              arts \o <<a, b, c, d, e, f>> = Append(Append(arts \o <<a, b, c, d>>, e), f)
<1>1. arts \o <<>> = arts
  OBVIOUS
<1>2. ASSUME NEW a \in Artifacts, NEW b \in Artifacts, NEW c \in Artifacts,
             NEW d \in Artifacts, NEW e \in Artifacts, NEW f \in Artifacts
      PROVE  /\ arts \o <<a>> = Append(arts, a)
             /\ arts \o <<a, b>> = Append(Append(arts, a), b)
             /\ arts \o <<a, b, c, d>> = Append(Append(Append(Append(arts, a), b), c), d)
             /\ arts \o <<a, b, c, d, e, f>> = Append(Append(arts \o <<a, b, c, d>>, e), f)
  <2>1. /\ arts \o <<a>> = Append(arts, a)
        /\ arts \o <<a, b>> = Append(Append(arts, a), b)
    OBVIOUS
  <2>2. <<a, b, c>> = Append(<<a, b>>, c) /\ <<a, b, c, d>> = Append(<<a, b, c>>, d)
    OBVIOUS
  <2>3. <<a, b, c, d, e>> = Append(<<a, b, c, d>>, e)
    OBVIOUS
  <2>4. <<a, b, c, d, e, f>> = Append(<<a, b, c, d, e>>, f)
    OBVIOUS
  <2>6. /\ <<a, b>> \in Seq(Artifacts) /\ <<a, b, c>> \in Seq(Artifacts)
        /\ <<a, b, c, d>> \in Seq(Artifacts)
    OBVIOUS
  <2>7. <<a, b, c, d, e>> \in Seq(Artifacts) /\ <<a, b, c, d, e, f>> \in Seq(Artifacts)
    BY <2>3, <2>4, <2>6
  <2>8. arts \o <<a, b, c, d>> = Append(Append(arts \o <<a, b>>, c), d)
    BY <2>2, <2>6, ConcatAppend
  <2>9. arts \o <<a, b, c, d, e, f>> = Append(Append(arts \o <<a, b, c, d>>, e), f)
    BY <2>3, <2>4, <2>6, <2>7, ConcatAppend
  <2>. QED
    BY <2>1, <2>8, <2>9
<1>3. \A a \in Artifacts : arts \o <<a>> = Append(arts, a)
  BY <1>2
<1>4. \A a, b \in Artifacts : arts \o <<a, b>> = Append(Append(arts, a), b)
  BY <1>2
<1>5. \A a, b, c, d \in Artifacts :
        arts \o <<a, b, c, d>> = Append(Append(Append(Append(arts, a), b), c), d)
  BY <1>2
<1>6. \A a, b, c, d, e, f \in Artifacts :
        arts \o <<a, b, c, d, e, f>> = Append(Append(arts \o <<a, b, c, d>>, e), f)
  BY <1>2
<1>. QED
  BY <1>1, <1>3, <1>4, <1>5, <1>6

-----------------------------------------------------------------------------
(* A record at any stage: what its artifacts add up to.                    *)

(* Versions of the policy, contracts, suites, evaluations, finding reports, *)
(* metrics, proposals and comparisons.                                     *)
Total(i, c, s, e, f, m, p, k) ==
  [ir |-> i, contracts |-> c, suites |-> s, evaluations |-> e, findings |-> f,
   metrics |-> m, proposals |-> p, comparisons |-> k]

Nothing    == Total(0, 0, 0, 0, 0, 0, 0, 0)
CompiledOnce  == Total(1, 0, 0, 0, 0, 0, 0, 0)
Confirmed  == Total(2, 1, 0, 0, 0, 0, 0, 0)
Suited     == Total(2, 1, 1, 0, 0, 0, 0, 0)
Evaluated  == Total(2, 1, 1, 1, 0, 0, 0, 0)
Analyzed   == Total(2, 1, 1, 1, 1, 1, 0, 0)
Reviewed   == Total(2, 1, 1, 1, 2, 1, 0, 0)
Proposed   == Total(2, 1, 1, 1, 2, 1, 1, 0)
Revised    == Total(3, 1, 1, 1, 2, 1, 1, 0)
ComparedTo == Total(3, 1, 1, 2, 3, 2, 1, 1)

(* Wherever a run stands it has at most the one suite; a run that failed   *)
(* or that was ended early has whatever it had.                            *)
TallyAt(stage, t) ==
  /\ stage \in {"queued", "ingesting", "extracting"} => t = Nothing
  /\ stage = "awaiting_contract" => t = CompiledOnce
  /\ stage \in {"generating_initial_tests", "provisional_execution",
                "targeting_coverage"} => t = Confirmed
  /\ stage \in {"freezing_suite", "baseline_execution"} => t = Suited
  /\ stage = "analyzing" => t = Evaluated
  /\ stage = "awaiting_finding_review" => t = Analyzed
  /\ stage = "drafting_revision" => t = Reviewed
  /\ stage \in {"awaiting_revision_confirmation", "applying_revision"} => t = Proposed
  /\ stage = "retesting" => t = Revised
  /\ stage = "complete" => t = ComparedTo
  /\ t.suites \in {0, 1}

Sound(x) ==
  /\ x \in Records
  /\ Filed(x.arts, Tally(x.arts))
  /\ TallyAt(x.stage, Tally(x.arts))
  /\ x.source => x.stage \in {"queued", "ingesting"}
  /\ x.pending = QuestionAt(x.stage)

(* What the coordinator adds to a record when it moves it to a stage.      *)
Adds(to) ==
  CASE to = "extracting" -> <<"policy_document">>
    [] to = "awaiting_contract" -> <<"policy_ir">>
    [] to = "generating_initial_tests" -> <<"policy_ir", "policy_contract">>
    [] to \in {"targeting_coverage", "coverage_limit_exceeded"} -> <<"coverage_snapshot">>
    [] to = "freezing_suite" -> <<"scenario_suite">>
    [] to = "analyzing" -> <<"evaluation_report">>
    [] to \in {"awaiting_finding_review", "completed_no_findings"} ->
         <<"finding_report", "metrics_report">>
    [] to \in {"drafting_revision", "completed_no_revision"} -> <<"finding_report">>
    [] to = "awaiting_revision_confirmation" -> <<"revision_proposal">>
    [] to = "retesting" -> <<"policy_ir">>
    [] to = "complete" ->
         <<"evaluation_report", "finding_report", "comparison_bundle", "metrics_report">>
    [] OTHER -> <<>>

Updated(x, to, error) ==
  [x EXCEPT !.stage = to, !.version = @ + 1, !.arts = @ \o Adds(to),
            !.pending = QuestionAt(to), !.error = error,
            !.source = IF to \in {"extracting", "failed"} THEN FALSE ELSE @]

(* Filing an artifact that fits turns one tally into the next.             *)
Becomes(t, a, u) == a \in Artifacts /\ With(t, a) = u /\ Fits(a, u)

LEMMA FiledBecomes ==
  ASSUME NEW arts, NEW t, NEW a, NEW u, Filed(arts, t), Becomes(t, a, u)
  PROVE  Filed(Append(arts, a), u)
BY FiledOneMore DEF Becomes

LEMMA BecomesNext ==
  /\ Becomes(Nothing, "run_manifest", Nothing)
  /\ Becomes(Nothing, "policy_document", Nothing)
  /\ Becomes(Nothing, "policy_ir", CompiledOnce)
  /\ Becomes(CompiledOnce, "policy_ir", Total(2, 0, 0, 0, 0, 0, 0, 0))
  /\ Becomes(Total(2, 0, 0, 0, 0, 0, 0, 0), "policy_contract", Confirmed)
  /\ Becomes(Confirmed, "coverage_snapshot", Confirmed)
  /\ Becomes(Confirmed, "scenario_suite", Suited)
  /\ Becomes(Suited, "evaluation_report", Evaluated)
  /\ Becomes(Evaluated, "finding_report", Total(2, 1, 1, 1, 1, 0, 0, 0))
  /\ Becomes(Total(2, 1, 1, 1, 1, 0, 0, 0), "metrics_report", Analyzed)
  /\ Becomes(Analyzed, "finding_report", Reviewed)
  /\ Becomes(Reviewed, "revision_proposal", Proposed)
  /\ Becomes(Proposed, "policy_ir", Revised)
  /\ Becomes(Revised, "evaluation_report", Total(3, 1, 1, 2, 2, 1, 1, 0))
  /\ Becomes(Total(3, 1, 1, 2, 2, 1, 1, 0), "finding_report", Total(3, 1, 1, 2, 3, 1, 1, 0))
  /\ Becomes(Total(3, 1, 1, 2, 3, 1, 1, 0), "comparison_bundle",
             Total(3, 1, 1, 2, 3, 1, 1, 1))
  /\ Becomes(Total(3, 1, 1, 2, 3, 1, 1, 1), "metrics_report", ComparedTo)
BY DEF Becomes, Artifacts, With, Fits, Total, Nothing, CompiledOnce, Confirmed, Suited,
       Evaluated, Analyzed, Reviewed, Proposed, Revised, ComparedTo

LEMMA AddsAre ==
  /\ \A to \in {"ingesting", "provisional_execution", "baseline_execution",
                "contract_rejected", "applying_revision", "revision_rejected", "failed"} :
       Adds(to) = <<>>
  /\ Adds("extracting") = <<"policy_document">>
  /\ Adds("awaiting_contract") = <<"policy_ir">>
  /\ Adds("generating_initial_tests") = <<"policy_ir", "policy_contract">>
  /\ Adds("targeting_coverage") = <<"coverage_snapshot">>
  /\ Adds("coverage_limit_exceeded") = <<"coverage_snapshot">>
  /\ Adds("freezing_suite") = <<"scenario_suite">>
  /\ Adds("analyzing") = <<"evaluation_report">>
  /\ Adds("awaiting_finding_review") = <<"finding_report", "metrics_report">>
  /\ Adds("completed_no_findings") = <<"finding_report", "metrics_report">>
  /\ Adds("drafting_revision") = <<"finding_report">>
  /\ Adds("completed_no_revision") = <<"finding_report">>
  /\ Adds("awaiting_revision_confirmation") = <<"revision_proposal">>
  /\ Adds("retesting") = <<"policy_ir">>
  /\ Adds("complete") =
       <<"evaluation_report", "finding_report", "comparison_bundle", "metrics_report">>
BY DEF Adds

(* The same, one artifact at a time.                                       *)
LEMMA AddedOneByOne ==
  ASSUME NEW arts \in Seq(Artifacts)
  PROVE  /\ \A to \in {"ingesting", "provisional_execution", "baseline_execution",
                      "contract_rejected", "applying_revision", "revision_rejected",
                      "failed"} : arts \o Adds(to) = arts
         /\ arts \o Adds("extracting") = Append(arts, "policy_document")
         /\ arts \o Adds("awaiting_contract") = Append(arts, "policy_ir")
         /\ arts \o Adds("generating_initial_tests") =
              Append(Append(arts, "policy_ir"), "policy_contract")
         /\ arts \o Adds("targeting_coverage") = Append(arts, "coverage_snapshot")
         /\ arts \o Adds("coverage_limit_exceeded") = Append(arts, "coverage_snapshot")
         /\ arts \o Adds("freezing_suite") = Append(arts, "scenario_suite")
         /\ arts \o Adds("analyzing") = Append(arts, "evaluation_report")
         /\ arts \o Adds("awaiting_finding_review") =
              Append(Append(arts, "finding_report"), "metrics_report")
         /\ arts \o Adds("completed_no_findings") =
              Append(Append(arts, "finding_report"), "metrics_report")
         /\ arts \o Adds("drafting_revision") = Append(arts, "finding_report")
         /\ arts \o Adds("completed_no_revision") = Append(arts, "finding_report")
         /\ arts \o Adds("awaiting_revision_confirmation") =
              Append(arts, "revision_proposal")
         /\ arts \o Adds("retesting") = Append(arts, "policy_ir")
         /\ arts \o Adds("complete") =
              Append(Append(Append(Append(arts, "evaluation_report"), "finding_report"),
                            "comparison_bundle"), "metrics_report")
<1>1. /\ arts \o <<>> = arts
      /\ \A a \in Artifacts : arts \o <<a>> = Append(arts, a)
      /\ \A a, b \in Artifacts : arts \o <<a, b>> = Append(Append(arts, a), b)
      /\ \A a, b, c, d \in Artifacts :
           arts \o <<a, b, c, d>> = Append(Append(Append(Append(arts, a), b), c), d)
  BY AppendedOneByOne
<1>2. /\ "policy_document" \in Artifacts /\ "policy_ir" \in Artifacts
      /\ "policy_contract" \in Artifacts /\ "coverage_snapshot" \in Artifacts
      /\ "scenario_suite" \in Artifacts /\ "evaluation_report" \in Artifacts
      /\ "finding_report" \in Artifacts /\ "metrics_report" \in Artifacts
      /\ "revision_proposal" \in Artifacts /\ "comparison_bundle" \in Artifacts
  BY DEF Artifacts
<1>3. /\ arts \o <<"policy_document">> = Append(arts, "policy_document")
      /\ arts \o <<"policy_ir">> = Append(arts, "policy_ir")
      /\ arts \o <<"coverage_snapshot">> = Append(arts, "coverage_snapshot")
      /\ arts \o <<"scenario_suite">> = Append(arts, "scenario_suite")
      /\ arts \o <<"evaluation_report">> = Append(arts, "evaluation_report")
      /\ arts \o <<"finding_report">> = Append(arts, "finding_report")
      /\ arts \o <<"revision_proposal">> = Append(arts, "revision_proposal")
  BY <1>1, <1>2, Zenon
<1>4. /\ arts \o <<"policy_ir", "policy_contract">> =
           Append(Append(arts, "policy_ir"), "policy_contract")
      /\ arts \o <<"finding_report", "metrics_report">> =
           Append(Append(arts, "finding_report"), "metrics_report")
  BY <1>1, <1>2, Zenon
<1>5. arts \o <<"evaluation_report", "finding_report", "comparison_bundle",
                "metrics_report">> =
        Append(Append(Append(Append(arts, "evaluation_report"), "finding_report"),
                      "comparison_bundle"), "metrics_report")
  BY <1>1, <1>2
<1>. QED
  BY <1>1, <1>3, <1>4, <1>5, AddsAre

(* What the coordinator adds at each stage keeps the artifacts in order.   *)
LEMMA FiledAt ==
  ASSUME NEW s \in Stages, NEW to, Legal(s, to), NEW arts, NEW t, Filed(arts, t),
         TallyAt(s, t)
  PROVE  \E u : Filed(arts \o Adds(to), u) /\ TallyAt(to, u)
<1>1. arts \in Seq(Artifacts)
  BY DEF Filed
<1>2. /\ to \in Stages \ {"queued"} /\ s \notin Terminal
      /\ t.suites \in {0, 1}
  BY EdgesInto DEF TallyAt
<1>3. CASE to \in {"ingesting", "provisional_execution", "baseline_execution",
                   "contract_rejected", "applying_revision", "revision_rejected", "failed"}
  <2>1. arts \o Adds(to) = arts
    BY <1>1, <1>3, AddedOneByOne
  <2>2. TallyAt(to, t)
    BY <1>3, EdgesInto DEF TallyAt
  <2>. QED
    BY <2>1, <2>2
<1>4. CASE to = "extracting"
  <2>1. t = Nothing
    BY <1>4, EdgesInto DEF TallyAt
  <2>2. Filed(Append(arts, "policy_document"), Nothing)
    BY <2>1, FiledBecomes, BecomesNext
  <2>3. arts \o Adds(to) = Append(arts, "policy_document")
    BY <1>1, <1>4, AddedOneByOne
  <2>4. TallyAt(to, Nothing)
    BY <1>4 DEF TallyAt, Nothing, Total
  <2>. QED
    BY <2>2, <2>3, <2>4
<1>5. CASE to = "awaiting_contract"
  <2>1. t = Nothing
    BY <1>5, EdgesInto DEF TallyAt
  <2>2. Filed(Append(arts, "policy_ir"), CompiledOnce)
    BY <2>1, FiledBecomes, BecomesNext
  <2>3. arts \o Adds(to) = Append(arts, "policy_ir")
    BY <1>1, <1>5, AddedOneByOne
  <2>4. TallyAt(to, CompiledOnce)
    BY <1>5 DEF TallyAt, CompiledOnce, Total
  <2>. QED
    BY <2>2, <2>3, <2>4
<1>6. CASE to = "generating_initial_tests"
  <2>1. t = CompiledOnce
    BY <1>6, EdgesInto DEF TallyAt
  <2>2. Filed(Append(arts, "policy_ir"), Total(2, 0, 0, 0, 0, 0, 0, 0))
    BY <2>1, FiledBecomes, BecomesNext
  <2>3. Filed(Append(Append(arts, "policy_ir"), "policy_contract"), Confirmed)
    BY <2>2, FiledBecomes, BecomesNext
  <2>4. arts \o Adds(to) = Append(Append(arts, "policy_ir"), "policy_contract")
    BY <1>1, <1>6, AddedOneByOne
  <2>5. TallyAt(to, Confirmed)
    BY <1>6 DEF TallyAt, Confirmed, Total
  <2>. QED
    BY <2>3, <2>4, <2>5
<1>7. CASE to \in {"targeting_coverage", "coverage_limit_exceeded"}
  <2>1. t = Confirmed
    BY <1>7, EdgesInto DEF TallyAt
  <2>2. Filed(Append(arts, "coverage_snapshot"), Confirmed)
    BY <2>1, FiledBecomes, BecomesNext
  <2>3. arts \o Adds(to) = Append(arts, "coverage_snapshot")
    BY <1>1, <1>7, AddedOneByOne
  <2>4. TallyAt(to, Confirmed)
    BY <1>7 DEF TallyAt, Confirmed, Total
  <2>. QED
    BY <2>2, <2>3, <2>4
<1>8. CASE to = "freezing_suite"
  <2>1. t = Confirmed
    BY <1>8, EdgesInto DEF TallyAt
  <2>2. Filed(Append(arts, "scenario_suite"), Suited)
    BY <2>1, FiledBecomes, BecomesNext
  <2>3. arts \o Adds(to) = Append(arts, "scenario_suite")
    BY <1>1, <1>8, AddedOneByOne
  <2>4. TallyAt(to, Suited)
    BY <1>8 DEF TallyAt, Suited, Total
  <2>. QED
    BY <2>2, <2>3, <2>4
<1>9. CASE to = "analyzing"
  <2>1. t = Suited
    BY <1>9, EdgesInto DEF TallyAt
  <2>2. Filed(Append(arts, "evaluation_report"), Evaluated)
    BY <2>1, FiledBecomes, BecomesNext
  <2>3. arts \o Adds(to) = Append(arts, "evaluation_report")
    BY <1>1, <1>9, AddedOneByOne
  <2>4. TallyAt(to, Evaluated)
    BY <1>9 DEF TallyAt, Evaluated, Total
  <2>. QED
    BY <2>2, <2>3, <2>4
<1>10. CASE to \in {"awaiting_finding_review", "completed_no_findings"}
  <2>1. t = Evaluated
    BY <1>10, EdgesInto DEF TallyAt
  <2>2. Filed(Append(arts, "finding_report"), Total(2, 1, 1, 1, 1, 0, 0, 0))
    BY <2>1, FiledBecomes, BecomesNext
  <2>3. Filed(Append(Append(arts, "finding_report"), "metrics_report"), Analyzed)
    BY <2>2, FiledBecomes, BecomesNext
  <2>4. arts \o Adds(to) = Append(Append(arts, "finding_report"), "metrics_report")
    BY <1>1, <1>10, AddedOneByOne
  <2>5. TallyAt(to, Analyzed)
    BY <1>10 DEF TallyAt, Analyzed, Total
  <2>. QED
    BY <2>3, <2>4, <2>5
<1>11. CASE to \in {"drafting_revision", "completed_no_revision"}
  <2>1. t = Analyzed
    BY <1>11, EdgesInto DEF TallyAt
  <2>2. Filed(Append(arts, "finding_report"), Reviewed)
    BY <2>1, FiledBecomes, BecomesNext
  <2>3. arts \o Adds(to) = Append(arts, "finding_report")
    BY <1>1, <1>11, AddedOneByOne
  <2>4. TallyAt(to, Reviewed)
    BY <1>11 DEF TallyAt, Reviewed, Total
  <2>. QED
    BY <2>2, <2>3, <2>4
<1>12. CASE to = "awaiting_revision_confirmation"
  <2>1. t = Reviewed
    BY <1>12, EdgesInto DEF TallyAt
  <2>2. Filed(Append(arts, "revision_proposal"), Proposed)
    BY <2>1, FiledBecomes, BecomesNext
  <2>3. arts \o Adds(to) = Append(arts, "revision_proposal")
    BY <1>1, <1>12, AddedOneByOne
  <2>4. TallyAt(to, Proposed)
    BY <1>12 DEF TallyAt, Proposed, Total
  <2>. QED
    BY <2>2, <2>3, <2>4
<1>13. CASE to = "retesting"
  <2>1. t = Proposed
    BY <1>13, EdgesInto DEF TallyAt
  <2>2. Filed(Append(arts, "policy_ir"), Revised)
    BY <2>1, FiledBecomes, BecomesNext
  <2>3. arts \o Adds(to) = Append(arts, "policy_ir")
    BY <1>1, <1>13, AddedOneByOne
  <2>4. TallyAt(to, Revised)
    BY <1>13 DEF TallyAt, Revised, Total
  <2>. QED
    BY <2>2, <2>3, <2>4
<1>14. CASE to = "complete"
  <2>1. t = Revised
    BY <1>14, EdgesInto DEF TallyAt
  <2> DEFINE a1 == Append(arts, "evaluation_report")
             a2 == Append(a1, "finding_report")
             a3 == Append(a2, "comparison_bundle")
             a4 == Append(a3, "metrics_report")
  <2>2. Filed(a1, Total(3, 1, 1, 2, 2, 1, 1, 0))
    BY <2>1, FiledBecomes, BecomesNext
  <2>3. Filed(a2, Total(3, 1, 1, 2, 3, 1, 1, 0))
    BY <2>2, FiledBecomes, BecomesNext
  <2>4. Filed(a3, Total(3, 1, 1, 2, 3, 1, 1, 1))
    BY <2>3, FiledBecomes, BecomesNext
  <2>5. Filed(a4, ComparedTo)
    BY <2>4, FiledBecomes, BecomesNext
  <2>6. arts \o Adds(to) = a4
    BY <1>1, <1>14, AddedOneByOne
  <2>7. TallyAt(to, ComparedTo)
    BY <1>14 DEF TallyAt, ComparedTo, Total
  <2>. QED
    BY <2>5, <2>6, <2>7
<1>. QED
  BY <1>2, <1>3, <1>4, <1>5, <1>6, <1>7, <1>8, <1>9, <1>10, <1>11, <1>12, <1>13, <1>14,
     StagesAre DEF AutomaticStages, TerminalStages, Gates

(* A sound record that takes an edge is sound again.                       *)
LEMMA SoundUpdated ==
  ASSUME NEW x, Sound(x), NEW to, Legal(x.stage, to), NEW error \in Errors
  PROVE  Sound(Updated(x, to, error))
<1> DEFINE y == Updated(x, to, error)
<1>1. x \in Records /\ x.stage \in Stages /\ x.version \in Nat /\ x.source \in BOOLEAN
  BY DEF Sound, Records
<1>2. to \in Stages
  BY <1>1, EdgesInto
<1>3. PICK u : Filed(x.arts \o Adds(to), u) /\ TallyAt(to, u)
  BY <1>1, FiledAt DEF Sound
<1>4. u = Tally(x.arts \o Adds(to)) /\ x.arts \o Adds(to) \in Seq(Artifacts)
  BY <1>3 DEF Filed
<1>5. QuestionAt(to) \in Questions
  BY DEF QuestionAt, Questions
<1>6. /\ y.stage = to /\ y.arts = x.arts \o Adds(to) /\ y.pending = QuestionAt(to)
      /\ y.source => x.source /\ to \notin {"extracting", "failed"}
  BY <1>1 DEF Updated, Records, Sound
<1>7. y \in Records
  <2> DEFINE R(v, arts, q, b) ==
        [x EXCEPT !.stage = to, !.version = v, !.arts = arts, !.pending = q,
                  !.error = error, !.source = b]
             forget == IF to \in {"extracting", "failed"} THEN FALSE ELSE x.source
  <2>1. \A v \in Nat, arts \in Seq(Artifacts), q \in Questions, b \in BOOLEAN :
          R(v, arts, q, b) \in Records
    BY <1>1, <1>2 DEF Records
  <2>2. y = R(x.version + 1, x.arts \o Adds(to), QuestionAt(to), forget)
    BY DEF Updated
  <2>3. x.version + 1 \in Nat
    BY <1>1
  <2>4. forget \in BOOLEAN
    <3>1. forget = FALSE \/ forget = x.source
      OBVIOUS
    <3> HIDE DEF forget
    <3>. QED
      BY <1>1, <3>1, Zenon
  <2> HIDE DEF R, forget, y
  <2>. QED
    BY <2>1, <2>2, <2>3, <2>4, <1>4, <1>5
<1>8. y.source => y.stage \in {"queued", "ingesting"}
  <2>1. x.source => x.stage \in {"queued", "ingesting"}
    BY DEF Sound
  <2>2. x.stage \in {"queued", "ingesting"} => to \in {"ingesting", "extracting", "failed"}
    BY DEF Legal, Transitions
  <2>. QED
    BY <2>1, <2>2, <1>6
<1> HIDE DEF y
<1>. QED
  BY <1>3, <1>4, <1>6, <1>7, <1>8 DEF Sound, y

(* A new run's record, and the recorded demonstrations: a demonstration    *)
(* contains what the coordinator would have added along the way.           *)
Reaches(arts, stage) == \E t : Filed(arts, t) /\ TallyAt(stage, t)

LEMMA ReachesNext ==
  ASSUME NEW arts, NEW s \in Stages, NEW to, Reaches(arts, s), Legal(s, to)
  PROVE  arts \in Seq(Artifacts) /\ Reaches(arts \o Adds(to), to)
BY FiledAt DEF Reaches, Filed

LEMMA ReachesQueued == Reaches(<<"run_manifest">>, "queued")
<1>1. Filed(<<>>, Nothing)
  <2>1. <<>> \in Seq(Artifacts) /\ Len(<<>>) = 0 /\ DOMAIN <<>> = {}
    OBVIOUS
  <2>2. \A kind : Count(kind, <<>>, 0) = 0
    <3>1. \A kind : {i \in 1 .. 0 : <<>>[i] = kind} = {}
      OBVIOUS
    <3>. QED
      BY <3>1, FS_EmptySet DEF Count
  <2>. QED
    BY <2>1, <2>2 DEF Filed, Tally, Nothing, Total
<1>2. Filed(Append(<<>>, "run_manifest"), Nothing)
  BY <1>1, FiledBecomes, BecomesNext
<1>3. Filed(<<"run_manifest">>, Nothing)
  BY <1>2
<1>. QED
  BY <1>3 DEF Reaches, TallyAt, Nothing, Total

LEMMA ReachesIntake == Reaches(Intake, "awaiting_contract")
<1> USE StagesAre, EdgesTaken DEF AutomaticStages, Gates
<1> DEFINE a0 == <<"run_manifest">>
           a1 == Append(a0, "policy_document")
           a2 == Append(a1, "policy_ir")
<1>1. Reaches(a0, "ingesting")
  BY ReachesQueued, ReachesNext, AddedOneByOne
<1>2. Reaches(a1, "extracting")
  BY <1>1, ReachesNext, AddedOneByOne
<1>3. Reaches(a2, "awaiting_contract")
  BY <1>2, ReachesNext, AddedOneByOne
<1>4. Intake = a2
  <2>1. <<"run_manifest", "policy_document">> = a1
    OBVIOUS
  <2>2. Intake = Append(<<"run_manifest", "policy_document">>, "policy_ir")
    BY DEF Intake
  <2>. QED
    BY <2>1, <2>2
<1>. QED
  BY <1>3, <1>4

LEMMA ReachesTested == Reaches(Tested, "awaiting_finding_review")
<1> USE StagesAre, EdgesTaken DEF AutomaticStages, Gates
<1> DEFINE a1 == Append(Intake, "policy_ir")
           a2 == Append(a1, "policy_contract")
           a3 == Append(a2, "scenario_suite")
           a4 == Append(a3, "evaluation_report")
           a5 == Append(a4, "finding_report")
           a6 == Append(a5, "metrics_report")
<1> HIDE DEF a1, a2, a3, a4, a5, a6
<1>1. Reaches(a2, "generating_initial_tests")
  BY ReachesIntake, ReachesNext, AddedOneByOne DEF a1, a2
<1>2. Reaches(a2, "provisional_execution")
  BY <1>1, ReachesNext, AddedOneByOne
<1>3. Reaches(a3, "freezing_suite")
  BY <1>2, ReachesNext, AddedOneByOne DEF a3
<1>4. Reaches(a3, "baseline_execution")
  BY <1>3, ReachesNext, AddedOneByOne
<1>5. Reaches(a4, "analyzing")
  BY <1>4, ReachesNext, AddedOneByOne DEF a4
<1>6. Reaches(a6, "awaiting_finding_review")
  BY <1>5, ReachesNext, AddedOneByOne DEF a5, a6
<1>7. Tested = a6
  <2>1. Intake \in Seq(Artifacts)
    BY ReachesIntake, ReachesNext
  <2>2. \A a \in {"policy_ir", "policy_contract", "scenario_suite", "evaluation_report", "finding_report", "metrics_report"} : a \in Artifacts
    BY DEF Artifacts
  <2>3. Intake \o <<"policy_ir", "policy_contract", "scenario_suite", "evaluation_report">> = a4
    BY <2>1, <2>2, AppendedOneByOne DEF a1, a2, a3, a4
  <2>. QED
    BY <2>1, <2>2, <2>3, AppendedOneByOne DEF Tested, a5, a6
<1>. QED
  BY <1>6, <1>7

LEMMA ReachesCompared == Reaches(Compared, "complete")
<1> USE StagesAre, EdgesTaken DEF AutomaticStages, Gates
<1> DEFINE a1 == Append(Tested, "finding_report")
           a2 == Append(a1, "revision_proposal")
           a3 == Append(a2, "policy_ir")
           a4 == Append(a3, "evaluation_report")
           a5 == Append(a4, "finding_report")
           a6 == Append(a5, "comparison_bundle")
           a7 == Append(a6, "metrics_report")
<1> HIDE DEF a1, a2, a3, a4, a5, a6, a7
<1>1. Reaches(a1, "drafting_revision")
  BY ReachesTested, ReachesNext, AddedOneByOne DEF a1
<1>2. Reaches(a2, "awaiting_revision_confirmation")
  BY <1>1, ReachesNext, AddedOneByOne DEF a2
<1>3. Reaches(a2, "applying_revision")
  BY <1>2, ReachesNext, AddedOneByOne
<1>4. Reaches(a3, "retesting")
  BY <1>3, ReachesNext, AddedOneByOne DEF a3
<1>5. Reaches(a7, "complete")
  BY <1>4, ReachesNext, AddedOneByOne DEF a4, a5, a6, a7
<1>6. Compared = a7
  <2>1. Tested \in Seq(Artifacts)
    BY ReachesTested, ReachesNext
  <2>2. \A a \in {"finding_report", "revision_proposal", "policy_ir", "evaluation_report", "comparison_bundle", "metrics_report"} : a \in Artifacts
    BY DEF Artifacts
  <2>3. Tested \o <<"finding_report", "revision_proposal", "policy_ir", "evaluation_report">> = a4
    BY <2>1, <2>2, AppendedOneByOne DEF a1, a2, a3, a4
  <2>4. Compared = Append(Append(Append(a4, "finding_report"), "comparison_bundle"),
                          "metrics_report")
    <3> DEFINE n4 == <<"finding_report", "revision_proposal", "policy_ir",
                       "evaluation_report">>
               n5 == <<"finding_report", "revision_proposal", "policy_ir",
                       "evaluation_report", "finding_report">>
               n6 == <<"finding_report", "revision_proposal", "policy_ir",
                       "evaluation_report", "finding_report", "comparison_bundle">>
               n7 == <<"finding_report", "revision_proposal", "policy_ir",
                       "evaluation_report", "finding_report", "comparison_bundle",
                       "metrics_report">>
    <3>1. n5 = Append(n4, "finding_report")
      OBVIOUS
    <3>2. n6 = Append(n5, "comparison_bundle")
      OBVIOUS
    <3>3. n7 = Append(n6, "metrics_report")
      OBVIOUS
    <3>4. n4 \in Seq(Artifacts)
      BY DEF Artifacts
    <3>5. Compared = Tested \o n7 /\ a4 = Tested \o n4
      BY <2>3 DEF Compared
    <3> HIDE DEF n4, n5, n6, n7
    <3>6. n5 \in Seq(Artifacts)
      BY <3>1, <3>4, <2>2
    <3>7. n6 \in Seq(Artifacts)
      BY <3>2, <3>6, <2>2
    <3>8. Tested \o n5 = Append(a4, "finding_report")
      BY <2>1, <2>2, <3>1, <3>4, <3>5, ConcatAppend
    <3>9. Tested \o n6 = Append(Tested \o n5, "comparison_bundle")
      BY <2>1, <2>2, <3>2, <3>6, ConcatAppend
    <3>10. Tested \o n7 = Append(Tested \o n6, "metrics_report")
      BY <2>1, <2>2, <3>3, <3>7, ConcatAppend
    <3>. QED
      BY <3>5, <3>8, <3>9, <3>10
  <2>. QED
    BY <2>4 DEF a5, a6, a7
<1>. QED
  BY <1>5, <1>6

LEMMA SoundAtFirst == Sound(NewRun) /\ \A x \in Recorded : Sound(x)
<1>1. Sound(NewRun)
  <2>1. /\ NewRun.stage = "queued" /\ NewRun.arts = <<"run_manifest">>
        /\ NewRun.pending = QuestionAt("queued")
        /\ NewRun.arts \in Seq(Artifacts) => NewRun \in Records
    BY StagesAre DEF NewRun, Absent, Records, Questions, Errors, AutomaticStages, QuestionAt
  <2>. QED
    BY <2>1, ReachesQueued DEF Reaches, Filed, Sound
<1>2. ASSUME NEW x \in Recorded PROVE Sound(x)
  <2>1. Reaches(x.arts, x.stage)
    <3>1. Reaches(Intake, "contract_rejected")
      BY ReachesIntake, ReachesNext, EdgesTaken, AddedOneByOne, StagesAre DEF Gates
    <3>. QED
      BY <3>1, ReachesCompared DEF Recorded, Absent
  <2>2. /\ x.pending = QuestionAt(x.stage) /\ ~x.source
        /\ x.arts \in Seq(Artifacts) => x \in Records
    <3>1. CASE x = [Absent EXCEPT !.stage = "complete", !.arts = Compared]
      BY <3>1, StagesAre DEF Absent, Records, Questions, Errors, TerminalStages, QuestionAt
    <3>2. CASE x = [Absent EXCEPT !.stage = "contract_rejected", !.arts = Intake]
      BY <3>2, StagesAre DEF Absent, Records, Questions, Errors, TerminalStages, QuestionAt
    <3>. QED
      BY <3>1, <3>2 DEF Recorded
  <2>. QED
    BY <2>1, <2>2 DEF Reaches, Filed, Sound
<1>. QED
  BY <1>1, <1>2

-----------------------------------------------------------------------------
(* The inductive invariant.                                                *)

(* A job under way, and what it holds: the current version of a run,       *)
(* unless it is a confirm_revision that has not been accepted.             *)
Busy(j) == job[j].pc # "free"

Holds(j, r) ==
  /\ job[j].run = r
  /\ job[j].version = rec[r].version
  /\ job[j].pc \in {"new", "claiming"} => job[j].kind # "revision"

Lost(j) == ~Live(job[j].run)
Stale(j) == Live(job[j].run) /\ job[j].version < rec[job[j].run].version

(* Every record is sound at its stage.                                     *)
RecordsSound == \A r \in Runs : Live(r) => Sound(rec[r])

(* Who exists belongs to a run id that was drawn, and is registered for no *)
(* other; an unused slot is empty; who claims a run starts it or revises.  *)
Accounted ==
  /\ \A r \in Runs : Live(r) => r \in used
  /\ \A j \in Jobs : IF Busy(j) THEN job[j].run \in used ELSE job[j] = NoJob
  /\ \A r \in Runs : \A j \in tasks[r] : Busy(j) /\ job[j].run = r
  /\ \A j \in Jobs : job[j].pc = "claiming" => job[j].kind \in {"start", "revision"}

(* Versions count the moves of a run, and no job is ahead of its run.      *)
Versioned ==
  /\ \A r \in Runs : rec[r].stage = "queued" => rec[r].version = 0
  /\ \A r \in Runs : Live(r) /\ rec[r].version = 0 =>
       rec[r].stage \in {"queued"} \union Terminal
  /\ \A j \in Jobs : job[j].kind = "start" /\ job[j].pc \in {"new", "claiming"} =>
       job[j].version = 0
  /\ \A j \in Jobs : Busy(j) /\ ~Lost(j) => job[j].version <= rec[job[j].run].version

(* A job that holds its run works at the stage the run is at.              *)
InStep ==
  \A j \in Jobs : Busy(j) /\ ~Lost(j) /\ job[j].version = rec[job[j].run].version =>
    /\ job[j].pc \in Automatic => rec[job[j].run].stage = job[j].pc
    /\ job[j].pc = "new" /\ job[j].kind = "baseline" =>
         rec[job[j].run].stage = "generating_initial_tests"
    /\ job[j].pc = "new" /\ job[j].kind = "drafting" =>
         rec[job[j].run].stage = "drafting_revision"
    /\ job[j].pc # "reporting"

(* Nobody is cancelled, and nothing fails, without a cause.                *)
Caused ==
  \A j \in Jobs :
    /\ job[j].cancelled => Lost(j) \/ job[j].run \in dropped
    /\ job[j].pc = "failing" =>
         \/ Lost(j) \/ Stale(j) \/ job[j].error = "stage"
         \/ job[j].error = "cancelled" /\ job[j].run \in dropped

(* While the server has to move a run on there is at most one job that can *)
(* do so, and one that nobody has cancelled.                               *)
OneHolder ==
  \A r \in Runs : rec[r].stage \in Automatic =>
    \A j, k \in Jobs : Holds(j, r) /\ Holds(k, r) => j = k

HasOwner ==
  \A r \in Runs : rec[r].stage \in Automatic /\ r \notin dropped =>
    \E j \in Jobs : Owns(j, r)

CoordInv ==
  /\ TypeOK /\ RecordsSound /\ Accounted /\ Versioned /\ InStep /\ Caused
  /\ FailedForCause /\ OneHolder /\ HasOwner

-----------------------------------------------------------------------------
(* What a step may do.  The record of a run takes an edge:                 *)
Takes(r, to, error) ==
  /\ r \in Runs /\ Live(r) /\ Legal(rec[r].stage, to)
  /\ rec' = [rec EXCEPT ![r] = Updated(rec[r], to, error)]

(* A job moves the run whose current version it has, and works on, ends,   *)
(* or goes on to report a coverage limit.                                  *)
WorksOn(j, to) ==
  LET r == job[j].run
  IN  /\ Busy(j) /\ ~job[j].cancelled
      /\ job[j].version = rec[r].version
      /\ to # "failed"
      /\ Takes(r, to, rec[r].error)
      /\ \/ /\ to \in Automatic
            /\ job' = [job EXCEPT ![j].pc = to, ![j].version = @ + 1]
            /\ tasks' \in {tasks, [tasks EXCEPT ![r] = @ \union {j}]}
         \/ to \notin Automatic /\ Ends(j)
         \/ /\ to \notin Automatic
            /\ job' = [job EXCEPT ![j].pc = "reporting"]
            /\ UNCHANGED tasks
      /\ UNCHANGED <<mode, used, call, dropped>>

(* A job writes down that its run failed.                                  *)
WritesFailure(j) ==
  /\ job[j].pc = "failing"
  /\ job[j].version = rec[job[j].run].version
  /\ Takes(job[j].run, "failed", job[j].error)
  /\ Ends(j)
  /\ UNCHANGED <<mode, used, call, dropped>>

(* A job that the run does not depend on ends.                             *)
Leaves(j) ==
  /\ Busy(j)
  /\ ~(rec[job[j].run].stage \in Automatic /\ Owns(j, job[j].run))
  /\ Ends(j)
  /\ UNCHANGED <<mode, rec, used, call, dropped>>

(* A job gives up its work, for a cause.                                   *)
GivesUp(j) ==
  /\ job[j].pc \in Automatic \union {"reporting"}
  /\ \E why \in Errors :
       /\ Lost(j) \/ Stale(j) \/ why = "stage"
          \/ (why = "cancelled" /\ job[j].cancelled)
       /\ Fails(j, why)
  /\ UNCHANGED <<mode, rec, used, call, dropped>>

(* A person's decision is stored, and its continuation scheduled.          *)
IsDecided(c) ==
  \E r \in Runs, to \in Stages \ {"failed"} :
    /\ Takes(r, to, rec[r].error)
    /\ \/ to \notin Automatic /\ UNCHANGED job
       \/ \E j \in Jobs, kind \in {"baseline", "drafting"} :
            /\ to = IF kind = "baseline" THEN "generating_initial_tests"
                    ELSE "drafting_revision"
            /\ Schedule(j, kind, r, rec[r].version + 1, FALSE)
    /\ call' = [call EXCEPT ![c] = NoCall]
    /\ UNCHANGED <<mode, used, tasks, dropped>>

(* A record is there or it is Absent; the stages tell.                     *)
LEMMA LiveRecord ==
  ASSUME TypeOK, NEW r \in Runs
  PROVE  /\ Live(r) => rec[r] \in Records /\ rec[r].stage \in Stages
         /\ ~Live(r) => rec[r] = Absent /\ rec[r].stage \notin Stages
         /\ Live(r) <=> rec[r].stage \in Stages
         /\ rec[r].version \in Nat
         /\ rec[r].stage \in Automatic => Live(r)
<1>1. "absent" \notin Stages
  BY StagesAre DEF AutomaticStages, TerminalStages, Gates
<1>2. rec[r] \in Records \/ rec[r] = Absent
  BY DEF TypeOK
<1>. QED
  BY <1>1, <1>2 DEF Live, Absent, Records, Automatic

LEMMA JobType ==
  ASSUME TypeOK, NEW j \in Jobs
  PROVE  /\ job[j] \in JobStates /\ job[j].version \in Nat
         /\ Busy(j) => job[j].run \in Runs
         /\ job[j].pc \in Steps
BY DEF TypeOK, JobStates, Busy

(* What is added once keeps the one suite.                                 *)
LEMMA NoSecondSuite ==
  ASSUME NEW x, Sound(x), NEW to, Legal(x.stage, to)
  PROVE  LET arts == x.arts \o Adds(to)
         IN  ~ \E i, k \in DOMAIN arts :
                 i # k /\ arts[i] = "scenario_suite" /\ arts[k] = "scenario_suite"
<1> DEFINE arts == x.arts \o Adds(to)
           suites == {i \in 1 .. Len(arts) : arts[i] = "scenario_suite"}
<1>1. Sound(Updated(x, to, "none"))
  BY SoundUpdated DEF Errors
<1>2. Filed(arts, Tally(arts)) /\ Tally(arts).suites \in {0, 1}
  BY <1>1 DEF Sound, Updated, TallyAt, Records
<1>3. arts \in Seq(Artifacts) /\ Len(arts) \in Nat /\ DOMAIN arts = 1 .. Len(arts)
  BY <1>2 DEF Filed
<1> HIDE DEF arts
<1>4. IsFiniteSet(suites)
  BY <1>3, PlacesAreFinite
<1>5. Cardinality(suites) \in {0, 1}
  BY <1>2 DEF Tally, Count
<1>6. ASSUME NEW i \in suites, NEW k \in suites, i # k PROVE FALSE
  <2>1. IsFiniteSet({i}) /\ Cardinality({i}) = 1
    BY FS_Singleton
  <2>2. Cardinality({i, k}) = 2
    <3>1. k \notin {i}
      BY <1>6
    <3>2. Cardinality({i} \union {k}) = Cardinality({i}) + 1
      BY <2>1, <3>1, FS_AddElement, Zenon
    <3>3. {i, k} = {i} \union {k}
      OBVIOUS
    <3>4. Cardinality({i, k}) = Cardinality({i}) + 1
      BY <3>2, <3>3, Zenon
    <3>. QED
      BY <2>1, <3>4
  <2>3. {i, k} \subseteq suites
    BY <1>6
  <2>4. Cardinality({i, k}) <= Cardinality(suites)
    BY <2>3, <1>4, FS_Subset
  <2>. QED
    BY <2>2, <2>4, <1>5
<1>. QED
  BY <1>3, <1>6 DEF arts

(* Why a move is not refused, and why it is.                               *)
LEMMA RefusalNone ==
  ASSUME TypeOK, NEW r \in Runs, NEW version, NEW to, NEW adds,
         Refusal(r, version, to, adds) = "none"
  PROVE  /\ Live(r) /\ rec[r] \in Records /\ rec[r].stage \in Stages
         /\ rec[r].version = version /\ Legal(rec[r].stage, to)
BY LiveRecord DEF Refusal

LEMMA RefusalSome ==
  ASSUME TypeOK, RecordsSound, NEW r \in Runs, NEW version, NEW to,
         Live(r), rec[r].version = version, Legal(rec[r].stage, to)
  PROVE  Refusal(r, version, to, Adds(to)) = "none"
<1>1. Sound(rec[r])
  BY DEF RecordsSound
<1>2. ~ \E i, k \in DOMAIN (rec[r].arts \o Adds(to)) :
          /\ i # k
          /\ (rec[r].arts \o Adds(to))[i] = "scenario_suite"
          /\ (rec[r].arts \o Adds(to))[k] = "scenario_suite"
  BY <1>1, NoSecondSuite
<1>. QED
  BY <1>2 DEF Refusal

LEMMA RefusalIsAnError ==
  ASSUME NEW r, NEW version, NEW to, NEW adds
  PROVE  Refusal(r, version, to, adds) \in {"none", "not_found", "conflict", "stage",
                                            "invalid_state"}
BY DEF Refusal

(* A stage's work done: the job moves its run on, or gives up.             *)
LEMMA AdvanceIs ==
  ASSUME TypeOK, RecordsSound, Versioned, InStep,
         NEW j \in Jobs, NEW from \in Automatic, NEW to \in Stages \ {"failed"},
         NEW adds, NEW changed,
         Advance(j, from, to, adds, changed), Legal(from, to), adds = Adds(to),
         Live(job[j].run) /\ Legal(rec[job[j].run].stage, to) =>
           changed = Updated(rec[job[j].run], to, rec[job[j].run].error)
  PROVE  WorksOn(j, to) \/ GivesUp(j)
<1> DEFINE r == job[j].run
           why == Refusal(r, job[j].version, to, adds)
<1>1. /\ job[j].pc = from /\ ~job[j].cancelled
      /\ UNCHANGED <<mode, used, call, dropped>>
      /\ IF why # "none" THEN Fails(j, why) /\ UNCHANGED rec
         ELSE /\ rec' = [rec EXCEPT ![r] = changed]
              /\ IF to \in Automatic
                   THEN /\ job' = [job EXCEPT ![j].pc = to, ![j].version = @ + 1]
                        /\ UNCHANGED tasks
                   ELSE Ends(j)
  BY DEF Advance
<1>2. Busy(j) /\ r \in Runs /\ job[j].version \in Nat
  <2>1. from # "free"
    BY AutomaticAre DEF AutomaticStages
  <2>. QED
    BY <2>1, <1>1, JobType DEF Busy
<1>3. CASE why = "none"
  <2>1. Live(r) /\ rec[r].version = job[j].version /\ Legal(rec[r].stage, to)
    BY <1>2, <1>3, RefusalNone
  <2>2. Takes(r, to, rec[r].error)
    BY <1>1, <1>2, <1>3, <2>1 DEF Takes
  <2>. QED
    BY <1>1, <1>2, <1>3, <2>1, <2>2 DEF WorksOn
<1>4. CASE why # "none"
  <2>1. Lost(j) \/ Stale(j)
    <3>1. CASE Live(r) /\ rec[r].version = job[j].version
      <4>1. rec[r].stage = from
        BY <1>1, <1>2, <3>1 DEF InStep, Lost
      <4>. QED
        BY <4>1, <3>1, <1>2, <1>4, RefusalSome
    <3>2. CASE Live(r) /\ rec[r].version # job[j].version
      <4>1. job[j].version <= rec[r].version
        BY <1>2, <3>2 DEF Versioned, Lost
      <4>. QED
        BY <4>1, <1>2, <3>2, LiveRecord DEF Stale
    <3>. QED
      BY <3>1, <3>2 DEF Lost
  <2>2. why \in Errors
    BY RefusalIsAnError DEF Errors
  <2>3. Fails(j, why) /\ UNCHANGED rec
    BY <1>1, <1>4
  <2>4. job[j].pc \in Automatic \union {"reporting"} /\ UNCHANGED <<mode, used, call, dropped>>
    BY <1>1
  <2>5. UNCHANGED <<mode, rec, used, call, dropped>>
    BY <2>3, <2>4
  <2> HIDE DEF why, r
  <2>6. \E w \in Errors :
          /\ Lost(j) \/ Stale(j) \/ w = "stage"
             \/ (w = "cancelled" /\ job[j].cancelled)
          /\ Fails(j, w)
    BY <2>1, <2>2, <2>3, Zenon
  <2>. QED
    BY <2>4, <2>5, <2>6 DEF GivesUp
<1>. QED
  BY <1>3, <1>4

(* Moved, with what each move changes besides, is Updated.                 *)
LEMMA MovedIs ==
  ASSUME TypeOK, RecordsSound, NEW r \in Runs, Live(r), NEW to, NEW adds, adds = Adds(to),
         Legal(rec[r].stage, to)
  PROVE  /\ to \notin {"extracting", "failed"} =>
              [Moved(r, to, adds) EXCEPT !.pending = QuestionAt(to)] =
                Updated(rec[r], to, rec[r].error)
         /\ to \notin {"extracting", "failed"} /\ rec[r].stage \notin Gates /\ to \notin Gates =>
              Moved(r, to, adds) = Updated(rec[r], to, rec[r].error)
         /\ to = "extracting" =>
              [Moved(r, to, adds) EXCEPT !.source = FALSE] =
                Updated(rec[r], to, rec[r].error)
<1> DEFINE x == rec[r]
<1>1. x \in Records /\ x.stage \in Stages /\ x.pending = QuestionAt(x.stage)
  BY LiveRecord DEF RecordsSound, Sound
<1>2. \A s : s \notin Gates => QuestionAt(s) = "none"
  BY DEF Gates, QuestionAt
<1>3. to = "extracting" => to \notin Gates /\ x.stage \notin Gates
  BY <1>1, EdgesInto DEF Gates
<1>5. x = [stage |-> x.stage, version |-> x.version, source |-> x.source,
           pending |-> x.pending, arts |-> x.arts, error |-> x.error]
  BY <1>1 DEF Records
<1> HIDE DEF x
<1>6. Moved(r, to, adds) = [x EXCEPT !.stage = to, !.version = @ + 1, !.arts = @ \o adds]
  BY DEF Moved, x
<1>7. to \notin {"extracting", "failed"} =>
        [Moved(r, to, adds) EXCEPT !.pending = QuestionAt(to)] = Updated(x, to, x.error)
  BY <1>5, <1>6 DEF Updated
<1>8. to \notin {"extracting", "failed"} /\ x.stage \notin Gates /\ to \notin Gates =>
        Moved(r, to, adds) = Updated(x, to, x.error)
  <2>1. SUFFICES ASSUME to \notin {"extracting", "failed"}, x.pending = QuestionAt(to)
                 PROVE  Moved(r, to, adds) = Updated(x, to, x.error)
    BY <1>1, <1>2
  <2>. QED
    BY <2>1, <1>5, <1>6 DEF Updated
<1>9. to = "extracting" =>
        [Moved(r, to, adds) EXCEPT !.source = FALSE] = Updated(x, to, x.error)
  <2>1. SUFFICES ASSUME to = "extracting", x.pending = QuestionAt(to)
                 PROVE  [Moved(r, to, adds) EXCEPT !.source = FALSE] = Updated(x, to, x.error)
    BY <1>1, <1>2, <1>3
  <2>. QED
    BY <2>1, <1>5, <1>6 DEF Updated
<1>. QED
  BY <1>7, <1>8, <1>9 DEF x

LEMMA FailedIs ==
  ASSUME TypeOK, NEW j \in Jobs, job[j].run \in Runs, Live(job[j].run)
  PROVE  FailedRecord(j) = Updated(rec[job[j].run], "failed", job[j].error)
<1> DEFINE x == rec[job[j].run]
           error == job[j].error
<1>1. x \in Records
  BY LiveRecord
<1>2. Adds("failed") = <<>> /\ QuestionAt("failed") = "none"
  BY AddsAre DEF QuestionAt
<1>3. x = [stage |-> x.stage, version |-> x.version, source |-> x.source,
           pending |-> x.pending, arts |-> x.arts, error |-> x.error]
  BY <1>1 DEF Records
<1>4. FailedRecord(j) =
        [x EXCEPT !.stage = "failed", !.version = @ + 1, !.arts = @ \o <<>>, !.error = error,
                  !.pending = "none", !.source = FALSE]
  BY <1>3 DEF FailedRecord, Moved
<1> HIDE DEF x, error
<1>5. FailedRecord(j) = Updated(x, "failed", error)
  BY <1>2, <1>3, <1>4 DEF Updated
<1>. QED
  BY <1>5 DEF x, error

(* What Step does is what a stage's work does.                             *)
LEMMA StepIs ==
  ASSUME TypeOK, RecordsSound, Versioned, InStep,
         NEW j \in Jobs, NEW from \in Automatic,
         NEW to \in Stages \ {"failed", "extracting"}, NEW adds,
         Step(j, from, to, adds), Legal(from, to), adds = Adds(to), to \notin Gates
  PROVE  WorksOn(j, to) \/ GivesUp(j)
<1> DEFINE r == job[j].run
<1>1. Advance(j, from, to, adds, Moved(r, to, adds))
  BY DEF Step
<1>2. r \in Runs /\ job[j].pc = from
  BY <1>1, JobType, AutomaticAre DEF Advance, AutomaticStages, Busy
<1>3. ASSUME Live(r), Legal(rec[r].stage, to)
      PROVE  Moved(r, to, adds) = Updated(rec[r], to, rec[r].error)
  <2>1. \A s \in Gates : Legal(s, to) =>
          to \in {"generating_initial_tests", "contract_rejected", "drafting_revision",
                 "completed_no_revision", "applying_revision", "revision_rejected", "failed"}
    BY DEF Gates, Legal, Transitions
  <2>2. from \in Stages /\ from \notin Gates
    BY AutomaticAre DEF Automatic
  <2>3. to \notin {"generating_initial_tests", "contract_rejected", "drafting_revision",
                  "completed_no_revision", "applying_revision", "revision_rejected"}
    BY <2>2, EdgesInto DEF Gates
  <2>4. rec[r].stage \notin Gates
    BY <2>1, <2>3, <1>3
  <2>. QED
    BY <2>4, <1>2, <1>3, MovedIs
<1>. QED
  BY <1>1, <1>3, AdvanceIs

(* The moves that do more than Step: ingestion forgets the source text,    *)
(* and a person is asked.                                                  *)
LEMMA StagesWork ==
  ASSUME TypeOK, RecordsSound, Versioned, InStep, NEW j \in Jobs,
         \/ Ingested(j) \/ Compiled(j) \/ InitialBatch(j) \/ CoverageShort(j) \/ Frozen(j)
         \/ BaselineBegun(j) \/ BaselineEvaluated(j) \/ FindingsShown(j) \/ NothingFound(j)
         \/ Drafted(j) \/ Applied(j) \/ Retested(j)
  PROVE  GivesUp(j) \/ \E to \in Stages : WorksOn(j, to)
<1> USE EdgesTaken, AddsAre
<1>0. /\ Automatic = AutomaticStages /\ Stages = AutomaticStages \union Gates \union TerminalStages
      /\ \A s \in {"awaiting_contract", "awaiting_finding_review",
                   "awaiting_revision_confirmation"} : s \in Stages \ {"failed"}
  BY AutomaticAre, StagesAre DEF AutomaticStages, TerminalStages, Gates
<1>1. job[j].pc # "free" => job[j].run \in Runs
  BY JobType DEF Busy
<1>2. CASE Ingested(j)
  <2>1. job[j].run \in Runs
    BY <1>1, <1>2 DEF Ingested, Advance
  <2>2. Live(job[j].run) /\ Legal(rec[job[j].run].stage, "extracting") =>
          [Moved(job[j].run, "extracting", <<"policy_document">>) EXCEPT !.source = FALSE]
            = Updated(rec[job[j].run], "extracting", rec[job[j].run].error)
    BY <2>1, MovedIs
  <2>3. WorksOn(j, "extracting") \/ GivesUp(j)
    BY <1>0, <1>2, <2>2, AdvanceIs DEF Ingested, AutomaticStages
  <2>. QED
    BY <2>3, <1>0 DEF AutomaticStages
<1>3. CASE Compiled(j)
  <2>1. job[j].run \in Runs
    BY <1>1, <1>3 DEF Compiled, Advance
  <2>2. Live(job[j].run) /\ Legal(rec[job[j].run].stage, "awaiting_contract") =>
          [Moved(job[j].run, "awaiting_contract", <<"policy_ir">>) EXCEPT !.pending = "contract"]
            = Updated(rec[job[j].run], "awaiting_contract", rec[job[j].run].error)
    BY <2>1, MovedIs DEF QuestionAt
  <2>3. WorksOn(j, "awaiting_contract") \/ GivesUp(j)
    BY <1>0, <1>3, <2>2, AdvanceIs DEF Compiled, AutomaticStages
  <2>. QED
    BY <2>3, <1>0 DEF Gates
<1>4. CASE FindingsShown(j) \/ NothingFound(j)
  <2>1. job[j].run \in Runs
    BY <1>1, <1>4 DEF FindingsShown, NothingFound, Advance
  <2> DEFINE adds == <<"finding_report", "metrics_report">>
             M(to, q) == [Moved(job[j].run, to, adds) EXCEPT !.pending = q]
  <2>2. ASSUME NEW to \in {"awaiting_finding_review", "completed_no_findings"},
               Live(job[j].run), Legal(rec[job[j].run].stage, to)
        PROVE  M(to, QuestionAt(to)) = Updated(rec[job[j].run], to, rec[job[j].run].error)
    <3>1. adds = Adds(to) /\ to \notin {"extracting", "failed"}
      OBVIOUS
    <3> HIDE DEF adds
    <3>. QED
      BY <2>1, <2>2, <3>1, MovedIs
  <2>3. CASE FindingsShown(j)
    <3>1. Advance(j, "analyzing", "awaiting_finding_review", adds,
                  M("awaiting_finding_review", QuestionAt("awaiting_finding_review")))
      BY <2>3 DEF FindingsShown, QuestionAt
    <3>2. WorksOn(j, "awaiting_finding_review") \/ GivesUp(j)
      BY <1>0, <3>1, <2>2, AdvanceIs DEF AutomaticStages
    <3>. QED
      BY <3>2, <1>0 DEF Gates
  <2>4. CASE NothingFound(j)
    <3>1. Advance(j, "analyzing", "completed_no_findings", adds,
                  M("completed_no_findings", QuestionAt("completed_no_findings")))
      BY <2>4 DEF NothingFound, QuestionAt
    <3>2. WorksOn(j, "completed_no_findings") \/ GivesUp(j)
      BY <1>0, <3>1, <2>2, AdvanceIs DEF AutomaticStages, TerminalStages
    <3>. QED
      BY <3>2, <1>0 DEF TerminalStages
  <2>. QED
    BY <1>4, <2>3, <2>4
<1>5. CASE Drafted(j)
  <2>1. job[j].run \in Runs
    BY <1>1, <1>5 DEF Drafted, Advance
  <2>2. Live(job[j].run) /\ Legal(rec[job[j].run].stage, "awaiting_revision_confirmation") =>
          [Moved(job[j].run, "awaiting_revision_confirmation", <<"revision_proposal">>)
             EXCEPT !.pending = "revision"]
            = Updated(rec[job[j].run], "awaiting_revision_confirmation", rec[job[j].run].error)
    BY <2>1, MovedIs DEF QuestionAt
  <2>3. WorksOn(j, "awaiting_revision_confirmation") \/ GivesUp(j)
    BY <1>0, <1>5, <2>2, AdvanceIs DEF Drafted, AutomaticStages
  <2>. QED
    BY <2>3, <1>0 DEF Gates
<1>6. CASE InitialBatch(j)
  <2>1. WorksOn(j, "provisional_execution") \/ GivesUp(j)
    BY <1>0, <1>6, StepIs DEF InitialBatch, AutomaticStages, Gates
  <2>. QED
    BY <2>1, <1>0 DEF AutomaticStages
<1>7. CASE CoverageShort(j)
  <2>1. WorksOn(j, "targeting_coverage") \/ GivesUp(j)
    BY <1>0, <1>7, StepIs DEF CoverageShort, AutomaticStages, Gates
  <2>. QED
    BY <2>1, <1>0 DEF AutomaticStages
<1>8. CASE Frozen(j)
  <2>1. WorksOn(j, "freezing_suite") \/ GivesUp(j)
    BY <1>0, <1>8, StepIs DEF Frozen, AutomaticStages, Gates
  <2>. QED
    BY <2>1, <1>0 DEF AutomaticStages
<1>9. CASE BaselineBegun(j)
  <2>1. WorksOn(j, "baseline_execution") \/ GivesUp(j)
    BY <1>0, <1>9, StepIs DEF BaselineBegun, AutomaticStages, Gates
  <2>. QED
    BY <2>1, <1>0 DEF AutomaticStages
<1>10. CASE BaselineEvaluated(j)
  <2>1. WorksOn(j, "analyzing") \/ GivesUp(j)
    BY <1>0, <1>10, StepIs DEF BaselineEvaluated, AutomaticStages, Gates
  <2>. QED
    BY <2>1, <1>0 DEF AutomaticStages
<1>11. CASE Applied(j)
  <2>1. WorksOn(j, "retesting") \/ GivesUp(j)
    BY <1>0, <1>11, StepIs DEF Applied, AutomaticStages, Gates
  <2>. QED
    BY <2>1, <1>0 DEF AutomaticStages
<1>12. CASE Retested(j)
  <2>1. WorksOn(j, "complete") \/ GivesUp(j)
    BY <1>0, <1>12, StepIs DEF Retested, AutomaticStages, TerminalStages, Gates
  <2>. QED
    BY <2>1, <1>0 DEF TerminalStages
<1>. QED
  BY <1>2, <1>3, <1>4, <1>5, <1>6, <1>7, <1>8, <1>9, <1>10, <1>11, <1>12

(* The stages' failures, and a coverage limit.                             *)
LEMMA StagesEnd ==
  ASSUME TypeOK, RecordsSound, Versioned, InStep, NEW j \in Jobs,
         StageFails(j) \/ CancelSeen(j) \/ CoverageLimit(j) \/ Reported(j)
  PROVE  GivesUp(j) \/ Leaves(j) \/ \E to \in Stages : WorksOn(j, to)
<1> DEFINE r == job[j].run
<1>0. /\ "free" \notin Automatic \union {"reporting"} /\ Fallible \subseteq Automatic
      /\ "targeting_coverage" \in Automatic
      /\ "coverage_limit_exceeded" \in Stages \ (Automatic \union Gates)
  BY StagesAre, AutomaticAre DEF AutomaticStages, TerminalStages, Gates, Fallible
<1>1. CASE StageFails(j)
  BY <1>0, <1>1 DEF StageFails, GivesUp, Errors
<1>2. CASE CancelSeen(j)
  BY <1>0, <1>2 DEF CancelSeen, GivesUp, Errors
<1>3. CASE CoverageLimit(j)
  <2> DEFINE why == Refusal(r, job[j].version, "coverage_limit_exceeded",
                            <<"coverage_snapshot">>)
  <2>1. /\ job[j].pc = "targeting_coverage" /\ ~job[j].cancelled
        /\ UNCHANGED <<mode, used, call, dropped>>
        /\ why # "none" => Fails(j, why) /\ UNCHANGED rec
        /\ why = "none" =>
             /\ rec' = [rec EXCEPT ![r] = Moved(r, "coverage_limit_exceeded",
                                                <<"coverage_snapshot">>)]
             /\ job' = [job EXCEPT ![j].pc = "reporting"]
             /\ UNCHANGED tasks
    BY <1>3 DEF CoverageLimit
  <2>2. Busy(j) /\ r \in Runs /\ job[j].version \in Nat
    BY <1>0, <2>1, JobType DEF Busy
  <2>3. CASE why = "none"
    <3>1. Live(r) /\ rec[r].version = job[j].version
          /\ Legal(rec[r].stage, "coverage_limit_exceeded")
      BY <2>2, <2>3, RefusalNone
    <3>2. rec[r].stage \notin Gates
      BY <2>2, <3>1, EdgesInto, LiveRecord DEF Gates
    <3>3. Moved(r, "coverage_limit_exceeded", <<"coverage_snapshot">>) =
            Updated(rec[r], "coverage_limit_exceeded", rec[r].error)
      BY <1>0, <2>2, <3>1, <3>2, MovedIs, AddsAre
    <3>4. Takes(r, "coverage_limit_exceeded", rec[r].error)
      BY <2>1, <2>2, <2>3, <3>1, <3>3 DEF Takes
    <3>5. WorksOn(j, "coverage_limit_exceeded")
      BY <1>0, <2>1, <2>2, <2>3, <3>1, <3>4 DEF WorksOn
    <3>. QED
      BY <3>5, <1>0
  <2>4. CASE why # "none"
    <3>1. Lost(j) \/ Stale(j)
      <4>1. CASE Live(r) /\ rec[r].version = job[j].version
        <5>1. rec[r].stage = "targeting_coverage"
          BY <1>0, <2>1, <2>2, <4>1 DEF InStep, Lost
        <5>. QED
          BY <5>1, <4>1, <2>2, <2>4, RefusalSome, EdgesTaken, AddsAre
      <4>2. CASE Live(r) /\ rec[r].version # job[j].version
        <5>1. job[j].version <= rec[r].version
          BY <2>2, <4>2 DEF Versioned, Lost
        <5>. QED
          BY <5>1, <2>2, <4>2, LiveRecord DEF Stale
      <4>. QED
        BY <4>1, <4>2 DEF Lost
    <3>2. why \in Errors
      BY RefusalIsAnError DEF Errors
    <3>3. Fails(j, why) /\ UNCHANGED <<mode, rec, used, call, dropped>>
      BY <2>1, <2>4
    <3> HIDE DEF why, r
    <3>4. \E w \in Errors :
            /\ Lost(j) \/ Stale(j) \/ w = "stage"
               \/ (w = "cancelled" /\ job[j].cancelled)
            /\ Fails(j, w)
      BY <3>1, <3>2, <3>3, Zenon
    <3>. QED
      BY <1>0, <2>1, <3>3, <3>4 DEF GivesUp
  <2>. QED
    BY <2>3, <2>4
<1>4. CASE Reported(j)
  <2>1. job[j].pc = "reporting" /\ Busy(j) /\ r \in Runs
        /\ UNCHANGED <<mode, rec, used, call, dropped>>
    BY <1>0, <1>4, JobType DEF Reported, Busy
  <2>2. CASE Live(r)
    <3>1. job[j].version # rec[r].version
      BY <2>1, <2>2 DEF InStep, Lost
    <3>2. Ends(j)
      BY <1>4, <2>2 DEF Reported
    <3>. QED
      BY <2>1, <3>1, <3>2 DEF Leaves, Owns
  <2>3. CASE ~Live(r)
    <3>1. Fails(j, "not_found") /\ Lost(j) /\ "not_found" \in Errors
      BY <1>4, <2>3 DEF Reported, Lost, Errors
    <3>2. \E w \in Errors :
            /\ Lost(j) \/ Stale(j) \/ w = "stage"
               \/ (w = "cancelled" /\ job[j].cancelled)
            /\ Fails(j, w)
      BY <3>1, Zenon
    <3>. QED
      BY <2>1, <3>2 DEF GivesUp
  <2>. QED
    BY <2>2, <2>3
<1>. QED
  BY <1>1, <1>2, <1>3, <1>4

(* Where a job that is not at a stage begins its work or ends.             *)
LEMMA JobsEnd ==
  ASSUME TypeOK, RecordsSound, Accounted, Versioned, InStep, NEW j \in Jobs,
         \/ Missed(j) \/ Started(j) \/ RevisionAccepted(j) \/ RevisionRejected(j)
         \/ ClaimLost(j) \/ CancelledOutside(j) \/ FailureHandled(j)
  PROVE  WritesFailure(j) \/ Leaves(j) \/ \E to \in Stages : WorksOn(j, to)
<1> DEFINE r == job[j].run
<1>0. /\ job[j].pc \in {"new", "claiming", "failing"} /\ Busy(j) /\ r \in Runs
  BY JobType DEF Missed, Started, RevisionAccepted, RevisionRejected, ClaimLost,
                 CancelledOutside, FailureHandled, Busy
<1>1. CASE Missed(j)
  <2>1. ~(rec[r].stage \in Automatic /\ Owns(j, r))
    <3>1. CASE ~Live(r)
      BY <1>0, <3>1, LiveRecord
    <3>2. CASE job[j].kind = "revision"
      BY <1>1, <3>2 DEF Owns, Missed
    <3>3. CASE job[j].kind = "start" /\ rec[r].stage # "queued"
      <4>1. job[j].version = 0
        BY <1>1, <3>3 DEF Missed, Versioned
      <4>2. rec[r].stage \in Automatic => rec[r].version # 0
        BY <1>0, <3>3, LiveRecord DEF Versioned, Automatic
      <4>. QED
        BY <4>1, <4>2 DEF Owns
    <3>. QED
      BY <1>1, <3>1, <3>2, <3>3 DEF Missed, Expects
  <2>. QED
    BY <1>0, <1>1, <2>1 DEF Missed, Leaves
<1>2. CASE Started(j)
  <2>1. /\ Live(r) /\ rec[r].version = job[j].version /\ Legal(rec[r].stage, "ingesting")
        /\ rec[r].stage \in Stages
    BY <1>0, <1>2, RefusalNone DEF Started
  <2>2. rec[r].stage \notin Gates /\ "ingesting" \in Automatic /\ "ingesting" \in Stages \ Gates
    BY <2>1, EdgesInto, AutomaticAre, StagesAre DEF AutomaticStages, Gates
  <2>3. Moved(r, "ingesting", <<>>) = Updated(rec[r], "ingesting", rec[r].error)
    BY <1>0, <2>1, <2>2, MovedIs, AddsAre
  <2>4. Takes(r, "ingesting", rec[r].error)
    BY <1>0, <1>2, <2>1, <2>3 DEF Started, Takes
  <2>5. WorksOn(j, "ingesting")
    BY <1>0, <1>2, <2>1, <2>2, <2>4 DEF Started, WorksOn
  <2>. QED
    BY <2>2, <2>5
<1>3. CASE RevisionAccepted(j)
  <2>1. Live(r) /\ rec[r].version = job[j].version /\ Legal(rec[r].stage, "applying_revision")
    BY <1>0, <1>3, RefusalNone DEF RevisionAccepted
  <2>2. "applying_revision" \in Automatic /\ "applying_revision" \in Stages
    BY AutomaticAre, StagesAre DEF AutomaticStages
  <2>3. [Moved(r, "applying_revision", <<>>) EXCEPT !.pending = "none"] =
          Updated(rec[r], "applying_revision", rec[r].error)
    BY <1>0, <2>1, MovedIs, AddsAre DEF QuestionAt
  <2>4. Takes(r, "applying_revision", rec[r].error)
    BY <1>0, <1>3, <2>1, <2>3 DEF RevisionAccepted, Takes
  <2>5. WorksOn(j, "applying_revision")
    BY <1>0, <1>3, <2>1, <2>2, <2>4 DEF RevisionAccepted, WorksOn
  <2>. QED
    BY <2>2, <2>5
<1>4. CASE RevisionRejected(j)
  <2>1. Live(r) /\ rec[r].version = job[j].version /\ Legal(rec[r].stage, "revision_rejected")
    BY <1>0, <1>4, RefusalNone DEF RevisionRejected
  <2>2. "revision_rejected" \notin Automatic /\ "revision_rejected" \in Stages
    BY AutomaticAre, StagesAre DEF AutomaticStages, TerminalStages
  <2>3. [Moved(r, "revision_rejected", <<>>) EXCEPT !.pending = "none"] =
          Updated(rec[r], "revision_rejected", rec[r].error)
    BY <1>0, <2>1, MovedIs, AddsAre DEF QuestionAt
  <2>4. Takes(r, "revision_rejected", rec[r].error)
    BY <1>0, <1>4, <2>1, <2>3 DEF RevisionRejected, Takes
  <2>5. WorksOn(j, "revision_rejected")
    BY <1>0, <1>4, <2>1, <2>2, <2>4 DEF RevisionRejected, WorksOn
  <2>. QED
    BY <2>2, <2>5
<1>5. CASE ClaimLost(j)
  <2>1. ~(rec[r].stage \in Automatic /\ Owns(j, r))
    <3>1. CASE job[j].kind = "revision"
      BY <1>5, <3>1 DEF Owns, ClaimLost
    <3>2. CASE Refusal(r, job[j].version, "ingesting", <<>>) # "none"
      <4>1. SUFFICES ASSUME rec[r].stage \in Automatic, Owns(j, r), job[j].kind # "revision"
                     PROVE  FALSE
        BY <3>1
      <4>2. Live(r) /\ job[j].version = rec[r].version
        BY <4>1, <1>0, LiveRecord DEF Owns
      <4>3. job[j].kind = "start" /\ job[j].pc = "claiming"
        BY <4>1, <1>5 DEF ClaimLost, Accounted
      <4>4. rec[r].version = 0 /\ rec[r].stage = "queued"
        BY <4>1, <4>2, <4>3, <1>0 DEF Versioned, Automatic
      <4>. QED
        BY <4>2, <4>4, <1>0, <3>2, RefusalSome, EdgesTaken, AddsAre
    <3>. QED
      BY <1>5, <3>1, <3>2 DEF ClaimLost
  <2>. QED
    BY <1>0, <1>5, <2>1 DEF ClaimLost, Leaves
<1>6. CASE CancelledOutside(j)
  <2>1. ~Owns(j, r)
    BY <1>6 DEF CancelledOutside, Owns
  <2>. QED
    BY <1>0, <1>6, <2>1 DEF CancelledOutside, Leaves
<1>7. CASE FailureHandled(j)
  <2>1. /\ job[j].pc = "failing" /\ Ends(j) /\ UNCHANGED <<mode, used, call, dropped>>
        /\ Refusal(r, job[j].version, "failed", <<>>) = "none" =>
             rec' = [rec EXCEPT ![r] = FailedRecord(j)]
        /\ Refusal(r, job[j].version, "failed", <<>>) # "none" => UNCHANGED rec
    BY <1>7 DEF FailureHandled
  <2>2. CASE Refusal(r, job[j].version, "failed", <<>>) = "none"
    <3>1. Live(r) /\ rec[r].version = job[j].version /\ Legal(rec[r].stage, "failed")
      BY <1>0, <2>2, RefusalNone
    <3>2. FailedRecord(j) = Updated(rec[r], "failed", job[j].error)
      BY <1>0, <3>1, FailedIs
    <3>3. Takes(r, "failed", job[j].error)
      BY <1>0, <2>1, <2>2, <3>1, <3>2 DEF Takes
    <3>. QED
      BY <2>1, <3>1, <3>3 DEF WritesFailure
  <2>3. CASE Refusal(r, job[j].version, "failed", <<>>) # "none"
    <3>1. ~(rec[r].stage \in Automatic /\ Owns(j, r))
      <4>1. SUFFICES ASSUME rec[r].stage \in Automatic, Owns(j, r) PROVE FALSE
        OBVIOUS
      <4>2. Live(r) /\ job[j].version = rec[r].version /\ rec[r].stage \in Stages \ Terminal
        BY <4>1, <1>0, LiveRecord DEF Owns, Automatic
      <4>3. Legal(rec[r].stage, "failed")
        BY <4>2, FinalOrFallible
      <4>. QED
        BY <4>2, <4>3, <1>0, <2>3, RefusalSome, AddsAre
    <3>. QED
      BY <1>0, <2>1, <2>3, <3>1 DEF Leaves
  <2>. QED
    BY <2>2, <2>3
<1>. QED
  BY <1>1, <1>2, <1>3, <1>4, <1>5, <1>6, <1>7

(* The decisions of people.                                                *)
LEMMA DecisionsAre ==
  ASSUME TypeOK, RecordsSound, NEW c \in Calls,
         \/ \E j \in Jobs : ContractConfirmed(c, j) \/ FindingsAccepted(c, j)
         \/ ContractRejected(c) \/ NoFindingAccepted(c)
  PROVE  IsDecided(c)
<1> DEFINE r == call[c].run
           M(to) == [Moved(r, to, Adds(to)) EXCEPT !.pending = "none"]
<1>1. ASSUME NEW gate \in Gates, NEW to, NEW adds, Decides(c, gate, to, adds),
             adds = Adds(to), to \notin Gates \union {"extracting", "failed"}
      PROVE  /\ r \in Runs /\ Takes(r, to, rec[r].error) /\ rec[r].version = call[c].version
             /\ to \in Stages \ {"failed"}
             /\ call' = [call EXCEPT ![c] = NoCall]
             /\ UNCHANGED <<mode, used, tasks, dropped>>
  <2>1. r \in Runs
    BY <1>1 DEF Decides, Gates, TypeOK
  <2>2. Live(r) /\ rec[r].version = call[c].version /\ Legal(rec[r].stage, to)
        /\ rec[r].stage \in Stages
    BY <1>1, <2>1, RefusalNone DEF Decides
  <2>3. QuestionAt(to) = "none"
    BY <1>1 DEF QuestionAt, Gates
  <2>4. [Moved(r, to, adds) EXCEPT !.pending = "none"] = Updated(rec[r], to, rec[r].error)
    BY <1>1, <2>1, <2>2, <2>3, MovedIs
  <2>5. Takes(r, to, rec[r].error)
    BY <1>1, <2>1, <2>2, <2>4 DEF Decides, Takes
  <2>. QED
    BY <1>1, <2>1, <2>2, <2>5, EdgesInto DEF Decides
<1>2. /\ "awaiting_contract" \in Gates /\ "awaiting_finding_review" \in Gates
      /\ \A s \in {"generating_initial_tests", "contract_rejected", "drafting_revision",
                   "completed_no_revision"} : s \notin Gates \union {"extracting", "failed"}
      /\ "contract_rejected" \notin Automatic /\ "completed_no_revision" \notin Automatic
  BY AutomaticAre DEF Gates, AutomaticStages
<1>3. ASSUME NEW j \in Jobs, ContractConfirmed(c, j) PROVE IsDecided(c)
  <2>1. Decides(c, "awaiting_contract", "generating_initial_tests",
                <<"policy_ir", "policy_contract">>)
        /\ Schedule(j, "baseline", r, call[c].version + 1, FALSE)
    BY <1>3 DEF ContractConfirmed
  <2>2. /\ r \in Runs /\ Takes(r, "generating_initial_tests", rec[r].error)
        /\ rec[r].version = call[c].version
        /\ "generating_initial_tests" \in Stages \ {"failed"}
        /\ call' = [call EXCEPT ![c] = NoCall]
        /\ UNCHANGED <<mode, used, tasks, dropped>>
    BY <1>1, <1>2, <2>1, AddsAre
  <2>3. Schedule(j, "baseline", r, rec[r].version + 1, FALSE)
    BY <2>1, <2>2
  <2>. QED
    BY <2>2, <2>3 DEF IsDecided
<1>4. ASSUME NEW j \in Jobs, FindingsAccepted(c, j) PROVE IsDecided(c)
  <2>1. Decides(c, "awaiting_finding_review", "drafting_revision", <<"finding_report">>)
        /\ Schedule(j, "drafting", r, call[c].version + 1, FALSE)
    BY <1>4 DEF FindingsAccepted
  <2>2. /\ r \in Runs /\ Takes(r, "drafting_revision", rec[r].error)
        /\ rec[r].version = call[c].version
        /\ "drafting_revision" \in Stages \ {"failed"}
        /\ call' = [call EXCEPT ![c] = NoCall]
        /\ UNCHANGED <<mode, used, tasks, dropped>>
    BY <1>1, <1>2, <2>1, AddsAre
  <2>3. Schedule(j, "drafting", r, rec[r].version + 1, FALSE)
    BY <2>1, <2>2
  <2>. QED
    BY <2>2, <2>3 DEF IsDecided
<1>5. CASE ContractRejected(c)
  <2>1. Decides(c, "awaiting_contract", "contract_rejected", <<>>) /\ UNCHANGED job
    BY <1>5 DEF ContractRejected
  <2>2. /\ r \in Runs /\ Takes(r, "contract_rejected", rec[r].error)
        /\ "contract_rejected" \in Stages \ {"failed"}
        /\ call' = [call EXCEPT ![c] = NoCall]
        /\ UNCHANGED <<mode, used, tasks, dropped>>
    BY <1>1, <1>2, <2>1, AddsAre
  <2>. QED
    BY <1>2, <2>1, <2>2 DEF IsDecided
<1>6. CASE NoFindingAccepted(c)
  <2>1. Decides(c, "awaiting_finding_review", "completed_no_revision", <<"finding_report">>)
        /\ UNCHANGED job
    BY <1>6 DEF NoFindingAccepted
  <2>2. /\ r \in Runs /\ Takes(r, "completed_no_revision", rec[r].error)
        /\ "completed_no_revision" \in Stages \ {"failed"}
        /\ call' = [call EXCEPT ![c] = NoCall]
        /\ UNCHANGED <<mode, used, tasks, dropped>>
    BY <1>1, <1>2, <2>1, AddsAre
  <2>. QED
    BY <1>2, <2>1, <2>2 DEF IsDecided
<1>. QED
  BY <1>3, <1>4, <1>5, <1>6

(* Every step of the coordinator is one of these.                          *)
Outside ==
  \/ \E r \in Runs, j \in Jobs : Create(r, j) \/ RevisionRequested(r, j)
  \/ \E r \in Runs : CreateCached(r) \/ Delete(r) \/ Expire(r) \/ CancelGone(r)
  \/ \E j \in Jobs : RevisionDropped(j)

Asked(c) ==
  \/ Refused(c)
  \/ \E r \in Runs, gate \in {"awaiting_contract", "awaiting_finding_review"} :
       ReadsGate(c, gate, r)

Work(j) ==
  \/ Reads(j) \/ Continues(j) \/ WritesFailure(j) \/ Leaves(j) \/ GivesUp(j)
  \/ \E to \in Stages : WorksOn(j, to)

LEMMA StepKinds ==
  ASSUME CoordInv, [Next]_vars
  PROVE  \/ UNCHANGED vars
         \/ \E j \in Jobs : Work(j)
         \/ \E c \in Calls : IsDecided(c) \/ Asked(c)
         \/ Outside
<1>0. TypeOK /\ RecordsSound /\ Accounted /\ Versioned /\ InStep
  BY DEF CoordInv
<1>1. ASSUME NEW j \in Jobs, JobStep(j) PROVE Work(j)
  <2>1. CASE Reads(j) \/ Continues(j)
    BY <2>1 DEF Work
  <2>2. CASE \/ Missed(j) \/ Started(j) \/ RevisionAccepted(j) \/ RevisionRejected(j)
             \/ ClaimLost(j) \/ CancelledOutside(j) \/ FailureHandled(j)
    BY <1>0, <2>2, JobsEnd DEF Work
  <2>3. CASE StageFails(j) \/ CancelSeen(j) \/ CoverageLimit(j) \/ Reported(j)
    BY <1>0, <2>3, StagesEnd DEF Work
  <2>4. CASE \/ Ingested(j) \/ Compiled(j) \/ InitialBatch(j) \/ CoverageShort(j) \/ Frozen(j)
             \/ BaselineBegun(j) \/ BaselineEvaluated(j) \/ FindingsShown(j)
             \/ NothingFound(j) \/ Drafted(j) \/ Applied(j) \/ Retested(j)
    BY <1>0, <2>4, StagesWork DEF Work
  <2>. QED
    BY <1>1, <2>1, <2>2, <2>3, <2>4 DEF JobStep
<1>2. ASSUME NEW c \in Calls,
             \/ \E j \in Jobs : ContractConfirmed(c, j) \/ FindingsAccepted(c, j)
             \/ ContractRejected(c) \/ NoFindingAccepted(c)
      PROVE  IsDecided(c)
  BY <1>0, <1>2, DecisionsAre
<1>3. CASE Request
  BY <1>2, <1>3 DEF Request, Asked, Outside
<1>. QED
  BY <1>1, <1>3 DEF Next, Outside

-----------------------------------------------------------------------------
(* What the pieces of a step leave behind.                                 *)

LEMMA TakesEffect ==
  ASSUME TypeOK, RecordsSound, NEW r, NEW to, NEW error \in Errors, Takes(r, to, error)
  PROVE  /\ r \in Runs /\ rec[r] \in Records /\ rec[r].stage \in Stages \ Terminal
         /\ to \in Stages \ {"queued"}
         /\ rec' \in [Runs -> Records \union {Absent}]
         /\ rec'[r] \in Records /\ Sound(rec'[r]) /\ rec'[r] # Absent
         /\ rec'[r].stage = to /\ rec'[r].error = error
         /\ rec'[r].version = rec[r].version + 1
         /\ \A s \in Runs \ {r} : rec'[s] = rec[s]
         /\ \A s \in Runs : Live(s)' <=> Live(s)
<1>1. r \in Runs /\ Live(r) /\ Legal(rec[r].stage, to)
      /\ rec' = [rec EXCEPT ![r] = Updated(rec[r], to, error)]
  BY DEF Takes
<1>2. rec[r] \in Records /\ rec[r].stage \in Stages /\ Sound(rec[r])
  BY <1>1, LiveRecord DEF RecordsSound
<1>3. to \in Stages \ {"queued"} /\ rec[r].stage \notin Terminal
  BY <1>1, <1>2, EdgesInto
<1>4. Sound(Updated(rec[r], to, error))
  BY <1>1, <1>2, SoundUpdated
<1>5. /\ Updated(rec[r], to, error) \in Records
      /\ Updated(rec[r], to, error).stage = to
      /\ Updated(rec[r], to, error).error = error
      /\ Updated(rec[r], to, error).version = rec[r].version + 1
  BY <1>2, <1>4 DEF Sound, Updated, Records
<1>6. \A x \in Records : x # Absent
  BY StagesAre DEF Records, Absent, AutomaticStages, TerminalStages, Gates
<1>7. rec \in [Runs -> Records \union {Absent}]
  BY DEF TypeOK
<1>8. rec'[r] = Updated(rec[r], to, error) /\ \A s \in Runs \ {r} : rec'[s] = rec[s]
  BY <1>1, <1>7
<1>9. rec' \in [Runs -> Records \union {Absent}]
  BY <1>1, <1>5, <1>7
<1>10. \A s \in Runs : Live(s)' <=> Live(s)
  BY <1>1, <1>5, <1>6, <1>8 DEF Live
<1>. QED
  BY <1>1, <1>2, <1>3, <1>4, <1>5, <1>6, <1>8, <1>9, <1>10

LEMMA NoJobType == NoJob \in JobStates /\ NoJob.pc = "free" /\ NoJob.run = None
BY DEF NoJob, JobStates, Kinds, Steps, Errors

LEMMA EndsEffect ==
  ASSUME TypeOK, NEW j \in Jobs, job[j].run \in Runs, Ends(j)
  PROVE  /\ job' \in [Jobs -> JobStates]
         /\ job'[j] = NoJob
         /\ \A k \in Jobs \ {j} : job'[k] = job[k]
         /\ tasks' \in [Runs -> SUBSET Jobs]
         /\ \A s \in Runs : tasks'[s] \subseteq tasks[s]
         /\ j \notin tasks'[job[j].run]
<1>1. job \in [Jobs -> JobStates] /\ tasks \in [Runs -> SUBSET Jobs]
  BY DEF TypeOK
<1>. QED
  BY <1>1, NoJobType DEF Ends

LEMMA FailsEffect ==
  ASSUME TypeOK, NEW j \in Jobs, NEW why \in Errors, Fails(j, why)
  PROVE  /\ job' \in [Jobs -> JobStates] /\ tasks' = tasks
         /\ job'[j].pc = "failing" /\ job'[j].error = why /\ job'[j].cancelled = FALSE
         /\ job'[j].run = job[j].run /\ job'[j].version = job[j].version
         /\ \A k \in Jobs \ {j} : job'[k] = job[k]
<1>1. job \in [Jobs -> JobStates] /\ job[j] \in JobStates
  BY DEF TypeOK
<1>2. job' = [job EXCEPT ![j] = [job[j] EXCEPT !.pc = "failing", !.error = why,
                                               !.cancelled = FALSE]] /\ tasks' = tasks
  BY <1>1 DEF Fails
<1>3. [job[j] EXCEPT !.pc = "failing", !.error = why, !.cancelled = FALSE] \in JobStates
  BY <1>1 DEF JobStates, Steps
<1>. QED
  BY <1>1, <1>2, <1>3 DEF JobStates

LEMMA ScheduleEffect ==
  ASSUME TypeOK, NEW j \in Jobs, NEW kind \in Kinds, NEW r \in Runs, NEW version \in Nat,
         NEW awaited \in BOOLEAN, Schedule(j, kind, r, version, awaited)
  PROVE  /\ job' \in [Jobs -> JobStates]
         /\ ~Busy(j) /\ job[j] = NoJob
         /\ job'[j].pc = "new" /\ job'[j].kind = kind /\ job'[j].run = r
         /\ job'[j].version = version /\ job'[j].cancelled = FALSE
         /\ \A k \in Jobs \ {j} : job'[k] = job[k]
<1>1. job \in [Jobs -> JobStates]
  BY DEF TypeOK
<1>2. [NoJob EXCEPT !.kind = kind, !.run = r, !.pc = "new", !.version = version,
                    !.awaited = awaited] \in JobStates
  BY NoJobType DEF JobStates, Steps
<1>. QED
  BY <1>1, <1>2, NoJobType DEF Schedule, Busy, JobStates, NoJob

(* A run is moved on.  Of the jobs only those in S change, one at most: a  *)
(* job of that run, or a free slot.                                        *)
IsMoved(r, to, error, S) ==
  /\ S \subseteq Jobs /\ \A j, k \in S : j = k
  /\ to \in Automatic => S # {}
  /\ \A j \in S : Busy(j) => job[j].run = r
  /\ Takes(r, to, error) /\ error \in Errors
  /\ IF to = "failed" THEN error = "stage" \/ (error = "cancelled" /\ r \in dropped)
     ELSE error = rec[r].error
  /\ job' \in [Jobs -> JobStates]
  /\ \A k \in Jobs \ S : job'[k] = job[k]
  /\ \A j \in S :
       IF to \in Automatic
         THEN /\ job'[j].run = r /\ job'[j].version = rec[r].version + 1
              /\ ~job'[j].cancelled
              /\ \/ job'[j].pc = to
                 \/ /\ job'[j].pc = "new"
                    /\ to = IF job'[j].kind = "baseline" THEN "generating_initial_tests"
                            ELSE "drafting_revision"
                    /\ job'[j].kind \in {"baseline", "drafting"}
         ELSE \/ job'[j] = NoJob /\ j \notin tasks'[r]
              \/ /\ job'[j].pc = "reporting" /\ job'[j].version = rec[r].version
                 /\ job'[j].run = r /\ ~job'[j].cancelled
  /\ tasks' \in [Runs -> SUBSET Jobs]
  /\ \A s \in Runs : tasks'[s] \subseteq IF s = r THEN tasks[s] \union S ELSE tasks[s]
  /\ call' \in [Calls -> CallStates]
  /\ \A c \in Calls : call'[c].gate # "none" => call'[c].run \in Runs
  /\ UNCHANGED <<mode, used, dropped>>

LEMMA WorksIsMoved ==
  ASSUME TypeOK, RecordsSound, NEW j \in Jobs, NEW to, WorksOn(j, to)
  PROVE  \E r \in Runs, error \in Errors : IsMoved(r, to, error, {j})
<1>1. job \in [Jobs -> JobStates] /\ job[j] \in JobStates /\ tasks \in [Runs -> SUBSET Jobs]
      /\ call \in [Calls -> CallStates]
      /\ \A c \in Calls : call[c].gate # "none" => call[c].run \in Runs
  BY DEF TypeOK
<1>2. PICK r \in Runs : r = job[j].run /\ Live(r)
  BY DEF WorksOn, Takes
<1>3. /\ Busy(j) /\ ~job[j].cancelled /\ job[j].version = rec[r].version /\ to # "failed"
      /\ Takes(r, to, rec[r].error) /\ UNCHANGED <<mode, used, call, dropped>>
  BY <1>2 DEF WorksOn
<1>4. rec[r].error \in Errors
  BY <1>2, LiveRecord DEF Records
<1>5. CASE /\ to \in Automatic
           /\ job' = [job EXCEPT ![j].pc = to, ![j].version = @ + 1]
           /\ tasks' \in {tasks, [tasks EXCEPT ![r] = @ \union {j}]}
  <2>1. job' = [job EXCEPT ![j] = [job[j] EXCEPT !.pc = to, !.version = @ + 1]]
    BY <1>1, <1>5
  <2>2. [job[j] EXCEPT !.pc = to, !.version = @ + 1] \in JobStates
    BY <1>1, <1>5 DEF JobStates, Steps
  <2>3. /\ job' \in [Jobs -> JobStates]
        /\ \A k \in Jobs \ {j} : job'[k] = job[k]
        /\ job'[j] = [job[j] EXCEPT !.pc = to, !.version = @ + 1]
    BY <1>1, <2>1, <2>2
  <2>4. /\ job'[j].pc = to /\ job'[j].version = rec[r].version + 1
        /\ job'[j].run = r /\ job'[j].cancelled = job[j].cancelled
    BY <1>1, <1>2, <1>3, <2>3 DEF JobStates
  <2>5. /\ tasks' \in [Runs -> SUBSET Jobs]
        /\ \A s \in Runs : tasks'[s] \subseteq IF s = r THEN tasks[s] \union {j} ELSE tasks[s]
    BY <1>1, <1>5
  <2>6. IsMoved(r, to, rec[r].error, {j})
    BY <1>1, <1>2, <1>3, <1>4, <1>5, <2>3, <2>4, <2>5 DEF IsMoved
  <2>. QED
    BY <1>4, <2>6
<1>6. CASE to \notin Automatic /\ Ends(j)
  <2>1. /\ job' \in [Jobs -> JobStates] /\ job'[j] = NoJob
        /\ \A k \in Jobs \ {j} : job'[k] = job[k]
        /\ tasks' \in [Runs -> SUBSET Jobs]
        /\ \A s \in Runs : tasks'[s] \subseteq tasks[s]
        /\ j \notin tasks'[r]
    BY <1>2, <1>6, EndsEffect
  <2>2. IsMoved(r, to, rec[r].error, {j})
    BY <1>1, <1>2, <1>3, <1>4, <1>6, <2>1 DEF IsMoved
  <2>. QED
    BY <1>4, <2>2
<1>7. CASE to \notin Automatic /\ job' = [job EXCEPT ![j].pc = "reporting"] /\ UNCHANGED tasks
  <2>1. job' = [job EXCEPT ![j] = [job[j] EXCEPT !.pc = "reporting"]]
    BY <1>1, <1>7
  <2>2. [job[j] EXCEPT !.pc = "reporting"] \in JobStates
    BY <1>1 DEF JobStates, Steps
  <2>3. /\ job' \in [Jobs -> JobStates]
        /\ \A k \in Jobs \ {j} : job'[k] = job[k]
        /\ job'[j] = [job[j] EXCEPT !.pc = "reporting"]
    BY <1>1, <2>1, <2>2
  <2>4. /\ job'[j].pc = "reporting" /\ job'[j].version = rec[r].version
        /\ job'[j].run = r /\ job'[j].cancelled = job[j].cancelled
    BY <1>1, <1>2, <1>3, <2>3 DEF JobStates
  <2>5. IsMoved(r, to, rec[r].error, {j})
    BY <1>1, <1>2, <1>3, <1>4, <1>7, <2>3, <2>4 DEF IsMoved
  <2>. QED
    BY <1>4, <2>5
<1>. QED
  BY <1>2, <1>5, <1>6, <1>7 DEF WorksOn

LEMMA FailureIsMoved ==
  ASSUME CoordInv, NEW j \in Jobs, WritesFailure(j)
  PROVE  \E r \in Runs, error \in Errors : IsMoved(r, "failed", error, {j})
<1>0. TypeOK /\ Caused /\ "failed" \notin Automatic /\ "failing" # "free"
  BY AutomaticAre DEF CoordInv, AutomaticStages
<1>1. PICK r \in Runs : r = job[j].run /\ Live(r)
  BY DEF WritesFailure, Takes
<1>2. /\ job[j].pc = "failing" /\ job[j].version = rec[r].version
      /\ Takes(r, "failed", job[j].error) /\ Ends(j) /\ UNCHANGED <<mode, used, call, dropped>>
  BY <1>1 DEF WritesFailure
<1>3. job[j].error \in Errors /\ rec[r].version \in Nat
  BY <1>0, JobType, LiveRecord DEF JobStates
<1>4. job[j].error = "stage" \/ (job[j].error = "cancelled" /\ r \in dropped)
  BY <1>0, <1>1, <1>2, <1>3 DEF Caused, Lost, Stale
<1>5. /\ job' \in [Jobs -> JobStates] /\ job'[j] = NoJob
      /\ \A k \in Jobs \ {j} : job'[k] = job[k]
      /\ tasks' \in [Runs -> SUBSET Jobs]
      /\ \A s \in Runs : tasks'[s] \subseteq tasks[s]
      /\ j \notin tasks'[r]
  BY <1>0, <1>1, <1>2, EndsEffect
<1>6. IsMoved(r, "failed", job[j].error, {j})
  BY <1>0, <1>1, <1>2, <1>3, <1>4, <1>5 DEF IsMoved, TypeOK
<1>. QED
  BY <1>3, <1>6

LEMMA DecisionIsMoved ==
  ASSUME TypeOK, RecordsSound, NEW c \in Calls, IsDecided(c)
  PROVE  \E r \in Runs, to \in Stages, error \in Errors, S \in SUBSET Jobs :
           IsMoved(r, to, error, S)
<1>1. PICK r \in Runs, to \in Stages \ {"failed"} :
        /\ Takes(r, to, rec[r].error)
        /\ \/ to \notin Automatic /\ UNCHANGED job
           \/ \E j \in Jobs, kind \in {"baseline", "drafting"} :
                /\ to = IF kind = "baseline" THEN "generating_initial_tests"
                        ELSE "drafting_revision"
                /\ Schedule(j, kind, r, rec[r].version + 1, FALSE)
        /\ call' = [call EXCEPT ![c] = NoCall]
        /\ UNCHANGED <<mode, used, tasks, dropped>>
  BY DEF IsDecided
<1>2. rec[r].error \in Errors /\ rec[r].version \in Nat
  BY <1>1, LiveRecord DEF Records, Takes
<1>3. /\ call' \in [Calls -> CallStates]
      /\ \A d \in Calls : call'[d].gate # "none" => call'[d].run \in Runs
  <2>1. NoCall \in CallStates /\ NoCall.gate = "none"
    BY DEF NoCall, CallStates
  <2>. QED
    BY <1>1, <2>1 DEF TypeOK
<1>4. CASE to \notin Automatic /\ UNCHANGED job
  <2>1. IsMoved(r, to, rec[r].error, {})
    BY <1>1, <1>2, <1>3, <1>4 DEF IsMoved, TypeOK
  <2>. QED
    BY <1>2, <2>1
<1>5. ASSUME NEW j \in Jobs, NEW kind \in {"baseline", "drafting"},
             to = IF kind = "baseline" THEN "generating_initial_tests"
                  ELSE "drafting_revision",
             Schedule(j, kind, r, rec[r].version + 1, FALSE)
      PROVE  IsMoved(r, to, rec[r].error, {j})
  <2>1. /\ job' \in [Jobs -> JobStates]
        /\ ~Busy(j)
        /\ job'[j].pc = "new" /\ job'[j].kind = kind /\ job'[j].run = r
        /\ job'[j].version = rec[r].version + 1 /\ job'[j].cancelled = FALSE
        /\ \A k \in Jobs \ {j} : job'[k] = job[k]
    <3>1. kind \in Kinds /\ rec[r].version + 1 \in Nat /\ FALSE \in BOOLEAN
      BY <1>2, <1>5 DEF Kinds
    <3>. QED
      BY <1>5, <3>1, ScheduleEffect
  <2>2. to \in Automatic
    BY <1>5, AutomaticAre DEF AutomaticStages
  <2>. QED
    BY <1>1, <1>2, <1>3, <1>5, <2>1, <2>2 DEF IsMoved, TypeOK
<1>. QED
  BY <1>1, <1>2, <1>4, <1>5

-----------------------------------------------------------------------------
(* Moving a run on keeps the invariant: the run has a new version, which   *)
(* no job had before.                                                      *)
LEMMA MovedKeeps ==
  ASSUME CoordInv, NEW r \in Runs, NEW to, NEW error, NEW S, IsMoved(r, to, error, S)
  PROVE  CoordInv'
<1>0. /\ TypeOK /\ RecordsSound /\ Accounted /\ Versioned /\ InStep /\ Caused
      /\ FailedForCause /\ OneHolder /\ HasOwner
  BY DEF CoordInv
<1>1. /\ S \subseteq Jobs /\ \A j, k \in S : j = k
      /\ to \in Automatic => S # {}
      /\ \A j \in S : Busy(j) => job[j].run = r
      /\ Takes(r, to, error) /\ error \in Errors
      /\ job' \in [Jobs -> JobStates]
      /\ \A k \in Jobs \ S : job'[k] = job[k]
      /\ tasks' \in [Runs -> SUBSET Jobs]
      /\ \A s \in Runs : tasks'[s] \subseteq IF s = r THEN tasks[s] \union S ELSE tasks[s]
      /\ call' \in [Calls -> CallStates]
      /\ \A c \in Calls : call'[c].gate # "none" => call'[c].run \in Runs
      /\ UNCHANGED <<mode, used, dropped>>
  BY DEF IsMoved
<1>2. ASSUME NEW j \in S, to \in Automatic
      PROVE  /\ job'[j].run = r /\ job'[j].version = rec[r].version + 1
             /\ ~job'[j].cancelled
             /\ \/ job'[j].pc = to
                \/ /\ job'[j].pc = "new"
                   /\ to = IF job'[j].kind = "baseline" THEN "generating_initial_tests"
                           ELSE "drafting_revision"
                   /\ job'[j].kind \in {"baseline", "drafting"}
  BY <1>2 DEF IsMoved
<1>3. ASSUME NEW j \in S, to \notin Automatic
      PROVE  \/ job'[j] = NoJob /\ j \notin tasks'[r]
             \/ /\ job'[j].pc = "reporting" /\ job'[j].version = rec[r].version
                /\ job'[j].run = r /\ ~job'[j].cancelled
  BY <1>3 DEF IsMoved
<1>4. /\ rec' \in [Runs -> Records \union {Absent}]
      /\ rec[r].stage \in Stages \ Terminal
      /\ Sound(rec'[r]) /\ rec'[r] # Absent
      /\ rec'[r].stage = to /\ rec'[r].error = error
      /\ rec'[r].version = rec[r].version + 1
      /\ \A s \in Runs \ {r} : rec'[s] = rec[s]
      /\ \A s \in Runs : Live(s)' <=> Live(s)
      /\ to # "queued"
  BY <1>0, <1>1, TakesEffect
<1>5. /\ Live(r) /\ rec[r].version \in Nat /\ \A s \in Runs : rec[s].version \in Nat
      /\ \A k \in Jobs : job[k].version \in Nat /\ (Busy(k) => job[k].run \in Runs)
  BY <1>0, <1>1, LiveRecord, JobType DEF Takes
<1>6. NoJob.pc = "free" /\ NoJob.run = None /\ None \notin Runs /\ ~NoJob.cancelled
  BY NoJobType, NoneAssumption DEF NoJob
<1>7. /\ "free" \notin Automatic /\ "new" \notin Automatic /\ "claiming" \notin Automatic
      /\ "failing" \notin Automatic /\ "reporting" \notin Automatic
  BY AutomaticAre DEF AutomaticStages
<1>8. \A k \in Jobs \ S : Busy(k) /\ job[k].run = r => job[k].version < rec'[r].version
  BY <1>0, <1>4, <1>5 DEF Versioned, Lost
(* The jobs in S, whatever becomes of them.                                *)
<1>9. ASSUME NEW j \in S
      PROVE  /\ \/ job'[j] = NoJob /\ j \notin tasks'[r] /\ to \notin Automatic
                \/ /\ job'[j].pc # "free" /\ job'[j].run = r
                   /\ job'[j].version <= rec'[r].version
                   /\ job'[j].version = rec'[r].version <=> to \in Automatic
             /\ ~job'[j].cancelled
             /\ job'[j].pc \notin {"claiming", "failing"}
             /\ job'[j].pc = "new" => job'[j].kind \in {"baseline", "drafting"}
  <2>1. CASE to \in Automatic
    BY <2>1, <1>2, <1>4, <1>5, <1>7
  <2>2. CASE to \notin Automatic
    BY <2>2, <1>3, <1>4, <1>5, <1>6
  <2>. QED
    BY <2>1, <2>2
<1>10. \A k \in Jobs : k \in S \/ (k \notin S /\ job'[k] = job[k])
  BY <1>1
<1>11. ASSUME NEW k \in Jobs, ~Busy(k) PROVE job[k] = NoJob
  BY <1>11, <1>0 DEF Accounted
<1>12. TypeOK'
  <2>1. \A k \in Jobs : job'[k].pc # "free" => job'[k].run \in Runs
    BY <1>5, <1>6, <1>9, <1>10 DEF Busy
  <2>. QED
    BY <1>0, <1>1, <1>4, <2>1 DEF TypeOK
<1>13. RecordsSound'
  BY <1>0, <1>4 DEF RecordsSound
<1>14. Accounted'
  <2>1. \A s \in Runs : Live(s)' => s \in used'
    BY <1>0, <1>1, <1>4 DEF Accounted
  <2>2. \A k \in Jobs : IF Busy(k)' THEN job'[k].run \in used' ELSE job'[k] = NoJob
    <3>1. r \in used
      BY <1>0, <1>5 DEF Accounted
    <3>. QED
      BY <3>1, <1>0, <1>1, <1>6, <1>9, <1>10 DEF Accounted, Busy
  <2>3. ASSUME NEW s \in Runs, NEW k \in tasks'[s] PROVE Busy(k)' /\ job'[k].run = s
    <3>1. CASE k \in S
      <4>1. s = r
        BY <3>1, <2>3, <1>0, <1>1 DEF Accounted
      <4>. QED
        BY <3>1, <4>1, <2>3, <1>9 DEF Busy
    <3>2. CASE k \notin S
      BY <3>2, <2>3, <1>0, <1>1, <1>10 DEF Accounted, Busy
    <3>. QED
      BY <3>1, <3>2
  <2>4. \A k \in Jobs : job'[k].pc = "claiming" => job'[k].kind \in {"start", "revision"}
    BY <1>0, <1>9, <1>10 DEF Accounted
  <2>. QED
    BY <2>1, <2>2, <2>3, <2>4 DEF Accounted
<1>15. Versioned'
  <2>1. \A s \in Runs : rec'[s].stage = "queued" => rec'[s].version = 0
    BY <1>0, <1>4 DEF Versioned
  <2>2. \A s \in Runs : Live(s)' /\ rec'[s].version = 0 =>
          rec'[s].stage \in {"queued"} \union Terminal
    BY <1>0, <1>4, <1>5 DEF Versioned
  <2>3. \A k \in Jobs : job'[k].kind = "start" /\ job'[k].pc \in {"new", "claiming"} =>
          job'[k].version = 0
    BY <1>0, <1>9, <1>10 DEF Versioned
  <2>4. ASSUME NEW k \in Jobs, Busy(k)', ~Lost(k)'
        PROVE  job'[k].version <= rec'[job'[k].run].version
    <3>1. CASE k \in S
      BY <3>1, <2>4, <1>6, <1>9 DEF Busy
    <3>2. CASE k \notin S
      <4>1. job'[k] = job[k] /\ Busy(k) /\ job[k].run \in Runs /\ Live(job[k].run)
        BY <3>2, <2>4, <1>4, <1>5, <1>10 DEF Busy, Lost
      <4>2. CASE job[k].run = r
        BY <4>1, <4>2, <3>2, <1>4, <1>5, <1>8
      <4>3. CASE job[k].run # r
        BY <4>1, <4>3, <1>0, <1>4 DEF Versioned, Lost
      <4>. QED
        BY <4>2, <4>3
    <3>. QED
      BY <3>1, <3>2
  <2>. QED
    BY <2>1, <2>2, <2>3, <2>4 DEF Versioned
<1>16. InStep'
  <2>1. ASSUME NEW k \in Jobs \ S, Busy(k)', ~Lost(k)',
               job'[k].version = rec'[job'[k].run].version
        PROVE  job[k].run \in Runs \ {r} /\ rec'[job[k].run] = rec[job[k].run] /\ Busy(k)
               /\ ~Lost(k) /\ job'[k] = job[k]
    <3>1. job'[k] = job[k] /\ Busy(k) /\ job[k].run \in Runs
      BY <2>1, <1>5, <1>10 DEF Busy
    <3>2. job[k].run # r
      BY <2>1, <3>1, <1>4, <1>5, <1>8
    <3>. QED
      BY <3>1, <3>2, <2>1, <1>4 DEF Lost
  <2>2. ASSUME NEW j \in S, Busy(j)', job'[j].version = rec'[job'[j].run].version
        PROVE  /\ job'[j].run = r /\ to \in Automatic
               /\ \/ job'[j].pc = to
                  \/ /\ job'[j].pc = "new"
                     /\ to = IF job'[j].kind = "baseline" THEN "generating_initial_tests"
                             ELSE "drafting_revision"
    BY <2>2, <1>2, <1>6, <1>9 DEF Busy
  <2>. QED
    BY <2>1, <2>2, <1>0, <1>4, <1>7, <1>10 DEF InStep
<1>17. Caused'
  <2>1. ASSUME NEW k \in Jobs \ S, Busy(k)
        PROVE  /\ job'[k] = job[k]
               /\ Lost(k) => Lost(k)'
               /\ Stale(k) => Stale(k)'
    BY <2>1, <1>4, <1>5, <1>10 DEF Lost, Stale
  <2>2. \A k \in Jobs \ S : ~Busy(k) => ~job'[k].cancelled /\ job'[k].pc = "free"
    BY <1>6, <1>10, <1>11
  <2>. QED
    BY <2>1, <2>2, <1>0, <1>1, <1>9 DEF Caused
<1>18. FailedForCause'
  <2>1. to = "failed" => error = "stage" \/ (error = "cancelled" /\ r \in dropped)
    BY DEF IsMoved
  <2>. QED
    BY <2>1, <1>0, <1>1, <1>4 DEF FailedForCause
<1>19. ASSUME NEW k \in Jobs \ S, NEW s \in Runs
       PROVE  /\ Holds(k, s)' => s # r /\ Holds(k, s)
              /\ Owns(k, s) /\ s # r => Owns(k, s)'
  <2>1. ~(job[k].run = r /\ job[k].version = rec'[r].version)
    <3>1. CASE Busy(k)
      BY <3>1, <1>4, <1>5, <1>8
    <3>2. CASE ~Busy(k)
      BY <3>2, <1>6, <1>11
    <3>. QED
      BY <3>1, <3>2
  <2>. QED
    BY <2>1, <1>4, <1>10 DEF Holds, Owns
<1>20. OneHolder'
  <2>1. ASSUME NEW s \in Runs \ {r}, NEW j \in S PROVE ~Holds(j, s)'
    BY <1>6, <1>9 DEF Holds
  <2>. QED
    BY <2>1, <1>0, <1>1, <1>4, <1>10, <1>19 DEF OneHolder
<1>21. HasOwner'
  <2>1. ASSUME NEW s \in Runs \ {r}, rec'[s].stage \in Automatic, s \notin dropped'
        PROVE  \E k \in Jobs : Owns(k, s)'
    <3>1. PICK k \in Jobs : Owns(k, s)
      BY <2>1, <1>0, <1>1, <1>4 DEF HasOwner
    <3>2. k \notin S
      <4>1. job[k].run = s /\ s # r
        BY <3>1, <2>1 DEF Owns
      <4>. QED
        BY <4>1, <1>1, <1>6, <1>11
    <3>. QED
      BY <3>1, <3>2, <1>19
  <2>2. ASSUME to \in Automatic PROVE \E j \in Jobs : Owns(j, r)'
    <3>1. PICK j \in S : TRUE
      BY <2>2, <1>1
    <3>2. Owns(j, r)'
      BY <2>2, <1>2, <1>4, <1>7 DEF Owns
    <3>. QED
      BY <3>1, <3>2, <1>1
  <2>. QED
    BY <2>1, <2>2, <1>4 DEF HasOwner
<1>. QED
  BY <1>12, <1>13, <1>14, <1>15, <1>16, <1>17, <1>18, <1>20, <1>21 DEF CoordInv

(* A job, or a person through it, changes what that job is about and       *)
(* nothing else; the run it belongs to stays as it is.                     *)
Quiet(j) ==
  /\ UNCHANGED <<mode, rec, used, call>>
  /\ dropped \subseteq dropped' /\ dropped' \in SUBSET Runs
  /\ job' \in [Jobs -> JobStates]
  /\ \A k \in Jobs \ {j} : job'[k] = job[k]
  /\ tasks' \in [Runs -> SUBSET Jobs]

(* It ends, and its run does not depend on it.                             *)
QuietEnd(j) ==
  /\ Quiet(j)
  /\ Busy(j) /\ job'[j] = NoJob
  /\ ~(rec[job[j].run].stage \in Automatic /\ Owns(j, job[j].run))
  /\ \A s \in Runs : tasks'[s] \subseteq tasks[s]
  /\ j \notin tasks'[job[j].run]

(* It begins or goes on, for a run that was drawn: it takes hold of no     *)
(* run, keeps one that depends on it, and gives up for a cause.            *)
QuietWork(j, r) ==
  /\ Quiet(j)
  /\ r \in used /\ job'[j].run = r /\ job'[j].pc # "free"
  /\ Busy(j) => job[j].run = r
  /\ \A s \in Runs : tasks'[s] \subseteq IF s = r THEN tasks[s] \union {j} ELSE tasks[s]
  /\ job'[j].pc = "claiming" => job'[j].kind \in {"start", "revision"}
  /\ job'[j].kind = "start" /\ job'[j].pc \in {"new", "claiming"} => job'[j].version = 0
  /\ Live(r) => job'[j].version <= rec[r].version
  /\ Live(r) /\ job'[j].version = rec[r].version =>
       /\ job'[j].pc \in Automatic => rec[r].stage = job'[j].pc
       /\ job'[j].pc = "new" /\ job'[j].kind = "baseline" =>
            rec[r].stage = "generating_initial_tests"
       /\ job'[j].pc = "new" /\ job'[j].kind = "drafting" =>
            rec[r].stage = "drafting_revision"
       /\ job'[j].pc # "reporting"
  /\ job'[j].cancelled => ~Live(r) \/ r \in dropped'
  /\ job'[j].pc = "failing" =>
       \/ ~Live(r) \/ (Live(r) /\ job'[j].version < rec[r].version)
       \/ job'[j].error = "stage"
       \/ job'[j].error = "cancelled" /\ r \in dropped'
  /\ rec[r].stage \in Automatic /\ Holds(j, r)' => Holds(j, r)
  /\ rec[r].stage \in Automatic /\ r \notin dropped' /\ Owns(j, r) => Owns(j, r)'

LEMMA QuietKeeps ==
  ASSUME CoordInv, NEW j \in Jobs, QuietEnd(j) \/ \E r \in Runs : QuietWork(j, r)
  PROVE  CoordInv'
<1>0. /\ TypeOK /\ RecordsSound /\ Accounted /\ Versioned /\ InStep /\ Caused
      /\ FailedForCause /\ OneHolder /\ HasOwner
  BY DEF CoordInv
<1>1. /\ UNCHANGED <<mode, rec, used, call>>
      /\ dropped \subseteq dropped' /\ dropped' \in SUBSET Runs
      /\ job' \in [Jobs -> JobStates]
      /\ \A k \in Jobs \ {j} : job'[k] = job[k]
      /\ tasks' \in [Runs -> SUBSET Jobs]
  BY DEF QuietEnd, QuietWork, Quiet
<1>2. PICK r \in Runs :
        /\ r \in used /\ (Busy(j) => job[j].run = r)
        /\ \A s \in Runs : tasks'[s] \subseteq IF s = r THEN tasks[s] \union {j} ELSE tasks[s]
        /\ (QuietEnd(j) /\ r = job[j].run) \/ QuietWork(j, r)
  <2>1. CASE QuietEnd(j)
    <3>1. job[j].run \in Runs /\ job[j].run \in used
      BY <1>0, <2>1, JobType DEF QuietEnd, Accounted
    <3>. QED
      BY <2>1, <3>1 DEF QuietEnd
  <2>2. ASSUME NEW r \in Runs, QuietWork(j, r)
        PROVE  /\ r \in used /\ (Busy(j) => job[j].run = r)
               /\ \A s \in Runs :
                    tasks'[s] \subseteq IF s = r THEN tasks[s] \union {j} ELSE tasks[s]
    BY <2>2 DEF QuietWork
  <2>. QED
    BY <2>1, <2>2
<1>3. /\ NoJob.pc = "free" /\ NoJob.run = None /\ None \notin Runs /\ ~NoJob.cancelled
      /\ "free" \notin Automatic
  BY NoJobType, NoneAssumption, AutomaticAre DEF NoJob, AutomaticStages
(* What becomes of the job.                                                *)
<1>4. CASE QuietEnd(j) /\ r = job[j].run
  <2>1. /\ job'[j] = NoJob /\ \A s \in Runs : j \notin tasks'[s]
        /\ Busy(j) /\ ~(rec[r].stage \in Automatic /\ Owns(j, r))
    <3>1. \A s \in Runs : j \in tasks[s] => s = r
      BY <1>0, <1>4 DEF Accounted
    <3>. QED
      BY <1>4, <3>1 DEF QuietEnd
  <2>2. TypeOK'
    <3>1. \A k \in Jobs : job'[k].pc # "free" => job'[k].run \in Runs
      BY <1>0, <1>1, <1>3, <2>1 DEF TypeOK
    <3>. QED
      BY <1>0, <1>1, <3>1 DEF TypeOK
  <2>3. RecordsSound' /\ FailedForCause'
    BY <1>0, <1>1 DEF RecordsSound, FailedForCause, Live
  <2>4. Accounted'
    <3>1. \A s \in Runs : \A k \in tasks'[s] : Busy(k)' /\ job'[k].run = s
      BY <1>0, <1>1, <2>1, <1>4 DEF Accounted, Busy, QuietEnd
    <3>2. \A k \in Jobs : IF Busy(k)' THEN job'[k].run \in used' ELSE job'[k] = NoJob
      BY <1>0, <1>1, <1>3, <2>1 DEF Accounted, Busy
    <3>3. \A k \in Jobs : job'[k].pc = "claiming" => job'[k].kind \in {"start", "revision"}
      BY <1>0, <1>1, <1>3, <2>1 DEF Accounted
    <3>. QED
      BY <1>0, <1>1, <3>1, <3>2, <3>3 DEF Accounted, Live
  <2>5. Versioned'
    BY <1>0, <1>1, <1>3, <2>1 DEF Versioned, Live, Busy, Lost
  <2>6. InStep'
    BY <1>0, <1>1, <1>3, <2>1 DEF InStep, Live, Busy, Lost
  <2>7. Caused'
    BY <1>0, <1>1, <1>3, <2>1 DEF Caused, Live, Busy, Lost, Stale
  <2>8. OneHolder'
    BY <1>0, <1>1, <1>3, <2>1 DEF OneHolder, Holds
  <2>9. HasOwner'
    <3>1. ASSUME NEW s \in Runs, rec[s].stage \in Automatic, s \notin dropped
          PROVE  \E k \in Jobs : Owns(k, s)'
      <4>1. PICK k \in Jobs : Owns(k, s)
        BY <1>0, <3>1 DEF HasOwner
      <4>2. k # j
        BY <3>1, <4>1, <1>4, <2>1 DEF Owns
      <4>. QED
        BY <4>1, <4>2, <1>1 DEF Owns
    <3>. QED
      BY <1>1, <3>1 DEF HasOwner
  <2>. QED
    BY <2>2, <2>3, <2>4, <2>5, <2>6, <2>7, <2>8, <2>9 DEF CoordInv
<1>5. CASE QuietWork(j, r)
  <2>1. /\ job'[j].run = r /\ job'[j].pc # "free"
        /\ job'[j].pc = "claiming" => job'[j].kind \in {"start", "revision"}
        /\ job'[j].kind = "start" /\ job'[j].pc \in {"new", "claiming"} => job'[j].version = 0
        /\ Live(r) => job'[j].version <= rec[r].version
    BY <1>5 DEF QuietWork
  <2>2. TypeOK'
    <3>1. \A k \in Jobs : job'[k].pc # "free" => job'[k].run \in Runs
      BY <1>0, <1>1, <2>1 DEF TypeOK
    <3>. QED
      BY <1>0, <1>1, <3>1 DEF TypeOK
  <2>3. RecordsSound' /\ FailedForCause'
    BY <1>0, <1>1 DEF RecordsSound, FailedForCause, Live
  <2>4. Accounted'
    <3>1. \A s \in Runs : \A k \in tasks'[s] : Busy(k)' /\ job'[k].run = s
      <4>1. ASSUME NEW s \in Runs, NEW k \in tasks'[s] PROVE Busy(k)' /\ job'[k].run = s
        <5>1. k \in Jobs
          BY <1>1
        <5>2. CASE k = j
          <6>1. s = r
            BY <4>1, <5>2, <1>0, <1>2 DEF Accounted
          <6>. QED
            BY <5>2, <6>1, <2>1 DEF Busy
        <5>3. CASE k # j
          <6>1. k \in tasks[s]
            BY <4>1, <5>3, <1>2
          <6>. QED
            BY <5>1, <5>3, <6>1, <1>0, <1>1 DEF Accounted, Busy
        <5>. QED
          BY <5>2, <5>3
      <4>. QED
        BY <4>1
    <3>2. \A k \in Jobs : IF Busy(k)' THEN job'[k].run \in used' ELSE job'[k] = NoJob
      BY <1>0, <1>1, <1>2, <2>1 DEF Accounted, Busy
    <3>3. \A k \in Jobs : job'[k].pc = "claiming" => job'[k].kind \in {"start", "revision"}
      BY <1>0, <1>1, <2>1 DEF Accounted
    <3>. QED
      BY <1>0, <1>1, <3>1, <3>2, <3>3 DEF Accounted, Live
  <2>5. Versioned'
    BY <1>0, <1>1, <2>1 DEF Versioned, Live, Busy, Lost
  <2>6. InStep'
    <3>1. ASSUME Live(r), job'[j].version = rec[r].version
          PROVE  /\ job'[j].pc \in Automatic => rec[r].stage = job'[j].pc
                 /\ job'[j].pc = "new" /\ job'[j].kind = "baseline" =>
                      rec[r].stage = "generating_initial_tests"
                 /\ job'[j].pc = "new" /\ job'[j].kind = "drafting" =>
                      rec[r].stage = "drafting_revision"
                 /\ job'[j].pc # "reporting"
      BY <1>5, <3>1 DEF QuietWork
    <3>. QED
      BY <1>0, <1>1, <2>1, <3>1 DEF InStep, Live, Busy, Lost
  <2>7. Caused'
    <3>1. /\ job'[j].cancelled => ~Live(r) \/ r \in dropped'
          /\ job'[j].pc = "failing" =>
               \/ ~Live(r) \/ (Live(r) /\ job'[j].version < rec[r].version)
               \/ job'[j].error = "stage"
               \/ job'[j].error = "cancelled" /\ r \in dropped'
      BY <1>5 DEF QuietWork
    <3>. QED
      BY <1>0, <1>1, <2>1, <3>1 DEF Caused, Live, Lost, Stale
  <2>8. ASSUME NEW s \in Runs, NEW k \in Jobs, rec[s].stage \in Automatic
        PROVE  /\ Holds(k, s)' => Holds(k, s)
               /\ s \notin dropped' /\ Owns(k, s) => Owns(k, s)'
    <3>1. CASE k # j
      BY <3>1, <1>1 DEF Holds, Owns
    <3>2. CASE k = j /\ s # r
      <4>1. job[j].run # s
        BY <3>2, <1>0, <1>2, <1>3 DEF Accounted
      <4>. QED
        BY <3>2, <4>1, <2>1 DEF Holds, Owns
    <3>3. CASE k = j /\ s = r
      BY <2>8, <3>3, <1>5 DEF QuietWork
    <3>. QED
      BY <3>1, <3>2, <3>3
  <2>9. OneHolder'
    BY <1>0, <1>1, <2>8 DEF OneHolder
  <2>10. HasOwner'
    BY <1>0, <1>1, <2>8 DEF HasOwner
  <2>. QED
    BY <2>2, <2>3, <2>4, <2>5, <2>6, <2>7, <2>9, <2>10 DEF CoordInv
<1>. QED
  BY <1>2, <1>4, <1>5

LEMMA LeavesIsQuiet ==
  ASSUME CoordInv, NEW j \in Jobs, Leaves(j)
  PROVE  QuietEnd(j)
<1>0. TypeOK
  BY DEF CoordInv
<1>1. Busy(j) /\ job[j].run \in Runs /\ Ends(j) /\ UNCHANGED <<mode, rec, used, call, dropped>>
  BY <1>0, JobType DEF Leaves
<1>2. /\ job' \in [Jobs -> JobStates] /\ job'[j] = NoJob
      /\ \A k \in Jobs \ {j} : job'[k] = job[k]
      /\ tasks' \in [Runs -> SUBSET Jobs]
      /\ \A s \in Runs : tasks'[s] \subseteq tasks[s]
      /\ j \notin tasks'[job[j].run]
  BY <1>0, <1>1, EndsEffect
<1>. QED
  BY <1>0, <1>1, <1>2 DEF Leaves, QuietEnd, Quiet, TypeOK

LEMMA GivesUpIsQuiet ==
  ASSUME CoordInv, NEW j \in Jobs, GivesUp(j)
  PROVE  \E r \in Runs : QuietWork(j, r)
<1>0. TypeOK /\ Accounted /\ Versioned /\ Caused
  BY DEF CoordInv
<1>1. /\ job[j].pc \in Automatic \union {"reporting"} /\ job[j].pc \notin {"free", "new", "claiming"}
      /\ "failing" \notin Automatic
  BY AutomaticAre DEF GivesUp, AutomaticStages
<1>2. PICK r \in Runs : r = job[j].run /\ r \in used
  BY <1>0, <1>1, JobType DEF Accounted, Busy
<1>3. PICK why \in Errors :
        /\ Lost(j) \/ Stale(j) \/ why = "stage" \/ (why = "cancelled" /\ job[j].cancelled)
        /\ Fails(j, why)
  BY DEF GivesUp
<1>4. /\ job' \in [Jobs -> JobStates] /\ tasks' = tasks
      /\ job'[j].pc = "failing" /\ job'[j].error = why /\ job'[j].cancelled = FALSE
      /\ job'[j].run = r /\ job'[j].version = job[j].version
      /\ \A k \in Jobs \ {j} : job'[k] = job[k]
  BY <1>0, <1>2, <1>3, FailsEffect
<1>5. UNCHANGED <<mode, rec, used, call, dropped>>
  BY DEF GivesUp
<1>6. Quiet(j)
  BY <1>0, <1>4, <1>5 DEF Quiet, TypeOK
<1>7. \/ ~Live(r) \/ (Live(r) /\ job'[j].version < rec[r].version)
      \/ job'[j].error = "stage" \/ (job'[j].error = "cancelled" /\ r \in dropped')
  BY <1>0, <1>2, <1>3, <1>4, <1>5 DEF Lost, Stale, Caused
<1>8. /\ Holds(j, r)' => Holds(j, r)
      /\ Owns(j, r) => Owns(j, r)'
  BY <1>1, <1>2, <1>4, <1>5 DEF Holds, Owns
<1>9. Live(r) => job'[j].version <= rec[r].version
  BY <1>0, <1>1, <1>2, <1>4 DEF Versioned, Busy, Lost
<1>10. QuietWork(j, r)
  BY <1>0, <1>1, <1>2, <1>4, <1>6, <1>7, <1>8, <1>9 DEF QuietWork
<1>. QED
  BY <1>10

LEMMA ReadsIsQuiet ==
  ASSUME CoordInv, NEW j \in Jobs, Reads(j)
  PROVE  \E r \in Runs : QuietWork(j, r)
<1>0. TypeOK /\ Accounted /\ Versioned /\ Caused
  BY DEF CoordInv
<1>1. /\ job[j].pc = "new" /\ ~job[j].cancelled /\ job[j].kind \in {"start", "revision"}
      /\ rec[job[j].run].stage = Expects[job[j].kind]
      /\ job' = [job EXCEPT ![j].pc = "claiming", ![j].version = rec[job[j].run].version]
      /\ UNCHANGED <<mode, rec, used, tasks, call, dropped>>
  BY DEF Reads
<1>2. PICK r \in Runs : r = job[j].run /\ r \in used /\ Busy(j)
  BY <1>0, <1>1, JobType DEF Accounted, Busy
<1>3. rec[r].version \in Nat
  BY <1>0, LiveRecord
<1>4. /\ job' \in [Jobs -> JobStates]
      /\ job'[j].pc = "claiming" /\ job'[j].version = rec[r].version
      /\ job'[j].run = r /\ job'[j].kind = job[j].kind /\ job'[j].cancelled = FALSE
      /\ \A k \in Jobs \ {j} : job'[k] = job[k]
  <2>1. job \in [Jobs -> JobStates] /\ job[j] \in JobStates
    BY <1>0 DEF TypeOK
  <2>2. job' = [job EXCEPT ![j] = [job[j] EXCEPT !.pc = "claiming", !.version = rec[r].version]]
    BY <1>1, <1>2, <2>1
  <2>3. [job[j] EXCEPT !.pc = "claiming", !.version = rec[r].version] \in JobStates
    BY <1>3, <2>1 DEF JobStates, Steps
  <2>. QED
    BY <1>1, <1>2, <2>1, <2>2, <2>3 DEF JobStates
<1>5. Quiet(j)
  BY <1>0, <1>1, <1>4 DEF Quiet, TypeOK
<1>6. job[j].kind = "start" => rec[r].version = 0 /\ job[j].version = 0
  BY <1>0, <1>1, <1>2 DEF Versioned, Expects
<1>7. /\ Holds(j, r)' => Holds(j, r)
      /\ Owns(j, r) => Owns(j, r)'
  BY <1>1, <1>2, <1>4, <1>6 DEF Holds, Owns
<1>8. "claiming" \notin Automatic
  BY AutomaticAre DEF AutomaticStages
<1>9. QuietWork(j, r)
  BY <1>0, <1>1, <1>2, <1>3, <1>4, <1>5, <1>6, <1>7, <1>8 DEF QuietWork
<1>. QED
  BY <1>9

LEMMA ContinuesIsQuiet ==
  ASSUME CoordInv, NEW j \in Jobs, Continues(j)
  PROVE  \E r \in Runs : QuietWork(j, r)
<1>0. TypeOK /\ Accounted /\ Versioned /\ InStep /\ Caused
  BY DEF CoordInv
<1> DEFINE at == IF job[j].kind = "baseline" THEN "generating_initial_tests"
                 ELSE "drafting_revision"
<1>1. /\ job[j].pc = "new" /\ ~job[j].cancelled /\ job[j].kind \in {"baseline", "drafting"}
      /\ Live(job[j].run)
      /\ job' = [job EXCEPT ![j].pc = at]
      /\ tasks' = [tasks EXCEPT ![job[j].run] = @ \union {j}]
      /\ UNCHANGED <<mode, rec, used, call, dropped>>
  BY DEF Continues
<1>2. PICK r \in Runs : r = job[j].run /\ r \in used /\ Busy(j)
  BY <1>0, <1>1, JobType DEF Accounted, Busy
<1>3. at \in Automatic
  BY AutomaticAre DEF AutomaticStages
<1>4. \A s \in Automatic : s \notin {"free", "new", "claiming", "reporting", "failing"}
  BY AutomaticAre DEF AutomaticStages
<1> HIDE DEF at
<1>5. /\ job' \in [Jobs -> JobStates]
      /\ job'[j].pc = at /\ job'[j].version = job[j].version
      /\ job'[j].run = r /\ job'[j].kind = job[j].kind /\ job'[j].cancelled = FALSE
      /\ \A k \in Jobs \ {j} : job'[k] = job[k]
  <2>1. job \in [Jobs -> JobStates] /\ job[j] \in JobStates
    BY <1>0 DEF TypeOK
  <2>2. job' = [job EXCEPT ![j] = [job[j] EXCEPT !.pc = at]]
    BY <1>1, <2>1
  <2>3. [job[j] EXCEPT !.pc = at] \in JobStates
    BY <1>3, <2>1 DEF JobStates, Steps
  <2>. QED
    BY <1>1, <1>2, <2>1, <2>2, <2>3 DEF JobStates
<1>6. /\ tasks' \in [Runs -> SUBSET Jobs]
      /\ \A s \in Runs : tasks'[s] \subseteq IF s = r THEN tasks[s] \union {j} ELSE tasks[s]
  BY <1>0, <1>1, <1>2 DEF TypeOK
<1>7. Quiet(j)
  BY <1>0, <1>1, <1>5, <1>6 DEF Quiet, TypeOK
<1>8. /\ Holds(j, r)' => Holds(j, r)
      /\ Owns(j, r) => Owns(j, r)'
  BY <1>1, <1>2, <1>3, <1>4, <1>5 DEF Holds, Owns
<1>9. job[j].version <= rec[r].version
  BY <1>0, <1>1, <1>2 DEF Versioned, Lost
<1>10. job[j].version = rec[r].version => rec[r].stage = at
  BY <1>0, <1>1, <1>2 DEF InStep, Lost, at
<1>11. QuietWork(j, r)
  BY <1>0, <1>1, <1>2, <1>3, <1>4, <1>5, <1>6, <1>7, <1>8, <1>9, <1>10 DEF QuietWork
<1>. QED
  BY <1>11

LEMMA RequestedIsQuiet ==
  ASSUME CoordInv, NEW j \in Jobs, NEW r \in Runs, RevisionRequested(r, j)
  PROVE  QuietWork(j, r)
<1>0. TypeOK
  BY DEF CoordInv
<1>1. r \in used /\ UNCHANGED <<mode, rec, used, tasks, call, dropped>>
  BY DEF RevisionRequested
<1>2. /\ job' \in [Jobs -> JobStates]
      /\ ~Busy(j) /\ job[j] = NoJob
      /\ job'[j].pc = "new" /\ job'[j].kind = "revision" /\ job'[j].run = r
      /\ job'[j].version = 0 /\ job'[j].cancelled = FALSE
      /\ \A k \in Jobs \ {j} : job'[k] = job[k]
  <2>1. "revision" \in Kinds /\ 0 \in Nat /\ TRUE \in BOOLEAN
    BY DEF Kinds
  <2>. QED
    BY <1>0, <2>1, ScheduleEffect DEF RevisionRequested
<1>3. ~Holds(j, r)' /\ ~Owns(j, r)
  <2>1. NoJob.run # r
    BY NoneAssumption DEF NoJob
  <2>. QED
    BY <1>2, <2>1 DEF Holds, Owns
<1>4. "new" \notin Automatic /\ rec[r].version \in Nat
  BY <1>0, AutomaticAre, LiveRecord DEF AutomaticStages
<1>. QED
  BY <1>0, <1>1, <1>2, <1>3, <1>4 DEF QuietWork, Quiet, TypeOK

LEMMA DroppedIsQuiet ==
  ASSUME CoordInv, NEW j \in Jobs, RevisionDropped(j)
  PROVE  \E r \in Runs : QuietWork(j, r)
<1>0. TypeOK /\ Accounted /\ Versioned /\ InStep /\ Caused
  BY DEF CoordInv
<1>1. /\ job[j].awaited
      /\ job' = [job EXCEPT ![j].awaited = FALSE, ![j].cancelled = TRUE]
      /\ dropped' = dropped \union {job[j].run}
      /\ UNCHANGED <<mode, rec, used, tasks, call>>
  BY DEF RevisionDropped
<1>2. Busy(j)
  BY <1>0, <1>1 DEF Accounted, NoJob
<1>3. PICK r \in Runs : r = job[j].run /\ r \in used
  BY <1>0, <1>2, JobType DEF Accounted
<1>4. /\ job' \in [Jobs -> JobStates]
      /\ job'[j].pc = job[j].pc /\ job'[j].version = job[j].version
      /\ job'[j].run = r /\ job'[j].kind = job[j].kind /\ job'[j].error = job[j].error
      /\ \A k \in Jobs \ {j} : job'[k] = job[k]
  <2>1. job \in [Jobs -> JobStates] /\ job[j] \in JobStates
    BY <1>0 DEF TypeOK
  <2>2. job' = [job EXCEPT ![j] = [job[j] EXCEPT !.awaited = FALSE, !.cancelled = TRUE]]
    BY <1>1, <2>1
  <2>3. [job[j] EXCEPT !.awaited = FALSE, !.cancelled = TRUE] \in JobStates
    BY <2>1 DEF JobStates
  <2>. QED
    BY <1>1, <1>3, <2>1, <2>2, <2>3 DEF JobStates
<1>5. Quiet(j) /\ r \in dropped'
  BY <1>0, <1>1, <1>3, <1>4 DEF Quiet, TypeOK
<1>6. Holds(j, r)' => Holds(j, r)
  BY <1>1, <1>3, <1>4 DEF Holds
<1>7. Live(r) => job[j].version <= rec[r].version
  BY <1>0, <1>2, <1>3 DEF Versioned, Lost
<1>8. Live(r) /\ job[j].version = rec[r].version =>
       /\ job[j].pc \in Automatic => rec[r].stage = job[j].pc
       /\ job[j].pc = "new" /\ job[j].kind = "baseline" =>
            rec[r].stage = "generating_initial_tests"
       /\ job[j].pc = "new" /\ job[j].kind = "drafting" =>
            rec[r].stage = "drafting_revision"
       /\ job[j].pc # "reporting"
  BY <1>0, <1>2, <1>3 DEF InStep, Lost
<1>9. job[j].pc = "failing" =>
       \/ ~Live(r) \/ (Live(r) /\ job[j].version < rec[r].version)
       \/ job[j].error = "stage"
       \/ job[j].error = "cancelled" /\ r \in dropped
  BY <1>0, <1>3 DEF Caused, Lost, Stale
<1>10. /\ job[j].pc = "claiming" => job[j].kind \in {"start", "revision"}
       /\ job[j].kind = "start" /\ job[j].pc \in {"new", "claiming"} => job[j].version = 0
  BY <1>0 DEF Accounted, Versioned
<1>11. \A s \in Runs : tasks'[s] \subseteq IF s = r THEN tasks[s] \union {j} ELSE tasks[s]
  BY <1>1
<1>12. QuietWork(j, r)
  BY <1>1, <1>2, <1>3, <1>4, <1>5, <1>6, <1>7, <1>8, <1>9, <1>10, <1>11 DEF QuietWork, Busy
<1>. QED
  BY <1>12

(* A run is removed, or is found to be gone: nothing of it is left but     *)
(* jobs, cancelled or not, that no longer have a run.                      *)
Removed(r) ==
  /\ r \in used
  /\ rec' \in [Runs -> Records \union {Absent}]
  /\ rec'[r] = Absent /\ \A s \in Runs \ {r} : rec'[s] = rec[s]
  /\ job' \in [Jobs -> JobStates]
  /\ \A k \in Jobs :
       \/ job'[k] = job[k]
       \/ /\ Busy(k) /\ job[k].run = r
          /\ job'[k].run = r /\ job'[k].pc = job[k].pc /\ job'[k].kind = job[k].kind
          /\ job'[k].version = job[k].version /\ job'[k].error = job[k].error
  /\ tasks' \in [Runs -> SUBSET Jobs]
  /\ \A s \in Runs : tasks'[s] \subseteq tasks[s]
  /\ UNCHANGED <<mode, used, call, dropped>>

LEMMA RemovalIs ==
  ASSUME CoordInv, NEW r \in Runs, Delete(r) \/ Expire(r) \/ CancelGone(r)
  PROVE  Removed(r)
<1>0. TypeOK /\ Accounted
  BY DEF CoordInv
<1>1. /\ job \in [Jobs -> JobStates] /\ tasks \in [Runs -> SUBSET Jobs]
      /\ rec \in [Runs -> Records \union {Absent}]
  BY <1>0 DEF TypeOK
<1>2. \A k \in Jobs : \A b \in BOOLEAN :
        /\ [job[k] EXCEPT !.cancelled = b] \in JobStates
        /\ [job[k] EXCEPT !.cancelled = b].run = job[k].run
        /\ [job[k] EXCEPT !.cancelled = b].pc = job[k].pc
        /\ [job[k] EXCEPT !.cancelled = b].kind = job[k].kind
        /\ [job[k] EXCEPT !.cancelled = b].version = job[k].version
        /\ [job[k] EXCEPT !.cancelled = b].error = job[k].error
        /\ b = job[k].cancelled => [job[k] EXCEPT !.cancelled = b] = job[k]
  BY <1>1 DEF JobStates
<1>3. \A k \in Jobs : job[k].cancelled \in BOOLEAN
  BY <1>1 DEF JobStates
<1>4. ASSUME job' = [k \in Jobs |-> job'[k]],
             \A k \in Jobs : \E b \in BOOLEAN :
               /\ job'[k] = [job[k] EXCEPT !.cancelled = b]
               /\ b = job[k].cancelled \/ (Busy(k) /\ job[k].run = r)
      PROVE  /\ job' \in [Jobs -> JobStates]
             /\ \A k \in Jobs :
                  \/ job'[k] = job[k]
                  \/ /\ Busy(k) /\ job[k].run = r
                     /\ job'[k].run = r /\ job'[k].pc = job[k].pc /\ job'[k].kind = job[k].kind
                     /\ job'[k].version = job[k].version /\ job'[k].error = job[k].error
  <2>1. \A k \in Jobs : job'[k] \in JobStates
    BY <1>2, <1>4
  <2>2. job' \in [Jobs -> JobStates]
    BY <1>4, <2>1
  <2>3. ASSUME NEW k \in Jobs
        PROVE  \/ job'[k] = job[k]
               \/ /\ Busy(k) /\ job[k].run = r
                  /\ job'[k].run = r /\ job'[k].pc = job[k].pc /\ job'[k].kind = job[k].kind
                  /\ job'[k].version = job[k].version /\ job'[k].error = job[k].error
    <3>1. PICK b \in BOOLEAN : /\ job'[k] = [job[k] EXCEPT !.cancelled = b]
                               /\ b = job[k].cancelled \/ (Busy(k) /\ job[k].run = r)
      BY <1>4
    <3>2. CASE b = job[k].cancelled
      BY <1>2, <3>1, <3>2
    <3>3. CASE Busy(k) /\ job[k].run = r
      BY <1>2, <3>1, <3>3
    <3>. QED
      BY <3>1, <3>2, <3>3
  <2>. QED
    BY <2>2, <2>3
<1>5. CASE Delete(r)
  <2>1. job' = [k \in Jobs |-> [job[k] EXCEPT !.cancelled = @ \/ k \in tasks[r]]]
    BY <1>5 DEF Delete
  <2>2. ASSUME NEW k \in Jobs
        PROVE  \E b \in BOOLEAN :
                 /\ job'[k] = [job[k] EXCEPT !.cancelled = b]
                 /\ b = job[k].cancelled \/ (Busy(k) /\ job[k].run = r)
    <3>1. CASE k \in tasks[r]
      <4>1. job'[k] = [job[k] EXCEPT !.cancelled = TRUE] /\ Busy(k) /\ job[k].run = r
        BY <2>1, <3>1, <1>0, <1>3 DEF Accounted
      <4>. QED
        BY <4>1
    <3>2. CASE k \notin tasks[r]
      <4>1. job'[k] = [job[k] EXCEPT !.cancelled = job[k].cancelled]
        BY <2>1, <3>2, <1>3
      <4>. QED
        BY <4>1, <1>3
    <3>. QED
      BY <3>1, <3>2
  <2>3. /\ job' \in [Jobs -> JobStates]
        /\ \A k \in Jobs :
             \/ job'[k] = job[k]
             \/ /\ Busy(k) /\ job[k].run = r
                /\ job'[k].run = r /\ job'[k].pc = job[k].pc /\ job'[k].kind = job[k].kind
                /\ job'[k].version = job[k].version /\ job'[k].error = job[k].error
    BY <1>4, <2>1, <2>2
  <2>. QED
    BY <1>0, <1>1, <1>5, <2>3 DEF Delete, Removed, Accounted
<1>6. CASE Expire(r)
  BY <1>0, <1>1, <1>6 DEF Expire, Removed, Accounted
<1>7. CASE CancelGone(r)
  <2>1. job' = [k \in Jobs |-> [job[k] EXCEPT !.cancelled = @ \/ job[k].run = r]]
    BY <1>7 DEF CancelGone
  <2>2. ASSUME NEW k \in Jobs
        PROVE  \E b \in BOOLEAN :
                 /\ job'[k] = [job[k] EXCEPT !.cancelled = b]
                 /\ b = job[k].cancelled \/ (Busy(k) /\ job[k].run = r)
    <3>1. CASE job[k].run = r
      <4>1. NoJob.run # r
        BY NoneAssumption DEF NoJob
      <4>2. job'[k] = [job[k] EXCEPT !.cancelled = TRUE] /\ Busy(k)
        BY <2>1, <3>1, <4>1, <1>0, <1>3 DEF Accounted
      <4>. QED
        BY <3>1, <4>2
    <3>2. CASE job[k].run # r
      <4>1. job'[k] = [job[k] EXCEPT !.cancelled = job[k].cancelled]
        BY <2>1, <3>2, <1>3
      <4>. QED
        BY <4>1, <1>3
    <3>. QED
      BY <3>1, <3>2
  <2>3. /\ job' \in [Jobs -> JobStates]
        /\ \A k \in Jobs :
             \/ job'[k] = job[k]
             \/ /\ Busy(k) /\ job[k].run = r
                /\ job'[k].run = r /\ job'[k].pc = job[k].pc /\ job'[k].kind = job[k].kind
                /\ job'[k].version = job[k].version /\ job'[k].error = job[k].error
    BY <1>4, <2>1, <2>2
  <2>4. r \in used /\ rec[r] = Absent /\ UNCHANGED <<mode, rec, used, tasks, call, dropped>>
    BY <1>7 DEF CancelGone, Gone, Live
  <2>. QED
    BY <1>1, <2>3, <2>4 DEF Removed
<1>. QED
  BY <1>5, <1>6, <1>7

LEMMA RemovedKeeps ==
  ASSUME CoordInv, NEW r \in Runs, Removed(r)
  PROVE  CoordInv'
<1>0. /\ TypeOK /\ RecordsSound /\ Accounted /\ Versioned /\ InStep /\ Caused
      /\ FailedForCause /\ OneHolder /\ HasOwner
  BY DEF CoordInv
<1>1. /\ UNCHANGED <<mode, used, call, dropped>>
      /\ rec' \in [Runs -> Records \union {Absent}]
      /\ rec'[r] = Absent /\ \A s \in Runs \ {r} : rec'[s] = rec[s]
      /\ job' \in [Jobs -> JobStates]
      /\ tasks' \in [Runs -> SUBSET Jobs]
      /\ \A s \in Runs : tasks'[s] \subseteq tasks[s]
  BY DEF Removed
<1>2. \A k \in Jobs :
        \/ job'[k] = job[k]
        \/ /\ Busy(k) /\ job[k].run = r
           /\ job'[k].run = r /\ job'[k].pc = job[k].pc /\ job'[k].kind = job[k].kind
           /\ job'[k].version = job[k].version /\ job'[k].error = job[k].error
  BY DEF Removed
<1>3. \A k \in Jobs : /\ job'[k].run = job[k].run /\ job'[k].pc = job[k].pc
                      /\ job'[k].kind = job[k].kind /\ job'[k].version = job[k].version
                      /\ job'[k].error = job[k].error
                      /\ job[k].run # r => job'[k] = job[k]
                      /\ ~Busy(k) => job'[k] = job[k]
  BY <1>2
<1>4. Absent.stage = "absent" /\ "absent" \notin Stages
  BY StagesAre DEF Absent, AutomaticStages, TerminalStages, Gates
<1>5. \A s \in Runs : Live(s)' => s # r /\ Live(s) /\ rec'[s] = rec[s]
  BY <1>1 DEF Live
<1>6. /\ "absent" \notin Automatic /\ "absent" # "queued"
  BY <1>4 DEF Automatic
<1>7. TypeOK'
  <2>1. \A k \in Jobs : job'[k].pc # "free" => job'[k].run \in Runs
    BY <1>0, <1>3 DEF TypeOK
  <2>. QED
    BY <1>0, <1>1, <2>1 DEF TypeOK
<1>8. RecordsSound'
  <2>1. ASSUME NEW s \in Runs, Live(s)' PROVE Sound(rec'[s])
    BY <2>1, <1>0, <1>5 DEF RecordsSound
  <2>. QED
    BY <2>1 DEF RecordsSound
<1>9. Accounted'
  <2>1. \A s \in Runs : Live(s)' => s \in used'
    BY <1>0, <1>1, <1>5 DEF Accounted
  <2>2. \A k \in Jobs : IF Busy(k)' THEN job'[k].run \in used' ELSE job'[k] = NoJob
    BY <1>0, <1>1, <1>3 DEF Accounted, Busy
  <2>3. \A s \in Runs : \A k \in tasks'[s] : Busy(k)' /\ job'[k].run = s
    BY <1>0, <1>1, <1>3 DEF Accounted, Busy
  <2>4. \A k \in Jobs : job'[k].pc = "claiming" => job'[k].kind \in {"start", "revision"}
    BY <1>0, <1>3 DEF Accounted
  <2>. QED
    BY <2>1, <2>2, <2>3, <2>4 DEF Accounted
<1>10. ASSUME NEW k \in Jobs, Busy(k)', ~Lost(k)'
       PROVE  /\ Busy(k) /\ ~Lost(k) /\ job'[k] = job[k] /\ job[k].run \in Runs
              /\ rec'[job[k].run] = rec[job[k].run] /\ Live(job[k].run)'
  <2>1. Busy(k) /\ job'[k].run = job[k].run /\ job[k].run \in Runs
    BY <1>0, <1>3, <1>10, JobType DEF Busy
  <2>2. rec'[job[k].run] # Absent
    BY <2>1, <1>10 DEF Lost, Live
  <2>3. job[k].run # r /\ rec'[job[k].run] = rec[job[k].run]
    BY <2>1, <2>2, <1>1
  <2>. QED
    BY <2>1, <2>2, <2>3, <1>3 DEF Lost, Live
<1>11. Versioned'
  <2>1. \A s \in Runs : rec'[s].stage = "queued" => rec'[s].version = 0
    BY <1>0, <1>1, <1>4, <1>6 DEF Versioned
  <2>2. \A s \in Runs : Live(s)' /\ rec'[s].version = 0 =>
          rec'[s].stage \in {"queued"} \union Terminal
    BY <1>0, <1>5 DEF Versioned
  <2>3. \A k \in Jobs : job'[k].kind = "start" /\ job'[k].pc \in {"new", "claiming"} =>
          job'[k].version = 0
    BY <1>0, <1>3 DEF Versioned
  <2>4. \A k \in Jobs : Busy(k)' /\ ~Lost(k)' => job'[k].version <= rec'[job'[k].run].version
    BY <1>0, <1>10 DEF Versioned
  <2>. QED
    BY <2>1, <2>2, <2>3, <2>4 DEF Versioned
<1>12. InStep'
  BY <1>0, <1>10 DEF InStep
<1>13. Caused'
  <2>1. ASSUME NEW k \in Jobs, job[k].run = r PROVE Lost(k)'
    BY <2>1, <1>1, <1>3 DEF Lost, Live
  <2>2. ASSUME NEW k \in Jobs, job[k].run # r, Busy(k)
        PROVE  job'[k] = job[k] /\ (Lost(k)' <=> Lost(k)) /\ (Stale(k)' <=> Stale(k))
    BY <2>2, <1>0, <1>1, <1>3, JobType DEF Lost, Live, Stale
  <2>3. \A k \in Jobs : ~Busy(k) => job'[k] = NoJob /\ ~NoJob.cancelled /\ NoJob.pc = "free"
    BY <1>0, <1>3 DEF Accounted, NoJob
  <2>. QED
    BY <2>1, <2>2, <2>3, <1>0, <1>1 DEF Caused
<1>14. FailedForCause'
  BY <1>0, <1>1, <1>4 DEF FailedForCause, Live, Absent
<1>15. ASSUME NEW k \in Jobs, NEW s \in Runs, rec'[s].stage \in Automatic
       PROVE  /\ s # r /\ rec[s].stage \in Automatic
              /\ Holds(k, s)' => Holds(k, s)
              /\ Owns(k, s) => Owns(k, s)'
  <2>1. s # r /\ rec'[s] = rec[s]
    BY <1>15, <1>1, <1>4, <1>6
  <2>. QED
    BY <2>1, <1>3, <1>15 DEF Holds, Owns
<1>16. OneHolder'
  BY <1>0, <1>15 DEF OneHolder
<1>17. HasOwner'
  <2>1. ASSUME NEW s \in Runs, rec'[s].stage \in Automatic, s \notin dropped'
        PROVE  \E k \in Jobs : Owns(k, s)'
    <3>1. rec[s].stage \in Automatic
      BY <2>1, <1>1, <1>4, <1>6
    <3>2. PICK k \in Jobs : Owns(k, s)
      BY <2>1, <3>1, <1>0, <1>1 DEF HasOwner
    <3>. QED
      BY <2>1, <3>2, <1>15
  <2>. QED
    BY <2>1 DEF HasOwner
<1>. QED
  BY <1>7, <1>8, <1>9, <1>11, <1>12, <1>13, <1>14, <1>16, <1>17 DEF CoordInv

(* A run is created, and where the server has to move it on, the job that  *)
(* does so with it.                                                        *)
Born(r, x, S) ==
  /\ r \in Runs \ used /\ used' = used \union {r}
  /\ Sound(x) /\ x.version = 0 /\ x.stage \in {"queued"} \union (Terminal \ {"failed"})
  /\ rec' = [rec EXCEPT ![r] = x]
  /\ S \subseteq Jobs /\ \A j, k \in S : j = k
  /\ x.stage = "queued" => S # {}
  /\ job' \in [Jobs -> JobStates]
  /\ \A k \in Jobs \ S : job'[k] = job[k]
  /\ \A j \in S : /\ ~Busy(j)
                  /\ job'[j].pc = "new" /\ job'[j].kind = "start" /\ job'[j].run = r
                  /\ job'[j].version = 0 /\ ~job'[j].cancelled
  /\ UNCHANGED <<mode, tasks, call, dropped>>

LEMMA CreationIs ==
  ASSUME CoordInv, NEW r \in Runs, CreateCached(r) \/ \E j \in Jobs : Create(r, j)
  PROVE  \E x, S : Born(r, x, S)
<1>0. TypeOK
  BY DEF CoordInv
<1>1. ASSUME CreateCached(r) PROVE \E x, S : Born(r, x, S)
  <2>1. PICK x \in Recorded : rec' = [rec EXCEPT ![r] = x]
    BY <1>1 DEF CreateCached
  <2>2. Sound(x) /\ x.version = 0 /\ x.stage \in Terminal \ {"failed"}
    BY SoundAtFirst, TerminalAre DEF Recorded, Absent, TerminalStages
  <2>3. "queued" \notin Terminal
    BY TerminalAre DEF TerminalStages
  <2>4. /\ r \in Runs \ used /\ used' = used \union {r}
        /\ UNCHANGED <<mode, job, tasks, call, dropped>>
    BY <1>1 DEF CreateCached, FreshId
  <2>5. Born(r, x, {})
    BY <1>0, <2>1, <2>2, <2>3, <2>4 DEF Born, TypeOK
  <2>. QED
    BY <2>5
<1>2. ASSUME NEW j \in Jobs, Create(r, j) PROVE \E x, S : Born(r, x, S)
  <2>1. /\ r \in Runs \ used /\ used' = used \union {r}
        /\ rec' = [rec EXCEPT ![r] = NewRun]
        /\ Schedule(j, "start", r, 0, FALSE)
        /\ UNCHANGED <<mode, tasks, call, dropped>>
    BY <1>2 DEF Create, FreshId
  <2>2. /\ job' \in [Jobs -> JobStates]
        /\ ~Busy(j)
        /\ job'[j].pc = "new" /\ job'[j].kind = "start" /\ job'[j].run = r
        /\ job'[j].version = 0 /\ job'[j].cancelled = FALSE
        /\ \A k \in Jobs \ {j} : job'[k] = job[k]
    <3>1. "start" \in Kinds /\ 0 \in Nat /\ FALSE \in BOOLEAN
      BY DEF Kinds
    <3>2. Schedule(j, "start", r, 0, FALSE)
      BY <2>1
    <3>. QED
      BY <1>0, <3>1, <3>2, ScheduleEffect, ZenonT(60)
  <2>3. Sound(NewRun) /\ NewRun.version = 0 /\ NewRun.stage = "queued"
    BY SoundAtFirst DEF NewRun, Absent
  <2>4. Born(r, NewRun, {j})
    BY <2>1, <2>2, <2>3 DEF Born
  <2>. QED
    BY <2>4
<1>. QED
  BY <1>1, <1>2

LEMMA BornKeeps ==
  ASSUME CoordInv, NEW r, NEW x, NEW S, Born(r, x, S)
  PROVE  CoordInv'
<1>0. /\ TypeOK /\ RecordsSound /\ Accounted /\ Versioned /\ InStep /\ Caused
      /\ FailedForCause /\ OneHolder /\ HasOwner
  BY DEF CoordInv
<1>1. /\ r \in Runs /\ r \notin used /\ used' = used \union {r}
      /\ Sound(x) /\ x.version = 0 /\ x.stage \in {"queued"} \union Terminal
      /\ x.stage # "failed"
      /\ S \subseteq Jobs /\ \A j, k \in S : j = k
      /\ x.stage = "queued" => S # {}
      /\ job' \in [Jobs -> JobStates]
      /\ \A k \in Jobs \ S : job'[k] = job[k]
      /\ \A j \in S : /\ ~Busy(j)
                      /\ job'[j].pc = "new" /\ job'[j].kind = "start" /\ job'[j].run = r
                      /\ job'[j].version = 0 /\ ~job'[j].cancelled
      /\ UNCHANGED <<mode, tasks, call, dropped>>
  <2>1. "failed" # "queued"
    OBVIOUS
  <2>. QED
    BY <2>1 DEF Born
<1>2. /\ rec' \in [Runs -> Records \union {Absent}]
      /\ rec'[r] = x /\ \A s \in Runs \ {r} : rec'[s] = rec[s]
  BY <1>0, <1>1 DEF Born, TypeOK, Sound
<1>3. /\ ~Live(r) /\ \A k \in Jobs : Busy(k) => job[k].run \in Runs \ {r}
  BY <1>0, <1>1, JobType DEF Accounted
<1>4. \A s \in Runs : Live(s)' => s = r \/ Live(s)
  BY <1>2 DEF Live
<1>5. NoJob.run = None /\ None \notin Runs /\ ~NoJob.cancelled /\ NoJob.pc = "free"
  BY NoneAssumption DEF NoJob
<1>6. \A k \in Jobs : k \in S \/ (k \notin S /\ job'[k] = job[k])
  BY <1>1
<1>7. \A k \in Jobs : Busy(k)' => job'[k].run \in Runs
                      /\ (k \notin S => Busy(k) /\ job'[k] = job[k] /\ job[k].run # r
                                        /\ rec'[job[k].run] = rec[job[k].run])
  BY <1>1, <1>2, <1>3, <1>6 DEF Busy
<1>8. "new" \notin Automatic /\ Terminal \intersect Automatic = {}
  BY AutomaticAre DEF AutomaticStages, Automatic
<1>9. TypeOK'
  BY <1>0, <1>1, <1>2, <1>7 DEF TypeOK, Busy
<1>10. RecordsSound'
  BY <1>0, <1>1, <1>2, <1>4 DEF RecordsSound
<1>11. Accounted'
  <2>1. \A s \in Runs : Live(s)' => s \in used'
    BY <1>0, <1>1, <1>4 DEF Accounted
  <2>2. \A k \in Jobs : IF Busy(k)' THEN job'[k].run \in used' ELSE job'[k] = NoJob
    BY <1>0, <1>1, <1>6 DEF Accounted, Busy
  <2>3. \A s \in Runs : \A k \in tasks'[s] : Busy(k)' /\ job'[k].run = s
    <3>1. \A s \in Runs : \A k \in tasks[s] : Busy(k) /\ job[k].run = s /\ k \in Jobs
      BY <1>0 DEF Accounted, TypeOK
    <3>. QED
      BY <3>1, <1>1 DEF Busy
  <2>4. \A k \in Jobs : job'[k].pc = "claiming" => job'[k].kind \in {"start", "revision"}
    BY <1>0, <1>1, <1>6 DEF Accounted
  <2>. QED
    BY <2>1, <2>2, <2>3, <2>4 DEF Accounted
<1>12. Versioned'
  <2>1. \A s \in Runs : rec'[s].stage = "queued" => rec'[s].version = 0
    BY <1>0, <1>1, <1>2 DEF Versioned
  <2>2. \A s \in Runs : Live(s)' /\ rec'[s].version = 0 =>
          rec'[s].stage \in {"queued"} \union Terminal
    <3>1. \A s \in Runs \ {r} : Live(s)' => Live(s) /\ rec'[s] = rec[s]
      BY <1>2 DEF Live
    <3>. QED
      BY <3>1, <1>0, <1>1, <1>2 DEF Versioned
  <2>3. \A k \in Jobs : job'[k].kind = "start" /\ job'[k].pc \in {"new", "claiming"} =>
          job'[k].version = 0
    BY <1>0, <1>1, <1>6 DEF Versioned
  <2>4. ASSUME NEW k \in Jobs, Busy(k)', ~Lost(k)'
        PROVE  job'[k].version <= rec'[job'[k].run].version
    <3>1. CASE k \in S
      BY <3>1, <1>1, <1>2
    <3>2. CASE k \notin S
      BY <3>2, <2>4, <1>0, <1>7 DEF Versioned, Lost, Live
    <3>. QED
      BY <3>1, <3>2
  <2>. QED
    BY <2>1, <2>2, <2>3, <2>4 DEF Versioned
<1>13. InStep'
  <2>1. ASSUME NEW k \in Jobs \ S, Busy(k)', ~Lost(k)',
               job'[k].version = rec'[job'[k].run].version
        PROVE  /\ Busy(k) /\ ~Lost(k) /\ job'[k] = job[k]
               /\ rec'[job[k].run] = rec[job[k].run]
    BY <2>1, <1>7 DEF Lost, Live
  <2>2. \A k \in S : job'[k].pc = "new" /\ job'[k].kind = "start"
    BY <1>1
  <2>. QED
    BY <2>1, <2>2, <1>0, <1>8 DEF InStep
<1>14. Caused'
  <2>1. ASSUME NEW k \in Jobs \ S, Busy(k)
        PROVE  job'[k] = job[k] /\ (Lost(k)' <=> Lost(k)) /\ (Stale(k)' <=> Stale(k))
    BY <2>1, <1>2, <1>3, <1>6 DEF Lost, Live, Stale
  <2>2. \A k \in Jobs \ S : ~Busy(k) => ~job'[k].cancelled /\ job'[k].pc = "free"
    BY <1>0, <1>5, <1>6 DEF Accounted
  <2>. QED
    BY <2>1, <2>2, <1>0, <1>1 DEF Caused
<1>15. FailedForCause'
  BY <1>0, <1>1, <1>2 DEF FailedForCause
<1>16. ASSUME NEW s \in Runs \ {r}, NEW k \in Jobs
       PROVE  /\ rec'[s] = rec[s]
              /\ Holds(k, s)' => Holds(k, s)
              /\ Owns(k, s) => Owns(k, s)'
  <2>1. rec'[s] = rec[s]
    BY <1>2
  <2>2. CASE k \notin S
    BY <2>1, <2>2, <1>6 DEF Holds, Owns
  <2>3. CASE k \in S
    <3>1. job[k].run # s
      BY <2>3, <1>0, <1>1, <1>5 DEF Accounted
    <3>. QED
      BY <2>1, <2>3, <3>1, <1>1 DEF Holds, Owns
  <2>. QED
    BY <2>1, <2>2, <2>3
<1>17. ASSUME NEW k \in Jobs, Holds(k, r)' PROVE k \in S
  <2>1. CASE Busy(k)
    BY <2>1, <1>17, <1>3, <1>6 DEF Holds
  <2>2. CASE ~Busy(k)
    BY <2>2, <1>17, <1>0, <1>1, <1>5, <1>6 DEF Holds, Accounted
  <2>. QED
    BY <2>1, <2>2
<1>18. OneHolder'
  BY <1>0, <1>1, <1>16, <1>17 DEF OneHolder
<1>19. HasOwner'
  <2>1. ASSUME NEW s \in Runs, rec'[s].stage \in Automatic, s \notin dropped'
        PROVE  \E k \in Jobs : Owns(k, s)'
    <3>1. CASE s # r
      <4>1. PICK k \in Jobs : Owns(k, s)
        BY <2>1, <3>1, <1>0, <1>1, <1>2 DEF HasOwner
      <4>. QED
        BY <3>1, <4>1, <1>16
    <3>2. CASE s = r
      <4>1. x.stage = "queued"
        BY <2>1, <3>2, <1>1, <1>2, <1>8
      <4>2. PICK k \in S : TRUE
        BY <4>1, <1>1
      <4>3. Owns(k, s)'
        BY <3>2, <4>2, <1>1, <1>2 DEF Owns
      <4>. QED
        BY <4>2, <4>3, <1>1
    <3>. QED
      BY <3>1, <3>2
  <2>. QED
    BY <2>1 DEF HasOwner
<1>. QED
  BY <1>9, <1>10, <1>11, <1>12, <1>13, <1>14, <1>15, <1>18, <1>19 DEF CoordInv

-----------------------------------------------------------------------------
(* The inductive invariant holds at first and is kept by every step.       *)
LEMMA CoordInit == Init => CoordInv
<1> SUFFICES ASSUME Init PROVE CoordInv
  OBVIOUS
<1>1. /\ mode \in {"live", "cached"} /\ used = {} /\ dropped = {}
      /\ rec = [r \in Runs |-> Absent] /\ job = [j \in Jobs |-> NoJob]
      /\ tasks = [r \in Runs |-> {}] /\ call = [c \in Calls |-> NoCall]
  BY DEF Init
<1>2. /\ \A r \in Runs : rec[r] = Absent /\ ~Live(r)
      /\ \A j \in Jobs : job[j] = NoJob /\ ~Busy(j) /\ ~job[j].cancelled
  BY <1>1 DEF Live, Busy, NoJob
<1>3. /\ Absent.stage = "absent" /\ "absent" \notin Automatic
  BY AutomaticAre DEF Absent, AutomaticStages
<1>4. TypeOK
  <2>1. NoCall \in CallStates /\ NoCall.gate = "none"
    BY DEF NoCall, CallStates
  <2>. QED
    BY <1>1, <2>1, NoJobType DEF TypeOK
<1>5. RecordsSound /\ Accounted /\ HasOwner /\ OneHolder /\ FailedForCause
  BY <1>1, <1>2, <1>3 DEF RecordsSound, Accounted, HasOwner, OneHolder, FailedForCause, NoJob
<1>6. Versioned
  BY <1>2, <1>3 DEF Versioned, NoJob
<1>7. InStep /\ Caused
  BY <1>2, <1>3 DEF InStep, Caused, Busy
<1>. QED
  BY <1>4, <1>5, <1>6, <1>7 DEF CoordInv

LEMMA CoordNext == CoordInv /\ [Next]_vars => CoordInv'
<1> SUFFICES ASSUME CoordInv, [Next]_vars PROVE CoordInv'
  OBVIOUS
<1>0. TypeOK /\ RecordsSound
  BY DEF CoordInv
(* Nothing but the requests under way changes.                             *)
<1>1. ASSUME UNCHANGED <<mode, rec, used, job, tasks, dropped>>, TypeOK' PROVE CoordInv'
  BY <1>1 DEF CoordInv, RecordsSound, Accounted, Versioned, InStep, Caused, FailedForCause,
              OneHolder, HasOwner, Sound, Live, Busy, Lost, Stale, Holds, Owns
<1>2. CASE UNCHANGED vars
  BY <1>0, <1>1, <1>2 DEF vars, TypeOK
<1>3. ASSUME NEW c \in Calls, Asked(c) PROVE CoordInv'
  <2>1. UNCHANGED <<mode, rec, used, job, tasks, dropped>>
    BY <1>3 DEF Asked, Refused, ReadsGate
  <2>2. PICK x \in CallStates : /\ call' = [call EXCEPT ![c] = x]
                                /\ x.gate # "none" => x.run \in Runs
    <3>1. NoCall \in CallStates /\ NoCall.gate = "none"
      BY DEF NoCall, CallStates
    <3>2. CASE Refused(c)
      BY <3>1, <3>2 DEF Refused
    <3>3. ASSUME NEW r \in Runs, NEW gate \in {"awaiting_contract", "awaiting_finding_review"},
                 ReadsGate(c, gate, r)
          PROVE  \E x \in CallStates : /\ call' = [call EXCEPT ![c] = x]
                                       /\ x.gate # "none" => x.run \in Runs
      <4>1. rec[r].version \in Nat /\ gate \in Gates
        BY <1>0, LiveRecord DEF Gates
      <4>2. [gate |-> gate, run |-> r, version |-> rec[r].version] \in CallStates
        BY <4>1 DEF CallStates
      <4>. QED
        BY <3>3, <4>2 DEF ReadsGate
    <3>. QED
      BY <1>3, <3>2, <3>3 DEF Asked
  <2>3. TypeOK'
    BY <1>0, <2>1, <2>2 DEF TypeOK
  <2>. QED
    BY <1>1, <2>1, <2>3
<1>4. ASSUME NEW c \in Calls, IsDecided(c) PROVE CoordInv'
  BY <1>0, <1>4, DecisionIsMoved, MovedKeeps
<1>5. ASSUME NEW j \in Jobs, Work(j) PROVE CoordInv'
  <2>1. CASE Reads(j) \/ Continues(j) \/ GivesUp(j)
    BY <2>1, ReadsIsQuiet, ContinuesIsQuiet, GivesUpIsQuiet, QuietKeeps
  <2>2. CASE Leaves(j)
    BY <2>2, LeavesIsQuiet, QuietKeeps
  <2>3. CASE WritesFailure(j)
    BY <2>3, FailureIsMoved, MovedKeeps
  <2>4. ASSUME NEW to \in Stages, WorksOn(j, to) PROVE CoordInv'
    BY <1>0, <2>4, WorksIsMoved, MovedKeeps
  <2>. QED
    BY <1>5, <2>1, <2>2, <2>3, <2>4 DEF Work
<1>6. ASSUME NEW r \in Runs, NEW j \in Jobs, Create(r, j) PROVE CoordInv'
  BY <1>6, CreationIs, BornKeeps
<1>7. ASSUME NEW r \in Runs, NEW j \in Jobs, RevisionRequested(r, j) PROVE CoordInv'
  BY <1>7, RequestedIsQuiet, QuietKeeps
<1>8. ASSUME NEW r \in Runs, CreateCached(r) PROVE CoordInv'
  BY <1>8, CreationIs, BornKeeps
<1>9. ASSUME NEW r \in Runs, Delete(r) \/ Expire(r) \/ CancelGone(r) PROVE CoordInv'
  BY <1>9, RemovalIs, RemovedKeeps
<1>10. ASSUME NEW j \in Jobs, RevisionDropped(j) PROVE CoordInv'
  BY <1>10, DroppedIsQuiet, QuietKeeps
<1>11. CASE Outside
  BY <1>6, <1>7, <1>8, <1>9, <1>10, <1>11 DEF Outside
<1>. QED
  BY <1>2, <1>3, <1>4, <1>5, <1>11, StepKinds

(* Whatever jobs, people and removals do to each other: records are sound  *)
(* at their stages, no job is ahead of its run, who holds a run is at its  *)
(* stage, and a run the server has to move on has one holder, who works.   *)
THEOREM CoordinatorInvariant == Spec => []CoordInv
<1>1. Init => CoordInv
  BY CoordInit
<1>2. CoordInv /\ [Next]_vars => CoordInv'
  BY CoordNext
<1>. QED
  BY <1>1, <1>2, PTL DEF Spec

-----------------------------------------------------------------------------
(* What the runs check of every reachable state.                           *)

(* Every record is well formed: it carries the evidence its stage calls    *)
(* for, in the order in which one thing is about another, asks the         *)
(* question its stage asks, and keeps the source text only until it is     *)
(* ingested, whichever way the run took (_move, _failure).                 *)
THEOREM RecordsStayInOrder == Spec => []RecordsInOrder
<1>1. CoordInv => RecordsInOrder
  <2> SUFFICES ASSUME CoordInv PROVE RecordsInOrder
    OBVIOUS
  <2>0. TypeOK /\ RecordsSound
    BY DEF CoordInv
  <2>1. \A r \in Runs : Live(r) \/ rec[r] = Absent
    BY DEF Live
  <2>2. NothingLeftBehind
    <3>1. ~Absent.source /\ Absent.pending = QuestionAt(Absent.stage)
      BY DEF Absent, QuestionAt
    <3>. QED
      BY <2>0, <2>1, <3>1 DEF NothingLeftBehind, RecordsSound, Sound
  <2>3. EvidenceInOrder
    <3>1. ASSUME NEW r \in Runs, NEW n \in DOMAIN rec[r].arts PROVE InPlace(rec[r].arts, n)
      <4>1. rec[r] # Absent
        BY <3>1 DEF Absent
      <4>. QED
        BY <4>1, <2>0, <3>1 DEF RecordsSound, Sound, Filed, Live
    <3>2. ASSUME NEW r \in Runs, rec[r].stage = "complete"
          PROVE  Count("comparison_bundle", rec[r].arts, Len(rec[r].arts)) = 1
      <4>1. Live(r)
        BY <3>2 DEF Absent, Live
      <4>2. Tally(rec[r].arts) = ComparedTo
        BY <4>1, <2>0, <3>2 DEF RecordsSound, Sound, TallyAt
      <4>. QED
        BY <4>2 DEF Tally, ComparedTo, Total
    <3>. QED
      BY <3>1, <3>2 DEF EvidenceInOrder, InPlace
  <2>. QED
    BY <2>0, <2>2, <2>3 DEF RecordsInOrder
<1>. QED
  BY <1>1, CoordinatorInvariant, PTL

(* A run is written down as failed because one of its stages failed or its *)
(* confirm_revision was cancelled, never because a job lost a race, found  *)
(* its run moved on, or was cancelled with another run (_failure).         *)
THEOREM FailuresHaveCauses == Spec => []FailedForCause
<1>1. CoordInv => FailedForCause
  BY DEF CoordInv
<1>. QED
  BY <1>1, CoordinatorInvariant, PTL

(* While the server has to move a run on, exactly one job holds its        *)
(* version and has not been cancelled, unless a confirm_revision was       *)
(* cancelled: no accepted work is lost, none is done twice.                *)
THEOREM AcceptedWorkIsOwned == Spec => []WorkIsOwned
<1>1. CoordInv => WorkIsOwned
  <2> SUFFICES ASSUME CoordInv, NEW r \in Runs, rec[r].stage \in Automatic, r \notin dropped
               PROVE  Cardinality({j \in Jobs : Owns(j, r)}) = 1
    BY DEF WorkIsOwned
  <2>1. PICK j \in Jobs : Owns(j, r)
    BY DEF CoordInv, HasOwner
  <2>2. \A k \in Jobs : Owns(k, r) => Holds(k, r)
    BY DEF Owns, Holds
  <2>3. {k \in Jobs : Owns(k, r)} = {j}
    BY <2>1, <2>2 DEF CoordInv, OneHolder
  <2>. QED
    BY <2>3, FS_Singleton
<1>. QED
  BY <1>1, CoordinatorInvariant, PTL

-----------------------------------------------------------------------------
(* Every step is a step of the life cycle, or none of its business.        *)

LEMMA PhaseEdges ==
  ASSUME NEW s \in Stages, NEW to, Legal(s, to)
  PROVE  LET p == PhaseOf(s)
             q == PhaseOf(to)
         IN  \/ p = q
             \/ p \in {"compiling", "testing", "drafting", "retesting"} /\ q = "ended"
             \/ p \in {"contract", "review", "revision"} /\ q = "ended"
             \/ <<p, q>> \in {<<"compiling", "contract">>, <<"testing", "review">>,
                              <<"drafting", "revision">>}
             \/ <<p, q>> \in {<<"contract", "testing">>, <<"review", "drafting">>,
                              <<"revision", "retesting">>}
<1>1. s \in AutomaticStages \union Gates
  BY EdgesInto, StagesAre, TerminalAre
<1>2. CASE s \in Gates
  BY <1>2 DEF Gates, Legal, Transitions, PhaseOf
<1>3. CASE s \in AutomaticStages
  BY <1>3 DEF AutomaticStages, Legal, Transitions, PhaseOf
<1>. QED
  BY <1>1, <1>2, <1>3

LEMMA PhaseTypes ==
  \A s \in Stages : PhaseOf(s) \in Lifecycle!Phases \ {"unborn", "gone"}
BY DEF PhaseOf, Lifecycle!Phases, Lifecycle!Working, Lifecycle!Deciding

LifecycleStep == Lifecycle!Next \/ UNCHANGED [r \in Runs |-> Phase(r)]

(* The phase of one run changes as the life cycle allows.                  *)
LEMMA OnePhase ==
  ASSUME NEW r \in Runs, \A s \in Runs \ {r} : Phase(s)' = Phase(s),
         \/ Phase(r)' = Phase(r)
         \/ Phase(r) = "unborn" /\ Phase(r)' \in {"compiling", "ended"}
         \/ Phase(r) \in Lifecycle!Phases \ {"unborn", "gone"} /\ Phase(r)' = "gone"
         \/ Phase(r) \in Lifecycle!Working \union Lifecycle!Deciding /\ Phase(r)' = "ended"
         \/ <<Phase(r), Phase(r)'>> \in
              {<<"compiling", "contract">>, <<"testing", "review">>, <<"drafting", "revision">>,
               <<"contract", "testing">>, <<"review", "drafting">>, <<"revision", "retesting">>}
  PROVE  LifecycleStep
<1> DEFINE phase == [s \in Runs |-> Phase(s)]
<1>1. phase[r] = Phase(r) /\ phase' = [phase EXCEPT ![r] = Phase(r)']
  OBVIOUS
<1>2. Lifecycle!Go(r, Phase(r), Phase(r)')
  BY <1>1 DEF Lifecycle!Go
<1>3. CASE Phase(r)' = Phase(r)
  BY <1>3 DEF LifecycleStep
<1>4. CASE Phase(r)' # Phase(r)
  <2>1. Lifecycle!Create(r) \/ Lifecycle!Finish(r) \/ Lifecycle!Decide(r) \/ Lifecycle!Remove(r)
    BY <1>2, <1>4 DEF Lifecycle!Create, Lifecycle!Finish, Lifecycle!Decide, Lifecycle!Remove
  <2>. QED
    BY <2>1 DEF LifecycleStep, Lifecycle!Next
<1>. QED
  BY <1>3, <1>4

LEMMA MovedPhase ==
  ASSUME CoordInv, NEW r \in Runs, NEW to, NEW error, NEW S, IsMoved(r, to, error, S)
  PROVE  LifecycleStep
<1>0. TypeOK /\ RecordsSound
  BY DEF CoordInv
<1>1. Takes(r, to, error) /\ error \in Errors /\ used' = used
  BY DEF IsMoved
<1>2. /\ rec[r].stage \in Stages /\ rec'[r].stage = to
      /\ \A s \in Runs \ {r} : rec'[s] = rec[s]
      /\ \A s \in Runs : Live(s)' <=> Live(s)
  BY <1>0, <1>1, TakesEffect
<1>3. Live(r) /\ Legal(rec[r].stage, to)
  BY <1>1 DEF Takes
<1>4. Phase(r) = PhaseOf(rec[r].stage) /\ Phase(r)' = PhaseOf(to)
  BY <1>2, <1>3 DEF Phase
<1>5. \A s \in Runs \ {r} : Phase(s)' = Phase(s)
  BY <1>1, <1>2 DEF Phase
<1>. QED
  BY <1>2, <1>3, <1>4, <1>5, PhaseEdges, OnePhase
     DEF Lifecycle!Working, Lifecycle!Deciding

LEMMA SamePhases ==
  ASSUME UNCHANGED <<rec, used>>
  PROVE  LifecycleStep
BY DEF LifecycleStep, Phase, Live

LEMMA BornPhase ==
  ASSUME CoordInv, NEW r, NEW x, NEW S, Born(r, x, S)
  PROVE  LifecycleStep
<1>1. /\ r \in Runs /\ r \notin used /\ used' = used \union {r}
      /\ Sound(x) /\ x.stage \in {"queued"} \union Terminal
      /\ rec' = [rec EXCEPT ![r] = x] /\ rec \in [Runs -> Records \union {Absent}]
  BY DEF Born, CoordInv, TypeOK
<1>2. ~Live(r) /\ Phase(r) = "unborn"
  BY <1>1 DEF CoordInv, Accounted, Phase
<1>3. x # Absent
  BY <1>1, StagesAre DEF Sound, Records, Absent, AutomaticStages, TerminalStages, Gates
<1>4. Live(r)' /\ Phase(r)' = PhaseOf(x.stage)
  BY <1>1, <1>3 DEF Live, Phase
<1>5. \A s \in Runs \ {r} : Phase(s)' = Phase(s)
  BY <1>1 DEF Phase, Live
<1>6. PhaseOf(x.stage) \in {"compiling", "ended"}
  BY <1>1, TerminalAre DEF TerminalStages, PhaseOf
<1>. QED
  BY <1>1, <1>2, <1>4, <1>5, <1>6, OnePhase

LEMMA RemovedPhase ==
  ASSUME CoordInv, NEW r \in Runs, Removed(r)
  PROVE  LifecycleStep
<1>1. /\ r \in used /\ used' = used /\ rec'[r] = Absent
      /\ \A s \in Runs \ {r} : rec'[s] = rec[s]
  BY DEF Removed
<1>2. Phase(r)' = "gone"
  BY <1>1 DEF Phase, Live
<1>3. \A s \in Runs \ {r} : Phase(s)' = Phase(s)
  BY <1>1 DEF Phase, Live
<1>4. Phase(r) = "gone" \/ Phase(r) \in Lifecycle!Phases \ {"unborn", "gone"}
  <2>1. CASE ~Live(r)
    BY <1>1, <2>1 DEF Phase
  <2>2. CASE Live(r)
    <3>1. rec[r].stage \in Stages
      BY <2>2, LiveRecord DEF CoordInv
    <3>. QED
      BY <2>2, <3>1, PhaseTypes DEF Phase
  <2>. QED
    BY <2>1, <2>2
<1>. QED
  BY <1>2, <1>3, <1>4, OnePhase

LEMMA LifecycleNext == CoordInv /\ [Next]_vars => LifecycleStep
<1> SUFFICES ASSUME CoordInv, [Next]_vars PROVE LifecycleStep
  OBVIOUS
<1>0. TypeOK /\ RecordsSound
  BY DEF CoordInv
<1>1. CASE UNCHANGED vars
  BY <1>1, SamePhases DEF vars
<1>2. ASSUME NEW c \in Calls, IsDecided(c) \/ Asked(c) PROVE LifecycleStep
  <2>1. CASE IsDecided(c)
    BY <1>0, <2>1, DecisionIsMoved, MovedPhase
  <2>2. CASE Asked(c)
    BY <2>2, SamePhases DEF Asked, Refused, ReadsGate
  <2>. QED
    BY <1>2, <2>1, <2>2
<1>3. ASSUME NEW j \in Jobs, Work(j) PROVE LifecycleStep
  <2>1. CASE Reads(j) \/ Continues(j) \/ GivesUp(j) \/ Leaves(j)
    BY <2>1, SamePhases DEF Reads, Continues, GivesUp, Leaves
  <2>2. CASE WritesFailure(j)
    BY <2>2, FailureIsMoved, MovedPhase
  <2>3. ASSUME NEW to \in Stages, WorksOn(j, to) PROVE LifecycleStep
    BY <1>0, <2>3, WorksIsMoved, MovedPhase
  <2>. QED
    BY <1>3, <2>1, <2>2, <2>3 DEF Work
<1>4. ASSUME NEW r \in Runs, NEW j \in Jobs, Create(r, j) PROVE LifecycleStep
  BY <1>4, CreationIs, BornPhase
<1>5. ASSUME NEW r \in Runs, CreateCached(r) PROVE LifecycleStep
  BY <1>5, CreationIs, BornPhase
<1>6. ASSUME NEW r \in Runs, Delete(r) \/ Expire(r) \/ CancelGone(r) PROVE LifecycleStep
  BY <1>6, RemovalIs, RemovedPhase
<1>7. ASSUME NEW r \in Runs, NEW j \in Jobs, RevisionRequested(r, j)
      PROVE  LifecycleStep
  BY <1>7, SamePhases DEF RevisionRequested
<1>8. ASSUME NEW j \in Jobs, RevisionDropped(j) PROVE LifecycleStep
  BY <1>8, SamePhases DEF RevisionDropped
<1>9. CASE Outside
  BY <1>4, <1>5, <1>6, <1>7, <1>8, <1>9 DEF Outside
<1>. QED
  BY <1>1, <1>2, <1>3, <1>9, StepKinds

(* The coordinator implements the steps of RunLifecycle: a run begins once, *)
(* works, is decided once at each gate, ends, and never comes back from    *)
(* being removed.  (That work ends is checked, not proved.)                *)
THEOREM StepsOfTheLifecycle ==
  Spec => Lifecycle!Init /\ [][Lifecycle!Next]_([r \in Runs |-> Phase(r)])
<1>1. Init => Lifecycle!Init
  BY DEF Init, Lifecycle!Init, Phase, Live
<1>2. CoordInv /\ [Next]_vars => [Lifecycle!Next]_([r \in Runs |-> Phase(r)])
  BY LifecycleNext DEF LifecycleStep
<1>. QED
  BY <1>1, <1>2, CoordinatorInvariant, PTL DEF Spec
=============================================================================
