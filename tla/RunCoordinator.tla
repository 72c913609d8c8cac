--------------------------- MODULE RunCoordinator ---------------------------
(***************************************************************************)
(* backend/app/workflow/coordinator.py, with the scheduling its routes and *)
(* task_runner.py give it: a run is moved through its stages by background *)
(* jobs, by the requests of people who decide at its gates, and by         *)
(* whatever removes it.                                                    *)
(*                                                                         *)
(* The store is the atomic one (AtomicRunStore, which RunStore             *)
(* implements): a get or a compare-and-swap mutate is one step.  A job     *)
(* keeps the version of the record it last saw; between two of its steps   *)
(* it waits in a model call or in the store, and anything may happen.      *)
(* What the stages compute is abstracted to the kinds of the artifacts     *)
(* they add and to whether they fail.                                      *)
(***************************************************************************)
EXTENDS RunStages, Naturals, Sequences, FiniteSets

CONSTANTS
  Runs,    \* run ids the id factory may draw
  Jobs,    \* bound: slots for background jobs that exist at the same time
  Calls,   \* bound: decision requests that are handled at the same time
  None     \* no run

ASSUME NoneAssumption == None \notin Runs

VARIABLES
  mode,     \* "live" or "cached"
  rec,      \* the store: the record of each run, or Absent
  used,     \* _used_ids
  job,      \* the background jobs
  tasks,    \* _tasks: the jobs registered for each run
  call,     \* the confirm_contract and select_findings requests
  dropped   \* history: runs whose confirm_revision request was cancelled

vars == <<mode, rec, used, job, tasks, call, dropped>>

Absent == [stage |-> "absent", version |-> 0, source |-> FALSE,
           pending |-> "none", arts |-> <<>>, error |-> "none"]

NoJob == [kind |-> "none", run |-> None, pc |-> "free", version |-> 0,
          cancelled |-> FALSE, awaited |-> FALSE, error |-> "none"]

NoCall == [gate |-> "none", run |-> None, version |-> 0]

Live(r) == rec[r] # Absent
Gone(r) == r \in used /\ ~Live(r)

(* The recorded demonstrations a cached run may replay: terminal records   *)
(* whose evidence validate_cached_record has accepted.                     *)
Intake == <<"run_manifest", "policy_document", "policy_ir">>
Tested == Intake \o <<"policy_ir", "policy_contract", "scenario_suite",
                      "evaluation_report", "finding_report", "metrics_report">>
Compared == Tested \o <<"finding_report", "revision_proposal", "policy_ir",
                        "evaluation_report", "finding_report",
                        "comparison_bundle", "metrics_report">>
Recorded == {[Absent EXCEPT !.stage = "complete", !.arts = Compared],
             [Absent EXCEPT !.stage = "contract_rejected", !.arts = Intake]}

Init ==
  /\ mode \in {"live", "cached"}
  /\ rec = [r \in Runs |-> Absent]
  /\ used = {}
  /\ job = [j \in Jobs |-> NoJob]
  /\ tasks = [r \in Runs |-> {}]
  /\ call = [c \in Calls |-> NoCall]
  /\ dropped = {}

-----------------------------------------------------------------------------
(* _move on the stored record.                                             *)

(* Why the store or transition_to would refuse, in the order they look.    *)
Refusal(r, version, to, adds) ==
  CASE ~Live(r) -> "not_found"
    [] Live(r) /\ rec[r].version # version -> "conflict"
    [] Live(r) /\ rec[r].version = version
         /\ \E i, k \in DOMAIN (rec[r].arts \o adds) :
              /\ i # k
              /\ (rec[r].arts \o adds)[i] = "scenario_suite"
              /\ (rec[r].arts \o adds)[k] = "scenario_suite" -> "stage"
    [] Live(r) /\ rec[r].version = version
         /\ ~Legal(rec[r].stage, to) -> "invalid_state"
    [] OTHER -> "none"

Moved(r, to, adds) ==
  [rec[r] EXCEPT !.stage = to, !.version = @ + 1, !.arts = @ \o adds]

(* The job is over; its `finally` takes it out of _tasks.                  *)
Ends(j) ==
  /\ job' = [job EXCEPT ![j] = NoJob]
  /\ tasks' = [tasks EXCEPT ![job[j].run] = @ \ {j}]

Fails(j, why) ==
  /\ job' = [job EXCEPT ![j].pc = "failing", ![j].error = why,
                        ![j].cancelled = FALSE]
  /\ UNCHANGED tasks

(* A job's stage has done its work: it moves the run on and goes to the    *)
(* next stage's work, or it is over.  If the move is refused the exception *)
(* lands in the job's handler.                                             *)
Advance(j, from, to, adds, changed) ==
  LET r == job[j].run
      why == Refusal(r, job[j].version, to, adds)
  IN  /\ job[j].pc = from
      /\ ~job[j].cancelled
      /\ IF why # "none" THEN Fails(j, why) /\ UNCHANGED rec
         ELSE /\ rec' = [rec EXCEPT ![r] = changed]
              /\ IF to \in Automatic
                   THEN /\ job' = [job EXCEPT ![j].pc = to, ![j].version = @ + 1]
                        /\ UNCHANGED tasks
                   ELSE Ends(j)
      /\ UNCHANGED <<mode, used, call, dropped>>

Step(j, from, to, adds) ==
  Advance(j, from, to, adds, Moved(job[j].run, to, adds))

Schedule(j, kind, r, version, awaited) ==
  /\ job[j] = NoJob
  /\ job' = [job EXCEPT ![j] =
       [NoJob EXCEPT !.kind = kind, !.run = r, !.pc = "new",
                     !.version = version, !.awaited = awaited]]

-----------------------------------------------------------------------------
(* Creation: run ids are drawn once, and the job that starts the run is    *)
(* submitted without an await in between.                                  *)

NewRun == [Absent EXCEPT !.stage = "queued", !.source = TRUE,
                         !.arts = <<"run_manifest">>]

FreshId(r) == r \notin used

Create(r, j) ==
  /\ mode = "live"
  /\ FreshId(r)
  /\ used' = used \union {r}
  /\ rec' = [rec EXCEPT ![r] = NewRun]
  /\ Schedule(j, "start", r, 0, FALSE)
  /\ UNCHANGED <<mode, tasks, call, dropped>>

CreateCached(r) ==
  /\ mode = "cached"
  /\ FreshId(r)
  /\ used' = used \union {r}
  /\ \E replay \in Recorded : rec' = [rec EXCEPT ![r] = replay]
  /\ UNCHANGED <<mode, job, tasks, call, dropped>>

-----------------------------------------------------------------------------
(* The jobs.  `execute` reads the run before the job's own code begins.    *)

Expects == [start |-> "queued", revision |-> "awaiting_revision_confirmation"]

(* start and confirm_revision read the record and check its stage.         *)
Reads(j) ==
  /\ job[j].pc = "new"
  /\ ~job[j].cancelled
  /\ job[j].kind \in {"start", "revision"}
  /\ rec[job[j].run].stage = Expects[job[j].kind]
  /\ job' = [job EXCEPT ![j].pc = "claiming",
                        ![j].version = rec[job[j].run].version]
  /\ UNCHANGED <<mode, rec, used, tasks, call, dropped>>

(* A continuation takes up the record its request wrote.                   *)
Continues(j) ==
  /\ job[j].pc = "new"
  /\ ~job[j].cancelled
  /\ job[j].kind \in {"baseline", "drafting"}
  /\ Live(job[j].run)
  /\ job' = [job EXCEPT ![j].pc = IF job[j].kind = "baseline"
                                    THEN "generating_initial_tests"
                                    ELSE "drafting_revision"]
  /\ tasks' = [tasks EXCEPT ![job[j].run] = @ \union {j}]
  /\ UNCHANGED <<mode, rec, used, call, dropped>>

(* The run is gone, or at another stage than the job expects.              *)
Missed(j) ==
  /\ job[j].pc = "new"
  /\ ~job[j].cancelled
  /\ \/ ~Live(job[j].run)
     \/ /\ job[j].kind \in {"start", "revision"}
        /\ rec[job[j].run].stage # Expects[job[j].kind]
  /\ Ends(j)
  /\ UNCHANGED <<mode, rec, used, call, dropped>>

(* start takes the queued run; only then is it registered in _tasks.       *)
Started(j) ==
  LET r == job[j].run
  IN  /\ job[j].pc = "claiming"
      /\ ~job[j].cancelled
      /\ job[j].kind = "start"
      /\ Refusal(r, job[j].version, "ingesting", <<>>) = "none"
      /\ rec' = [rec EXCEPT ![r] = Moved(r, "ingesting", <<>>)]
      /\ job' = [job EXCEPT ![j].pc = "ingesting", ![j].version = @ + 1]
      /\ tasks' = [tasks EXCEPT ![r] = @ \union {j}]
      /\ UNCHANGED <<mode, used, call, dropped>>

(* confirm_revision accepts.  Its job is never registered in _tasks.       *)
RevisionAccepted(j) ==
  LET r == job[j].run
  IN  /\ job[j].pc = "claiming"
      /\ ~job[j].cancelled
      /\ job[j].kind = "revision"
      /\ Refusal(r, job[j].version, "applying_revision", <<>>) = "none"
      /\ rec' = [rec EXCEPT ![r] =
           [Moved(r, "applying_revision", <<>>) EXCEPT !.pending = "none"]]
      /\ job' = [job EXCEPT ![j].pc = "applying_revision", ![j].version = @ + 1]
      /\ UNCHANGED <<mode, used, tasks, call, dropped>>

RevisionRejected(j) ==
  LET r == job[j].run
  IN  /\ job[j].pc = "claiming"
      /\ ~job[j].cancelled
      /\ job[j].kind = "revision"
      /\ Refusal(r, job[j].version, "revision_rejected", <<>>) = "none"
      /\ rec' = [rec EXCEPT ![r] =
           [Moved(r, "revision_rejected", <<>>) EXCEPT !.pending = "none"]]
      /\ Ends(j)
      /\ UNCHANGED <<mode, used, call, dropped>>

(* Faulty variant: the first move stands inside the try block and the      *)
(* handler reads the record again.                                         *)
ClaimLostAndReread(j) ==
  LET r == job[j].run
  IN  /\ job[j].pc = "claiming"
      /\ ~job[j].cancelled
      /\ IF Live(r) /\ rec[r].version # job[j].version
           THEN /\ job' = [job EXCEPT ![j].pc = "failing", ![j].error = "conflict",
                                      ![j].version = rec[r].version]
                /\ UNCHANGED tasks
           ELSE Ends(j)
      /\ UNCHANGED <<mode, rec, used, call, dropped>>

(* The proposal id is stale, or the first move is refused: the exception   *)
(* leaves the job, since that move is outside the try block.               *)
ClaimLost(j) ==
  LET r == job[j].run
  IN  /\ job[j].pc = "claiming"
      /\ ~job[j].cancelled
      /\ \/ job[j].kind = "revision"
         \/ Refusal(r, job[j].version, "ingesting", <<>>) # "none"
      /\ Ends(j)
      /\ UNCHANGED <<mode, rec, used, call, dropped>>

-----------------------------------------------------------------------------
(* start, after the claim.  Ingestion forgets the private source text.     *)
Ingested(j) ==
  Advance(j, "ingesting", "extracting", <<"policy_document">>,
    [Moved(job[j].run, "extracting", <<"policy_document">>) EXCEPT !.source = FALSE])

Compiled(j) ==
  Advance(j, "extracting", "awaiting_contract", <<"policy_ir">>,
    [Moved(job[j].run, "awaiting_contract", <<"policy_ir">>)
       EXCEPT !.pending = "contract"])

(* _continue_baseline: one initial batch, at most one targeted batch, then *)
(* the suite is frozen and evaluated.                                      *)
InitialBatch(j) == Step(j, "generating_initial_tests", "provisional_execution", <<>>)

CoverageShort(j) ==
  Step(j, "provisional_execution", "targeting_coverage", <<"coverage_snapshot">>)

(* Faulty variant: the suite is announced but not stored.                  *)
FrozenUnstored(j) ==
  \E from \in {"provisional_execution", "targeting_coverage"} :
    Step(j, from, "freezing_suite", <<>>)

Frozen(j) ==
  \E from \in {"provisional_execution", "targeting_coverage"} :
    Step(j, from, "freezing_suite", <<"scenario_suite">>)

BaselineBegun(j) == Step(j, "freezing_suite", "baseline_execution", <<>>)

BaselineEvaluated(j) ==
  Step(j, "baseline_execution", "analyzing", <<"evaluation_report">>)

FindingsShown(j) ==
  LET adds == <<"finding_report", "metrics_report">>
  IN  Advance(j, "analyzing", "awaiting_finding_review", adds,
        [Moved(job[j].run, "awaiting_finding_review", adds)
           EXCEPT !.pending = "findings"])

NothingFound(j) ==
  LET adds == <<"finding_report", "metrics_report">>
  IN  Advance(j, "analyzing", "completed_no_findings", adds,
        [Moved(job[j].run, "completed_no_findings", adds) EXCEPT !.pending = "none"])

(* Coverage is still short after the targeted batch.  The job does not     *)
(* take over the record it has just written and reads the run once more,   *)
(* still inside the try block, so its version is out of date from here on. *)
CoverageLimit(j) ==
  LET r == job[j].run
      adds == <<"coverage_snapshot">>
      why == Refusal(r, job[j].version, "coverage_limit_exceeded", adds)
  IN  /\ job[j].pc = "targeting_coverage"
      /\ ~job[j].cancelled
      /\ IF why # "none" THEN Fails(j, why) /\ UNCHANGED rec
         ELSE /\ rec' = [rec EXCEPT ![r] = Moved(r, "coverage_limit_exceeded", adds)]
              /\ job' = [job EXCEPT ![j].pc = "reporting"]
              /\ UNCHANGED tasks
      /\ UNCHANGED <<mode, used, call, dropped>>

Reported(j) ==
  /\ job[j].pc = "reporting"
  /\ ~job[j].cancelled
  /\ IF Live(job[j].run) THEN Ends(j) ELSE Fails(j, "not_found")
  /\ UNCHANGED <<mode, rec, used, call, dropped>>

(* _continue_revision.                                                     *)
Drafted(j) ==
  Advance(j, "drafting_revision", "awaiting_revision_confirmation",
    <<"revision_proposal">>,
    [Moved(job[j].run, "awaiting_revision_confirmation", <<"revision_proposal">>)
       EXCEPT !.pending = "revision"])

(* confirm_revision, after the claim: the same suite is run again.         *)
Applied(j) == Step(j, "applying_revision", "retesting", <<"policy_ir">>)

Retested(j) ==
  Step(j, "retesting", "complete",
       <<"evaluation_report", "finding_report", "comparison_bundle", "metrics_report">>)

(* A stage raises: the model call, a validation or an injected component.  *)
Fallible == Automatic \ {"queued", "freezing_suite"}

StageFails(j) ==
  /\ job[j].pc \in Fallible
  /\ ~job[j].cancelled
  /\ Fails(j, "stage")
  /\ UNCHANGED <<mode, rec, used, call, dropped>>

(* CancelledError at the await a job waits in: inside the try block it is  *)
(* turned into a failure of the run, before it it just ends the job.       *)
CancelSeen(j) ==
  /\ job[j].cancelled
  /\ job[j].pc \in Automatic \union {"reporting"}
  /\ Fails(j, "cancelled")
  /\ UNCHANGED <<mode, rec, used, call, dropped>>

(* Faulty variant: a second cancellation is not seen while failing.        *)
CancelledBeforeWork(j) ==
  /\ job[j].cancelled
  /\ job[j].pc \in {"new", "claiming"}
  /\ Ends(j)
  /\ UNCHANGED <<mode, rec, used, call, dropped>>

CancelledOutside(j) ==
  /\ job[j].cancelled
  /\ job[j].pc \in {"new", "claiming", "failing"}
  /\ Ends(j)
  /\ UNCHANGED <<mode, rec, used, call, dropped>>

(* Faulty variant: the failure leaves the source text in the record.       *)
FailedRecordKeepsSource(j) ==
  [Moved(job[j].run, "failed", <<>>)
     EXCEPT !.error = job[j].error, !.pending = "none"]

FailedRecord(j) ==
  [Moved(job[j].run, "failed", <<>>)
     EXCEPT !.error = job[j].error, !.pending = "none", !.source = FALSE]

(* _failure: written against the version the job last saw; a refusal by    *)
(* the store or by transition_to is swallowed.                             *)
FailureHandled(j) ==
  LET r == job[j].run
  IN  /\ job[j].pc = "failing"
      /\ ~job[j].cancelled
      /\ IF Refusal(r, job[j].version, "failed", <<>>) = "none"
           THEN rec' = [rec EXCEPT ![r] = FailedRecord(j)]
           ELSE UNCHANGED rec
      /\ Ends(j)
      /\ UNCHANGED <<mode, used, call, dropped>>

JobStep(j) ==
  \/ Reads(j) \/ Continues(j) \/ Missed(j)
  \/ Started(j) \/ RevisionAccepted(j) \/ RevisionRejected(j) \/ ClaimLost(j)
  \/ Ingested(j) \/ Compiled(j)
  \/ InitialBatch(j) \/ CoverageShort(j) \/ Frozen(j) \/ CoverageLimit(j)
  \/ Reported(j) \/ BaselineBegun(j) \/ BaselineEvaluated(j)
  \/ FindingsShown(j) \/ NothingFound(j)
  \/ Drafted(j) \/ Applied(j) \/ Retested(j)
  \/ StageFails(j) \/ CancelSeen(j) \/ CancelledOutside(j) \/ FailureHandled(j)

-----------------------------------------------------------------------------
(* Requests.  confirm_contract and select_findings read the record, check  *)
(* the command against it, and move; between the two other requests run.   *)

ReadsGate(c, gate, r) ==
  /\ call[c] = NoCall
  /\ rec[r].stage = gate
  /\ call' = [call EXCEPT ![c] =
       [gate |-> gate, run |-> r, version |-> rec[r].version]]
  /\ UNCHANGED <<mode, rec, used, job, tasks, dropped>>

(* The store still holds the version the request has read.                 *)
Decides(c, gate, to, adds) ==
  /\ call[c].gate = gate
  /\ Refusal(call[c].run, call[c].version, to, adds) = "none"
  /\ rec' = [rec EXCEPT ![call[c].run] =
       [Moved(call[c].run, to, adds) EXCEPT !.pending = "none"]]
  /\ call' = [call EXCEPT ![c] = NoCall]
  /\ UNCHANGED <<mode, used, tasks, dropped>>

(* Faulty variant: the decision is stored, its continuation never begins.  *)
ContractConfirmedUnowned(c, j) ==
  /\ Decides(c, "awaiting_contract", "generating_initial_tests",
             <<"policy_ir", "policy_contract">>)
  /\ job[j] = NoJob
  /\ UNCHANGED job

(* No suspension between accepting the decision and owning its work.       *)
ContractConfirmed(c, j) ==
  /\ Decides(c, "awaiting_contract", "generating_initial_tests",
             <<"policy_ir", "policy_contract">>)
  /\ Schedule(j, "baseline", call[c].run, call[c].version + 1, FALSE)

ContractRejected(c) ==
  /\ Decides(c, "awaiting_contract", "contract_rejected", <<>>)
  /\ UNCHANGED job

FindingsAccepted(c, j) ==
  /\ Decides(c, "awaiting_finding_review", "drafting_revision", <<"finding_report">>)
  /\ Schedule(j, "drafting", call[c].run, call[c].version + 1, FALSE)

NoFindingAccepted(c) ==
  /\ Decides(c, "awaiting_finding_review", "completed_no_revision",
             <<"finding_report">>)
  /\ UNCHANGED job

(* The command does not fit what was read, the move is refused, or the     *)
(* request is cancelled.                                                   *)
Refused(c) ==
  /\ call[c] # NoCall
  /\ call' = [call EXCEPT ![c] = NoCall]
  /\ UNCHANGED <<mode, rec, used, job, tasks, dropped>>

(* confirm_revision runs as a job whose request waits for it; cancelling   *)
(* the request cancels the job.                                            *)
RevisionRequested(r, j) ==
  /\ r \in used
  /\ Schedule(j, "revision", r, 0, TRUE)
  /\ UNCHANGED <<mode, rec, used, tasks, call, dropped>>

RevisionDropped(j) ==
  /\ job[j].awaited
  /\ job' = [job EXCEPT ![j].awaited = FALSE, ![j].cancelled = TRUE]
  /\ dropped' = dropped \union {job[j].run}
  /\ UNCHANGED <<mode, rec, used, tasks, call>>

-----------------------------------------------------------------------------
(* Removal.                                                                *)

(* Faulty variant: deleting a run cancels the registered jobs of all runs. *)
DeleteCancelsAll(r) ==
  /\ Live(r)
  /\ rec' = [rec EXCEPT ![r] = Absent]
  /\ job' = [j \in Jobs |-> [job[j] EXCEPT !.cancelled =
               @ \/ \E s \in Runs : j \in tasks[s]]]
  /\ tasks' = [s \in Runs |-> {}]
  /\ UNCHANGED <<mode, used, call, dropped>>

Delete(r) ==
  /\ Live(r)
  /\ rec' = [rec EXCEPT ![r] = Absent]
  /\ job' = [j \in Jobs |-> [job[j] EXCEPT !.cancelled = @ \/ j \in tasks[r]]]
  /\ tasks' = [tasks EXCEPT ![r] = {}]
  /\ UNCHANGED <<mode, used, call, dropped>>

(* The run's time is up and the store lets go of it.                       *)
Expire(r) ==
  /\ Live(r)
  /\ rec' = [rec EXCEPT ![r] = Absent]
  /\ UNCHANGED <<mode, used, job, tasks, call, dropped>>

(* task_runner.cancel, by the delete route or by a sweep that finds the    *)
(* run gone.                                                               *)
CancelGone(r) ==
  /\ Gone(r)
  /\ \E j \in Jobs : job[j].run = r /\ ~job[j].cancelled
  /\ job' = [j \in Jobs |-> [job[j] EXCEPT !.cancelled = @ \/ job[j].run = r]]
  /\ UNCHANGED <<mode, rec, used, tasks, call, dropped>>

Request ==
  \/ \E r \in Runs, j \in Jobs : Create(r, j) \/ RevisionRequested(r, j)
  \/ \E r \in Runs : CreateCached(r) \/ Delete(r) \/ Expire(r)
  \/ \E c \in Calls, r \in Runs,
        gate \in {"awaiting_contract", "awaiting_finding_review"} :
       ReadsGate(c, gate, r)
  \/ \E c \in Calls :
       \/ \E j \in Jobs : ContractConfirmed(c, j) \/ FindingsAccepted(c, j)
       \/ ContractRejected(c) \/ NoFindingAccepted(c) \/ Refused(c)
  \/ \E j \in Jobs : RevisionDropped(j)

Next ==
  \/ \E j \in Jobs : JobStep(j)
  \/ \E r \in Runs : CancelGone(r)
  \/ Request

Spec == Init /\ [][Next]_vars

(* The event loop runs ready jobs, every model call has a timeout, and the *)
(* sweep runs for ever.  Nobody has to send a request.  The deadline of a  *)
(* run is counted on only where nothing else ends the run: after a         *)
(* cancelled confirm_revision.                                             *)
Fairness ==
  /\ \A j \in Jobs : WF_vars(JobStep(j))
  /\ \A r \in Runs : WF_vars(CancelGone(r))
  /\ \A r \in Runs : WF_vars(r \in dropped /\ Expire(r))

FairSpec == Spec /\ Fairness

-----------------------------------------------------------------------------
(* Properties.                                                             *)

Kinds == {"none", "start", "baseline", "drafting", "revision"}
Errors == {"none", "stage", "cancelled", "not_found", "conflict", "invalid_state"}
Questions == {"none", "contract", "findings", "revision"}
Artifacts == {"run_manifest", "policy_document", "policy_ir", "policy_contract",
              "coverage_snapshot", "scenario_suite", "evaluation_report",
              "finding_report", "metrics_report", "revision_proposal",
              "comparison_bundle"}
Steps == Automatic \union {"free", "new", "claiming", "reporting", "failing"}

Records == [stage : Stages, version : Nat, source : BOOLEAN, pending : Questions,
            arts : Seq(Artifacts), error : Errors]
JobStates == [kind : Kinds, run : Runs \union {None}, pc : Steps, version : Nat,
              cancelled : BOOLEAN, awaited : BOOLEAN, error : Errors]
CallStates == [gate : Gates \union {"none"}, run : Runs \union {None}, version : Nat]

(* Types of the coordinator's state; jobs under way and registered tasks   *)
(* belong to a run.                                                        *)
TypeOK ==
  /\ mode \in {"live", "cached"}
  /\ rec \in [Runs -> Records \union {Absent}]
  /\ used \in SUBSET Runs
  /\ job \in [Jobs -> JobStates]
  /\ tasks \in [Runs -> SUBSET Jobs]
  /\ call \in [Calls -> CallStates]
  /\ dropped \in SUBSET Runs
  /\ \A j \in Jobs : job[j].pc # "free" => job[j].run \in Runs
  /\ \A c \in Calls : call[c].gate # "none" => call[c].run \in Runs

(* Accepted work is owned: while the server has to move a run on, exactly  *)
(* one job holds its current version, and nobody has cancelled that job.   *)
(* Only cancelling a confirm_revision request can leave a run without one. *)
Owns(j, r) ==
  /\ job[j].run = r
  /\ job[j].version = rec[r].version
  /\ ~job[j].cancelled
  /\ job[j].pc \in {"new", "claiming"} => job[j].kind # "revision"

WorkIsOwned ==
  \A r \in Runs :
    rec[r].stage \in Automatic /\ r \notin dropped =>
      Cardinality({j \in Jobs : Owns(j, r)}) = 1

(* A run fails because one of its stages failed, or because its            *)
(* confirm_revision was cancelled; never because a job lost a race, found  *)
(* the run moved on by somebody else, or was cancelled with another run.   *)
FailedForCause ==
  \A r \in Runs : rec[r].stage = "failed" =>
    \/ rec[r].error = "stage"
    \/ rec[r].error = "cancelled" /\ r \in dropped

(* The evidence of a run is complete and in order: one frozen suite, made  *)
(* for a confirmed contract; each evaluation is of the newest policy, on   *)
(* that suite; a proposal follows the review; a comparison has both sides. *)
Count(kind, arts, n) == Cardinality({i \in 1 .. n : arts[i] = kind})

EvidenceInOrder ==
  \A r \in Runs : LET arts == rec[r].arts IN
    /\ \A n \in DOMAIN arts :
         LET N(kind) == Count(kind, arts, n)
         IN  /\ arts[n] = "scenario_suite" =>
                  N("policy_contract") = 1 /\ N("scenario_suite") = 1
             /\ arts[n] = "evaluation_report" =>
                  /\ N("scenario_suite") = 1
                  /\ N("policy_ir") = N("evaluation_report") + 1
             /\ arts[n] = "revision_proposal" =>
                  N("finding_report") = N("metrics_report") + 1
             /\ arts[n] = "comparison_bundle" =>
                  N("evaluation_report") = 2 /\ N("revision_proposal") = 1
    /\ rec[r].stage = "complete" =>
         Count("comparison_bundle", arts, Len(arts)) = 1

(* Whatever way a run takes, also when a stage fails: the private source   *)
(* text is forgotten once it is ingested, and a question is open exactly   *)
(* while a person has to answer it.                                        *)
QuestionAt(stage) ==
  CASE stage = "awaiting_contract" -> "contract"
    [] stage = "awaiting_finding_review" -> "findings"
    [] stage = "awaiting_revision_confirmation" -> "revision"
    [] OTHER -> "none"

NothingLeftBehind ==
  \A r \in Runs :
    /\ rec[r].source => rec[r].stage \in {"queued", "ingesting"}
    /\ rec[r].pending = QuestionAt(rec[r].stage)

(* Every record is well formed at every await, and carries what its stage  *)
(* calls for and no more, in the order in which one thing is about another.*)
RecordsInOrder == TypeOK /\ NothingLeftBehind /\ EvidenceInOrder

(* Every command the coordinator accepts at a stage is among the actions   *)
(* the client is told about.                                               *)
CommandsAt(stage) ==
  {c \in {"confirm_contract"} : Legal(stage, "generating_initial_tests")} \union
  {c \in {"reject_contract"} : Legal(stage, "contract_rejected")} \union
  {c \in {"select_findings"} : Legal(stage, "completed_no_revision")} \union
  {c \in {"confirm_revision"} : Legal(stage, "applying_revision")} \union
  {c \in {"reject_revision"} : Legal(stage, "revision_rejected")}

EveryCommandIsOffered ==
  \A r \in Runs : Live(r) =>
    CommandsAt(rec[r].stage) \subseteq AllowedActions(rec[r].stage)

(* Every job ends, whatever becomes of its run and however often it is     *)
(* cancelled.                                                              *)
EveryJobEnds == \A j \in Jobs : job[j].pc # "free" ~> job[j].pc = "free"

(* The coordinator implements the life cycle it promises, liveness         *)
(* included.                                                               *)
PhaseOf(stage) ==
  CASE stage \in {"queued", "ingesting", "extracting"} -> "compiling"
    [] stage = "awaiting_contract" -> "contract"
    [] stage \in {"generating_initial_tests", "provisional_execution",
                  "targeting_coverage", "freezing_suite", "baseline_execution",
                  "analyzing"} -> "testing"
    [] stage = "awaiting_finding_review" -> "review"
    [] stage = "drafting_revision" -> "drafting"
    [] stage = "awaiting_revision_confirmation" -> "revision"
    [] stage \in {"applying_revision", "retesting"} -> "retesting"
    [] OTHER -> "ended"

Phase(r) == IF Live(r) THEN PhaseOf(rec[r].stage)
            ELSE IF r \in used THEN "gone" ELSE "unborn"

Lifecycle == INSTANCE RunLifecycle WITH phase <- [r \in Runs |-> Phase(r)]

ImplementsLifecycle == Lifecycle!Spec
=============================================================================
