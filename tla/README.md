# PolicyFuzz in TLA+

A verification development for the PolicyFuzz repository (`src/`): TLA+ models
of its stateful parts and of its rule engines, TLC configurations that check
them on small instances, and theorems about them checked by TLAPS.
`PROJECT.json` maps every definition that models code to the lines it stands
for, and lists runs, mutants, findings, hazards and theorems.

## The system

PolicyFuzz turns a prose policy into rules, has a person confirm them, fuzzes
them with a frozen suite of scenarios, proposes a revision and retests it. A
FastAPI backend keeps runs in memory and moves them through their stages; a
React client polls it. A second workflow ("v2") compiles a policy text into
tests of its own (Metric), has a simulation engine discuss it (Sandbox) and a
language model review the evidence (Judge). An engine sidecar is a service of
its own. Scripts record, seal, package and verify the evidence of a benchmark.

| Component | State it keeps | Operations | Correct when |
|---|---|---|---|
| Run store, `workflow/store.py` | records by run id, each with a version, a deadline and a lock | create, get, mutate (compare and swap), delete, purge, close | one winner per version, no lost update, no write after the deadline, a removed run never returns |
| Coordinator and state machine, `workflow/coordinator.py`, `state_machine.py` | the stage, evidence and open question of a run; the job of each run | create, start, three decisions, two continuations, failure, delete | accepted work has exactly one owner, failure only for a cause, evidence in order, every run waits for a person or ends |
| Task runner and container, `workflow/task_runner.py`, `container.py` | jobs by run, tracked runs, a planner per run, the reaper, the model client | submit, run, cancel, sweep, close | no job escapes cancellation, nothing is kept for a run that is gone, the client closes last |
| Policy compilation, `features/policy/` | a proposal on its way to identified rules | resolve, rewrite, cite, limit, close, assign ids | every proposed rule is compiled or named as unsupported, no override of nothing |
| Scenario planning, `features/fuzzing/` | a planner per run | witnesses, candidates, two batches, assembly | a test on both sides of every threshold, everything left out is accounted for |
| Evaluation, `features/evaluation/` | none | resolve, assert, find, patch, compare; score, assess | no gap is missed, an accepted patch makes nothing worse, a score is the best pairing |
| Model client, `core/llm.py`, `llm_openai.py` | the retries of one request | complete | at most two retries, only for the retryable codes |
| Metric, `v2/metric/` | the claims of one case | read conditions, choose templates, run, reduce | no false alarm, no missed gap, minimal counterexamples |
| Job registry of the sandbox, `v2/sandbox/extension.py` | a SQLite row per request fingerprint | lookup, prepare, start, stop | one simulation per fingerprint, decisions are final, what runs can be stopped |
| Sandbox service, `v2/sandbox/service.py`, `capture.py`, `translation.py`, `language.py` | the job of one request, the captured rows, the roster | run, poll, stop, capture, translate | what it leaves behind is stopped or reported, what it calls complete is |
| Evidence workflow and Judge, `v2/workflow.py`, `v2/judge/` | stages of one request; drafts and verdicts | run; generate, review, check, repair | failures stay visible, only checked findings and reviewed advice are shown |
| Engine sidecar, `engine/app/` | JSON files per run | create, revise, attach, rehearse, run the swarm | a record shows evidence of what it says it is of; a captured talk is of a finished run and loses nothing below the limits |
| Client hook, `frontend/src/state/usePolicyFuzzRun.ts` | the shown run, the current generation of requests, a timer | create, decide, delete, refresh, poll | an old answer never shows, somebody polls while there is something to poll |
| Benchmark scripts, `scripts/` | reservations, custody, seals, archives, manifests | record, bind, seal, reveal, package, verify | one recorded run per candidate, no mixed packet, a claim that passes is true |

How they interact: routes call the coordinator and give the task runner a job
to own; jobs read and write the store only by compare-and-swap; the reaper, and
the `get_run` and `delete_run` requests, sweep the store and cancel the jobs of
runs that are gone; shutdown closes the store first, then the jobs, then the
model client. The v2 workflow calls Metric, Sandbox and Judge in turn; the
sandbox service calls the job registry over HTTP, and several processes may
serve one journal. The engine sidecar drives a simulation server of its own and
keeps its runs in files. The scripts share nothing but the files they leave.

What is hard: everything that happens between two awaits. Jobs wait in model
calls for seconds while people decide, delete or let a run expire; requests
and jobs are cancelled at any await, also while they handle a cancellation;
several sweeps cancel the same run; HTTP responses are lost after they had
their effect; processes die between a claim and its outcome; files are published
one after the other. Then the rule engines, where two pieces of code have to
agree about a comparison, a precedence or a gate. The `hazards` of
`PROJECT.json` name each of these at its line.

## The modules

### Runs

**RunStages** is the table of legal stage moves and of the actions offered at
each stage (`state_machine.py`), used by everything about runs.

**RunStore** has one action per stretch of code between two awaits of
`RunStore`. `pc`, `req`, `held` and `seen` are the callers: where they are, what
they asked for, the entry they have captured and the snapshot they work on.
`entries` is `_entries`; an entry of its own stands for each incarnation of a run
id. A `mutate` captures its entry, queues for the entry's lock, takes its
snapshot, runs its callback, and commits only if the entry is still bound, fresh
and of the expected version. Callers may be cancelled wherever they wait.

**AtomicRunStore** is what callers may rely on: each operation takes effect in
one step between its call and its return, or not at all. RunStore implements it.

**RunCoordinator** builds on the atomic store. `rec` is the store's record per
run (stage, version, whether the private source text is still there, open
question, kinds of artifacts), `job` the background jobs, `tasks` the
coordinator's `_tasks`, `call` the decision requests between reading and
deciding. A job's `pc` is the stage it is working on, so an action per
stage ends with the `_move` that stores its result, succeeds or runs into the
job's handler. What a stage computes is only whether it fails and which
artifacts it adds; whether coverage suffices and whether there are findings is left open.

**RunLifecycle** is the promise of the whole: a run is worked on until a person
has to decide, and from every phase where the server works it goes on or ends.
RunCoordinator implements it, fairness included.

**TaskRunner** is about ownership and cancellation. Jobs are new, working or
unwinding; `sweep` holds the sweeps of the reaper, of requests, and the
cancelling of shutdown: which runs they have left and which jobs they wait for.
A cancelled `gather` cancels its jobs again and returns only when they are
done; that, and the order of `aclose`, is what the properties rest on.

**RunHook** is the client hook for one window. `gen` is `generation.current`,
`call` the request each generation waits for (its `pending` flag), `timer` the
timers set, `shown`, `currentId`, `busy` and `error` what the hook returns;
`turned` is a history variable. A step is the code between two awaits: an
operation up to its request, or what follows when the request settles. The
server is RunLifecycle itself: GETs read its phases, decisions and deletions are
its steps, and it also moves on its own and for other windows. A request fails,
by time-out, abort or error response, whatever the server did with it; a write
given up before the server saw it stays in `late` and may still take effect.

### Policies, tests and revisions

**PolicyDrafts** takes a proposal of a model (handles and a catalog of citations)
or of a caller (citations and meanings) through `extraction.py`, `citations.py`
and `compiler.py`, one action per pass. A rule body is a meaning, its dimensions and
whether its citation is valid; `clauses` are the unsupported clauses so far.

**WitnessSearch** is `synthesis.py`: the search for facts that satisfy a
conjunction by a few probes per field, and the neighbours of each threshold.
The field domains keep their order, bounds and the derived daily total.

**SuiteBuilder** is the planner: candidates for every rule and invariant and a
few from a model are refused, merged by facts, selected within the capacity,
measured, targeted once more and assembled. A candidate is the facts it uses, its
assertions, targets and category; hashes order candidates as they are listed,
or in the opposite order (`reversed`).

**PolicyEngine** is the evaluation as a function of the policy: which rules
remain after overrides, what they decide, how an assertion is scored and which
findings follow. **RevisionGate** adds the operations: accept a finding, apply
a proposal as a whole, compare over the frozen suite and pass seven gates.

**ModelCalls** is one typed request to a model: the SDK's answers sorted into
codes, the retries, the one repair with a retry budget of its own.

### The v2 workflow

**MetricClaims** is the executable reimbursement policy: any action on any claim
in any order. **MetricTemplates** runs the twelve templates over it and reduces
failing cases by one deletion at a time. **MetricPlan** compiles explicit
comparisons out of a text and probes each at its boundary; a text is what the
regular expressions match in it.

**SandboxJobs** is `JobRegistry` for one fingerprint: the row, the calls under
way in each process, and the simulation engine. A SQLite transaction is one
step; engine calls are steps of their own, and may fail before or after they
had their effect. The engine (MiroFish) is external: it creates simulations,
starts them, and they end by themselves; it answers "unknown" only for a
simulation that never started.

**SandboxService** composes one request of `service.py` with SandboxJobs in one
process. A call may be handled late and its answer may be lost; the row may be
replaced between two polls; the deadline and the caller's cancellation may come
anywhere. **CaptureRecords** parses native rows, orders replies after what they
answer, and shows them in English before a deadline. **LanguageRoster** asks a
model for personas in batches that are checked, reviewed and repaired.

**JudgeAgent** is `JudgeAgentService.run`: drafts, reviews and citation checks by
a model that answers anything, with a cache of verdicts, bounded repairs and a
deadline; and the gates over evidence, which exist twice in the code.
**EvidenceWorkflow** is the whole request: three stages with time limits of their
own, services that answer anything, raise, hang, or return after they were
cancelled.

### The engine sidecar

**EngineRuns** is the coordinator behind the routes over the file store: a
request reads the record once, works on that copy and saves all of it several
times. **EngineProbes** is the designer of probes against the grader that reads
them: conditions on numbers, on texts and on the action, thresholds that are no
number (`_as_number` puts 0 or 1 in their place, the grader takes them for unmet),
ranges not of two numbers and empty lists. The designer writes the action of a
prohibition after the conditions, so a condition on `action.name` does not choose
it: the normal probe of such a rule takes the safe action and may come out as
ambiguous. ProbesMeetTheirRule leaves that case out, and ProhibitedIsCaught says
what comes of it. **SwarmRun** is `run_swarm` from the ontology to the captured
talk. It trusts the server in two places, and so does the code: a graph or a
preparation whose answer names no task is not waited for (StartedIsPrepared speaks
of those with a task), and of a talk longer than the limits of `_capture` the server
chooses which rows it answers. The engine cuts again after it has removed copies
(`_trim_swarm`); CapturedOnce says what is kept of either kind of talk.

### Evidence of a benchmark

**BlindAttempt** is `record_blind_run` for several recorders: reservation, guard,
execution, custody, two hard links, rollback, each step of which may fail before
or after it had its effect, and each recorder may die. A file is who wrote it,
the stage of the record and the error it notes.
**BlindPacket** is the two seals and the revelation; a hash is modelled by what is
hashed, so that a packet mixed from several editions has the hashes of each
member's own edition. **PackagePair** is the archive with its manifest.
**GoldAssessment** publishes score and provenance as one directory;
**GoldScore** is the score itself. **SubmissionClaims** is the gate that compares
artifacts, metrics, claims and the texts of a submission.

### Instances for TLC

**MCRunCoordinator** only adds a symmetry set; RunStore, TaskRunner and RunHook
are checked as they are. **MCSandbox**, **MCAnswers**, **MCPlanning**,
**MCCustody** and **MCRules** hold several components that do not touch each other
or that are asked at different bounds: `part` (`chosen`) is fixed in Init, the
variables of the other parts are idle, and a property is a conjunction with a guard
per part. All of these but MCSandbox's three journals are parameterised by
CONSTANTS, with named assumptions, so that theorems can be stated about them for
any bounds; the cfg gives the values, small sets from the definitions that begin
with `Some`. What bounds a run of TLC only is named and stands in MC modules:
`MostOverlapping`, `MostSerial` and `SerialSlots` count engine requests,
`OneAtATime` is the premise of the part "serial" and not a bound.
**MCRevisionGate** has the small policies, suites and drafts.

The definitions marked "Faulty variant" are the mutants: bugs one could
plausibly write, each of which breaks the property it is paired with. No
specification uses them.

## Faithfulness, and where the models are wider than the code

- In CPython an uncontended `asyncio.Lock` is taken without suspending, and
  `_entries_lock` is never held across a suspension, so today's interleavings
  are fewer than RunStore allows. The models rely on the contract of asyncio
  only: an await may suspend. The one exception: a `delete_run` request is
  not cancelled between its sweep and the removal of the record, where the code
  has no suspension at all.
- The run ids a coordinator draws are fresh (`_used_ids`). Ids that clients make
  up never become runs. A cached run is terminal from its creation
  (`validate_cached_record`).
- `_failure` swallows what the store refuses. After the coverage limit a job
  keeps the version from before its own last write; that is modelled.
- Only a cancelled `confirm_revision` request can leave a run in an automatic
  stage without an owner: when a second cancellation interrupts `_failure`. The
  run then stays until its deadline. `dropped` remembers these runs.
- RunHook shows the phase of a view, not its stage; whether a view is polled is
  decided by the stage, any stage of the phase, against `pollingStages`. The
  views of earlier steps (`retainSnapshot`) are left out. That a run the
  user's timed-out decision moves on later is not shown until the next refresh
  is how the code behaves: a view that waits for a decision is not polled.
- The server drains its requests before it runs the lifespan's shutdown, as
  ASGI servers do; TaskRunner's `CloseStore` has that as its guard. A request
  that waits in `TaskRunner.run` ends only when its job has ended.
- PolicyDrafts leaves out legacy rule-id aliases, several override edges per
  draft and invariant suggestions. On the model's path the number of rules the
  first validation excluded is dropped by the code, so the compilation reports
  none; the clauses are there all the same.
- GoldScore keeps the augmenting paths although duplicate fingerprints are refused
  before and a match needs equal fingerprints: after validation no two findings
  compete.
- BlindAttempt: an edit of the tree that is undone between two guards is not
  noticed by the code, nor by the model. A hard link shows the file in custody;
  when the audit in custody is replaced after a failure, a link that could not be
  removed still shows the old one.
- PackagePair: a KeyboardInterrupt between the effect of a rename and its return
  is not modelled; a crash there is.
- `engine/app/store.py:28` truncates `run.json` in place. EngineRuns models the
  unreadable record; that the record is lost for good has no property, because
  the code promises nothing else.

## Runs

| Run | Instance | Question |
|---|---|---|
| store | 2 callers, 1 run id, 2 incarnations, 1 time step and a deadline, versions to 2, fair | compare-and-swap, removal, deadlines; refinement of AtomicRunStore; every call returns |
| coordinator_safety | 2 runs, 2 jobs, 2 decisions | one owner, no failure without cause, records in order |
| coordinator_live | 1 run, 3 jobs, 2 decisions, fair | every job ends; the life cycle is implemented |
| coordinator_commands | 1 run, 1 job, 1 decision | violated: commands accepted but not offered |
| runner | 1 run, 2 jobs, the reaper, 2 requests, shutdown, fair | no job escapes, planners released, client closed last, requests return, gone runs are let go |
| hook | 1 run, 2 generations, 1 late write, fair | the screen shows what is followed and never goes back; a working run is followed until it rests |
| sandbox | shared: 2 processes, 3 calls; local: 1 process, crashes; service: 3 calls, 2 personas, 1 cancellation; replaced: 2 calls, 1 replacement | one launch, outcomes final, what runs is findable; a request stops or reports what it leaves behind |
| sandbox_cancel | 2 processes, 2 calls | violated: a stop writes back a stale row |
| answers | swarm to 3 rows with a limit of 2; a Sandbox request; captures of 3 of 13 rows; a Judge with 2 repairs and 2 items; every combination of evidence for its gates; the workflow with 2 cancellations; 1 typed request; a roster of 3 in batches of 2; fair | captures are faithful up to the limits, judgements checked, results true; calls are bounded; everything answers |
| planning | 2 overlapping engine requests of 3, or 4 in turn; rules of 34 conditions or pairs of 8 of them, and 1 exception of 6; plans of 1 to 13 probes; conjunctions of up to 4 conditions; suites of 3 scenarios; 2 recorders, 2 assessors, 9 editions, 2 packagings, 2 defects and findings, 2 changes of a submission | records agree with their evidence, probes and suites are honest, evidence is first-hand, claims are true |
| rules | 3 claims, 2 participants, 2 journeys; limits to 5 cents; 7 comparisons, budgets to 4; 113 policies of two rules; overrides of 3 rules; proposals of 3 rules with a limit of 2 | the rule engines agree with their definitions, revisions are safe |
| policy_new_failures | one policy with a conflict and every proposal about it | violated: a new failure outside the targets is accepted |

Why the bounds suffice for what is asked: the conflicts are between two actors
over one object, so two callers, jobs, requests or recorders reach each of them; a
third is there where a queue or a bystander matters (coordinator_live, the
reaper and shutdown besides a request). Two incarnations of an id are the
least that a stale reference can confuse. Two runs show that what happens to
one leaves the other alone. Jobs, calls and requests are slots that are reused,
so behaviours are not short: only run ids, incarnations and time steps are
used up. The algorithms are compared with a reference definition over every
input of a size that has all the cases: three rules are the least with an
override cycle and a bystander, three rows the least with a circle and an
orphan, three claims the least in which a cancelled claim frees what a third one
takes. Where behaviours end, deadlock is not checked; RunHook never stops and
checks it. That nobody waits for ever is what the liveness properties show.

Symmetry is used only where no liveness property is checked.

## Fairness

The event loop runs every ready task, so steps of jobs, of callers and of
sweeps are weakly fair; a job in a model call ends because every call has a
timeout. The reaper wakes for ever (`_expire_loop`). Taking RunStore's lock is
strongly fair: an `asyncio.Lock` wakes its waiters in the order they came. In
RunHook timers fire and every request settles, because the transport gives up
after fifteen seconds; that the server finishes is RunLifecycle's promise. In
MCAnswers the clients' own tasks and timers are fair, the services never: a
service may hang in any call. No person, client or operator is assumed to do
anything: no decision, cancellation, deletion or shutdown is fair. Expiry is
counted on only for runs whose `confirm_revision` was cancelled
(coordinator_live).

## Findings

- **Rejecting is accepted but never offered.** `allowed_actions` lists neither
  `reject_contract` nor `reject_revision`; the client enables its buttons
  by that list. (`coordinator_commands`)
- **stop writes back a stale row.** Across processes, a stop that read the row
  while prepare was in flight can overwrite a launched job with a cancelled row
  that has no simulation id. Within one process, where the lock covers the whole
  call, this cannot happen (part "local" of `sandbox`). (`sandbox_cancel`)
- **A new failure outside the targets is accepted.** The gates compare assertions
  that passed before; one that was inconclusive and fails after the patch is
  not counted, while the design document asks for zero new failures.
  (`policy_new_failures`)

## Theorems

No theorem is about the small instances of the runs: sets of actors and of data
are arbitrary, and so are the numbers, which TLC needs as bounds. What a theorem
assumes of them is a named assumption, and TLC evaluates it.

`StoreAndRulesProofs` proves the safety of RunStore for any sets of callers, run ids
and incarnations. The inductive invariant `StoreInvariant` joins four parts:
whoever is past the lock owns it and nobody else does; the snapshot a mutation
works on is the stored record as long as the entry is bound; every bound or
captured entry has been allocated; the acknowledged changes of an entry are
those in its record, one per version. The first three make the fourth
inductive. From it follow `CompareAndSwap` (OneWinnerPerVersion),
`UpdatesSurvive` (NoLostUpdate), `RemovedRunsStayRemoved` (DeadStaysDead) and
`WritesRespectTheDeadline` (NoLateWrite); `TypeCorrect` is the type invariant.
`StoreIsAtomic` is the refinement of AtomicRunStore: each action maps to the
call, the effect or the return of an atomic operation, or to a stutter. It needs
more than the safety does (`CallsInv`): times that were read are past, a closed
store is empty, and who waits has asked for what it waits for.

`RunCoordinatorProofs` is about any runs and any number of jobs and commands at a
time. `StepKinds` puts every step into one of a few kinds: `Work(j)` of a job,
`Asked(c)` and `IsDecided(c)` of a command, and `Outside`, what happens to a run from
outside. The artifacts of a run are described by how many there are of each kind
(`Tally`), and `FiledAt` says which tallies are in order at which stage; so the
long lists of evidence are never unfolded. The invariant `CoordInv` says what a
record at each stage holds (`RecordsSound`), that no job is ahead of its run and
who holds its version is at its stage and the only one (`Versioned`, `InStep`,
`OneHolder`), that every failure has its cause (`Caused`) and every accepted run
its owner (`HasOwner`). Kinds of steps that change the store change one record
(`IsMoved`, `Removed`, `Born`); the others change none (`Quiet`). From it follow
`RecordsStayInOrder` (RecordsInOrder), `FailuresHaveCauses` (FailedForCause) and
`AcceptedWorkIsOwned` (WorkIsOwned); and `StepsOfTheLifecycle`: whatever the
coordinator does is a step of RunLifecycle or none, for the phases of all runs.

`RunHookProofs` is about any runs, generations and late writes. `HookInv` says
that the request of the current generation is about the run that is followed
(`CurrentFollows`) and its answer is news for the screen (`CallsSound`), that
timers poll that run (`TimerFollows`), and that nothing is known of a run that is
ahead of the server. The server's own steps only go forward (`GoIsLater` and the
lemmas like it), so an answer that was true when it was given stays behind the
server; that, and the generation check in front of every assignment, gives
`TheScreenIsTrue` (ScreenIsTrue) and `TheScreenNeverGoesBack` (NeverGoesBack).

`SandboxJobsProofs` and `SandboxProofs` prove all properties of the run `sandbox`,
and the run has no others. For any processes on one journal, `SharedInv`: whoever
creates or launches holds a claim stored before, and no claim comes back; so
`OneLaunchForAll` (LaunchedOnce) and half of `OutcomesAreFinalForAll`
(OutcomesAreFinal). For one process with any number of calls, crashes included,
`LocalInv` adds what the lock gives: a row is not replaced behind its holder, and
what runs is what the row names, and is stopped before a cancellation is recorded. Hence
`NothingRunsUnfound` and `NothingRunsUnseenByOne` (NothingRunsUnseen). For the
service, `ServedInv` adds that ends in the journal are the runner's
(`RecordedEndsAreTrue`); `RequestInv` says what a request may believe: an answer
on its way fits the row (`AnswersFit`), the job that is bound is the row's, and a
status is given for a reason. Hence `ResultsAreTrue` (ResultIsTrue), for any
`Count` and `MaxCancels`. `KeepingInv` is the part in which the journal is
replaced: the other half of OutcomesAreFinal. `SharedIsMany`, `LocalIsOne` and
`ServerIsOne` tie the instances in MCSandbox to those the lemmas are about.
`RequestAssumption`: at least one stakeholder, and no call is named "none".

`AnswersProofs` proves every safety property of the run `answers`, for any texts,
rows, names and bounds. `AnswersInv` has an invariant for each part, and each part
keeps its own (`...GoesOn`): what a client knows is tied to what its service has
done, whatever that answers, and even if it never does. Two arguments
are not routine. Sorting and filtering are modelled as a list of a finite set in
an order; that such a list exists is proved by a smallest set without one
(`SmallestSet`, `OrderIsListed`), and once it exists it is without duplicates and
complete, which is all that is used. And CaptureRecords, when nothing is
eligible, takes the first pending record without its link: CaptureIsSound says
that links are lost only to circles. Everything pending then answers something
pending; among finitely many, the smallest trail of replies is on a circle
(`WaitingInACircle`). From the invariant follow `CapturesAreSound`
(CaptureIsSound), `JudgementsAreSound` (JudgementIsSound), `WorkflowsAreSound`
(WorkflowIsSound), `CallsStayBounded` (CallsAreBounded) and
`CancelledRequestsUnwind` (CancelledGoesNoFurther). `AnswersAssumption`: limits
are numbers, batches are not empty, native rows have ids of their kind.

`TaskRunnerProofs` proves every safety property of TaskRunner for any sets of
runs, jobs and requests. The proof first puts the steps into a few forms
(`StepForms`) and says once what each form changes (the `...Effect` lemmas); then
one lemma per part of `RunnerInv` goes through the forms. The part that makes
the rest inductive is `DrainedRunsAreGone`: whatever is registered for a run
while its jobs are being cancelled is *loose*, a job of a `confirm_revision` that
will find the run missing as soon as it runs. So when the run leaves `_runs` only
loose jobs are forgotten, every other job is reachable, and shutdown, which
begins when no such request is left, reaches all of them before it closes the
client (`ShutdownInOrder`). From `RunnerInvariant` follow `JobsStayInReach`
(NoJobEscapes), `ClientClosesLast` (ProviderOutlivesJobs), `PlannersFollowRuns`
(PlannersAreReleased), `CancelsForCause` (CancelledForCause) and `TypeCorrect`.
The one assumption is `ActorsAssumption`: the reaper, the task that shuts down and
the requests are different tasks.

`PlanningProofs` is about the parts of `planning` that keep records. Each has an
invariant, and `PlanningInvariant` joins them (`PlanningIsInvariant`).

- *Engine records*, for any number of requests that overlap, fail or end with the
  process, and without a bound (`EngineRecordsAreSound`). A request works on a
  copy of the record that others replace meanwhile, so nothing can be said of the
  file without saying what each copy will still become. `RunsInvariant`: the copy
  shows evidence of the policy and suite it shows (`Coherent`), is *ready* for the
  steps the request has left (`Ready`: it extracts before it generates, grades
  before it captures, and does none of it twice), and a score that is out of date
  is due before the next save (`Due`). Each step is then one lemma about one copy. From it
  `RecordsStayConsistent` (RecordsAreConsistent). `SerialInvariant` adds, while
  requests do not overlap, that the copy keeps what was last saved, as its own
  evidence or in its history; hence the engine's part of `NothingIsEverForgotten`
  (NothingIsForgotten).
- *The blind attempt*, for any recorders, candidates, outputs and aims. The
  properties say what stands at the names of a recorder; what makes them inductive
  is who may write there. `BlindInvariant` adds that whoever is past the
  reservation, or has run, holds it and was approved (`Owned`); that a verdict
  without an error is one of a complete record (`RecordsHonest`); that files in
  custody are the record of the candidate's owner (`RawKept`, `AuditKept`); what a
  recorder has written before it goes on (`AttemptProgress`); and that what is
  exposed came from custody (`RawExposed`, `AuditExposed`). One lemma each says
  what a step may do to reservations, custody and the canonical names, and that
  it leaves the others alone; the parts follow without going through the actions
  again. Hence `ExecutedOnce`, `ExposedAfterKept`, `BindingIsFirst`,
  `SuccessIsRecorded` and `NothingReplaced`.
- *Assessments* (`AssessmentInvariant`, `AssessmentsAreSound`): an output is the
  directory one assessor filled while it was his alone. *Archives*
  (`PackageInvariant`, `PackagesAreSound`): at each step of the two renames and
  their rollback, where the old pair is and what of the new one is in place.
  *Packets* (`PacketInvariant`, `PacketsAreSound`): a seal was made when hashes,
  policy and ids agreed. With the blind attempt they give `EvidenceStaysFirstHand`
  (EvidenceIsFirstHand).

- *The gate of a submission*, by itself and for any metrics, ratios, texts and
  number of edits (`SubmissionsThatPassAreTrue`, the second half of ClaimsHold).
  `SubmissionInvariant` says that no edit changes the form of a submission and that
  one that passed has no error. Then what the gate compared is put together: a claim
  repeats a verified metric (`ClaimRepeatsMetric`, `VerifiedMetric`), the metric's
  display is what its arithmetic gives, rounding stays within half a basis point
  (`RoundedIsNear`), and the digits that are shown read as the number they were made
  of (`DigitsRead`).

`NamesAssumption`: the names of nothing and of nobody are none of the others, and
recorders are started for a candidate and an output; `CommitAssumption`: what is
committed is something a file may hold; `RatiosAssumption`: the ratios that authors
write are of integers with a denominator that is not 0 (the code has an error for
any other). TLC evaluates them in `planning`.

The rule engines are the second half of `StoreAndRulesProofs`, for any suite,
policies, proposals, claims and limits; `RulesInvariant` has a part for each
(`RulesInvariantHolds`).

- *Evaluation* (`EvaluationStaysComplete`, EvaluationIsComplete). Overrides are
  removed all at once, so rules that apply might remove each other. If each of
  finitely many is overridden by another, some of them override each other in a
  circle (`OverriddenInACircle`: a smallest set of that kind); a valid policy has
  none, so somebody decides (`GateDecides`).
- *Revision* (`RevisionStaysSafe`, RevisionIsSafe). `GateInvariant`: the policies
  are valid, the revised one is what the proposal makes of the old, rule by rule
  (`PatchedRules`), and an accepted one passed the comparison. A dimension without
  an accepted finding has the same rules, overridden by the same (`OutsideStays`);
  so an assertion about it has the outcome it had, and the gates, which compare
  the suite as a whole, say of the rest what the property says.
- *Claims* (`ClaimsStaySound`, ClaimsAreSound). `CaseIsSound` ties each total to
  the claims: what is paid, and what is approved and not yet paid, stays within the
  budget whenever the policy has one of its two guards. A total is a sum over a
  finite set; that such a sum exists, and what it becomes when one claim changes,
  is proved by a smallest set for which it does not (`SumExists`, `SumSteps`,
  `TotalMoves`).
- *Drafts* (`DraftsStayKept`, DraftsAreKept). `Accounted`: every rule of the
  proposal is one draft or has one clause, and clauses have names of their own. A
  free suffix is always found, because there are fewer names than suffixes that are
  tried (`NamedIsFresh`). Rules that override what is gone go as well, round after
  round: a round that takes something away leaves fewer, so as many rounds as
  there are drafts are enough (`CloseKeeps`). What a validation leaves was
  `Checked`; so it compiles to a valid policy (`PolicyIsValid`), and, if no two
  rules have one meaning, a second validation changes nothing
  (`NothingLeftToDo`), which the code relies on: a model's proposal is validated twice.

`ClaimsAssumption`, `DraftsAssumption`, `PoliciesAssumption`: sets of claims, rules
and scenarios are finite, amounts and limits are integers, and rules are records
of the contracts. TLC evaluates them in `rules`.

Only model-checked: liveness (TLAPS has no fairness or ENABLED), so that calls
return, jobs end, the life cycle goes on, the screen is updated and everything
answers; and the properties that compare an algorithm with its definition over
every small input: the probes of the engine and their grader (ProbesAreSound),
the search for witnesses and the suite (SuitesAreHonest), the score (the first half
of ClaimsHold), templates and comparisons (TestsAreSharp). These
take no steps of several actors; what is hard in them is the data, and a proof
would be an induction over it or a case for each template, which this prover cannot
do. No module of the project declares a RECURSIVE operator.

## Not modelled

Text extraction, regular expressions, prompting, rendering, hashing and the
shapes of contracts; run views and the rebase of a recording, which are pure
projections without state; the simulation engine and the scripts that run
inside it; HTTP clients and their parsing; set-up scripts and recorded data.
Where a component is "partly" modelled, its note in `PROJECT.json` says what is
missing.

## Plan

1. Proofs of what is only model-checked: the search for witnesses and the
   assembly of a suite for any domains, the best pairing of a score.
2. The snapshots of earlier views in the client (`retainSnapshot`), and
   `useAgentSimulation`.
3. The rebase of a recording onto a new run (`cache_replay.py`) as an algorithm.
4. Larger instances: three recorders, suites with more than two batches.
