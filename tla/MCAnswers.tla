------------------------------ MODULE MCAnswers ------------------------------
(***************************************************************************)
(* The clients of services that may fail, misbehave or never answer, for   *)
(* TLC: the engine's swarm, the Sandbox request with its roster and what   *)
(* it makes of a capture, the Judge and the whole v2 request, a typed      *)
(* request to a model, and the Judge's gates over all evidence.  A         *)
(* behaviour is of the part chosen at its beginning.                       *)
(***************************************************************************)
EXTENDS Naturals, Sequences, FiniteSets

CONSTANTS
  Calls,
  SwarmTimeout, Texts, RowLimit, MaxRows, \* of the swarm and of texts and rows
  MaxRepairs, MaxItems, MaxCancels,
  NativeRows, Count,                    \* of a capture
  Names, Seats, BatchSize, MaxWait      \* of a roster

(* Native rows have identifiers of their kind and steps; limits are numbers. *)
ASSUME AnswersAssumption ==
  /\ \A r \in NativeRows : r.id \in {"post", "comment"} \X Nat /\ r.step \in Nat
  /\ {SwarmTimeout, RowLimit, MaxRows, MaxRepairs, MaxItems, MaxCancels, Count, Seats} \subseteq Nat
  /\ BatchSize \in Nat \ {0}

VARIABLES
  part, pc,
  clock, server, rows, capture,                              \* SwarmRun
  row, call, engine, me, world,                              \* SandboxService
  ev, attempt, draft, cache, rejected, result, history,      \* JudgeAgent
  body, metric, sandbox, judge, stages, cancelled, response, \* EvidenceWorkflow
  delivered, at, seen, pending, placed, shown, notes,        \* CaptureRecords
  answer, calls, repair, retries, waited,                    \* ModelCalls
  people, round, asked, again, batch, code                   \* LanguageRoster, with answer, calls

Swarm    == INSTANCE SwarmRun
Request  == INSTANCE SandboxService WITH Count <- 1, MaxCancels <- 1, Replacements <- 0
Workflow == INSTANCE EvidenceWorkflow

Tested == [method |-> "rule_templates", status |-> "completed", ready |-> TRUE,
           passed |-> 1, failed |-> 0, unscored |-> 0]
Discussed == [status |-> "completed", messages |-> 2, available |-> 2,
              errors |-> FALSE, mode |-> "live"]
Nothing == [status |-> "none", messages |-> 0, available |-> 0,
            errors |-> FALSE, mode |-> "none"]
Untested == [method |-> "none", status |-> "none", ready |-> FALSE,
             passed |-> 0, failed |-> 0, unscored |-> 0]

(* Complete evidence, evidence of a failed simulation, and none.           *)
FewEvidence ==
  {[metric |-> Tested, sandbox |-> Discussed, mode |-> "live"],
   [metric |-> Tested, sandbox |-> Nothing, mode |-> "live"],
   [metric |-> Untested, sandbox |-> Discussed, mode |-> "fixture"]}

Judge == INSTANCE JudgeAgent WITH Evidence <- FewEvidence
Gates == INSTANCE JudgeAgent WITH Texts <- {"t1"}, MaxItems <- 1, MaxRepairs <- 0,
                                  Evidence <- Judge!AllEvidence

(* Posts and comments of two speakers and of one who is not in the roster,  *)
(* which answer each other, themselves in a circle, or nobody.             *)
Row(kind, number, author, parent, text, step) ==
  [id |-> <<kind, number>>, author |-> author, parent |-> parent, text |-> text, step |-> step]
Post(number)    == <<"post", number>>
Comment(number) == <<"comment", number>>
SomeRows ==
  { Row("post", 1, 0, <<>>, "english", 0),       Row("post", 1, 1, <<>>, "latin", 0),
    Row("post", 1, 0, Post(2), "english", 0),    Row("post", 2, 1, Post(1), "script", 1),
    Row("post", 2, 1, Post(1), "", 0),           Row("post", 2, 2, <<>>, "english", 0),
    Row("comment", 1, 0, Post(1), "english", 1), Row("comment", 1, 1, Comment(2), "english", 0),
    Row("comment", 2, 0, Comment(1), "script", 0), Row("comment", 1, 1, <<>>, "", 0),
    Row("comment", 2, 0, Comment(2), "latin", 0), Row("comment", 2, 1, Post(9), "english", 0),
    Row("comment", 3, 1, Comment(1), "english", 1) }
Capture == INSTANCE CaptureRecords WITH rows <- delivered

BackoffSeconds == <<1, 2>>
Model  == INSTANCE ModelCalls WITH Backoff <- BackoffSeconds
Roster == INSTANCE LanguageRoster WITH attempt <- round, Count <- Seats

swarmVars    == <<clock, server, rows, capture>>
requestVars  == <<row, call, engine, me, world>>
judgeVars    == <<ev, attempt, draft, cache, rejected, result, history>>
workflowVars == <<body, metric, sandbox, judge, stages, cancelled, response>>
captureVars  == <<delivered, at, seen, pending, placed, shown, notes>>
modelVars    == <<repair, retries, waited>>
rosterVars   == <<people, round, asked, again, batch, code>>
serviceVars == <<swarmVars, requestVars, judgeVars, workflowVars>>
clientVars == <<captureVars, modelVars, rosterVars, answer, calls>>
vars == <<part, pc, serviceVars, clientVars>>

NoSwarm == clock = "idle" /\ server = "idle" /\ rows = "idle" /\ capture = "idle"
NoRequest ==
  row = "idle" /\ call = "idle" /\ engine = "idle" /\ me = "idle" /\ world = "idle"
NoJudge ==
  /\ ev = "idle" /\ attempt = "idle" /\ draft = "idle" /\ cache = "idle"
  /\ rejected = "idle" /\ result = "idle" /\ history = "idle"
NoWorkflow ==
  /\ body = "idle" /\ metric = "idle" /\ sandbox = "idle" /\ judge = "idle"
  /\ stages = "idle" /\ cancelled = "idle" /\ response = "idle"

NoService == NoSwarm /\ NoRequest /\ NoJudge /\ NoWorkflow
NoCapture ==
  /\ delivered = "idle" /\ at = "idle" /\ seen = "idle" /\ pending = "idle"
  /\ placed = "idle" /\ shown = "idle" /\ notes = "idle"
NoModel  == repair = "idle" /\ retries = "idle" /\ waited = "idle"
NoRoster ==
  /\ people = "idle" /\ round = "idle" /\ asked = "idle" /\ again = "idle"
  /\ batch = "idle" /\ code = "idle"
NoCalls  == answer = "idle" /\ calls = "idle"

Init ==
  \/ /\ NoCapture /\ NoModel /\ NoRoster /\ NoCalls
     /\ \/ part = "swarm" /\ Swarm!Init /\ NoRequest /\ NoJudge /\ NoWorkflow
        \/ part = "request" /\ Request!Init /\ NoSwarm /\ NoJudge /\ NoWorkflow
        \/ part = "judge" /\ Judge!Init /\ NoSwarm /\ NoRequest /\ NoWorkflow
        \/ part = "gates" /\ Gates!Init /\ NoSwarm /\ NoRequest /\ NoWorkflow
        \/ part = "workflow" /\ Workflow!Init /\ NoSwarm /\ NoRequest /\ NoJudge
  \/ /\ NoService
     /\ \/ part = "capture" /\ Capture!Init /\ NoModel /\ NoRoster /\ NoCalls
        \/ part = "model" /\ Model!Init /\ NoCapture /\ NoRoster
        \/ part = "roster" /\ Roster!Init /\ NoCapture /\ NoModel

SwarmStep(A) ==
  part = "swarm" /\ A /\ UNCHANGED <<part, requestVars, judgeVars, workflowVars, clientVars>>
RequestStep(A) ==
  part = "request" /\ A /\ UNCHANGED <<part, swarmVars, judgeVars, workflowVars, clientVars>>
JudgeStep(A) ==
  part = "judge" /\ A /\ UNCHANGED <<part, swarmVars, requestVars, workflowVars, clientVars>>
WorkflowStep(A) ==
  part = "workflow" /\ A /\ UNCHANGED <<part, swarmVars, requestVars, judgeVars, clientVars>>

CaptureStep(A) ==
  part = "capture" /\ A /\ UNCHANGED <<part, serviceVars, modelVars, rosterVars, answer, calls>>
ModelStep(A) ==
  part = "model" /\ A /\ UNCHANGED <<part, serviceVars, captureVars, rosterVars>>
RosterStep(A) ==
  part = "roster" /\ A /\ UNCHANGED <<part, serviceVars, captureVars, modelVars>>

Next ==
  \/ SwarmStep(Swarm!Next) \/ RequestStep(Request!Next)
  \/ JudgeStep(Judge!Next) \/ WorkflowStep(Workflow!Next)
  \/ CaptureStep(Capture!Next) \/ ModelStep(Model!Next) \/ RosterStep(Roster!Next)

(* As in the components: their own tasks and timers, never the services.   *)
Fairness ==
  /\ WF_vars(SwarmStep(Swarm!Client))
  /\ WF_vars(RequestStep(Request!Client)) /\ WF_vars(RequestStep(Request!Expire))
  /\ WF_vars(JudgeStep(Judge!Begin)) /\ WF_vars(JudgeStep(Judge!Expire))
  /\ WF_vars(WorkflowStep(Workflow!Request))
  /\ WF_vars(WorkflowStep(Workflow!SandboxExpires))
  /\ WF_vars(WorkflowStep(pc # "sandbox" /\ Workflow!Ends))
  /\ WF_vars(WorkflowStep(Workflow!JudgeFails))
  /\ WF_vars(CaptureStep(Capture!Client))
  /\ WF_vars(ModelStep(Model!Client)) /\ WF_vars(RosterStep(Roster!Client))

Spec == Init /\ [][Next]_vars /\ Fairness

-----------------------------------------------------------------------------
(* Whatever the server refuses, loses or fails, what run_swarm captures is *)
(* of a simulation that ended well, was started once, and not before what  *)
(* could be waited for; it is kept up to the code's limits, each text      *)
(* once; and what the Sandbox shows of a capture is what was said, in an   *)
(* order that can be followed (capture.py, translation.py).                *)
CaptureIsSound ==
  /\ part = "swarm" =>
       Swarm!TypeOK /\ Swarm!CapturedIsFinished /\ Swarm!StartedIsPrepared /\ Swarm!CapturedOnce
  /\ part = "capture" =>
       Capture!TypeOK /\ Capture!CaptureIsFaithful /\ Capture!ShownIsEnglish

(* Retries and repairs of a model call, and of a batch of a roster, are    *)
(* bounded, and none is left unused (llm.py, model_output.py, language.py).*)
CallsAreBounded ==
  /\ part = "model" => Model!TypeOK /\ Model!CallsAreBounded
  /\ part = "roster" => Roster!TypeOK /\ Roster!RosterIsWhole

(* What the Judge shows was checked and reviewed in this very form, its    *)
(* failures are what they say, and its gates are those of the contract.    *)
JudgementIsSound ==
  /\ part = "judge" =>
       Judge!TypeOK /\ Judge!ShownIsChecked /\ Judge!AdviceIsReviewed /\ Judge!FailureIsNamed
  /\ part = "gates" => Gates!GatesAgree

(* Whichever service misbehaves, the workflow calls nothing complete that  *)
(* is not, and reports every stage.                                        *)
WorkflowIsSound ==
  part = "workflow" =>
    Workflow!TypeOK /\ Workflow!CompletedIsEvidence /\ Workflow!EveryStageIsReported

(* Nobody judges, and nothing is answered, for a caller that has gone,     *)
(* although the cancelled Sandbox returns a result.                        *)
CancelledGoesNoFurther == [][part = "workflow" => Workflow!GoesNoFurther]_vars

(* Each of them comes back with a result or an error although the services *)
(* may hang in any call and the caller may cancel.                         *)
EverythingAnswers ==
  <>(\/ part = "gates"
     \/ pc \in {"captured", "raised", "done", "cancelled", "unsupported", "invalid",
                "valid", "transport_error", "invalid_output", "roster"})
=============================================================================
