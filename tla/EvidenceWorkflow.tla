-------------------------- MODULE EvidenceWorkflow --------------------------
(***************************************************************************)
(* WorkflowOrchestrator.run (backend/app/v2/workflow.py) behind its two    *)
(* routes (main.py, runtime.py): Metric, then Sandbox, then Judge, each    *)
(* under a time limit of its own, and one result that says what came of    *)
(* them.                                                                   *)
(*                                                                         *)
(* Sandbox and Judge are services that may answer with anything, raise, or *)
(* not answer.  A service that is cancelled may still return a result, as  *)
(* MiroFishSandboxService does.                                            *)
(***************************************************************************)
EXTENDS Naturals, Sequences, SequencesExt

CONSTANT MaxCancels  \* bound: how often the caller cancels

VARIABLES
  body,       \* the request: its mode and whether live is configured
  pc,         \* where the request is
  metric,     \* the status Metric gave
  sandbox,    \* the Sandbox evidence kept, or NoEvidence
  judge,      \* the Judge result kept, or NoEvidence
  stages,     \* the statuses of the stages so far
  cancelled,  \* how often the caller has cancelled
  response    \* what the route answers with

vars == <<body, pc, metric, sandbox, judge, stages, cancelled, response>>

-----------------------------------------------------------------------------
(* What services return.  mine: identity and fingerprint are the           *)
(* request's.  sound: the rest of the shared contract holds.               *)
Statuses == {"completed", "partial", "failed", "cancelled"}
NoEvidence == [status |-> "none", mine |-> FALSE, mode |-> "none", sound |-> FALSE]
Results == [status : Statuses, mine : BOOLEAN, mode : {"fixture", "live"},
            sound : BOOLEAN]
Cancelled(mode) == [status |-> "cancelled", mine |-> TRUE, mode |-> mode, sound |-> TRUE]

(* Faulty variant: only the identity is compared.                          *)
ValidSandboxIdentity(raw) == raw.mine /\ raw.mode = body.mode
(* validate_sandbox_result, and the mode.                                  *)
ValidSandbox(raw) == raw.mine /\ raw.sound /\ raw.mode = body.mode

(* validate_judge_result, and the mode: incomplete evidence can only have  *)
(* a partial review.                                                       *)
ValidJudge(raw) ==
  /\ raw.mine /\ raw.sound /\ raw.mode = body.mode
  /\ raw.status # "cancelled"
  /\ raw.status = "completed" => metric = "completed" /\ sandbox.status = "completed"

Init ==
  /\ body \in [mode : {"fixture", "live"}, configured : BOOLEAN]
  /\ pc = "begin" /\ metric = "none"
  /\ sandbox = NoEvidence /\ judge = NoEvidence
  /\ stages = <<>> /\ cancelled = 0
  /\ response = "none"

Steps(label) == pc' = label
Still == UNCHANGED <<body, metric>>

(* 503 before anything is started; a fixture never stands in for live.     *)
Unavailable ==
  /\ pc = "begin" /\ body.mode = "live" /\ ~body.configured
  /\ response' = "503" /\ Steps("done")
  /\ UNCHANGED <<sandbox, judge, stages, cancelled>> /\ Still

RunMetric ==
  /\ pc = "begin" /\ (body.mode = "live" => body.configured)
  /\ \E status \in {"completed", "partial", "needs_clarification"} :
       metric' = status /\ stages' = <<"completed", status>>
  /\ Steps("sandbox")
  /\ UNCHANGED <<body, sandbox, judge, cancelled, response>>

-----------------------------------------------------------------------------
(* The Sandbox stage                                                       *)
Onward == UNCHANGED <<judge, cancelled, response>> /\ Still

Keeps(raw) ==
  IF ValidSandbox(raw)
    THEN sandbox' = raw /\ stages' = Append(stages, raw.status)
    ELSE stages' = Append(stages, "failed") /\ UNCHANGED sandbox

SandboxReturns ==
  /\ pc = "sandbox"
  /\ \E raw \in Results : Keeps(raw)
  /\ Steps("judge") /\ Onward

SandboxRaises ==
  /\ pc \in {"sandbox", "expiring"}
  /\ stages' = Append(stages, "failed")
  /\ Steps("judge") /\ UNCHANGED sandbox /\ Onward

(* wait_for cancels the service and waits until it has ended.              *)
SandboxExpires ==
  /\ pc = "sandbox" /\ Steps("expiring")
  /\ UNCHANGED <<sandbox, stages>> /\ Onward

(* The service has turned the cancellation into a result.                  *)
ExpiredReturns ==
  /\ pc = "expiring"
  /\ Keeps(Cancelled(body.mode))
  /\ Steps("judge") /\ Onward

(* The caller cancels.                                                     *)
Cancel ==
  /\ cancelled < MaxCancels /\ pc \in {"sandbox", "expiring", "judge"}
  /\ cancelled' = cancelled + 1
  /\ Steps(IF pc = "judge" THEN "raised" ELSE "unwinding")
  /\ UNCHANGED <<sandbox, judge, stages, response>> /\ Still

(* Faulty variant: the result of a cancelled service is used.              *)
UnwoundIsUsed ==
  /\ pc = "unwinding"
  /\ \/ Steps("raised") /\ UNCHANGED <<sandbox, stages>>
     \/ Keeps(Cancelled(body.mode)) /\ Steps("judge")
  /\ UNCHANGED <<judge, cancelled, response>> /\ Still
(* The service ends, with an exception or with a result: the task is being *)
(* cancelled, and the request ends.                                        *)
Unwound ==
  /\ pc = "unwinding" /\ Steps("raised")
  /\ UNCHANGED <<sandbox, stages>> /\ Onward

-----------------------------------------------------------------------------
(* The Judge stage.  Every failure, a timeout too, is one failed stage.    *)
JudgeReturns ==
  /\ pc = "judge"
  /\ \E raw \in Results :
       IF ValidJudge(raw)
         THEN judge' = raw /\ stages' = Append(stages, raw.status)
         ELSE stages' = Append(stages, "failed") /\ UNCHANGED judge
  /\ Steps("build")
  /\ UNCHANGED <<sandbox, cancelled, response>> /\ Still

JudgeFails ==
  /\ pc = "judge"
  /\ stages' = Append(stages, "failed")
  /\ Steps("build")
  /\ UNCHANGED <<sandbox, judge, cancelled, response>> /\ Still

Status ==
  IF \A i \in DOMAIN stages : stages[i] = "completed" THEN "completed" ELSE "partial"

(* WorkflowResult.stage_identity_matches                                   *)
Consistent(status) ==
  /\ \A e \in {sandbox, judge} : e # NoEvidence => e.mine /\ e.mode = body.mode
  /\ status = "completed" =>
       /\ \A i \in DOMAIN stages : stages[i] = "completed"
       /\ sandbox # NoEvidence /\ judge # NoEvidence

Build ==
  /\ pc = "build"
  /\ response' = IF Consistent(Status) THEN Status ELSE "500"
  /\ Steps("done")
  /\ UNCHANGED <<sandbox, judge, stages, cancelled>> /\ Still

Request == Unavailable \/ RunMetric \/ Build
(* A service that was cancelled ends: its own cleanup has limits, see      *)
(* SandboxService.                                                         *)
Ends == SandboxRaises \/ ExpiredReturns \/ Unwound

Next ==
  \/ Request \/ SandboxReturns \/ SandboxExpires \/ Ends
  \/ JudgeReturns \/ JudgeFails \/ Cancel

Spec == Init /\ [][Next]_vars /\ WF_vars(Request) /\ WF_vars(SandboxExpires)
             /\ WF_vars(pc # "sandbox" /\ Ends) /\ WF_vars(JudgeFails)

-----------------------------------------------------------------------------
(* Properties                                                              *)

TypeOK ==
  /\ pc \in {"begin", "sandbox", "expiring", "unwinding", "judge", "build",
             "done", "raised"}
  /\ sandbox \in Results \union {NoEvidence} /\ judge \in Results \union {NoEvidence}
  /\ stages \in Seq(Statuses \union {"needs_clarification"}) /\ Len(stages) <= 4
  /\ response \in {"none", "503", "500", "completed", "partial"}

(* A completed workflow has completed evidence of all its stages, made for *)
(* this very request in the mode it asked for.                             *)
CompletedIsEvidence ==
  response = "completed" =>
    /\ metric = "completed"
    /\ \A e \in {sandbox, judge} :
         e.status = "completed" /\ e.mine /\ e.sound /\ e.mode = body.mode

(* A result is never refused by its own model and names all four stages,   *)
(* whichever failed: the deterministic evidence is not lost with a service *)
(* that misbehaves.                                                        *)
EveryStageIsReported ==
  pc = "done" /\ response # "503" => response # "500" /\ Len(stages) = 4

(* Nobody judges, and nothing is answered, for a caller that has gone,     *)
(* although the cancelled Sandbox returns a result.                        *)
GoesNoFurther ==
  cancelled > 0 => /\ UNCHANGED <<stages, judge, response>>
                   /\ pc' \in {"unwinding", "raised"}
=============================================================================
