----------------------------- MODULE JudgeAgent -----------------------------
(***************************************************************************)
(* JudgeAgentService.run (backend/app/v2/judge/service.py): advice drafted *)
(* by a model, validated, reviewed as a whole, checked finding by finding  *)
(* against its own citations, repaired a bounded number of times under one *)
(* deadline; and the gates that the evidence opens or closes               *)
(* (judge/evidence.py, judge_contracts.py).                                *)
(*                                                                         *)
(* The model is external: every answer it may give is tried.  Prose is a   *)
(* set of texts; what it says is what review and checks say of it.         *)
(***************************************************************************)
EXTENDS Naturals, Sequences, FiniteSets, SequencesExt

CONSTANTS
  MaxRepairs,  \* _max_repairs
  Texts,       \* texts of findings
  MaxItems,    \* bound: findings in a draft
  Evidence     \* the evidence the request may hold

VARIABLES
  ev,       \* metric, sandbox and the client's mode
  pc,       \* where run is
  attempt,  \* the loop counter
  draft,    \* the draft at hand; it is pending if it was repaired
  cache,    \* citation_cache
  rejected, \* positions of findings whose check failed
  result,   \* the result, once there is one
  history   \* the draft that review accepted last; whether a call failed

vars == <<ev, pc, attempt, draft, cache, rejected, result, history>>

-----------------------------------------------------------------------------
(* Evidence.  What the contracts of Metric and Sandbox let through.        *)

Methods == {"rule_templates", "authored_fixture", "policy_conditions",
            "policy_scenarios"}

Metrics ==
  {m \in [method : Methods, status : {"completed", "partial", "needs_clarification"},
          ready : BOOLEAN, passed : 0..1, failed : 0..1, unscored : 0..1] :
     LET cases == m.passed + m.failed + m.unscored IN
     /\ m.method = "policy_conditions" => m.status = "partial" /\ m.ready
     /\ m.method = "policy_scenarios" =>
          m.status = "partial" /\ ~m.ready /\ m.unscored = cases
     /\ m.method # "policy_scenarios" => m.ready = (m.status # "needs_clarification")
     /\ m.status = "partial" => cases > 0
     /\ m.status = "needs_clarification" => cases = 0}

(* Two stakeholders were asked for; each message has an author of its own, *)
(* available ones have an English text.                                    *)
Sandboxes ==
  {s \in [status : {"completed", "partial", "failed", "cancelled"},
          messages : 0..2, available : 0..2, errors : BOOLEAN,
          mode : {"fixture", "live"}] :
     /\ s.available <= s.messages
     /\ s.available < s.messages => s.status = "partial"
     /\ s.status = "completed" => s.messages = 2 /\ ~s.errors
     /\ s.status = "failed" => s.errors}

NoMetric == [method |-> "none", status |-> "none", ready |-> FALSE,
             passed |-> 0, failed |-> 0, unscored |-> 0]
NoSandbox == [status |-> "none", messages |-> 0, available |-> 0,
              errors |-> FALSE, mode |-> "none"]

AllEvidence == [metric : Metrics \union {NoMetric},
                sandbox : Sandboxes \union {NoSandbox}, mode : {"fixture", "live"}]

Cases == ev.metric.passed + ev.metric.failed + ev.metric.unscored

(* index_evidence                                                          *)
Incomplete ==
  \/ ev.metric = NoMetric \/ ev.metric.status # "completed" \/ Cases = 0
  \/ ev.metric.unscored > 0
  \/ ev.sandbox = NoSandbox \/ ev.sandbox.available < ev.sandbox.messages
  \/ ev.sandbox.status # "completed" \/ ev.sandbox.messages = 0
  \/ ev.sandbox.errors \/ ev.sandbox.messages # 2

Eligible ==
  /\ ~Incomplete
  /\ ev.metric.passed > 0 /\ ev.metric.failed = 0
  /\ ev.metric.method # "authored_fixture"
  /\ ev.sandbox.mode # "fixture" /\ ev.mode # "fixture"

(* _incomplete of the shared contract                                      *)
ContractIncomplete ==
  \/ ev.metric = NoMetric \/ ev.metric.status # "completed"
  \/ ev.metric.unscored > 0 \/ Cases = 0
  \/ ev.sandbox.status # "completed"

(* validate_judge_result, up to the references of the citations            *)
Accepts(res) ==
  /\ res.status = "failed" =>
       res.code # "none" /\ res.advice = "insufficient_evidence" /\ res.items = <<>>
  /\ res.status # "failed" =>
       /\ res.code = "none"
       /\ \E i \in DOMAIN res.items : res.items[i].field = "next_steps"
  /\ res.status = "completed" => ~ContractIncomplete
  /\ res.advice = "consider_limited_pilot" =>
       /\ ~ContractIncomplete
       /\ ev.metric.failed = 0 /\ ev.metric.passed # 0
       /\ ev.metric.method # "authored_fixture"
       /\ "fixture" \notin {ev.sandbox.mode, ev.mode}

QualitativeOnly == ~ev.metric.ready \/ ev.metric.method = "policy_conditions"
HasDiscussion == ev.sandbox.available > 0

-----------------------------------------------------------------------------
(* Drafts                                                                  *)
Advice == {"revise_before_pilot", "consider_limited_pilot", "insufficient_evidence"}
Items == [field : {"findings", "next_steps"}, text : Texts]
Default == [field |-> "next_steps", text |-> "default"]

(* well: the schema, the prose checks and the references are in order.     *)
Drafts == [items : UNION {[1..n -> Items] : n \in 1..MaxItems}, advice : Advice,
           well : BOOLEAN]
NoDraft == [items |-> <<>>, advice |-> "insufficient_evidence", well |-> FALSE]

Result(status, advice, items, code) ==
  [status |-> status, advice |-> advice, items |-> items, code |-> code]
NoResult == Result("none", "insufficient_evidence", <<>>, "none")

AsResult(d) ==
  Result(IF Incomplete THEN "partial" ELSE "completed", d.advice, d.items, "none")

(* What is checked of a draft before anybody is asked about it.            *)
Acceptable(d) ==
  /\ d.well
  /\ Accepts(AsResult(d))
  /\ QualitativeOnly =>
       /\ \A i \in DOMAIN d.items : d.items[i].field = "next_steps"
       /\ d.advice = "insufficient_evidence"
  /\ d.advice = "consider_limited_pilot" => Eligible

(* The key of a check: its place, its text and what it cites.              *)
Key(i, item) == <<i, item>>
Known(i) == \E c \in cache : c[1] = Key(i, draft.items[i])
Supported(i) == \E c \in cache : c[1] = Key(i, draft.items[i]) /\ c[3]

-----------------------------------------------------------------------------
Init ==
  /\ ev \in Evidence
  /\ pc = "begin" /\ attempt = 0 /\ draft = NoDraft
  /\ cache = {} /\ rejected = {}
  /\ result = NoResult
  /\ history = [reviewed |-> NoDraft, failed |-> FALSE]

Keep == UNCHANGED ev

(* failure: the result says what went wrong and carries nothing else.      *)
Failure(code) ==
  /\ result' = Result("failed", "insufficient_evidence", <<>>, code)
  /\ pc' = "done"
  /\ UNCHANGED <<attempt, draft, cache, rejected>>

ProviderFails ==
  /\ Failure("judge_provider_error")
  /\ history' = [history EXCEPT !.failed = TRUE]

(* Without an interpretation and without a discussion nothing is asked.    *)
Begin ==
  /\ pc = "begin"
  /\ \/ /\ QualitativeOnly /\ ~HasDiscussion
        /\ result' = Result("partial", "insufficient_evidence", <<Default>>, "none")
        /\ pc' = "done"
        /\ UNCHANGED <<attempt, draft, cache, rejected>>
     \/ ~(QualitativeOnly /\ ~HasDiscussion) /\ Failure("judge_input_too_large")
     \/ /\ ~(QualitativeOnly /\ ~HasDiscussion)
        /\ pc' = "generate"
        /\ UNCHANGED <<attempt, draft, cache, rejected, result>>
  /\ UNCHANGED history /\ Keep

(* continue: the next attempt asks for a new draft, if there is one.       *)
Retry ==
  /\ IF attempt < MaxRepairs
       THEN attempt' = attempt + 1 /\ pc' = "generate" /\ UNCHANGED result
       ELSE /\ result' = Result("failed", "insufficient_evidence", <<>>, "judge_invalid_output")
            /\ pc' = "done" /\ UNCHANGED attempt
  /\ draft' = NoDraft /\ rejected' = {}
  /\ UNCHANGED <<cache, history>>

Draft(d) ==
  IF Acceptable(d)
    THEN /\ draft' = d /\ pc' = "review" /\ rejected' = {}
         /\ UNCHANGED <<attempt, cache, result, history>>
    ELSE Retry

(* A repaired draft takes the place of a generated one.                    *)
Generate ==
  /\ pc = "generate"
  /\ \/ draft = NoDraft /\ \E d \in Drafts : Draft(d)
     \/ draft = NoDraft /\ ProviderFails
     \/ draft # NoDraft /\ Draft(draft)
  /\ Keep

(* The review is unreadable or has issues; or it finds none.               *)
Review ==
  /\ pc = "review"
  /\ \/ Retry
     \/ ProviderFails
     \/ /\ pc' = "check"
        /\ history' = [history EXCEPT !.reviewed = draft]
        /\ UNCHANGED <<attempt, draft, cache, rejected, result>>
  /\ Keep

(* check_citations: the checks run at the same time; an unreadable answer  *)
(* counts as a refusal.                                                    *)
Check(i) ==
  /\ pc = "check" /\ i \in DOMAIN draft.items /\ ~Known(i)
  /\ \/ /\ \E answer \in BOOLEAN :
             cache' = cache \union {<<Key(i, draft.items[i]), draft.items[i], answer>>}
        /\ UNCHANGED <<pc, attempt, draft, rejected, result, history>>
     \/ ProviderFails
  /\ Keep

(* The members of a finite set of numbers in ascending order.              *)
Ascending(S) ==
  CHOOSE f \in [1..Cardinality(S) -> S] : \A i, j \in DOMAIN f : i < j => f[i] < f[j]

(* The findings that passed; a step is added if none is left.              *)
Limited(refused) ==
  LET passed == Ascending(DOMAIN draft.items \ refused)
      kept == [k \in DOMAIN passed |-> draft.items[passed[k]]]
      steps == \E i \in DOMAIN kept : kept[i].field = "next_steps"
  IN  Result("partial", "insufficient_evidence",
             IF steps THEN kept ELSE Append(kept, Default), "none")

Decide ==
  /\ pc = "check" /\ \A i \in DOMAIN draft.items : Known(i)
  /\ LET refused == {i \in DOMAIN draft.items : ~Supported(i)} IN
     \/ /\ refused = {}
        /\ result' = AsResult(draft) /\ pc' = "done"
        /\ UNCHANGED <<attempt, draft, cache, rejected>>
     \/ /\ refused # {} /\ attempt < MaxRepairs
        /\ rejected' = refused /\ pc' = "repair"
        /\ UNCHANGED <<attempt, draft, cache, result>>
     \/ /\ refused # {} /\ attempt = MaxRepairs
        /\ IF Accepts(Limited(refused))
             THEN /\ result' = Limited(refused) /\ pc' = "done"
                  /\ UNCHANGED <<attempt, draft, cache, rejected>>
             ELSE Failure("judge_provider_error")
  /\ UNCHANGED history /\ Keep

(* repair_citations: each refused finding gets another text.               *)
Repair(i) ==
  /\ pc = "repair" /\ i \in rejected
  /\ \/ /\ \E text \in Texts : draft' = [draft EXCEPT !.items[i].text = text]
        /\ rejected' = rejected \ {i}
        /\ UNCHANGED <<pc, attempt, cache, result, history>>
     \/ ProviderFails
  /\ Keep

(* Faulty variant: a repaired draft is taken for reviewed.                 *)
RepairedIsReviewed ==
  /\ pc = "repair" /\ rejected = {}
  /\ attempt' = attempt + 1 /\ pc' = "check"
  /\ UNCHANGED <<ev, draft, cache, rejected, result, history>>
(* The repaired draft is pending: the next attempt starts with it.         *)
Repaired ==
  /\ pc = "repair" /\ rejected = {}
  /\ attempt' = attempt + 1 /\ pc' = "generate"
  /\ UNCHANGED <<ev, draft, cache, rejected, result, history>>

(* Faulty variant: the deadline covers generation and review only.         *)
ExpireEarly ==
  /\ pc \in {"generate", "review"}
  /\ Failure("judge_timeout") /\ UNCHANGED history /\ Keep
Expire ==
  /\ pc \in {"generate", "review", "check", "repair"}
  /\ Failure("judge_timeout") /\ UNCHANGED history /\ Keep

Next ==
  \/ Begin \/ Generate \/ Review \/ Decide \/ Repaired \/ Expire
  \/ \E i \in 1..MaxItems : Check(i) \/ Repair(i)

(* The model may never answer; the deadline is a timer of this process.    *)
Spec == Init /\ [][Next]_vars /\ WF_vars(Begin) /\ WF_vars(Expire)

-----------------------------------------------------------------------------
(* Properties                                                              *)

TypeOK ==
  /\ attempt \in 0..MaxRepairs
  /\ draft \in Drafts \union {NoDraft}
  /\ rejected \subseteq 1..MaxItems
  /\ result.advice \in Advice

(* Every finding that is shown passed a check of its own, of this very     *)
(* text, whatever was repaired or remembered before.                       *)
ShownIsChecked ==
  result.status \in {"completed", "partial"} =>
    \A i \in DOMAIN result.items :
      \/ result.items[i] = Default
      \/ \E c \in cache : c[2] = result.items[i] /\ c[3]

(* A recommendation that is not withheld belongs to a draft that the       *)
(* review accepted as it is shown: repairing a finding is not acceptance.  *)
AdviceIsReviewed ==
  result.advice # "insufficient_evidence" =>
    /\ history.reviewed.advice = result.advice
    /\ history.reviewed.items = result.items

(* A provider error is reported only if a call failed: the bounded end of  *)
(* the loop never throws away the findings that passed.                    *)
FailureIsNamed == result.code = "judge_provider_error" => history.failed

(* The adapter's gates and the contract's agree: what index_evidence calls *)
(* complete or eligible is not refused when the result is validated, so a  *)
(* sound draft is never spent on a gate the model was not told about.      *)
GatesAgree ==
  /\ ~Incomplete => ~ContractIncomplete
  /\ Eligible => Accepts(Result("completed", "consider_limited_pilot", <<Default>>, "none"))
=============================================================================
