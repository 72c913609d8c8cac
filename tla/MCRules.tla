------------------------------ MODULE MCRules ------------------------------
(***************************************************************************)
(* The rule engines for TLC: the Metric's claims in any order, its         *)
(* templates and its condition texts, the compilation of a policy, and the *)
(* policy engine with its revision gate.  A behaviour is of the part       *)
(* chosen at its beginning.                                                *)
(***************************************************************************)
EXTENDS Integers, Sequences, FiniteSets, TLC

CONSTANTS
  ClaimIds, Participants, Journeys, NoClaim,       \* of the Metric's claims
  Amounts, Limits, Allowances,
  Bodies, Cites, MaxDrafts, MaxRules,              \* of a policy's compilation
  RuleIds, Suite, Required, Invariants, Clauses,   \* of the policy engine
  Policies, Precedences, Drafts, MaxOps

VARIABLES
  chosen,
  rules, case,                                     \* MetricClaims
  stated, run, template, verdict, minimal, index,  \* MetricTemplates
  text, budget, conditions, reading, phase,        \* MetricPlan
  policy, proposal, revised,                       \* RevisionGate
  proposed, path, drafts, clauses, stage           \* PolicyDrafts, with rules

Claims == INSTANCE MetricClaims WITH None <- NoClaim

Templates == INSTANCE MetricTemplates WITH
  rules <- stated, case <- run, None <- NoClaim,
  ClaimIds <- {1, 2}, Participants <- {"P1", "P2"}, Journeys <- {"J1", "J2"},
  Amounts <- {}, Limits <- 1..5, Allowances <- 1..7, MaxBudget <- 12

Reading(employment, op, threshold, start, end) ==
    [employment |-> employment, op |-> op, threshold |-> threshold,
     start |-> start, end |-> end]

(* Comparisons of amounts and of working time, with every operator, and    *)
(* two phrases whose suffix reads as a comparison of its own.              *)
SomeReadings ==
    { Reading(FALSE, "ge", 0, 1, 4),  Reading(FALSE, "gt", 3, 5, 8),
      Reading(FALSE, "eq", 3, 20, 23),
      Reading(TRUE, "ge", 2, 9, 14),  Reading(TRUE, "lt", 2, 10, 14),
      Reading(TRUE, "le", 5, 15, 19), Reading(TRUE, "gt", 5, 16, 19) }

Plan == INSTANCE MetricPlan WITH
  result <- reading,
  Readings <- SomeReadings, MaxConditions <- 3, MaxBudget <- 4, MaxTopics <- 2

Compiler == INSTANCE PolicyDrafts WITH pc <- stage

(* The ids of a policy's claims are kept in a dictionary, so a claim is    *)
(* there or it is not; the amounts are integers (service.py).              *)
ASSUME ClaimsAssumption ==
  /\ IsFiniteSet(ClaimIds) /\ IsFiniteSet(Participants)
  /\ Amounts \subseteq Int /\ Limits \subseteq Int /\ Allowances \subseteq Nat
  /\ NoClaim \notin Claims!Claim

(* A policy has at most MAX_BASELINE_RULES rules (extraction.py).          *)
ASSUME DraftsAssumption == MaxDrafts \in Nat /\ MaxRules \in Nat

Gate == INSTANCE RevisionGate

(* A suite and a policy are finite, and the rules of a policy and of a     *)
(* proposal are records of the contracts (domain/models/policy.py).        *)
IsDraft(d) ==
  /\ d = [when |-> d.when, effects |-> d.effects, overrides |-> d.overrides]
  /\ d.effects \in [Gate!Dimensions -> Gate!Values \cup {Gate!Unset}]
  /\ d.overrides \subseteq Gate!Dimensions \X RuleIds

IsRule(r) ==
  /\ r = [when |-> r.when, effects |-> r.effects, overrides |-> r.overrides,
          revision |-> r.revision, origin |-> r.origin]
  /\ r.effects \in [Gate!Dimensions -> Gate!Values \cup {Gate!Unset}]
  /\ r.overrides \subseteq Gate!Dimensions \X RuleIds /\ r.revision \in Nat

IsPolicy(p) ==
  /\ IsFiniteSet(DOMAIN p) /\ DOMAIN p \subseteq RuleIds
  /\ p = [r \in DOMAIN p |-> p[r]] /\ \A r \in DOMAIN p : IsRule(p[r])

ASSUME PoliciesAssumption ==
  /\ IsFiniteSet(DOMAIN Suite) /\ MaxOps \in Nat
  /\ \A p \in Policies \cup Precedences : IsPolicy(p)
  /\ \A d \in Drafts : IsDraft(d)

(* Values of the constants for TLC.  Two meanings that share one dimension, *)
(* and one without a valid citation.                                       *)
Body(meaning, dims, cited) == [meaning |-> meaning, dims |-> dims, cited |-> cited]
SomeBodies == {Body("m1", {"d"}, TRUE), Body("m2", {"d", "e"}, TRUE), Body("m3", {"d"}, FALSE)}

Small == INSTANCE MCRevisionGate WITH
  Suite <- <<>>, Required <- {}, Invariants <- {}, Clauses <- {},
  Policies <- {}, Drafts <- {}, MaxOps <- 0
SomeAmounts == 0..3
FourScenarios == Small!FourScenarios
IntentReceipt == Small!IntentReceipt
OneClause == Small!OneClause
TwoRules == Small!TwoRules
Triangles == Small!Triangles
SomeDrafts == Small!SomeDrafts

(* One policy with a conflict. *)
Contest == INSTANCE RevisionGate WITH Policies <- Small!OneConflict

templateVars == <<stated, run, template, verdict, minimal, index>>
textVars == <<text, budget, conditions, reading>>
policyVars == <<policy, proposal, revised>>
draftVars == <<proposed, path, drafts, clauses, stage>>
allVars == <<chosen, rules, case, templateVars, textVars, phase, policyVars, draftVars>>

NoClaims == rules = "idle" /\ case = "idle"
NoTemplate ==
  /\ stated = "idle" /\ run = "idle" /\ template = "idle" /\ verdict = "idle" /\ minimal = "idle"
  /\ index = "idle"
NoText == text = "idle" /\ budget = "idle" /\ conditions = "idle" /\ reading = "idle"
NoPolicy == policy = "idle" /\ proposal = "idle" /\ revised = "idle"
NoDrafts ==
  proposed = "idle" /\ path = "idle" /\ drafts = "idle" /\ clauses = "idle" /\ stage = "idle"

AllInit ==
  \/ /\ NoDrafts
     /\ \/ chosen = "claims" /\ Claims!Init /\ NoTemplate /\ NoText /\ NoPolicy /\ phase = "idle"
        \/ chosen = "templates" /\ Templates!TInit /\ NoClaims /\ NoText /\ NoPolicy /\ phase = "idle"
        \/ chosen = "texts" /\ Plan!Init /\ NoClaims /\ NoTemplate /\ NoPolicy
        \/ chosen = "gate" /\ Gate!Init /\ NoClaims /\ NoTemplate /\ NoText
        \/ chosen = "precedence" /\ Gate!Begins(Precedences) /\ NoClaims /\ NoTemplate /\ NoText
  \/ /\ chosen = "drafts" /\ Compiler!Init /\ case = "idle" /\ phase = "idle"
     /\ NoTemplate /\ NoText /\ NoPolicy

Part(name, A, others) == chosen = name /\ A /\ UNCHANGED <<chosen, others>>

AllNext ==
  \/ Part("claims", Claims!Next, <<templateVars, textVars, phase, policyVars, draftVars>>)
  \/ Part("templates", Templates!TNext, <<rules, case, textVars, phase, policyVars, draftVars>>)
  \/ Part("texts", Plan!Next, <<rules, case, templateVars, policyVars, draftVars>>)
  \/ Part("gate", Gate!Next, <<rules, case, templateVars, textVars, draftVars>>)
  \/ Part("drafts", Compiler!Next, <<case, templateVars, textVars, phase, policyVars>>)

AllSpec == AllInit /\ [][AllNext]_allVars

(* One policy with a conflict, and every proposal about it. *)
ConflictSpec ==
  /\ chosen = "conflict" /\ Contest!Init /\ NoClaims /\ NoTemplate /\ NoText /\ NoDrafts
  /\ [][Part("conflict", Contest!Next, <<rules, case, templateVars, textVars, draftVars>>)]_allVars

Interchangeable == Permutations(ClaimIds) \cup Permutations(Participants)
                     \cup Permutations(Journeys)

-----------------------------------------------------------------------------
(* The claims of a run are settled within the policy and its budget        *)
(* (service.py).                                                           *)
ClaimsAreSound == chosen = "claims" => Claims!ClaimsAreSound /\ Claims!BudgetIsKept

(* No rule of a proposal is lost without an error: it is compiled, or an   *)
(* unsupported clause of its own (extraction.py, compiler.py).             *)
DraftsAreKept == chosen = "drafts" => Compiler!TypeOK /\ Compiler!DraftsAreKept

(* A template that passes is a claim about the policy and one that fails a *)
(* counterexample (service.py), and a probe of a condition reads the words *)
(* the way the policy does (conditions.py): neither raises a false alarm,  *)
(* misses the gap it is for, or stands for a verdict it cannot give.       *)
TestsAreSharp ==
  /\ chosen = "templates" =>
       Templates!NoFalseAlarm /\ Templates!SuiteFindsTheGap /\ Templates!CounterexampleIsMinimal
  /\ chosen = "texts" =>
       /\ Plan!NeverRefused /\ Plan!BudgetKeepsTheQuestion
       /\ Plan!LongestReadingWins /\ Plan!OracleAgrees

(* Rules that apply always leave one to decide, and no gap or conflict of  *)
(* a scenario is missing from the findings (resolution.py, findings.py).   *)
EvaluationIsComplete ==
  /\ chosen = "gate" => Gate!EveryGapIsReported /\ Gate!PrecedenceDecides
  /\ chosen = "precedence" => Gate!PrecedenceDecides

(* What the applier lets through stays within its findings, and what the   *)
(* gates accept answers them and makes nothing worse.                      *)
RevisionIsSafe ==
  chosen = "gate" =>
    /\ Gate!OtherDimensionsAreUntouched /\ Gate!ApplierAndGateAgree
    /\ Gate!AcceptedIsNoWorse /\ Gate!AcceptedAnswersItsTargets

(* The design document asks of an accepted patch "zero new failures        *)
(* outside the targets" (regression.py:271 compares passed assertions).    *)
NoNewFailureOutsideTargets == chosen = "conflict" => Contest!NoNewFailureOutsideTargets
=============================================================================
