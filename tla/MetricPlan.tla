----------------------------- MODULE MetricPlan -----------------------------
(***************************************************************************)
(* From a policy text to a Metric result (v2/metric): `run_metric` reads   *)
(* the controlled format if the text has it, otherwise compiles explicit   *)
(* comparisons out of the prose (conditions.py, employment.py), probes     *)
(* each at its boundary, and fills the test budget with unscored questions *)
(* (scenarios.py).  The result must pass the validators of                 *)
(* v2/metric_contracts.py, which refuse it with an exception otherwise.    *)
(*                                                                         *)
(* A text is what its patterns match: comparisons with their source range, *)
(* and how many topics.  The regular expressions themselves are abstracted.*)
(***************************************************************************)
EXTENDS Integers, FiniteSets, Sequences, SequencesExt

CONSTANTS Readings,      \* the comparisons the patterns may find in a text
          MaxConditions, \* how many of them are kept (12 in the code)
          MaxBudget,     \* the largest test_budget (12)
          MaxTopics      \* how many topics may match (7)

VARIABLES text,          \* [format, found, topics]
          budget,        \* test_budget
          conditions,    \* what the compiler keeps, in order
          result,        \* MetricRunResult
          phase
vars == <<text, budget, conditions, result, phase>>

Nothing == [method |-> "none"]

Texts ==
    [format : {"controlled"}, found : {{}}, topics : {0}]
      \cup [format : {"malformed"}, found : {{}}, topics : {0}]
      \cup [format : {"prose"}, found : SUBSET Readings, topics : 0..MaxTopics]

-----------------------------------------------------------------------------
Overlaps(c, d) == c.start < d.end /\ d.start < c.end

(* Source order, the longer reading first. *)
BySource(c, d) == c.start < d.start \/ (c.start = d.start /\ c.end >= d.end)

InSourceOrder(S) == SetToSortSeq(S, LAMBDA c, d : BySource(c, d) /\ c # d)

(* `compile_employment`: of overlapping readings the first one wins. *)
Selected(found) ==
    FoldLeft(LAMBDA kept, c :
                 IF \E i \in DOMAIN kept : Overlaps(c, kept[i])
                 THEN kept ELSE Append(kept, c),
             <<>>, InSourceOrder(found))

FirstN(s, n) == SubSeq(s, 1, IF Len(s) < n THEN Len(s) ELSE n)

(* `compile_conditions`: enough numeric comparisons end the search, else the *)
(* comparisons of working time join them in source order.                    *)
CompileConditions(found) ==
    LET numeric    == {c \in found : ~c.employment}
        employment == Selected(found \ numeric)
    IN  IF Cardinality(numeric) >= MaxConditions
        THEN FirstN(InSourceOrder(numeric), MaxConditions)
        ELSE FirstN(InSourceOrder(numeric \cup ToSet(employment)), MaxConditions)

(* `evaluate_condition` *)
Evaluate(op, value, threshold) ==
    CASE op = "ge" -> value >= threshold
      [] op = "gt" -> value > threshold
      [] op = "le" -> value <= threshold
      [] op = "lt" -> value < threshold
      [] op = "eq" -> value = threshold

BoundaryOracle ==
    [ge |-> <<FALSE, TRUE, TRUE>>, gt |-> <<FALSE, FALSE, TRUE>>,
     le |-> <<TRUE, TRUE, FALSE>>, lt |-> <<TRUE, FALSE, FALSE>>,
     eq |-> <<FALSE, TRUE, FALSE>>]

(* `_boundary_case`: a comparison just below, at and just above its threshold. *)
BoundaryCase(c, i) ==
    LET matches == [k \in 1..3 |-> Evaluate(c.op, c.threshold - 2 + k, c.threshold)]
    IN  [id |-> <<"condition", i>>, tests |-> {i}, traced |-> TRUE,
         verdict |-> IF matches = BoundaryOracle[c.op] THEN "pass" ELSE "fail"]

Unscored(kind, i) == [id |-> <<kind, i>>, tests |-> {}, traced |-> FALSE,
                      verdict |-> "unscored"]

(* `plan_scenarios`: the topics that match and five general questions. *)
PlanScenarios(topics, slots) ==
    FirstN([i \in 1..(topics + 5) |-> Unscored("scenario", i)], slots)

(* One slot is kept for the question about the combined outcome. *)
Probes == [i \in 1..Len(FirstN(conditions, budget - 1)) |-> BoundaryCase(conditions[i], i)]

(* `run_policy_conditions` *)
ConditionCases ==
    LET employment == \E i \in DOMAIN conditions : conditions[i].employment
        cases      == Append(Probes, Unscored("combined", 1))
    IN  IF employment /\ Len(cases) < budget
        THEN cases \o PlanScenarios(text.topics, budget - Len(cases))
        ELSE cases

Count(cases, v) == Cardinality({i \in DOMAIN cases : cases[i].verdict = v})

Result(method, status, ready, tests, cases) ==
    [method |-> method, status |-> status, ready |-> ready, tests |-> tests,
     cases |-> cases, passed |-> Count(cases, "pass"), failed |-> Count(cases, "fail"),
     unscored |-> Count(cases, "unscored")]

-----------------------------------------------------------------------------
Init == /\ text \in Texts /\ budget \in 1..MaxBudget
        /\ conditions = <<>> /\ result = Nothing
        /\ phase = IF text.format = "prose" THEN "compile" ELSE "controlled"

(* `prepare` reads the controlled format; each template case passes or fails. *)
RunTemplates ==
    /\ phase = "controlled"
    /\ \E failing \in SUBSET (1..IF text.format = "controlled" THEN budget ELSE 0) :
         LET cases == IF text.format = "controlled"
                      THEN [i \in 1..budget |->
                              [id |-> <<"template", i>>, tests |-> {"G-BUDGET"}, traced |-> TRUE,
                               verdict |-> IF i \in failing THEN "fail" ELSE "pass"]]
                      ELSE <<>>
         IN  result' = IF text.format = "controlled"
                       THEN Result("rule_templates", "completed", TRUE, {"G-BUDGET"}, cases)
                       ELSE Result("rule_templates", "needs_clarification", FALSE, {}, cases)
    /\ phase' = "done" /\ UNCHANGED <<text, budget, conditions>>

Compile ==
    /\ phase = "compile"
    /\ conditions' = CompileConditions(text.found)
    /\ phase' = "plan" /\ UNCHANGED <<text, budget, result>>

ProbeConditions ==
    /\ phase = "plan" /\ conditions # <<>>
    /\ result' = Result("policy_conditions", "partial", TRUE,
                        DOMAIN conditions, ConditionCases)
    /\ phase' = "done" /\ UNCHANGED <<text, budget, conditions>>

PlanQuestions ==
    /\ phase = "plan" /\ conditions = <<>>
    /\ result' = Result("policy_scenarios", "partial", FALSE, {},
                        PlanScenarios(text.topics, budget))
    /\ phase' = "done" /\ UNCHANGED <<text, budget, conditions>>

Next == RunTemplates \/ Compile \/ ProbeConditions \/ PlanQuestions
Spec == Init /\ [][Next]_vars

-----------------------------------------------------------------------------
(* The validators of MetricRunResult and of its cases. *)
Valid(r) ==
    /\ \A i, j \in DOMAIN r.cases : r.cases[i].id = r.cases[j].id => i = j
    /\ \A i \in DOMAIN r.cases :
         /\ r.cases[i].tests \subseteq r.tests
         /\ (r.cases[i].verdict = "unscored") <=> (r.cases[i].tests = {})
    /\ r.passed + r.failed + r.unscored = Len(r.cases)
    /\ r.method = "policy_conditions" => r.status = "partial"
    /\ CASE r.method = "policy_scenarios" ->
              /\ r.status = "partial" /\ ~r.ready /\ r.cases # <<>>
              /\ \A i \in DOMAIN r.cases :
                   r.cases[i].verdict = "unscored" /\ ~r.cases[i].traced
         [] r.method # "policy_scenarios" /\ r.status \in {"completed", "partial"} ->
              r.ready /\ (r.status = "partial" => r.cases # <<>>)
         [] OTHER -> ~r.ready /\ r.cases = <<>>

Done == phase = "done"

(* Whatever the text and the budget, the result passes the validators that  *)
(* would otherwise end the request with an exception.                       *)
NeverRefused == Done => Valid(result)

(* A result never has more cases than the budget, and a prose policy keeps  *)
(* an unscored case however small the budget: probes of single comparisons  *)
(* never look like a verdict on the policy.                                 *)
BudgetKeepsTheQuestion ==
    Done => /\ Len(result.cases) <= budget
            /\ text.format = "prose" => result.unscored > 0

(* No comparison is probed twice under two readings of the same words: the  *)
(* longer reading ("no less than") wins over its suffix ("less than").      *)
LongestReadingWins ==
    phase \in {"plan", "done"} =>
      \A c \in ToSet(conditions), d \in text.found :
        /\ c.employment /\ d.employment /\ c # d /\ Overlaps(c, d)
        => c.start < d.start \/ (c.start = d.start /\ c.end > d.end)

(* The comparison an operator name stands for has the outcomes the oracle   *)
(* table lists for it below, at and above every threshold.                  *)
OracleAgrees == Done /\ result.method = "policy_conditions" => result.failed = 0

=============================================================================
