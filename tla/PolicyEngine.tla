---------------------------- MODULE PolicyEngine ----------------------------
(***************************************************************************)
(* The evaluation engine (features/evaluation): how the rules that match a *)
(* scenario decide each dimension, how assertions are scored, and which    *)
(* findings follow.  All of it is a function of the policy and of the      *)
(* frozen suite and contract, which are constants here.                    *)
(*                                                                         *)
(* Two of the five dimensions stand for all: "eligibility", which has no   *)
(* compliance, and "receipt_requirement", which has.  A predicate is a     *)
(* literal <<fact, truth>>; operators and numeric domains are abstracted.  *)
(***************************************************************************)
EXTENDS Integers, FiniteSets

CONSTANTS RuleIds,     \* identifiers a rule may have
          Suite,       \* scenario id -> [facts, protected, holdout, assertions]
          Required,    \* required_dimensions of the contract
          Invariants,  \* session invariants: [when, assertion]
          Clauses      \* unsupported clauses: [id, dimensions, hinted, hint]

Dimensions == {"eligibility", "receipt_requirement"}
Values     == {"allow", "deny", "required", "not_required"}
Unset      == "unset"     \* the rule says nothing about the dimension
NoOrigin   == "none"      \* an assertion that no session invariant made
Bad        == {"GAP", "CONFLICT", "INCONCLUSIVE", "ERROR"}

Pairs == {<<s, d>> : s \in DOMAIN Suite, d \in Dimensions}

(* A policy is a function from the ids in use to rules:                    *)
(* [when, effects, overrides (of <<dimension, rule>>), revision, origin].  *)
-----------------------------------------------------------------------------
(* `evaluate_conditions` *)
Holds(when, facts) == \A l \in when : facts[l[1]] = l[2]

(* `conditions_satisfiable` *)
Satisfiable(when) == \A k, l \in when : k[1] = l[1] => k[2] = l[2]

Supplies(rule) == {d \in Dimensions : rule.effects[d] # Unset}

(* No rules override each other in a circle, over whatever dimensions. *)
Acyclic(policy) ==
    ~\E S \in SUBSET DOMAIN policy :
        S # {} /\ \A r \in S : \E o \in policy[r].overrides : o[2] \in S

(* `PolicyIR.valid_rule_set`, `RuleDraft.executable_conditions` and          *)
(* `validate_rule_set`.                                                      *)
ValidPolicy(policy) ==
    /\ \A r \in DOMAIN policy :
         /\ Supplies(policy[r]) # {} /\ Satisfiable(policy[r].when)
         /\ \A o \in policy[r].overrides :
              /\ o[1] \in Supplies(policy[r])
              /\ o[2] \in DOMAIN policy /\ o[1] \in Supplies(policy[o[2]])
    /\ Acyclic(policy)

-----------------------------------------------------------------------------
MatchedInvariants(s) == {i \in Invariants : Holds(i.when, Suite[s].facts)}

(* `scenario_assertions`: the frozen ones and those of matched invariants. *)
Assertions(s) == Suite[s].assertions \cup {i.assertion : i \in MatchedInvariants(s)}

(* Two assertions of one name that differ make the scenario an error. *)
Malformed(s) == \E a, b \in Assertions(s) : a.id = b.id /\ a # b

RequiredIn(s) == Required \cup {a.dimension : a \in Assertions(s)}

Applicable(policy, s, d) ==
    {r \in DOMAIN policy : /\ Holds(policy[r].when, Suite[s].facts)
                           /\ d \in Supplies(policy[r])}

(* Every applicable rule overrides, also one that is overridden itself. *)
Overridden(policy, s, d) ==
    {t \in Applicable(policy, s, d) :
       \E r \in Applicable(policy, s, d) : <<d, t>> \in policy[r].overrides}

(* `resolve_dimension` *)
Resolve(policy, s, d) ==
    LET clauses == {c \in Clauses : /\ d \in c.dimensions
                                    /\ IF c.hinted THEN Holds(c.hint, Suite[s].facts)
                                       ELSE d \in RequiredIn(s)}
        applicable == Applicable(policy, s, d)
        overridden == Overridden(policy, s, d)
        values == {policy[r].effects[d] : r \in applicable \ overridden}
        Of(status, v) == [status |-> status, values |-> v, applicable |-> applicable,
                          overridden |-> overridden, clauses |-> {}]
    IN  IF Malformed(s) \/ clauses # {}
        THEN [status |-> IF Malformed(s) THEN "ERROR" ELSE "INCONCLUSIVE", values |-> {},
              applicable |-> {}, overridden |-> {},
              clauses |-> IF Malformed(s) THEN {} ELSE clauses]
        ELSE IF values = {}
        THEN Of(IF d \in RequiredIn(s) THEN "GAP" ELSE "NOT_APPLICABLE", {})
        ELSE Of(IF Cardinality(values) > 1 THEN "CONFLICT" ELSE "VALUE", values)

(* `derive_compliance`; eligibility has none. *)
Compliance(policy, s, d) ==
    LET result == Resolve(policy, s, d)
    IN  CASE result.status = "VALUE" ->
               IF result.values = {"not_required"} \/ Suite[s].facts["receipt_present"]
               THEN "COMPLIANT" ELSE "NONCOMPLIANT"
          [] result.status \in {"ERROR", "NOT_APPLICABLE"} -> result.status
          [] OTHER -> "INCONCLUSIVE"

(* `evaluate_assertion`; expectations are equalities. *)
Outcome(policy, s, a) ==
    LET result == Resolve(policy, s, a.dimension)
        actual == IF a.kind = "compliance_value" THEN {Compliance(policy, s, a.dimension)}
                  ELSE result.values
    IN  CASE result.status = "ERROR" -> "ERROR"
          [] result.status # "ERROR" /\ result.status # "VALUE" -> "INCONCLUSIVE"
          [] OTHER -> IF actual = {a.expected} THEN "PASS" ELSE "FAIL"

-----------------------------------------------------------------------------
(* The findings: what identifies them (`finding_fingerprint`).             *)
Finding(type, d, rules, origin) ==
    [type |-> type, dimension |-> d, rules |-> rules, origin |-> origin]

RulesOf(policy, d) == {r \in DOMAIN policy : d \in Supplies(policy[r])}

(* An invariant is breached if its assertion fails, or if no rule at all   *)
(* says anything about its dimension.                                      *)
Breaches(policy, s) ==
    {a \in Assertions(s) :
       /\ a.origin # NoOrigin
       /\ \/ Outcome(policy, s, a) = "FAIL"
          \/ /\ Resolve(policy, s, a.dimension).status = "GAP"
             /\ RulesOf(policy, a.dimension) = {}}

(* Faulty variant: a gap is left to any invariant of its dimension. *)
ReportedAsBreachByName(policy, s) ==
    {a.dimension : a \in {b \in Assertions(s) : b.origin # NoOrigin}} \ Required

(* Gaps that are reported as a breach, and not a second time as a gap. *)
ReportedAsBreach(policy, s) ==
    {a.dimension : a \in Breaches(policy, s)} \ Required

(* `DeterministicFindingAnalyzer.analyze`, for one scenario. *)
FindingsOf(policy, s) ==
    LET State(d) == Resolve(policy, s, d)
    IN  IF Malformed(s) THEN {} ELSE
        {Finding("intent_breach", a.dimension, {}, a.origin) : a \in Breaches(policy, s)}
        \cup {Finding("structural_gap", d, RulesOf(policy, d), NoOrigin) :
                d \in {x \in Dimensions \ ReportedAsBreach(policy, s) :
                         State(x).status = "GAP"}}
        \cup {Finding("conflict", d, State(d).applicable \ State(d).overridden, NoOrigin) :
                d \in {x \in Dimensions : State(x).status = "CONFLICT"}}
        \cup {Finding("unsupported_clause", p[1], {}, p[2].id) :
                p \in {q \in (Dimensions \X Clauses) : q[2] \in State(q[1]).clauses}}

Findings(policy) == UNION {FindingsOf(policy, s) : s \in DOMAIN Suite}
Witnesses(policy, f) == {s \in DOMAIN Suite : f \in FindingsOf(policy, s)}

(* The rules a finding is about; an intent breach names those of its dimension. *)
TargetRules(policy, f) ==
    IF f.type = "intent_breach" THEN RulesOf(policy, f.dimension) ELSE f.rules

(* A clause nobody could compile is a candidate, never a scored finding. *)
Candidate(f) == f.type = "unsupported_clause"

=============================================================================
