---------------------------- MODULE EngineProbes ----------------------------
(***************************************************************************)
(* FuzzDesigner (engine/app/services/fuzz.py) and RuleEvaluator            *)
(* (engine/app/services/evaluate.py): the probes a policy's rules are      *)
(* given, and what the grader finds in them.                               *)
(*                                                                         *)
(* Facts are three fields: "num" and the texts "tag" and "action", of      *)
(* which the last is what the actor does.  What a probe samples at random  *)
(* is any value of the small sets.                                         *)
(***************************************************************************)
EXTENDS Integers, Sequences, FiniteSets

CONSTANTS
  Whens,       \* conditions a rule may have, each [field, op, value]
  Excepts,     \* exceptions a rule may have
  Modalities,  \* modalities a rule may have
  MaxRules,    \* bound: rules of a policy
  Agents       \* bound: sizes a suite may have

VARIABLES
  rules,   \* the policy's rules
  actions, \* the actions it names
  plan,    \* the probes to build: kind and rule
  probe    \* a probe of the plan, with the outcome the grader infers

vars == <<rules, actions, plan, probe>>

NoProbe == [kind |-> "none"]

UpTo(n, S) == UNION {[1..k -> S] : k \in 0..n}

RuleSet ==
  [modality : Modalities, action : {"a", "comply"}, when : Whens, except : Excepts,
   unclear : BOOLEAN]

Init ==
  /\ rules \in UpTo(MaxRules, RuleSet) \ {<<>>}
  /\ actions \in {<<>>, <<"a", "b">>}
  /\ plan = <<>> /\ probe = NoProbe

-----------------------------------------------------------------------------
(* Values.  What a field "num" holds, or a threshold is, is <<n>>, a       *)
(* number (in halves: the midpoint of a range may be one), <<>>, nothing,  *)
(* or longer, which is there but no number.                                *)
IsNumber(v) == Len(v) = 1
NoNumber    == <<0, 0>>
NumericOps  == {"gt", "gte", "lt", "lte", "between"}

(* The texts a condition names; a list may be empty.                       *)
Options(p) == IF p.op \in {"in", "not_in"} THEN p.value ELSE <<p.value>>

-----------------------------------------------------------------------------
(* evaluate.py                                                             *)

MatchesNumber(p, f) ==
  CASE p.op = "exists" -> f # <<>>
    [] p.op = "eq"  -> f = p.value
    [] p.op = "neq" -> f # p.value
    [] p.op \in NumericOps ->
         LET bounds == IF p.op = "between" THEN p.value ELSE <<p.value>>
         IN /\ IsNumber(f) /\ \A i \in DOMAIN bounds : IsNumber(bounds[i])
            /\ CASE p.op = "gt"  -> f[1] > bounds[1][1]
                 [] p.op = "gte" -> f[1] >= bounds[1][1]
                 [] p.op = "lt"  -> f[1] < bounds[1][1]
                 [] p.op = "lte" -> f[1] <= bounds[1][1]
                 [] p.op = "between" ->
                      Len(bounds) = 2 /\ bounds[1][1] <= f[1] /\ f[1] <= bounds[2][1]

(* A text "not_x" contains the text "x".                                   *)
MatchesText(p, f) ==
  LET named == {Options(p)[i] : i \in DOMAIN Options(p)} IN
  CASE p.op = "exists" -> f # ""
    [] p.op \in {"eq", "in"} -> f \in named
    [] p.op \in {"neq", "not_in"} -> f \notin named
    [] p.op = "matches" -> f \in {p.value, "not_" \o p.value}

(* _matches                                                                *)
Matches(p, facts) ==
  IF p.field = "num" THEN MatchesNumber(p, facts.num) ELSE MatchesText(p, facts[p.field])

WhenOk(rule, facts) == \A i \in DOMAIN rule.when : Matches(rule.when[i], facts)
ExceptOk(rule, facts) == \E i \in DOMAIN rule.except : Matches(rule.except[i], facts)

(* _infer_outcome, for a probe that targets one rule.                      *)
Infer(rule, facts) ==
  CASE WhenOk(rule, facts) /\ ExceptOk(rule, facts) -> "exception"
    [] ~WhenOk(rule, facts) -> "ambiguous"
    [] WhenOk(rule, facts) /\ ~ExceptOk(rule, facts) ->
         IF \/ rule.modality = "must_not" /\ facts.action = rule.action
            \/ rule.modality = "must" /\ facts.action # rule.action
         THEN "violation" ELSE "compliant"

-----------------------------------------------------------------------------
(* fuzz.py                                                                 *)

Kinds(rule) ==
  <<"normal", "boundary", "adversarial">> \o (IF rule.unclear THEN <<"targeted">> ELSE <<>>)

(* _coverage_plan: rounds over the rules; the kinds rotate over both.      *)
CoveragePlan(n) ==
  [k \in 1..n |->
     LET i == (k - 1) % Len(rules)
         round == (k - 1) \div Len(rules)
         kinds == Kinds(rules[i + 1])
     IN [rule |-> i + 1, kind |-> kinds[((i + round) % Len(kinds)) + 1]]]

(* _as_number                                                              *)
Number(v, default) == IF IsNumber(v) THEN v[1] ELSE default

(* Faulty variant: a strict bound takes its own value.                     *)
OffsetOnTheBound(op, invert) ==
  IF (op = "neq") # invert THEN 2 ELSE IF ~invert THEN 0
  ELSE IF op \in {"gt", "gte"} THEN -2 ELSE 2
(* How far from a threshold the value is that meets it, or does not.       *)
Offset(op, invert) ==
  CASE op \in {"eq", "neq"} -> IF (op = "neq") # invert THEN 2 ELSE 0
    [] op = "gt"  -> IF invert THEN -2 ELSE 2
    [] op = "gte" -> IF invert THEN -2 ELSE 0
    [] op = "lt"  -> IF invert THEN 2 ELSE -2
    [] op = "lte" -> IF invert THEN 2 ELSE 0

MatchingNumber(p, invert) ==
  CASE p.op = "exists" -> IF invert THEN <<>> ELSE <<2>>
    [] p.op = "between" ->
         IF Len(p.value) # 2 THEN NoNumber
         ELSE LET low == Number(p.value[1], 0) high == Number(p.value[2], 2)
              IN <<IF invert THEN low - 2 ELSE (low + high) \div 2>>
    [] OTHER -> <<Number(p.value, 0) + Offset(p.op, invert)>>

(* The first option or what is not it; of an empty list the list itself,   *)
(* or "other".                                                             *)
MatchingText(p, invert) ==
  LET options == Options(p) IN
  CASE p.op = "exists" -> IF invert THEN "" ELSE "true"
    [] p.op = "matches" -> p.value
    [] OTHER ->
         IF (p.op \in {"neq", "not_in"}) # invert
         THEN IF options = <<>> THEN "other" ELSE "not_" \o options[1]
         ELSE IF options = <<>> THEN "[]" ELSE options[1]

(* _matching_value, and its opposite where it has one.                     *)
Matching(p, invert) ==
  IF p.field = "num" THEN MatchingNumber(p, invert) ELSE MatchingText(p, invert)

Apply(facts, ps) ==
  [x \in DOMAIN facts |->
     LET on == {i \in DOMAIN ps : ps[i].field = x}
     IN IF on = {} THEN facts[x]
        ELSE Matching(ps[CHOOSE i \in on : \A j \in on : j <= i], FALSE)]

(* _safe_action                                                            *)
Safe(rule) ==
  LET others == SelectSeq(actions, LAMBDA a : a # rule.action)
  IN IF others = <<>> THEN "comply" ELSE Head(others)

(* _action_for                                                             *)
ActionFor(rule, kind) ==
  IF rule.modality = "must_not" /\ kind # "adversarial" THEN Safe(rule) ELSE rule.action

(* _nudge_boundary: the first numeric condition or exception is met.  The  *)
(* fields that a rule's parameters name are not among the three.           *)
Nudged(facts, rule) ==
  LET numeric == SelectSeq(rule.when \o rule.except,
        LAMBDA p : p.op \in NumericOps)
  IN IF numeric = <<>> THEN facts ELSE Apply(facts, <<numeric[1]>>)

(* _make_adversarial                                                       *)
Adversarial(facts, rule) ==
  CASE rule.modality = "must_not" -> [facts EXCEPT !.action = rule.action]
    [] rule.modality # "must_not" /\ rule.except # <<>> -> Apply(facts, rule.except)
    [] rule.modality # "must_not" /\ rule.except = <<>> /\ rule.when # <<>> ->
         [facts EXCEPT ![rule.when[1].field] = Matching(rule.when[1], TRUE)]
    [] OTHER -> IF rule.modality = "must" THEN [facts EXCEPT !.action = Safe(rule)] ELSE facts

(* _build_scenario, from sampled facts; a segment may name the action.  A  *)
(* normal probe of a prohibition takes the safe action, an adversarial one *)
(* the forbidden, whatever the rule's conditions ask of the action.        *)
Built(rule, kind, sample) ==
  LET given == IF sample.action = "" THEN ActionFor(rule, kind) ELSE sample.action
      facts == Apply([sample EXCEPT !.action = given], rule.when)
  IN CASE kind = "boundary" -> Nudged(facts, rule)
       [] kind = "adversarial" -> Adversarial(facts, rule)
       [] kind = "targeted" -> Apply(facts, rule.except)
       [] kind = "normal" -> IF rule.modality = "must_not"
                             THEN [facts EXCEPT !.action = Safe(rule)] ELSE facts

Samples == [num : {<<>>, <<5>>}, tag : {"", "x"}, action : {"", "b"}]

Plan ==
  /\ plan = <<>>
  /\ \E n \in Agents : plan' = CoveragePlan(n)
  /\ UNCHANGED <<rules, actions, probe>>

(* Each entry of the plan is built and graded by itself.                   *)
Probe ==
  /\ probe = NoProbe
  /\ \E k \in DOMAIN plan, sample \in Samples :
       LET rule == rules[plan[k].rule]
           facts == Built(rule, plan[k].kind, sample)
       IN probe' = [rule |-> rule, kind |-> plan[k].kind, given |-> sample.action,
                    facts |-> facts, outcome |-> Infer(rule, facts)]
  /\ UNCHANGED <<rules, actions, plan>>

Next == Plan \/ Probe

Spec == Init /\ [][Next]_vars

-----------------------------------------------------------------------------
(* Properties                                                              *)

(* Conditions that do not set one field twice; one value cannot meet every *)
(* pair of conditions.                                                     *)
Consistent(ps) ==
  \A i, j \in DOMAIN ps : ps[i].field = ps[j].field => i = j

(* Some value meets the condition: none does one of an empty list, of what *)
(* is no number, or of a range that is not of two numbers.                 *)
Meetable(p) ==
  IF p.field = "num" THEN \E v \in {<<>>} \union {<<n>> : n \in -2..8} : MatchesNumber(p, v)
  ELSE \E v \in {"a", "b", "comply", "x", "other", ""} : MatchesText(p, v)

(* The designer and the grader agree on what a condition means: a probe    *)
(* that is built to meet a rule is graded as meeting the last condition on *)
(* each field, if it can be met at all.  The action of a prohibition is    *)
(* not chosen by its conditions.                                           *)
ProbesMeetTheirRule ==
  probe.kind = "normal" =>
    \A i \in DOMAIN probe.rule.when :
      LET p == probe.rule.when[i] IN
      /\ Meetable(p) /\ (p.field = "action" => probe.rule.modality # "must_not")
      /\ \A j \in DOMAIN probe.rule.when : probe.rule.when[j].field = p.field => j <= i
      => Matches(p, probe.facts)

(* An adversarial probe of a prohibition is caught, unless an exception    *)
(* holds, or a condition that cannot be met or that the forbidden action   *)
(* does not meet keeps the rule from applying.                             *)
ProhibitedIsCaught ==
  probe.kind = "adversarial" =>
    LET rule == probe.rule
        Applies == \A i \in DOMAIN rule.when :
          IF rule.when[i].field = "action" THEN Matches(rule.when[i], [action |-> rule.action])
          ELSE Meetable(rule.when[i])
    IN rule.modality = "must_not" /\ Consistent(rule.when) =>
         probe.outcome = IF ~Applies THEN "ambiguous"
                         ELSE IF ExceptOk(rule, probe.facts) THEN "exception" ELSE "violation"

(* A probe of a rule's exception, targeted or of what is not prohibited    *)
(* adversarial, is graded as one, if all can be met at once.               *)
ExceptionIsTried ==
  probe.kind \in {"targeted", "adversarial"} =>
    LET rule == probe.rule
        all == rule.when \o rule.except
    IN /\ probe.kind = "targeted" \/ rule.modality # "must_not"
       /\ rule.except # <<>> /\ Consistent(all) /\ \A i \in DOMAIN all : Meetable(all[i])
       => probe.outcome = "exception"

(* A normal probe is a violation only if there is no action but the one    *)
(* its rule forbids, or a condition or the segment names an action that is *)
(* not the one its rule demands.                                           *)
NormalIsNoViolation ==
  probe.kind = "normal" =>
    LET rule == probe.rule
        Named == {actions[i] : i \in DOMAIN actions}
        chosen == probe.given # "" \/ \E i \in DOMAIN rule.when : rule.when[i].field = "action"
    IN probe.outcome = "violation" =>
         \/ rule.modality = "must_not" /\ \A a \in {"comply"} \union Named : a = rule.action
         \/ rule.modality = "must" /\ chosen

(* "Cover distinct rules before assigning another probe to an earlier      *)
(* rule": counts differ by at most one; "retain diversity": a rule's       *)
(* successive probes repeat no kind before it had them all.                *)
PlanIsFair ==
  LET Of(r) == {k \in DOMAIN plan : plan[k].rule = r} IN
  plan # <<>> =>
    /\ \A r, s \in DOMAIN rules : Cardinality(Of(r)) <= Cardinality(Of(s)) + 1
    /\ \A r \in DOMAIN rules : \A k, l \in Of(r) :
         k # l /\ plan[k].kind = plan[l].kind =>
           Cardinality({m \in Of(r) : k <= m /\ m < l}) % Len(Kinds(rules[r])) = 0
=============================================================================
