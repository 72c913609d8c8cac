---------------------------- MODULE SuiteBuilder ----------------------------
(***************************************************************************)
(* How a suite is planned (features/fuzzing): mechanical candidates for    *)
(* every rule and invariant and a few from a language model are validated, *)
(* merged by their facts and selected within a capacity; what the measured *)
(* coverage still misses gets one targeted batch of its own, and the suite *)
(* is assembled with an account of everything that was left out.           *)
(* Sorting by hash is sorting in the order in which candidates are listed; *)
(* `reversed` tries the opposite order.                                    *)
(***************************************************************************)
EXTENDS Integers, Sequences, FiniteSets, SequencesExt

CONSTANTS Facts,            \* the fact vectors
          Rules, Invariants,
          Unknown,          \* an id that only the language model knows
          InitialBudget, TargetedBudget, MaxScenarios,
          Whens,            \* [Rules \cup Invariants -> SUBSET Facts] to try
          Boundaries        \* [Rules \cup Invariants -> SUBSET Facts] to try

VARIABLES when,         \* the facts each target applies to
          boundary,     \* the facts of its boundary cases
          clashing,     \* the invariants expect different values of one dimension
          reversed,
          phase,        \* "initial", "measure", "targeted", "assemble", "done", "failed"
          attempt,      \* 0, or 1 for the repair of the model's answer
          existing,     \* the candidates of the batches so far
          generated,    \* how many candidates were proposed to the planner
          rejected,     \* how many were left out, by reason
          suite         \* the scenarios
vars == <<when, boundary, clashing, reversed, phase, attempt, existing, generated, rejected,
          suite>>

Targets    == Rules \cup Invariants
Priority   == [normal |-> 0, adversarial |-> 1, boundary |-> 2]
Reasons    == {"invalid", "duplicate", "incompatible", "budget"}
NoneAtAll  == [r \in Reasons |-> 0]
Plus(a, b) == [r \in Reasons |-> a[r] + b[r]]
Filtered(s, Keep(_)) == SelectSeq(s, Keep)
Applies(facts) == {i \in Invariants : facts \in when[i]}

Candidate(category, mechanical, facts, targets, asserts) ==
  [category |-> category, mechanical |-> mechanical, facts |-> facts,
   rules |-> targets \ Invariants, invariants |-> targets \cap Invariants,
   asserts |-> asserts, protected |-> asserts # {}]

-----------------------------------------------------------------------------
(* `_mechanical_candidates`: a witness and the boundaries of each requested *)
(* target that can be satisfied; an invariant is asserted where it applies. *)
MechanicalOf(t) ==
  LET At(category, facts) ==
        Candidate(category, TRUE, facts, {t}, {t} \cap Applies(facts))
      AllBoundaries == SetToSeq(boundary[t])
  IN IF when[t] = {} THEN <<>>
     ELSE <<At("normal", CHOOSE f \in when[t] : TRUE)>>
            \o [k \in 1..Len(AllBoundaries) |-> At("boundary", AllBoundaries[k])]

Mechanical(requested) == FlattenSeq([k \in 1..Cardinality(requested) |->
                                       MechanicalOf(SetToSeq(requested)[k])])

(* What the language model may propose: facts and targets, never answers. *)
Exploratory(count) ==
  {<<>>} \cup {<<Candidate("adversarial", FALSE, f, ts, {})>> :
                 f \in Facts, ts \in IF count > 0 THEN {{}, Targets, {Unknown}} ELSE {}}

(* `_attach_applicable_invariants` *)
Attached(c) ==
  [c EXCEPT !.invariants = @ \cup Applies(c.facts), !.asserts = @ \cup Applies(c.facts),
            !.protected = @ \/ Applies(c.facts) # {}]

(* `_validate_candidates`: the reason to refuse a candidate, or "none". *)
Refusal(c, used) ==
  CASE ~(c.rules \subseteq Rules) -> "invalid"
    [] c.protected /\ c.asserts = {} -> "invalid"
    [] \E i \in c.asserts : i \notin c.invariants \/ c.facts \notin when[i] -> "invalid"
    [] c.facts \in used -> "duplicate"
    [] OTHER -> "none"

(* `_conflicting_assertions`: two values are expected of one dimension. *)
Conflicting(c, d) == clashing /\ \E i \in c.asserts, j \in d.asserts : i # j

Merge(c, d) ==
  [c EXCEPT !.category = IF Priority[d.category] > Priority[@] THEN d.category ELSE @,
            !.mechanical = @ \/ d.mechanical, !.rules = @ \cup d.rules,
            !.invariants = @ \cup d.invariants, !.asserts = @ \cup d.asserts,
            !.protected = @ \/ d.protected]

(* `_deduplicate`: one candidate for the same facts, unless they conflict. *)
Deduplicate(candidates) ==
  FoldLeft(LAMBDA acc, c :
      LET Same == {k \in DOMAIN acc.kept : acc.kept[k].facts = c.facts}
          k    == CHOOSE k \in Same : TRUE
      IN IF Same = {} THEN [acc EXCEPT !.kept = Append(@, c)]
         ELSE IF Conflicting(acc.kept[k], c) THEN [acc EXCEPT !.left.incompatible = @ + 1]
         ELSE [acc EXCEPT !.kept[k] = Merge(@, c), !.left.duplicate = @ + 1],
    [kept |-> <<>>, left |-> NoneAtAll], candidates)

(* The rank of a candidate in `_select`: protected, a new category, what it *)
(* newly covers, mechanical; the first of the best is taken.                *)
Rank(c, selected, requested) ==
  LET Covered == UNION {selected[k].rules \cup selected[k].invariants : k \in DOMAIN selected}
      gain    == Cardinality(((c.rules \cup c.invariants) \cap requested) \ Covered)
      Weight(b, w) == IF b THEN w ELSE 0
  IN Weight(c.protected, 1000)
       + Weight(\A k \in DOMAIN selected : selected[k].category # c.category, 100)
       + 10 * gain + Weight(c.mechanical, 1)

Best(candidates, selected, requested) ==
  CHOOSE k \in DOMAIN candidates : \A j \in DOMAIN candidates :
    LET r(i) == Rank(candidates[i], selected, requested)
    IN r(k) > r(j) \/ (r(k) = r(j) /\ k <= j)

Select(candidates, capacity, requested) ==
  FoldLeft(LAMBDA acc, n :
      IF acc.rest = <<>> THEN acc
      ELSE LET k == Best(acc.rest, acc.selected, requested)
           IN [selected |-> Append(acc.selected, acc.rest[k]), rest |-> RemoveAt(acc.rest, k)],
    [selected |-> <<>>, rest |-> candidates], [n \in 1..capacity |-> n])

(* `canonicalize_with_rejections` *)
Canonicalize(proposed, capacity, requested, used) ==
  LET candidates == [k \in DOMAIN proposed |-> Attached(proposed[k])]
      Count(reason) == Len(Filtered(candidates, LAMBDA c : Refusal(c, used) = reason))
      valid  == Filtered(candidates, LAMBDA c : Refusal(c, used) = "none")
      merged == Deduplicate(IF reversed THEN Reverse(valid) ELSE valid)
      chosen == Select(merged.kept, capacity, requested)
  IN [batch |-> chosen.selected, generated |-> Len(proposed),
      left |-> Plus(merged.left,
                 [r \in Reasons |-> IF r = "budget" THEN Len(chosen.rest)
                                    ELSE IF r = "incompatible" THEN 0 ELSE Count(r)])]

-----------------------------------------------------------------------------
Init ==
  /\ when \in Whens /\ boundary \in Boundaries
  /\ clashing \in BOOLEAN /\ reversed \in BOOLEAN
  /\ phase = "initial" /\ attempt = 0
  /\ existing = <<>> /\ generated = 0 /\ rejected = NoneAtAll /\ suite = <<>>

(* The coverage that the evaluator measures: a target is covered by a      *)
(* scenario it applies to (`analyze_coverage`).                            *)
Missing(candidates) == {t \in Targets : ~\E k \in DOMAIN candidates : candidates[k].facts \in when[t]}

Capacity ==
  IF phase = "initial" THEN InitialBudget
  ELSE LET room == MaxScenarios - Len(existing)
       IN IF room < TargetedBudget THEN room ELSE TargetedBudget
Requested == IF phase = "initial" THEN Targets ELSE Missing(existing)
Used      == {existing[k].facts : k \in DOMAIN existing}

(* A usable answer of the language model ends a batch. *)
Generate ==
  /\ phase \in {"initial", "targeted"}
  /\ \E explored \in Exploratory(Capacity) :
       LET result == Canonicalize(Mechanical(Requested) \o explored, Capacity, Requested, Used)
       IN /\ existing' = existing \o result.batch
          /\ generated' = generated + result.generated
          /\ rejected' = Plus(rejected, result.left)
  /\ phase' = IF phase = "initial" THEN "measure" ELSE "assemble"
  /\ attempt' = 0
  /\ UNCHANGED <<when, boundary, clashing, reversed, suite>>

(* `generate_exploratory_candidates`: an answer that does not parse, or     *)
(* stands on a threshold, is asked for once more; then the stage fails.     *)
Repair ==
  /\ phase \in {"initial", "targeted"} /\ Capacity > 0
  /\ IF attempt = 0 THEN attempt' = 1 /\ UNCHANGED phase
     ELSE attempt' = 0 /\ phase' = "failed"
  /\ UNCHANGED <<when, boundary, clashing, reversed, existing, generated, rejected, suite>>

(* The coordinator measures the first batch, which may not be empty, and    *)
(* asks for one targeted batch for what is missing, while there is room.    *)
Measure ==
  /\ phase = "measure"
  /\ phase' = CASE existing = <<>> -> "failed"
                [] Missing(existing) = {} \/ Len(existing) >= MaxScenarios -> "assemble"
                [] OTHER -> "targeted"
  /\ UNCHANGED <<when, boundary, clashing, reversed, attempt, existing, generated, rejected, suite>>

(* `assemble_suite`: scenarios of equal meaning are merged, the best are    *)
(* kept; a suite needs a scenario.                                          *)
Meaning(c) == <<c.facts, c.rules, c.invariants, c.asserts, c.protected>>
Assemble ==
  /\ phase = "assemble"
  /\ LET Merged == FoldLeft(LAMBDA acc, c :
                       LET Same == {k \in DOMAIN acc : Meaning(acc[k]) = Meaning(c)}
                       IN IF Same = {} THEN Append(acc, c)
                          ELSE [acc EXCEPT ![CHOOSE k \in Same : TRUE] = Merge(@, c)],
                     <<>>, existing)
         Order  == SortSeq(Merged, LAMBDA c, d :
                     \/ c.protected /\ ~d.protected
                     \/ c.protected = d.protected /\ Priority[c.category] > Priority[d.category])
         kept   == IF Len(Order) > MaxScenarios THEN SubSeq(Order, 1, MaxScenarios) ELSE Order
     IN IF kept = <<>> THEN phase' = "failed" /\ UNCHANGED <<suite, rejected>>
        ELSE /\ phase' = "done" /\ suite' = kept
             /\ rejected' = [rejected EXCEPT
                  !.duplicate = @ + Len(existing) - Len(Merged),
                  !.budget = @ + Len(Order) - Len(kept)]
  /\ UNCHANGED <<when, boundary, clashing, reversed, attempt, existing, generated>>

Next == Generate \/ Repair \/ Measure \/ Assemble

Spec == Init /\ [][Next]_vars

-----------------------------------------------------------------------------
Scenarios == {suite[k] : k \in DOMAIN suite}
RejectedCount == rejected.invalid + rejected.duplicate + rejected.incompatible + rejected.budget

(* A batch and the suite stay within their budgets. *)
TypeOK ==
  /\ phase \in {"initial", "measure", "targeted", "assemble", "done", "failed"}
  /\ Len(existing) <= MaxScenarios /\ Len(suite) <= MaxScenarios
  /\ attempt \in 0..1 /\ generated \in Nat

(* Every scenario of a suite is about facts of its own, asserts exactly the *)
(* confirmed invariants that apply to them, whichever of the candidates     *)
(* that stood for these facts were merged, and is protected if it asserts.  *)
EveryScenarioIsJudged ==
  /\ Cardinality({c.facts : c \in Scenarios}) = Len(suite)
  /\ \A c \in Scenarios : /\ c.asserts = Applies(c.facts)
                          /\ c.protected <=> c.asserts # {}

(* Nothing disappears without a reason: what was generated is in the suite  *)
(* or is one of the rejections that its statistics list.                    *)
NothingIsLost == phase = "done" => generated = Len(suite) + RejectedCount

(* What the suite leaves uncovered applies to no facts that were tried, or  *)
(* the budget was spent.                                                    *)
OnlyTheBudgetLeavesGaps ==
  phase = "done" => \A t \in Missing(suite) : when[t] = {} \/ rejected.budget > 0
=============================================================================
