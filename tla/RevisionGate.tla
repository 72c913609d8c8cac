---------------------------- MODULE RevisionGate ----------------------------
(***************************************************************************)
(* The revision of a policy: findings are accepted, a proposal of bounded  *)
(* operations is applied or rejected as a whole (evaluation/patches.py),   *)
(* and the frozen suite decides over seven gates whether the patch is      *)
(* accepted (evaluation/regression.py).                                    *)
(***************************************************************************)
EXTENDS PolicyEngine, Sequences

CONSTANTS Policies,    \* baseline policies
          Drafts,      \* rule drafts a proposal may carry
          MaxOps       \* operations of a proposal (1 to 3 in the code)

VARIABLES policy,      \* the compiled baseline
          proposal,    \* [accepted, ops]
          revised,     \* the revised policy
          phase        \* "review", "proposed", "applied", "rejected", "accepted", "refused"
vars == <<policy, proposal, revised, phase>>

Chosen       == (SUBSET Findings(policy)) \ {{}}
AddOverrides == {o \in [kind : {"add_override"}, rule : RuleIds, target : RuleIds,
                         dimension : Dimensions, findings : Chosen] : o.rule # o.target}
AddRules     == [kind : {"add_rule"}, rule : RuleIds, draft : Drafts, findings : Chosen]
ReplaceRules == [kind : {"replace_rule"}, rule : RuleIds, expected : {0, 1},
                 draft : Drafts, findings : Chosen]
Operations   == AddOverrides \cup AddRules \cup ReplaceRules

-----------------------------------------------------------------------------
(* `base_rule_signature` and `semantic_rule_signature`: what a rule says, and *)
(* what the rules it overrides say; ids do not count.                         *)
Base(rule) == <<rule.when, rule.effects>>
Signature(p, r) ==
    LET over == {<<o[1], Base(p[o[2]])>> : o \in p[r].overrides}
    IN  <<Base(p[r]),
          [x \in over |-> Cardinality({o \in p[r].overrides : <<o[1], Base(p[o[2]])>> = x})]>>

Allowed(op) == {f.dimension : f \in op.findings}
Targets(op) == UNION {TargetRules(policy, f) : f \in op.findings}

(* The rule an operation puts in place. *)
Replacement(op) ==
    IF op.kind = "add_override"
    THEN [policy[op.rule] EXCEPT !.overrides = @ \cup {<<op.dimension, op.target>>},
                                 !.revision = @ + 1, !.origin = "session"]
    ELSE [when |-> op.draft.when, effects |-> op.draft.effects, overrides |-> op.draft.overrides,
          revision |-> IF op.rule \in DOMAIN policy THEN policy[op.rule].revision + 1 ELSE 1,
          origin |-> "session"]

MayOverride(op) ==
    /\ op.rule \in DOMAIN policy /\ op.target \in DOMAIN policy
    /\ op.dimension \in Allowed(op)
    /\ \A f \in op.findings : f.type = "conflict"
    /\ {op.rule, op.target} \subseteq Targets(op)
    /\ <<op.dimension, op.target>> \notin policy[op.rule].overrides

MayAdd(op) ==
    /\ op.rule \notin DOMAIN policy
    /\ op.draft.when # {}
    /\ Supplies(op.draft) \subseteq Allowed(op)

(* A replacement leaves what is outside the accepted dimensions as it was, *)
(* its conditions too if the rule says anything there.                     *)
KeepsTheRest(op) ==
    LET old == policy[op.rule]
    IN  /\ \A d \in Dimensions \ Allowed(op) : op.draft.effects[d] = old.effects[d]
        /\ Supplies(old) \ Allowed(op) # {} => op.draft.when = old.when
        /\ {o \in old.overrides : o[1] \notin Allowed(op)}
             = {o \in op.draft.overrides : o[1] \notin Allowed(op)}
        /\ Supplies(old) \subseteq Supplies(op.draft)

MayReplace(op) ==
    /\ op.rule \in DOMAIN policy /\ policy[op.rule].revision = op.expected
    /\ Targets(op) # {} => op.rule \in Targets(op)
    /\ op.draft.when # {}
    /\ KeepsTheRest(op)

(* Edges change only between rules of an accepted conflict. *)
KeepsEdges(op) ==
    LET old == IF op.rule \in DOMAIN policy THEN policy[op.rule].overrides ELSE {}
        new == Replacement(op).overrides
    IN  \A o \in (old \ new) \cup (new \ old) :
          \E f \in op.findings : /\ f.type = "conflict" /\ f.dimension = o[1]
                                 /\ {op.rule, o[2]} \subseteq TargetRules(policy, f)

MayApply(op) ==
    /\ \/ op.kind = "add_override" /\ MayOverride(op)
       \/ op.kind = "add_rule" /\ MayAdd(op)
       \/ op.kind = "replace_rule" /\ MayReplace(op)
    /\ KeepsEdges(op)

Changed(ops) == {ops[i].rule : i \in DOMAIN ops}

(* The policy the operations lead to. *)
Patched(ops) ==
    [r \in DOMAIN policy \cup Changed(ops) |->
       IF r \in Changed(ops)
       THEN Replacement(ops[CHOOSE i \in DOMAIN ops : ops[i].rule = r]) ELSE policy[r]]

(* `DeterministicRevisionApplier._apply`: everything fits, or nothing happens. *)
Applies(p) ==
    /\ \A f \in p.accepted : /\ f \in Findings(policy) /\ ~Candidate(f)
                             /\ \A s \in Witnesses(policy, f) : ~Suite[s].holdout
    /\ p.accepted = UNION {p.ops[i].findings : i \in DOMAIN p.ops}
    /\ \A i, j \in DOMAIN p.ops : p.ops[i].rule = p.ops[j].rule => i = j
    /\ \A i \in DOMAIN p.ops : MayApply(p.ops[i])
    /\ ValidPolicy(Patched(p.ops))
    /\ \A r \in Changed(p.ops) \cap DOMAIN policy :
         Signature(policy, r) # Signature(Patched(p.ops), r)

-----------------------------------------------------------------------------
(* The comparison.  TargetPairs and TargetAssertions are what may change.  *)
TargetPairs ==
    {p \in Pairs :
       \E f \in proposal.accepted : p[1] \in Witnesses(policy, f) /\ p[2] = f.dimension}

TargetAssertion(s, a) ==
    \E f \in proposal.accepted : /\ f.type = "intent_breach" /\ f.origin = a.origin
                                 /\ s \in Witnesses(policy, f)

(* `target_witnesses_fixed`, and the finding is gone. *)
Fixed(f) ==
    /\ f \notin Findings(revised) /\ ~Candidate(f)
    /\ \A s \in Witnesses(policy, f) :
         /\ Resolve(revised, s, f.dimension).status = "VALUE"
         /\ \A a \in Assertions(s) :
              a.dimension = f.dimension => Outcome(revised, s, a) = "PASS"
         /\ IF f.type = "intent_breach"
            THEN /\ \E a \in Assertions(s) : a.dimension = f.dimension /\ a.origin = f.origin
                 /\ \A a \in Assertions(s) :
                      a.dimension = f.dimension /\ a.origin = f.origin
                        => Outcome(policy, s, a) # "PASS"
            ELSE Resolve(policy, s, f.dimension).status \in {"GAP", "CONFLICT"}

(* Faulty variant: a conflict is not counted among the bad states. *)
NewBadButConflicts ==
    {p \in Pairs : LET new == Resolve(revised, p[1], p[2])
                   IN  new.status \in Bad \ {"CONFLICT"} /\ new # Resolve(policy, p[1], p[2])}

(* Pairs that end in a bad state, other than the one they were in. *)
NewBad ==
    {p \in Pairs : LET new == Resolve(revised, p[1], p[2])
                   IN  new.status \in Bad /\ new # Resolve(policy, p[1], p[2])}

(* Assertions that no longer pass, or that turn into errors. *)
WorseAssertions ==
    {p \in UNION {{s} \X Assertions(s) : s \in DOMAIN Suite} :
       LET old == Outcome(policy, p[1], p[2])
           new == Outcome(revised, p[1], p[2])
       IN  \/ old = "PASS" /\ new # "PASS"
           \/ old \in {"FAIL", "INCONCLUSIVE"} /\ new = "ERROR"}

WorseCompliance ==
    {p \in Pairs :
       /\ p[2] = "receipt_requirement"
       /\ Compliance(policy, p[1], p[2]) = "COMPLIANT"
       /\ Compliance(revised, p[1], p[2]) # "COMPLIANT"}

(* The scenarios something got worse in. *)
Worse == {p[1] : p \in NewBad \cup WorseCompliance} \cup {p[1] : p \in WorseAssertions}

NothingWorseOutside ==
    /\ (NewBad \cup WorseCompliance) \subseteq TargetPairs
    /\ \A p \in WorseAssertions : TargetAssertion(p[1], p[2])

(* The rules that changed though no operation names them, by signature. *)
Unrelated ==
    {r \in DOMAIN policy \cup DOMAIN revised :
       /\ r \notin Changed(proposal.ops)
       /\ ~(r \in DOMAIN policy /\ r \in DOMAIN revised
            /\ Signature(policy, r) = Signature(revised, r))}

(* The seven gates; the suite is a constant, so its hash matches. *)
Passes ==
    /\ \A f \in proposal.accepted : Fixed(f)
    /\ NothingWorseOutside /\ NewBad = {} /\ Unrelated = {}
    /\ \A s \in Worse : ~Suite[s].protected /\ ~Suite[s].holdout

-----------------------------------------------------------------------------
NoProposal == [accepted |-> {}, ops |-> <<>>]

Begins(baselines) ==
    /\ policy \in {p \in baselines : ValidPolicy(p)}
    /\ proposal = NoProposal /\ revised = policy /\ phase = "review"

Init == Begins(Policies)

(* A reviewer accepts findings, a model proposes operations about them. *)
Propose ==
    /\ phase = "review" /\ Findings(policy) # {}
    /\ \E n \in 1..MaxOps : \E ops \in [1..n -> Operations] :
         proposal' = [accepted |-> UNION {ops[i].findings : i \in 1..n}, ops |-> ops]
    /\ phase' = "proposed" /\ UNCHANGED <<policy, revised>>

Apply ==
    /\ phase = "proposed" /\ Applies(proposal)
    /\ revised' = Patched(proposal.ops) /\ phase' = "applied"
    /\ UNCHANGED <<policy, proposal>>

Reject ==
    /\ phase = "proposed" /\ ~Applies(proposal)
    /\ phase' = "rejected" /\ UNCHANGED <<policy, proposal, revised>>

Compare ==
    /\ phase = "applied"
    /\ phase' = IF Passes THEN "accepted" ELSE "refused"
    /\ UNCHANGED <<policy, proposal, revised>>

Next == Propose \/ Apply \/ Reject \/ Compare
Spec == Init /\ [][Next]_vars

-----------------------------------------------------------------------------
(* The policy a behaviour has just brought about. *)
Fresh == IF phase = "review" THEN {policy} ELSE IF phase = "applied" THEN {revised} ELSE {}

(* Precedence never leaves a question open: where a rule applies, some rule *)
(* is left to decide, because overrides never form a circle.                *)
PrecedenceDecides ==
    \A p \in Fresh, s \in DOMAIN Suite, d \in Dimensions :
      LET r == Resolve(p, s, d) IN r.applicable # {} => r.values # {}

(* Every gap and conflict of the suite is a finding with that scenario as a *)
(* witness: what the report merges or leaves to an intent breach is not lost. *)
EveryGapIsReported ==
    \A p \in Fresh, s \in DOMAIN Suite, d \in Dimensions :
      Resolve(p, s, d).status \in {"GAP", "CONFLICT"}
        => \E f \in FindingsOf(p, s) : f.dimension = d

(* An applied revision decides every scenario as before in each dimension   *)
(* that no accepted finding is about.                                       *)
OtherDimensionsAreUntouched ==
    phase = "applied" =>
      \A d \in Dimensions \ {f.dimension : f \in proposal.accepted}, s \in DOMAIN Suite :
        Resolve(revised, s, d) = Resolve(policy, s, d)

(* The applier and the gate agree on what is unrelated: a rule that no      *)
(* operation names keeps its signature, unless it overrides a revised one.  *)
ApplierAndGateAgree ==
    phase = "applied" => \A r \in Unrelated :
                    \E o \in policy[r].overrides : o[2] \in Changed(proposal.ops)

(* With an accepted patch no state of the suite is counted more often than  *)
(* before among gaps, conflicts, inconclusive ones and errors, and no       *)
(* protected or held-out scenario lost a passing assertion.                 *)
AcceptedIsNoWorse ==
    phase = "accepted" =>
      /\ \A b \in Bad :
           Cardinality({p \in Pairs : Resolve(revised, p[1], p[2]).status = b})
             <= Cardinality({p \in Pairs :
                               Resolve(policy, p[1], p[2]).status = b})
      /\ \A s \in DOMAIN Suite : \A a \in Assertions(s) :
           (Suite[s].protected \/ Suite[s].holdout) /\ Outcome(policy, s, a) = "PASS"
             => Outcome(revised, s, a) = "PASS"

(* An accepted patch answers every finding it was accepted for: each        *)
(* witness has one value there, and no new finding took the place of it.    *)
AcceptedAnswersItsTargets ==
    phase = "accepted" =>
      \A f \in proposal.accepted, s \in DOMAIN Suite :
        s \in Witnesses(policy, f)
          => ~\E g \in FindingsOf(revised, s) : g.dimension = f.dimension

(* docs/superpowers/specs/2026-09-04-policyfuzz-design.md:389, "zero new    *)
(* failures outside the targets": an accepted patch makes no assertion fail *)
(* that did not fail before, except the targeted ones.                      *)
NoNewFailureOutsideTargets ==
    phase = "accepted" =>
      \A s \in DOMAIN Suite : \A a \in Assertions(s) :
        Outcome(revised, s, a) = "FAIL"
          => Outcome(policy, s, a) = "FAIL" \/ TargetAssertion(s, a)

=============================================================================
