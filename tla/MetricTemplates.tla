-------------------------- MODULE MetricTemplates --------------------------
(***************************************************************************)
(* The suite of the Metric: `templates` builds twelve cases from the rules *)
(* of the document, `run_metric` runs the first test_budget of them and    *)
(* reduces the actions of a failing case one deletion at a time            *)
(* (v2/metric/service.py).  A case is run by folding MetricClaims!Step     *)
(* over its actions; the reduction loop is one action here per iteration.  *)
(***************************************************************************)
EXTENDS MetricClaims, Sequences, SequencesExt

CONSTANT MaxBudget    \* the largest test_budget: how many templates exist

VARIABLES template,   \* which template is run
          verdict,    \* "running", then "pass" or "fail"
          minimal,    \* the actions left by the reduction so far
          index       \* the next action to try to leave out
tvars == <<rules, case, template, verdict, minimal, index>>

-----------------------------------------------------------------------------
SubmitOf(i, cents, journey, participant) ==
    [act |-> "submit", id |-> i, participant |-> participant,
     journey |-> journey, amount |-> cents]
Act(name, i) == [act |-> name, id |-> i]
Settle(i)    == <<Act("approve", i), Act("pay", i)>>

Common == {"G-BUDGET", "G-JOURNEY", "G-CANCELLED", "G-AMOUNT"}

(* Two claims of this amount exceed the allowance, if one claim may be so large. *)
Overlap(r) == Min({r.limit, r.allowance \div 2 + 1})

(* Two claims of this amount fit into the allowance together. *)
Duplicate(r) == Max({1, Min({r.limit, r.allowance \div 3})})

(* `templates`: the actions of each case, in the order of the suite. *)
Templates(r) ==
    LET amount == Min({r.limit, r.allowance})
        first  == SubmitOf(1, amount, "J1", "P1")
        Of(cents) == <<SubmitOf(1, cents, "J1", "P1")>>
    IN  << <<first>> \o Settle(1),                                      \* normal-claim
           Of(0) \o Settle(1),                                          \* zero-amount
           Of(r.limit + 1) \o Settle(1),                                \* above-claim-limit
           Of(Overlap(r)) \o <<SubmitOf(2, Overlap(r), "J2", "P1")>>
             \o <<Act("approve", 1), Act("approve", 2), Act("pay", 1), Act("pay", 2)>>,
           Of(Duplicate(r)) \o Settle(1)
             \o <<SubmitOf(2, Duplicate(r), "J1", "P1")>> \o Settle(2), \* duplicate-journey
           <<first, Act("approve", 1), Act("cancel", 1), Act("pay", 1)>>,
           <<first, Act("approve", 1), Act("cancel", 1)>>
             \o <<SubmitOf(2, amount, "J2", "P1")>> \o Settle(2),       \* cancel-release
           <<first>> \o Settle(1) \o <<first>> \o Settle(1),            \* duplicate-claim-id
           <<first>> \o Settle(1) \o <<Act("pay", 1)>>,                 \* repeated-payment
           <<first, Act("pay", 1)>> \o Settle(1),                       \* premature-payment
           <<first>> \o Settle(1)
             \o <<SubmitOf(2, amount, "J2", "P2")>> \o Settle(2),       \* independent-participants
           Of(-1) \o Settle(1) >>                                       \* negative-amount

Requirements(k) == Common \cup IF k = 1 THEN {"G-LONE-VALID"} ELSE {}

(* `run_case`: the goals of `required` that the actions violate under r. *)
RunCase(actions, r) == FoldLeft(LAMBDA s, a : Step(s, a, r), EmptyCase, actions)
Fails(actions, r, required) == Violated(RunCase(actions, r), r) \cap required

-----------------------------------------------------------------------------
TInit ==
    /\ rules \in MetricRules
    /\ template \in 1..MaxBudget
    /\ case = EmptyCase /\ verdict = "running"
    /\ minimal = Templates(rules)[template] /\ index = 1

RunTemplate ==
    /\ verdict = "running"
    /\ case' = RunCase(minimal, rules)
    /\ verdict' = IF Violated(case', rules) \cap Requirements(template) = {}
                  THEN "pass" ELSE "fail"
    /\ UNCHANGED <<rules, template, minimal, index>>

(* The goals the unreduced case violates: a reduction must keep one of them. *)
Kept == Violated(case, rules) \cap Requirements(template)

(* Where the search goes on: a deletion starts it over. *)
NextIndex(i, deleted) == IF deleted THEN 1 ELSE i + 1

(* Faulty variant: any deletion that changes the case is kept. *)
KeepsShorter(candidate) == Len(candidate) > 0

(* A deletion is kept when the case still violates one of the goals. *)
KeepsDeletion(candidate) == Fails(candidate, rules, Kept) # {}

Reduce ==
    /\ verdict = "fail" /\ index <= Len(minimal) /\ Len(minimal) > 1
    /\ LET candidate == RemoveAt(minimal, index)
       IN  /\ minimal' = IF KeepsDeletion(candidate) THEN candidate ELSE minimal
           /\ index' = NextIndex(index, KeepsDeletion(candidate))
    /\ UNCHANGED <<rules, case, template, verdict>>

TNext == RunTemplate \/ Reduce
TSpec == TInit /\ [][TNext]_tvars

-----------------------------------------------------------------------------
Reduced == verdict = "fail" /\ ~(index <= Len(minimal) /\ Len(minimal) > 1)

(* Sound rules raise no alarm: with a guarded budget and duplicates judged by *)
(* journey every template passes, the lone valid claim being paid once.       *)
NoFalseAlarm ==
    /\ verdict = "fail"
    => \/ ~rules.recheck /\ rules.accounting = "paid_only"
       \/ rules.scope = "claim_id"

(* The overlapping template finds an unguarded budget whenever one claim may  *)
(* exceed half of the allowance, and the duplicate template finds duplicates  *)
(* judged by claim id whenever two claims fit into the allowance.             *)
SuiteFindsTheGap ==
    /\ verdict = "pass" /\ template = 4 /\ rules.limit > rules.allowance \div 2
         => rules.recheck \/ rules.accounting = "paid_and_approved"
    /\ verdict = "pass" /\ template = 5 /\ rules.allowance > 1
         => rules.scope = "journey"

(* What the result calls a counterexample "minimal under action deletion":  *)
(* it violates a goal of the original failure, and no action of it can go.  *)
CounterexampleIsMinimal ==
    Reduced => /\ Fails(minimal, rules, Kept) # {}
               /\ \A i \in DOMAIN minimal :
                    Fails(RemoveAt(minimal, i), rules, Kept) = {}

=============================================================================
