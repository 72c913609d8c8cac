---------------------------- MODULE MetricClaims ----------------------------
(***************************************************************************)
(* The executable reimbursement policy of the Metric (v2/metric/service.py):*)
(* claims are submitted, approved, paid and cancelled one action at a time *)
(* under the rules a policy document states, and a case is scored against  *)
(* the goals the document names.                                           *)
(*                                                                         *)
(* The operators Accepts, After and Step are `_apply` and the body of the  *)
(* loop of `run_case`; Next lets any action arrive in any order, which is  *)
(* what the twelve fixed templates (module MetricTemplates) only sample.   *)
(***************************************************************************)
EXTENDS Integers, FiniteSets, FiniteSetsExt

CONSTANTS ClaimIds, Participants, Journeys,
          Amounts,       \* the amounts a claim may ask for, in cents
          Limits,        \* per_claim_limit_cents
          Allowances,    \* participant_allowance_cents
          None           \* no claim under this id

VARIABLES rules,   \* MetricRules of the reviewed document
          case     \* the case being run
vars == <<rules, case>>

Claim == [participant : Participants, journey : Journeys, amount : Amounts,
          status : {"submitted", "approved", "paid", "cancelled"}]

MetricRules == [limit : Limits, allowance : Allowances,
                accounting : {"paid_only", "paid_and_approved"},
                recheck : BOOLEAN, scope : {"claim_id", "journey"}]

SubmitAction == [act : {"submit"}, id : ClaimIds, participant : Participants,
                 journey : Journeys, amount : Amounts]
OtherAction  == [act : {"approve", "pay", "cancel"}, id : ClaimIds]
Action       == SubmitAction \cup OtherAction

-----------------------------------------------------------------------------
(* `_state` and `_totals`: what one participant was paid, or has reserved. *)
Total(claims, p, status) ==
    MapThenSumSet(LAMBDA i : claims[i].amount,
                  {i \in ClaimIds : /\ claims[i] # None
                                    /\ claims[i].participant = p
                                    /\ claims[i].status = status})

(* Faulty variant: only a payment already made counts as a duplicate. *)
SameJourneyByPaid(claims, a) ==
    \E i \in ClaimIds : /\ claims[i] # None
                        /\ claims[i].participant = a.participant
                        /\ claims[i].journey = a.journey
                        /\ claims[i].status = "paid"

(* A claim of the same participant and journey that is still alive. *)
SameJourney(claims, a) ==
    \E i \in ClaimIds : /\ claims[i] # None
                        /\ claims[i].participant = a.participant
                        /\ claims[i].journey = a.journey
                        /\ claims[i].status # "cancelled"

MaySubmit(claims, a, r) ==
    /\ claims[a.id] = None
    /\ 0 < a.amount /\ a.amount <= r.limit
    /\ r.scope = "journey" => ~SameJourney(claims, a)

(* Faulty variant: the reservations of other approvals are never counted. *)
MayApproveAnyway(claims, c, r) ==
    /\ c.status = "submitted"
    /\ Total(claims, c.participant, "paid") + c.amount <= r.allowance

MayApprove(claims, c, r) ==
    LET reserved == IF r.accounting = "paid_and_approved"
                    THEN Total(claims, c.participant, "approved") ELSE 0
    IN  /\ c.status = "submitted"
        /\ Total(claims, c.participant, "paid") + reserved + c.amount
             <= r.allowance

MayPay(claims, c, r) ==
    /\ c.status = "approved"
    /\ r.recheck => Total(claims, c.participant, "paid") + c.amount <= r.allowance

(* `_apply`: whether the rules accept an action, and the claims after it. *)
Accepts(claims, a, r) ==
    \/ a.act = "submit" /\ MaySubmit(claims, a, r)
    \/ /\ a.act # "submit" /\ claims[a.id] # None
       /\ \/ a.act = "approve" /\ MayApprove(claims, claims[a.id], r)
          \/ a.act = "pay" /\ MayPay(claims, claims[a.id], r)
          \/ a.act = "cancel" /\ claims[a.id].status \in {"submitted", "approved"}

StatusAfter(act) == CASE act = "approve" -> "approved"
                      [] act = "pay"     -> "paid"
                      [] act = "cancel"  -> "cancelled"

After(claims, a) ==
    IF a.act = "submit"
    THEN [claims EXCEPT ![a.id] = [participant |-> a.participant, journey |-> a.journey,
                                   amount |-> a.amount, status |-> "submitted"]]
    ELSE [claims EXCEPT ![a.id].status = StatusAfter(a.act)]

-----------------------------------------------------------------------------
(* `run_case`: the claims, the ids ever cancelled, whether one of them was *)
(* paid later, and the most any participant was ever paid.                 *)
EmptyCase == [claims |-> [i \in ClaimIds |-> None], cancelled |-> {},
              paidCancelled |-> FALSE, maxPaid |-> 0]

Step(s, a, r) ==
    LET ok    == Accepts(s.claims, a, r)
        after == IF ok THEN After(s.claims, a) ELSE s.claims
    IN  [claims        |-> after,
         cancelled     |-> IF ok /\ a.act = "cancel" THEN s.cancelled \cup {a.id}
                           ELSE s.cancelled,
         paidCancelled |-> \/ s.paidCancelled
                           \/ ok /\ a.act = "pay" /\ a.id \in s.cancelled,
         maxPaid       |-> Max({s.maxPaid} \cup
                               {Total(after, p, "paid") : p \in Participants})]

Paid(s) == {i \in ClaimIds : s.claims[i] # None /\ s.claims[i].status = "paid"}

Goals == {"G-BUDGET", "G-JOURNEY", "G-CANCELLED", "G-AMOUNT", "G-LONE-VALID"}

(* The checks of a case against the goals: which of them it violates. *)
Violated(s, r) ==
    {g \in Goals :
       \/ g = "G-BUDGET" /\ s.maxPaid > r.allowance
       \/ g = "G-JOURNEY" /\ \E i, j \in Paid(s) :
            /\ i # j
            /\ s.claims[i].participant = s.claims[j].participant
            /\ s.claims[i].journey = s.claims[j].journey
       \/ g = "G-CANCELLED" /\ s.paidCancelled
       \/ g = "G-AMOUNT" /\ \E i \in Paid(s) :
            ~(0 < s.claims[i].amount /\ s.claims[i].amount <= r.limit)
       \/ g = "G-LONE-VALID" /\ Cardinality(Paid(s)) # 1}

-----------------------------------------------------------------------------
Init == rules \in MetricRules /\ case = EmptyCase

Submit  == \E a \in SubmitAction : case' = Step(case, a, rules)
Approve == \E i \in ClaimIds : case' = Step(case, [act |-> "approve", id |-> i], rules)
Pay     == \E i \in ClaimIds : case' = Step(case, [act |-> "pay", id |-> i], rules)
Cancel  == \E i \in ClaimIds : case' = Step(case, [act |-> "cancel", id |-> i], rules)

Next == (Submit \/ Approve \/ Pay \/ Cancel) /\ UNCHANGED rules

Spec == Init /\ [][Next]_vars

-----------------------------------------------------------------------------
(* The rules are of the right shape and every claim is whole. *)
TypeOK ==
    /\ rules \in MetricRules
    /\ case.claims \in [ClaimIds -> Claim \cup {None}]
    /\ case.cancelled \subseteq ClaimIds
    /\ case.paidCancelled \in BOOLEAN
    /\ case.maxPaid \in Int

(* Either of the two ways a policy can guard its budget is enough on its    *)
(* own, in every order of approvals, payments and cancellations: the check  *)
(* at payment, or counting the approvals that are not paid yet.             *)
BudgetIsKept ==
    rules.recheck \/ rules.accounting = "paid_and_approved"
      => "G-BUDGET" \notin Violated(case, rules)

(* One payment per participant and journey when duplicates are judged by    *)
(* journey, though a cancelled claim frees its journey for another.         *)
JourneyIsPaidOnce ==
    rules.scope = "journey" => "G-JOURNEY" \notin Violated(case, rules)

(* Whatever the rules, no claim that was cancelled once is paid later: its  *)
(* id cannot be submitted again and no approval revives it.                 *)
CancelledIsNeverPaid == "G-CANCELLED" \notin Violated(case, rules)

(* What holds of every order of actions whatever the amounts are. *)
ClaimsAreSound == TypeOK /\ JourneyIsPaidOnce /\ CancelledIsNeverPaid

=============================================================================
