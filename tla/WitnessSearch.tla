--------------------------- MODULE WitnessSearch ---------------------------
(***************************************************************************)
(* The mechanical test cases of a rule or an invariant                     *)
(* (features/fuzzing/synthesis.py): `satisfy_conditions` looks for facts   *)
(* that satisfy a conjunction by probing a few values of every field, and  *)
(* `_mechanical_candidates` adds the neighbours of each threshold.  Where  *)
(* the code takes the first value that fits, in an order of its own, the   *)
(* model takes any one of them.                                            *)
(***************************************************************************)
EXTENDS Integers, FiniteSets, FiniteSetsExt

CONSTANTS MaxAmount,      \* the largest amount_minor and prior spend
          MaxBooking,     \* the largest booking_days_before
          DefaultAmount, DefaultBooking,
          Categories, DefaultCategory,
          Roles,          \* the approval roles
          ConditionSets   \* the conjunctions to try: sets of Predicate

VARIABLES conditions,   \* `when` of the rule or the invariant
          owner,        \* "rule" or "invariant"
          witness,      \* what satisfy_conditions returned: {} for None, or {facts}
          cases,        \* the candidates built from it
          step          \* "search", "build", "done"
vars == <<conditions, owner, witness, cases, step>>

Maximum == [amount |-> MaxAmount, prior |-> MaxAmount, total |-> 2 * MaxAmount,
            booking |-> MaxBooking]
Numeric == DOMAIN Maximum

Facts == [category : Categories, receipt : BOOLEAN, roles : SUBSET Roles,
          booking : 0..MaxBooking, amount : 0..MaxAmount, prior : 0..MaxAmount]

DefaultFacts == [category |-> DefaultCategory, receipt |-> TRUE, roles |-> {},
                 booking |-> DefaultBooking, amount |-> DefaultAmount, prior |-> 0]

ValueOf(field, facts) == IF field = "total" THEN facts.amount + facts.prior ELSE facts[field]

Compares(op, actual, expected) ==
  CASE op = "eq"  -> actual = expected
    [] op = "neq" -> actual # expected
    [] op = "in"  -> actual \in expected
    [] op = "not_in"   -> actual \notin expected
    [] op = "contains" -> expected \in actual
    [] op = "lt"  -> actual < expected
    [] op = "lte" -> actual <= expected
    [] op = "gt"  -> actual > expected
    [] op = "gte" -> actual >= expected

Matches(p, facts) == Compares(p.op, ValueOf(p.field, facts), p.value)
Satisfied(facts)  == \A p \in conditions : Matches(p, facts)

Of(field) == {p \in conditions : p.field = field}

-----------------------------------------------------------------------------
(* `numeric_triplet`: the threshold and its neighbours within the domain. *)
NumericTriplet(p) == {v \in p.value - 1 .. p.value + 1 : 0 <= v /\ v <= Maximum[p.field]}

(* `_field_values`: what is tried for a field that is decided on its own. *)
FieldValues(field) ==
  CASE field = "category" -> Categories
    [] field = "receipt"  -> BOOLEAN
    [] field = "roles"    -> {{}} \cup {{r} : r \in Roles} \cup {Roles}
    [] field = "booking"  -> {DefaultBooking, 0, 1, MaxBooking}
                               \cup UNION {NumericTriplet(p) : p \in Of("booking")}

Fitting(field) ==
  {v \in FieldValues(field) : \A p \in Of(field) : Compares(p.op, v, p.value)}

-----------------------------------------------------------------------------
(* `_integer_domain`: an interval with holes. *)
IntegerDomain(field) ==
  LET Bounds(op) == {p.value : p \in {q \in Of(field) : q.op = op}}
  IN [lower    |-> Max({0} \cup Bounds("eq") \cup Bounds("gte")
                         \cup {v + 1 : v \in Bounds("gt")}),
      upper    |-> Min({Maximum[field]} \cup Bounds("eq") \cup Bounds("lte")
                         \cup {v - 1 : v \in Bounds("lt")}),
      excluded |-> Bounds("neq")]

Allows(d, v) == d.lower <= v /\ v <= d.upper /\ v \notin d.excluded
Clamp(v, lower, upper) == Min({Max({v, lower}), upper})

(* `_nearest_allowed`: the offsets 0 .. |excluded| + 1 around the preferred value. *)
NearestAllowed(d, preferred) ==
  LET start == Clamp(preferred, d.lower, d.upper)
      Tried == UNION {{start + o, start - o} : o \in 0 .. Cardinality(d.excluded) + 1}
  IN IF d.lower > d.upper THEN {} ELSE {v \in Tried : Allows(d, v)}

(* Faulty variant: the holes of the total are not counted. *)
ProbeCountOfFields(amount, prior, total) ==
  Cardinality(amount.excluded) + Cardinality(prior.excluded)

ProbeCount(amount, prior, total) ==
  Cardinality(amount.excluded) + Cardinality(prior.excluded) + Cardinality(total.excluded) + 2

(* What is left for the prior spend once the amount is chosen. *)
PriorDomain(a, prior, total) ==
  [lower |-> Max({prior.lower, total.lower - a}), upper |-> Min({prior.upper, total.upper - a}),
   excluded |-> prior.excluded \cup {e - a : e \in total.excluded}]

(* `_daily_pairs`: both edges of the amounts are probed, and for each      *)
(* amount the prior spends next to zero.                                   *)
DailyPairs ==
  LET amount == IntegerDomain("amount")
      prior  == IntegerDomain("prior")
      total  == IntegerDomain("total")
      lower  == Max({amount.lower, total.lower - prior.upper})
      upper  == Min({amount.upper, total.upper - prior.lower})
      Probes == 0 .. ProbeCount(amount, prior, total) - 1
      Tried  == {Clamp(DefaultAmount, lower, upper)}
                  \cup {lower + o : o \in Probes} \cup {upper - o : o \in Probes}
  IN IF lower > upper THEN {}
     ELSE UNION {{<<a, p>> : p \in NearestAllowed(PriorDomain(a, prior, total), 0)} :
                   a \in {v \in Tried : Allows(amount, v)}}

(* `satisfy_conditions` *)
Witnesses ==
  IF \E f \in {"category", "receipt", "roles", "booking"} : Of(f) # {} /\ Fitting(f) = {}
  THEN {}
  ELSE LET Chosen(f) == IF Of(f) = {} THEN DefaultFacts[f] ELSE CHOOSE v \in Fitting(f) : TRUE
       IN {[category |-> Chosen("category"), receipt |-> Chosen("receipt"),
            roles |-> Chosen("roles"), booking |-> Chosen("booking"),
            amount |-> pair[1], prior |-> pair[2]] : pair \in DailyPairs}

-----------------------------------------------------------------------------
(* `_boundary_facts`: a total is split into two halves. *)
BoundaryFacts(base, field, v) ==
  IF field = "total"
  THEN LET amount == Min({v \div 2, MaxAmount})
       IN [base EXCEPT !.amount = amount, !.prior = v - amount]
  ELSE [base EXCEPT ![field] = v]

(* The case asserts the invariant only where the invariant applies. *)
Candidate(category, facts) ==
  [category |-> category, facts |-> facts,
   protected |-> owner = "invariant" /\ (category = "normal" \/ Satisfied(facts))]

(* `_mechanical_candidates` for one target *)
MechanicalCandidates(base) ==
  {Candidate("normal", base)}
    \cup UNION {{Candidate("boundary", BoundaryFacts(base, p.field, v)) :
                   v \in NumericTriplet(p)} : p \in {q \in conditions : q.field \in Numeric}}

(* A rule may not read the daily total (RuleDraft.executable_conditions). *)
Init ==
  /\ conditions \in ConditionSets
  /\ owner \in {"rule", "invariant"}
  /\ owner = "rule" => Of("total") = {}
  /\ witness = {} /\ cases = {} /\ step = "search"

SatisfyConditions ==
  /\ step = "search"
  /\ \/ \E w \in Witnesses : Satisfied(w) /\ witness' = {w} /\ step' = "build"
     \/ /\ Witnesses = {} \/ \E w \in Witnesses : ~Satisfied(w)
        /\ witness' = {} /\ step' = "done"
  /\ UNCHANGED <<conditions, owner, cases>>

Build ==
  /\ step = "build"
  /\ cases' = UNION {MechanicalCandidates(base) : base \in witness} /\ step' = "done"
  /\ UNCHANGED <<conditions, owner, witness>>

Next == SatisfyConditions \/ Build

Spec == Init /\ [][Next]_vars

-----------------------------------------------------------------------------
TypeOK ==
  /\ conditions \in ConditionSets /\ step \in {"search", "build", "done"}
  /\ witness \subseteq Facts
  /\ \A c \in cases : c.facts \in Facts

(* The facts in which a field that no condition reads has its default. *)
RelevantFacts ==
  {f \in [category : IF Of("category") = {} THEN {DefaultCategory} ELSE Categories,
          receipt : BOOLEAN, roles : IF Of("roles") = {} THEN {{}} ELSE SUBSET Roles,
          booking : IF Of("booking") = {} THEN {DefaultBooking} ELSE 0..MaxBooking,
          amount : 0..MaxAmount, prior : 0..MaxAmount] :
     Of("receipt") = {} => f.receipt}

(* The few values that are probed are enough: a rule or an invariant is    *)
(* left without a test case only when no facts at all satisfy it           *)
(* (the comment in _daily_pairs calls its probing complete).               *)
WitnessIsFound ==
  step = "done" => (witness = {} <=> ~\E f \in RelevantFacts : Satisfied(f))

(* The cases of a threshold stand on both sides of it: whatever a numeric  *)
(* comparison can be in its domain, true or false, it is in some case, and *)
(* a protected case is one its invariant applies to.                       *)
BothSidesAreTried ==
  step = "done" /\ witness # {} =>
    /\ \A p \in {q \in conditions : q.field \in Numeric}, v \in 0..(2 * MaxAmount + MaxBooking) :
         v <= Maximum[p.field] =>
           \E c \in cases : Matches(p, c.facts) = Compares(p.op, v, p.value)
    /\ \A c \in cases : c.protected => Satisfied(c.facts)
=============================================================================
