----------------------------- MODULE MCPlanning -----------------------------
(***************************************************************************)
(* What plans and keeps tests, for TLC: the engine sidecar's run records   *)
(* under requests that overlap or follow each other, its probes of rules   *)
(* and plans, and the scenario planner of the backend: witnesses of        *)
(* conditions, and the suite from its candidates to its statistics; and    *)
(* what is recorded and claimed of a benchmark (MCCustody).  The parts do  *)
(* not touch; a behaviour is of the part chosen at its beginning.          *)
(***************************************************************************)
EXTENDS MCCustody, Sequences, TLC

CONSTANTS
  Requests, Suites,              \* slots for requests on a run, suites to attach
  MostOverlapping, MostSerial,   \* bounds: requests that may overlap, and that do not,
  SerialSlots                    \* and how many slots the latter use

VARIABLES
  settings, disk, saved, writing, rec, todo, guarded, begun,  \* EngineRuns
  rules, actions, plan, probe,                                \* EngineProbes
  conditions, owner, witness, cases, step,                    \* WitnessSearch
  when, boundary, clashing, reversed, phase, attempt,         \* SuiteBuilder
  existing, generated, rejected, suite

EngineRun == INSTANCE EngineRuns

Pred(f, o, v) == [field |-> f, op |-> o, value |-> v]
Preds(f, ops, vals) == {Pred(f, o, v) : o \in ops, v \in vals}
SomePredicates ==
  {Pred("num", "gt", <<4>>), Pred("num", "lt", <<>>), Pred("num", "between", <<<<2>>, <<6>>>>),
   Pred("tag", "eq", "x"), Pred("tag", "in", <<>>), Pred("tag", "not_in", <<>>),
   Pred("action", "eq", "b"), Pred("action", "neq", "a")}
AllPredicates ==
  SomePredicates
    \union Preds("num", {"eq", "neq", "exists"}, {<<4>>})
    \union Preds("num", {"gt", "gte", "lt", "lte"}, {<<4>>, <<>>, <<0, 0>>})
    \union Preds("num", {"between"}, {<<<<6>>, <<2>>>>, <<<<2>>, <<>>>>, <<<<4>>>>})
    \union Preds("tag", {"neq", "matches", "exists"}, {"x"})
    \union Preds("tag", {"in", "not_in"}, {<<"x", "y">>})
    \union Preds("action", {"eq", "exists", "matches"}, {"a"})
    \union Preds("action", {"in", "not_in"}, {<<"a", "b">>})

(* Every condition, pairs of some, and no exception or one of some; and    *)
(* plans of every size for up to three rules.                              *)
OneRule == INSTANCE EngineProbes WITH
  Whens <- {<<>>} \union {<<p>> : p \in AllPredicates}
                  \union {<<p, q>> : p, q \in SomePredicates},
  Excepts <- {<<>>} \union {<<p>> : p \in {q \in SomePredicates : q.op \notin {"in", "neq"}}},
  Modalities <- {"must", "must_not", "may"}, MaxRules <- 1, Agents <- {4}
OnePlan == INSTANCE EngineProbes WITH
  Whens <- {<<>>}, Excepts <- {<<>>}, Modalities <- {"must"}, MaxRules <- 3, Agents <- 1..13

(* Up to three holes in the domains of the two amounts and of their total, *)
(* with one bound, and up to two conditions of any other field.            *)
Some(f, ops, vals) == {Pred(f, o, v) : o \in ops, v \in vals}
Holes == Some("amount", {"neq"}, 0..3) \union Some("prior", {"neq"}, 0..3)
           \union Some("total", {"neq"}, 0..4)
Bounds == Some("amount", {"gt", "lte"}, {1, 2}) \union Some("prior", {"gte", "lt"}, {1, 2})
            \union Some("total", {"eq", "lte", "gt"}, {2, 3})
Alone == Some("booking", {"eq", "neq", "lt", "lte", "gt", "gte"}, 0..3)
           \union Some("category", {"in", "not_in"}, {{"meal", "hotel"}, {"meal"}})
           \union Some("category", {"eq", "neq"}, {"meal"})
           \union Some("roles", {"contains"}, {"manager", "director"})
           \union Some("receipt", {"eq", "neq"}, BOOLEAN)
Conjunctions == {{a, b, c, d} : a, b, c \in Holes, d \in Bounds}
                  \union {{a, b} : a, b \in Alone}
Search == INSTANCE WitnessSearch WITH
  MaxAmount <- 3, MaxBooking <- 3, DefaultAmount <- 2, DefaultBooking <- 2,
  Categories <- {"meal", "hotel", "transport"}, DefaultCategory <- "meal",
  Roles <- {"manager", "director", "finance"},
  ConditionSets <- Conjunctions

Targets == {"r1", "i1", "i2"}
AllWhens ==
  {w \in [Targets -> {{}, {"f1"}, {"f2"}, {"f2", "f3"}}] : w["i2"] \in {{}, {"f2", "f3"}}}
AllBoundaries == {[t \in Targets |-> IF t = "r1" THEN a ELSE IF t = "i1" THEN b ELSE {}] :
                    a \in {{}, {"f1"}}, b \in {{}, {"f2"}, {"f1", "f3"}}}
Planner == INSTANCE SuiteBuilder WITH
  Facts <- {"f1", "f2", "f3"}, Rules <- {"r1"}, Invariants <- {"i1", "i2"}, Unknown <- "rx",
  InitialBudget <- 2, TargetedBudget <- 1, MaxScenarios <- 3,
  Whens <- AllWhens, Boundaries <- AllBoundaries

runVars == <<settings, disk, saved, writing, rec, todo, guarded, begun>>
probeVars == <<rules, actions, plan, probe>>
searchVars == <<conditions, owner, witness, cases, step>>
plannerVars == <<when, boundary, clashing, reversed, phase, attempt, existing, generated,
                 rejected, suite>>
vars == <<part, runVars, probeVars, searchVars, plannerVars, custodyVars>>

RunsIdle ==
  /\ settings = "idle" /\ disk = "idle" /\ saved = "idle" /\ writing = "idle"
  /\ rec = "idle" /\ todo = "idle" /\ guarded = "idle" /\ begun = "idle"
ProbesIdle ==
  rules = "idle" /\ actions = "idle" /\ plan = "idle" /\ probe = "idle"
SearchIdle ==
  /\ conditions = "idle" /\ owner = "idle" /\ witness = "idle" /\ cases = "idle"
  /\ step = "idle"
PlannerIdle ==
  /\ when = "idle" /\ boundary = "idle" /\ clashing = "idle" /\ reversed = "idle"
  /\ phase = "idle" /\ attempt = "idle" /\ existing = "idle" /\ generated = "idle"
  /\ rejected = "idle" /\ suite = "idle"

Init ==
  \/ /\ CustodyIdle
     /\ \/ part \in {"overlap", "serial"} /\ EngineRun!Init /\ ProbesIdle /\ SearchIdle
          /\ PlannerIdle
        \/ part = "rule" /\ OneRule!Init /\ RunsIdle /\ SearchIdle /\ PlannerIdle
        \/ part = "plan" /\ OnePlan!Init /\ RunsIdle /\ SearchIdle /\ PlannerIdle
        \/ part = "search" /\ Search!Init /\ RunsIdle /\ ProbesIdle /\ PlannerIdle
        \/ part = "suite" /\ Planner!Init /\ RunsIdle /\ ProbesIdle /\ SearchIdle
  \/ CustodyInit /\ RunsIdle /\ ProbesIdle /\ SearchIdle /\ PlannerIdle

(* No two requests on the run overlap. *)
OneAtATime == \A q, r \in Requests : todo[q] # <<>> /\ todo[r] # <<>> => q = r
SlotsInUse == {r \in Requests : todo[r] # <<>> \/ rec[r] # EngineRun!NewRecord}

Next ==
  \/ Part("overlap", EngineRun!Next /\ begun' <= MostOverlapping,
          <<probeVars, searchVars, plannerVars, custodyVars>>)
  \/ Part("serial",
          /\ EngineRun!Next /\ OneAtATime'
          /\ begun' <= MostSerial /\ Cardinality(SlotsInUse') <= SerialSlots,
          <<probeVars, searchVars, plannerVars, custodyVars>>)
  \/ Part("rule", OneRule!Next, <<runVars, searchVars, plannerVars, custodyVars>>)
  \/ Part("plan", OnePlan!Next, <<runVars, searchVars, plannerVars, custodyVars>>)
  \/ Part("search", Search!Next, <<runVars, probeVars, plannerVars, custodyVars>>)
  \/ Part("suite", Planner!Next, <<runVars, probeVars, searchVars, custodyVars>>)
  \/ CustodyNext /\ UNCHANGED <<runVars, probeVars, searchVars, plannerVars>>

Spec == Init /\ [][Next]_vars

(* Values of the constants, for TLC: two recorders of one candidate and one *)
(* output, of one candidate and two outputs, one of which others write to  *)
(* as well, and of two candidates and one output;                          *)
At(c, o) == [candidate |-> c, output |-> o]
SomeAims ==
  LET first == CHOOSE r \in Recorders : TRUE
  IN {[r \in Recorders |-> IF r = first THEN At("a", "o") ELSE other] :
        other \in {At("a", "o"), At("a", "p"), At("b", "o")}}

(* an edition, and others that differ from it in one respect;              *)
Edition ==
  [text |-> "T", contract |-> "C", rules |-> "R", engine |-> "E", gold |-> {"g"},
   defects |-> "D", confirmed |-> TRUE]
SomeEditions ==
  {Edition, [Edition EXCEPT !.text = "T2"], [Edition EXCEPT !.contract = "C2"],
   [Edition EXCEPT !.rules = "R2"], [Edition EXCEPT !.engine = "E2"],
   [Edition EXCEPT !.gold = {}], [Edition EXCEPT !.gold = {"g", "h"}],
   [Edition EXCEPT !.defects = "D2"], [Edition EXCEPT !.confirmed = FALSE]}

(* a rate and a cost, and ratios whose percentages end in a zero and begin *)
(* the fraction with one.                                                  *)
SomeRatios == {<<2, 3>>, <<1, 200>>, <<1, 2000>>}
SomeKinds == [recall |-> "rate", cost |-> "cost"]

Symmetry == Permutations(Requests) \union Permutations(Suites)

-----------------------------------------------------------------------------
(* However requests on one run overlap, fail or end with the process, a    *)
(* record that can be read (store.py) shows evidence of the policy and the *)
(* suite it shows, a score of that evidence, and no launch of unverified   *)
(* wording.                                                                *)
RecordsAreConsistent ==
  part \in {"overlap", "serial"} =>
    /\ EngineRun!TypeOK /\ EngineRun!EvidenceIsCurrent
    /\ EngineRun!CompletedIsScored /\ EngineRun!RevisedIsNotLaunched

(* While requests do not overlap nothing is lost: what a save replaces is  *)
(* in the history it writes, and what was in the history stays there       *)
(* (_archive_evidence); and what was recorded or published once of a       *)
(* benchmark is not replaced by a later attempt (_reserve, _publish,       *)
(* _rename_no_replace).                                                    *)
NothingIsForgotten ==
  [][/\ part = "serial" => EngineRun!Archives /\ EngineRun!Retains
     /\ part = "blind" => Blind!Replaces
     /\ part = "gold" => Gold!Replaces]_vars

(* The designer (fuzz.py) and the grader (evaluate.py) read conditions the *)
(* same way, and a plan visits rules and kinds evenly.                     *)
ProbesAreSound ==
  /\ part = "rule" =>
       /\ OneRule!ProbesMeetTheirRule /\ OneRule!ProhibitedIsCaught
       /\ OneRule!ExceptionIsTried /\ OneRule!NormalIsNoViolation
  /\ part = "plan" => OnePlan!PlanIsFair

(* The planner finds a test for all that can be tested, on both sides of   *)
(* each threshold (synthesis.py), and its suite judges every scenario by   *)
(* exactly the confirmed invariants that apply, accounts for everything it *)
(* leaves out and leaves nothing uncovered but for its budget (planner.py, *)
(* canonicalize.py).                                                       *)
SuitesAreHonest ==
  /\ part = "search" =>
       Search!TypeOK /\ Search!WitnessIsFound /\ Search!BothSidesAreTried
  /\ part = "suite" =>
       /\ Planner!TypeOK /\ Planner!EveryScenarioIsJudged
       /\ Planner!NothingIsLost /\ Planner!OnlyTheBudgetLeavesGaps
=============================================================================
