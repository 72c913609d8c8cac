--------------------------- MODULE MCRevisionGate ---------------------------
(* Small policies, suites and drafts for TLC. *)
EXTENDS RevisionGate

Foreign  == <<"foreign", TRUE>>
Local    == <<"foreign", FALSE>>
Receipt  == <<"receipt_present", TRUE>>
NoReceipt == <<"receipt_present", FALSE>>

Says(e, r) == [eligibility |-> e, receipt_requirement |-> r]
Draft(when, effects, overrides) == [when |-> when, effects |-> effects, overrides |-> overrides]
Text(draft) == [when |-> draft.when, effects |-> draft.effects, overrides |-> draft.overrides,
                revision |-> 0, origin |-> "text"]

Assertion(id, kind, d, expected, origin) ==
    [id |-> id, kind |-> kind, dimension |-> d, expected |-> expected, origin |-> origin]
Scenario(foreign, receipt, protected, holdout, assertions) ==
    [facts |-> [f \in {"foreign", "receipt_present"} |->
                  IF f = "foreign" THEN foreign ELSE receipt],
     protected |-> protected, holdout |-> holdout, assertions |-> assertions]

IntentReceipt ==
    {[when |-> {Foreign},
      assertion |-> Assertion("i1", "effect_value", "receipt_requirement", "required", "i1")]}

FourScenarios ==
    [s \in {"s1", "s2", "s3", "s4"} |->
       CASE s = "s1" -> Scenario(TRUE, FALSE, FALSE, FALSE, {})
         [] s = "s2" -> Scenario(TRUE, TRUE, TRUE, FALSE,
                          {Assertion("a1", "effect_value", "eligibility", "allow", NoOrigin)})
         [] s = "s3" -> Scenario(FALSE, TRUE, FALSE, TRUE,
                          {Assertion("a1", "effect_value", "eligibility", "allow", NoOrigin)})
         [] s = "s4" -> Scenario(FALSE, FALSE, FALSE, FALSE,
                          {Assertion("a2", "effect_value", "eligibility", "deny", NoOrigin)})]

Effects == {Says("allow", Unset), Says("deny", Unset), Says(Unset, "required"),
            Says("allow", "required"), Says("deny", "not_required")}

(* Only s4 is left without a value. *)
OneGap ==
    {[r \in {"r1", "r2"} |->
        Text(Draft(IF r = "r1" THEN {Foreign} ELSE {Receipt}, Says("allow", Unset), {}))]}

(* Two rules that contradict each other abroad. *)
OneConflict ==
    {[r \in {"r1", "r2"} |->
        Text(Draft({Foreign}, IF r = "r1" THEN Says("allow", "required")
                              ELSE Says("deny", "not_required"), {}))]}

TwoRules ==
    {[r \in {"r1", "r2"} |-> IF r = "r1" THEN Text(Draft(w1, e1, o1)) ELSE Text(Draft(w2, e2, {}))] :
       w1 \in {{}, {Foreign}}, w2 \in {{Foreign}, {Local}},
       e1 \in Effects \ {Says("deny", Unset)}, e2 \in Effects \ {Says(Unset, "required")},
       o1 \in {{}, {<<"eligibility", "r2">>}}}
      \cup OneGap

SomeDrafts ==
    {Draft(w, e, {}) : w \in {{Foreign}, {Local}}, e \in Effects}
      \cup {Draft({}, Says("allow", Unset), {}),
            Draft({Local, NoReceipt}, Says("deny", Unset), {}),
            Draft({NoReceipt}, Says("deny", Unset), {}),
            Draft({Foreign}, Says("allow", Unset), {<<"eligibility", "r2">>})}

OneClause == {[id |-> "c1", dimensions |-> {"receipt_requirement"}, hinted |-> TRUE,
               hint |-> {Local, NoReceipt}]}

(* Three rules of one dimension, any of which may override any other. *)
Triangles ==
    {[r \in {"r1", "r2", "r3"} |->
        Text(Draft(w[r], Says(e[r], Unset), {<<"eligibility", t>> : t \in o[r]}))] :
       w \in [{"r1", "r2", "r3"} -> {{}, {Foreign}}],
       e \in [{"r1", "r2", "r3"} -> {"allow", "deny"}],
       o \in [{"r1", "r2", "r3"} -> SUBSET {"r1", "r2", "r3"}]}
=============================================================================
