----------------------------- MODULE PolicyDrafts -----------------------------
(***************************************************************************)
(* From a model's proposal to a compiled policy                            *)
(* (features/policy/extraction.py, citations.py, compiler.py): references  *)
(* between rules are resolved and rewritten, rules with invalid citations  *)
(* or over the limit become unsupported clauses, rules that override one   *)
(* of those follow, and the rest get identifiers.  A proposal of a model   *)
(* names rules by handles and citations by catalog; one that a caller      *)
(* brings names them by citation or meaning.                               *)
(***************************************************************************)
EXTENDS Naturals, Sequences, FiniteSets

CONSTANTS Bodies,     \* [meaning, dims, cited]: conditions and effects at a source span,
                      \* the dimensions of the effects, whether the span is verified
          Cites,      \* citation identifiers
          MaxDrafts,  \* bound: rules proposed
          MaxRules    \* MAX_BASELINE_RULES

VARIABLES
  proposed,   \* history: the rules proposed
  path,       \* "model" or "caller"
  drafts,     \* sequence of [body, cite, overrides], and its place in the proposal
  clauses,    \* sequence of [id, of]: unsupported clauses and the proposal's rule, 0 for others
  rules,      \* the compiled rules: [id, of, overrides]
  pc          \* "wire", "public", "extracted", "validated", "compiled", "refused"
vars == <<proposed, path, drafts, clauses, rules, pc>>

Dims == UNION {b.dims : b \in Bodies}
Handles == 0..MaxDrafts                         \* 0 is the handle of no rule
Names(p) ==
  IF p = "model" THEN {<<"handle", h>> : h \in Handles}
  ELSE {<<"cite", c>> : c \in Cites} \cup {<<"base", b>> : b \in Bodies}
Edges(p) == {{}} \cup {{[dim |-> d, target |-> t]} : d \in Dims, t \in Names(p)}
Proposals(p) ==
  {[body |-> b, cite |-> c, overrides |-> o] :
     b \in {b \in Bodies : p = "model" => b.cited}, c \in Cites, o \in Edges(p)}
WellFormed(r) == \A e \in r.overrides : e.dim \in r.body.dims

(* A clause that the proposal itself lists may have any name.               *)
Init ==
  /\ path \in {"model", "caller"}
  /\ \E n \in 1..MaxDrafts :
       proposed \in [1..n -> {r \in Proposals(path) : WellFormed(r)}]
  /\ drafts = [i \in DOMAIN proposed |->
                 [body |-> proposed[i].body, cite |-> proposed[i].cite,
                  overrides |-> proposed[i].overrides, of |-> i]]
  /\ clauses \in {<<>>, <<[id |-> <<"unsupported-logic", MaxDrafts, 1>>, of |-> 0]>>}
  /\ rules = {} /\ pc = IF path = "model" THEN "wire" ELSE "public"

-----------------------------------------------------------------------------
(* `_rule_aliases`: the rules that a name may mean; among a model's rules   *)
(* only handles are names.                                                  *)
Matches(name, s, wire) ==
  {i \in DOMAIN s : IF wire THEN name = <<"handle", s[i].of>>
                    ELSE name \in {<<"cite", s[i].cite>>, <<"base", s[i].body>>}}

(* `_resolve_rule_references`: every reference means one rule, about a      *)
(* dimension that both decide, and no rule overrides itself in a circle.    *)
Targets(s, wire, i) == UNION {Matches(e.target, s, wire) : e \in s[i].overrides}
Resolves(s, wire) ==
  /\ \A i \in DOMAIN s : \A e \in s[i].overrides :
       LET found == Matches(e.target, s, wire)
       IN /\ Cardinality(found) = 1
          /\ e.dim \in s[i].body.dims /\ \A t \in found : e.dim \in s[t].body.dims
  /\ ~\E C \in (SUBSET DOMAIN s) \ {{}} : \A i \in C : Targets(s, wire, i) \cap C # {}

(* `_rewrite_override_references`: names become meanings. *)
Rewritten(s, wire) ==
  [i \in DOMAIN s |->
     [s[i] EXCEPT !.overrides =
        {[dim |-> e.dim,
          target |-> <<"base", s[CHOOSE t \in Matches(e.target, s, wire) : TRUE].body>>] :
           e \in s[i].overrides}]]

(* `_model_extraction_to_public` *)
Expand ==
  /\ pc = "wire"
  /\ IF Resolves(drafts, TRUE)
     THEN drafts' = Rewritten(drafts, TRUE) /\ pc' = "extracted"
     ELSE pc' = "refused" /\ UNCHANGED drafts
  /\ UNCHANGED <<proposed, path, clauses, rules>>

-----------------------------------------------------------------------------
(* Faulty variant: a clause's name is not checked against the others. *)
NamedByIndex(reason, index, taken) == <<reason, index, 1>>

(* `_invalid_citation_clause`, `_unsupported_logic_clause`: a name that is  *)
(* free, with the first suffix that makes it so.                            *)
Named(reason, index, taken) ==
  <<reason, index, CHOOSE n \in 1..(Cardinality(taken) + 1) :
                     /\ <<reason, index, n>> \notin taken
                     /\ \A k \in 1..(n - 1) : <<reason, index, k>> \in taken>>

(* The members of a finite set of numbers in ascending order.               *)
Ascending(S) ==
  CHOOSE f \in [1..Cardinality(S) -> S] : \A i, j \in DOMAIN f : i < j => f[i] < f[j]

(* The clauses for the drafts at these places, in order.  A name carries    *)
(* the place, so none of these clauses can take the name of another.        *)
WithClauses(cs, reason, s, places) ==
  LET order == Ascending(places)
      taken == {cs[k].id : k \in DOMAIN cs}
  IN cs \o [k \in DOMAIN order |->
              [id |-> Named(reason, order[k], taken), of |-> s[order[k]].of]]

(* The rules at these places that override one at none of them.             *)
Dangling(s, places) ==
  LET available == {<<"base", s[i].body>> : i \in places}
  IN {i \in places : \E e \in s[i].overrides : e.target \notin available}

Drop(s, left) ==
  [places |-> left.places \ Dangling(s, left.places),
   clauses |-> WithClauses(left.clauses, "unsupported-logic", s, Dangling(s, left.places))]

(* Faulty variant: one look for dangling overrides is taken to be enough. *)
CloseOnce(s, places, cs) == Drop(s, [places |-> places, clauses |-> cs])

(* `_close_override_dependencies`: whoever overrides a rule that is gone    *)
(* goes as well, until nobody does, which takes a round for each at most.   *)
Close(s, places, cs) ==
  LET after[n \in 0..Len(s)] ==
        IF n = 0 THEN [places |-> places, clauses |-> cs] ELSE Drop(s, after[n - 1])
  IN after[Len(s)]

(* `validate_policy_extraction`: citations first, then the limit, in order, *)
(* then what the overrides entail.                                          *)
Validated(s) ==
  LET t == Rewritten(s, FALSE)
      cited == {i \in DOMAIN t : t[i].body.cited}
      within == {i \in cited : Cardinality({j \in cited : j <= i}) <= MaxRules}
      withInvalid == WithClauses(clauses, "invalid-citation", t, DOMAIN t \ cited)
      closed == Close(t, within, WithClauses(withInvalid, "unsupported-logic", t, cited \ within))
      kept == Ascending(closed.places)
  IN [drafts |-> [k \in DOMAIN kept |-> t[kept[k]]], clauses |-> closed.clauses]

(* A model's proposal is validated in `extract_policy`, and once more, like *)
(* a caller's, in `compile_baseline_policy`.                                *)
Validate ==
  /\ pc \in {"extracted", "public"}
  /\ IF Resolves(drafts, FALSE)
     THEN LET v == Validated(drafts)
          IN /\ drafts' = v.drafts /\ clauses' = v.clauses
             /\ pc' = IF pc = "extracted" THEN "public" ELSE "validated"
     ELSE pc' = "refused" /\ UNCHANGED <<drafts, clauses>>
  /\ UNCHANGED <<proposed, path, rules>>

-----------------------------------------------------------------------------
Signature(r) == <<r.body, r.overrides>>

(* `assign_baseline_rule_ids`: an identifier is a rule's meaning with those *)
(* of what it overrides; two rules of one identifier are refused.           *)
Compile ==
  /\ pc = "validated"
  /\ IF Resolves(drafts, FALSE)
          /\ \A i, j \in DOMAIN drafts : Signature(drafts[i]) = Signature(drafts[j]) => i = j
     THEN /\ pc' = "compiled"
          /\ rules' = {[id |-> Signature(drafts[i]), of |-> drafts[i].of, dims |-> drafts[i].body.dims,
                        overrides |->
                          {[dim |-> e.dim,
                            target |-> Signature(drafts[CHOOSE t \in Matches(e.target, drafts, FALSE) :
                                                          TRUE])] : e \in drafts[i].overrides}] :
                       i \in DOMAIN drafts}
     ELSE pc' = "refused" /\ UNCHANGED rules
  /\ UNCHANGED <<proposed, path, drafts, clauses>>

Next == Expand \/ Validate \/ Compile

Spec == Init /\ [][Next]_vars

-----------------------------------------------------------------------------
TypeOK ==
  /\ pc \in {"wire", "public", "extracted", "validated", "compiled", "refused"}
  /\ {drafts[i].of : i \in DOMAIN drafts} \subseteq DOMAIN proposed

(* PolicyIR.valid_rule_set, which the compiled policy has to satisfy.       *)
ValidRuleSet ==
  /\ Cardinality({r.id : r \in rules}) = Cardinality(rules) /\ Cardinality(rules) <= MaxRules
  /\ \A r \in rules : \A e \in r.overrides :
       \E t \in rules : t.id = e.target /\ e.dim \in t.dims
  /\ ~\E C \in (SUBSET rules) \ {{}} : \A r \in C : \E e \in r.overrides, t \in C : t.id = e.target

(* Unless a proposal is refused as a whole, none of its rules is lost: each *)
(* is a rule of the policy or an unsupported clause with a name of its own, *)
(* and the policy is valid.  What validation leaves stands on its own: no   *)
(* override of it dangles, and a second look takes nothing more away; only  *)
(* a proposal with two rules of one meaning may still be refused.           *)
DraftsAreKept ==
  /\ pc # "refused" =>
       /\ {drafts[i].of : i \in DOMAIN drafts} \cup ({clauses[k].of : k \in DOMAIN clauses} \ {0})
            = DOMAIN proposed
       /\ Cardinality({clauses[k].id : k \in DOMAIN clauses}) = Len(clauses)
       /\ Len(drafts) + Cardinality({k \in DOMAIN clauses : clauses[k].of # 0}) = Len(proposed)
  /\ pc = "compiled" =>
       /\ ValidRuleSet
       /\ {r.of : r \in rules} = {drafts[i].of : i \in DOMAIN drafts}
  /\ pc = "validated" =>
       \/ \E i, j \in DOMAIN proposed : i # j /\ proposed[i].body = proposed[j].body
       \/ /\ Resolves(drafts, FALSE)
          /\ Validated(drafts) = [drafts |-> drafts, clauses |-> clauses]
=============================================================================
