---------------------------- MODULE LanguageRoster ----------------------------
(***************************************************************************)
(* The roster of a Sandbox request (v2/sandbox/language.py): personas are  *)
(* asked for in batches, each batch checked and reviewed, an unsuitable    *)
(* one repaired with its reason, and a call that failed in passing made    *)
(* once more if the provider does not ask for too long a pause.            *)
(***************************************************************************)
EXTENDS Naturals, Sequences, FiniteSets, SequencesExt

CONSTANTS Names,          \* display names, stripped and folded
          Count,          \* the personas requested
          BatchSize,      \* at most so many at once, 5 in the code
          MaxRepairs,
          MaxWait         \* the longest pause, min(60, timeout); pauses are 0..MaxWait+1

VARIABLES
  people,     \* the names accepted
  attempt,    \* repairs of the batch under way
  asked,      \* "roster" or "review"
  again,      \* the second call of an ask
  batch,      \* the names proposed
  pc,         \* "ask", "judge", "sleep", "roster", "raised"
  answer,     \* the provider's answer
  code,       \* the error of the last batch or call
  calls       \* history: calls for the batch under way
vars == <<people, attempt, asked, again, batch, pc, answer, code, calls>>

Passing   == {"provider_timeout", "provider_connection", "provider_rate_limit",
              "provider_unavailable"}
Lasting   == {"provider_quota", "provider_authentication", "provider_refusal"}
Unusable  == {"provider_invalid_output", "provider_incomplete"}
Repairs   == Unusable \cup {"roster_count", "roster_duplicate", "roster_english_review",
                            "roster_seed_review"}
Size == IF Count - Len(people) < BatchSize THEN Count - Len(people) ELSE BatchSize
Proposals == UNION {[1..n -> Names] : n \in 1..(BatchSize + 1)}

Init ==
  /\ people = <<>> /\ attempt = 0 /\ asked = "roster" /\ again = FALSE /\ batch = <<>>
  /\ pc = "ask" /\ answer = "none" /\ code = "none" /\ calls = 0

-----------------------------------------------------------------------------
(* `_ask_once`: a roster, a review, or an error with what the provider      *)
(* says about when to come back.                                            *)
Ask ==
  /\ pc = "ask" /\ pc' = "judge" /\ calls' = calls + 1
  /\ \/ asked = "roster" /\ answer' = "roster" /\ batch' \in Proposals /\ UNCHANGED code
     \/ /\ asked = "review" /\ UNCHANGED <<batch, code>>
        /\ answer' \in {"good", "roster_english_review", "roster_seed_review"}
     \/ answer' = "error" /\ code' \in Passing \cup Lasting \cup Unusable /\ UNCHANGED batch
  /\ UNCHANGED <<people, attempt, asked, again>>

(* `personas`, an unsuitable batch: the next attempt, or the error.         *)
Unsuitable(c) ==
  /\ IF attempt = MaxRepairs \/ c \notin Repairs
     THEN pc' = "raised" /\ code' = c /\ UNCHANGED <<attempt, asked, again>>
     ELSE /\ pc' = "ask" /\ code' = "none"
          /\ attempt' = attempt + 1 /\ asked' = "roster" /\ again' = FALSE
  /\ batch' = <<>> /\ UNCHANGED <<people, calls>>

(* `_ask`, after an error: once more if it may pass and the pause is short. *)
Failed ==
  /\ pc = "judge" /\ answer = "error"
  /\ \/ ~again /\ code \in Passing
          /\ \E pause \in {0, MaxWait, MaxWait + 1} :
               IF pause > MaxWait THEN Unsuitable(code)
               ELSE pc' = "sleep" /\ UNCHANGED <<people, attempt, asked, again, batch, code, calls>>
     \/ (again \/ code \notin Passing) /\ Unsuitable(code)
  /\ UNCHANGED answer

Sleep ==
  /\ pc = "sleep" /\ pc' = "ask" /\ again' = TRUE /\ code' = "none"
  /\ UNCHANGED <<people, attempt, asked, batch, answer, calls>>

(* Faulty variant: names are compared within the batch only. *)
DistinctInBatch == Cardinality(ToSet(batch)) = Len(batch)

(* `_roster_batch`: as many as asked for, of different names, also from     *)
(* those that are in the roster already.                                    *)
Distinct == Cardinality(ToSet(batch)) = Len(batch) /\ ToSet(batch) \cap ToSet(people) = {}

Proposed ==
  /\ pc = "judge" /\ answer = "roster"
  /\ IF Len(batch) # Size THEN Unsuitable("roster_count")
     ELSE IF ~Distinct THEN Unsuitable("roster_duplicate")
     ELSE pc' = "ask" /\ asked' = "review" /\ again' = FALSE
            /\ UNCHANGED <<people, attempt, batch, code, calls>>
  /\ UNCHANGED answer

Reviewed ==
  /\ pc = "judge" /\ asked = "review" /\ answer # "error"
  /\ IF answer # "good" THEN Unsuitable(answer)
     ELSE /\ people' = people \o batch /\ asked' = "roster" /\ again' = FALSE
          /\ attempt' = 0 /\ calls' = 0 /\ batch' = <<>> /\ UNCHANGED code
          /\ pc' = IF Len(people') = Count THEN "roster" ELSE "ask"
  /\ UNCHANGED answer

Client == Ask \/ Failed \/ Sleep \/ Proposed \/ Reviewed
Next   == Client

Spec == Init /\ [][Next]_vars /\ WF_vars(Client)

-----------------------------------------------------------------------------
TypeOK ==
  /\ Len(people) <= Count /\ ToSet(people) \cup ToSet(batch) \subseteq Names
  /\ attempt \in 0..MaxRepairs /\ asked \in {"roster", "review"}

(* The roster has the personas that were asked for, of different names;     *)
(* each batch is asked for with its review at most MaxRepairs times more,   *)
(* in two calls each; who gives up had used them or had no reason to go on. *)
RosterIsWhole ==
  /\ pc = "roster" => Len(people) = Count
  /\ Cardinality(ToSet(people)) = Len(people)
  /\ calls <= 4 * (MaxRepairs + 1)
  /\ pc = "raised" => attempt = MaxRepairs \/ code \notin Repairs

RosterEnds == <>(pc \in {"roster", "raised"})
=============================================================================
