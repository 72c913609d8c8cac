------------------------------ MODULE GoldScore ------------------------------
(***************************************************************************)
(* The score of a finding report against a benchmark                       *)
(* (features/evaluation/benchmark.py): evidence that does not fit together *)
(* is refused, the rest is matched one to one with augmenting paths, and   *)
(* whole percentages are rounded half up.                                  *)
(***************************************************************************)
EXTENDS Integers, Sequences, FiniteSets, FiniteSetsExt

CONSTANTS Scenarios,      \* the gold scenarios
          Prints,         \* fingerprints of root causes
          MaxDefects, MaxFindings

VARIABLES defects,    \* sequence of [print, target, witnesses]
          findings,   \* sequence of [print, target, witnesses, candidate]
          traced,     \* the witnesses' traces are those of the evaluation
          phase,      \* "given", "refused", "scored"
          score       \* [tp, fp, fn, precision, recall, f1]
vars == <<defects, findings, traced, phase, score>>

Targets == {"rule", "invariant"}
Defects  == [print : Prints, target : Targets, witnesses : SUBSET Scenarios]
Findings == [print : Prints, target : Targets, witnesses : (SUBSET Scenarios) \ {{}},
             candidate : BOOLEAN]
Seqs(S, n) == UNION {[1..k -> S] : k \in 0..n}

(* Faulty variant: percentages are cut off. *)
PercentDown(numerator, denominator) ==
  IF denominator = 0 THEN -1 ELSE (numerator * 100) \div denominator

(* `_percent`: None, which is -1 here, when there is nothing to divide by. *)
Percent(numerator, denominator) ==
  IF denominator = 0 THEN -1
  ELSE (numerator * 100 + denominator \div 2) \div denominator

(* `_validate_evidence`, as far as the values of defects and findings go. *)
Valid ==
  /\ traced
  /\ \A i, j \in DOMAIN findings : findings[i].print = findings[j].print => i = j

(* `_is_scored` *)
Scored == {k \in DOMAIN findings : ~findings[k].candidate}

(* `_matches` *)
Matches(d, k) ==
  /\ defects[d].target = findings[k].target /\ defects[d].print = findings[k].print
  /\ defects[d].witnesses \cap findings[k].witnesses # {}

-----------------------------------------------------------------------------
(* `_maximum_matching`: `assign` looks for a finding for a defect, in order, *)
(* and moves the defect that holds it, if that one finds another.  `holder`  *)
(* is matched_findings, with 0 for a finding that nobody holds.              *)
Holders == [DOMAIN findings -> Nat]
Assign[d \in Nat, k \in Nat, visited \in SUBSET Nat, holder \in Holders] ==
  IF k > Len(findings) THEN [found |-> FALSE, visited |-> visited, holder |-> holder]
  ELSE IF k \in visited \/ k \notin Scored \/ ~Matches(d, k) THEN Assign[d, k + 1, visited, holder]
  ELSE IF holder[k] = 0
       THEN [found |-> TRUE, visited |-> visited \cup {k}, holder |-> [holder EXCEPT ![k] = d]]
       ELSE LET moved == Assign[holder[k], 1, visited \cup {k}, holder]
            IN IF moved.found THEN [moved EXCEPT !.holder[k] = d]
               ELSE Assign[d, k + 1, moved.visited, moved.holder]

MatchedFrom[d \in Nat, holder \in Holders] ==
  IF d > Len(defects) THEN 0
  ELSE LET step == Assign[d, 1, {}, holder]
       IN (IF step.found THEN 1 ELSE 0) + MatchedFrom[d + 1, step.holder]

MaximumMatching == MatchedFrom[1, [k \in DOMAIN findings |-> 0]]

(* `score_benchmark` *)
Score ==
  LET tp == MaximumMatching
      fp == Cardinality(Scored) - tp
      fn == Len(defects) - tp
  IN [tp |-> tp, fp |-> fp, fn |-> fn, precision |-> Percent(tp, tp + fp),
      recall |-> Percent(tp, tp + fn), f1 |-> Percent(2 * tp, 2 * tp + fp + fn)]

(* Untraced evidence is refused whatever it holds. *)
Init ==
  /\ defects \in Seqs(Defects, MaxDefects) /\ findings \in Seqs(Findings, MaxFindings)
  /\ traced \in BOOLEAN /\ (traced \/ defects = <<>>) /\ phase = "given"
  /\ score = [tp |-> 0, fp |-> 0, fn |-> 0, precision |-> -1, recall |-> -1, f1 |-> -1]

ScoreBenchmark ==
  /\ phase = "given"
  /\ IF Valid THEN phase' = "scored" /\ score' = Score
     ELSE phase' = "refused" /\ UNCHANGED score
  /\ UNCHANGED <<defects, findings, traced>>

Next == ScoreBenchmark

Spec == Init /\ [][Next]_vars

-----------------------------------------------------------------------------
(* The pairings of defects and findings, one to one. *)
Pairings ==
  {M \in SUBSET {p \in (DOMAIN defects) \X Scored : Matches(p[1], p[2])} :
     \A p, q \in M : (p[1] = q[1] \/ p[2] = q[2]) => p = q}

Near(percent, numerator, denominator) ==
  IF denominator = 0 THEN percent = -1
  ELSE /\ percent \in 0..100
       /\ 2 * (percent * denominator - 100 * numerator) \in (1 - denominator)..denominator

(* The score counts a largest pairing, in whatever order defects and        *)
(* findings come, and its percentages are rounded once: f1 lies between     *)
(* precision and recall.                                                    *)
ScoreIsBest ==
  phase = "scored" =>
    /\ score.tp = Max({Cardinality(M) : M \in Pairings})
    /\ score.tp + score.fp = Cardinality(Scored) /\ score.tp + score.fn = Len(defects)
    /\ Near(score.precision, score.tp, Cardinality(Scored))
    /\ Near(score.recall, score.tp, Len(defects))
    /\ Near(score.f1, 2 * score.tp, 2 * score.tp + score.fp + score.fn)
    /\ score.precision >= 0 /\ score.recall >= 0 =>
         /\ Min({score.precision, score.recall}) <= score.f1
         /\ score.f1 <= Max({score.precision, score.recall})
=============================================================================
