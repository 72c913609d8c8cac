---------------------------- MODULE GoldAssessment ----------------------------
(***************************************************************************)
(* Assessments of recorded runs against a revealed benchmark               *)
(* (features/evaluation/gold_assessment.py, assess_gold): the record, its  *)
(* metadata, the seal and the members must belong together; score and      *)
(* provenance are published as one new directory.  Assessors run side by   *)
(* side towards one output; each may fail or die at any point.             *)
(***************************************************************************)
EXTENDS FiniteSets

CONSTANTS Assessors, Candidates, Engines,
          EngineNow,      \* the engine of the program that assesses
          None

VARIABLES
  given,       \* what an assessor is given
  pc,
  temporary,   \* the files of the assessors' temporary directories; None: no directory
  output       \* None or the directory at the output: [by, files]
vars == <<given, pc, temporary, output>>

Names == {"score", "provenance"}

(* A recorded run with its metadata, a seal and revealed members.  The      *)
(* evaluation in the record may be of another engine than the record names, *)
(* or not be what the engine computes.                                      *)
Inputs ==
  [complete : BOOLEAN, error : BOOLEAN, mine : BOOLEAN, candidate : Candidates,
   seal : Candidates, revealed : Candidates, engine : Engines, evaluated : Engines]

(* Any input; two assessors do not differ in more than what they are for.   *)
Init ==
  /\ given \in {[a \in Assessors |-> i] : i \in Inputs}
  /\ pc = [a \in Assessors |-> "bind"]
  /\ temporary = [a \in Assessors |-> None] /\ output = None

Goto(a, l) == pc' = [pc EXCEPT ![a] = l]

(* Faulty variant: the seal need not be the one of the recorded candidate. *)
BoundToAnySeal(i) == ~i.error /\ i.mine /\ i.engine = EngineNow

(* The record's metadata, its seal and its engine. *)
Bound(i) ==
  /\ ~i.error /\ i.mine                   \* metadata of this record, without an error
  /\ i.seal = i.candidate                 \* the seal that the recorder was given
  /\ i.engine = EngineNow

Bind(a) ==
  /\ pc[a] = "bind" /\ Goto(a, IF Bound(given[a]) THEN "reveal" ELSE "failed")
  /\ UNCHANGED <<given, temporary, output>>

(* `validate_revealed_benchmark`, the captured policy's source, a complete  *)
(* stage, and a replay of the recorded evaluation and findings.             *)
Reveal(a) ==
  /\ pc[a] = "reveal"
  /\ LET i == given[a]
     IN Goto(a, IF i.revealed = i.seal /\ i.complete /\ i.evaluated = EngineNow
                THEN "score" ELSE "failed")
  /\ UNCHANGED <<given, temporary, output>>

(* The captured policy is evaluated on the gold suite and scored; then the  *)
(* output must not exist, and a temporary directory is made beside it.      *)
Score(a) ==
  /\ pc[a] = "score"
  /\ \/ output # None /\ Goto(a, "failed") /\ UNCHANGED temporary
     \/ output = None /\ Goto(a, "write") /\ temporary' = [temporary EXCEPT ![a] = {}]
     \/ Goto(a, "failed") /\ UNCHANGED temporary
  /\ UNCHANGED <<given, output>>

(* `_publish_pair`: the two files, in order, made durable. *)
Write(a) ==
  /\ pc[a] = "write"
  /\ \/ /\ "score" \notin temporary[a] /\ UNCHANGED pc
        /\ temporary' = [temporary EXCEPT ![a] = {"score"}]
     \/ /\ "score" \in temporary[a] /\ Goto(a, "rename")
        /\ temporary' = [temporary EXCEPT ![a] = Names]
     \/ Goto(a, "cleanup") /\ UNCHANGED temporary
  /\ UNCHANGED <<given, output>>

(* Faulty variant: the directory replaces what is there. *)
RenameOver(a) ==
  /\ pc[a] = "rename"
  /\ output' = [by |-> a, files |-> temporary[a]]
  /\ temporary' = [temporary EXCEPT ![a] = None] /\ Goto(a, "sync")
  /\ UNCHANGED given

(* `_rename_no_replace`: exclusive, and not supported everywhere. *)
Rename(a) ==
  /\ pc[a] = "rename"
  /\ \/ /\ output = None /\ output' = [by |-> a, files |-> temporary[a]]
        /\ temporary' = [temporary EXCEPT ![a] = None] /\ Goto(a, "sync")
     \/ Goto(a, "cleanup") /\ UNCHANGED <<output, temporary>>
  /\ UNCHANGED given

(* The parent directory is made durable; a failure is reported although the *)
(* output is there.                                                         *)
Sync(a) ==
  /\ pc[a] = "sync" /\ \E l \in {"published", "cleanup"} : Goto(a, l)
  /\ UNCHANGED <<given, temporary, output>>

Cleanup(a) ==
  /\ pc[a] = "cleanup" /\ temporary' = [temporary EXCEPT ![a] = None] /\ Goto(a, "failed")
  /\ UNCHANGED <<given, output>>

Crash(a) ==
  /\ pc[a] \notin {"failed", "published", "dead"} /\ Goto(a, "dead")
  /\ UNCHANGED <<given, temporary, output>>

Next == \E a \in Assessors : Bind(a) \/ Reveal(a) \/ Score(a) \/ Write(a) \/ Rename(a)
                               \/ Sync(a) \/ Cleanup(a) \/ Crash(a)

Spec == Init /\ [][Next]_vars

-----------------------------------------------------------------------------
TypeOK ==
  /\ \A a \in Assessors : temporary[a] # None => temporary[a] \subseteq Names
  /\ output # None => output.by \in Assessors

(* Whoever looks at the output, at whatever moment, finds both files of one *)
(* assessment, which was of a complete run without error, on its own sealed *)
(* candidate, judged and replayed by one engine; and who reports success    *)
(* finds its own.                                                           *)
OutputIsOneAssessment ==
  /\ output # None =>
       LET i == given[output.by]
       IN /\ output.files = Names /\ i.complete /\ ~i.error /\ i.mine
          /\ i.seal = i.candidate /\ i.revealed = i.candidate
          /\ i.engine = EngineNow /\ i.evaluated = EngineNow
  /\ \A a \in Assessors : pc[a] = "published" => output # None /\ output.by = a

(* A failure leaves nothing beside the output.                              *)
FailureIsClean == \A a \in Assessors : pc[a] = "failed" => temporary[a] = None

(* A published assessment is never replaced.                                *)
Replaces == output # None => output' = output
NothingIsReplaced == [][Replaces]_vars
=============================================================================
