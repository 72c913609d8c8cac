----------------------------- MODULE EngineRuns -----------------------------
(***************************************************************************)
(* The engine sidecar's runs: the Coordinator (engine/app/services/        *)
(* coordinator.py) behind the routes of engine/app/api/routes.py, and the  *)
(* file store (engine/app/store.py) it reads a run from and saves it to.   *)
(*                                                                         *)
(* A request reads the record of its run once, works on that copy, and     *)
(* saves all of it several times on the way.  Nothing orders two requests  *)
(* of one run.  A save truncates run.json and then writes it.              *)
(***************************************************************************)
EXTENDS Naturals, Sequences, FiniteSets

CONSTANTS
  Requests,    \* bound: slots for requests that are handled at the same time
  Suites       \* scenario suites a caller may attach

VARIABLES
  settings, \* the engine's configuration
  disk,     \* run.json of the run
  saved,    \* history: the record of the last save that completed
  writing,  \* per request: whether it has run.json open ("mixed": another
            \* request has written to it since)
  rec,      \* each request's copy of the record
  todo,     \* each request's remaining steps
  guarded,  \* per request: the handler that saves what goes wrong, if any
  begun     \* requests handled so far, which MCPlanning bounds

vars == <<settings, disk, saved, writing, rec, todo, guarded, begun>>

Absent == [file |-> "absent"]
Torn == [file |-> "torn"]
None == "none"
Generated == "generated"  \* the suite FuzzDesigner makes for this run

(* A copy of the record.  Evidence carries what it is evidence of.         *)
NewRecord ==
  [file |-> "whole", status |-> "pending", ir |-> 0, suite |-> None,
   eval |-> <<>>, eff |-> <<>>, swarm |-> <<>>, launch |-> "none",
   history |-> {}]

(* RunStore.get finds a record it can parse.                               *)
Readable(d) == d.file = "whole"

(* capture: run_swarm is configured (a base URL); launch, swarm: the       *)
(* engine launches or runs the swarm by itself.                            *)
Init ==
  /\ settings \in [capture : BOOLEAN, launch : BOOLEAN, swarm : BOOLEAN]
  /\ disk = Absent /\ saved = Absent
  /\ writing = [r \in Requests |-> "no"]
  /\ rec = [r \in Requests |-> NewRecord]
  /\ todo = [r \in Requests |-> <<>>]
  /\ guarded = [r \in Requests |-> "no"]
  /\ begun = 0

-----------------------------------------------------------------------------
(* The routes.  An upper-case step works on the copy, "save" saves it and  *)
(* a status is touch(status) followed by a save.                           *)

Statuses == {"ingesting", "extracting", "compiling", "generating_scenarios",
             "evaluating", "rehearsing"}

CreateSteps ==
  <<"save", "ingesting", "INGEST", "extracting", "EXTRACT", "compiling",
    "generating_scenarios", "GENERATE", "PACK", "EVALUATE", "SCORE">> \o
  (IF settings.swarm /\ settings.capture THEN <<"SWARM">>
   ELSE IF settings.launch THEN <<"LAUNCH", "SCORE">> ELSE <<>>) \o
  <<"save">>

AttachSteps ==
  <<IF settings.launch THEN "LAUNCH" ELSE "PACK", "EVALUATE", "SCORE", "save">>

RehearseSteps(swarm) ==
  <<"rehearsing", "SUITE", "PACK", "EVALUATE",
    IF ~swarm THEN "SCORE" ELSE IF settings.capture THEN "SWARM" ELSE "UNSWARMED",
    "save">>

(* Faulty variant: the history starts anew.                                *)
Overwritten(c) ==
  [c EXCEPT !.history = {[ir |-> c.ir, suite |-> c.suite, eval |-> c.eval,
                          eff |-> c.eff, swarm |-> c.swarm]},
            !.swarm = <<>>]
(* Coordinator._archive_evidence: history gets the evidence, and what the  *)
(* swarm said is no longer active.                                         *)
Archived(c) ==
  [c EXCEPT !.history = @ \union {[ir |-> c.ir, suite |-> c.suite, eval |-> c.eval,
                                   eff |-> c.eff, swarm |-> c.swarm]},
            !.swarm = <<>>]

(* Faulty variant: the revised wording is launched too.                    *)
PacksAnyRevision(c, launch) ==
  LET Found == IF ~launch THEN {"none"}
               ELSE IF settings.capture THEN {"ok", "failed"} ELSE {"failed"}
  IN {[c EXCEPT !.launch = l] : l \in Found}
(* _attach_mirofish: the launch states a new pack may come with.           *)
Packs(c, launch) ==
  LET Found == IF c.ir > 1 THEN {"unverified"}
               ELSE IF ~launch THEN {"none"}
               ELSE IF settings.capture THEN {"ok", "failed"} ELSE {"failed"}
  IN {[c EXCEPT !.launch = l] : l \in Found}

Graded(c) == [c EXCEPT !.eval = <<c.ir, c.suite>>]
(* _score                                                                  *)
Scored(c) == [c EXCEPT !.eff = <<c.eval, c.swarm>>, !.status = "completed"]

(* attach_suite and revise work on the copy before they save anything.     *)
WithSuite(c, s) == [Archived(c) EXCEPT !.suite = s, !.eval = <<>>, !.eff = <<>>]
Revised(c) ==
  LET next == [Archived(c) EXCEPT !.ir = @ + 1, !.eff = <<>>]
  IN {Scored(p) : p \in Packs(Graded(next), FALSE)}

(* A request takes the copy c and the steps.                               *)
Takes(r, c, steps, guard) ==
  /\ rec' = [rec EXCEPT ![r] = c]
  /\ todo' = [todo EXCEPT ![r] = steps]
  /\ guarded' = [guarded EXCEPT ![r] = guard]

(* create_run is a coroutine that never awaits: nothing is taken meanwhile. *)
Creating == \E q \in Requests : guarded[q] = "create" /\ todo[q] # <<>>

Begin(r) ==
  /\ todo[r] = <<>> /\ ~Creating
  /\ begun' = begun + 1
  /\ \/ /\ disk = Absent
        /\ Takes(r, NewRecord, CreateSteps, "create")
     \/ /\ Readable(disk) /\ disk.ir > 0
        /\ \/ \E swarm \in BOOLEAN : Takes(r, disk, RehearseSteps(swarm), "no")
           \/ \E s \in Suites : Takes(r, WithSuite(disk, s), AttachSteps, "no")
           \/ \E s \in {"PACK", "LAUNCH"} : Takes(r, disk, <<s, "save">>, "no")
           \/ Takes(r, disk, <<"extracting", "REVISE", "save">>, "revise")
  /\ UNCHANGED <<settings, disk, saved, writing>>

-----------------------------------------------------------------------------
(* RunStore.save                                                           *)

Step(r) == IF todo[r] = <<>> THEN "done" ELSE Head(todo[r])

(* The copy takes the status; the file is opened, which empties it.        *)
OpenFile(r) ==
  /\ Step(r) \in Statuses \union {"save"} /\ writing[r] = "no"
  /\ rec' = [rec EXCEPT ![r].status = IF Step(r) = "save" THEN @ ELSE Step(r)]
  /\ writing' = [writing EXCEPT ![r] = "open"]
  /\ disk' = Torn
  /\ UNCHANGED <<settings, saved, todo, guarded, begun>>

(* The text is written over what another request may have written since.   *)
WriteFile(r) ==
  /\ writing[r] # "no"
  /\ writing' = [q \in Requests |-> IF q = r THEN "no"
                                   ELSE IF writing[q] = "open" THEN "mixed"
                                   ELSE writing[q]]
  /\ disk' \in {rec[r]} \union (IF writing[r] = "mixed" THEN {Torn} ELSE {})
  /\ saved' = rec[r]
  /\ todo' = [todo EXCEPT ![r] = Tail(@)]
  /\ UNCHANGED <<settings, rec, guarded, begun>>

-----------------------------------------------------------------------------
(* The steps on the copy: what each may leave, and the steps it inserts.   *)

Leave(cs, steps) == {[c |-> c, next |-> steps] : c \in cs}

(* _run_swarm, up to the call of run_swarm.                                *)
SwarmStarts(c) ==
  LET a == IF c.swarm = <<>> THEN c ELSE Archived(c)
  IN UNION {Leave({p}, IF p.launch = "unverified" THEN <<"SCORE">>
                      ELSE <<"rehearsing", "CAPTURE", "SCORE">>) : p \in Packs(a, FALSE)}

Outcomes(step, c) ==
  CASE step = "INGEST"   -> Leave({c}, <<>>)
    [] step = "EXTRACT"  -> Leave({[c EXCEPT !.ir = 1]}, <<>>)
    [] step = "SUITE"    -> Leave({c}, IF c.suite # None THEN <<>>
                                      ELSE <<"generating_scenarios", "GENERATE">>)
    [] step = "GENERATE" -> Leave({[c EXCEPT !.suite = Generated]}, <<>>)
    [] step = "PACK"     -> Leave(Packs(c, FALSE), <<>>)
    [] step = "LAUNCH"   -> Leave(Packs(c, TRUE), <<>>)
    [] step = "EVALUATE" -> Leave({c}, IF c.suite = None THEN <<>>
                                      ELSE <<"evaluating", "GRADE">>)
    [] step = "GRADE"    -> Leave({Graded(c)}, <<>>)
    [] step = "SCORE"    ->
         IF c.eval # <<>> THEN Leave({Scored(c)}, <<>>)
         ELSE IF c.suite # None THEN Leave({c}, <<"EVALUATE", "SCORE">>)
         ELSE Leave({[c EXCEPT !.status = "compiled"]}, <<>>)
    [] step = "UNSWARMED" -> Leave({Archived(c)}, <<"SCORE">>)
    [] step = "SWARM"    -> SwarmStarts(c)
    [] step = "CAPTURE"  -> Leave({[c EXCEPT !.launch = "ok", !.swarm = <<c.ir, c.suite>>],
                                  [c EXCEPT !.launch = "failed"]}, <<>>)
    [] step = "REVISE"   -> IF c.suite = None THEN {} ELSE Leave(Revised(c), <<>>)

Runs(r) == Step(r) \notin Statuses \union {"save", "done"}

Work(r) ==
  /\ Runs(r)
  /\ \E o \in Outcomes(Step(r), rec[r]) :
       /\ rec' = [rec EXCEPT ![r] = o.c]
       /\ todo' = [todo EXCEPT ![r] = o.next \o Tail(@)]
  /\ UNCHANGED <<settings, disk, saved, writing, guarded, begun>>

(* A step raises.  create_run and revise save the copy as it stands, as    *)
(* failed; every other request ends there.                                 *)
MayRaise == {"INGEST", "EXTRACT", "GENERATE", "GRADE", "SCORE", "REVISE"}
Raise(r) ==
  /\ Step(r) \in MayRaise
  /\ rec' = [rec EXCEPT ![r].status = IF guarded[r] = "no" THEN @ ELSE "failed"]
  /\ todo' = [todo EXCEPT ![r] = IF guarded[r] = "no" THEN <<>> ELSE <<"save">>]
  /\ UNCHANGED <<settings, disk, saved, writing, guarded, begun>>

(* The engine's process ends; the file stays as it was.                    *)
Crash ==
  /\ \E r \in Requests : todo[r] # <<>>
  /\ todo' = [r \in Requests |-> <<>>]
  /\ writing' = [r \in Requests |-> "no"]
  /\ UNCHANGED <<settings, disk, saved, rec, guarded, begun>>

Next == Crash \/ \E r \in Requests :
          Begin(r) \/ OpenFile(r) \/ WriteFile(r) \/ Work(r) \/ Raise(r)

Spec == Init /\ [][Next]_vars

-----------------------------------------------------------------------------
(* Properties                                                              *)

TypeOK ==
  /\ writing \in [Requests -> {"no", "open", "mixed"}]
  /\ disk.file \in {"absent", "torn", "whole"}
  /\ saved.file \in {"absent", "whole"}
  /\ \A r \in Requests :
       /\ rec[r].status \in Statuses \union {"pending", "compiled", "completed", "failed"}
       /\ rec[r].ir \in Nat /\ rec[r].suite \in Suites \union {None, Generated}
       /\ rec[r].launch \in {"none", "ok", "failed", "unverified"}
  /\ begun \in Nat

(* Whatever requests overlap, a record that can be read never shows        *)
(* evidence of another policy revision or suite than the ones it holds:    *)
(* a record is saved whole.                                                *)
EvidenceIsCurrent ==
  Readable(disk) =>
    /\ disk.eval # <<>> => disk.eval = <<disk.ir, disk.suite>>
    /\ disk.swarm # <<>> => disk.swarm = <<disk.ir, disk.suite>>

(* A completed run's score was made of the evaluation and the capture it   *)
(* shows (_score is the last thing that happens to evidence).              *)
CompletedIsScored ==
  Readable(disk) /\ disk.status = "completed" => disk.eff = <<disk.eval, disk.swarm>>

(* Revised wording is unverified, so a revised policy is never launched    *)
(* and never has a capture, on any route (_attach_mirofish).               *)
RevisedIsNotLaunched ==
  Readable(disk) /\ disk.ir > 1 =>
    disk.launch \in {"none", "unverified"} /\ disk.swarm = <<>>

(* When a save replaces the policy, the suite or a capture, the evidence   *)
(* they replace is in the history (_archive_evidence, README "archive      *)
(* prior results").  For requests that do not overlap.                     *)
Archives ==
  (/\ saved.file = "whole" /\ saved.suite # None /\ saved' # saved
   /\ \/ saved'.ir # saved.ir \/ saved'.suite # saved.suite
      \/ saved.swarm # <<>> /\ saved'.swarm # saved.swarm)
  => \E h \in saved'.history :
       /\ h.ir = saved.ir /\ h.suite = saved.suite
       /\ h.eval = saved.eval /\ h.swarm = saved.swarm

(* "Retain historical evidence": what a save put in the history is in      *)
(* every later save.  Requests that overlap can break it: the later save   *)
(* puts back a record that was read before the other archived.             *)
Retains == saved.file = "whole" => saved.history \subseteq saved'.history
=============================================================================
