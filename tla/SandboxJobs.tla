---------------------------- MODULE SandboxJobs ----------------------------
(***************************************************************************)
(* JobRegistry of backend/app/v2/sandbox/extension.py: the journal row of  *)
(* one request fingerprint, the lookup, prepare, start and stop calls that *)
(* work on it, and the simulation engine they drive.  (Rows of different   *)
(* fingerprints do not touch.)                                             *)
(*                                                                         *)
(* Every process has one registry on the shared SQLite file.  A SQLite     *)
(* transaction is one step; engine calls happen between transactions.      *)
(* prepare, start and stop hold the process's lock throughout; lookup      *)
(* holds it only for its transactions.  A process may crash at any point:  *)
(* the journal and the engine survive.                                     *)
(***************************************************************************)
EXTENDS Naturals, FiniteSets

CONSTANTS
  Processes,  \* processes that serve the extension
  Calls       \* bound: slots for calls that are handled at the same time

VARIABLES
  row,     \* the journal row, or Absent
  call,    \* the calls under way
  engine   \* the simulation engine

vars == <<row, call, engine>>

(* sim = 0: no simulation is known.  request: FALSE in a tombstone.        *)
Absent == [request |-> FALSE, sim |-> 0, status |-> "absent"]
Tombstone == [Absent EXCEPT !.status = "cancelled"]

NoCall == [op |-> "none", proc |-> "none", pc |-> "idle", held |-> FALSE,
           job |-> Absent, state |-> "none"]

(* made: simulations created; launches: runners started; runs: the         *)
(* simulation that was started last; runner: its status.                   *)
Init ==
  /\ row = Absent
  /\ call = [c \in Calls |-> NoCall]
  /\ engine = [made |-> 0, launches |-> 0, runs |-> 0, runner |-> "none"]

-----------------------------------------------------------------------------
Locked(c) ==
  \E d \in Calls \ {c} : call[d].proc = call[c].proc /\ call[d].held

At(c, op, pc) == call[c].op = op /\ call[c].pc = pc

Returns(c) == call' = [call EXCEPT ![c] = NoCall]

Begin(c, p, op) ==
  /\ call[c] = NoCall
  /\ call' = [call EXCEPT ![c] =
       [NoCall EXCEPT !.op = op, !.proc = p,
                      !.pc = IF op = "lookup" THEN "lookup" ELSE "enter"]]
  /\ UNCHANGED <<row, engine>>

-----------------------------------------------------------------------------
(* lookup, also at the end of start and stop.                              *)

Settled == {"ready", "cancelled", "prepare_uncertain", "completed", "failed",
            "stopped"}

LookupRead(c) ==
  /\ call[c].pc = "lookup"
  /\ ~Locked(c)
  /\ IF row.sim # 0 /\ row.status \notin Settled
       THEN call' = [call EXCEPT ![c].pc = "poll", ![c].job = row]
       ELSE Returns(c)
  /\ UNCHANGED <<row, engine>>

(* The engine answers; it knows nothing of a runner that never started.    *)
Polled(c) ==
  /\ call[c].pc = "poll"
  /\ IF engine.runner # "none"
       THEN call' = [call EXCEPT ![c].pc = "reconcile", ![c].state = engine.runner]
       ELSE Returns(c)
  /\ UNCHANGED <<row, engine>>

Reconciled(c) ==
  /\ call[c].pc = "reconcile"
  /\ ~Locked(c)
  /\ row' = IF row = call[c].job THEN [row EXCEPT !.status = call[c].state]
            ELSE row
  /\ Returns(c)
  /\ UNCHANGED engine

-----------------------------------------------------------------------------
(* prepare.                                                                *)

(* The claim is stored before the engine is called.                        *)
PrepareClaim(c) ==
  LET job == [request |-> TRUE, sim |-> 0, status |-> "prepare_uncertain"]
  IN  /\ At(c, "prepare", "enter")
      /\ ~Locked(c)
      /\ row = Absent
      /\ row' = job
      /\ call' = [call EXCEPT ![c].pc = "preparing", ![c].held = TRUE, ![c].job = job]
      /\ UNCHANGED engine

(* The row is returned, or refused if it is a tombstone.                   *)
PrepareKnown(c) ==
  /\ At(c, "prepare", "enter")
  /\ ~Locked(c)
  /\ row # Absent
  /\ Returns(c)
  /\ UNCHANGED <<row, engine>>

Prepared(c) ==
  /\ At(c, "prepare", "preparing")
  /\ engine' = [engine EXCEPT !.made = @ + 1]
  /\ call' = [call EXCEPT ![c].pc = "prepared", ![c].job.sim = engine.made + 1]
  /\ UNCHANGED row

(* Faulty variant: the claim is still thought to be what it was.           *)
PrepareRecordedBlindly(c) ==
  /\ At(c, "prepare", "prepared")
  /\ row' = [call[c].job EXCEPT !.status = "ready"]
  /\ Returns(c)
  /\ UNCHANGED engine

(* A cancellation that came while the engine worked is kept.               *)
PrepareRecorded(c) ==
  /\ At(c, "prepare", "prepared")
  /\ row' = [call[c].job EXCEPT !.status =
               IF row.status = "cancelled" THEN "cancelled" ELSE "ready"]
  /\ Returns(c)
  /\ UNCHANGED engine

-----------------------------------------------------------------------------
(* start.                                                                  *)

(* Faulty variant: an uncertain launch is tried again.                     *)
StartClaimAgain(c) ==
  /\ At(c, "start", "enter")
  /\ ~Locked(c)
  /\ row.status \in {"ready", "start_uncertain"}
  /\ row' = [row EXCEPT !.status = "start_uncertain"]
  /\ call' = [call EXCEPT ![c].pc = "launching", ![c].held = TRUE, ![c].job = row']
  /\ UNCHANGED engine

StartClaim(c) ==
  /\ At(c, "start", "enter")
  /\ ~Locked(c)
  /\ row.status = "ready"
  /\ row' = [row EXCEPT !.status = "start_uncertain"]
  /\ call' = [call EXCEPT ![c].pc = "launching", ![c].held = TRUE, ![c].job = row']
  /\ UNCHANGED engine

(* Nothing to launch: an unknown job is refused, any other is looked up.   *)
StartNot(c) ==
  /\ At(c, "start", "enter")
  /\ ~Locked(c)
  /\ row.status # "ready"
  /\ IF row = Absent THEN Returns(c)
     ELSE call' = [call EXCEPT ![c].pc = "lookup", ![c].held = TRUE]
  /\ UNCHANGED <<row, engine>>

Launched(c) ==
  /\ At(c, "start", "launching")
  /\ engine' = [engine EXCEPT !.launches = @ + 1, !.runs = call[c].job.sim,
                              !.runner = "running"]
  /\ call' = [call EXCEPT ![c].pc = "launched"]
  /\ UNCHANGED row

(* The launch is recorded unless somebody decided otherwise meanwhile; if  *)
(* that was a cancellation the runner is stopped again.                    *)
StartRecorded(c) ==
  /\ At(c, "start", "launched")
  /\ row' = IF row.status = "start_uncertain"
              THEN [call[c].job EXCEPT !.status = "running"] ELSE row
  /\ call' = [call EXCEPT ![c].pc =
       IF row.status = "cancelled" THEN "undoing" ELSE "lookup"]
  /\ UNCHANGED engine

Halt == engine' = [engine EXCEPT !.runner = IF @ = "running" THEN "stopped" ELSE @]

LaunchUndone(c) ==
  /\ At(c, "start", "undoing")
  /\ Halt
  /\ call' = [call EXCEPT ![c].pc = "lookup"]
  /\ UNCHANGED row

-----------------------------------------------------------------------------
(* stop.                                                                   *)

(* Faulty variant: whether a runner has to be stopped is read off the row. *)
StopReadTrusting(c) ==
  /\ At(c, "stop", "enter")
  /\ ~Locked(c)
  /\ row # Absent
  /\ call' = [call EXCEPT ![c].pc = IF row.status = "running" THEN "inspecting"
                                                              ELSE "cancelling",
                          ![c].held = TRUE, ![c].job = row]
  /\ UNCHANGED <<row, engine>>

StopRead(c) ==
  /\ At(c, "stop", "enter")
  /\ ~Locked(c)
  /\ row # Absent
  /\ call' = [call EXCEPT ![c].pc = IF row.sim # 0 THEN "inspecting"
                                                   ELSE "cancelling",
                          ![c].held = TRUE, ![c].job = row]
  /\ UNCHANGED <<row, engine>>

StopUnknown(c) ==
  /\ At(c, "stop", "enter")
  /\ ~Locked(c)
  /\ row = Absent
  /\ row' = Tombstone
  /\ Returns(c)
  /\ UNCHANGED engine

Inspected(c) ==
  /\ At(c, "stop", "inspecting")
  /\ call' = [call EXCEPT ![c].pc =
       CASE engine.runner = "running" -> "halting"
         [] engine.runner = "completed" -> "lookup"
         [] OTHER -> "cancelling"]
  /\ UNCHANGED <<row, engine>>

Halted(c) ==
  /\ At(c, "stop", "halting")
  /\ Halt
  /\ call' = [call EXCEPT ![c].pc = "cancelling"]
  /\ UNCHANGED row

(* The row is written as it was read.                                      *)
StopRecorded(c) ==
  /\ At(c, "stop", "cancelling")
  /\ row' = [call[c].job EXCEPT !.status = "cancelled"]
  /\ Returns(c)
  /\ UNCHANGED engine

-----------------------------------------------------------------------------
(* Failures.                                                               *)

(* An engine call or a transaction raises.  The call may still have had    *)
(* its effect: then the failure comes after the corresponding step.        *)
EngineFails(c) ==
  /\ \/ call[c].pc \in {"poll", "preparing", "launching", "undoing",
                        "inspecting", "halting"}
     \/ At(c, "prepare", "prepared") \/ At(c, "start", "launched")
     \/ At(c, "stop", "cancelling")
  /\ Returns(c)
  /\ UNCHANGED <<row, engine>>

Crash(p) ==
  /\ \E c \in Calls : call[c].proc = p
  /\ call' = [c \in Calls |-> IF call[c].proc = p THEN NoCall ELSE call[c]]
  /\ UNCHANGED <<row, engine>>

(* The simulation ends by itself.                                          *)
RunnerEnds ==
  /\ engine.runner = "running"
  /\ \E status \in {"completed", "failed"} :
       engine' = [engine EXCEPT !.runner = status]
  /\ UNCHANGED <<row, call>>

Next ==
  \/ \E c \in Calls, p \in Processes, op \in {"lookup", "prepare", "start", "stop"} :
       Begin(c, p, op)
  \/ \E c \in Calls :
       \/ LookupRead(c) \/ Polled(c) \/ Reconciled(c)
       \/ PrepareClaim(c) \/ PrepareKnown(c) \/ Prepared(c) \/ PrepareRecorded(c)
       \/ StartClaim(c) \/ StartNot(c) \/ Launched(c) \/ StartRecorded(c)
       \/ LaunchUndone(c)
       \/ StopRead(c) \/ StopUnknown(c) \/ Inspected(c) \/ Halted(c)
       \/ StopRecorded(c)
       \/ EngineFails(c)
  \/ \E p \in Processes : Crash(p)
  \/ RunnerEnds

Spec == Init /\ [][Next]_vars

-----------------------------------------------------------------------------
(* Properties.                                                             *)

Statuses == {"absent", "prepare_uncertain", "ready", "start_uncertain",
             "running", "completed", "failed", "stopped", "cancelled"}
Runner == {"none", "running", "completed", "failed", "stopped"}
Rows == [request : BOOLEAN, sim : Nat, status : Statuses]
Pcs == {"idle", "enter", "lookup", "poll", "reconcile", "preparing", "prepared",
        "launching", "launched", "undoing", "inspecting", "halting", "cancelling"}

(* Types of the journal, the calls and the engine; what a row says of its  *)
(* request and simulation fits its status.                                 *)
TypeOK ==
  /\ row \in Rows
  /\ call \in [Calls -> [op : {"none", "lookup", "prepare", "start", "stop"},
                         proc : Processes \union {"none"}, pc : Pcs,
                         held : BOOLEAN, job : Rows, state : Runner]]
  /\ engine \in [made : Nat, launches : Nat, runs : Nat, runner : Runner]
  /\ row.status \in Statuses \ {"absent", "cancelled"} => row.request
  /\ row.status \in Statuses \ {"absent", "prepare_uncertain", "cancelled"} =>
       row.sim # 0

(* However often prepare and start are repeated, by however many           *)
(* processes, and wherever they crash or fail: one fingerprint gets one    *)
(* simulation and one launch.                                              *)
LaunchedOnce == engine.made <= 1 /\ engine.launches <= 1

(* A cancellation recorded in the journal is final: no prepare, start or   *)
(* poll that was under way undoes it, in this process or another.          *)
StaysCancelled == row.status = "cancelled" => row'.status = "cancelled"

(* A simulation that is recorded as finished stays so, unless somebody     *)
(* cancels it: a late poll or a late start never takes it back.            *)
StaysFinished ==
  row.status \in {"completed", "failed", "stopped"} =>
    row'.status \in {row.status, "cancelled"}

(* Within one process: once its calls have returned, a cancelled job has   *)
(* no simulation running, even if an earlier start failed halfway or the   *)
(* process crashed in it.                                                  *)
CancelledIsStopped ==
  row.status = "cancelled" /\ (\A c \in Calls : ~call[c].held) =>
    engine.runner # "running"

(* Within one process: a simulation that runs can be found in the journal, *)
(* so it can still be stopped.                                             *)
RunningIsFindable ==
  engine.runner = "running" => row.sim # 0 /\ row.sim = engine.runs

(* A cancellation during an in-flight prepare holds for requests that come *)
(* late: once it is recorded, with no simulation known, and the calls have *)
(* returned, none runs.                                                    *)
CancelledDuringPrepare ==
  row = [Tombstone EXCEPT !.request = TRUE] /\ (\A c \in Calls : ~call[c].held) =>
    engine.runner # "running"
=============================================================================
