------------------------------ MODULE MCSandbox ------------------------------
(***************************************************************************)
(* The Sandbox for TLC: the job registry with two processes on one         *)
(* journal, the registry of a single process, the service's request that   *)
(* uses it, and that request while the journal is replaced.  A behaviour   *)
(* is of the part chosen at its beginning.                                 *)
(***************************************************************************)
EXTENDS Naturals, FiniteSets, TLC

CONSTANTS
  Processes,  \* two processes on one journal
  Calls,      \* calls that are handled at the same time
  FewCalls,   \* the same, while the journal is replaced
  Count,      \* stakeholder_count of the request
  MaxCancels  \* bound: how often the caller cancels

ASSUME RequestAssumption == Count \in Nat \ {0} /\ "none" \notin Calls

VARIABLES
  part,
  row, call, engine, \* SandboxJobs
  me, pc, world      \* SandboxService

Shared   == INSTANCE SandboxJobs
Local    == INSTANCE SandboxJobs WITH Processes <- {"server"}
Service  == INSTANCE SandboxService WITH Replacements <- 0
Replaced == INSTANCE SandboxService WITH
              Calls <- FewCalls, Count <- 1, MaxCancels <- 0, Replacements <- 1

vars == <<part, row, call, engine, me, pc, world>>

NoRequest == me = "idle" /\ pc = "idle" /\ world = "idle"

Init ==
  \/ part = "shared" /\ Shared!Init /\ NoRequest
  \/ part = "local" /\ Local!Init /\ NoRequest
  \/ part = "service" /\ Service!Init
  \/ part = "replaced" /\ Replaced!Init

Next ==
  /\ UNCHANGED part
  /\ \/ part = "shared" /\ Shared!Next /\ UNCHANGED <<me, pc, world>>
     \/ part = "local" /\ Local!Next /\ UNCHANGED <<me, pc, world>>
     \/ part = "service" /\ Service!Next
     \/ part = "replaced" /\ Replaced!Next

Spec == Init /\ [][Next]_vars

Symmetry == Permutations(Processes) \union Permutations(Calls)

-----------------------------------------------------------------------------
(* However often prepare and start are repeated, by however many processes *)
(* of extension.py, and wherever they crash or fail: one fingerprint gets  *)
(* one simulation and one launch.                                          *)
LaunchedOnce == part = "shared" => Shared!TypeOK /\ Shared!LaunchedOnce

(* A recorded cancellation is final and a recorded end is kept, although   *)
(* prepare, start and poll work on rows they read earlier; and a request   *)
(* that has bound a job polls and captures no other simulation.            *)
OutcomesAreFinal ==
  [][/\ part = "shared" => Shared!StaysCancelled /\ Shared!StaysFinished
     /\ part = "replaced" => Replaced!KeepsItsJob]_vars

(* Within one process: a cancelled job has no simulation running once its  *)
(* calls have returned, and whatever runs can be found in the journal.     *)
NothingRunsUnseen ==
  part = "local" => Local!CancelledIsStopped /\ Local!RunningIsFindable

(* What a request of service.py leaves behind is stopped or reported, what *)
(* it calls complete is, and it never refuses its own result.              *)
ResultIsTrue ==
  part = "service" =>
    Service!TypeOK /\ Service!StoppedOrReported /\ Service!CompletedIsTrue /\ Service!ResultIsValid
=============================================================================
