----------------------------- MODULE TaskRunner -----------------------------
(***************************************************************************)
(* backend/app/workflow/task_runner.py with its callers: the jobs the      *)
(* server owns, the sweeps that clean up after runs that are gone, and the *)
(* shutdown of container.py.  Sweeps run in the reaper, in every get_run   *)
(* and delete_run request, and shutdown cancels like one, so several of    *)
(* them may be cancelling the same run.                                    *)
(*                                                                         *)
(* What a job does is left to RunCoordinator; here it works until it ends  *)
(* by itself or, once it is cancelled, unwinds.                            *)
(***************************************************************************)
EXTENDS Naturals, FiniteSets

CONSTANTS
  Runs,      \* run ids: issued ones, and ones a client made up
  Jobs,      \* bound: slots for jobs that exist at the same time
  Requests,  \* bound: get_run and delete_run requests at the same time
  Reaper,    \* the task of _expire_loop
  Closer,    \* the task that runs aclose
  None       \* no run

ASSUME ActorsAssumption ==
  /\ Reaper # Closer
  /\ Reaper \notin Requests /\ Closer \notin Requests
  /\ None \notin Runs

VARIABLES
  run,      \* what the store knows of each id
  tracked,  \* _runs
  jobs,     \* _jobs: the jobs of each run nobody has taken out to cancel
  job,      \* the asyncio tasks
  planner,  \* the runs that have an instance in ScopedScenarioPlanner
  sweep,    \* the sweeps and cancellations under way
  server,   \* how far shutdown has come
  provider  \* whether the model client is open

vars == <<run, tracked, jobs, job, planner, sweep, server, provider>>

Sweepers == Requests \union {Reaper, Closer}

NoJob == [pc |-> "free", run |-> None, cancelled |-> FALSE, awaited |-> FALSE,
          dropped |-> FALSE]

(* A sweep has `todo` left of the runs it set out with; while it drains it *)
(* waits for `victims`, the jobs of `run` it has cancelled.                *)
NoSweep == [pc |-> "idle", todo |-> {}, run |-> None, victims |-> {},
            deletes |-> None, dropped |-> FALSE]

Init ==
  /\ run = [r \in Runs |-> "unborn"]
  /\ tracked = {}
  /\ jobs = [r \in Runs |-> {}]
  /\ job = [j \in Jobs |-> NoJob]
  /\ planner = {}
  /\ sweep = [s \in Sweepers |-> NoSweep]
  /\ server = "up"
  /\ provider = "open"

-----------------------------------------------------------------------------
(* Jobs.                                                                   *)

Submit(j, r, awaited) ==
  /\ server = "up"
  /\ job[j] = NoJob
  /\ tracked' = tracked \union {r}
  /\ job' = [job EXCEPT ![j] =
       [NoJob EXCEPT !.pc = "new", !.run = r, !.awaited = awaited]]
  /\ jobs' = [jobs EXCEPT ![r] = @ \union {j}]

(* The done callback, and the futures that gather this job.                *)
Ends(j) ==
  /\ jobs' = [jobs EXCEPT ![job[j].run] = @ \ {j}]
  /\ job' = [job EXCEPT ![j] = NoJob]
  /\ sweep' = [s \in Sweepers |-> [sweep[s] EXCEPT !.victims = @ \ {j}]]

(* A run is created, or a decision on a live run is accepted, and the job  *)
(* that continues it is submitted before anything else runs.               *)
CreateRun(r, j) ==
  /\ run[r] = "unborn"
  /\ run' = [run EXCEPT ![r] = "live"]
  /\ Submit(j, r, FALSE)
  /\ UNCHANGED <<planner, sweep, server, provider>>

Continue(r, j) ==
  /\ run[r] = "live"
  /\ Submit(j, r, FALSE)
  /\ UNCHANGED <<run, planner, sweep, server, provider>>

(* confirm_revision submits before it looks the run up, so the id may be   *)
(* of a run that is gone, or one the client made up: no run will have it.  *)
Revise(r, j) ==
  /\ run' = [run EXCEPT ![r] = IF @ = "unborn" THEN "gone" ELSE @]
  /\ Submit(j, r, TRUE)
  /\ UNCHANGED <<planner, sweep, server, provider>>

(* Faulty variant: the scope is entered without reading the run.           *)
BeginUnread(j) ==
  /\ job[j].pc = "new"
  /\ ~job[j].cancelled
  /\ job' = [job EXCEPT ![j].pc = "working"]
  /\ planner' = planner \union {job[j].run}
  /\ UNCHANGED <<run, tracked, jobs, sweep, server, provider>>

(* execute reads the run and gives it a planner of its own.                *)
Begin(j) ==
  /\ job[j].pc = "new"
  /\ ~job[j].cancelled
  /\ run[job[j].run] = "live"
  /\ job' = [job EXCEPT ![j].pc = "working"]
  /\ planner' = planner \union {job[j].run}
  /\ UNCHANGED <<run, tracked, jobs, sweep, server, provider>>

Missed(j) ==
  /\ job[j].pc = "new"
  /\ ~job[j].cancelled
  /\ run[job[j].run] # "live"
  /\ Ends(j)
  /\ UNCHANGED <<run, tracked, planner, server, provider>>

(* The work returns or raises.                                             *)
Finishes(j) ==
  /\ job[j].pc = "working"
  /\ ~job[j].cancelled
  /\ Ends(j)
  /\ UNCHANGED <<run, tracked, planner, server, provider>>

(* CancelledError reaches the work, which tries to record it.              *)
Unwinds(j) ==
  /\ job[j].pc = "working"
  /\ job[j].cancelled
  /\ job' = [job EXCEPT ![j].pc = "unwinding", ![j].cancelled = FALSE]
  /\ UNCHANGED <<run, tracked, jobs, planner, sweep, server, provider>>

CancelEnds(j) ==
  /\ \/ job[j].pc = "unwinding"
     \/ job[j].pc = "new" /\ job[j].cancelled
  /\ Ends(j)
  /\ UNCHANGED <<run, tracked, planner, server, provider>>

(* The request that waits in TaskRunner.run is cancelled: that cancels the *)
(* job, and the request is not over before the job is.                     *)
RequestDropped(j) ==
  /\ job[j].awaited
  /\ ~job[j].dropped
  /\ job' = [job EXCEPT ![j].cancelled = TRUE, ![j].dropped = TRUE]
  /\ UNCHANGED <<run, tracked, jobs, planner, sweep, server, provider>>

JobStep(j) ==
  Begin(j) \/ Missed(j) \/ Finishes(j) \/ Unwinds(j) \/ CancelEnds(j)

-----------------------------------------------------------------------------
(* Sweeps.                                                                 *)

(* The store drops a run whose time is up.                                 *)
Expire(r) ==
  /\ run[r] = "live"
  /\ run' = [run EXCEPT ![r] = "gone"]
  /\ UNCHANGED <<tracked, jobs, job, planner, sweep, server, provider>>

(* purge_expired, then the loop over a copy of _runs.                      *)
StartSweep(s, deletes) ==
  /\ sweep[s].pc = "idle"
  /\ sweep' = [sweep EXCEPT ![s] =
       [NoSweep EXCEPT !.pc = "reading", !.todo = tracked, !.deletes = deletes]]
  /\ UNCHANGED <<run, tracked, jobs, job, planner, server, provider>>

ReaperWakes == StartSweep(Reaper, None)

GetRun(s) == s \in Requests /\ server = "up" /\ StartSweep(s, None)

DeleteRun(s, r) == s \in Requests /\ server = "up" /\ StartSweep(s, r)

(* Cancel those jobs and wait until they are done.                         *)
CancelJobs(victims) ==
  job' = [j \in Jobs |-> [job[j] EXCEPT !.cancelled = @ \/ j \in victims]]

Cancel(s, r) ==
  /\ jobs' = [jobs EXCEPT ![r] = {}]
  /\ CancelJobs(jobs[r])
  /\ sweep' = [sweep EXCEPT ![s].pc = "draining", ![s].run = r,
                            ![s].victims = jobs[r], ![s].todo = @ \ {r}]

ReadsLive(s) ==
  /\ sweep[s].pc = "reading"
  /\ \E r \in sweep[s].todo :
       /\ run[r] = "live"
       /\ sweep' = [sweep EXCEPT ![s].todo = @ \ {r}]
  /\ UNCHANGED <<run, tracked, jobs, job, planner, server, provider>>

(* Faulty variant: the sweep cancels every run of its copy.                *)
ReadsAnything(s) ==
  /\ sweep[s].pc = "reading"
  /\ \E r \in sweep[s].todo : Cancel(s, r)
  /\ UNCHANGED <<run, tracked, planner, server, provider>>

ReadsGone(s) ==
  /\ sweep[s].pc = "reading"
  /\ \E r \in sweep[s].todo : run[r] # "live" /\ Cancel(s, r)
  /\ UNCHANGED <<run, tracked, planner, server, provider>>

(* The sweep of a get_run request or of the reaper is over.                *)
SweepDone(s) ==
  /\ s # Closer
  /\ sweep[s].pc = "reading"
  /\ sweep[s].todo = {}
  /\ sweep[s].deletes = None
  /\ sweep' = [sweep EXCEPT ![s] = NoSweep]
  /\ UNCHANGED <<run, tracked, jobs, job, planner, server, provider>>

(* delete_run removes the run, or finds it missing; either way it cancels. *)
Deletes(s) ==
  /\ sweep[s].pc = "reading"
  /\ sweep[s].todo = {}
  /\ sweep[s].deletes # None
  /\ run' = [run EXCEPT ![sweep[s].deletes] = "gone"]
  /\ Cancel(s, sweep[s].deletes)
  /\ UNCHANGED <<tracked, planner, server, provider>>

(* Faulty variant: the sweep goes on until _runs has no run that is gone.  *)
AfterCancelAgain(s) ==
  IF sweep[s].run = sweep[s].deletes THEN NoSweep
  ELSE [sweep[s] EXCEPT !.pc = "reading", !.run = None, !.todo = tracked]

(* delete_run's own cancel comes last; any other goes back to the sweep.   *)
AfterCancel(s) ==
  IF sweep[s].run = sweep[s].deletes THEN NoSweep
  ELSE [sweep[s] EXCEPT !.pc = "reading", !.run = None]

Drained(s) ==
  /\ sweep[s].pc = "draining"
  /\ sweep[s].victims = {}
  /\ ~sweep[s].dropped
  /\ tracked' = tracked \ {sweep[s].run}
  /\ planner' = planner \ {sweep[s].run}
  /\ sweep' = [sweep EXCEPT ![s] = AfterCancel(s)]
  /\ UNCHANGED <<run, jobs, job, server, provider>>

(* Faulty variant: the sweep ends at once.                                 *)
InterruptLeaves(s) ==
  /\ CancelJobs(sweep[s].victims)
  /\ sweep' = [sweep EXCEPT ![s] = NoSweep]

(* The task of a sweep is cancelled.  In gather() that cancels the jobs    *)
(* once more, and the sweep gives up only when they are done.              *)
Interrupt(s) ==
  IF sweep[s].pc = "draining" /\ sweep[s].victims # {}
    THEN /\ CancelJobs(sweep[s].victims)
         /\ sweep' = [sweep EXCEPT ![s].dropped = TRUE]
    ELSE /\ sweep' = [sweep EXCEPT ![s] = NoSweep]
         /\ UNCHANGED job

SweepDropped(s) ==
  /\ s \in Requests
  /\ ~sweep[s].dropped
  /\ \/ sweep[s].pc = "reading"
     \/ sweep[s].pc = "draining" /\ sweep[s].victims # {}
  /\ Interrupt(s)
  /\ UNCHANGED <<run, tracked, jobs, planner, server, provider>>

GivesUp(s) ==
  /\ sweep[s].dropped
  /\ sweep[s].victims = {}
  /\ sweep' = [sweep EXCEPT ![s] = NoSweep]
  /\ UNCHANGED <<run, tracked, jobs, job, planner, server, provider>>

SweepStep(s) ==
  ReadsLive(s) \/ ReadsGone(s) \/ SweepDone(s) \/ Deletes(s) \/ Drained(s)
    \/ GivesUp(s)

-----------------------------------------------------------------------------
(* Shutdown.  The server hands over when its last request has returned.    *)

CloseStore ==
  /\ server = "up"
  /\ \A s \in Requests : sweep[s].pc = "idle"
  /\ \A j \in Jobs : ~job[j].awaited
  /\ server' = "store_closed"
  /\ run' = [r \in Runs |-> "gone"]
  /\ UNCHANGED <<tracked, jobs, job, planner, sweep, provider>>

StopReaper ==
  /\ server = "store_closed"
  /\ server' = "reaper_cancelled"
  /\ Interrupt(Reaper)
  /\ UNCHANGED <<run, tracked, jobs, planner, provider>>

(* Faulty variant: the cancelled reaper is not waited for.                 *)
CancelRestUnwaited ==
  /\ server = "reaper_cancelled"
  /\ server' = "cancelling"
  /\ sweep' = [sweep EXCEPT ![Closer] =
       [NoSweep EXCEPT !.pc = "reading", !.todo = tracked]]
  /\ UNCHANGED <<run, tracked, jobs, job, planner, provider>>

CancelRest ==
  /\ server = "reaper_cancelled"
  /\ sweep[Reaper].pc = "idle"
  /\ server' = "cancelling"
  /\ sweep' = [sweep EXCEPT ![Closer] =
       [NoSweep EXCEPT !.pc = "reading", !.todo = tracked]]
  /\ UNCHANGED <<run, tracked, jobs, job, planner, provider>>

CloseProvider ==
  /\ server = "cancelling"
  /\ sweep[Closer].pc = "reading"
  /\ sweep[Closer].todo = {}
  /\ server' = "closed"
  /\ provider' = "closed"
  /\ planner' = {}
  /\ sweep' = [sweep EXCEPT ![Closer] = NoSweep]
  /\ UNCHANGED <<run, tracked, jobs, job>>

Shutdown == StopReaper \/ CancelRest \/ CloseProvider

Next ==
  \/ \E j \in Jobs : JobStep(j) \/ RequestDropped(j)
  \/ \E r \in Runs, j \in Jobs : CreateRun(r, j) \/ Continue(r, j) \/ Revise(r, j)
  \/ \E r \in Runs : Expire(r)
  \/ server \in {"up", "store_closed"} /\ ReaperWakes
  \/ \E s \in Requests : GetRun(s) \/ \E r \in Runs : DeleteRun(s, r)
  \/ \E s \in Sweepers : SweepStep(s) \/ SweepDropped(s)
  \/ CloseStore
  \/ Shutdown

Spec == Init /\ [][Next]_vars

(* Ready tasks run, jobs end (every model call has a timeout), the reaper  *)
(* wakes four times a second, and shutdown is a task like the others.      *)
Fairness ==
  /\ \A j \in Jobs : WF_vars(JobStep(j))
  /\ \A s \in Sweepers : WF_vars(SweepStep(s))
  /\ WF_vars(server = "up" /\ ReaperWakes)
  /\ WF_vars(Shutdown)

FairSpec == Spec /\ Fairness

-----------------------------------------------------------------------------
(* Properties.                                                             *)

JobStates == [pc : {"free", "new", "working", "unwinding"},
              run : Runs \union {None}, cancelled : BOOLEAN,
              awaited : BOOLEAN, dropped : BOOLEAN]
SweepStates == [pc : {"idle", "reading", "draining"}, todo : SUBSET Runs,
                run : Runs \union {None}, victims : SUBSET Jobs,
                deletes : Runs \union {None}, dropped : BOOLEAN]

(* Types of the task runner's state; a sweep waits only for cancelled jobs *)
(* of the run it is cancelling.                                            *)
TypeOK ==
  /\ run \in [Runs -> {"unborn", "live", "gone"}]
  /\ tracked \in SUBSET Runs
  /\ jobs \in [Runs -> SUBSET Jobs]
  /\ job \in [Jobs -> JobStates]
  /\ planner \in SUBSET Runs
  /\ sweep \in [Sweepers -> SweepStates]
  /\ server \in {"up", "store_closed", "reaper_cancelled", "cancelling", "closed"}
  /\ provider \in {"open", "closed"}
  /\ \A s \in Sweepers : \A j \in sweep[s].victims :
       job[j].run = sweep[s].run /\ (job[j].cancelled \/ job[j].pc = "unwinding")

(* The model client is closed only when no job is left that could use it,  *)
(* whoever was cancelling which run when shutdown began.                   *)
ProviderOutlivesJobs ==
  provider = "closed" => \A j \in Jobs : job[j].pc = "free"

(* A job that has begun can always be reached: it is registered under a    *)
(* run that sweeps and shutdown visit, or somebody is waiting for its end. *)
NoJobEscapes ==
  \A j \in Jobs : job[j].pc \in {"working", "unwinding"} =>
    \/ job[j].run \in tracked /\ j \in jobs[job[j].run]
    \/ \E s \in Sweepers : j \in sweep[s].victims

(* A planner is kept only for a run that sweeps still visit, so none       *)
(* outlives its run for good.                                              *)
PlannersAreReleased == planner \subseteq tracked

(* A job is cancelled only because its run is gone or because the request  *)
(* that waits for it was cancelled; a sweep never ends the work of a run   *)
(* that is still there.                                                    *)
CancelledForCause ==
  \A j \in Jobs : job[j].cancelled \/ job[j].pc = "unwinding" =>
    run[job[j].run] = "gone" \/ job[j].dropped

(* Every get_run and delete_run returns although each waits for jobs of    *)
(* other runs, and a shutdown that has begun completes.                    *)
EveryoneFinishes ==
  /\ \A s \in Requests : sweep[s].pc # "idle" ~> sweep[s].pc = "idle"
  /\ server = "store_closed" ~> server = "closed"
=============================================================================
