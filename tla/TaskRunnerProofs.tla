-------------------------- MODULE TaskRunnerProofs --------------------------
(***************************************************************************)
(* Theorems about TaskRunner for every set of runs, jobs and requests.     *)
(***************************************************************************)
EXTENDS TaskRunner, TLAPS

-----------------------------------------------------------------------------
(* The inductive invariant.                                                *)

Draining(s, r) == sweep[s].pc = "draining" /\ sweep[s].run = r

(* A job that will find its run gone as soon as it runs.                   *)
Loose(j) ==
  job[j].pc = "new" /\ job[j].awaited /\ run[job[j].run] = "gone"

Reachable(j) ==
  \/ job[j].run \in tracked /\ j \in jobs[job[j].run]
  \/ \E s \in Sweepers : j \in sweep[s].victims

EveryJobIsReachable ==
  \A j \in Jobs : job[j].pc # "free" => Loose(j) \/ Reachable(j)

Typed ==
  /\ run \in [Runs -> {"unborn", "live", "gone"}]
  /\ tracked \in SUBSET Runs
  /\ jobs \in [Runs -> SUBSET Jobs]
  /\ job \in [Jobs -> JobStates]
  /\ planner \in SUBSET Runs
  /\ sweep \in [Sweepers -> SweepStates]
  /\ server \in {"up", "store_closed", "reaper_cancelled", "cancelling", "closed"}
  /\ provider \in {"open", "closed"}

(* A sweep waits for jobs of the run it is cancelling, all of which end.   *)
VictimsAreCancelled ==
  \A s \in Sweepers : \A j \in sweep[s].victims :
    job[j].run = sweep[s].run /\ (job[j].cancelled \/ job[j].pc = "unwinding")

(* Jobs are registered under their own run until they end.                 *)
JobsInOrder ==
  /\ \A r \in Runs : \A j \in jobs[r] : job[j].run = r /\ job[j].pc # "free"
  /\ \A j \in Jobs : job[j].pc # "free" => job[j].run \in Runs
  /\ \A j \in Jobs : job[j].pc = "free" => ~job[j].awaited /\ ~job[j].cancelled

(* Sweeps that do not drain wait for nobody; nobody visits an unborn run.  *)
SweepsInOrder ==
  /\ \A s \in Sweepers : sweep[s].pc # "draining" =>
       sweep[s].victims = {} /\ ~sweep[s].dropped
  /\ \A s \in Sweepers : \A r \in sweep[s].todo : run[r] # "unborn"
  /\ \A r \in tracked : run[r] # "unborn"

(* Only runs that are gone are drained, and what is submitted for them     *)
(* meanwhile is loose.                                                     *)
DrainedRunsAreGone ==
  \A s \in Sweepers : sweep[s].pc = "draining" =>
    /\ sweep[s].run \in Runs
    /\ run[sweep[s].run] = "gone"
    /\ \A j \in jobs[sweep[s].run] : Loose(j)

ShutdownInOrder ==
  /\ server # "up" =>
       /\ \A s \in Requests : sweep[s].pc = "idle"
       /\ \A j \in Jobs : ~job[j].awaited
       /\ \A r \in Runs : run[r] = "gone"
  /\ sweep[Closer].deletes = None /\ ~sweep[Closer].dropped
  /\ server # "cancelling" => sweep[Closer].pc = "idle"
  /\ server = "reaper_cancelled" =>
       sweep[Reaper].pc = "idle" \/ sweep[Reaper].dropped
  /\ server \in {"cancelling", "closed"} => sweep[Reaper].pc = "idle"
  /\ server = "cancelling" =>
       \A r \in tracked : r \in sweep[Closer].todo \/ Draining(Closer, r)
  /\ provider = "closed" => server = "closed"
  /\ server = "closed" => \A j \in Jobs : job[j].pc = "free"

RunnerInv ==
  /\ TypeOK
  /\ JobsInOrder
  /\ SweepsInOrder
  /\ DrainedRunsAreGone
  /\ EveryJobIsReachable
  /\ ShutdownInOrder
  /\ PlannersAreReleased
  /\ CancelledForCause

-----------------------------------------------------------------------------
(* The forms a step can take.                                              *)

(* The work of a job ends, by itself or cancelled.                         *)
EndsAlone(j) ==
  /\ job[j].pc # "free"
  /\ Ends(j)
  /\ UNCHANGED <<run, tracked, planner, server, provider>>

(* A run is created or decided on, or a revision is submitted.             *)
Submits(j, r) ==
  /\ \/ /\ Submit(j, r, FALSE)
        /\ run[r] # "gone" /\ run' = [run EXCEPT ![r] = "live"]
     \/ /\ Submit(j, r, TRUE)
        /\ run' = [run EXCEPT ![r] = IF @ = "unborn" THEN "gone" ELSE @]
  /\ UNCHANGED <<planner, sweep, server, provider>>

(* The reaper or a request sets out.                                       *)
Starts(s, deletes) ==
  /\ StartSweep(s, deletes)
  /\ \/ s = Reaper /\ server \in {"up", "store_closed"}
     \/ s \in Requests /\ server = "up"

(* A sweep finds a run gone, or a request deletes it.                      *)
Cancels(s, r) ==
  /\ sweep[s].pc = "reading"
  /\ Cancel(s, r)
  /\ \/ r \in sweep[s].todo /\ run[r] # "live" /\ run' = run
     \/ r = sweep[s].deletes /\ run' = [run EXCEPT ![r] = "gone"]
  /\ UNCHANGED <<tracked, planner, server, provider>>

(* A sweep is over, or gives up.                                           *)
Stops(s) ==
  /\ \/ sweep[s].pc = "reading" /\ s # Closer
     \/ sweep[s].dropped
  /\ sweep[s].victims = {} \/ sweep[s].pc = "reading"
  /\ sweep' = [sweep EXCEPT ![s] = NoSweep]
  /\ UNCHANGED <<run, tracked, jobs, job, planner, server, provider>>

(* A request is dropped, or the reaper stopped.                            *)
Interrupted(s) ==
  /\ Interrupt(s)
  /\ \/ s \in Requests /\ sweep[s].pc # "idle" /\ server' = server
     \/ s = Reaper /\ server = "store_closed" /\ server' = "reaper_cancelled"
  /\ UNCHANGED <<run, tracked, jobs, planner, provider>>

JobForms ==
  \E j \in Jobs :
    \/ Begin(j) \/ EndsAlone(j) \/ Unwinds(j) \/ RequestDropped(j)
    \/ \E r \in Runs : Submits(j, r)

SweepForms ==
  \E s \in Sweepers :
    \/ \E deletes \in Runs \union {None} : Starts(s, deletes)
    \/ \E r \in Runs : Cancels(s, r)
    \/ ReadsLive(s) \/ Stops(s) \/ Drained(s) \/ Interrupted(s)

(* TypeOK in two parts.                                                    *)
LEMMA TypeParts == TypeOK <=> Typed /\ VictimsAreCancelled
BY DEF TypeOK, Typed, VictimsAreCancelled

(* The types of what the variables hold.                                   *)
LEMMA Types ==
  ASSUME Typed
  PROVE  /\ job \in [Jobs -> JobStates] /\ sweep \in [Sweepers -> SweepStates]
         /\ jobs \in [Runs -> SUBSET Jobs] /\ tracked \subseteq Runs
         /\ run \in [Runs -> {"unborn", "live", "gone"}]
         /\ \A s \in Sweepers : /\ sweep[s] \in SweepStates
                               /\ sweep[s].victims \subseteq Jobs
                               /\ sweep[s].todo \subseteq Runs
BY DEF Typed, SweepStates

(* One sweep changes and the others do not notice.                         *)
LEMMA SweepEffect ==
  ASSUME sweep \in [Sweepers -> SweepStates], NEW s \in Sweepers,
         NEW t \in SweepStates, sweep' = [sweep EXCEPT ![s] = t]
  PROVE  /\ sweep' \in [Sweepers -> SweepStates]
         /\ sweep'[s] = t
         /\ \A u \in Sweepers : u # s => sweep'[u] = sweep[u]
OBVIOUS

(* The other jobs do not notice that one starts, unwinds or is cancelled.  *)
LEMMA JobEffect ==
  ASSUME job \in [Jobs -> JobStates], NEW j \in Jobs,
         NEW t \in JobStates, job' = [job EXCEPT ![j] = t]
  PROVE  /\ job' \in [Jobs -> JobStates]
         /\ job'[j] = t
         /\ \A i \in Jobs : i # j => job'[i] = job[i]
OBVIOUS

(* What Begin changes: one job, and the planners.                          *)
LEMMA BeginEffect ==
  ASSUME Typed, NEW j \in Jobs, Begin(j)
  PROVE  /\ job[j].pc = "new" /\ run[job[j].run] = "live"
         /\ planner' = planner \union {job[j].run}
         /\ run' = run /\ tracked' = tracked /\ jobs' = jobs /\ sweep' = sweep
         /\ server' = server /\ provider' = provider
         /\ job' \in [Jobs -> JobStates]
         /\ job'[j].pc = "working" /\ job'[j].run = job[j].run
         /\ job'[j].cancelled = job[j].cancelled /\ job'[j].awaited = job[j].awaited
         /\ job'[j].dropped = job[j].dropped
         /\ \A i \in Jobs : i # j => job'[i] = job[i]
<1>1. [job[j] EXCEPT !.pc = "working"] \in JobStates
  BY Types DEF JobStates
<1> QED
  BY <1>1, JobEffect, Types DEF Begin, JobStates

(* What Unwinds changes: one job.                                          *)
LEMMA UnwindsEffect ==
  ASSUME Typed, NEW j \in Jobs, Unwinds(j)
  PROVE  /\ job[j].pc = "working"
         /\ run' = run /\ tracked' = tracked /\ jobs' = jobs /\ planner' = planner
         /\ sweep' = sweep /\ server' = server /\ provider' = provider
         /\ job' \in [Jobs -> JobStates]
         /\ job'[j].pc = "unwinding" /\ job'[j].run = job[j].run
         /\ job'[j].cancelled = FALSE /\ job'[j].awaited = job[j].awaited
         /\ job'[j].dropped = job[j].dropped
         /\ \A i \in Jobs : i # j => job'[i] = job[i]
<1>1. [job[j] EXCEPT !.pc = "unwinding", !.cancelled = FALSE] \in JobStates
  BY Types DEF JobStates
<1> QED
  BY <1>1, JobEffect, Types DEF Unwinds, JobStates

(* What a dropped confirm_revision request changes: its job.               *)
LEMMA RequestDroppedEffect ==
  ASSUME Typed, NEW j \in Jobs, RequestDropped(j)
  PROVE  /\ job[j].awaited
         /\ run' = run /\ tracked' = tracked /\ jobs' = jobs /\ planner' = planner
         /\ sweep' = sweep /\ server' = server /\ provider' = provider
         /\ job' \in [Jobs -> JobStates]
         /\ job'[j].pc = job[j].pc /\ job'[j].run = job[j].run
         /\ job'[j].cancelled = TRUE /\ job'[j].awaited = job[j].awaited
         /\ job'[j].dropped = TRUE
         /\ \A i \in Jobs : i # j => job'[i] = job[i]
<1>1. [job[j] EXCEPT !.cancelled = TRUE, !.dropped = TRUE] \in JobStates
  BY Types DEF JobStates
<1> QED
  BY <1>1, JobEffect, Types DEF RequestDropped, JobStates

(* What the done callback of a job changes.                                *)
LEMMA EndsEffect ==
  ASSUME Typed, JobsInOrder, NEW j \in Jobs, job[j].pc # "free", Ends(j)
  PROVE  /\ job' \in [Jobs -> JobStates]
         /\ job'[j] = NoJob
         /\ \A i \in Jobs : i # j => job'[i] = job[i]
         /\ jobs' \in [Runs -> SUBSET Jobs]
         /\ \A r \in Runs : jobs'[r] = jobs[r] \ {j}
         /\ sweep' \in [Sweepers -> SweepStates]
         /\ \A s \in Sweepers :
              /\ sweep'[s].pc = sweep[s].pc /\ sweep'[s].run = sweep[s].run
              /\ sweep'[s].todo = sweep[s].todo /\ sweep'[s].deletes = sweep[s].deletes
              /\ sweep'[s].dropped = sweep[s].dropped
              /\ sweep'[s].victims = sweep[s].victims \ {j}
<1>1. NoJob \in JobStates
  BY DEF JobStates, NoJob
<1>2. job' \in [Jobs -> JobStates] /\ job'[j] = NoJob
        /\ \A i \in Jobs : i # j => job'[i] = job[i]
  BY <1>1, Types DEF Ends
<1>3. jobs' \in [Runs -> SUBSET Jobs] /\ \A r \in Runs : jobs'[r] = jobs[r] \ {j}
  <2>1. job[j].run \in Runs /\ \A r \in Runs : j \in jobs[r] => job[j].run = r
    BY DEF JobsInOrder
  <2> QED
    BY <2>1, Types DEF Ends
<1>4. sweep \in [Sweepers -> SweepStates]
  BY Types
<1>5. sweep' \in [Sweepers -> SweepStates]
  BY <1>4 DEF Ends, SweepStates
<1>6. ASSUME NEW s \in Sweepers
      PROVE  /\ sweep'[s].pc = sweep[s].pc /\ sweep'[s].run = sweep[s].run
              /\ sweep'[s].todo = sweep[s].todo /\ sweep'[s].deletes = sweep[s].deletes
              /\ sweep'[s].dropped = sweep[s].dropped
              /\ sweep'[s].victims = sweep[s].victims \ {j}
  BY <1>4 DEF Ends, SweepStates
<1> QED
  BY <1>2, <1>3, <1>5, <1>6

(* Cancelling jobs changes nothing but their cancellation.                 *)
LEMMA CancelJobsEffect ==
  ASSUME job \in [Jobs -> JobStates], NEW V, CancelJobs(V)
  PROVE  /\ job' \in [Jobs -> JobStates]
         /\ \A i \in Jobs :
              /\ job'[i].pc = job[i].pc /\ job'[i].run = job[i].run
              /\ job'[i].awaited = job[i].awaited /\ job'[i].dropped = job[i].dropped
              /\ job'[i].cancelled <=> job[i].cancelled \/ i \in V
<1>1. ASSUME NEW i \in Jobs
      PROVE  /\ job'[i] \in JobStates
             /\ job'[i].pc = job[i].pc /\ job'[i].run = job[i].run
             /\ job'[i].awaited = job[i].awaited /\ job'[i].dropped = job[i].dropped
             /\ job'[i].cancelled <=> job[i].cancelled \/ i \in V
  <2> DEFINE c == job[i].cancelled \/ i \in V
  <2>1. c \in BOOLEAN
    OBVIOUS
  <2>2. job'[i] = [job[i] EXCEPT !.cancelled = c]
    BY DEF CancelJobs
  <2> HIDE DEF c
  <2>3. /\ job'[i] \in JobStates
        /\ job'[i].pc = job[i].pc /\ job'[i].run = job[i].run
        /\ job'[i].awaited = job[i].awaited /\ job'[i].dropped = job[i].dropped
        /\ job'[i].cancelled = c
    BY <2>1, <2>2 DEF JobStates
  <2> QED
    BY <2>3 DEF c
<1>2. job' = [i \in Jobs |-> job'[i]]
  BY DEF CancelJobs
<1> QED
  BY <1>1, <1>2

(* What cancel does before it waits.                                       *)
LEMMA CancelEffect ==
  ASSUME Typed, NEW s \in Sweepers, NEW r \in Runs, Cancel(s, r)
  PROVE  /\ CancelJobs(jobs[r])
         /\ jobs' \in [Runs -> SUBSET Jobs] /\ jobs'[r] = {}
         /\ \A q \in Runs : q # r => jobs'[q] = jobs[q]
         /\ sweep' \in [Sweepers -> SweepStates]
         /\ sweep'[s].pc = "draining" /\ sweep'[s].todo = sweep[s].todo \ {r}
         /\ sweep'[s].run = r /\ sweep'[s].victims = jobs[r]
         /\ sweep'[s].deletes = sweep[s].deletes /\ sweep'[s].dropped = sweep[s].dropped
         /\ \A u \in Sweepers : u # s => sweep'[u] = sweep[u]
<1> DEFINE t == [sweep[s] EXCEPT !.pc = "draining", !.run = r,
                                 !.victims = jobs[r], !.todo = @ \ {r}]
<1>1. sweep[s] \in SweepStates /\ jobs[r] \in SUBSET Jobs
  BY Types
<1>2. t \in SweepStates
  BY <1>1 DEF SweepStates
<1>3. sweep' = [sweep EXCEPT ![s] = t]
  BY DEF Cancel
<1> HIDE DEF t
<1>4. /\ sweep' \in [Sweepers -> SweepStates] /\ sweep'[s] = t
      /\ \A u \in Sweepers : u # s => sweep'[u] = sweep[u]
  BY <1>2, <1>3, SweepEffect, Types
<1>5. CancelJobs(jobs[r]) /\ jobs' = [jobs EXCEPT ![r] = {}]
  BY DEF Cancel
<1> QED
  BY <1>1, <1>4, <1>5, Types DEF t, SweepStates

(* What a sweep sets out with.                                             *)
LEMMA StartEffect ==
  ASSUME Typed, NEW s \in Sweepers, NEW d \in Runs \union {None},
         sweep' = [sweep EXCEPT ![s] =
           [NoSweep EXCEPT !.pc = "reading", !.todo = tracked, !.deletes = d]]
  PROVE  /\ sweep' \in [Sweepers -> SweepStates]
         /\ sweep'[s].pc = "reading" /\ sweep'[s].todo = tracked
         /\ sweep'[s].run = None /\ sweep'[s].victims = {}
         /\ sweep'[s].deletes = d /\ sweep'[s].dropped = FALSE
         /\ \A u \in Sweepers : u # s => sweep'[u] = sweep[u]
<1>1. [NoSweep EXCEPT !.pc = "reading", !.todo = tracked, !.deletes = d] \in SweepStates
  BY Types DEF NoSweep, SweepStates
<1> QED
  BY <1>1, SweepEffect, Types DEF NoSweep

(* What shutdown sets out with.                                            *)
LEMMA CancelRestEffect ==
  ASSUME Typed, CancelRest
  PROVE  /\ server = "reaper_cancelled" /\ server' = "cancelling"
         /\ sweep[Reaper].pc = "idle"
         /\ run' = run /\ tracked' = tracked /\ jobs' = jobs /\ job' = job
         /\ planner' = planner /\ provider' = provider
         /\ sweep' \in [Sweepers -> SweepStates]
         /\ sweep'[Closer].pc = "reading" /\ sweep'[Closer].todo = tracked
         /\ sweep'[Closer].run = None /\ sweep'[Closer].victims = {}
         /\ sweep'[Closer].deletes = None /\ sweep'[Closer].dropped = FALSE
         /\ \A u \in Sweepers : u # Closer => sweep'[u] = sweep[u]
<1>1. [NoSweep EXCEPT !.pc = "reading", !.todo = tracked] \in SweepStates
  BY Types DEF NoSweep, SweepStates
<1> QED
  BY <1>1, SweepEffect, Types DEF CancelRest, Sweepers, NoSweep

(* A sweep that is over.                                                   *)
LEMMA IdleSweep ==
  /\ NoSweep.pc = "idle" /\ NoSweep.todo = {} /\ NoSweep.run = None
  /\ NoSweep.victims = {} /\ NoSweep.deletes = None /\ NoSweep.dropped = FALSE
BY DEF NoSweep

(* One sweep ends and the others do not notice.                            *)
LEMMA EndEffect ==
  ASSUME Typed, NEW s \in Sweepers, sweep' = [sweep EXCEPT ![s] = NoSweep]
  PROVE  /\ sweep' \in [Sweepers -> SweepStates]
         /\ sweep'[s] = NoSweep
         /\ \A u \in Sweepers : u # s => sweep'[u] = sweep[u]
<1>1. NoSweep \in SweepStates
  BY DEF NoSweep, SweepStates
<1> QED
  BY <1>1, SweepEffect, Types

(* A sweep passes a live run over.                                         *)
LEMMA ReadsLiveEffect ==
  ASSUME Typed, NEW s \in Sweepers, ReadsLive(s)
  PROVE  /\ sweep[s].pc = "reading"
         /\ run' = run /\ tracked' = tracked /\ jobs' = jobs /\ job' = job
         /\ planner' = planner /\ server' = server /\ provider' = provider
         /\ sweep' \in [Sweepers -> SweepStates]
         /\ \E r \in sweep[s].todo :
              /\ run[r] = "live"
              /\ sweep'[s].todo = sweep[s].todo \ {r}
         /\ sweep'[s].pc = sweep[s].pc
         /\ sweep'[s].run = sweep[s].run /\ sweep'[s].victims = sweep[s].victims
         /\ sweep'[s].deletes = sweep[s].deletes /\ sweep'[s].dropped = sweep[s].dropped
         /\ \A u \in Sweepers : u # s => sweep'[u] = sweep[u]
<1>1. PICK r \in sweep[s].todo :
        run[r] = "live" /\ sweep' = [sweep EXCEPT ![s].todo = @ \ {r}]
  BY DEF ReadsLive
<1>2. [sweep[s] EXCEPT !.todo = @ \ {r}] \in SweepStates
  BY Types DEF SweepStates
<1> QED
  BY <1>1, <1>2, SweepEffect, Types DEF ReadsLive, SweepStates

(* What cancel does when the jobs have ended.                              *)
LEMMA DrainedEffect ==
  ASSUME Typed, NEW s \in Sweepers, Drained(s)
  PROVE  /\ sweep[s].pc = "draining" /\ sweep[s].victims = {} /\ ~sweep[s].dropped
         /\ tracked' = tracked \ {sweep[s].run} /\ planner' = planner \ {sweep[s].run}
         /\ run' = run /\ jobs' = jobs /\ job' = job /\ server' = server
         /\ provider' = provider
         /\ sweep' \in [Sweepers -> SweepStates]
         /\ \/ sweep[s].run = sweep[s].deletes /\ sweep'[s] = NoSweep
            \/ /\ sweep[s].run # sweep[s].deletes
               /\ sweep'[s].pc = "reading" /\ sweep'[s].todo = sweep[s].todo
               /\ sweep'[s].run = None /\ sweep'[s].victims = sweep[s].victims
               /\ sweep'[s].deletes = sweep[s].deletes /\ sweep'[s].dropped = sweep[s].dropped
         /\ \A u \in Sweepers : u # s => sweep'[u] = sweep[u]
<1>1. NoSweep \in SweepStates
  BY DEF NoSweep, SweepStates
<1>2. [sweep[s] EXCEPT !.pc = "reading", !.run = None] \in SweepStates
  BY Types DEF SweepStates
<1>3. AfterCancel(s) \in SweepStates
  BY <1>1, <1>2 DEF AfterCancel
<1> QED
  BY <1>3, SweepEffect, Types DEF Drained, AfterCancel, SweepStates

(* A sweep that is interrupted either ends or has its jobs cancelled again.*)
LEMMA InterruptEffect ==
  ASSUME Typed, NEW s \in Sweepers, Interrupt(s)
  PROVE  /\ sweep' \in [Sweepers -> SweepStates]
         /\ \A u \in Sweepers : u # s => sweep'[u] = sweep[u]
         /\ \/ /\ sweep[s].pc = "draining" /\ sweep[s].victims # {}
               /\ CancelJobs(sweep[s].victims)
               /\ sweep'[s].pc = sweep[s].pc /\ sweep'[s].todo = sweep[s].todo
               /\ sweep'[s].run = sweep[s].run /\ sweep'[s].victims = sweep[s].victims
               /\ sweep'[s].deletes = sweep[s].deletes /\ sweep'[s].dropped = TRUE
            \/ /\ ~(sweep[s].pc = "draining" /\ sweep[s].victims # {})
               /\ sweep'[s] = NoSweep
               /\ job' = job
<1>1. CASE sweep[s].pc = "draining" /\ sweep[s].victims # {}
  <2>1. CancelJobs(sweep[s].victims) /\ sweep' = [sweep EXCEPT ![s].dropped = TRUE]
    BY <1>1 DEF Interrupt
  <2>2. [sweep[s] EXCEPT !.dropped = TRUE] \in SweepStates
    BY Types DEF SweepStates
  <2> QED
    BY <1>1, <2>1, <2>2, SweepEffect, Types DEF SweepStates
<1>2. CASE ~(sweep[s].pc = "draining" /\ sweep[s].victims # {})
  BY <1>2, EndEffect DEF Interrupt
<1> QED
  BY <1>1, <1>2

(* A job that ends leaves everything else alone.                           *)
LEMMA EndsAloneEffect ==
  ASSUME Typed, JobsInOrder, NEW j \in Jobs, EndsAlone(j)
  PROVE  /\ job[j].pc # "free"
         /\ run' = run /\ tracked' = tracked /\ planner' = planner /\ server' = server
         /\ provider' = provider
         /\ job' \in [Jobs -> JobStates]
         /\ job'[j].pc = "free" /\ ~job'[j].awaited /\ ~job'[j].cancelled
         /\ \A i \in Jobs : i # j => job'[i] = job[i]
         /\ jobs' \in [Runs -> SUBSET Jobs]
         /\ \A r \in Runs : jobs'[r] = jobs[r] \ {j}
         /\ sweep' \in [Sweepers -> SweepStates]
         /\ \A s \in Sweepers :
              /\ sweep'[s].pc = sweep[s].pc /\ sweep'[s].run = sweep[s].run
              /\ sweep'[s].todo = sweep[s].todo /\ sweep'[s].deletes = sweep[s].deletes
              /\ sweep'[s].dropped = sweep[s].dropped
              /\ sweep'[s].victims = sweep[s].victims \ {j}
<1>1. job[j].pc # "free" /\ Ends(j) /\ UNCHANGED <<run, tracked, planner, server, provider>>
  BY DEF EndsAlone
<1>2. NoJob.pc = "free" /\ ~NoJob.awaited /\ ~NoJob.cancelled
  BY DEF NoJob
<1> QED
  BY <1>1, <1>2, EndsEffect

(* What submit changes: a job, where it is registered, and _runs.          *)
LEMMA SubmitsEffect ==
  ASSUME Typed, NEW j \in Jobs, NEW r \in Runs, Submits(j, r)
  PROVE  /\ server = "up" /\ job[j].pc = "free"
         /\ ~job[j].cancelled
         /\ \A q \in Runs : q # r => run'[q] = run[q]
         /\ run' \in [Runs -> {"unborn", "live", "gone"}]
         /\ \/ run[r] # "gone" /\ run'[r] = "live"
            \/ job'[j].awaited /\ run'[r] = IF run[r] = "unborn" THEN "gone" ELSE run[r]
         /\ job' \in [Jobs -> JobStates]
         /\ job'[j].pc = "new" /\ job'[j].run = r /\ ~job'[j].cancelled
         /\ \A i \in Jobs : i # j => job'[i] = job[i]
         /\ tracked' = tracked \union {r}
         /\ jobs' \in [Runs -> SUBSET Jobs]
         /\ jobs'[r] = jobs[r] \union {j}
         /\ \A q \in Runs : q # r => jobs'[q] = jobs[q]
         /\ planner' = planner /\ sweep' = sweep /\ server' = server /\ provider' = provider
<1> DEFINE t(a) == [NoJob EXCEPT !.pc = "new", !.run = r, !.awaited = a]
<1>1. /\ t(TRUE) \in JobStates /\ t(FALSE) \in JobStates /\ t(TRUE).awaited = TRUE
      /\ t(TRUE).pc = "new" /\ t(TRUE).run = r /\ ~t(TRUE).cancelled
      /\ t(FALSE).pc = "new" /\ t(FALSE).run = r /\ ~t(FALSE).cancelled
  BY DEF JobStates, NoJob
<1>2. /\ server = "up" /\ job[j] = NoJob /\ tracked' = tracked \union {r}
      /\ jobs' = [jobs EXCEPT ![r] = @ \union {j}]
      /\ UNCHANGED <<planner, sweep, server, provider>>
      /\ \/ /\ job' = [job EXCEPT ![j] = t(FALSE)]
            /\ run[r] # "gone" /\ run' = [run EXCEPT ![r] = "live"]
         \/ /\ job' = [job EXCEPT ![j] = t(TRUE)]
            /\ run' = [run EXCEPT ![r] = IF @ = "unborn" THEN "gone" ELSE @]
  BY DEF Submits, Submit
<1>3. NoJob.pc = "free" /\ ~NoJob.cancelled
  BY DEF NoJob
<1> HIDE DEF t
<1>4. /\ jobs' \in [Runs -> SUBSET Jobs] /\ jobs'[r] = jobs[r] \union {j}
      /\ \A q \in Runs : q # r => jobs'[q] = jobs[q]
  BY <1>2, Types
<1>5. CASE /\ job' = [job EXCEPT ![j] = t(FALSE)]
           /\ run[r] # "gone" /\ run' = [run EXCEPT ![r] = "live"]
  <2>1. /\ job' \in [Jobs -> JobStates] /\ job'[j] = t(FALSE)
        /\ \A i \in Jobs : i # j => job'[i] = job[i]
    BY <1>1, <1>5, Types
  <2>2. /\ run' \in [Runs -> {"unborn", "live", "gone"}] /\ run'[r] = "live"
        /\ \A q \in Runs : q # r => run'[q] = run[q]
    BY <1>5, Types
  <2> QED
    BY <1>1, <1>2, <1>3, <1>4, <1>5, <2>1, <2>2
<1>6. CASE /\ job' = [job EXCEPT ![j] = t(TRUE)]
           /\ run' = [run EXCEPT ![r] = IF @ = "unborn" THEN "gone" ELSE @]
  <2>1. /\ job' \in [Jobs -> JobStates] /\ job'[j] = t(TRUE)
        /\ \A i \in Jobs : i # j => job'[i] = job[i]
    BY <1>1, <1>6, Types
  <2>2. /\ run' \in [Runs -> {"unborn", "live", "gone"}]
        /\ run'[r] = IF run[r] = "unborn" THEN "gone" ELSE run[r]
        /\ \A q \in Runs : q # r => run'[q] = run[q]
    BY <1>6, Types
  <2> QED
    BY <1>1, <1>2, <1>3, <1>4, <2>1, <2>2
<1> QED
  BY <1>2, <1>5, <1>6

(* A sweep that starts leaves everything else alone.                       *)
LEMMA StartsEffect ==
  ASSUME Typed, NEW s \in Sweepers, NEW d \in Runs \union {None}, Starts(s, d)
  PROVE  /\ sweep[s].pc = "idle"
         /\ run' = run /\ tracked' = tracked /\ jobs' = jobs /\ job' = job
         /\ planner' = planner /\ server' = server /\ provider' = provider
         /\ \/ s = Reaper /\ server \in {"up", "store_closed"}
            \/ s \in Requests /\ server = "up"
         /\ sweep' \in [Sweepers -> SweepStates]
         /\ sweep'[s].pc = "reading" /\ sweep'[s].todo = tracked
         /\ sweep'[s].victims = {} /\ sweep'[s].dropped = FALSE
         /\ \A u \in Sweepers : u # s => sweep'[u] = sweep[u]
<1>1. /\ sweep' = [sweep EXCEPT ![s] =
           [NoSweep EXCEPT !.pc = "reading", !.todo = tracked, !.deletes = d]]
      /\ sweep[s].pc = "idle"
      /\ UNCHANGED <<run, tracked, jobs, job, planner, server, provider>>
      /\ \/ s = Reaper /\ server \in {"up", "store_closed"}
         \/ s \in Requests /\ server = "up"
  BY DEF Starts, StartSweep
<1> QED
  BY <1>1, StartEffect

(* What a sweep or delete_run changes when it cancels a run.               *)
LEMMA CancelsEffect ==
  ASSUME Typed, NEW s \in Sweepers, NEW r \in Runs, Cancels(s, r)
  PROVE  /\ sweep[s].pc = "reading"
         /\ \/ r \in sweep[s].todo /\ run[r] # "live" /\ run' = run
            \/ r = sweep[s].deletes /\ run'[r] = "gone"
         /\ run' \in [Runs -> {"unborn", "live", "gone"}]
         /\ \A q \in Runs : q # r => run'[q] = run[q]
         /\ tracked' = tracked /\ planner' = planner /\ server' = server /\ provider' = provider
         /\ job' \in [Jobs -> JobStates]
         /\ \A i \in Jobs :
              /\ job'[i].pc = job[i].pc /\ job'[i].run = job[i].run
              /\ job'[i].awaited = job[i].awaited /\ job'[i].dropped = job[i].dropped
              /\ job'[i].cancelled <=> job[i].cancelled \/ i \in jobs[r]
         /\ jobs' \in [Runs -> SUBSET Jobs] /\ jobs'[r] = {}
         /\ \A q \in Runs : q # r => jobs'[q] = jobs[q]
         /\ sweep' \in [Sweepers -> SweepStates]
         /\ sweep'[s].pc = "draining" /\ sweep'[s].todo = sweep[s].todo \ {r}
         /\ sweep'[s].run = r /\ sweep'[s].victims = jobs[r]
         /\ sweep'[s].deletes = sweep[s].deletes /\ sweep'[s].dropped = sweep[s].dropped
         /\ \A u \in Sweepers : u # s => sweep'[u] = sweep[u]
<1>1. /\ sweep[s].pc = "reading" /\ Cancel(s, r)
      /\ UNCHANGED <<tracked, planner, server, provider>>
      /\ \/ r \in sweep[s].todo /\ run[r] # "live" /\ run' = run
         \/ r = sweep[s].deletes /\ run' = [run EXCEPT ![r] = "gone"]
  BY DEF Cancels
<1>2. /\ \/ r \in sweep[s].todo /\ run[r] # "live" /\ run' = run
         \/ r = sweep[s].deletes /\ run'[r] = "gone"
      /\ run' \in [Runs -> {"unborn", "live", "gone"}]
      /\ \A q \in Runs : q # r => run'[q] = run[q]
  BY <1>1, Types
<1>3. CancelJobs(jobs[r])
  BY <1>1, CancelEffect
<1>4. /\ job' \in [Jobs -> JobStates]
      /\ \A i \in Jobs :
           /\ job'[i].pc = job[i].pc /\ job'[i].run = job[i].run
           /\ job'[i].awaited = job[i].awaited /\ job'[i].dropped = job[i].dropped
           /\ job'[i].cancelled <=> job[i].cancelled \/ i \in jobs[r]
  BY <1>3, CancelJobsEffect, Types
<1> QED
  BY <1>1, <1>2, <1>4, CancelEffect

(* A sweep that ends leaves everything else alone.                         *)
LEMMA StopsEffect ==
  ASSUME Typed, NEW s \in Sweepers, Stops(s)
  PROVE  /\ (sweep[s].pc = "reading" /\ s # Closer) \/ sweep[s].dropped
         /\ sweep[s].victims = {} \/ sweep[s].pc = "reading"
         /\ run' = run /\ tracked' = tracked /\ jobs' = jobs /\ job' = job
         /\ planner' = planner /\ server' = server /\ provider' = provider
         /\ sweep' \in [Sweepers -> SweepStates]
         /\ sweep'[s] = NoSweep
         /\ \A u \in Sweepers : u # s => sweep'[u] = sweep[u]
<1>1. /\ (sweep[s].pc = "reading" /\ s # Closer) \/ sweep[s].dropped
      /\ sweep[s].victims = {} \/ sweep[s].pc = "reading"
      /\ UNCHANGED <<run, tracked, jobs, job, planner, server, provider>>
      /\ sweep' = [sweep EXCEPT ![s] = NoSweep]
  BY DEF Stops
<1> QED
  BY <1>1, EndEffect

(* Whose cancellation it is, and what that changes.                        *)
LEMMA InterruptedEffect ==
  ASSUME Typed, NEW s \in Sweepers, Interrupted(s)
  PROVE  /\ \/ s \in Requests /\ sweep[s].pc # "idle" /\ server' = server
            \/ s = Reaper /\ server = "store_closed" /\ server' = "reaper_cancelled"
         /\ run' = run /\ tracked' = tracked /\ jobs' = jobs /\ planner' = planner
         /\ provider' = provider
         /\ job' \in [Jobs -> JobStates]
         /\ \A i \in Jobs :
              /\ job'[i].pc = job[i].pc /\ job'[i].run = job[i].run
              /\ job'[i].awaited = job[i].awaited /\ job'[i].dropped = job[i].dropped
              /\ job[i].cancelled => job'[i].cancelled
              /\ job'[i].cancelled => job[i].cancelled \/ i \in sweep[s].victims
         /\ sweep' \in [Sweepers -> SweepStates]
         /\ \A u \in Sweepers : u # s => sweep'[u] = sweep[u]
         /\ \/ /\ sweep[s].pc = "draining" /\ sweep[s].victims # {}
               /\ sweep'[s].pc = sweep[s].pc /\ sweep'[s].todo = sweep[s].todo
               /\ sweep'[s].run = sweep[s].run /\ sweep'[s].victims = sweep[s].victims
               /\ sweep'[s].deletes = sweep[s].deletes /\ sweep'[s].dropped = TRUE
            \/ /\ ~(sweep[s].pc = "draining" /\ sweep[s].victims # {})
               /\ sweep'[s] = NoSweep
<1>1. /\ Interrupt(s) /\ UNCHANGED <<run, tracked, jobs, planner, provider>>
      /\ \/ s \in Requests /\ sweep[s].pc # "idle" /\ server' = server
         \/ s = Reaper /\ server = "store_closed" /\ server' = "reaper_cancelled"
  BY DEF Interrupted
<1>2. CancelJobs(sweep[s].victims) \/ job' = job
  BY <1>1, InterruptEffect
<1>3. /\ job' \in [Jobs -> JobStates]
      /\ \A i \in Jobs :
           /\ job'[i].pc = job[i].pc /\ job'[i].run = job[i].run
           /\ job'[i].awaited = job[i].awaited /\ job'[i].dropped = job[i].dropped
           /\ job[i].cancelled => job'[i].cancelled
           /\ job'[i].cancelled => job[i].cancelled \/ i \in sweep[s].victims
  <2>1. CASE CancelJobs(sweep[s].victims)
    BY <2>1, CancelJobsEffect, Types
  <2>2. CASE job' = job
    BY <2>2, Types
  <2> QED
    BY <1>2, <2>1, <2>2
<1> QED
  BY <1>1, <1>3, InterruptEffect

(* What closing the model client changes.                                  *)
LEMMA CloseProviderEffect ==
  ASSUME Typed, CloseProvider
  PROVE  /\ server = "cancelling" /\ server' = "closed" /\ provider' = "closed"
         /\ sweep[Closer].pc = "reading" /\ sweep[Closer].todo = {}
         /\ planner' = {}
         /\ run' = run /\ tracked' = tracked /\ jobs' = jobs /\ job' = job
         /\ sweep' \in [Sweepers -> SweepStates]
         /\ sweep'[Closer] = NoSweep
         /\ \A u \in Sweepers : u # Closer => sweep'[u] = sweep[u]
<1>1. /\ server = "cancelling" /\ server' = "closed" /\ provider' = "closed"
      /\ sweep[Closer].pc = "reading" /\ sweep[Closer].todo = {}
      /\ planner' = {}
      /\ UNCHANGED <<run, tracked, jobs, job>>
      /\ sweep' = [sweep EXCEPT ![Closer] = NoSweep]
      /\ Closer \in Sweepers
  BY DEF CloseProvider, Sweepers
<1> QED
  BY <1>1, EndEffect

(* Every step of the specification has one of the forms.                   *)
LEMMA StepForms ==
  ASSUME Typed, [Next]_vars
  PROVE  \/ JobForms \/ SweepForms
         \/ \E r \in Runs : Expire(r)
         \/ CloseStore \/ CancelRest \/ CloseProvider
         \/ UNCHANGED vars
<1>1. ASSUME NEW j \in Jobs, JobStep(j) \/ RequestDropped(j) PROVE JobForms
  <2>1. CASE Missed(j) \/ Finishes(j) \/ CancelEnds(j)
    <3>1. EndsAlone(j)
      BY <2>1 DEF Missed, Finishes, CancelEnds, EndsAlone
    <3> QED
      BY <3>1 DEF JobForms
  <2> QED
    BY <1>1, <2>1 DEF JobStep, JobForms
<1>2. ASSUME NEW r \in Runs, NEW j \in Jobs,
             CreateRun(r, j) \/ Continue(r, j) \/ Revise(r, j)
      PROVE  JobForms
  <2>1. CASE CreateRun(r, j)
    <3>1. Submits(j, r)
      BY <2>1 DEF CreateRun, Submits
    <3> QED
      BY <3>1 DEF JobForms
  <2>2. CASE Continue(r, j)
    <3>1. run = [run EXCEPT ![r] = "live"]
      BY <2>2, Types DEF Continue
    <3>2. Submits(j, r)
      BY <2>2, <3>1 DEF Continue, Submits
    <3> QED
      BY <3>2 DEF JobForms
  <2>3. CASE Revise(r, j)
    <3>1. Submits(j, r)
      BY <2>3 DEF Revise, Submits
    <3> QED
      BY <3>1 DEF JobForms
  <2> QED
    BY <1>2, <2>1, <2>2, <2>3
<1>3. CASE \/ server \in {"up", "store_closed"} /\ ReaperWakes
           \/ \E s \in Requests : GetRun(s) \/ \E r \in Runs : DeleteRun(s, r)
  <2>1. \E s \in Sweepers, deletes \in Runs \union {None} : Starts(s, deletes)
    BY <1>3 DEF ReaperWakes, GetRun, DeleteRun, Starts, Sweepers
  <2> QED
    BY <2>1 DEF SweepForms
<1>4. ASSUME NEW s \in Sweepers, SweepStep(s) \/ SweepDropped(s) PROVE SweepForms
  <2>1. sweep[s].todo \subseteq Runs /\ sweep[s].deletes \in Runs \union {None}
    BY Types DEF SweepStates
  <2>2. CASE ReadsGone(s)
    <3>1. \E r \in Runs : Cancels(s, r)
      BY <2>1, <2>2 DEF ReadsGone, Cancels
    <3> QED
      BY <3>1 DEF SweepForms
  <2>3. CASE Deletes(s)
    <3>1. \E r \in Runs : Cancels(s, r)
      BY <2>1, <2>3 DEF Deletes, Cancels
    <3> QED
      BY <3>1 DEF SweepForms
  <2>4. CASE SweepDone(s) \/ GivesUp(s)
    <3>1. Stops(s)
      BY <2>4 DEF SweepDone, GivesUp, Stops
    <3> QED
      BY <3>1 DEF SweepForms
  <2>5. CASE SweepDropped(s)
    <3>1. Interrupted(s)
      BY <2>5 DEF SweepDropped, Interrupted
    <3> QED
      BY <3>1 DEF SweepForms
  <2> QED
    BY <1>4, <2>2, <2>3, <2>4, <2>5 DEF SweepStep, SweepForms
<1>5. CASE StopReaper
  <2>1. Interrupted(Reaper)
    BY <1>5 DEF StopReaper, Interrupted
  <2> QED
    BY <2>1 DEF SweepForms, Sweepers
<1> QED
  BY <1>1, <1>2, <1>3, <1>4, <1>5 DEF Next, Shutdown

(* The variables keep their types.                                         *)
LEMMA TypedStep ==
  ASSUME Typed, JobsInOrder, [Next]_vars
  PROVE  Typed'
<1>1. ASSUME NEW j \in Jobs, Begin(j) PROVE Typed'
  <2>1. job[j].run \in Runs
    BY <1>1, BeginEffect DEF JobsInOrder
  <2>2. /\ planner' \in SUBSET Runs /\ job' \in [Jobs -> JobStates]
        /\ run' = run /\ tracked' = tracked /\ jobs' = jobs /\ sweep' = sweep
        /\ server' = server /\ provider' = provider
    BY <1>1, <2>1, BeginEffect DEF Typed
  <2> QED
    BY <2>2 DEF Typed
<1>2. ASSUME NEW j \in Jobs, EndsAlone(j) PROVE Typed'
  BY <1>2, EndsAloneEffect
    DEF Typed
<1>3. ASSUME NEW j \in Jobs, Unwinds(j) PROVE Typed'
  BY <1>3, UnwindsEffect
    DEF Typed
<1>4. ASSUME NEW j \in Jobs, RequestDropped(j) PROVE Typed'
  BY <1>4, RequestDroppedEffect
    DEF Typed
<1>5. ASSUME NEW j \in Jobs, NEW r \in Runs, Submits(j, r) PROVE Typed'
  BY <1>5, SubmitsEffect
    DEF Typed
<1>6. ASSUME NEW s \in Sweepers, NEW d \in Runs \union {None}, Starts(s, d) PROVE Typed'
  BY <1>6, StartsEffect
    DEF Typed
<1>7. ASSUME NEW s \in Sweepers, NEW r \in Runs, Cancels(s, r) PROVE Typed'
  BY <1>7, CancelsEffect
    DEF Typed
<1>8. ASSUME NEW s \in Sweepers, ReadsLive(s) PROVE Typed'
  BY <1>8, ReadsLiveEffect
    DEF Typed
<1>9. ASSUME NEW s \in Sweepers, Stops(s) PROVE Typed'
  BY <1>9, StopsEffect, IdleSweep
    DEF Typed
<1>10. ASSUME NEW s \in Sweepers, Drained(s) PROVE Typed'
  BY <1>10, DrainedEffect, IdleSweep
    DEF Typed
<1>11. ASSUME NEW s \in Sweepers, Interrupted(s) PROVE Typed'
  BY <1>11, InterruptedEffect, IdleSweep
    DEF Typed
<1>12. ASSUME NEW r \in Runs, Expire(r) PROVE Typed'
  BY <1>12
    DEF Expire, Typed
<1>13. CASE CloseStore
  BY <1>13
    DEF CloseStore, Typed
<1>14. CASE CancelRest
  BY <1>14, CancelRestEffect
    DEF Typed
<1>15. CASE CloseProvider
  BY <1>15, CloseProviderEffect, IdleSweep
    DEF Typed
<1>16. CASE UNCHANGED vars
  BY <1>16
    DEF vars, Typed
<1> QED
  BY <1>1, <1>2, <1>3, <1>4, <1>5, <1>6, <1>7, <1>8, <1>9,
     <1>10, <1>11, <1>12, <1>13, <1>14, <1>15, <1>16, StepForms DEF JobForms, SweepForms

(* Those cancel waits for stay cancelled.                                  *)
LEMMA VictimsStep ==
  ASSUME Typed, VictimsAreCancelled, JobsInOrder, [Next]_vars
  PROVE  VictimsAreCancelled'
<1>1. ASSUME NEW j \in Jobs, Begin(j) PROVE VictimsAreCancelled'
  BY <1>1, Types, BeginEffect
    DEF VictimsAreCancelled
<1>2. ASSUME NEW j \in Jobs, EndsAlone(j) PROVE VictimsAreCancelled'
  <2>1. /\ \A i \in Jobs : i # j => job'[i] = job[i]
        /\ \A s \in Sweepers : /\ sweep'[s].run = sweep[s].run
                              /\ sweep'[s].victims = sweep[s].victims \ {j}
    BY <1>2, EndsAloneEffect
  <2> QED
    BY <2>1, Types DEF VictimsAreCancelled
<1>3. ASSUME NEW j \in Jobs, Unwinds(j) PROVE VictimsAreCancelled'
  <2>1. /\ sweep' = sweep /\ job'[j].run = job[j].run /\ job'[j].pc = "unwinding"
        /\ \A i \in Jobs : i # j => job'[i] = job[i]
    BY <1>3, UnwindsEffect
  <2> QED
    BY <2>1, Types DEF VictimsAreCancelled
<1>4. ASSUME NEW j \in Jobs, RequestDropped(j) PROVE VictimsAreCancelled'
  <2>1. /\ sweep' = sweep /\ job'[j].run = job[j].run /\ job'[j].cancelled
        /\ \A i \in Jobs : i # j => job'[i] = job[i]
    BY <1>4, RequestDroppedEffect
  <2> QED
    BY <2>1, Types DEF VictimsAreCancelled
<1>5. ASSUME NEW j \in Jobs, NEW r \in Runs, Submits(j, r) PROVE VictimsAreCancelled'
  <2>1. /\ sweep' = sweep /\ job[j].pc = "free" /\ ~job[j].cancelled
        /\ \A i \in Jobs : i # j => job'[i] = job[i]
    BY <1>5, SubmitsEffect
  <2> QED
    BY <2>1, Types DEF VictimsAreCancelled
<1>6. ASSUME NEW s \in Sweepers, NEW d \in Runs \union {None}, Starts(s, d) PROVE VictimsAreCancelled'
  <2>1. /\ job' = job /\ sweep'[s].victims = {}
        /\ \A u \in Sweepers : u # s => sweep'[u] = sweep[u]
    BY <1>6, StartsEffect
  <2> QED
    BY <2>1 DEF VictimsAreCancelled
<1>7. ASSUME NEW s \in Sweepers, NEW r \in Runs, Cancels(s, r) PROVE VictimsAreCancelled'
  <2>1. /\ \A i \in Jobs :
             /\ job'[i].pc = job[i].pc /\ job'[i].run = job[i].run
             /\ job[i].cancelled \/ i \in jobs[r] => job'[i].cancelled
        /\ sweep'[s].run = r /\ sweep'[s].victims = jobs[r]
        /\ \A u \in Sweepers : u # s => sweep'[u] = sweep[u]
    BY <1>7, CancelsEffect
  <2>2. \A i \in jobs[r] : i \in Jobs /\ job[i].run = r
    BY Types DEF JobsInOrder
  <2> QED
    BY <2>1, <2>2, Types DEF VictimsAreCancelled
<1>8. ASSUME NEW s \in Sweepers, ReadsLive(s) PROVE VictimsAreCancelled'
  BY <1>8, ReadsLiveEffect
    DEF VictimsAreCancelled
<1>9. ASSUME NEW s \in Sweepers, Stops(s) PROVE VictimsAreCancelled'
  BY <1>9, StopsEffect, IdleSweep
    DEF VictimsAreCancelled
<1>10. ASSUME NEW s \in Sweepers, Drained(s) PROVE VictimsAreCancelled'
  <2>1. /\ job' = job /\ sweep'[s].victims = {}
        /\ \A u \in Sweepers : u # s => sweep'[u] = sweep[u]
    BY <1>10, DrainedEffect, IdleSweep
  <2> QED
    BY <2>1, IdleSweep DEF VictimsAreCancelled
<1>11. ASSUME NEW s \in Sweepers, Interrupted(s) PROVE VictimsAreCancelled'
  <2>1. \A i \in Jobs : /\ job'[i].pc = job[i].pc /\ job'[i].run = job[i].run
                        /\ job[i].cancelled => job'[i].cancelled
    BY <1>11, InterruptedEffect
  <2>2. \/ sweep'[s].run = sweep[s].run /\ sweep'[s].victims = sweep[s].victims
        \/ sweep'[s].victims = {}
    BY <1>11, InterruptedEffect, IdleSweep
  <2>3. \A u \in Sweepers : u # s => sweep'[u] = sweep[u]
    BY <1>11, InterruptedEffect
  <2> QED
    BY <2>1, <2>2, <2>3, Types DEF VictimsAreCancelled
<1>12. ASSUME NEW r \in Runs, Expire(r) PROVE VictimsAreCancelled'
  BY <1>12
    DEF Expire, VictimsAreCancelled
<1>13. CASE CloseStore
  BY <1>13
    DEF CloseStore, VictimsAreCancelled
<1>14. CASE CancelRest
  BY <1>14, CancelRestEffect
    DEF VictimsAreCancelled
<1>15. CASE CloseProvider
  BY <1>15, CloseProviderEffect, IdleSweep
    DEF VictimsAreCancelled
<1>16. CASE UNCHANGED vars
  BY <1>16
    DEF vars, VictimsAreCancelled
<1> QED
  BY <1>1, <1>2, <1>3, <1>4, <1>5, <1>6, <1>7, <1>8, <1>9,
     <1>10, <1>11, <1>12, <1>13, <1>14, <1>15, <1>16, StepForms DEF JobForms, SweepForms

(* Jobs stay registered under their own run.                               *)
LEMMA JobsStep ==
  ASSUME Typed, VictimsAreCancelled, JobsInOrder, [Next]_vars
  PROVE  JobsInOrder'
<1>1. ASSUME NEW j \in Jobs, Begin(j) PROVE JobsInOrder'
  <2>1. /\ jobs' = jobs /\ job[j].pc = "new" /\ job'[j].pc = "working" /\ job'[j].run = job[j].run
        /\ \A i \in Jobs : i # j => job'[i] = job[i]
    BY <1>1, BeginEffect
  <2> QED
    BY <2>1, Types DEF JobsInOrder
<1>2. ASSUME NEW j \in Jobs, EndsAlone(j) PROVE JobsInOrder'
  <2>1. /\ job'[j].pc = "free" /\ ~job'[j].awaited /\ ~job'[j].cancelled
        /\ \A r \in Runs : jobs'[r] = jobs[r] \ {j}
        /\ \A i \in Jobs : i # j => job'[i] = job[i]
    BY <1>2, EndsAloneEffect
  <2> QED
    BY <2>1, Types DEF JobsInOrder
<1>3. ASSUME NEW j \in Jobs, Unwinds(j) PROVE JobsInOrder'
  <2>1. /\ jobs' = jobs /\ job[j].pc = "working" /\ job'[j].pc = "unwinding" /\ job'[j].run = job[j].run
        /\ \A i \in Jobs : i # j => job'[i] = job[i]
    BY <1>3, UnwindsEffect
  <2> QED
    BY <2>1, Types DEF JobsInOrder
<1>4. ASSUME NEW j \in Jobs, RequestDropped(j) PROVE JobsInOrder'
  <2>1. /\ jobs' = jobs /\ job'[j].pc = job[j].pc /\ job'[j].run = job[j].run
        /\ job[j].awaited
        /\ \A i \in Jobs : i # j => job'[i] = job[i]
    BY <1>4, RequestDroppedEffect
  <2> QED
    BY <2>1, Types DEF JobsInOrder
<1>5. ASSUME NEW j \in Jobs, NEW r \in Runs, Submits(j, r) PROVE JobsInOrder'
  <2>1. /\ job[j].pc = "free" /\ job'[j].pc = "new" /\ job'[j].run = r
        /\ jobs'[r] = jobs[r] \union {j}
        /\ \A q \in Runs : q # r => jobs'[q] = jobs[q]
        /\ \A i \in Jobs : i # j => job'[i] = job[i]
    BY <1>5, SubmitsEffect
  <2>2. \A q \in Runs : jobs[q] \subseteq Jobs /\ j \notin jobs[q]
    BY <2>1, Types DEF JobsInOrder
  <2>3. \A q \in Runs : \A i \in jobs'[q] : job'[i].run = q /\ job'[i].pc # "free"
    BY <2>1, <2>2 DEF JobsInOrder
  <2> QED
    BY <2>1, <2>3 DEF JobsInOrder
<1>6. ASSUME NEW s \in Sweepers, NEW d \in Runs \union {None}, Starts(s, d) PROVE JobsInOrder'
  <2>1. jobs' = jobs /\ job' = job
    BY <1>6, StartsEffect
  <2> QED
    BY <2>1 DEF JobsInOrder
<1>7. ASSUME NEW s \in Sweepers, NEW r \in Runs, Cancels(s, r) PROVE JobsInOrder'
  <2>1. /\ \A i \in Jobs :
             /\ job'[i].pc = job[i].pc /\ job'[i].run = job[i].run
             /\ job'[i].awaited = job[i].awaited
             /\ job'[i].cancelled <=> job[i].cancelled \/ i \in jobs[r]
        /\ jobs'[r] = {} /\ \A q \in Runs : q # r => jobs'[q] = jobs[q]
    BY <1>7, CancelsEffect
  <2>2. \A i \in jobs[r] : i \in Jobs /\ job[i].pc # "free"
    BY Types DEF JobsInOrder
  <2> QED
    BY <2>1, <2>2, Types DEF JobsInOrder
<1>8. ASSUME NEW s \in Sweepers, ReadsLive(s) PROVE JobsInOrder'
  BY <1>8, ReadsLiveEffect
    DEF JobsInOrder
<1>9. ASSUME NEW s \in Sweepers, Stops(s) PROVE JobsInOrder'
  BY <1>9, StopsEffect, IdleSweep
    DEF JobsInOrder
<1>10. ASSUME NEW s \in Sweepers, Drained(s) PROVE JobsInOrder'
  BY <1>10, DrainedEffect, IdleSweep
    DEF JobsInOrder
<1>11. ASSUME NEW s \in Sweepers, Interrupted(s) PROVE JobsInOrder'
  <2>1. /\ jobs' = jobs
        /\ \A i \in Jobs :
             /\ job'[i].pc = job[i].pc /\ job'[i].run = job[i].run
             /\ job'[i].awaited = job[i].awaited
             /\ job'[i].cancelled => job[i].cancelled \/ i \in sweep[s].victims
    BY <1>11, InterruptedEffect
  <2>2. \A i \in sweep[s].victims : i \in Jobs /\ job[i].pc # "free"
    BY Types DEF JobsInOrder, VictimsAreCancelled
  <2> QED
    BY <2>1, <2>2, Types DEF JobsInOrder
<1>12. ASSUME NEW r \in Runs, Expire(r) PROVE JobsInOrder'
  BY <1>12
    DEF Expire, JobsInOrder
<1>13. CASE CloseStore
  BY <1>13
    DEF CloseStore, JobsInOrder
<1>14. CASE CancelRest
  BY <1>14, CancelRestEffect
    DEF JobsInOrder
<1>15. CASE CloseProvider
  BY <1>15, CloseProviderEffect, IdleSweep
    DEF JobsInOrder
<1>16. CASE UNCHANGED vars
  BY <1>16
    DEF vars, JobsInOrder
<1> QED
  BY <1>1, <1>2, <1>3, <1>4, <1>5, <1>6, <1>7, <1>8, <1>9,
     <1>10, <1>11, <1>12, <1>13, <1>14, <1>15, <1>16, StepForms DEF JobForms, SweepForms

(* Sweeps stay in order.                                                   *)
LEMMA SweepsStep ==
  ASSUME Typed, JobsInOrder, SweepsInOrder, [Next]_vars
  PROVE  SweepsInOrder'
<1>1. ASSUME NEW j \in Jobs, Begin(j) PROVE SweepsInOrder'
  <2>1. run' = run /\ tracked' = tracked /\ sweep' = sweep
    BY <1>1, BeginEffect
  <2> QED
    BY <2>1 DEF SweepsInOrder
<1>2. ASSUME NEW j \in Jobs, EndsAlone(j) PROVE SweepsInOrder'
  <2>1. /\ run' = run /\ tracked' = tracked
        /\ \A s \in Sweepers :
             /\ sweep'[s].pc = sweep[s].pc /\ sweep'[s].todo = sweep[s].todo
             /\ sweep'[s].dropped = sweep[s].dropped
             /\ sweep'[s].victims = sweep[s].victims \ {j}
    BY <1>2, EndsAloneEffect
  <2> QED
    BY <2>1 DEF SweepsInOrder
<1>3. ASSUME NEW j \in Jobs, Unwinds(j) PROVE SweepsInOrder'
  <2>1. run' = run /\ tracked' = tracked /\ sweep' = sweep
    BY <1>3, UnwindsEffect
  <2> QED
    BY <2>1 DEF SweepsInOrder
<1>4. ASSUME NEW j \in Jobs, RequestDropped(j) PROVE SweepsInOrder'
  <2>1. run' = run /\ tracked' = tracked /\ sweep' = sweep
    BY <1>4, RequestDroppedEffect
  <2> QED
    BY <2>1 DEF SweepsInOrder
<1>5. ASSUME NEW j \in Jobs, NEW r \in Runs, Submits(j, r) PROVE SweepsInOrder'
  <2>1. /\ sweep' = sweep /\ tracked' = tracked \union {r}
        /\ run'[r] # "unborn" /\ \A q \in Runs : q # r => run'[q] = run[q]
    BY <1>5, SubmitsEffect
  <2> QED
    BY <2>1, Types DEF SweepsInOrder
<1>6. ASSUME NEW s \in Sweepers, NEW d \in Runs \union {None}, Starts(s, d) PROVE SweepsInOrder'
  BY <1>6, StartsEffect
    DEF SweepsInOrder
<1>7. ASSUME NEW s \in Sweepers, NEW r \in Runs, Cancels(s, r) PROVE SweepsInOrder'
  BY <1>7, Types, CancelsEffect
    DEF SweepsInOrder
<1>8. ASSUME NEW s \in Sweepers, ReadsLive(s) PROVE SweepsInOrder'
  BY <1>8, ReadsLiveEffect
    DEF SweepsInOrder
<1>9. ASSUME NEW s \in Sweepers, Stops(s) PROVE SweepsInOrder'
  BY <1>9, StopsEffect, IdleSweep
    DEF SweepsInOrder
<1>10. ASSUME NEW s \in Sweepers, Drained(s) PROVE SweepsInOrder'
  <2>1. /\ run' = run /\ tracked' \subseteq tracked
        /\ sweep[s].victims = {} /\ ~sweep[s].dropped
        /\ \A u \in Sweepers : u # s => sweep'[u] = sweep[u]
    BY <1>10, DrainedEffect
  <2>2. /\ sweep'[s].victims = {} /\ ~sweep'[s].dropped
        /\ sweep'[s].todo \subseteq sweep[s].todo
    BY <1>10, DrainedEffect, IdleSweep
  <2> QED
    BY <2>1, <2>2 DEF SweepsInOrder
<1>11. ASSUME NEW s \in Sweepers, Interrupted(s) PROVE SweepsInOrder'
  <2>1. /\ run' = run /\ tracked' = tracked
        /\ \A u \in Sweepers : u # s => sweep'[u] = sweep[u]
    BY <1>11, InterruptedEffect
  <2>2. \/ /\ sweep[s].pc = "draining" /\ sweep'[s].pc = "draining"
           /\ sweep'[s].todo = sweep[s].todo
        \/ /\ sweep'[s].todo = {} /\ sweep'[s].victims = {} /\ ~sweep'[s].dropped
    BY <1>11, InterruptedEffect, IdleSweep
  <2> QED
    BY <2>1, <2>2 DEF SweepsInOrder
<1>12. ASSUME NEW r \in Runs, Expire(r) PROVE SweepsInOrder'
  BY <1>12
    DEF Expire, SweepsInOrder
<1>13. CASE CloseStore
  BY <1>13, Types
    DEF CloseStore, SweepsInOrder
<1>14. CASE CancelRest
  BY <1>14, CancelRestEffect
    DEF SweepsInOrder
<1>15. CASE CloseProvider
  BY <1>15, CloseProviderEffect, IdleSweep
    DEF SweepsInOrder
<1>16. CASE UNCHANGED vars
  BY <1>16
    DEF vars, SweepsInOrder
<1> QED
  BY <1>1, <1>2, <1>3, <1>4, <1>5, <1>6, <1>7, <1>8, <1>9,
     <1>10, <1>11, <1>12, <1>13, <1>14, <1>15, <1>16, StepForms DEF JobForms, SweepForms

(* While a run is drained, only loose jobs come.                           *)
LEMMA DrainedStep ==
  ASSUME Typed, JobsInOrder, SweepsInOrder, DrainedRunsAreGone, [Next]_vars
  PROVE  DrainedRunsAreGone'
<1>1. ASSUME NEW j \in Jobs, Begin(j) PROVE DrainedRunsAreGone'
  BY <1>1, Types, BeginEffect
    DEF DrainedRunsAreGone, Loose
<1>2. ASSUME NEW j \in Jobs, EndsAlone(j) PROVE DrainedRunsAreGone'
  BY <1>2, EndsAloneEffect
    DEF DrainedRunsAreGone, Loose
<1>3. ASSUME NEW j \in Jobs, Unwinds(j) PROVE DrainedRunsAreGone'
  <2>1. /\ sweep' = sweep /\ run' = run /\ jobs' = jobs /\ job[j].pc = "working"
        /\ \A i \in Jobs : i # j => job'[i] = job[i]
    BY <1>3, UnwindsEffect
  <2> QED
    BY <2>1, Types DEF DrainedRunsAreGone, Loose
<1>4. ASSUME NEW j \in Jobs, RequestDropped(j) PROVE DrainedRunsAreGone'
  <2>1. /\ sweep' = sweep /\ run' = run /\ jobs' = jobs
        /\ job'[j].pc = job[j].pc /\ job'[j].run = job[j].run
        /\ job'[j].awaited = job[j].awaited
        /\ \A i \in Jobs : i # j => job'[i] = job[i]
    BY <1>4, RequestDroppedEffect
  <2> QED
    BY <2>1, Types DEF DrainedRunsAreGone, Loose
<1>5. ASSUME NEW j \in Jobs, NEW r \in Runs, Submits(j, r) PROVE DrainedRunsAreGone'
  <2>1. /\ sweep' = sweep /\ job[j].pc = "free"
        /\ \/ run[r] # "gone"
           \/ run'[r] = "gone" /\ job'[j].awaited
           \/ run[r] = run'[r] /\ job'[j].awaited
        /\ \A q \in Runs : q # r => run'[q] = run[q]
    BY <1>5, SubmitsEffect
  <2>2. /\ job'[j].pc = "new" /\ job'[j].run = r
        /\ \A i \in Jobs : i # j => job'[i] = job[i]
        /\ jobs'[r] = jobs[r] \union {j}
        /\ \A q \in Runs : q # r => jobs'[q] = jobs[q]
    BY <1>5, SubmitsEffect
  <2>3. \A q \in Runs : run[q] = "gone" => run'[q] = "gone"
    BY <1>5, SubmitsEffect
  <2>4. \A i \in Jobs : i # j /\ Loose(i) => Loose(i)'
    BY <2>2, <2>3 DEF Loose, JobsInOrder
  <2>5. run[r] = "gone" => Loose(j)'
    BY <2>1, <2>2, <2>3 DEF Loose
  <2>6. \A q \in Runs : jobs[q] \subseteq Jobs /\ j \notin jobs[q]
    BY <2>1, Types DEF JobsInOrder
  <2>7. ASSUME NEW s \in Sweepers, sweep[s].pc = "draining"
        PROVE  /\ sweep[s].run \in Runs /\ run'[sweep[s].run] = "gone"
               /\ \A i \in jobs'[sweep[s].run] : Loose(i)'
    BY <2>2, <2>3, <2>4, <2>5, <2>6, <2>7 DEF DrainedRunsAreGone
  <2> QED
    BY <2>1, <2>7 DEF DrainedRunsAreGone
<1>6. ASSUME NEW s \in Sweepers, NEW d \in Runs \union {None}, Starts(s, d) PROVE DrainedRunsAreGone'
  <2>1. /\ run' = run /\ jobs' = jobs /\ job' = job /\ sweep'[s].pc = "reading"
        /\ \A u \in Sweepers : u # s => sweep'[u] = sweep[u]
    BY <1>6, StartsEffect
  <2> QED
    BY <2>1 DEF DrainedRunsAreGone, Loose
<1>7. ASSUME NEW s \in Sweepers, NEW r \in Runs, Cancels(s, r) PROVE DrainedRunsAreGone'
  <2>1. /\ sweep'[s].run = r
        /\ \A u \in Sweepers : u # s => sweep'[u] = sweep[u]
        /\ jobs'[r] = {} /\ \A q \in Runs : q # r => jobs'[q] = jobs[q]
    BY <1>7, CancelsEffect
  <2>2. run'[r] = "gone" /\ \A q \in Runs : run[q] = "gone" => run'[q] = "gone"
    BY <1>7, CancelsEffect DEF SweepsInOrder
  <2>3. \A i \in Jobs : /\ job'[i].pc = job[i].pc /\ job'[i].run = job[i].run
                        /\ job'[i].awaited = job[i].awaited
    BY <1>7, CancelsEffect
  <2>4. \A i \in Jobs : Loose(i) => Loose(i)'
    BY <2>2, <2>3 DEF Loose, JobsInOrder
  <2>5. \A u \in Sweepers : u # s /\ sweep[u].pc = "draining" =>
          /\ run'[sweep[u].run] = "gone"
          /\ \A i \in jobs'[sweep[u].run] : Loose(i)'
    BY <2>1, <2>2, <2>4, Types DEF DrainedRunsAreGone
  <2> QED
    BY <2>1, <2>2, <2>5 DEF DrainedRunsAreGone
<1>8. ASSUME NEW s \in Sweepers, ReadsLive(s) PROVE DrainedRunsAreGone'
  BY <1>8, ReadsLiveEffect
    DEF DrainedRunsAreGone, Loose
<1>9. ASSUME NEW s \in Sweepers, Stops(s) PROVE DrainedRunsAreGone'
  BY <1>9, StopsEffect, IdleSweep
    DEF DrainedRunsAreGone, Loose
<1>10. ASSUME NEW s \in Sweepers, Drained(s) PROVE DrainedRunsAreGone'
  BY <1>10, DrainedEffect, IdleSweep
    DEF DrainedRunsAreGone, Loose
<1>11. ASSUME NEW s \in Sweepers, Interrupted(s) PROVE DrainedRunsAreGone'
  <2>1. /\ run' = run /\ jobs' = jobs
        /\ \A u \in Sweepers : u # s => sweep'[u] = sweep[u]
        /\ \A i \in Jobs : /\ job'[i].pc = job[i].pc /\ job'[i].run = job[i].run
                           /\ job'[i].awaited = job[i].awaited
    BY <1>11, InterruptedEffect
  <2>2. \/ sweep'[s].pc = "idle"
        \/ sweep'[s].pc = sweep[s].pc /\ sweep'[s].run = sweep[s].run
    BY <1>11, InterruptedEffect, IdleSweep
  <2> QED
    BY <2>1, <2>2, Types DEF DrainedRunsAreGone, Loose
<1>12. ASSUME NEW r \in Runs, Expire(r) PROVE DrainedRunsAreGone'
  BY <1>12
    DEF Expire, DrainedRunsAreGone, Loose
<1>13. CASE CloseStore
  BY <1>13, Types
    DEF CloseStore, DrainedRunsAreGone, Loose
<1>14. CASE CancelRest
  BY <1>14, CancelRestEffect
    DEF DrainedRunsAreGone, Loose
<1>15. CASE CloseProvider
  BY <1>15, CloseProviderEffect, IdleSweep
    DEF DrainedRunsAreGone, Loose
<1>16. CASE UNCHANGED vars
  BY <1>16
    DEF vars, DrainedRunsAreGone, Loose
<1> QED
  BY <1>1, <1>2, <1>3, <1>4, <1>5, <1>6, <1>7, <1>8, <1>9,
     <1>10, <1>11, <1>12, <1>13, <1>14, <1>15, <1>16, StepForms DEF JobForms, SweepForms

(* Every job stays reachable or loose.                                     *)
LEMMA ReachableStep ==
  ASSUME Typed, JobsInOrder, SweepsInOrder, DrainedRunsAreGone,
         EveryJobIsReachable, ShutdownInOrder, [Next]_vars
  PROVE  EveryJobIsReachable'
<1>1. ASSUME NEW j \in Jobs, Begin(j) PROVE EveryJobIsReachable'
  BY <1>1, BeginEffect
    DEF EveryJobIsReachable, Reachable, Loose
<1>2. ASSUME NEW j \in Jobs, EndsAlone(j) PROVE EveryJobIsReachable'
  BY <1>2, Types, EndsAloneEffect
    DEF EveryJobIsReachable, Reachable, Loose
<1>3. ASSUME NEW j \in Jobs, Unwinds(j) PROVE EveryJobIsReachable'
  <2>1. /\ run' = run /\ tracked' = tracked /\ jobs' = jobs /\ sweep' = sweep
        /\ job[j].pc = "working" /\ job'[j].run = job[j].run
        /\ \A i \in Jobs : i # j => job'[i] = job[i]
    BY <1>3, UnwindsEffect
  <2> QED
    BY <2>1 DEF EveryJobIsReachable, Reachable, Loose
<1>4. ASSUME NEW j \in Jobs, RequestDropped(j) PROVE EveryJobIsReachable'
  BY <1>4, RequestDroppedEffect
    DEF EveryJobIsReachable, Reachable, Loose
<1>5. ASSUME NEW j \in Jobs, NEW r \in Runs, Submits(j, r) PROVE EveryJobIsReachable'
  <2>1. /\ sweep' = sweep /\ job'[j].run = r
        /\ tracked' = tracked \union {r} /\ jobs'[r] = jobs[r] \union {j}
        /\ \A q \in Runs : q # r => jobs'[q] = jobs[q]
        /\ \A i \in Jobs : i # j => job'[i] = job[i]
    BY <1>5, SubmitsEffect
  <2>2. \A q \in Runs : run[q] = "gone" => run'[q] = "gone"
    BY <1>5, SubmitsEffect
  <2>3. Reachable(j)'
    BY <2>1 DEF Reachable
  <2>4. ASSUME NEW i \in Jobs, i # j, job[i].pc # "free"
        PROVE  Loose(i)' \/ Reachable(i)'
    <3>1. job[i].run \in Runs
      BY <2>4 DEF JobsInOrder
    <3>2. Loose(i) => Loose(i)'
      BY <2>1, <2>2, <2>4, <3>1 DEF Loose
    <3>3. Reachable(i) => Reachable(i)'
      BY <2>1, <2>4, <3>1 DEF Reachable
    <3> QED
      BY <2>4, <3>2, <3>3 DEF EveryJobIsReachable
  <2> QED
    BY <2>1, <2>3, <2>4 DEF EveryJobIsReachable
<1>6. ASSUME NEW s \in Sweepers, NEW d \in Runs \union {None}, Starts(s, d) PROVE EveryJobIsReachable'
  <2>1. /\ run' = run /\ tracked' = tracked /\ jobs' = jobs /\ job' = job
        /\ sweep[s].pc = "idle"
        /\ \A u \in Sweepers : u # s => sweep'[u] = sweep[u]
    BY <1>6, StartsEffect
  <2>2. sweep[s].victims = {}
    BY <2>1 DEF SweepsInOrder
  <2> QED
    BY <2>1, <2>2 DEF EveryJobIsReachable, Reachable, Loose
<1>7. ASSUME NEW s \in Sweepers, NEW r \in Runs, Cancels(s, r) PROVE EveryJobIsReachable'
  <2>1. /\ sweep[s].pc = "reading" /\ tracked' = tracked
        /\ \A u \in Sweepers : u # s => sweep'[u] = sweep[u]
        /\ sweep'[s].victims = jobs[r]
        /\ \A q \in Runs : q # r => jobs'[q] = jobs[q]
    BY <1>7, CancelsEffect
  <2>2. \A q \in Runs : run[q] = "gone" => run'[q] = "gone"
    BY <1>7, CancelsEffect
  <2>3. \A i \in Jobs : /\ job'[i].pc = job[i].pc /\ job'[i].run = job[i].run
                        /\ job'[i].awaited = job[i].awaited
    BY <1>7, CancelsEffect
  <2>4. sweep[s].victims = {}
    BY <2>1 DEF SweepsInOrder
  <2>5. ASSUME NEW i \in Jobs, job[i].pc # "free"
        PROVE  Loose(i)' \/ Reachable(i)'
    <3>1. job[i].run \in Runs
      BY <2>5 DEF JobsInOrder
    <3>2. Loose(i) => Loose(i)'
      BY <2>2, <2>3, <3>1 DEF Loose
    <3>3. CASE i \in jobs[r]
      BY <2>1, <3>3 DEF Reachable
    <3>4. CASE i \notin jobs[r] /\ Reachable(i)
      BY <2>1, <2>3, <2>4, <3>1, <3>4 DEF Reachable
    <3> QED
      BY <2>5, <3>2, <3>3, <3>4 DEF EveryJobIsReachable
  <2> QED
    BY <2>3, <2>5 DEF EveryJobIsReachable
<1>8. ASSUME NEW s \in Sweepers, ReadsLive(s) PROVE EveryJobIsReachable'
  BY <1>8, ReadsLiveEffect
    DEF EveryJobIsReachable, Reachable, Loose
<1>9. ASSUME NEW s \in Sweepers, Stops(s) PROVE EveryJobIsReachable'
  <2>1. /\ run' = run /\ tracked' = tracked /\ jobs' = jobs /\ job' = job
        /\ \A u \in Sweepers : u # s => sweep'[u] = sweep[u]
    BY <1>9, StopsEffect
  <2>2. sweep[s].victims = {}
    BY <1>9, StopsEffect DEF SweepsInOrder
  <2> QED
    BY <2>1, <2>2 DEF EveryJobIsReachable, Reachable, Loose
<1>10. ASSUME NEW s \in Sweepers, Drained(s) PROVE EveryJobIsReachable'
  <2>1. /\ sweep[s].pc = "draining" /\ sweep[s].victims = {}
        /\ tracked' = tracked \ {sweep[s].run}
        /\ run' = run /\ jobs' = jobs /\ job' = job
        /\ \A u \in Sweepers : u # s => sweep'[u] = sweep[u]
    BY <1>10, DrainedEffect
  <2>2. \A i \in jobs[sweep[s].run] : Loose(i)
    BY <2>1 DEF DrainedRunsAreGone
  <2> QED
    BY <2>1, <2>2 DEF EveryJobIsReachable, Reachable, Loose
<1>11. ASSUME NEW s \in Sweepers, Interrupted(s) PROVE EveryJobIsReachable'
  <2>1. /\ run' = run /\ tracked' = tracked /\ jobs' = jobs
        /\ \A u \in Sweepers : u # s => sweep'[u] = sweep[u]
        /\ \A i \in Jobs : /\ job'[i].pc = job[i].pc /\ job'[i].run = job[i].run
                           /\ job'[i].awaited = job[i].awaited
    BY <1>11, InterruptedEffect
  <2>2. sweep'[s].victims = sweep[s].victims \/ sweep[s].victims = {}
    BY <1>11, InterruptedEffect DEF SweepsInOrder
  <2> QED
    BY <2>1, <2>2 DEF EveryJobIsReachable, Reachable, Loose
<1>12. ASSUME NEW r \in Runs, Expire(r) PROVE EveryJobIsReachable'
  BY <1>12
    DEF Expire, EveryJobIsReachable, Reachable, Loose
<1>13. CASE CloseStore
  BY <1>13
    DEF CloseStore, EveryJobIsReachable, Reachable, Loose
<1>14. CASE CancelRest
  <2>1. /\ run' = run /\ tracked' = tracked /\ jobs' = jobs /\ job' = job
        /\ \A u \in Sweepers : u # Closer => sweep'[u] = sweep[u]
        /\ server = "reaper_cancelled"
    BY <1>14, CancelRestEffect
  <2>2. sweep[Closer].pc = "idle" /\ Closer \in Sweepers
    BY <2>1 DEF ShutdownInOrder, Sweepers
  <2>3. sweep[Closer].victims = {}
    BY <2>2 DEF SweepsInOrder
  <2> QED
    BY <2>1, <2>3 DEF EveryJobIsReachable, Reachable, Loose
<1>15. CASE CloseProvider
  <2>1. /\ run' = run /\ tracked' = tracked /\ jobs' = jobs /\ job' = job
        /\ \A u \in Sweepers : u # Closer => sweep'[u] = sweep[u]
    BY <1>15, CloseProviderEffect
  <2>2. sweep[Closer].victims = {}
    BY <1>15, CloseProviderEffect DEF SweepsInOrder, Sweepers
  <2> QED
    BY <2>1, <2>2 DEF EveryJobIsReachable, Reachable, Loose
<1>16. CASE UNCHANGED vars
  BY <1>16
    DEF vars, EveryJobIsReachable, Reachable, Loose
<1> QED
  BY <1>1, <1>2, <1>3, <1>4, <1>5, <1>6, <1>7, <1>8, <1>9,
     <1>10, <1>11, <1>12, <1>13, <1>14, <1>15, <1>16, StepForms DEF JobForms, SweepForms

(* Shutdown goes on in order.                                              *)
LEMMA ShutdownStep ==
  ASSUME Typed, JobsInOrder, SweepsInOrder, DrainedRunsAreGone,
         EveryJobIsReachable, ShutdownInOrder, [Next]_vars
  PROVE  ShutdownInOrder'
<1>1. ASSUME NEW j \in Jobs, Begin(j) PROVE ShutdownInOrder'
  BY <1>1, BeginEffect
    DEF ShutdownInOrder, Draining
<1>2. ASSUME NEW j \in Jobs, EndsAlone(j) PROVE ShutdownInOrder'
  <2>1. /\ run' = run /\ tracked' = tracked /\ server' = server /\ provider' = provider
        /\ job'[j].pc = "free" /\ ~job'[j].awaited
        /\ \A i \in Jobs : i # j => job'[i] = job[i]
        /\ \A s \in Sweepers : /\ sweep'[s].pc = sweep[s].pc /\ sweep'[s].run = sweep[s].run
                               /\ sweep'[s].todo = sweep[s].todo
                               /\ sweep'[s].deletes = sweep[s].deletes
                               /\ sweep'[s].dropped = sweep[s].dropped
    BY <1>2, EndsAloneEffect
  <2>s. Reaper \in Sweepers /\ Closer \in Sweepers /\ Requests \subseteq Sweepers
    BY DEF Sweepers
  <2> QED
    BY <2>1, <2>s DEF ShutdownInOrder, Draining
<1>3. ASSUME NEW j \in Jobs, Unwinds(j) PROVE ShutdownInOrder'
  <2>1. /\ run' = run /\ tracked' = tracked /\ server' = server /\ provider' = provider
        /\ sweep' = sweep /\ job[j].pc = "working" /\ job'[j].awaited = job[j].awaited
        /\ \A i \in Jobs : i # j => job'[i] = job[i]
    BY <1>3, UnwindsEffect
  <2> QED
    BY <2>1 DEF ShutdownInOrder, Draining
<1>4. ASSUME NEW j \in Jobs, RequestDropped(j) PROVE ShutdownInOrder'
  BY <1>4, RequestDroppedEffect
    DEF ShutdownInOrder, Draining
<1>5. ASSUME NEW j \in Jobs, NEW r \in Runs, Submits(j, r) PROVE ShutdownInOrder'
  BY <1>5, SubmitsEffect
    DEF ShutdownInOrder, Draining
<1>6. ASSUME NEW s \in Sweepers, NEW d \in Runs \union {None}, Starts(s, d) PROVE ShutdownInOrder'
  <2>1. /\ run' = run /\ tracked' = tracked /\ job' = job
        /\ server' = server /\ provider' = provider
        /\ \A u \in Sweepers : u # s => sweep'[u] = sweep[u]
        /\ \/ s = Reaper /\ server \in {"up", "store_closed"}
           \/ s \in Requests /\ server = "up"
    BY <1>6, StartsEffect
  <2>s. Reaper \in Sweepers /\ Closer \in Sweepers /\ Requests \subseteq Sweepers
    BY DEF Sweepers
  <2> QED
    BY <2>1, <2>s, ActorsAssumption DEF ShutdownInOrder, Draining
<1>7. ASSUME NEW s \in Sweepers, NEW r \in Runs, Cancels(s, r) PROVE ShutdownInOrder'
  <2>1. /\ sweep[s].pc = "reading" /\ tracked' = tracked
        /\ server' = server /\ provider' = provider
        /\ \A u \in Sweepers : u # s => sweep'[u] = sweep[u]
        /\ \A i \in Jobs : job'[i].pc = job[i].pc /\ job'[i].awaited = job[i].awaited
    BY <1>7, CancelsEffect
  <2>2. /\ sweep'[s].pc = "draining" /\ sweep'[s].todo = sweep[s].todo \ {r}
        /\ sweep'[s].run = r
        /\ sweep'[s].deletes = sweep[s].deletes /\ sweep'[s].dropped = sweep[s].dropped
    BY <1>7, CancelsEffect
  <2>3. \A q \in Runs : run[q] = "gone" => run'[q] = "gone"
    BY <1>7, CancelsEffect
  <2>s. Reaper \in Sweepers /\ Closer \in Sweepers /\ Requests \subseteq Sweepers
    BY DEF Sweepers
  <2>4. CASE s = Closer
    BY <2>1, <2>2, <2>3, <2>4, <2>s, ActorsAssumption DEF ShutdownInOrder, Draining
  <2>5. CASE s # Closer
    BY <2>1, <2>2, <2>3, <2>5, <2>s, ActorsAssumption DEF ShutdownInOrder, Draining
  <2> QED
    BY <2>4, <2>5
<1>8. ASSUME NEW s \in Sweepers, ReadsLive(s) PROVE ShutdownInOrder'
  <2>1. /\ sweep[s].pc = "reading"
        /\ run' = run /\ tracked' = tracked /\ job' = job
        /\ server' = server /\ provider' = provider
        /\ sweep'[s].pc = sweep[s].pc /\ sweep'[s].run = sweep[s].run
        /\ sweep'[s].deletes = sweep[s].deletes /\ sweep'[s].dropped = sweep[s].dropped
        /\ \A u \in Sweepers : u # s => sweep'[u] = sweep[u]
        /\ \E r \in sweep[s].todo : run[r] = "live"
    BY <1>8, ReadsLiveEffect
  <2>s. Reaper \in Sweepers /\ Closer \in Sweepers /\ Requests \subseteq Sweepers
    BY DEF Sweepers
  <2>2. server = "up" \/ (s # Closer /\ server \in {"store_closed", "reaper_cancelled"})
    BY <2>1, <2>s, Types DEF ShutdownInOrder, Sweepers, Typed
  <2> QED
    BY <2>1, <2>2, <2>s, ActorsAssumption DEF ShutdownInOrder, Draining
<1>9. ASSUME NEW s \in Sweepers, Stops(s) PROVE ShutdownInOrder'
  <2>1. /\ run' = run /\ tracked' = tracked /\ job' = job
        /\ server' = server /\ provider' = provider
        /\ (sweep[s].pc = "reading" /\ s # Closer) \/ sweep[s].dropped
        /\ \A u \in Sweepers : u # s => sweep'[u] = sweep[u]
    BY <1>9, StopsEffect
  <2>2. sweep'[s].pc = "idle"
    BY <1>9, StopsEffect, IdleSweep
  <2>3. s # Closer
    BY <2>1 DEF ShutdownInOrder
  <2>s. Reaper \in Sweepers /\ Closer \in Sweepers /\ Requests \subseteq Sweepers
    BY DEF Sweepers
  <2> QED
    BY <2>1, <2>2, <2>3, <2>s, ActorsAssumption DEF ShutdownInOrder, Draining
<1>10. ASSUME NEW s \in Sweepers, Drained(s) PROVE ShutdownInOrder'
  <2>1. /\ run' = run /\ tracked' = tracked \ {sweep[s].run} /\ job' = job
        /\ server' = server /\ provider' = provider
        /\ sweep[s].pc = "draining" /\ ~sweep[s].dropped
        /\ \A u \in Sweepers : u # s => sweep'[u] = sweep[u]
    BY <1>10, DrainedEffect
  <2>s. Reaper \in Sweepers /\ Closer \in Sweepers /\ Requests \subseteq Sweepers
    BY DEF Sweepers
  <2>2. CASE s = Closer
    <3>1. sweep[s].run # sweep[s].deletes
      BY <2>1, <2>2, ActorsAssumption DEF ShutdownInOrder, DrainedRunsAreGone
    <3>2. /\ sweep'[s].pc = "reading" /\ sweep'[s].todo = sweep[s].todo
          /\ sweep'[s].deletes = sweep[s].deletes /\ sweep'[s].dropped = sweep[s].dropped
      BY <1>10, <3>1, DrainedEffect
    <3> QED
      BY <2>1, <2>2, <2>s, <3>2, ActorsAssumption DEF ShutdownInOrder, Draining
  <2>3. CASE s # Closer
    BY <2>1, <2>3, <2>s, ActorsAssumption DEF ShutdownInOrder, Draining
  <2> QED
    BY <2>2, <2>3
<1>11. ASSUME NEW s \in Sweepers, Interrupted(s) PROVE ShutdownInOrder'
  <2>1. /\ run' = run /\ tracked' = tracked /\ provider' = provider
        /\ \A u \in Sweepers : u # s => sweep'[u] = sweep[u]
        /\ \A i \in Jobs : job'[i].pc = job[i].pc /\ job'[i].awaited = job[i].awaited
    BY <1>11, InterruptedEffect
  <2>2. \/ s \in Requests /\ sweep[s].pc # "idle" /\ server' = server
        \/ s = Reaper /\ server = "store_closed" /\ server' = "reaper_cancelled"
    BY <1>11, InterruptedEffect
  <2>3. sweep'[s].pc = "idle" \/ sweep'[s].dropped
    BY <1>11, InterruptedEffect, IdleSweep
  <2>s. Reaper \in Sweepers /\ Closer \in Sweepers /\ Requests \subseteq Sweepers
    BY DEF Sweepers
  <2> QED
    BY <2>1, <2>2, <2>3, <2>s, ActorsAssumption DEF ShutdownInOrder, Draining
<1>12. ASSUME NEW r \in Runs, Expire(r) PROVE ShutdownInOrder'
  BY <1>12
    DEF Expire, ShutdownInOrder, Draining
<1>13. CASE CloseStore
  BY <1>13
    DEF CloseStore, ShutdownInOrder, Draining
<1>14. CASE CancelRest
  <2>1. /\ server = "reaper_cancelled" /\ server' = "cancelling"
        /\ sweep[Reaper].pc = "idle"
        /\ run' = run /\ tracked' = tracked /\ job' = job /\ provider' = provider
        /\ sweep'[Closer].todo = tracked
        /\ sweep'[Closer].deletes = None /\ ~sweep'[Closer].dropped
        /\ \A u \in Sweepers : u # Closer => sweep'[u] = sweep[u]
    BY <1>14, CancelRestEffect
  <2>s. Reaper \in Sweepers /\ Closer \in Sweepers /\ Requests \subseteq Sweepers
    BY DEF Sweepers
  <2> QED
    BY <2>1, <2>s, ActorsAssumption DEF ShutdownInOrder, Draining
<1>15. CASE CloseProvider
  <2>1. /\ server = "cancelling" /\ server' = "closed"
        /\ sweep[Closer].pc = "reading" /\ sweep[Closer].todo = {}
        /\ run' = run /\ tracked' = tracked /\ jobs' = jobs /\ job' = job
        /\ \A u \in Sweepers : u # Closer => sweep'[u] = sweep[u]
    BY <1>15, CloseProviderEffect
  <2>2. sweep'[Closer].pc = "idle" /\ sweep'[Closer].deletes = None /\ ~sweep'[Closer].dropped
    BY <1>15, CloseProviderEffect, IdleSweep
  <2>s. Reaper \in Sweepers /\ Closer \in Sweepers /\ Requests \subseteq Sweepers
    BY DEF Sweepers
  <2>3. tracked = {}
    BY <2>1 DEF ShutdownInOrder, Draining
  <2>4. \A s \in Sweepers : sweep[s].victims = {}
    BY <2>1, <2>s DEF ShutdownInOrder, SweepsInOrder, Sweepers
  <2>5. \A j \in Jobs : ~job[j].awaited
    BY <2>1 DEF ShutdownInOrder
  <2>6. \A j \in Jobs : job[j].pc = "free"
    BY <2>3, <2>4, <2>5 DEF EveryJobIsReachable, Loose, Reachable
  <2> QED
    BY <2>1, <2>2, <2>6, <2>s, ActorsAssumption DEF ShutdownInOrder, Draining
<1>16. CASE UNCHANGED vars
  BY <1>16
    DEF vars, ShutdownInOrder, Draining
<1> QED
  BY <1>1, <1>2, <1>3, <1>4, <1>5, <1>6, <1>7, <1>8, <1>9,
     <1>10, <1>11, <1>12, <1>13, <1>14, <1>15, <1>16, StepForms DEF JobForms, SweepForms

(* Planners stay with tracked runs.                                        *)
LEMMA PlannersStep ==
  ASSUME Typed, VictimsAreCancelled, JobsInOrder, SweepsInOrder, DrainedRunsAreGone,
         EveryJobIsReachable, PlannersAreReleased, [Next]_vars
  PROVE  PlannersAreReleased'
<1>1. ASSUME NEW j \in Jobs, Begin(j) PROVE PlannersAreReleased'
  <2>1. /\ job[j].pc = "new" /\ run[job[j].run] = "live"
        /\ planner' = planner \union {job[j].run} /\ tracked' = tracked
    BY <1>1, BeginEffect
  <2>2. ~Loose(j) /\ \A s \in Sweepers : j \notin sweep[s].victims
    BY <2>1 DEF Loose, VictimsAreCancelled, SweepsInOrder, DrainedRunsAreGone
  <2>3. job[j].run \in tracked
    BY <2>1, <2>2 DEF EveryJobIsReachable, Reachable
  <2> QED
    BY <2>1, <2>3 DEF PlannersAreReleased
<1>2. ASSUME NEW j \in Jobs, EndsAlone(j) PROVE PlannersAreReleased'
  BY <1>2, EndsAloneEffect
    DEF PlannersAreReleased
<1>3. ASSUME NEW j \in Jobs, Unwinds(j) PROVE PlannersAreReleased'
  BY <1>3, UnwindsEffect
    DEF PlannersAreReleased
<1>4. ASSUME NEW j \in Jobs, RequestDropped(j) PROVE PlannersAreReleased'
  BY <1>4, RequestDroppedEffect
    DEF PlannersAreReleased
<1>5. ASSUME NEW j \in Jobs, NEW r \in Runs, Submits(j, r) PROVE PlannersAreReleased'
  <2>1. planner' = planner /\ tracked' = tracked \union {r}
    BY <1>5, SubmitsEffect
  <2> QED
    BY <2>1 DEF PlannersAreReleased
<1>6. ASSUME NEW s \in Sweepers, NEW d \in Runs \union {None}, Starts(s, d) PROVE PlannersAreReleased'
  BY <1>6, StartsEffect
    DEF PlannersAreReleased
<1>7. ASSUME NEW s \in Sweepers, NEW r \in Runs, Cancels(s, r) PROVE PlannersAreReleased'
  BY <1>7, CancelsEffect
    DEF PlannersAreReleased
<1>8. ASSUME NEW s \in Sweepers, ReadsLive(s) PROVE PlannersAreReleased'
  BY <1>8, ReadsLiveEffect
    DEF PlannersAreReleased
<1>9. ASSUME NEW s \in Sweepers, Stops(s) PROVE PlannersAreReleased'
  BY <1>9, StopsEffect, IdleSweep
    DEF PlannersAreReleased
<1>10. ASSUME NEW s \in Sweepers, Drained(s) PROVE PlannersAreReleased'
  BY <1>10, DrainedEffect, IdleSweep
    DEF PlannersAreReleased
<1>11. ASSUME NEW s \in Sweepers, Interrupted(s) PROVE PlannersAreReleased'
  BY <1>11, InterruptedEffect, IdleSweep
    DEF PlannersAreReleased
<1>12. ASSUME NEW r \in Runs, Expire(r) PROVE PlannersAreReleased'
  BY <1>12
    DEF Expire, PlannersAreReleased
<1>13. CASE CloseStore
  BY <1>13
    DEF CloseStore, PlannersAreReleased
<1>14. CASE CancelRest
  BY <1>14, CancelRestEffect
    DEF PlannersAreReleased
<1>15. CASE CloseProvider
  BY <1>15, CloseProviderEffect, IdleSweep
    DEF PlannersAreReleased
<1>16. CASE UNCHANGED vars
  BY <1>16
    DEF vars, PlannersAreReleased
<1> QED
  BY <1>1, <1>2, <1>3, <1>4, <1>5, <1>6, <1>7, <1>8, <1>9,
     <1>10, <1>11, <1>12, <1>13, <1>14, <1>15, <1>16, StepForms DEF JobForms, SweepForms

(* Every cancellation keeps its cause.                                     *)
LEMMA CauseStep ==
  ASSUME Typed, VictimsAreCancelled, JobsInOrder, SweepsInOrder,
         DrainedRunsAreGone, CancelledForCause, [Next]_vars
  PROVE  CancelledForCause'
<1>1. ASSUME NEW j \in Jobs, Begin(j) PROVE CancelledForCause'
  <2>1. /\ run' = run
        /\ job'[j].run = job[j].run /\ job'[j].dropped = job[j].dropped
        /\ job'[j].cancelled = job[j].cancelled /\ job'[j].pc = "working"
        /\ \A i \in Jobs : i # j => job'[i] = job[i]
    BY <1>1, BeginEffect
  <2> QED
    BY <2>1 DEF CancelledForCause
<1>2. ASSUME NEW j \in Jobs, EndsAlone(j) PROVE CancelledForCause'
  <2>1. /\ run' = run /\ job'[j].pc = "free" /\ ~job'[j].cancelled
        /\ \A i \in Jobs : i # j => job'[i] = job[i]
    BY <1>2, EndsAloneEffect
  <2> QED
    BY <2>1 DEF CancelledForCause
<1>3. ASSUME NEW j \in Jobs, Unwinds(j) PROVE CancelledForCause'
  <2>1. job[j].cancelled
    BY <1>3 DEF Unwinds
  <2>2. /\ run' = run
        /\ job'[j].run = job[j].run /\ job'[j].dropped = job[j].dropped
        /\ \A i \in Jobs : i # j => job'[i] = job[i]
    BY <1>3, UnwindsEffect
  <2> QED
    BY <2>1, <2>2 DEF CancelledForCause
<1>4. ASSUME NEW j \in Jobs, RequestDropped(j) PROVE CancelledForCause'
  <2>1. /\ run' = run /\ job'[j].dropped
        /\ \A i \in Jobs : i # j => job'[i] = job[i]
    BY <1>4, RequestDroppedEffect
  <2> QED
    BY <2>1 DEF CancelledForCause
<1>5. ASSUME NEW j \in Jobs, NEW r \in Runs, Submits(j, r) PROVE CancelledForCause'
  <2>1. /\ job'[j].pc = "new" /\ ~job'[j].cancelled
        /\ \A i \in Jobs : i # j => job'[i] = job[i]
    BY <1>5, SubmitsEffect
  <2>2. \A q \in Runs : run[q] = "gone" => run'[q] = "gone"
    BY <1>5, SubmitsEffect
  <2>3. \A i \in Jobs : job[i].cancelled \/ job[i].pc = "unwinding" => job[i].run \in Runs
    BY Types DEF JobsInOrder
  <2> QED
    BY <2>1, <2>2, <2>3 DEF CancelledForCause
<1>6. ASSUME NEW s \in Sweepers, NEW d \in Runs \union {None}, Starts(s, d) PROVE CancelledForCause'
  BY <1>6, StartsEffect
    DEF CancelledForCause
<1>7. ASSUME NEW s \in Sweepers, NEW r \in Runs, Cancels(s, r) PROVE CancelledForCause'
  <2>1. \A i \in Jobs :
          /\ job'[i].pc = job[i].pc /\ job'[i].run = job[i].run
          /\ job'[i].dropped = job[i].dropped
          /\ job'[i].cancelled <=> job[i].cancelled \/ i \in jobs[r]
    BY <1>7, CancelsEffect
  <2>2. run'[r] = "gone" /\ \A q \in Runs : run[q] = "gone" => run'[q] = "gone"
    BY <1>7, CancelsEffect DEF SweepsInOrder
  <2>3. \A i \in jobs[r] : job[i].run = r
    BY DEF JobsInOrder
  <2>4. \A i \in Jobs : job[i].cancelled \/ job[i].pc = "unwinding" => job[i].run \in Runs
    BY DEF JobsInOrder
  <2> QED
    BY <2>1, <2>2, <2>3, <2>4 DEF CancelledForCause
<1>8. ASSUME NEW s \in Sweepers, ReadsLive(s) PROVE CancelledForCause'
  BY <1>8, ReadsLiveEffect
    DEF CancelledForCause
<1>9. ASSUME NEW s \in Sweepers, Stops(s) PROVE CancelledForCause'
  BY <1>9, StopsEffect, IdleSweep
    DEF CancelledForCause
<1>10. ASSUME NEW s \in Sweepers, Drained(s) PROVE CancelledForCause'
  BY <1>10, DrainedEffect, IdleSweep
    DEF CancelledForCause
<1>11. ASSUME NEW s \in Sweepers, Interrupted(s) PROVE CancelledForCause'
  <2>1. /\ run' = run
        /\ \A i \in Jobs :
             /\ job'[i].pc = job[i].pc /\ job'[i].run = job[i].run
             /\ job'[i].dropped = job[i].dropped
             /\ job'[i].cancelled => job[i].cancelled \/ i \in sweep[s].victims
    BY <1>11, InterruptedEffect
  <2>2. \A i \in sweep[s].victims : run[job[i].run] = "gone"
    BY DEF VictimsAreCancelled, DrainedRunsAreGone, SweepsInOrder
  <2> QED
    BY <2>1, <2>2 DEF CancelledForCause
<1>12. ASSUME NEW r \in Runs, Expire(r) PROVE CancelledForCause'
  BY <1>12
    DEF Expire, CancelledForCause
<1>13. CASE CloseStore
  <2>1. job' = job /\ run' = [r \in Runs |-> "gone"]
    BY <1>13 DEF CloseStore
  <2>2. \A i \in Jobs : job[i].cancelled \/ job[i].pc = "unwinding" => job[i].run \in Runs
    BY DEF JobsInOrder
  <2> QED
    BY <2>1, <2>2 DEF CancelledForCause
<1>14. CASE CancelRest
  BY <1>14, CancelRestEffect
    DEF CancelledForCause
<1>15. CASE CloseProvider
  BY <1>15, CloseProviderEffect, IdleSweep
    DEF CancelledForCause
<1>16. CASE UNCHANGED vars
  BY <1>16
    DEF vars, CancelledForCause
<1> QED
  BY <1>1, <1>2, <1>3, <1>4, <1>5, <1>6, <1>7, <1>8, <1>9,
     <1>10, <1>11, <1>12, <1>13, <1>14, <1>15, <1>16, StepForms DEF JobForms, SweepForms

-----------------------------------------------------------------------------
(* The theorems.                                                           *)

(* The server starts with nothing to reach.                                *)
LEMMA InitialState == Init => RunnerInv
<1> SUFFICES ASSUME Init PROVE RunnerInv
  OBVIOUS
<1>1. Typed
  BY DEF Init, Typed, NoJob, NoSweep, JobStates, SweepStates
<1>2. \A j \in Jobs : job[j].pc = "free" /\ ~job[j].awaited /\ ~job[j].cancelled
  BY DEF Init, NoJob
<1>3. \A s \in Sweepers :
        /\ sweep[s].pc = "idle" /\ sweep[s].victims = {} /\ ~sweep[s].dropped
        /\ sweep[s].todo = {} /\ sweep[s].deletes = None
  BY IdleSweep DEF Init
<1>4. tracked = {} /\ planner = {} /\ server = "up" /\ provider = "open" /\ \A r \in Runs : jobs[r] = {}
  BY DEF Init
<1>5. Closer \in Sweepers
  BY DEF Sweepers
<1> QED
  BY <1>1, <1>2, <1>3, <1>4, <1>5, TypeParts
    DEF RunnerInv, VictimsAreCancelled, JobsInOrder, SweepsInOrder,
        DrainedRunsAreGone, EveryJobIsReachable, ShutdownInOrder,
        PlannersAreReleased, CancelledForCause

(* RunnerInv holds in every state of task_runner.py and its callers.       *)
THEOREM RunnerInvariant == Spec => []RunnerInv
<1>1. RunnerInv /\ [Next]_vars => RunnerInv'
  <2> SUFFICES ASSUME RunnerInv, [Next]_vars PROVE RunnerInv'
    OBVIOUS
  <2>1. /\ Typed /\ VictimsAreCancelled /\ JobsInOrder /\ SweepsInOrder
        /\ DrainedRunsAreGone /\ EveryJobIsReachable /\ ShutdownInOrder
        /\ PlannersAreReleased /\ CancelledForCause
    BY TypeParts DEF RunnerInv
  <2>2. Typed' /\ VictimsAreCancelled'
    BY <2>1, TypedStep, VictimsStep
  <2>3. TypeOK'
    BY <2>2 DEF TypeOK, Typed, VictimsAreCancelled
  <2>4. JobsInOrder' /\ SweepsInOrder' /\ DrainedRunsAreGone'
    BY <2>1, JobsStep, SweepsStep, DrainedStep
  <2>5. EveryJobIsReachable' /\ ShutdownInOrder'
    BY <2>1, ReachableStep, ShutdownStep
  <2>6. PlannersAreReleased' /\ CancelledForCause'
    BY <2>1, PlannersStep, CauseStep
  <2> QED
    BY <2>3, <2>4, <2>5, <2>6 DEF RunnerInv
<1> QED
  BY <1>1, InitialState, PTL DEF Spec

(* The task runner's variables keep their types, and every job a sweep     *)
(* waits for has been cancelled.                                           *)
THEOREM TypeCorrect == Spec => []TypeOK
<1>1. RunnerInv => TypeOK
  BY DEF RunnerInv
<1> QED
  BY <1>1, RunnerInvariant, PTL

(* No job that has begun is ever out of the reach of those who cancel.     *)
THEOREM JobsStayInReach == Spec => []NoJobEscapes
<1>1. RunnerInv => NoJobEscapes
  BY DEF RunnerInv, EveryJobIsReachable, Reachable, Loose, NoJobEscapes
<1> QED
  BY <1>1, RunnerInvariant, PTL

(* aclose closes the model client only when every job has ended.           *)
THEOREM ClientClosesLast == Spec => []ProviderOutlivesJobs
<1>1. RunnerInv => ProviderOutlivesJobs
  BY DEF RunnerInv, ShutdownInOrder, ProviderOutlivesJobs
<1> QED
  BY <1>1, RunnerInvariant, PTL

(* When cancel lets go of a run it lets go of its planner, and no planner  *)
(* is ever entered for a run that has been let go.                         *)
THEOREM PlannersFollowRuns == Spec => []PlannersAreReleased
<1>1. RunnerInv => PlannersAreReleased
  BY DEF RunnerInv
<1> QED
  BY <1>1, RunnerInvariant, PTL

(* Neither sweeps nor shutdown end the work of a run that is there.        *)
THEOREM CancelsForCause == Spec => []CancelledForCause
<1>1. RunnerInv => CancelledForCause
  BY DEF RunnerInv
<1> QED
  BY <1>1, RunnerInvariant, PTL
=============================================================================
