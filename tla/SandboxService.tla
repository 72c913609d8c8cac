--------------------------- MODULE SandboxService ---------------------------
(***************************************************************************)
(* MiroFishSandboxService.run (backend/app/v2/sandbox/service.py): one     *)
(* request that looks its job up, prepares and starts it, polls it under a *)
(* deadline, stops it when that goes wrong, captures what was said and     *)
(* builds a result.  Its server is the job registry, SandboxJobs, in one   *)
(* process; a call may be handled late, and its answer may be lost.        *)
(***************************************************************************)
EXTENDS Naturals, FiniteSets

CONSTANTS
  Calls,         \* bound: calls that the server handles at the same time
  Count,         \* stakeholder_count of the request
  MaxCancels,    \* bound: how often the caller cancels
  Replacements   \* bound: how often the journal is replaced under the client

VARIABLES
  row, call, engine,  \* the job registry: see SandboxJobs
  me,                 \* the local state of run
  pc,                 \* where run is
  world               \* cancellations and replacements so far

Jobs == INSTANCE SandboxJobs WITH Processes <- {"server"}

vars == <<row, call, engine, me, pc, world>>
server == <<row, call, engine>>

None == "none"
NoJob == [request |-> FALSE, sim |-> 0, status |-> "none"]
Refusal == [NoJob EXCEPT !.status = "error"]
NoWords == [authors |-> 0, unavailable |-> FALSE]

Fresh == [request |-> TRUE, sim |-> 1, status |-> "ready"]

(* A new request, or one whose job an earlier request has left behind.     *)
Init ==
  /\ call = [c \in Calls |-> Jobs!NoCall]
  /\ \/ Jobs!Init
     \/ row = Jobs!Tombstone /\ engine = [made |-> 0, launches |-> 0, runs |-> 0, runner |-> "none"]
     \/ row = Fresh /\ engine = [made |-> 1, launches |-> 0, runs |-> 0, runner |-> "none"]
     \/ /\ row = [Fresh EXCEPT !.status = "running"]
        /\ engine \in [made : {1}, launches : {1}, runs : {1}, runner : {"running", "failed"}]
  /\ me \in [job : {NoJob}, attempted : {FALSE}, wait : {None}, reply : {NoJob},
             status : {"completed"}, notes : {{}}, errors : {{}}, captured : {0},
             shown : {NoWords}, back : {"finish"}, personas : {Count - 1, Count} \ {0}]
  /\ pc = "title"
  /\ world = [cancels |-> 0, replaced |-> 0]

-----------------------------------------------------------------------------
(* _request of the transport: a call that is answered, refused or given up *)

Free == me.wait = None /\ me.reply = NoJob

Send(op) ==
  /\ Free
  /\ \E c \in Calls : Jobs!Begin(c, "server", op) /\ me' = [me EXCEPT !.wait = c]
  /\ UNCHANGED <<pc, world>>

GiveUp ==
  /\ pc \in {"lookup", "prepare", "start", "status", "stop", "confirm"}
  /\ me.reply = NoJob
  /\ me' = [me EXCEPT !.wait = None, !.reply = Refusal]
  /\ UNCHANGED <<server, pc, world>>

(* Every handler turns what it raises into an error response.              *)
Response(c) ==
  CASE call[c].pc = "poll" -> call[c].job
    [] call[c].op = "prepare" /\ ~row'.request -> Refusal
    [] call[c].op = "start" /\ row' = Jobs!Absent -> Refusal
    [] OTHER -> row'

(* A step of the server; if it ends the call this client waits for, the    *)
(* answer arrives.                                                         *)
Handle ==
  /\ \E c \in Calls :
       /\ \/ Jobs!LookupRead(c) \/ Jobs!Polled(c) \/ Jobs!Reconciled(c)
          \/ Jobs!PrepareClaim(c) \/ Jobs!PrepareKnown(c) \/ Jobs!Prepared(c)
          \/ Jobs!PrepareRecorded(c)
          \/ Jobs!StartClaim(c) \/ Jobs!StartNot(c) \/ Jobs!Launched(c)
          \/ Jobs!StartRecorded(c) \/ Jobs!LaunchUndone(c)
          \/ Jobs!StopRead(c) \/ Jobs!StopUnknown(c) \/ Jobs!Inspected(c)
          \/ Jobs!Halted(c) \/ Jobs!StopRecorded(c)
       /\ me' = IF me.wait = c /\ call'[c] = Jobs!NoCall
                  THEN [me EXCEPT !.wait = None, !.reply = Response(c)] ELSE me
  /\ UNCHANGED <<pc, world>>

Breaks ==
  /\ \/ \E c \in Calls : Jobs!EngineFails(c)
     \/ Jobs!Crash("server")
  /\ me' = IF me.wait # None /\ call'[me.wait] = Jobs!NoCall
             THEN [me EXCEPT !.wait = None, !.reply = Refusal] ELSE me
  /\ UNCHANGED <<pc, world>>

RunnerEnds == Jobs!RunnerEnds /\ UNCHANGED <<me, pc, world>>

(* The journal is restored or swept: another simulation under the          *)
(* fingerprint.                                                            *)
Replaced ==
  /\ world.replaced < Replacements
  /\ row.sim # 0
  /\ row' = [row EXCEPT !.sim = 2]
  /\ world' = [world EXCEPT !.replaced = @ + 1]
  /\ UNCHANGED <<call, engine, me, pc>>

-----------------------------------------------------------------------------
(* The stages of run                                                       *)

Goto(label) == pc' = label
Alone == UNCHANGED <<server, world>>
Local == [me EXCEPT !.wait = None, !.reply = NoJob]

(* The title must be English and is checked before anything else.          *)
Title ==
  /\ pc = "title"
  /\ Goto("lookup") \/ Goto("unsupported")
  /\ UNCHANGED me /\ Alone

(* Faulty variant: nothing is stopped before a job is bound.               *)
EndsBound(status, notes, errors) ==
  /\ me' = [Local EXCEPT !.status = status, !.notes = @ \union notes,
                         !.errors = @ \union errors,
                         !.back = IF me.job # NoJob THEN "capture" ELSE "finish"]
  /\ Goto(IF me.job # NoJob THEN "stop" ELSE "finish")
  /\ Alone
(* The execution block ends early; whatever may exist is stopped.          *)
Ends(status, notes, errors) ==
  /\ me' = [Local EXCEPT !.status = status, !.notes = @ \union notes,
                         !.errors = @ \union errors,
                         !.back = IF me.job # NoJob THEN "capture" ELSE "finish"]
  /\ Goto(IF me.job # NoJob \/ me.attempted THEN "stop" ELSE me'.back)
  /\ Alone

Fails == Ends("failed", {}, {"execution"})

(* _validate_job                                                           *)
Valid(job) == job.request /\ job.sim # 0

(* The job is bound; it is started unless an earlier request did that.     *)
Bind(job) ==
  IF Valid(job)
    THEN /\ me' = [Local EXCEPT !.job = job]
         /\ Goto(IF job.status = "ready" THEN "start" ELSE "status")
         /\ Alone
    ELSE Fails

Lookup == pc = "lookup" /\ Send("lookup")

Found ==
  /\ pc = "lookup" /\ me.reply # NoJob
  /\ IF me.reply = Jobs!Absent    \* job_not_found
       THEN me' = Local /\ Goto("roster") /\ Alone
       ELSE Bind(me.reply)

Roster ==
  /\ pc = "roster"
  /\ \/ me' = [me EXCEPT !.attempted = TRUE] /\ Goto("prepare") /\ Alone
     \/ Fails

Prepare == pc = "prepare" /\ Send("prepare")
Prepared == pc = "prepare" /\ me.reply # NoJob /\ Bind(me.reply)

Start == pc = "start" /\ Send("start")
Started ==
  /\ pc = "start" /\ me.reply # NoJob
  /\ IF me.reply = Refusal THEN Fails ELSE me' = Local /\ Goto("status") /\ Alone

Status == pc = "status" /\ Send("lookup")

(* Faulty variant: the answer is not compared with the job that is bound.  *)
AnyJob(job) == TRUE
Same(job) == job.sim = me.job.sim

OngoingStatus == {"ready", "starting", "running", "preparing", "stopping"}

Polled ==
  /\ pc = "status" /\ me.reply # NoJob
  /\ IF ~Valid(me.reply) \/ ~Same(me.reply) THEN Fails
     ELSE LET job == me.reply IN
       \/ /\ job.status = "completed"
          /\ me' = [Local EXCEPT !.job = job] /\ Goto("capture") /\ Alone
       \/ /\ job.status = "failed"
          /\ me' = [Local EXCEPT !.job = job, !.status = "failed", !.errors = {"simulation"}]
          /\ Goto("capture") /\ Alone
       \/ /\ job.status \in {"cancelled", "stopped"}
          /\ me' = [Local EXCEPT !.job = job, !.status = "cancelled", !.notes = {"simulation"}]
          /\ Goto("capture") /\ Alone
       \/ /\ job.status \in OngoingStatus
          /\ me' = [Local EXCEPT !.job = job] /\ Goto("status") /\ Alone
       \/ /\ job.status \in {"start_uncertain", "prepare_uncertain"}
          /\ Fails

Block == {"lookup", "roster", "prepare", "start", "status"}

Expire == pc \in Block /\ Ends("partial", {}, {"timeout"})

-----------------------------------------------------------------------------
(* _stop                                                                   *)
Stop == pc = "stop" /\ Send("stop")

Stopped ==
  /\ pc = "stop" /\ me.reply # NoJob
  /\ me' = Local
  /\ Goto(IF me.reply = Refusal THEN "confirm" ELSE me.back)
  /\ Alone

Confirm == pc = "confirm" /\ Send("lookup")

(* A stop that was not answered is confirmed by the job's status.          *)
Confirms(job) ==
  job.status \in {"stopped", "cancelled", "completed", "failed"}

Confirmed ==
  /\ pc = "confirm" /\ me.reply # NoJob
  /\ me' = [Local EXCEPT !.errors =
       IF Confirms(me.reply) THEN @ ELSE @ \union {"stop_unacknowledged"}]
  /\ Goto(me.back)
  /\ Alone

-----------------------------------------------------------------------------
(* Capture and projection                                                  *)
Incomplete ==
  /\ me' = [me EXCEPT !.notes = @ \union {"capture_incomplete"},
                      !.status = IF @ = "completed" THEN "partial" ELSE @]
  /\ Goto("finish")
  /\ Alone

Capture ==
  /\ pc = "capture"
  /\ \/ /\ \E notes \in SUBSET {"capture"} :
             me' = [me EXCEPT !.captured = me.job.sim, !.notes = @ \union notes]
        /\ Goto("project") /\ Alone
     \/ Incomplete

(* project_capture: authors whose messages are shown, whether one of them  *)
(* has no translation, and whether something was left out.                 *)
Project ==
  /\ pc = "project"
  /\ \/ /\ \E authors \in 0..me.personas, unavailable \in BOOLEAN,
              notes \in SUBSET {"projection"} :
             /\ unavailable => authors > 0
             /\ me' = [me EXCEPT !.shown = [authors |-> authors, unavailable |-> unavailable],
                                 !.notes = @ \union notes]
        /\ Goto("finish") /\ Alone
     \/ Incomplete

Personas == IF me.job = NoJob THEN 0 ELSE me.personas
Observed == me.shown.authors

(* The status that is reported: with gaps it is partial.                   *)
Final(notes) ==
  LET status == IF \/ me.shown.unavailable
                   \/ me.status = "completed" /\ (notes # {} \/ me.errors # {})
                  THEN "partial" ELSE me.status
  IN IF status = "failed" /\ Observed > 0 THEN "partial" ELSE status

(* validate_sandbox_result, as far as it depends on the status.            *)
Accepts(status) ==
  /\ me.shown.unavailable => status = "partial"
  /\ Observed <= Personas /\ Personas <= Count
  /\ status = "completed" => Observed = Count /\ me.errors = {}
  /\ status = "failed" => me.errors # {}

Finish ==
  LET notes == me.notes \union (IF me.job # NoJob /\ Personas # Count THEN {"cap"} ELSE {})
                        \union (IF Observed # Count THEN {"observed"} ELSE {})
  IN  /\ pc = "finish"
      /\ me' = [me EXCEPT !.status = Final(notes), !.notes = notes]
      /\ Goto(IF Accepts(Final(notes)) THEN "done" ELSE "invalid")
      /\ Alone

(* The caller cancels: at an await, where run handles it or not.           *)
Cancel ==
  /\ world.cancels < MaxCancels
  /\ \/ /\ pc \in Block
        /\ me' = [Local EXCEPT !.status = "cancelled", !.notes = {"cancelled"},
                               !.back = IF me.job # NoJob THEN "capture" ELSE "finish"]
        /\ Goto(IF me.job # NoJob \/ me.attempted THEN "stop" ELSE me'.back)
     \/ /\ pc \in {"capture", "project"}
        /\ me' = [me EXCEPT !.status = "cancelled", !.notes = @ \union {"cancelled"},
                            !.back = "finish"]
        /\ Goto("stop")
     \/ /\ pc \in {"title", "stop", "confirm"}
        /\ me' = me /\ Goto("cancelled")
  /\ world' = [world EXCEPT !.cancels = @ + 1]
  /\ UNCHANGED server

Client == Title \/ Lookup \/ Found \/ Roster \/ Prepare \/ Prepared \/ Start \/ Started
            \/ Status \/ Polled \/ Stop \/ Stopped \/ Confirm \/ Confirmed
            \/ Capture \/ Project \/ Finish \/ GiveUp

Next == Client \/ Expire \/ Cancel \/ Handle \/ Breaks \/ RunnerEnds \/ Replaced

(* Every await of run has a time limit: the transport's, the deadline's or *)
(* the cleanup's.  The server is not trusted to do anything.               *)
Spec == Init /\ [][Next]_vars /\ WF_vars(Client) /\ WF_vars(Expire)

-----------------------------------------------------------------------------
(* Properties                                                              *)

TypeOK ==
  /\ me.status \in {"completed", "partial", "failed", "cancelled"}
  /\ me.wait \in Calls \union {None}
  /\ me.errors \subseteq {"execution", "timeout", "simulation", "stop_unacknowledged"}
  /\ pc \in Block \union {"title", "stop", "confirm", "capture", "project", "finish",
                          "done", "cancelled", "unsupported", "invalid"}

Ended == {"cancelled", "completed", "failed", "stopped"}

(* A request that ends early, with a job it bound or tried to prepare, and *)
(* does not report an unconfirmed stop, leaves nothing that runs or could  *)
(* still be started, however late its calls are handled: once the server   *)
(* is idle the job is ended and its simulation does not run.               *)
StoppedOrReported ==
  /\ pc = "done" /\ (me.attempted \/ me.job # NoJob)
  /\ "stop_unacknowledged" \notin me.errors
  /\ \A c \in Calls : call[c] = Jobs!NoCall
  => row.status \in Ended /\ engine.runner # "running"

(* Once a job is bound it is that simulation that is polled and captured,  *)
(* also when the journal gets another row under the fingerprint meanwhile. *)
KeepsItsJob ==
  /\ me.job # NoJob => me'.job.sim = me.job.sim
  /\ me'.captured \in {0, me'.job.sim}

(* A completed result stands for a simulation that ended by itself, with   *)
(* words from every stakeholder that was asked for.                        *)
CompletedIsTrue ==
  pc = "done" /\ me.status = "completed" =>
    /\ engine.runner = "completed" /\ me.captured = engine.runs
    /\ Observed = Count /\ ~me.shown.unavailable
    /\ me.notes = {}

(* run never builds a result that its own validation refuses: a run that   *)
(* costs minutes would end with an exception instead of its evidence.      *)
ResultIsValid == pc # "invalid"
=============================================================================
