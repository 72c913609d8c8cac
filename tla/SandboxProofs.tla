---------------------------- MODULE SandboxProofs ----------------------------
(***************************************************************************)
(* What SandboxJobsProofs says of a job registry, for the parts of         *)
(* MCSandbox: any processes and calls on one journal, and any calls within *)
(* one process; and proofs about a request of the service, for any count   *)
(* of stakeholders and any number of calls.                                *)
(***************************************************************************)
EXTENDS MCSandbox, TLAPS

(* The theorems about a registry: of any processes, and of one.            *)
Many == INSTANCE SandboxJobsProofs
One  == INSTANCE SandboxJobsProofs WITH Processes <- {"server"}

-----------------------------------------------------------------------------
(* The registry that the theorems are about is the registry of each part.  *)

LEMMA SharedIsMany ==
  /\ Shared!Init <=> Many!Init
  /\ Shared!Next <=> Many!Next
BY Zenon DEF Shared!Init, Shared!Next, Shared!LookupRead, Shared!Polled,
     Shared!Reconciled, Shared!PrepareClaim, Shared!PrepareKnown,
     Shared!Prepared, Shared!PrepareRecorded, Shared!StartClaim,
     Shared!StartNot, Shared!Launched, Shared!StartRecorded,
     Shared!LaunchUndone, Shared!StopRead, Shared!StopUnknown,
     Shared!Inspected, Shared!Halted, Shared!StopRecorded, Shared!EngineFails,
     Shared!Crash, Shared!RunnerEnds, Shared!Begin, Shared!Locked, Shared!At,
     Shared!Returns, Shared!NoCall, Shared!Absent, Shared!Tombstone,
     Shared!Settled, Shared!Halt, Many!Init, Many!Next, Many!LookupRead,
     Many!Polled, Many!Reconciled, Many!PrepareClaim, Many!PrepareKnown,
     Many!Prepared, Many!PrepareRecorded, Many!StartClaim, Many!StartNot,
     Many!Launched, Many!StartRecorded, Many!LaunchUndone, Many!StopRead,
     Many!StopUnknown, Many!Inspected, Many!Halted, Many!StopRecorded,
     Many!EngineFails, Many!Crash, Many!RunnerEnds, Many!Begin, Many!Locked,
     Many!At, Many!Returns, Many!NoCall, Many!Absent, Many!Tombstone,
     Many!Settled, Many!Halt

LEMMA LocalIsOne ==
  /\ Local!Init <=> One!Init
  /\ Local!Next <=> One!Next
BY Zenon DEF Local!Init, Local!Next, Local!LookupRead, Local!Polled,
     Local!Reconciled, Local!PrepareClaim, Local!PrepareKnown, Local!Prepared,
     Local!PrepareRecorded, Local!StartClaim, Local!StartNot, Local!Launched,
     Local!StartRecorded, Local!LaunchUndone, Local!StopRead,
     Local!StopUnknown, Local!Inspected, Local!Halted, Local!StopRecorded,
     Local!EngineFails, Local!Crash, Local!RunnerEnds, Local!Begin,
     Local!Locked, Local!At, Local!Returns, Local!NoCall, Local!Absent,
     Local!Tombstone, Local!Settled, Local!Halt, One!Init, One!Next,
     One!LookupRead, One!Polled, One!Reconciled, One!PrepareClaim,
     One!PrepareKnown, One!Prepared, One!PrepareRecorded, One!StartClaim,
     One!StartNot, One!Launched, One!StartRecorded, One!LaunchUndone,
     One!StopRead, One!StopUnknown, One!Inspected, One!Halted,
     One!StopRecorded, One!EngineFails, One!Crash, One!RunnerEnds, One!Begin,
     One!Locked, One!At, One!Returns, One!NoCall, One!Absent, One!Tombstone,
     One!Settled, One!Halt

LEMMA OneIsOne == One!OneProcess
BY DEF One!OneProcess

-----------------------------------------------------------------------------
(* Any processes on one journal.                                           *)

LEMMA SharedKept ==
  /\ Init => (part = "shared" => Many!SharedInv)
  /\ (part = "shared" => Many!SharedInv) /\ [Next]_vars
       => (part = "shared" => Many!SharedInv)'
<1>1. Init => (part = "shared" => Many!SharedInv)
  BY SharedIsMany, Many!SharedInit DEF Init
<1>2. ASSUME part = "shared" => Many!SharedInv, [Next]_vars
      PROVE  (part = "shared" => Many!SharedInv)'
  <2>1. part' = part
    BY <1>2 DEF Next, vars
  <2>2. part = "shared" => [Many!Next]_(Many!vars)
    BY <1>2, SharedIsMany DEF Next, vars, Many!vars
  <2>. QED
    BY <1>2, <2>1, <2>2, Many!SharedNext
<1>. QED
  BY <1>1, <1>2

(* Theorem: LaunchedOnce is an invariant: any number of processes and      *)
(* calls of extension.py, whatever fails and wherever they crash, create   *)
(* one simulation for a fingerprint and launch it once.                    *)
THEOREM OneLaunchForAll == Spec => []LaunchedOnce
<1>1. (part = "shared" => Many!SharedInv) => LaunchedOnce
  BY DEF LaunchedOnce, Many!SharedInv, Many!PreparedOnce, Many!StartedOnce,
     Shared!LaunchedOnce, Shared!TypeOK, Many!TypeOK, Shared!Rows, Many!Rows,
     Shared!Statuses, Many!Statuses, Shared!Runner, Many!Runner, Shared!Pcs, Many!Pcs
<1>. QED
  BY SharedKept, <1>1, PTL DEF Spec

-----------------------------------------------------------------------------
(* One process.                                                            *)

LEMMA LocalKept ==
  /\ Init => (part = "local" => One!LocalInv)
  /\ (part = "local" => One!LocalInv) /\ [Next]_vars => (part = "local" => One!LocalInv)'
<1>1. Init => (part = "local" => One!LocalInv)
  BY LocalIsOne, OneIsOne, One!LocalInit DEF Init
<1>2. ASSUME part = "local" => One!LocalInv, [Next]_vars
      PROVE  (part = "local" => One!LocalInv)'
  <2>1. part' = part
    BY <1>2 DEF Next, vars
  <2>2. part = "local" => [One!Next]_(One!vars)
    BY <1>2, LocalIsOne DEF Next, vars, One!vars
  <2>. QED
    BY <1>2, <2>1, <2>2, One!LocalNext
<1>. QED
  BY <1>1, <1>2

(* Theorem: NothingRunsUnseen is an invariant: in one process, with any    *)
(* number of calls, a cancelled job has nothing running once its calls     *)
(* have returned, and what runs is named by the journal.                   *)
THEOREM NothingRunsUnseenByOne == Spec => []NothingRunsUnseen
<1>1. (part = "local" => One!LocalInv) => NothingRunsUnseen
  BY DEF NothingRunsUnseen, One!LocalInv, One!RunsAreKnown, Local!CancelledIsStopped,
     Local!RunningIsFindable
<1>. QED
  BY LocalKept, <1>1, PTL DEF Spec

-----------------------------------------------------------------------------
(* A request of the service.                                               *)

Asking == {"lookup", "prepare", "start", "status", "stop", "confirm"}
After  == {"capture", "project", "finish", "done", "invalid"}
Unbound == {"title", "unsupported", "lookup", "roster", "prepare"}
Labels == Asking \union After \union Unbound \union {"cancelled"}

JobTypes == [request : BOOLEAN, sim : Nat,
             status : One!Statuses \union {"none", "error"}]
Statuses == {"completed", "partial", "failed", "cancelled"}
Notes  == SUBSET {"simulation", "cancelled", "capture", "capture_incomplete",
                  "projection", "cap", "observed"}
Errors == SUBSET {"execution", "timeout", "simulation", "stop_unacknowledged"}
Requests ==
  [job : JobTypes, attempted : BOOLEAN, wait : Calls \union {"none"},
   reply : JobTypes, status : Statuses,
   notes : Notes, errors : Errors,
   captured : Nat, shown : [authors : Nat, unavailable : BOOLEAN],
   back : {"capture", "finish"}, personas : 1..Count]

RequestTyped ==
  /\ me \in Requests
  /\ pc \in Labels
  /\ world \in [cancels : Nat, replaced : {0}]

(* What an answer says of the end of a job is so, and remains so.          *)
Believed(job) ==
  /\ job.status \in One!Ended => row.status \in One!Ended
  /\ job.status = "completed" =>
       engine.runner = "completed" /\ job.sim = engine.runs

(* The call that is waited for is under way; where nothing is asked        *)
(* nothing is expected; a stop that is not refused has ended the job.      *)
AnswersFit ==
  /\ me.wait # "none" =>
       /\ call[me.wait] # One!NoCall
       /\ pc = "stop" => call[me.wait].op = "stop"
  /\ pc \notin Asking \union {"cancelled"} =>
       me.wait = "none" /\ me.reply = Service!NoJob
  /\ pc = "stop" /\ me.reply # Service!NoJob =>
       me.reply = Service!Refusal \/ row.status \in One!Ended
  /\ Believed(me.job)
  /\ Believed(me.reply)

(* Nothing is captured or shown but of a job that is bound.                *)
JobIsBound ==
  /\ pc \in Unbound => me.job = Service!NoJob
  /\ pc \in {"capture", "project"} \/ me.back = "capture" \/ me.shown.authors # 0 =>
       me.job # Service!NoJob
  /\ me.shown.authors <= me.personas

(* A job that is left behind has ended, or it is said that nobody knows.   *)
JobIsEnded ==
  pc \in After /\ (me.attempted \/ me.job # Service!NoJob)
    /\ "stop_unacknowledged" \notin me.errors => row.status \in One!Ended

(* What the status says: a failure has an error, a completion is the job's *)
(* and nothing is missing in it.                                           *)
StatusIsTrue ==
  /\ me.status = "failed" => me.errors # {}
  /\ pc \in {"stop", "confirm"} => me.status # "completed"
  /\ pc \in After /\ me.status = "completed" =>
       /\ me.job.status = "completed"
       /\ pc # "capture" => me.captured = me.job.sim
  /\ pc = "done" /\ me.status = "completed" =>
       me.shown.authors = Count /\ ~me.shown.unavailable /\ me.notes = {}
  /\ pc # "invalid"

RequestInv ==
  /\ One!ServedInv
  /\ RequestTyped
  /\ AnswersFit
  /\ JobIsBound
  /\ JobIsEnded
  /\ StatusIsTrue

LEMMA ServerIsOne ==
  /\ Service!Jobs!NoCall = One!NoCall
  /\ \A c \in Calls :
       /\ Service!Jobs!EngineFails(c) <=> One!EngineFails(c)
       /\ \A op : Service!Jobs!Begin(c, "server", op) <=> One!Begin(c, "server", op)
  /\ Service!Jobs!Crash("server") <=> One!Crash("server")
  /\ Service!Jobs!RunnerEnds <=> One!RunnerEnds
BY Zenon DEF Service!Jobs!NoCall, Service!Jobs!Absent,
     Service!Jobs!EngineFails, Service!Jobs!Begin, Service!Jobs!Crash,
     Service!Jobs!RunnerEnds, Service!Jobs!Returns, Service!Jobs!At,
     One!NoCall, One!Absent, One!EngineFails, One!Begin, One!Crash,
     One!RunnerEnds, One!Returns, One!At

LEMMA HandlesIsOne ==
  ASSUME NEW c \in Calls
  PROVE  One!Handles(c) <=>
           \/ Service!Jobs!LookupRead(c) \/ Service!Jobs!Polled(c) \/ Service!Jobs!Reconciled(c)
           \/ Service!Jobs!PrepareClaim(c) \/ Service!Jobs!PrepareKnown(c)
           \/ Service!Jobs!Prepared(c) \/ Service!Jobs!PrepareRecorded(c)
           \/ Service!Jobs!StartClaim(c) \/ Service!Jobs!StartNot(c)
           \/ Service!Jobs!Launched(c) \/ Service!Jobs!StartRecorded(c)
           \/ Service!Jobs!LaunchUndone(c)
           \/ Service!Jobs!StopRead(c) \/ Service!Jobs!StopUnknown(c)
           \/ Service!Jobs!Inspected(c) \/ Service!Jobs!Halted(c)
           \/ Service!Jobs!StopRecorded(c)
BY Zenon DEF One!Handles, Service!Jobs!LookupRead, Service!Jobs!Polled,
     Service!Jobs!Reconciled, Service!Jobs!PrepareClaim,
     Service!Jobs!PrepareKnown, Service!Jobs!Prepared,
     Service!Jobs!PrepareRecorded, Service!Jobs!StartClaim,
     Service!Jobs!StartNot, Service!Jobs!Launched, Service!Jobs!StartRecorded,
     Service!Jobs!LaunchUndone, Service!Jobs!StopRead,
     Service!Jobs!StopUnknown, Service!Jobs!Inspected, Service!Jobs!Halted,
     Service!Jobs!StopRecorded, Service!Jobs!Locked, Service!Jobs!At,
     Service!Jobs!Returns, Service!Jobs!NoCall, Service!Jobs!Absent,
     Service!Jobs!Tombstone, Service!Jobs!Settled, Service!Jobs!Halt,
     One!LookupRead, One!Polled, One!Reconciled, One!PrepareClaim,
     One!PrepareKnown, One!Prepared, One!PrepareRecorded, One!StartClaim,
     One!StartNot, One!Launched, One!StartRecorded, One!LaunchUndone,
     One!StopRead, One!StopUnknown, One!Inspected, One!Halted,
     One!StopRecorded, One!Locked, One!At, One!Returns, One!NoCall,
     One!Absent, One!Tombstone, One!Settled, One!Halt

LEMMA HandledByOne ==
  ASSUME Service!Handle
  PROVE  /\ \E c \in Calls :
              /\ One!Handles(c)
              /\ me' = IF me.wait = c /\ call'[c] = One!NoCall
                         THEN [me EXCEPT !.wait = "none", !.reply = Service!Response(c)]
                         ELSE me
         /\ UNCHANGED <<pc, world>>
BY HandlesIsOne, ServerIsOne DEF Service!Handle, Service!None

-----------------------------------------------------------------------------
(* What the server does to a request.                                      *)

LEMMA NoJobIs ==
  /\ Service!NoJob \in JobTypes /\ Service!NoJob.status = "none"
  /\ Service!Refusal \in JobTypes /\ Service!Refusal.status = "error"
  /\ "none" \notin One!Ended /\ "error" \notin One!Ended
BY DEF Service!NoJob, Service!Refusal, JobTypes, One!Ended, One!Finished

LEMMA AnswerIs ==
  ASSUME One!ServedInv, One!ServedInv', NEW c \in Calls, One!Handles(c)
  PROVE  /\ Service!Response(c) \in JobTypes
         /\ Service!Response(c).status \in One!Ended => row'.status \in One!Ended
         /\ Service!Response(c).status = "completed" =>
              engine'.runner = "completed" /\ Service!Response(c).sim = engine'.runs
<1>1. row' \in One!Rows /\ (row'.status = "completed" =>
        engine'.runner = "completed" /\ row'.sim = engine'.runs)
  BY DEF One!ServedInv, One!LocalInv, One!SharedInv, One!TypeOK, One!EndsAreKnown,
     One!Finished, One!RunsAreKnown
<1>2. call[c].job \in One!Rows
      /\ (call[c].pc = "poll" => call[c].job.status \notin One!Ended)
  BY One!ServedIs DEF One!ServedInv, One!LocalInv, One!SharedInv, One!CallsCarry,
     One!Carries, One!Settled, One!Ended, One!Finished
<1>3. One!Rows \subseteq JobTypes /\ "completed" \in One!Ended
  BY DEF One!Rows, JobTypes, One!Ended, One!Finished
<1>. QED
  BY <1>1, <1>2, <1>3, NoJobIs DEF Service!Response

(* The end of a job survives every step of the server.                     *)
LEMMA BeliefStays ==
  ASSUME One!ServedInv, [One!Next]_(One!vars)
  PROVE  /\ row.status \in One!Ended => row'.status \in One!Ended
         /\ engine.runner = "completed" =>
              engine'.runner = "completed" /\ engine'.runs = engine.runs
BY One!EndsStay

LEMMA ServerWorks ==
  ASSUME RequestInv, [One!Next]_(One!vars), UNCHANGED <<me, pc, world>>,
         me.wait # "none" =>
           call'[me.wait] # One!NoCall /\ call'[me.wait].op = call[me.wait].op
  PROVE  RequestInv'
<1>1. One!ServedInv'
  BY One!ServedNext DEF RequestInv
<1>2. RequestTyped' /\ JobIsBound' /\ StatusIsTrue'
  BY DEF RequestInv, RequestTyped, JobIsBound, StatusIsTrue
<1>3. AnswersFit' /\ JobIsEnded'
  BY BeliefStays DEF RequestInv, AnswersFit, JobIsEnded, Believed
<1>. QED
  BY <1>1, <1>2, <1>3 DEF RequestInv

LEMMA AnswerArrives ==
  ASSUME RequestInv, [One!Next]_(One!vars), UNCHANGED <<pc, world>>, NEW r \in JobTypes,
         me' = [me EXCEPT !.wait = "none", !.reply = r],
         r.status \in One!Ended => row'.status \in One!Ended,
         r.status = "completed" => engine'.runner = "completed" /\ r.sim = engine'.runs,
         pc \in Asking \union {"cancelled"},
         pc = "stop" => r = Service!Refusal \/ row'.status \in One!Ended
  PROVE  RequestInv'
<1>1. One!ServedInv'
  BY One!ServedNext DEF RequestInv
<1>2. /\ me' \in Requests /\ me'.wait = "none" /\ me'.reply = r
      /\ me'.job = me.job /\ me'.attempted = me.attempted /\ me'.status = me.status
      /\ me'.notes = me.notes /\ me'.errors = me.errors /\ me'.captured = me.captured
      /\ me'.shown = me.shown /\ me'.back = me.back /\ me'.personas = me.personas
  BY DEF RequestInv, RequestTyped, Requests
<1>3. RequestTyped' /\ JobIsBound' /\ StatusIsTrue'
  BY <1>2 DEF RequestInv, RequestTyped, JobIsBound, StatusIsTrue
<1>4. AnswersFit' /\ JobIsEnded'
  BY <1>2, BeliefStays DEF RequestInv, AnswersFit, JobIsEnded, Believed
<1>. QED
  BY <1>1, <1>3, <1>4 DEF RequestInv

LEMMA RequestHandled == RequestInv /\ Service!Handle => RequestInv'
<1>. SUFFICES ASSUME RequestInv, Service!Handle PROVE RequestInv'
  OBVIOUS
<1>1. PICK c \in Calls :
        /\ One!Handles(c)
        /\ me' = IF me.wait = c /\ call'[c] = One!NoCall
                   THEN [me EXCEPT !.wait = "none", !.reply = Service!Response(c)] ELSE me
  BY HandledByOne
<1>2. [One!Next]_(One!vars) /\ UNCHANGED <<pc, world>>
  BY <1>1, HandledByOne DEF One!Next, One!Handles
<1>3. One!ServedInv'
  BY <1>2, One!ServedNext DEF RequestInv
<1>4. /\ \A d \in Calls \ {c} : call'[d] = call[d]
      /\ call'[c] = One!NoCall \/ call'[c].op = call[c].op
  BY <1>1, One!HandlesOne DEF RequestInv, One!ServedInv, One!LocalInv, One!SharedInv
<1>5. CASE me.wait = c /\ call'[c] = One!NoCall
  <2>1. me.wait # "none" /\ pc \in Asking \union {"cancelled"}
    BY <1>5, RequestAssumption DEF RequestInv, AnswersFit
  <2>2. pc = "stop" => row'.status \in One!Ended
    BY <1>1, <1>3, <1>5, <2>1, One!StopsEnd DEF RequestInv, AnswersFit
  <2>. PICK r : r = Service!Response(c)
    OBVIOUS
  <2>3. r \in JobTypes /\ me' = [me EXCEPT !.wait = "none", !.reply = r]
        /\ (r.status \in One!Ended => row'.status \in One!Ended)
        /\ (r.status = "completed" => engine'.runner = "completed" /\ r.sim = engine'.runs)
    BY <1>1, <1>3, <1>5, AnswerIs DEF RequestInv
  <2>. QED
    BY <1>2, <2>1, <2>2, <2>3, AnswerArrives
<1>6. CASE ~(me.wait = c /\ call'[c] = One!NoCall)
  <2>1. me' = me /\ me.wait \in Calls \union {"none"}
    BY <1>1, <1>6 DEF RequestInv, RequestTyped, Requests
  <2>2. me.wait # "none" =>
          call'[me.wait] # One!NoCall /\ call'[me.wait].op = call[me.wait].op
    BY <1>4, <1>6, <2>1 DEF RequestInv, AnswersFit
  <2>. QED
    BY <1>2, <2>1, <2>2, ServerWorks
<1>. QED
  BY <1>5, <1>6

LEMMA RequestBroken == RequestInv /\ Service!Breaks => RequestInv'
<1>. SUFFICES ASSUME RequestInv, Service!Breaks PROVE RequestInv'
  OBVIOUS
<1>1. /\ (\E c \in Calls : One!EngineFails(c)) \/ One!Crash("server")
      /\ me' = IF me.wait # "none" /\ call'[me.wait] = One!NoCall
                 THEN [me EXCEPT !.wait = "none", !.reply = Service!Refusal] ELSE me
      /\ UNCHANGED <<pc, world>>
  BY ServerIsOne DEF Service!Breaks, Service!None
<1>2. [One!Next]_(One!vars)
  BY <1>1 DEF One!Next
<1>3. \A d \in Calls : call'[d] = call[d] \/ call'[d] = One!NoCall
  <2>1. ASSUME NEW c \in Calls, One!EngineFails(c)
        PROVE  \A d \in Calls : call'[d] = call[d] \/ call'[d] = One!NoCall
    BY <2>1, One!HandlesOne DEF RequestInv, One!ServedInv, One!LocalInv, One!SharedInv
  <2>2. ASSUME One!Crash("server")
        PROVE  \A d \in Calls : call'[d] = call[d] \/ call'[d] = One!NoCall
    BY <2>2 DEF One!Crash
  <2>. QED
    BY <1>1, <2>1, <2>2
<1>4. CASE me.wait # "none" /\ call'[me.wait] = One!NoCall
  <2>1. pc \in Asking \union {"cancelled"}
    BY <1>4 DEF RequestInv, AnswersFit
  <2>2. me' = [me EXCEPT !.wait = "none", !.reply = Service!Refusal]
    BY <1>1, <1>4
  <2>. PICK r : r = Service!Refusal
    OBVIOUS
  <2>. QED
    BY <1>1, <1>2, <2>1, <2>2, NoJobIs, AnswerArrives
<1>5. CASE ~(me.wait # "none" /\ call'[me.wait] = One!NoCall)
  <2>1. me' = me /\ me.wait \in Calls \union {"none"}
    BY <1>1, <1>5 DEF RequestInv, RequestTyped, Requests
  <2>2. me.wait # "none" =>
          call'[me.wait] # One!NoCall /\ call'[me.wait].op = call[me.wait].op
    BY <1>3, <1>5, <2>1
  <2>. QED
    BY <1>1, <1>2, <2>1, <2>2, ServerWorks
<1>. QED
  BY <1>4, <1>5

LEMMA RequestRunnerEnds == RequestInv /\ Service!RunnerEnds => RequestInv'
<1>. SUFFICES ASSUME RequestInv, Service!RunnerEnds PROVE RequestInv'
  OBVIOUS
<1>1. One!RunnerEnds /\ UNCHANGED <<call, me, pc, world>>
  BY ServerIsOne DEF Service!RunnerEnds, One!RunnerEnds
<1>2. [One!Next]_(One!vars)
  BY <1>1 DEF One!Next
<1>3. me.wait # "none" => call[me.wait] # One!NoCall
  BY DEF RequestInv, AnswersFit
<1>. QED
  BY <1>1, <1>2, <1>3, ServerWorks

LEMMA RequestGivesUp == RequestInv /\ Service!GiveUp => RequestInv'
<1>. SUFFICES ASSUME RequestInv, Service!GiveUp PROVE RequestInv'
  OBVIOUS
<1>1. /\ UNCHANGED <<row, call, engine, pc, world>> /\ pc \in Asking
      /\ me' = [me EXCEPT !.wait = "none", !.reply = Service!Refusal]
  BY DEF Service!GiveUp, Service!server, Service!None, Asking
<1>2. [One!Next]_(One!vars)
  BY <1>1 DEF One!vars
<1>. PICK r : r = Service!Refusal
  OBVIOUS
<1>. QED
  BY <1>1, <1>2, NoJobIs, AnswerArrives

(* A call begins; the request waits for it.                                *)
LEMMA RequestSends ==
  ASSUME RequestInv, NEW op \in {"lookup", "prepare", "start", "stop"},
         pc \in Asking, pc = "stop" => op = "stop", Service!Send(op)
  PROVE  RequestInv'
<1>1. PICK c \in Calls : One!Begin(c, "server", op) /\ me' = [me EXCEPT !.wait = c]
  BY ServerIsOne DEF Service!Send
<1>2. UNCHANGED <<row, engine, pc, world>> /\ me.reply = Service!NoJob
  BY <1>1 DEF Service!Send, Service!Free, One!Begin
<1>3. [One!Next]_(One!vars)
  BY <1>1 DEF One!Next
<1>4. One!ServedInv'
  BY <1>3, One!ServedNext DEF RequestInv
<1>5. call'[c] # One!NoCall /\ call'[c].op = op
  <2>1. call \in [Calls -> One!CallTypes]
    BY One!TypeOKIs DEF RequestInv, One!ServedInv, One!LocalInv, One!SharedInv
  <2>2. call'[c].op = op
    BY <1>1, <2>1 DEF One!Begin, One!NoCall
  <2>. QED
    BY <2>2, One!NoCallIs
<1>6. /\ me' \in Requests /\ me'.wait = c /\ me'.reply = me.reply
      /\ me'.job = me.job /\ me'.attempted = me.attempted /\ me'.status = me.status
      /\ me'.notes = me.notes /\ me'.errors = me.errors /\ me'.captured = me.captured
      /\ me'.shown = me.shown /\ me'.back = me.back /\ me'.personas = me.personas
  BY <1>1 DEF RequestInv, RequestTyped, Requests
<1>7. RequestTyped' /\ JobIsBound' /\ StatusIsTrue'
  BY <1>2, <1>6 DEF RequestInv, RequestTyped, JobIsBound, StatusIsTrue
<1>8. AnswersFit' /\ JobIsEnded'
  BY <1>2, <1>5, <1>6 DEF RequestInv, AnswersFit, JobIsEnded, Believed
<1>. QED
  BY <1>4, <1>7, <1>8 DEF RequestInv

-----------------------------------------------------------------------------
(* What the request does by itself.                                        *)

LEMMA RequestMoves ==
  ASSUME RequestInv, UNCHANGED <<row, call, engine>>,
         me'.wait = "none", me'.reply = Service!NoJob, me'.job \in {me.job, me.reply},
         RequestTyped', JobIsBound', JobIsEnded', StatusIsTrue'
  PROVE  RequestInv'
<1>1. One!ServedInv'
  <2>1. [One!Next]_(One!vars)
    BY DEF One!vars
  <2>. QED
    BY <2>1, One!ServedNext DEF RequestInv
<1>2. Believed(me'.job) /\ Believed(Service!NoJob)
  BY NoJobIs DEF RequestInv, AnswersFit, Believed
<1>3. AnswersFit'
  BY <1>2 DEF AnswersFit, Believed
<1>. QED
  BY <1>1, <1>3 DEF RequestInv

(* The execution block ends early.                                         *)
LEMMA RequestEnds ==
  ASSUME RequestInv, pc \in Service!Block,
         NEW status \in {"partial", "failed", "cancelled"}, NEW notes \in Notes,
         NEW errors \in SUBSET {"execution", "timeout"},
         status = "failed" => errors # {}, Service!Ends(status, notes, errors)
  PROVE  RequestInv'
<1>1. /\ me' = [Service!Local EXCEPT !.status = status, !.notes = @ \union notes,
                  !.errors = @ \union errors,
                  !.back = IF me.job # Service!NoJob THEN "capture" ELSE "finish"]
      /\ pc' = IF me.job # Service!NoJob \/ me.attempted THEN "stop" ELSE me'.back
      /\ UNCHANGED <<row, call, engine, world>>
  BY DEF Service!Ends, Service!Goto, Service!Alone, Service!server
<1>2. /\ me'.job = me.job /\ me'.attempted = me.attempted
      /\ me'.wait = "none" /\ me'.reply = Service!NoJob /\ me'.status = status
      /\ me'.notes = me.notes \union notes /\ me'.errors = me.errors \union errors
      /\ me'.captured = me.captured /\ me'.shown = me.shown
      /\ me'.back = (IF me.job # Service!NoJob THEN "capture" ELSE "finish")
      /\ me'.personas = me.personas
      /\ me' \in Requests
  BY <1>1, NoJobIs DEF RequestInv, RequestTyped, Requests, Service!Local, Service!None,
     Statuses, Notes, Errors
<1>3. pc' \in {"stop", "finish"} /\ (pc' = "finish" => me.job = Service!NoJob /\ ~me.attempted)
  BY <1>1, <1>2
<1>4. RequestTyped' /\ JobIsBound' /\ JobIsEnded'
  BY <1>1, <1>2, <1>3 DEF RequestInv, RequestTyped, JobIsBound, JobIsEnded, Labels,
     Asking, After, Unbound
<1>5. StatusIsTrue'
  BY <1>2, <1>3 DEF RequestInv, StatusIsTrue
<1>. QED
  BY <1>1, <1>2, <1>4, <1>5, RequestMoves

LEMMA RequestFails ==
  ASSUME RequestInv, pc \in Service!Block, Service!Fails
  PROVE  RequestInv'
BY RequestEnds DEF Service!Fails, Notes

LEMMA RequestExpires == RequestInv /\ Service!Expire => RequestInv'
BY RequestEnds DEF Service!Expire, Notes

(* The steps before the execution block, and into it.                      *)
LEMMA RequestBegins ==
  ASSUME RequestInv, Service!Title \/ Service!Roster
  PROVE  RequestInv'
<1>1. CASE Service!Title
  <2>1. /\ pc = "title" /\ pc' \in {"lookup", "unsupported"}
        /\ UNCHANGED <<row, call, engine, me, world>>
    BY <1>1 DEF Service!Title, Service!Goto, Service!Alone, Service!server
  <2>2. me.wait = "none" /\ me.reply = Service!NoJob
    BY <2>1 DEF RequestInv, AnswersFit, Asking
  <2>3. RequestTyped' /\ JobIsBound' /\ JobIsEnded' /\ StatusIsTrue'
    BY <2>1 DEF RequestInv, RequestTyped, JobIsBound, JobIsEnded, StatusIsTrue, Labels,
       Asking, After, Unbound
  <2>. QED
    BY <2>1, <2>2, <2>3, RequestMoves
<1>2. CASE Service!Roster /\ Service!Fails
  BY <1>2, RequestFails DEF Service!Roster, Service!Block
<1>3. CASE Service!Roster /\ me' = [me EXCEPT !.attempted = TRUE]
             /\ Service!Goto("prepare") /\ Service!Alone
  <2>1. /\ pc = "roster" /\ pc' = "prepare" /\ UNCHANGED <<row, call, engine, world>>
        /\ me' = [me EXCEPT !.attempted = TRUE]
    BY <1>3 DEF Service!Roster, Service!Goto, Service!Alone, Service!server
  <2>2. me.wait = "none" /\ me.reply = Service!NoJob
    BY <2>1 DEF RequestInv, AnswersFit, Asking
  <2>3. /\ me' \in Requests /\ me'.wait = me.wait /\ me'.reply = me.reply
        /\ me'.job = me.job /\ me'.status = me.status
        /\ me'.notes = me.notes /\ me'.errors = me.errors /\ me'.captured = me.captured
        /\ me'.shown = me.shown /\ me'.back = me.back /\ me'.personas = me.personas
    BY <2>1 DEF RequestInv, RequestTyped, Requests
  <2>4. RequestTyped' /\ JobIsBound' /\ JobIsEnded' /\ StatusIsTrue'
    BY <2>1, <2>3 DEF RequestInv, RequestTyped, JobIsBound, JobIsEnded, StatusIsTrue,
       Labels, Asking, After, Unbound
  <2>. QED
    BY <2>1, <2>2, <2>3, <2>4, RequestMoves
<1>. QED
  BY <1>1, <1>2, <1>3 DEF Service!Roster

(* The request goes on with a job it knows now, or the one it knew.        *)
LEMMA RequestGoesOn ==
  ASSUME RequestInv, pc \in Asking, NEW job \in {me.job, me.reply},
         me' = [Service!Local EXCEPT !.job = job],
         UNCHANGED <<row, call, engine, world>>,
         pc' \in {"start", "status", "roster"},
         pc' = "roster" => job = Service!NoJob,
         job # Service!NoJob \/ me.job = Service!NoJob
  PROVE  RequestInv'
<1>1. /\ me'.job = job /\ me'.attempted = me.attempted
      /\ me'.wait = "none" /\ me'.reply = Service!NoJob /\ me'.status = me.status
      /\ me'.notes = me.notes /\ me'.errors = me.errors
      /\ me'.captured = me.captured /\ me'.shown = me.shown
      /\ me'.back = me.back /\ me'.personas = me.personas
      /\ me' \in Requests
  BY NoJobIs DEF RequestInv, RequestTyped, Requests, Service!Local, Service!None
<1>2. RequestTyped' /\ JobIsBound' /\ JobIsEnded' /\ StatusIsTrue'
  BY <1>1 DEF RequestInv, RequestTyped, JobIsBound, JobIsEnded, StatusIsTrue,
     Labels, Asking, After, Unbound
<1>. QED
  BY <1>1, <1>2, RequestMoves

LEMMA RequestBinds ==
  ASSUME RequestInv, pc \in {"lookup", "prepare"}, Service!Bind(me.reply)
  PROVE  RequestInv'
<1>1. CASE Service!Valid(me.reply)
  <2>. PICK job \in {me.job, me.reply} : job = me.reply
    OBVIOUS
  <2>1. /\ me' = [Service!Local EXCEPT !.job = job] /\ pc' \in {"start", "status"}
        /\ UNCHANGED <<row, call, engine, world>>
    BY <1>1 DEF Service!Bind, Service!Goto, Service!Alone, Service!server
  <2>2. me.job = Service!NoJob /\ pc \in Asking
    BY DEF RequestInv, JobIsBound, Unbound, Asking
  <2>. QED
    BY <2>1, <2>2, RequestGoesOn
<1>2. CASE ~Service!Valid(me.reply)
  BY <1>2, RequestFails DEF Service!Bind, Service!Block
<1>. QED
  BY <1>1, <1>2

LEMMA RequestAnswered ==
  ASSUME RequestInv, Service!Found \/ Service!Prepared \/ Service!Started
  PROVE  RequestInv'
<1>1. CASE Service!Bind(me.reply) /\ (Service!Found \/ Service!Prepared)
  BY <1>1, RequestBinds DEF Service!Found, Service!Prepared
<1>2. CASE Service!Fails /\ Service!Started
  BY <1>2, RequestFails DEF Service!Started, Service!Block
<1>3. CASE /\ \/ pc = "lookup" /\ pc' = "roster"
              \/ pc = "start" /\ pc' = "status"
           /\ me' = Service!Local /\ UNCHANGED <<row, call, engine, world>>
  <2>1. me' = [Service!Local EXCEPT !.job = me.job]
    BY <1>3, NoJobIs DEF RequestInv, RequestTyped, Requests, Service!Local, Service!None
  <2>. PICK job \in {me.job, me.reply} : job = me.job
    OBVIOUS
  <2>2. pc' = "roster" => job = Service!NoJob
    BY <1>3 DEF RequestInv, JobIsBound, Unbound
  <2>3. me' = [Service!Local EXCEPT !.job = job] /\ pc \in Asking
        /\ pc' \in {"start", "status", "roster"}
    BY <1>3, <2>1 DEF Asking
  <2>. QED
    BY <1>3, <2>2, <2>3, RequestGoesOn
<1>4. CASE Service!Found
  <2>1. CASE me.reply = Service!Jobs!Absent
    <3>1. /\ pc = "lookup" /\ pc' = "roster" /\ me' = Service!Local
          /\ UNCHANGED <<row, call, engine, world>>
      BY <1>4, <2>1 DEF Service!Found, Service!Goto, Service!Alone, Service!server
    <3>. QED
      BY <1>3, <3>1
  <2>2. CASE me.reply # Service!Jobs!Absent
    BY <1>1, <1>4, <2>2 DEF Service!Found
  <2>. QED
    BY <2>1, <2>2
<1>5. CASE Service!Prepared
  BY <1>1, <1>5 DEF Service!Prepared
<1>6. CASE Service!Started
  BY <1>2, <1>3, <1>6 DEF Service!Started, Service!Goto, Service!Alone, Service!server
<1>. QED
  BY <1>4, <1>5, <1>6

(* A poll finds the job ended: its words are captured.                     *)
LEMMA RequestPollEnds ==
  ASSUME RequestInv, pc = "status", me.reply # Service!NoJob, me.reply.status \in One!Ended,
         UNCHANGED <<row, call, engine, world>>, pc' = "capture",
         NEW status \in Statuses,
         NEW notes \in Notes, NEW errors \in Errors,
         me' = [Service!Local EXCEPT !.job = me.reply, !.status = status, !.notes = notes,
                                     !.errors = errors],
         status = "failed" => errors # {},
         status = "completed" => me.reply.status = "completed"
  PROVE  RequestInv'
<1>1. /\ me'.job = me.reply /\ me'.attempted = me.attempted
      /\ me'.wait = "none" /\ me'.reply = Service!NoJob /\ me'.status = status
      /\ me'.notes = notes /\ me'.errors = errors
      /\ me'.captured = me.captured /\ me'.shown = me.shown
      /\ me'.back = me.back /\ me'.personas = me.personas
      /\ me' \in Requests
  BY NoJobIs DEF RequestInv, RequestTyped, Requests, Service!Local, Service!None
<1>2. row.status \in One!Ended
  BY DEF RequestInv, AnswersFit, Believed
<1>3. RequestTyped' /\ JobIsBound' /\ JobIsEnded' /\ StatusIsTrue'
  BY <1>1, <1>2 DEF RequestInv, RequestTyped, JobIsBound, JobIsEnded, StatusIsTrue,
     Labels, Asking, After, Unbound
<1>. QED
  BY <1>1, <1>3, RequestMoves

LEMMA RequestPolls ==
  ASSUME RequestInv, Service!Polled
  PROVE  RequestInv'
<1>1. /\ pc = "status" /\ me.reply # Service!NoJob /\ pc \in Service!Block /\ pc \in Asking
      /\ me \in Requests
  BY DEF Service!Polled, Service!Block, Asking, RequestInv, RequestTyped
<1>2. CASE Service!Fails
  BY <1>1, <1>2, RequestFails
<1>3. ASSUME ~Service!Fails PROVE RequestInv'
  <2>0. /\ me.reply.status \in One!Ended \union Service!OngoingStatus
        /\ UNCHANGED <<row, call, engine, world>>
    BY <1>3 DEF Service!Polled, Service!Alone, Service!server, One!Ended, One!Finished
  <2>1. CASE /\ me.reply.status = "completed" /\ pc' = "capture"
             /\ me' = [Service!Local EXCEPT !.job = me.reply]
    <3>. PICK status, notes, errors :
           status = me.status /\ notes = me.notes /\ errors = me.errors
      OBVIOUS
    <3>1. /\ status \in Statuses /\ notes \in Notes /\ errors \in Errors
          /\ (status = "failed" => errors # {})
      BY <1>1 DEF Requests, RequestInv, StatusIsTrue
    <3>2. me' = [Service!Local EXCEPT !.job = me.reply, !.status = status,
                                      !.notes = notes, !.errors = errors]
      BY <1>1, <2>1 DEF Requests, Service!Local
    <3>3. me.reply.status \in One!Ended
      BY <2>1 DEF One!Ended, One!Finished
    <3>4. pc' = "capture" /\ me.reply.status = "completed"
      BY <2>1
    <3>. QED
      BY <1>1, <2>0, <3>1, <3>2, <3>3, <3>4, RequestPollEnds
  <2>2. CASE /\ me.reply.status = "failed" /\ pc' = "capture"
             /\ me' = [Service!Local EXCEPT !.job = me.reply, !.status = "failed",
                                            !.errors = {"simulation"}]
    <3>. PICK notes : notes = me.notes
      OBVIOUS
    <3>1. notes \in Notes
          /\ "failed" \in Statuses /\ {"simulation"} \in Errors
          /\ me' = [Service!Local EXCEPT !.job = me.reply, !.status = "failed",
                                      !.notes = notes, !.errors = {"simulation"}]
      BY <1>1, <2>2 DEF Requests, Service!Local, Statuses, Errors
    <3>2. me.reply.status \in One!Ended
      BY <2>2 DEF One!Ended, One!Finished
    <3>3. pc' = "capture"
      BY <2>2
    <3>. QED
      BY <1>1, <2>0, <3>1, <3>2, <3>3, RequestPollEnds
  <2>3. CASE /\ me.reply.status \in {"cancelled", "stopped"} /\ pc' = "capture"
             /\ me' = [Service!Local EXCEPT !.job = me.reply, !.status = "cancelled",
                                            !.notes = {"simulation"}]
    <3>. PICK errors : errors = me.errors
      OBVIOUS
    <3>1. errors \in Errors
          /\ me' = [Service!Local EXCEPT !.job = me.reply, !.status = "cancelled",
                                      !.notes = {"simulation"}, !.errors = errors]
      BY <1>1, <2>3 DEF Requests, Service!Local
    <3>2. me.reply.status \in One!Ended
      BY <2>3 DEF One!Ended, One!Finished
    <3>3. pc' = "capture"
      BY <2>3
    <3>4. "cancelled" \in Statuses /\ {"simulation"} \in Notes
      BY DEF Statuses, Notes
    <3>. QED
      BY <1>1, <2>0, <3>1, <3>2, <3>3, <3>4, RequestPollEnds
  <2>4. CASE me' = [Service!Local EXCEPT !.job = me.reply] /\ pc' = "status"
    <3>. PICK job \in {me.job, me.reply} : job = me.reply
      OBVIOUS
    <3>1. me' = [Service!Local EXCEPT !.job = job]
      BY <2>4
    <3>. QED
      BY <1>1, <2>0, <2>4, <3>1, RequestGoesOn
  <2>. QED
    BY <1>3, <2>1, <2>2, <2>3, <2>4 DEF Service!Polled, Service!Goto
<1>. QED
  BY <1>2, <1>3

(* The stop is answered, or confirmed by a lookup, or not.                 *)
LEMMA RequestStopped ==
  ASSUME RequestInv, Service!Stopped \/ Service!Confirmed
  PROVE  RequestInv'
<1>1. CASE Service!Stopped
  <2>1. /\ pc = "stop" /\ me.reply # Service!NoJob /\ me' = Service!Local
        /\ pc' = (IF me.reply = Service!Refusal THEN "confirm" ELSE me.back)
        /\ UNCHANGED <<row, call, engine, world>>
    BY <1>1 DEF Service!Stopped, Service!Goto, Service!Alone, Service!server
  <2>2. /\ me'.job = me.job /\ me'.attempted = me.attempted
        /\ me'.wait = "none" /\ me'.reply = Service!NoJob /\ me'.status = me.status
        /\ me'.notes = me.notes /\ me'.errors = me.errors
        /\ me'.captured = me.captured /\ me'.shown = me.shown
        /\ me'.back = me.back /\ me'.personas = me.personas
        /\ me' \in Requests /\ me.back \in {"capture", "finish"}
    BY <2>1, NoJobIs DEF RequestInv, RequestTyped, Requests, Service!Local, Service!None
  <2>3. pc' # "confirm" => row.status \in One!Ended
    BY <2>1 DEF RequestInv, AnswersFit
  <2>4. RequestTyped' /\ JobIsBound' /\ JobIsEnded' /\ StatusIsTrue'
    BY <2>1, <2>2, <2>3 DEF RequestInv, RequestTyped, JobIsBound, JobIsEnded,
       StatusIsTrue, Labels, Asking, After, Unbound
  <2>. QED
    BY <2>1, <2>2, <2>4, RequestMoves
<1>2. CASE Service!Confirmed
  <2>. PICK errors : errors = IF Service!Confirms(me.reply) THEN me.errors
                                ELSE me.errors \union {"stop_unacknowledged"}
    OBVIOUS
  <2>1. /\ pc = "confirm" /\ me.reply # Service!NoJob
        /\ me' = [Service!Local EXCEPT !.errors = errors]
        /\ pc' = me.back /\ UNCHANGED <<row, call, engine, world>>
    BY <1>2 DEF Service!Confirmed, Service!Goto, Service!Alone, Service!server,
       Service!Local, RequestInv, RequestTyped, Requests
  <2>2. errors \in Errors
        /\ (me.errors # {} => errors # {})
    BY DEF RequestInv, RequestTyped, Requests, Errors
  <2>3. /\ me'.job = me.job /\ me'.attempted = me.attempted
        /\ me'.wait = "none" /\ me'.reply = Service!NoJob /\ me'.status = me.status
        /\ me'.notes = me.notes /\ me'.errors = errors
        /\ me'.captured = me.captured /\ me'.shown = me.shown
        /\ me'.back = me.back /\ me'.personas = me.personas
        /\ me' \in Requests /\ me.back \in {"capture", "finish"}
    BY <2>1, <2>2, NoJobIs DEF RequestInv, RequestTyped, Requests, Service!Local,
       Service!None
  <2>4. "stop_unacknowledged" \notin errors => row.status \in One!Ended
    BY DEF RequestInv, AnswersFit, Believed, Service!Confirms, One!Ended, One!Finished
  <2>5. RequestTyped' /\ JobIsBound' /\ JobIsEnded' /\ StatusIsTrue'
    BY <2>1, <2>2, <2>3, <2>4 DEF RequestInv, RequestTyped, JobIsBound, JobIsEnded,
       StatusIsTrue, Labels, Asking, After, Unbound
  <2>. QED
    BY <2>1, <2>3, <2>5, RequestMoves
<1>. QED
  BY <1>1, <1>2

(* Capture, projection and the result.                                     *)
LEMMA RequestCaptures ==
  ASSUME RequestInv, Service!Capture \/ Service!Project
  PROVE  RequestInv'
<1>1. /\ pc \in {"capture", "project"} /\ me \in Requests
      /\ me.wait = "none" /\ me.reply = Service!NoJob /\ me.job # Service!NoJob
      /\ UNCHANGED <<row, call, engine, world>>
  BY DEF Service!Capture, Service!Project, Service!Incomplete, Service!Alone,
     Service!server, RequestInv, RequestTyped, AnswersFit, JobIsBound, Asking
<1>2. CASE Service!Incomplete
  <2>1. /\ pc' = "finish"
        /\ me' = [me EXCEPT !.notes = me.notes \union {"capture_incomplete"},
                    !.status = IF me.status = "completed" THEN "partial" ELSE me.status]
    BY <1>1, <1>2 DEF Service!Incomplete, Service!Goto, Requests
  <2>2. /\ me'.job = me.job /\ me'.attempted = me.attempted
        /\ me'.wait = me.wait /\ me'.reply = me.reply
        /\ me'.status = (IF me.status = "completed" THEN "partial" ELSE me.status)
        /\ me'.errors = me.errors
        /\ me'.captured = me.captured /\ me'.shown = me.shown
        /\ me'.back = me.back /\ me'.personas = me.personas
        /\ me' \in Requests
    BY <1>1, <2>1 DEF Requests, Statuses, Notes
  <2>3. RequestTyped' /\ JobIsBound' /\ JobIsEnded' /\ StatusIsTrue'
    BY <1>1, <2>1, <2>2 DEF RequestInv, RequestTyped, JobIsBound, JobIsEnded,
       StatusIsTrue, Labels, Asking, After, Unbound
  <2>. QED
    BY <1>1, <2>2, <2>3, RequestMoves
<1>3. ASSUME NEW notes \in SUBSET {"capture"}, pc = "capture", pc' = "project",
             me' = [me EXCEPT !.captured = me.job.sim, !.notes = me.notes \union notes]
      PROVE  RequestInv'
  <2>1. me.job.sim \in Nat
    BY <1>1 DEF Requests, JobTypes
  <2>2. /\ me'.job = me.job /\ me'.attempted = me.attempted
        /\ me'.wait = me.wait /\ me'.reply = me.reply
        /\ me'.status = me.status /\ me'.errors = me.errors
        /\ me'.captured = me.job.sim /\ me'.shown = me.shown
        /\ me'.back = me.back /\ me'.personas = me.personas
        /\ me' \in Requests
    BY <1>1, <1>3, <2>1 DEF Requests, Notes
  <2>3. RequestTyped' /\ JobIsBound' /\ JobIsEnded' /\ StatusIsTrue'
    BY <1>1, <1>3, <2>2 DEF RequestInv, RequestTyped, JobIsBound, JobIsEnded,
       StatusIsTrue, Labels, Asking, After, Unbound
  <2>. QED
    BY <1>1, <2>2, <2>3, RequestMoves
<1>4. ASSUME NEW authors \in 0..me.personas, NEW unavailable \in BOOLEAN,
             NEW notes \in SUBSET {"projection"}, pc = "project", pc' = "finish",
             me' = [me EXCEPT !.shown = [authors |-> authors, unavailable |-> unavailable],
                              !.notes = me.notes \union notes]
      PROVE  RequestInv'
  <2>1. me.personas \in Nat /\ authors \in Nat /\ authors <= me.personas
    BY <1>1, RequestAssumption DEF Requests
  <2>2. /\ me'.job = me.job /\ me'.attempted = me.attempted
        /\ me'.wait = me.wait /\ me'.reply = me.reply
        /\ me'.status = me.status /\ me'.errors = me.errors
        /\ me'.captured = me.captured /\ me'.shown.authors = authors
        /\ me'.back = me.back /\ me'.personas = me.personas
        /\ me' \in Requests
    BY <1>1, <1>4, <2>1 DEF Requests, Notes
  <2>3. RequestTyped' /\ JobIsBound' /\ JobIsEnded' /\ StatusIsTrue'
    BY <1>1, <1>4, <2>1, <2>2 DEF RequestInv, RequestTyped, JobIsBound, JobIsEnded,
       StatusIsTrue, Labels, Asking, After, Unbound
  <2>. QED
    BY <1>1, <2>2, <2>3, RequestMoves
<1>. QED
  BY <1>1, <1>2, <1>3, <1>4 DEF Service!Capture, Service!Project, Service!Goto, Requests

(* The result fits what its own validation asks for.                       *)
LEMMA RequestFinishes == RequestInv /\ Service!Finish => RequestInv'
<1>. SUFFICES ASSUME RequestInv, Service!Finish PROVE RequestInv'
  OBVIOUS
<1>. PICK notes : notes =
       me.notes \union (IF me.job # Service!NoJob /\ Service!Personas # Count THEN {"cap"} ELSE {})
                \union (IF Service!Observed # Count THEN {"observed"} ELSE {})
  OBVIOUS
<1>. PICK status : status = Service!Final(notes)
  OBVIOUS
<1>1. /\ pc = "finish" /\ me \in Requests
      /\ me' = [me EXCEPT !.status = status, !.notes = notes]
      /\ pc' = (IF Service!Accepts(status) THEN "done" ELSE "invalid")
      /\ UNCHANGED <<row, call, engine, world>>
      /\ me.wait = "none" /\ me.reply = Service!NoJob
  BY DEF Service!Finish, Service!Goto, Service!Alone, Service!server, RequestInv,
     RequestTyped, AnswersFit, Asking
<1>2. /\ notes \in Notes /\ me.notes \subseteq notes
      /\ (notes = {} => me.shown.authors = Count)
  BY <1>1 DEF Requests, Notes, Service!Observed
<1>3. /\ status \in {"completed", "partial", "failed", "cancelled"}
      /\ me.shown.unavailable => status = "partial"
      /\ status = "failed" => me.status = "failed" /\ me.shown.authors = 0
      /\ status = "completed" => me.status = "completed" /\ notes = {} /\ me.errors = {}
  BY <1>1 DEF Service!Final, Service!Observed, Requests, Statuses
<1>4. Service!Accepts(status)
  <2>1. me.shown.authors <= Service!Personas /\ Service!Personas <= Count
    BY <1>1, RequestAssumption DEF RequestInv, JobIsBound, Service!Personas, Requests
  <2>2. status = "failed" => me.errors # {}
    BY <1>3 DEF RequestInv, StatusIsTrue
  <2>. QED
    BY <1>2, <1>3, <2>1, <2>2 DEF Service!Accepts, Service!Observed
<1>5. pc' = "done"
  BY <1>1, <1>4
<1>6. /\ me'.job = me.job /\ me'.attempted = me.attempted
      /\ me'.wait = me.wait /\ me'.reply = me.reply
      /\ me'.status = status /\ me'.errors = me.errors /\ me'.notes = notes
      /\ me'.captured = me.captured /\ me'.shown = me.shown
      /\ me'.back = me.back /\ me'.personas = me.personas
      /\ me' \in Requests
  BY <1>1, <1>2, <1>3 DEF Requests, Statuses
<1>7. RequestTyped' /\ JobIsBound' /\ JobIsEnded'
  BY <1>1, <1>5, <1>6 DEF RequestInv, RequestTyped, JobIsBound, JobIsEnded, Labels,
     Asking, After, Unbound
<1>8. StatusIsTrue'
  BY <1>1, <1>2, <1>3, <1>5, <1>6 DEF RequestInv, StatusIsTrue, After
<1>. QED
  BY <1>1, <1>6, <1>7, <1>8, RequestMoves

LEMMA RequestCancelled == RequestInv /\ Service!Cancel => RequestInv'
<1>. SUFFICES ASSUME RequestInv, Service!Cancel PROVE RequestInv'
  OBVIOUS
<1>1. /\ UNCHANGED <<row, call, engine>> /\ me \in Requests
      /\ world' = [world EXCEPT !.cancels = world.cancels + 1]
      /\ world' \in [cancels : Nat, replaced : {0}]
  BY DEF Service!Cancel, Service!server, RequestInv, RequestTyped
<1>2. CASE /\ pc \in Service!Block
           /\ me' = [Service!Local EXCEPT !.status = "cancelled", !.notes = {"cancelled"},
                 !.back = IF me.job # Service!NoJob THEN "capture" ELSE "finish"]
           /\ pc' = IF me.job # Service!NoJob \/ me.attempted THEN "stop" ELSE me'.back
  <2>1. /\ me'.job = me.job /\ me'.attempted = me.attempted
        /\ me'.wait = "none" /\ me'.reply = Service!NoJob /\ me'.status = "cancelled"
        /\ me'.errors = me.errors
        /\ me'.captured = me.captured /\ me'.shown = me.shown
        /\ me'.back = (IF me.job # Service!NoJob THEN "capture" ELSE "finish")
        /\ me'.personas = me.personas
        /\ me' \in Requests
    BY <1>1, <1>2, NoJobIs DEF Requests, Service!Local, Service!None, Statuses, Notes
  <2>2. pc' \in {"stop", "finish"}
        /\ (pc' = "finish" => me.job = Service!NoJob /\ ~me.attempted)
    BY <1>2, <2>1
  <2>3. RequestTyped' /\ JobIsBound' /\ JobIsEnded' /\ StatusIsTrue'
    BY <1>1, <2>1, <2>2 DEF RequestInv, RequestTyped, JobIsBound, JobIsEnded,
       StatusIsTrue, Labels, Asking, After, Unbound
  <2>. QED
    BY <1>1, <2>1, <2>3, RequestMoves
<1>3. CASE /\ pc \in {"capture", "project"} /\ pc' = "stop"
           /\ me' = [me EXCEPT !.status = "cancelled", !.back = "finish",
                               !.notes = me.notes \union {"cancelled"}]
  <2>1. me.wait = "none" /\ me.reply = Service!NoJob
    BY <1>3 DEF RequestInv, AnswersFit, Asking
  <2>2. /\ me'.job = me.job /\ me'.attempted = me.attempted
        /\ me'.wait = me.wait /\ me'.reply = me.reply /\ me'.status = "cancelled"
        /\ me'.errors = me.errors
        /\ me'.captured = me.captured /\ me'.shown = me.shown
        /\ me'.back = "finish" /\ me'.personas = me.personas
        /\ me' \in Requests
    BY <1>1, <1>3 DEF Requests, Statuses, Notes
  <2>3. RequestTyped' /\ JobIsBound' /\ JobIsEnded' /\ StatusIsTrue'
    BY <1>1, <1>3, <2>2 DEF RequestInv, RequestTyped, JobIsBound, JobIsEnded,
       StatusIsTrue, Labels, Asking, After, Unbound
  <2>. QED
    BY <1>1, <2>1, <2>2, <2>3, RequestMoves
<1>4. CASE pc' = "cancelled" /\ me' = me
  <2>1. One!ServedInv'
    <3>1. [One!Next]_(One!vars)
      BY <1>1 DEF One!vars
    <3>. QED
      BY <3>1, One!ServedNext DEF RequestInv
  <2>2. AnswersFit'
    BY <1>1, <1>4 DEF RequestInv, AnswersFit, Believed
  <2>3. RequestTyped' /\ JobIsBound' /\ JobIsEnded' /\ StatusIsTrue'
    BY <1>1, <1>4 DEF RequestInv, RequestTyped, JobIsBound, JobIsEnded, StatusIsTrue,
       Labels, Asking, After, Unbound
  <2>. QED
    BY <2>1, <2>2, <2>3 DEF RequestInv
<1>. QED
  BY <1>1, <1>2, <1>3, <1>4 DEF Service!Cancel, Service!Goto, Requests

LEMMA RequestInit == Service!Init => RequestInv
<1>. SUFFICES ASSUME Service!Init PROVE RequestInv
  OBVIOUS
<1>1. One!ServedInv
  <2>1. call = [c \in Calls |-> One!NoCall]
    BY ServerIsOne DEF Service!Init
  <2>2. \/ row = One!Absent
           /\ engine = [made |-> 0, launches |-> 0, runs |-> 0, runner |-> "none"]
        \/ row = One!Tombstone
           /\ engine = [made |-> 0, launches |-> 0, runs |-> 0, runner |-> "none"]
        \/ row = [request |-> TRUE, sim |-> 1, status |-> "ready"]
           /\ engine = [made |-> 1, launches |-> 0, runs |-> 0, runner |-> "none"]
        \/ /\ row = [request |-> TRUE, sim |-> 1, status |-> "running"]
           /\ \E runner \in {"running", "failed"} :
                engine = [made |-> 1, launches |-> 1, runs |-> 1, runner |-> runner]
    BY DEF Service!Init, Service!Jobs!Init, Service!Jobs!Absent, One!Absent,
       Service!Jobs!Tombstone, One!Tombstone, Service!Fresh
  <2>3. One!RowFits(row) /\ engine \in One!Engines
    <3>1. engine \in One!Engines
      BY <2>2 DEF One!Engines, One!Runner
    <3>2. ASSUME NEW status \in {"ready", "running"},
                 row = [request |-> TRUE, sim |-> 1, status |-> status]
          PROVE  One!RowFits(row)
      BY <3>2 DEF One!RowFits, One!Rows, One!Statuses
    <3>. QED
      BY <2>2, <3>1, <3>2, One!AbsentFits
  <2>4. One!Absent.status = "absent" /\ One!Tombstone.status = "cancelled"
    BY One!AbsentFits DEF One!Absent
  <2>5. /\ engine.made <= 1 /\ engine.launches <= 1
        /\ row = One!Absent => engine.made = 0
        /\ row.status \in {"absent", "ready"} => engine.launches = 0
        /\ engine.launches = 0 => engine.runner = "none"
        /\ engine.runner = "running" => row.sim # 0 /\ row.sim = engine.runs
        /\ row.status = "cancelled" => engine.runner # "running"
        /\ engine.launches # 0 =>
             row.status \notin {"absent", "prepare_uncertain", "ready"}
               /\ row.sim = engine.runs
        /\ row.status \in One!Finished => engine.runner = row.status
    BY <2>2, <2>4 DEF One!Finished
  <2>. QED
    BY <2>1, <2>3, <2>5, OneIsOne, One!ServedAtRest
<1>2. /\ me \in Requests /\ pc = "title" /\ world \in [cancels : Nat, replaced : {0}]
      /\ me.job = Service!NoJob /\ me.wait = "none" /\ me.reply = Service!NoJob
      /\ me.status = "completed" /\ me.back = "finish" /\ me.shown = Service!NoWords
  <2>1. PICK personas \in {Count - 1, Count} \ {0} :
          me = [job |-> Service!NoJob, attempted |-> FALSE, wait |-> "none",
                reply |-> Service!NoJob, status |-> "completed", notes |-> {}, errors |-> {},
                captured |-> 0, shown |-> Service!NoWords, back |-> "finish",
                personas |-> personas]
    BY DEF Service!Init, Service!None
  <2>2. personas \in 1..Count
    BY RequestAssumption
  <2>3. /\ Service!NoWords \in [authors : Nat, unavailable : BOOLEAN]
        /\ {} \in Notes /\ {} \in Errors /\ "completed" \in Statuses
    BY DEF Service!NoWords, Notes, Errors, Statuses
  <2>4. me \in Requests
    BY <2>1, <2>2, <2>3, NoJobIs DEF Requests
  <2>5. pc = "title" /\ world \in [cancels : Nat, replaced : {0}]
    BY DEF Service!Init
  <2>. QED
    BY <2>1, <2>4, <2>5
<1>3. RequestTyped /\ JobIsEnded /\ StatusIsTrue
  BY <1>2 DEF RequestTyped, JobIsEnded, StatusIsTrue, Labels, Asking, After, Unbound
<1>4. JobIsBound
  BY <1>2 DEF JobIsBound, Unbound, Service!NoWords, Requests
<1>5. AnswersFit
  BY <1>2, NoJobIs DEF AnswersFit, Believed, Asking
<1>. QED
  BY <1>1, <1>3, <1>4, <1>5 DEF RequestInv

LEMMA RequestNext == RequestInv /\ Service!Next => RequestInv'
<1>. SUFFICES ASSUME RequestInv, Service!Next PROVE RequestInv'
  OBVIOUS
<1>1. CASE \/ Service!Lookup \/ Service!Prepare \/ Service!Start \/ Service!Status
           \/ Service!Stop \/ Service!Confirm
  BY <1>1, RequestSends DEF Service!Lookup, Service!Prepare, Service!Start, Service!Status,
     Service!Stop, Service!Confirm, Asking
<1>2. CASE \/ Service!Title \/ Service!Roster \/ Service!Found \/ Service!Prepared
           \/ Service!Started \/ Service!Polled \/ Service!Stopped \/ Service!Confirmed
  BY <1>2, RequestBegins, RequestAnswered, RequestPolls, RequestStopped
<1>3. CASE Service!Capture \/ Service!Project \/ Service!Finish \/ Service!GiveUp
  BY <1>3, RequestCaptures, RequestFinishes, RequestGivesUp
<1>4. CASE Service!Expire \/ Service!Cancel
  BY <1>4, RequestExpires, RequestCancelled
<1>5. CASE Service!Handle \/ Service!Breaks \/ Service!RunnerEnds
  BY <1>5, RequestHandled, RequestBroken, RequestRunnerEnds
<1>6. ~Service!Replaced
  BY DEF Service!Replaced, RequestInv, RequestTyped
<1>. QED
  BY <1>1, <1>2, <1>3, <1>4, <1>5, <1>6 DEF Service!Next, Service!Client

LEMMA RequestKept ==
  /\ Init => (part = "service" => RequestInv)
  /\ (part = "service" => RequestInv) /\ [Next]_vars => (part = "service" => RequestInv)'
<1>1. Init => (part = "service" => RequestInv)
  BY RequestInit DEF Init
<1>2. ASSUME part = "service" => RequestInv, [Next]_vars
      PROVE  (part = "service" => RequestInv)'
  <2>1. part' = part
    BY <1>2 DEF Next, vars
  <2>2. CASE Next
    BY <1>2, <2>1, <2>2, RequestNext DEF Next
  <2>3. ASSUME UNCHANGED vars, RequestInv PROVE RequestInv'
    <3>1. [One!Next]_(One!vars) /\ UNCHANGED <<me, pc, world>>
      BY <2>3 DEF vars, One!vars
    <3>2. me.wait # "none" => call[me.wait] # One!NoCall
      BY <2>3 DEF RequestInv, AnswersFit
    <3>3. call' = call
      BY <2>3 DEF vars
    <3>. QED
      BY <2>3, <3>1, <3>2, <3>3, ServerWorks
  <2>. QED
    BY <1>2, <2>1, <2>2, <2>3
<1>. QED
  BY <1>1, <1>2

(* Theorem: ResultIsTrue is an invariant: whatever calls are late, lost or *)
(* fail and wherever the server crashes, a request of service.py leaves an *)
(* ended job or says so, completes only with the words of a completed      *)
(* simulation, and its result passes its own validation.                   *)
THEOREM ResultsAreTrue == Spec => []ResultIsTrue
<1>1. RequestInv => Service!TypeOK
  BY DEF RequestInv, RequestTyped, Requests, Statuses, Errors, Labels, Asking, After,
     Unbound, Service!TypeOK, Service!None, Service!Block
<1>2. RequestInv => Service!StoppedOrReported
  <2>. SUFFICES ASSUME RequestInv, pc = "done",
                       me.attempted \/ me.job # Service!NoJob,
                       "stop_unacknowledged" \notin me.errors
                PROVE  row.status \in Service!Ended /\ engine.runner # "running"
    BY DEF Service!StoppedOrReported
  <2>1. row.status \in One!Ended
    BY DEF RequestInv, JobIsEnded, After
  <2>2. engine.runner # "running"
    BY <2>1 DEF RequestInv, One!ServedInv, One!LocalInv, One!RunsAreKnown,
       One!EndsAreKnown, One!Ended, One!Finished
  <2>. QED
    BY <2>1, <2>2 DEF Service!Ended, One!Ended, One!Finished
<1>3. RequestInv => Service!CompletedIsTrue /\ Service!ResultIsValid
  BY DEF RequestInv, StatusIsTrue, AnswersFit, Believed, After, Service!CompletedIsTrue,
     Service!Observed, Service!ResultIsValid
<1>4. (part = "service" => RequestInv) => ResultIsTrue
  BY <1>1, <1>2, <1>3 DEF ResultIsTrue
<1>. QED
  BY RequestKept, <1>4, PTL DEF Spec

-----------------------------------------------------------------------------
(* A request whose journal gets another row keeps to its job.              *)

HasItsFields ==
  me = [job |-> me.job, attempted |-> me.attempted, wait |-> me.wait, reply |-> me.reply,
        status |-> me.status, notes |-> me.notes, errors |-> me.errors,
        captured |-> me.captured, shown |-> me.shown, back |-> me.back,
        personas |-> me.personas]

KeepingInv ==
  /\ HasItsFields /\ me.back \in {"capture", "finish"}
  /\ pc \in Unbound => me.job = Replaced!NoJob /\ me.captured = 0
  /\ me.captured \in {0, me.job.sim}

(* A step that changes neither the job nor what was captured.              *)
LEMMA JobUntouched ==
  ASSUME KeepingInv, HasItsFields', me'.job = me.job, me'.captured = me.captured,
         me'.back \in {me.back, "capture", "finish"}, pc' \in Unbound => pc \in Unbound
  PROVE  KeepingInv' /\ Replaced!KeepsItsJob
BY DEF KeepingInv, Replaced!KeepsItsJob

LEMMA KeptByEnds ==
  ASSUME KeepingInv, NEW status, NEW notes, NEW errors,
         Replaced!Ends(status, notes, errors)
  PROVE  KeepingInv' /\ Replaced!KeepsItsJob
<1>1. /\ HasItsFields' /\ me'.job = me.job /\ me'.captured = me.captured
      /\ me'.back \in {"capture", "finish"}
  BY DEF Replaced!Ends, Replaced!Local, KeepingInv, HasItsFields
<1>2. pc' \notin Unbound
  BY <1>1 DEF Replaced!Ends, Replaced!Goto, Unbound
<1>. QED
  BY <1>1, <1>2, JobUntouched

LEMMA KeptByFails ==
  ASSUME KeepingInv, Replaced!Fails PROVE KeepingInv' /\ Replaced!KeepsItsJob
BY KeptByEnds DEF Replaced!Fails

LEMMA KeptByBind ==
  ASSUME KeepingInv, pc \in {"lookup", "prepare"}, Replaced!Bind(me.reply)
  PROVE  KeepingInv' /\ Replaced!KeepsItsJob
<1>1. CASE Replaced!Valid(me.reply)
  <2>1. me' = [Replaced!Local EXCEPT !.job = me.reply] /\ pc' \in {"start", "status"}
    BY <1>1 DEF Replaced!Bind, Replaced!Goto
  <2>2. HasItsFields' /\ me'.captured = me.captured /\ me'.back = me.back
    BY <2>1 DEF Replaced!Local, KeepingInv, HasItsFields
  <2>. QED
    BY <2>1, <2>2 DEF KeepingInv, Unbound, Replaced!KeepsItsJob
<1>2. CASE ~Replaced!Valid(me.reply)
  BY <1>2, KeptByFails DEF Replaced!Bind
<1>. QED
  BY <1>1, <1>2

(* The comparison with the bound job is what keeps it.                     *)
LEMMA KeptByPolls ==
  ASSUME KeepingInv, Replaced!Polled
  PROVE  KeepingInv' /\ Replaced!KeepsItsJob
<1>1. CASE Replaced!Fails
  BY <1>1, KeptByFails
<1>2. CASE ~Replaced!Fails
  <2>1. me.reply.sim = me.job.sim
    BY <1>2 DEF Replaced!Polled, Replaced!Same
  <2>2. /\ HasItsFields' /\ me'.job = me.reply /\ me'.captured = me.captured
        /\ me'.back = me.back /\ pc' \in {"capture", "status"}
    BY <1>2 DEF Replaced!Polled, Replaced!Goto, Replaced!Local, KeepingInv, HasItsFields
  <2>. QED
    BY <2>1, <2>2 DEF KeepingInv, Unbound, Replaced!KeepsItsJob
<1>. QED
  BY <1>1, <1>2

LEMMA KeptByCapture ==
  ASSUME KeepingInv, Replaced!Capture \/ Replaced!Project \/ Replaced!Finish
  PROVE  KeepingInv' /\ Replaced!KeepsItsJob
<1>1. HasItsFields' /\ me'.job = me.job /\ pc' \notin Unbound
      /\ me'.back = me.back /\ me'.captured \in {me.captured, me.job.sim}
  BY DEF Replaced!Capture, Replaced!Project, Replaced!Finish, Replaced!Incomplete,
     Replaced!Goto, KeepingInv, HasItsFields, Unbound
<1>. QED
  BY <1>1 DEF KeepingInv, Replaced!KeepsItsJob

(* The remaining steps of the request, and those of others.                *)
LEMMA KeptByOthers ==
  ASSUME KeepingInv,
         \/ \E op : Replaced!Send(op)
         \/ Replaced!Title \/ Replaced!GiveUp \/ Replaced!Stopped \/ Replaced!Confirmed
         \/ Replaced!Cancel \/ Replaced!Handle \/ Replaced!Breaks \/ Replaced!RunnerEnds
         \/ Replaced!Replaced \/ UNCHANGED <<me, pc>>
  PROVE  KeepingInv' /\ Replaced!KeepsItsJob
<1>1. CASE \/ \E op : Replaced!Send(op)
           \/ Replaced!GiveUp \/ Replaced!Handle \/ Replaced!Breaks
  <2>1. HasItsFields' /\ me'.job = me.job /\ me'.captured = me.captured /\ pc' = pc
        /\ me'.back = me.back
    BY <1>1 DEF Replaced!Send, Replaced!GiveUp, Replaced!Handle, Replaced!Breaks,
       KeepingInv, HasItsFields
  <2>. QED
    BY <2>1, JobUntouched
<1>2. CASE \/ Replaced!Title \/ Replaced!RunnerEnds \/ Replaced!Replaced
           \/ UNCHANGED <<me, pc>>
  <2>1. HasItsFields' /\ me'.job = me.job /\ me'.captured = me.captured
        /\ me'.back = me.back /\ (pc' \in Unbound => pc \in Unbound)
    BY <1>2 DEF Replaced!Title, Replaced!RunnerEnds, Replaced!Replaced, Replaced!Goto,
       KeepingInv, HasItsFields, Unbound
  <2>. QED
    BY <2>1, JobUntouched
<1>3. CASE Replaced!Stopped \/ Replaced!Confirmed
  <2>1. HasItsFields' /\ me'.job = me.job /\ me'.captured = me.captured
        /\ me'.back = me.back /\ pc' \in {"confirm", me.back}
    BY <1>3 DEF Replaced!Stopped, Replaced!Confirmed, Replaced!Local, Replaced!Goto,
       KeepingInv, HasItsFields
  <2>. QED
    BY <2>1, JobUntouched DEF Unbound, KeepingInv
<1>4. CASE Replaced!Cancel
  <2>1. HasItsFields' /\ me'.job = me.job /\ me'.captured = me.captured
        /\ me'.back \in {me.back, "capture", "finish"}
    BY <1>4 DEF Replaced!Cancel, Replaced!Local, KeepingInv, HasItsFields
  <2>2. pc' \in {"stop", "cancelled", "capture", "finish"}
    BY <1>4, <2>1 DEF Replaced!Cancel, Replaced!Goto, Replaced!Local, KeepingInv, HasItsFields
  <2>. QED
    BY <2>1, <2>2, JobUntouched DEF Unbound
<1>. QED
  BY <1>1, <1>2, <1>3, <1>4

LEMMA KeptByAll ==
  ASSUME KeepingInv, Replaced!Next \/ UNCHANGED <<me, pc>>
  PROVE  KeepingInv' /\ Replaced!KeepsItsJob
<1>1. CASE Replaced!Expire
  BY <1>1, KeptByEnds DEF Replaced!Expire
<1>2. CASE Replaced!Roster
  <2>1. CASE Replaced!Fails
    BY <2>1, KeptByFails
  <2>2. CASE pc = "roster" /\ me' = [me EXCEPT !.attempted = TRUE]
    <3>1. HasItsFields' /\ me'.job = me.job /\ me'.captured = me.captured
          /\ me'.back = me.back /\ pc \in Unbound
      BY <2>2 DEF KeepingInv, HasItsFields, Unbound
    <3>. QED
      BY <3>1, JobUntouched
  <2>. QED
    BY <1>2, <2>1, <2>2 DEF Replaced!Roster
<1>3. CASE Replaced!Found \/ Replaced!Prepared
  <2>1. CASE Replaced!Bind(me.reply)
    BY <1>3, <2>1, KeptByBind DEF Replaced!Found, Replaced!Prepared
  <2>2. CASE pc = "lookup" /\ me' = Replaced!Local
    <3>1. HasItsFields' /\ me'.job = me.job /\ me'.captured = me.captured
          /\ me'.back = me.back /\ pc \in Unbound
      BY <2>2 DEF KeepingInv, HasItsFields, Replaced!Local, Unbound
    <3>. QED
      BY <3>1, JobUntouched
  <2>. QED
    BY <1>3, <2>1, <2>2 DEF Replaced!Found, Replaced!Prepared
<1>4. CASE Replaced!Started
  <2>1. CASE Replaced!Fails
    BY <2>1, KeptByFails
  <2>2. CASE pc' = "status" /\ me' = Replaced!Local
    <3>1. HasItsFields' /\ me'.job = me.job /\ me'.captured = me.captured
          /\ me'.back = me.back /\ pc' \notin Unbound
      BY <2>2 DEF KeepingInv, HasItsFields, Replaced!Local, Unbound
    <3>. QED
      BY <3>1, JobUntouched
  <2>. QED
    BY <1>4, <2>1, <2>2 DEF Replaced!Started, Replaced!Goto
<1>5. CASE \/ Replaced!Lookup \/ Replaced!Prepare \/ Replaced!Start \/ Replaced!Status
           \/ Replaced!Stop \/ Replaced!Confirm
  <2>1. \E op : Replaced!Send(op)
    BY <1>5 DEF Replaced!Lookup, Replaced!Prepare, Replaced!Start, Replaced!Status,
       Replaced!Stop, Replaced!Confirm
  <2>. QED
    BY <2>1, KeptByOthers
<1>6. CASE \/ Replaced!Polled \/ Replaced!Capture \/ Replaced!Project \/ Replaced!Finish
  BY <1>6, KeptByPolls, KeptByCapture
<1>7. CASE \/ Replaced!Title \/ Replaced!GiveUp \/ Replaced!Stopped \/ Replaced!Confirmed
           \/ Replaced!Cancel \/ Replaced!Handle \/ Replaced!Breaks \/ Replaced!RunnerEnds
           \/ Replaced!Replaced \/ UNCHANGED <<me, pc>>
  BY <1>7, KeptByOthers
<1>. QED
  BY <1>1, <1>2, <1>3, <1>4, <1>5, <1>6, <1>7 DEF Replaced!Next, Replaced!Client

LEMMA KeepingInit == Replaced!Init => KeepingInv
<1>. SUFFICES ASSUME Replaced!Init PROVE KeepingInv
  OBVIOUS
<1>1. PICK personas \in {1 - 1, 1} \ {0} :
        me = [job |-> Replaced!NoJob, attempted |-> FALSE, wait |-> "none",
              reply |-> Replaced!NoJob, status |-> "completed", notes |-> {}, errors |-> {},
              captured |-> 0, shown |-> Replaced!NoWords, back |-> "finish",
              personas |-> personas]
  BY DEF Replaced!Init, Replaced!None
<1>. QED
  BY <1>1 DEF KeepingInv, HasItsFields

LEMMA KeepingKept ==
  /\ Init => (part = "replaced" => KeepingInv)
  /\ (part = "replaced" => KeepingInv) /\ [Next]_vars
       => (part = "replaced" => KeepingInv)' /\ (part = "replaced" => Replaced!KeepsItsJob)
<1>1. Init => (part = "replaced" => KeepingInv)
  BY KeepingInit DEF Init
<1>2. ASSUME part = "replaced" => KeepingInv, [Next]_vars
      PROVE  (part = "replaced" => KeepingInv)' /\ (part = "replaced" => Replaced!KeepsItsJob)
  <2>1. part' = part
    BY <1>2 DEF Next, vars
  <2>2. part = "replaced" => Replaced!Next \/ UNCHANGED <<me, pc>>
    BY <1>2 DEF Next, vars
  <2>. QED
    BY <1>2, <2>1, <2>2, KeptByAll
<1>. QED
  BY <1>1, <1>2

(* Theorem: OutcomesAreFinal: no step of any process takes back a recorded *)
(* cancellation or end, whatever row it has read before; and a request     *)
(* never polls or captures another simulation than the one it has bound.   *)
THEOREM OutcomesAreFinalForAll == Spec => OutcomesAreFinal
<1>1. (part = "shared" => Many!SharedInv) /\ [Next]_vars =>
        (part = "shared" => Shared!StaysCancelled /\ Shared!StaysFinished)
  <2>. SUFFICES ASSUME part = "shared", Many!SharedInv, [Next]_vars
                PROVE  Shared!StaysCancelled /\ Shared!StaysFinished
    OBVIOUS
  <2>1. [Many!Next]_(Many!vars)
    BY SharedIsMany DEF Next, vars, Many!vars
  <2>. QED
    BY <2>1, Many!OutcomeSteps DEF Many!StaysCancelled, Many!StaysFinished,
       Shared!StaysCancelled, Shared!StaysFinished
<1>. QED
  BY <1>1, SharedKept, KeepingKept, PTL DEF Spec, OutcomesAreFinal
=============================================================================
