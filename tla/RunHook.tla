------------------------------- MODULE RunHook -------------------------------
(***************************************************************************)
(* frontend/src/state/usePolicyFuzzRun.ts: the hook through which one      *)
(* window follows one run.  Every request belongs to a generation.  A new  *)
(* operation abandons the generation before it: its timer is cleared and   *)
(* its request aborted, but an answer may be on its way already, and the   *)
(* server may carry out what was asked without anybody listening.          *)
(*                                                                         *)
(* The server side is RunLifecycle, what the coordinator promises, with    *)
(* other windows that act on the same runs.                                *)
(***************************************************************************)
EXTENDS RunStages, Naturals, FiniteSets

CONSTANTS
  Runs,    \* run ids
  Tokens,  \* bound: generations with a request under way, and the current one
  MaxLate, \* bound: writes that may still reach the server
  None     \* no run, no generation, no command

ASSUME BoundsAssumption == MaxLate \in Nat /\ None \notin Runs \union Tokens

VARIABLES
  phase,      \* the server's runs
  late,       \* writes nobody waits for and the server may yet carry out
  mounted,    \* mounted.current
  gen,        \* generation.current
  timer,      \* per generation: the run its timer will ask for, if it is set
  call,       \* the request each generation waits for: its pending flag
  currentId,  \* currentId.current
  shown,      \* run, and currentRun.current
  busy,       \* busy
  error,      \* whether an error is displayed
  turned      \* history: runs the user turned away from and did not reopen

server == <<phase, late>>
screen == <<currentId, shown, busy, error, turned>>
vars == <<server, mounted, gen, timer, call, screen>>

L == INSTANCE RunLifecycle

-----------------------------------------------------------------------------
(* What a view says of its run.                                            *)

(* Faulty variant: drafting_revision is forgotten.                         *)
PollingStagesShort ==
  {"queued", "ingesting", "extracting", "generating_initial_tests",
   "provisional_execution", "targeting_coverage", "freezing_suite",
   "baseline_execution", "analyzing", "applying_revision", "retesting"}

PollingStages ==
  {"queued", "ingesting", "extracting", "generating_initial_tests",
   "provisional_execution", "targeting_coverage", "freezing_suite",
   "baseline_execution", "analyzing", "drafting_revision",
   "applying_revision", "retesting"}

Phases == <<"compiling", "contract", "testing", "review", "drafting",
            "revision", "retesting", "ended">>

Rank(p) == CHOOSE i \in DOMAIN Phases : Phases[i] = p

StagesOf ==
  [compiling |-> {"queued", "ingesting", "extracting"},
   contract  |-> {"awaiting_contract"},
   testing   |-> {"generating_initial_tests", "provisional_execution",
                  "targeting_coverage", "freezing_suite",
                  "baseline_execution", "analyzing"},
   review    |-> {"awaiting_finding_review"},
   drafting  |-> {"drafting_revision"},
   revision  |-> {"awaiting_revision_confirmation"},
   retesting |-> {"applying_revision", "retesting"},
   ended     |-> Terminal]

Shown == DOMAIN StagesOf

(* The commands of the hook, the phase each one decides, and where it may  *)
(* lead.                                                                   *)
GateOf == [confirm_contract |-> "contract", reject_contract |-> "contract",
           select_findings |-> "review",
           confirm_revision |-> "revision", reject_revision |-> "revision"]

LeadsTo == [confirm_contract |-> {"testing"}, reject_contract |-> {"ended"},
            select_findings |-> {"drafting", "ended"},
            confirm_revision |-> {"retesting"}, reject_revision |-> {"ended"}]

Commands == DOMAIN GateOf

Nothing == [run |-> None, phase |-> "unborn", polls |-> FALSE]
Views == [run: Runs, phase: Shown, polls: BOOLEAN] \union {Nothing}

NoAnswer == [is |-> "nothing", view |-> Nothing]
Answers == {NoAnswer} \union
  [is: {"view", "deleted", "conflict"}, view: Views] \union
  [is: {"created"}, view: {[Nothing EXCEPT !.run = r] : r \in Runs}]

(* A decision that has taken effect is `done` before it is answered; a     *)
(* `quiet` GET keeps the error that is displayed.                          *)
NoCall == [op |-> "none", run |-> None, cmd |-> None, quiet |-> FALSE,
           done |-> FALSE, answer |-> NoAnswer]
Get(r) == [NoCall EXCEPT !.op = "get", !.run = r]
QuietGet(r) == [Get(r) EXCEPT !.quiet = TRUE]

Calls ==
  [op: {"none", "create"}, run: {None}, cmd: {None}, quiet: {FALSE},
   done: {FALSE}, answer: Answers] \union
  [op: {"get", "decide", "delete"}, run: Runs, cmd: Commands \union {None},
   quiet: BOOLEAN, done: BOOLEAN, answer: Answers]

Init ==
  /\ phase = [r \in Runs |-> "unborn"] /\ late = {}
  /\ mounted = FALSE /\ gen = None /\ timer = [t \in Tokens |-> None]
  /\ call = [t \in Tokens |-> NoCall]
  /\ currentId = None /\ shown = Nothing /\ busy = FALSE /\ error = FALSE
  /\ turned = {}

-----------------------------------------------------------------------------
(* Parts of the handlers.                                                  *)

Pending(t) == call[t] # NoCall

(* Faulty variant: any answer about the run that is followed is welcome.   *)
CurrentRun(t) ==
  mounted /\ (gen = t \/ (call[t].op = "get" /\ call[t].run = currentId))

Current(t) == mounted /\ gen = t

SetTimer(t, id) == timer' = [u \in Tokens |-> IF u = t THEN id ELSE timer[u]]
ClearTimer(t) == SetTimer(t, None)

(* begin, with the invalidate it starts with.                              *)
Begin(t) ==
  /\ ~Pending(t) /\ t # gen
  /\ gen' = t
  /\ ClearTimer(gen)

Invalidate ==
  /\ gen' = None
  /\ ClearTimer(gen)

(* clearLocal, after which the hook is to follow `id`.                     *)
ClearLocal(id) ==
  /\ shown' = Nothing
  /\ currentId' = id
  /\ error' = FALSE
  /\ turned' = (turned \union {currentId}) \ {id, None}

Accept(view) ==
  /\ shown' = view
  /\ currentId' = view.run

Ask(t, request) == call' = [call EXCEPT ![t] = request]

-----------------------------------------------------------------------------
(* What the user does.                                                     *)

(* The effect of mounting, also after StrictMode's cleanup or a change of  *)
(* initialRunId, whose cleanup runs right before it.  A made-up id is as   *)
(* good as one of a run that is gone.                                      *)
Open(id, t) ==
  /\ id # None => phase[id] # "unborn"
  /\ mounted' = TRUE
  /\ Begin(t)
  /\ ClearLocal(id)
  /\ busy' = (id # None)
  /\ IF id = None THEN UNCHANGED call ELSE Ask(t, Get(id))
  /\ UNCHANGED server

Unmount ==
  /\ mounted
  /\ mounted' = FALSE
  /\ Invalidate
  /\ UNCHANGED <<server, call, screen>>

CreateRun(t) ==
  /\ mounted
  /\ Begin(t)
  /\ ClearLocal(None)
  /\ busy' = TRUE
  /\ Ask(t, [NoCall EXCEPT !.op = "create"])
  /\ UNCHANGED <<server, mounted>>

GenerationIdle == gen # None => ~Pending(gen)

(* confirmContract, selectFindings and confirmRevision.                    *)
Action(cmd, t) ==
  /\ mounted
  /\ GenerationIdle
  /\ shown.phase = GateOf[cmd]
  /\ \E stage \in StagesOf[shown.phase] : cmd \in AllowedActions(stage)
  /\ Begin(t)
  /\ Ask(t, [NoCall EXCEPT !.op = "decide", !.run = shown.run, !.cmd = cmd])
  /\ busy' = TRUE
  /\ error' = FALSE
  /\ UNCHANGED <<server, mounted, currentId, shown, turned>>

Refresh(t) ==
  /\ mounted
  /\ GenerationIdle
  /\ currentId # None
  /\ IF gen = None THEN Begin(t)
                   ELSE t = gen /\ ClearTimer(t) /\ UNCHANGED gen
  /\ Ask(t, Get(currentId))
  /\ busy' = TRUE
  /\ error' = FALSE
  /\ UNCHANGED <<server, mounted, currentId, shown, turned>>

DeleteRun(t) ==
  /\ mounted
  /\ gen # None => call[gen].op # "delete"
  /\ shown # Nothing
  /\ Begin(t)
  /\ Ask(t, [NoCall EXCEPT !.op = "delete", !.run = shown.run])
  /\ busy' = TRUE
  /\ error' = FALSE
  /\ UNCHANGED <<server, mounted, currentId, shown, turned>>

(* Faulty variant: reset clears the screen and leaves the generation.      *)
ResetLeavesGeneration ==
  /\ mounted
  /\ ClearLocal(None)
  /\ busy' = FALSE
  /\ UNCHANGED <<server, mounted, gen, timer, call>>

Reset ==
  /\ mounted
  /\ Invalidate
  /\ ClearLocal(None)
  /\ busy' = FALSE
  /\ UNCHANGED <<server, mounted, call>>

(* The callback of a timer.                                                *)
Poll(t) ==
  /\ timer[t] # None
  /\ Current(t) /\ ~Pending(t)
  /\ ClearTimer(t)
  /\ Ask(t, Get(timer[t]))
  /\ UNCHANGED <<server, mounted, gen, screen>>

-----------------------------------------------------------------------------
(* How a request ends.  A time-out, an abort and an error response are all *)
(* failures, and may come whatever the server did.                         *)

Answered(t, kind) == call[t].answer.is = kind

(* getFresh got its view.                                                  *)
Fresh(t) ==
  /\ call[t].op = "get" /\ Answered(t, "view")
  /\ Current(t)
  /\ Accept(call[t].answer.view)
  /\ IF call[t].answer.view.polls THEN SetTimer(t, call[t].run)
                                   ELSE UNCHANGED timer
  /\ Ask(t, NoCall)
  /\ busy' = FALSE
  /\ UNCHANGED <<server, mounted, gen, error, turned>>

Created(t) ==
  /\ Answered(t, "created")
  /\ Current(t)
  /\ currentId' = call[t].answer.view.run
  /\ Ask(t, Get(call[t].answer.view.run))
  /\ UNCHANGED <<server, mounted, gen, timer, shown, busy, error, turned>>

Decided(t) ==
  /\ call[t].op = "decide" /\ Answered(t, "view")
  /\ Current(t)
  /\ Accept(call[t].answer.view)
  /\ Ask(t, Get(call[t].run))
  /\ UNCHANGED <<server, mounted, gen, timer, busy, error, turned>>

(* A conflict is displayed and the view is read again.                     *)
Conflicted(t) ==
  /\ Answered(t, "conflict")
  /\ Current(t)
  /\ error' = TRUE
  /\ Ask(t, QuietGet(call[t].run))
  /\ UNCHANGED <<server, mounted, gen, timer, currentId, shown, busy, turned>>

Deleted(t) ==
  /\ Answered(t, "deleted")
  /\ Current(t)
  /\ Invalidate
  /\ ClearLocal(None)
  /\ busy' = FALSE
  /\ Ask(t, NoCall)
  /\ UNCHANGED <<server, mounted>>

(* A write that nobody waits for any more and that the server has not seen *)
(* may still reach it; past the bound it is lost.                          *)
Unheard(t) ==
  late' = IF \/ call[t].op = "get" \/ call[t].done \/ call[t].answer # NoAnswer
             \/ Cardinality(late) = MaxLate
          THEN late
          ELSE late \union
            {[op |-> call[t].op, run |-> call[t].run, cmd |-> call[t].cmd]}

(* Faulty variant: busy is not reset when a poll fails.                    *)
FailedStaysBusy(t) ==
  /\ Pending(t) /\ Current(t)
  /\ error' = (error \/ ~call[t].quiet)
  /\ busy' = (busy /\ call[t].op = "get")
  /\ Unheard(t)
  /\ Ask(t, NoCall)
  /\ UNCHANGED <<phase, mounted, gen, timer, currentId, shown, turned>>

Failed(t) ==
  /\ Pending(t) /\ Current(t)
  /\ error' = (error \/ ~call[t].quiet)
  /\ busy' = FALSE
  /\ Unheard(t)
  /\ Ask(t, NoCall)
  /\ UNCHANGED <<phase, mounted, gen, timer, currentId, shown, turned>>

(* Whatever an abandoned request brings is dropped.                        *)
Dropped(t) ==
  /\ Pending(t) /\ ~Current(t)
  /\ Unheard(t)
  /\ Ask(t, NoCall)
  /\ UNCHANGED <<phase, mounted, gen, timer, screen>>

Settle(t) ==
  \/ Fresh(t) \/ Created(t) \/ Decided(t) \/ Conflicted(t) \/ Deleted(t)
  \/ Failed(t) \/ Dropped(t)

-----------------------------------------------------------------------------
(* The server.                                                             *)

client == <<mounted, gen, timer, screen>>

Waits(t, op) == call[t].op = op /\ ~call[t].done /\ call[t].answer = NoAnswer

Reply(t, kind, view) ==
  call' = [call EXCEPT ![t].answer = [is |-> kind, view |-> view]]

(* A GET is answered with the run as it is; a decision likewise, once it   *)
(* has taken effect.                                                       *)
Serves(t) ==
  /\ Waits(t, "get") \/ (call[t].done /\ call[t].answer = NoAnswer)
  /\ phase[call[t].run] \in Shown
  /\ \E stage \in StagesOf[phase[call[t].run]] :
       Reply(t, "view", [run |-> call[t].run, phase |-> phase[call[t].run],
                         polls |-> stage \in PollingStages])
  /\ UNCHANGED <<server, client>>

Births(t) ==
  /\ Waits(t, "create")
  /\ \E r \in Runs :
       /\ L!Create(r)
       /\ Reply(t, "created", [Nothing EXCEPT !.run = r])
  /\ UNCHANGED <<late, client>>

Obeys(r, cmd) == \E p \in LeadsTo[cmd] : L!Go(r, GateOf[cmd], p)

Decides(t) ==
  /\ Waits(t, "decide")
  /\ Obeys(call[t].run, call[t].cmd)
  /\ call' = [call EXCEPT ![t].done = TRUE]
  /\ UNCHANGED <<late, client>>

(* 409: the run is elsewhere, or the hashes do not match what it holds.    *)
Refuses(t) ==
  /\ Waits(t, "decide")
  /\ phase[call[t].run] \in Shown
  /\ Reply(t, "conflict", Nothing)
  /\ UNCHANGED <<server, client>>

Removes(t) ==
  /\ Waits(t, "delete")
  /\ L!Remove(call[t].run)
  /\ Reply(t, "deleted", Nothing)
  /\ UNCHANGED <<late, client>>

(* A late write takes effect.                                              *)
ServesLate(m) ==
  /\ late' = late \ {m}
  /\ \/ m.op = "create" /\ \E r \in Runs : L!Create(r)
     \/ m.op = "decide" /\ Obeys(m.run, m.cmd)
     \/ m.op = "delete" /\ L!Remove(m.run)
  /\ UNCHANGED <<call, client>>

(* The server works, runs expire, and other windows act on them.           *)
Elsewhere == L!Next /\ UNCHANGED <<late, call, client>>

Respond(t) == Serves(t) \/ Births(t) \/ Decides(t) \/ Refuses(t) \/ Removes(t)

-----------------------------------------------------------------------------
Next ==
  \/ \E t \in Tokens :
       \/ \E id \in Runs \union {None} : Open(id, t)
       \/ CreateRun(t)
       \/ \E cmd \in Commands : Action(cmd, t)
       \/ Refresh(t)
       \/ DeleteRun(t)
       \/ Poll(t)
       \/ Settle(t)
       \/ Respond(t)
  \/ Unmount \/ Reset
  \/ \E m \in late : ServesLate(m)
  \/ Elsewhere

Spec == Init /\ [][Next]_vars

(* Timers fire, every request ends (the transport gives up after fifteen   *)
(* seconds), and the server finishes its work.  The user owes nothing.     *)
FairSpec ==
  /\ Spec
  /\ \A t \in Tokens : WF_vars(Poll(t)) /\ WF_vars(Settle(t))
  /\ \A r \in Runs : WF_vars(Elsewhere /\ phase[r] \in L!Working /\ L!Work(r))

-----------------------------------------------------------------------------
(* Types.                                                                  *)
TypeOK ==
  /\ phase \in [Runs -> L!Phases]
  /\ late \subseteq [op: {"create", "decide", "delete"},
                     run: Runs \union {None}, cmd: Commands \union {None}]
  /\ mounted \in BOOLEAN
  /\ gen \in Tokens \union {None}
  /\ timer \in [Tokens -> Runs \union {None}]
  /\ call \in [Tokens -> Calls]
  /\ currentId \in Runs \union {None}
  /\ shown \in Views
  /\ busy \in BOOLEAN /\ error \in BOOLEAN
  /\ turned \subseteq Runs

(* Whatever answers arrive late, the screen shows the run the hook          *)
(* follows, and never one the user replaced, reset or deleted.             *)
ShowsWhatWasAskedFor ==
  mounted /\ shown # Nothing => shown.run = currentId /\ shown.run \notin turned

(* A run in an automatic stage is displayed without an error only while a  *)
(* timer or a request of the current generation will look again.           *)
SomebodyLooks ==
  mounted /\ shown.phase \in L!Working /\ ~error
    => gen # None /\ (timer[gen] # None \/ Pending(gen))

(* Polls never overlap and never outlive their generation: a timer is set  *)
(* only for the current one, while it has no request.                      *)
OnlyTheCurrentPolls ==
  \A t \in Tokens : timer[t] # None => Current(t) /\ ~Pending(t)

(* The controls are not disabled with nothing under way.                   *)
BusyMeansPending ==
  mounted /\ busy => gen # None /\ Pending(gen)

(* At every moment, whatever was answered late, aborted or refused: the    *)
(* screen is of the run the user follows, somebody will look again, and    *)
(* what waits belongs to the current generation.                           *)
ScreenIsTrue ==
  /\ TypeOK
  /\ ShowsWhatWasAskedFor
  /\ SomebodyLooks
  /\ OnlyTheCurrentPolls
  /\ BusyMeansPending

(* While one run stays on the screen its stage never goes back.            *)
NeverGoesBack ==
  [][shown # Nothing /\ shown'.run = shown.run
       => Rank(shown.phase) <= Rank(shown'.phase)]_vars

(* A view of a working run is replaced by what became of the run, unless   *)
(* an error says that polling stopped, or the user leaves.                 *)
CatchesUp ==
  \A r \in Runs :
    mounted /\ shown.run = r /\ shown.phase \in L!Working /\ ~error
      ~> ~mounted \/ error \/ shown.run # r \/ shown.phase \notin L!Working

(* What a generation waits for ends: the controls come back unless the     *)
(* user starts something else.                                             *)
BusyEnds ==
  \A t \in Tokens : busy /\ gen = t ~> ~busy \/ gen # t

(* Nothing that the user waits for is forgotten: neither a run that works  *)
(* on the server nor an operation of the user's own.                       *)
FollowsThrough == CatchesUp /\ BusyEnds
=============================================================================
