------------------------------ MODULE SwarmRun ------------------------------
(***************************************************************************)
(* run_swarm (engine/app/services/mirofish_runner.py): one client that     *)
(* drives a MiroFish server from the ontology to the captured talk, under  *)
(* one deadline, against a server whose answers may be errors or lost.     *)
(*                                                                         *)
(* The server is external: it is modelled from the calls run_swarm makes   *)
(* and the answers it expects.  It may give no task to wait for, and then  *)
(* run_swarm goes on at once.                                              *)
(***************************************************************************)
EXTENDS Naturals, Sequences, FiniteSets, SequencesExt

CONSTANTS
  SwarmTimeout,  \* swarm_timeout, in polls
  Texts,         \* message texts
  RowLimit,      \* most messages of a list: asked for by _capture, kept by _trim_swarm
  MaxRows        \* bound: messages a simulation leaves

Empty == "empty"

VARIABLES
  pc,       \* where run_swarm is
  clock,    \* time.monotonic, in polls
  server,   \* the MiroFish project, graph, preparation and simulation, and
            \* for which of the first two it names a task
  rows,     \* messages of a list (posts, or comments) left on the server
  capture   \* what the server answers of them, is kept of that, and rejected

vars == <<pc, clock, server, rows, capture>>

Init ==
  /\ pc = "launch" /\ clock = 0
  /\ server \in [project : {"none", "graph_completed"}, graph : {"none"},
                 prepared : {"no"}, run : {"none"}, starts : {0},
                 tasks : SUBSET {"graph", "prepare"}]
  /\ rows = <<>>
  /\ capture = [answer |-> <<>>, posts |-> <<>>, rejected |-> 0]

Becomes(label) == pc' = label
Idle == UNCHANGED <<clock, rows, capture>>

(* A call that changes the server's state: it is done and answered, done   *)
(* and its answer lost, or refused.  Anything but an answer raises.        *)
Call(label, effect, next) ==
  /\ pc = label
  /\ \/ server' = effect /\ Becomes(next)
     \/ server' = effect /\ Becomes("raised")
     \/ server' = server /\ Becomes("raised")
  /\ Idle

-----------------------------------------------------------------------------
(* launch_mirofish, _existing_graph, _build_graph                          *)
Launch ==
  /\ pc = "launch"
  /\ Becomes("project") \/ Becomes("raised")
  /\ UNCHANGED server /\ Idle

(* A project that cannot be read counts as one without a graph.            *)
ExistingGraph ==
  /\ pc = "project"
  /\ \/ server.project = "graph_completed" /\ Becomes("create")
        /\ server' = [server EXCEPT !.graph = "built"]
     \/ Becomes("build") /\ UNCHANGED server
  /\ Idle

(* Without a task any graph that the answer or the project names is taken, *)
(* however far it is.                                                      *)
BuildGraph ==
  \/ /\ "graph" \in server.tasks
     /\ Call("build", [server EXCEPT !.graph = "building"], "graph poll")
  \/ /\ "graph" \notin server.tasks
     /\ \E g \in {"building", "built", "failed"} :
          Call("build", [server EXCEPT !.graph = g], "create")

-----------------------------------------------------------------------------
(* Faulty variant: the answer is looked at for the end only.               *)
PollForTheEnd(label, failed, done, next) ==
  /\ pc = label
  /\ \/ /\ clock < SwarmTimeout
        /\ \/ (failed \/ done) /\ Becomes(next) /\ clock' = clock
           \/ ~failed /\ ~done /\ clock' = clock + 1 /\ UNCHANGED pc
           \/ Becomes("raised") /\ clock' = clock
     \/ /\ clock >= SwarmTimeout
        /\ Becomes("raised")
        /\ UNCHANGED clock
  /\ UNCHANGED <<server, rows, capture>>
(* _poll_until: while the deadline has not passed, ask; raise when the     *)
(* answer says failed, return when it says done, sleep otherwise.          *)
PollUntil(label, failed, done, next) ==
  /\ pc = label
  /\ \/ /\ clock < SwarmTimeout
        /\ \/ failed /\ Becomes("raised") /\ clock' = clock
           \/ ~failed /\ done /\ Becomes(next) /\ clock' = clock
           \/ ~failed /\ ~done /\ clock' = clock + 1 /\ UNCHANGED pc
           \/ Becomes("raised") /\ clock' = clock        \* no answer, or an error
     \/ /\ clock >= SwarmTimeout
        /\ Becomes("raised")
        /\ UNCHANGED clock
  /\ UNCHANGED <<server, rows, capture>>

PollGraph ==
  PollUntil("graph poll", server.graph = "failed", server.graph = "built", "create")

(* _create_and_prepare                                                     *)
Create == Call("create", server, "prepare")

(* Faulty variant: a task is not waited for.                               *)
PrepareUnwatched ==
  \/ Call("prepare", [server EXCEPT !.prepared = "yes"], "start")
  \/ \E p \in {"no", "running", "failed"} :
       Call("prepare", [server EXCEPT !.prepared = p], "start")
(* The answer says that it is prepared, or names a task that prepares, or  *)
(* neither: then nothing is waited for, whatever its status says.          *)
Prepare ==
  \/ Call("prepare", [server EXCEPT !.prepared = "yes"], "start")
  \/ /\ "prepare" \in server.tasks
     /\ Call("prepare", [server EXCEPT !.prepared = "running"], "prepare poll")
  \/ /\ "prepare" \notin server.tasks
     /\ \E p \in {"no", "running", "failed"} :
          Call("prepare", [server EXCEPT !.prepared = p], "start")

PollPrepare ==
  PollUntil("prepare poll", server.prepared = "failed", server.prepared = "yes", "start")

(* _start_and_wait                                                         *)
Start ==
  Call("start", [server EXCEPT !.run = "running", !.starts = @ + 1], "run poll")

PollRun ==
  PollUntil("run poll", server.run = "failed",
            server.run \in {"completed", "stopped", "failed"}, "capture")

-----------------------------------------------------------------------------
(* The members of a finite set of numbers in ascending order.              *)
Ascending(S) ==
  CHOOSE f \in [1..Cardinality(S) -> S] : \A i, j \in DOMAIN f : i < j => f[i] < f[j]

(* _deduplicate_messages: the first copy of each text; empty ones stay.    *)
Firsts(s) == {i \in DOMAIN s : s[i] = Empty \/ \A j \in 1..(i - 1) : s[j] # s[i]}
Deduplicated(s) ==
  LET kept == Ascending(Firsts(s)) IN [k \in DOMAIN kept |-> s[kept[k]]]

(* The server's answer: at most so many messages, whichever MiroFish takes *)
(* for them, or all of them if it does not heed the limit.                 *)
Answers ==
  {rows} \union {SubSeq(rows, i + 1, i + RowLimit) : i \in 0..(Len(rows) - RowLimit)}

Trimmed(s) == IF Len(s) > RowLimit THEN SubSeq(s, 1, RowLimit) ELSE s

(* _capture, and _trim_swarm (coordinator.py) of what it returns.          *)
Capture ==
  /\ pc = "capture"
  /\ \/ /\ Becomes("captured")
        /\ \E a \in Answers :
             capture' = [answer |-> a, posts |-> Trimmed(Deduplicated(a)),
                         rejected |-> Len(a) - Len(Deduplicated(a))]
     \/ Becomes("raised") /\ UNCHANGED capture
  /\ UNCHANGED <<clock, server, rows>>

-----------------------------------------------------------------------------
(* The server works, whether the client still waits or not.                *)
ServerBuilds ==
  /\ server.graph = "building"
  /\ \E g \in {"built", "failed"} : server' = [server EXCEPT !.graph = g]
  /\ UNCHANGED pc /\ Idle

ServerPrepares ==
  /\ server.prepared = "running"
  /\ \E p \in {"yes", "failed"} : server' = [server EXCEPT !.prepared = p]
  /\ UNCHANGED pc /\ Idle

ServerRuns ==
  /\ server.run = "running"
  /\ \E r \in {"completed", "stopped", "failed"} : server' = [server EXCEPT !.run = r]
  /\ rows' \in UNION {[1..n -> Texts \union {Empty}] : n \in 0..MaxRows}
  /\ UNCHANGED <<pc, clock, capture>>

Client == Launch \/ ExistingGraph \/ BuildGraph \/ PollGraph \/ Create \/ Prepare
            \/ PollPrepare \/ Start \/ PollRun \/ Capture

Next == Client \/ ServerBuilds \/ ServerPrepares \/ ServerRuns

(* The client is one thread that runs until it returns; the server is not  *)
(* trusted to do anything.                                                 *)
Spec == Init /\ [][Next]_vars /\ WF_vars(Client)

-----------------------------------------------------------------------------
(* Properties                                                              *)

TypeOK ==
  /\ pc \in {"launch", "project", "build", "graph poll", "create", "prepare",
             "prepare poll", "start", "run poll", "capture", "captured", "raised"}
  /\ clock \in 0..SwarmTimeout
  /\ rows \in Seq(Texts \union {Empty})

(* What is captured is the talk of a simulation that ended without         *)
(* failing and was started once; and whatever the server lets be waited    *)
(* for, its graph and its preparation, was finished before it started.     *)
CapturedIsFinished ==
  pc \in {"capture", "captured"} =>
    server.run \in {"completed", "stopped"} /\ server.starts = 1
StartedIsPrepared ==
  server.starts > 0 =>
    /\ "graph" \in server.tasks => server.graph = "built"
    /\ "prepare" \in server.tasks => server.prepared = "yes"

FirstAt(s, t) == SelectInSeq(s, LAMBDA u : u = t)

(* What is kept is of the server's answer, no text twice, in the order of  *)
(* first copies, and within the limit; below it nothing is lost that is    *)
(* not counted, and a talk that fits is kept whole, every text once.       *)
CapturedOnce ==
  pc = "captured" =>
    /\ Len(capture.posts) <= RowLimit
    /\ ToSet(capture.posts) \subseteq ToSet(rows)
    /\ \A i, j \in DOMAIN capture.posts :
         i # j /\ capture.posts[i] = capture.posts[j] => capture.posts[i] = Empty
    /\ \A i, j \in DOMAIN capture.posts :
         i < j /\ Empty \notin {capture.posts[i], capture.posts[j]} =>
           FirstAt(capture.answer, capture.posts[i]) < FirstAt(capture.answer, capture.posts[j])
    /\ Len(capture.posts) + capture.rejected >= IF Len(rows) < RowLimit THEN Len(rows) ELSE RowLimit
    /\ Len(rows) <= RowLimit =>
         /\ capture.answer = rows /\ ToSet(capture.posts) = ToSet(rows)
         /\ Len(capture.posts) + capture.rejected = Len(rows)
=============================================================================
