--------------------------- MODULE RunHookProofs ---------------------------
(***************************************************************************)
(* Theorems about RunHook for every set of runs and of generations.        *)
(***************************************************************************)
EXTENDS RunHook, TLAPS

-----------------------------------------------------------------------------
(* The inductive invariant.                                                *)

(* What was seen of r at p is not ahead of the server.                     *)
Seen(r, p) ==
  /\ phase[r] # "unborn"
  /\ phase[r] \in Shown => Rank(p) <= Rank(phase[r])

(* A view some GET brought: of the run that was asked for, polling while   *)
(* the server works.                                                       *)
IsViewOf(r, view) ==
  /\ r \in Runs /\ view \in [run: {r}, phase: Shown, polls: BOOLEAN]
  /\ view.phase \in L!Working => view.polls
  /\ Seen(r, view.phase)

(* What a request and its answer have to do with each other.               *)
Sound(c) ==
  /\ c.op = "none" => c = NoCall
  /\ c.op = "decide" => c.cmd \in Commands
  /\ c.answer.is = "created" =>
       /\ c.op = "create"
       /\ c.answer.view.run \in Runs
       /\ phase[c.answer.view.run] # "unborn"
  /\ c.answer.is = "conflict" => c.op = "decide"
  /\ c.answer.is = "view" => IsViewOf(c.run, c.answer.view)

CallsSound == \A t \in Tokens : Sound(call[t])

LateSound == \A m \in late : m.op = "decide" => m.cmd \in Commands

(* What the request of the current generation is about: the run the hook   *)
(* follows, or one that nobody has seen, and news for the screen.          *)
Follows(c) ==
  /\ c.op \in {"get", "decide", "delete"} => c.run = currentId
  /\ c.op = "create" => shown = Nothing
  /\ c.quiet => error
  /\ c.answer.is = "created" => c.answer.view.run \notin turned
  /\ c.answer.is = "view" /\ shown # Nothing
       => Rank(shown.phase) <= Rank(c.answer.view.phase)

CurrentFollows == gen # None => Follows(call[gen])

TimerFollows == \A t \in Tokens : timer[t] # None => timer[t] = currentId

(* The runs the user followed exist, and what is displayed was seen.       *)
FollowedAreBorn ==
  /\ \A r \in turned \union {currentId} : r # None => phase[r] # "unborn"
  /\ currentId \notin turned
  /\ shown # Nothing => shown.run = currentId /\ Seen(shown.run, shown.phase)

HookInv ==
  /\ TypeOK
  /\ CallsSound
  /\ LateSound
  /\ CurrentFollows
  /\ TimerFollows
  /\ FollowedAreBorn
  /\ SomebodyLooks
  /\ OnlyTheCurrentPolls
  /\ BusyMeansPending

-----------------------------------------------------------------------------
(* The phases and how they follow each other.                              *)

LEMMA ShownAre ==
  Shown = {"compiling", "contract", "testing", "review", "drafting",
           "revision", "retesting", "ended"}
BY DEF Shown, StagesOf

(* Rank counts the phases of a run in the order in which it goes through   *)
(* them.                                                                   *)
LEMMA RanksAre ==
  /\ Rank("compiling") = 1 /\ Rank("contract") = 2 /\ Rank("testing") = 3
  /\ Rank("review") = 4 /\ Rank("drafting") = 5 /\ Rank("revision") = 6
  /\ Rank("retesting") = 7 /\ Rank("ended") = 8
<1>1. DOMAIN Phases = 1 .. 8
  BY DEF Phases
<1>2. \A n \in 1 .. 8 : Rank(Phases[n]) = n
  <2>. SUFFICES ASSUME NEW n \in 1 .. 8 PROVE Rank(Phases[n]) = n
    OBVIOUS
  <2>1. \A i \in 1 .. 8 : Phases[i] = Phases[n] => i = n
    BY DEF Phases
  <2>. QED
    BY <1>1, <2>1 DEF Rank
<1>3. /\ Phases[1] = "compiling" /\ Phases[2] = "contract" /\ Phases[3] = "testing"
      /\ Phases[4] = "review" /\ Phases[5] = "drafting" /\ Phases[6] = "revision"
      /\ Phases[7] = "retesting" /\ Phases[8] = "ended"
  BY DEF Phases
<1>4. 1 \in 1 .. 8 /\ 2 \in 1 .. 8 /\ 3 \in 1 .. 8 /\ 4 \in 1 .. 8 /\ 5 \in 1 .. 8
      /\ 6 \in 1 .. 8 /\ 7 \in 1 .. 8 /\ 8 \in 1 .. 8
  OBVIOUS
<1>5. /\ Rank(Phases[1]) = 1 /\ Rank(Phases[2]) = 2 /\ Rank(Phases[3]) = 3
      /\ Rank(Phases[4]) = 4 /\ Rank(Phases[5]) = 5 /\ Rank(Phases[6]) = 6
      /\ Rank(Phases[7]) = 7 /\ Rank(Phases[8]) = 8
  BY <1>2, <1>4, Zenon
<1>. QED
  BY <1>3, <1>5

LEMMA RankIsNat == \A p \in Shown : Rank(p) \in Nat
BY ShownAre, RanksAre

(* A view of a run the server works on polls.                              *)
LEMMA WorkIsPolled ==
  \A p \in L!Working : p \in Shown /\ StagesOf[p] \subseteq PollingStages
BY ShownAre DEF L!Working, StagesOf, PollingStages

(* What can become of a run at p: it is never born again, nor brought      *)
(* back, and does not return to an earlier phase.                          *)
Later(p, q) ==
  p # q =>
    /\ q # "unborn" /\ p # "gone"
    /\ p # "unborn" /\ q \in Shown => p \in Shown /\ Rank(p) <= Rank(q)

ServerStep ==
  /\ phase' \in [Runs -> L!Phases]
  /\ \A r \in Runs : Later(phase[r], phase'[r])

LEMMA GoIsLater ==
  ASSUME TypeOK, NEW r, NEW p, NEW q \in L!Phases, L!Go(r, p, q), Later(p, q)
  PROVE  ServerStep
<1>1. phase' = [phase EXCEPT ![r] = q] /\ phase[r] = p
  BY DEF L!Go
<1>2. \A s \in Runs : phase'[s] = IF s = r THEN q ELSE phase[s]
  BY <1>1 DEF TypeOK
<1>3. \A s \in Runs : Later(phase[s], phase'[s])
  BY <1>1, <1>2 DEF Later
<1>. QED
  BY <1>1, <1>3 DEF ServerStep, TypeOK

LEMMA DecisionsAreLater ==
  ASSUME NEW cmd \in Commands, NEW q \in LeadsTo[cmd]
  PROVE  q \in L!Phases /\ Later(GateOf[cmd], q)
BY ShownAre, RanksAre
   DEF Commands, LeadsTo, GateOf, Later, L!Phases, L!Working, L!Deciding

LEMMA ObeysIsLater ==
  ASSUME TypeOK, NEW r, NEW cmd \in Commands, Obeys(r, cmd)
  PROVE  ServerStep
BY DecisionsAreLater, GoIsLater DEF Obeys

LEMMA CreateIsLater ==
  ASSUME TypeOK, NEW r, L!Create(r)
  PROVE  ServerStep
<1>1. \A q \in {"compiling", "ended"} : q \in L!Phases /\ Later("unborn", q)
  BY DEF Later, L!Phases, L!Working
<1>. QED
  BY <1>1, GoIsLater DEF L!Create

LEMMA RemoveIsLater ==
  ASSUME TypeOK, NEW r, L!Remove(r)
  PROVE  ServerStep
<1>1. \A p \in L!Phases \ {"unborn", "gone"} : Later(p, "gone") /\ "gone" \in L!Phases
  BY ShownAre DEF Later, L!Phases, L!Working, L!Deciding
<1>. QED
  BY <1>1, GoIsLater DEF L!Remove

(* Every step of the server, whoever asked for it.                         *)
LEMMA NextIsLater ==
  ASSUME TypeOK, L!Next
  PROVE  ServerStep
<1>. PICK r \in Runs : L!Create(r) \/ L!Finish(r) \/ L!Decide(r) \/ L!Remove(r)
  BY DEF L!Next
<1>1. CASE L!Finish(r)
  <2>1. /\ Later("compiling", "contract") /\ Later("testing", "review")
        /\ Later("drafting", "revision") /\ \A w \in L!Working : Later(w, "ended")
        /\ {"contract", "review", "revision", "ended"} \subseteq L!Phases
    BY ShownAre, RanksAre DEF Later, L!Phases, L!Working, L!Deciding
  <2>. QED
    BY <1>1, <2>1, GoIsLater DEF L!Finish
<1>2. CASE L!Decide(r)
  <2>1. /\ Later("contract", "testing") /\ Later("review", "drafting")
        /\ Later("revision", "retesting") /\ \A d \in L!Deciding : Later(d, "ended")
        /\ {"testing", "drafting", "retesting", "ended"} \subseteq L!Phases
    BY ShownAre, RanksAre DEF Later, L!Phases, L!Working, L!Deciding
  <2>. QED
    BY <1>2, <2>1, GoIsLater DEF L!Decide
<1>. QED
  BY <1>1, <1>2, CreateIsLater, RemoveIsLater

LEMMA NoServerStep ==
  ASSUME TypeOK, UNCHANGED phase
  PROVE  ServerStep
BY DEF ServerStep, Later, TypeOK

(* What was seen stays behind the server.                                  *)
LEMMA SeenKeeps ==
  ASSUME TypeOK, ServerStep, NEW r \in Runs, NEW p \in Shown, Seen(r, p)
  PROVE  Seen(r, p)'
BY RankIsNat DEF Seen, ServerStep, Later, TypeOK

LEMMA SoundKeeps ==
  ASSUME TypeOK, ServerStep, NEW c, Sound(c)
  PROVE  Sound(c)'
<1>1. ASSUME c.answer.is = "view" PROVE IsViewOf(c.run, c.answer.view)'
  BY <1>1, SeenKeeps DEF Sound, IsViewOf
<1>2. \A r \in Runs : phase[r] # "unborn" => phase'[r] # "unborn"
  BY DEF ServerStep, Later
<1>. QED
  BY <1>1, <1>2 DEF Sound

-----------------------------------------------------------------------------
(* The requests the hook makes.                                            *)

Requests == {NoCall} \union
  {c \in Calls : /\ c.op # "none" /\ c.answer = NoAnswer
                 /\ c.op = "decide" => c.cmd \in Commands}

LEMMA NoCallIs ==
  /\ NoCall \in Requests /\ NoCall \in Calls
  /\ NoCall.op = "none" /\ NoCall.run = None /\ ~NoCall.quiet /\ ~NoCall.done
  /\ NoCall.answer = NoAnswer /\ NoAnswer.is = "nothing"
BY DEF NoCall, NoAnswer, Requests, Calls, Answers

LEMMA NothingIs ==
  Nothing \in Views /\ Nothing.run = None /\ Nothing.phase = "unborn"
BY DEF Nothing, Views

LEMMA CreateIs ==
  LET c == [NoCall EXCEPT !.op = "create"] IN
    c \in Requests /\ c.op = "create" /\ ~c.quiet /\ c.answer = NoAnswer
BY NoCallIs DEF NoCall, Requests, Calls, Answers

LEMMA GetIs ==
  ASSUME NEW r \in Runs
  PROVE  /\ Get(r) \in Requests
         /\ Get(r).op = "get" /\ Get(r).run = r /\ ~Get(r).quiet
         /\ Get(r).answer = NoAnswer
BY NoCallIs DEF Get, NoCall, Requests, Calls, Answers

LEMMA QuietGetIs ==
  ASSUME NEW r \in Runs
  PROVE  /\ QuietGet(r) \in Requests
         /\ QuietGet(r).op = "get" /\ QuietGet(r).run = r
         /\ QuietGet(r).answer = NoAnswer
BY NoCallIs DEF QuietGet, Get, NoCall, Requests, Calls, Answers

LEMMA DecideIs ==
  ASSUME NEW r \in Runs, NEW cmd \in Commands
  PROVE  LET c == [NoCall EXCEPT !.op = "decide", !.run = r, !.cmd = cmd] IN
           /\ c \in Requests
           /\ c.op = "decide" /\ c.run = r /\ ~c.quiet /\ c.answer = NoAnswer
BY NoCallIs DEF NoCall, Requests, Calls, Answers

LEMMA DeleteIs ==
  ASSUME NEW r \in Runs
  PROVE  LET c == [NoCall EXCEPT !.op = "delete", !.run = r] IN
           /\ c \in Requests
           /\ c.op = "delete" /\ c.run = r /\ ~c.quiet /\ c.answer = NoAnswer
BY NoCallIs DEF NoCall, Requests, Calls, Answers

(* A request that has no answer yet is sound whatever the server did.      *)
LEMMA RequestsAreSound ==
  ASSUME NEW c \in Requests
  PROVE  c \in Calls /\ Sound(c) /\ Sound(c)' /\ c.answer = NoAnswer
         /\ (c.op = "none" <=> c = NoCall)
BY NoCallIs DEF Requests, Sound

(* What a request can be of.                                               *)
LEMMA RunsOfCalls ==
  ASSUME NEW c \in Calls
  PROVE  /\ c.op \in {"none", "create", "get", "decide", "delete"}
         /\ c.op \in {"get", "decide", "delete"} => c.run \in Runs
         /\ c.op \in {"none", "create"} => c.run = None /\ ~c.done /\ ~c.quiet
         /\ c.cmd \in Commands \union {None}
         /\ c.answer \in Answers
BY DEF Calls

-----------------------------------------------------------------------------
(* The server acts.                                                        *)

(* Nobody but the server does anything, and requests stay what they are.   *)
OnlyAnswers ==
  /\ UNCHANGED client
  /\ late' \subseteq late
  /\ call' \in [Tokens -> Calls]
  /\ \A t \in Tokens :
       /\ call'[t].op = call[t].op /\ call'[t].run = call[t].run
       /\ call'[t].quiet = call[t].quiet
       /\ call'[t] = NoCall <=> call[t] = NoCall
       /\ \/ call'[t].answer = call[t].answer
          \/ call'[t].answer.is \in {"deleted", "conflict"}
          \/ /\ call'[t].answer.is = "created"
             /\ phase[call'[t].answer.view.run] = "unborn"
             /\ call'[t].answer.view.run \in Runs
          \/ /\ call'[t].answer.is = "view"
             /\ call'[t].answer.view.phase = phase[call[t].run]

LEMMA ServerKeeps ==
  ASSUME HookInv, BoundsAssumption, ServerStep, OnlyAnswers, CallsSound'
  PROVE  HookInv'
<1>. USE DEF HookInv
<1>1. TypeOK'
  BY DEF TypeOK, OnlyAnswers, ServerStep, client, screen
<1>2. LateSound'
  BY DEF LateSound, OnlyAnswers
<1>3. CurrentFollows'
  <2>. SUFFICES ASSUME gen # None PROVE Follows(call[gen])'
    BY DEF CurrentFollows, OnlyAnswers, client
  <2>. PICK c : c = call[gen]
    OBVIOUS
  <2>. PICK d : d = call'[gen]
    OBVIOUS
  <2>1. gen' = gen /\ gen \in Tokens /\ Follows(c) /\ Sound(c)
    BY DEF TypeOK, CurrentFollows, CallsSound, OnlyAnswers, client
  <2>2. /\ d.op = c.op /\ d.run = c.run /\ d.quiet = c.quiet
        /\ UNCHANGED <<currentId, shown, busy, error, turned>>
    BY <2>1 DEF OnlyAnswers, client, screen
  <2>3. d.answer.is = "created" => d.answer.view.run \notin turned
    BY <2>1, <2>2 DEF OnlyAnswers, FollowedAreBorn, Follows, TypeOK
  <2>4. ASSUME d.answer.is = "view", shown # Nothing
        PROVE  Rank(shown.phase) <= Rank(d.answer.view.phase)
    <3>1. CASE d.answer = c.answer
      BY <2>1, <2>4, <3>1 DEF Follows
    <3>2. CASE d.answer.view.phase = phase[c.run]
      <4>1. IsViewOf(d.run, d.answer.view)'
        BY <2>1, <2>4 DEF CallsSound, Sound
      <4>2. c.run \in Runs /\ phase[c.run] \in Shown
        BY <2>2, <3>2, <4>1 DEF IsViewOf
      <4>3. c \in Calls
        BY <2>1 DEF TypeOK
      <4>4. c.run = currentId
        BY <2>1, <4>2, <4>3, RunsOfCalls DEF Follows, BoundsAssumption
      <4>. QED
        BY <2>4, <3>2, <4>2, <4>4 DEF FollowedAreBorn, Seen
    <3>. QED
      BY <2>1, <2>4, <3>1, <3>2 DEF OnlyAnswers
  <2>. QED
    BY <2>1, <2>2, <2>3, <2>4 DEF Follows
<1>4. TimerFollows'
  BY DEF TimerFollows, OnlyAnswers, client, screen
<1>5. FollowedAreBorn'
  <2>1. shown \in Views /\ (shown # Nothing => shown.run \in Runs /\ shown.phase \in Shown)
    BY DEF TypeOK, Views
  <2>2. turned \subseteq Runs /\ currentId \in Runs \union {None}
    BY DEF TypeOK
  <2>3. \A r \in Runs : phase[r] # "unborn" => phase'[r] # "unborn"
    BY DEF ServerStep, Later
  <2>4. shown # Nothing => Seen(shown.run, shown.phase)'
    <3>1. ASSUME NEW r \in Runs, NEW p \in Shown, Seen(r, p) PROVE Seen(r, p)'
      BY <3>1, SeenKeeps
    <3>2. shown' = shown
      BY DEF OnlyAnswers, client, screen
    <3>. QED
      BY <2>1, <3>1, <3>2 DEF FollowedAreBorn, Seen
  <2>. QED
    BY <2>1, <2>2, <2>3, <2>4 DEF FollowedAreBorn, OnlyAnswers, client, screen
<1>6. SomebodyLooks' /\ OnlyTheCurrentPolls' /\ BusyMeansPending'
  <2>1. \A t \in Tokens : Pending(t)' = Pending(t)
    BY DEF Pending, OnlyAnswers
  <2>2. UNCHANGED <<mounted, gen, timer, currentId, shown, busy, error, turned>>
    BY DEF OnlyAnswers, client, screen
  <2>. QED
    BY <2>1, <2>2 DEF SomebodyLooks, OnlyTheCurrentPolls, BusyMeansPending, Current, TypeOK
<1>. QED
  BY <1>1, <1>2, <1>3, <1>4, <1>5, <1>6

(* A request is answered.                                                  *)
LEMMA ReplyKeeps ==
  ASSUME HookInv, BoundsAssumption, ServerStep, UNCHANGED client, UNCHANGED late,
         NEW t \in Tokens, NEW d \in Calls, NEW a \in Answers,
         call[t].op # "none",
         d = [call[t] EXCEPT !.answer = a], call' = [call EXCEPT ![t].answer = a],
         \/ a.is \in {"deleted", "conflict"}
         \/ /\ a.is = "created"
            /\ phase[a.view.run] = "unborn" /\ a.view.run \in Runs
         \/ a.is = "view" /\ a.view.phase = phase[call[t].run],
         Sound(d)'
  PROVE  HookInv'
<1>1. call \in [Tokens -> Calls] /\ call[t] \in Calls
  BY DEF HookInv, TypeOK
<1>2. call' = [call EXCEPT ![t] = d]
  OBVIOUS
<1>3. \A u \in Tokens : call'[u] = IF u = t THEN d ELSE call[u]
  BY <1>1, <1>2
<1>4. /\ d.op = call[t].op /\ d.run = call[t].run /\ d.quiet = call[t].quiet
      /\ d.answer = a
  BY <1>1 DEF Calls
<1>5. d # NoCall /\ call[t] # NoCall
  BY <1>4, NoCallIs
<1>6. OnlyAnswers
  BY <1>1, <1>2, <1>3, <1>4, <1>5 DEF OnlyAnswers
<1>7. CallsSound'
  <2>1. \A u \in Tokens : u # t => Sound(call[u])'
    <3>1. ASSUME NEW c, Sound(c) PROVE Sound(c)'
      BY <3>1, SoundKeeps DEF HookInv
    <3>2. \A u \in Tokens : u # t => Sound(call[u]) /\ call'[u] = call[u]
      BY <1>3 DEF HookInv, CallsSound
    <3>. HIDE DEF Sound
    <3>. QED
      BY <3>1, <3>2
  <2>. QED
    BY <1>3, <2>1 DEF CallsSound
<1>. QED
  BY <1>6, <1>7, ServerKeeps

LEMMA ServesKeeps ==
  ASSUME HookInv, BoundsAssumption, NEW t \in Tokens, Serves(t)
  PROVE  HookInv'
<1>1. call[t] \in Calls /\ Sound(call[t])
  BY DEF HookInv, TypeOK, CallsSound
<1>. PICK c \in Calls : c = call[t]
  BY <1>1
<1>2. c.run \in Runs /\ c.op \notin {"none", "create"}
  BY <1>1, RunsOfCalls DEF Serves, Waits
<1>. PICK p \in Shown : p = phase[c.run]
  BY DEF Serves
<1>. PICK stage \in StagesOf[p] :
       Reply(t, "view", [run |-> c.run, phase |-> p, polls |-> stage \in PollingStages])
  BY DEF Serves
<1>. PICK view : view = [run |-> c.run, phase |-> p, polls |-> stage \in PollingStages]
  OBVIOUS
<1>. PICK a : a = [is |-> "view", view |-> view]
  OBVIOUS
<1>3. view \in Views /\ view \in [run: {c.run}, phase: Shown, polls: BOOLEAN] /\ view.phase = p
  <2>1. (stage \in PollingStages) \in BOOLEAN
    BY SMT
  <2>2. view \in [run: {c.run}, phase: Shown, polls: BOOLEAN]
    BY <2>1, Zenon
  <2>. QED
    BY <1>2, <2>2 DEF Views
<1>4. a \in Answers
  BY <1>3 DEF Answers
<1>. PICK d : d = [c EXCEPT !.answer = a]
  OBVIOUS
<1>5. d \in Calls
  BY <1>4 DEF Calls
<1>6. /\ d.op = c.op /\ d.run = c.run /\ d.answer = a /\ d.cmd = c.cmd
  BY DEF Calls
<1>7. Sound(d)'
  <2>1. UNCHANGED phase
    BY DEF Serves, server
  <2>2. view.phase \in L!Working => view.polls
    BY <1>3, WorkIsPolled
  <2>3. Seen(c.run, p)'
    BY <2>1, RankIsNat, ShownAre DEF Seen
  <2>4. IsViewOf(c.run, view)'
    BY <1>2, <1>3, <2>2, <2>3 DEF IsViewOf
  <2>. QED
    BY <1>1, <1>2, <1>6, <2>4 DEF Sound
<1>8. ServerStep
  BY NoServerStep DEF HookInv, Serves, server
<1>. QED
  BY <1>2, <1>3, <1>4, <1>5, <1>7, <1>8, ReplyKeeps DEF Serves, Reply, server

LEMMA RefusesKeeps ==
  ASSUME HookInv, BoundsAssumption, NEW t \in Tokens, Refuses(t)
  PROVE  HookInv'
<1>1. call[t] \in Calls /\ Sound(call[t])
  BY DEF HookInv, TypeOK, CallsSound
<1>. PICK a : a = [is |-> "conflict", view |-> Nothing]
  OBVIOUS
<1>2. a \in Answers
  BY NothingIs DEF Answers
<1>. PICK d : d = [call[t] EXCEPT !.answer = a]
  OBVIOUS
<1>3. d \in Calls
  BY <1>1, <1>2 DEF Calls
<1>4. d.op = "decide" /\ d.answer = a /\ d.cmd = call[t].cmd
  BY <1>1 DEF Calls, Refuses, Waits
<1>5. Sound(d)'
  BY <1>1, <1>4 DEF Sound, Refuses, Waits
<1>6. ServerStep
  BY NoServerStep DEF HookInv, Refuses, server
<1>. QED
  BY <1>2, <1>3, <1>5, <1>6, ReplyKeeps DEF Refuses, Reply, server, Waits

LEMMA RemovesKeeps ==
  ASSUME HookInv, BoundsAssumption, NEW t \in Tokens, Removes(t)
  PROVE  HookInv'
<1>1. call[t] \in Calls
  BY DEF HookInv, TypeOK
<1>. PICK a : a = [is |-> "deleted", view |-> Nothing]
  OBVIOUS
<1>2. a \in Answers
  BY NothingIs DEF Answers
<1>. PICK d : d = [call[t] EXCEPT !.answer = a]
  OBVIOUS
<1>3. d \in Calls
  BY <1>1, <1>2 DEF Calls
<1>4. d.op = "delete" /\ d.answer = a
  BY <1>1 DEF Calls, Removes, Waits
<1>5. Sound(d)'
  BY <1>4 DEF Sound
<1>6. ServerStep
  BY RemoveIsLater DEF HookInv, Removes
<1>. QED
  BY <1>2, <1>3, <1>5, <1>6, ReplyKeeps DEF Removes, Reply, Waits

LEMMA BirthsKeeps ==
  ASSUME HookInv, BoundsAssumption, NEW t \in Tokens, Births(t)
  PROVE  HookInv'
<1>1. call[t] \in Calls
  BY DEF HookInv, TypeOK
<1>. PICK r \in Runs : L!Create(r) /\ Reply(t, "created", [Nothing EXCEPT !.run = r])
  BY DEF Births
<1>. PICK view : view = [Nothing EXCEPT !.run = r]
  OBVIOUS
<1>. PICK a : a = [is |-> "created", view |-> view]
  OBVIOUS
<1>2. a \in Answers /\ a.view.run = r
  BY DEF Answers, Nothing
<1>. PICK d : d = [call[t] EXCEPT !.answer = a]
  OBVIOUS
<1>3. d \in Calls
  BY <1>1, <1>2 DEF Calls
<1>4. d.op = "create" /\ d.answer = a
  BY <1>1 DEF Calls, Births, Waits
<1>5. phase[r] = "unborn" /\ phase'[r] # "unborn"
  BY DEF HookInv, TypeOK, L!Create, L!Go
<1>6. Sound(d)'
  BY <1>2, <1>4, <1>5 DEF Sound
<1>7. ServerStep
  BY CreateIsLater DEF HookInv
<1>. QED
  BY <1>2, <1>3, <1>5, <1>6, <1>7, ReplyKeeps DEF Births, Reply, Waits

(* Nobody is told what the server did.                                     *)
LEMMA SilenceKeeps ==
  ASSUME HookInv, BoundsAssumption, ServerStep, UNCHANGED <<call, client>>,
         late' \subseteq late
  PROVE  HookInv'
<1>1. OnlyAnswers
  BY DEF OnlyAnswers, HookInv, TypeOK
<1>2. CallsSound'
  <2>1. ASSUME NEW c, Sound(c) PROVE Sound(c)'
    BY <2>1, SoundKeeps DEF HookInv
  <2>2. \A t \in Tokens : Sound(call[t])
    BY DEF HookInv, CallsSound
  <2>. HIDE DEF Sound
  <2>3. \A t \in Tokens : Sound(call[t])'
    BY <2>1, <2>2
  <2>. QED
    BY <2>3 DEF CallsSound
<1>. QED
  BY <1>1, <1>2, ServerKeeps

LEMMA ServesLateKeeps ==
  ASSUME HookInv, BoundsAssumption, NEW m \in late, ServesLate(m)
  PROVE  HookInv'
<1>1. m.op = "decide" => m.cmd \in Commands
  BY DEF HookInv, LateSound
<1>2. ServerStep
  BY <1>1, CreateIsLater, ObeysIsLater, RemoveIsLater DEF HookInv, ServesLate
<1>. QED
  BY <1>2, SilenceKeeps DEF ServesLate

LEMMA ElsewhereKeeps ==
  ASSUME HookInv, BoundsAssumption, Elsewhere
  PROVE  HookInv'
<1>1. ServerStep
  BY NextIsLater DEF HookInv, Elsewhere
<1>. QED
  BY <1>1, SilenceKeeps DEF Elsewhere

(* A decision takes effect before it is answered.                          *)
LEMMA DecidesKeeps ==
  ASSUME HookInv, BoundsAssumption, NEW t \in Tokens, Decides(t)
  PROVE  HookInv'
<1>1. call \in [Tokens -> Calls] /\ call[t] \in Calls /\ Sound(call[t])
  BY DEF HookInv, TypeOK, CallsSound
<1>. PICK d : d = [call[t] EXCEPT !.done = TRUE]
  OBVIOUS
<1>2. d \in Calls
  BY <1>1 DEF Calls, Decides, Waits
<1>3. /\ d.op = call[t].op /\ d.run = call[t].run /\ d.quiet = call[t].quiet
      /\ d.answer = call[t].answer /\ d.cmd = call[t].cmd /\ d.op = "decide"
  BY <1>1 DEF Calls, Decides, Waits
<1>4. \A u \in Tokens : call'[u] = IF u = t THEN d ELSE call[u]
  BY <1>1 DEF Decides
<1>5. ServerStep
  BY <1>1, <1>3, ObeysIsLater DEF HookInv, Decides, Sound
<1>6. OnlyAnswers
  BY <1>1, <1>2, <1>3, <1>4, NoCallIs DEF OnlyAnswers, Decides
<1>7. CallsSound'
  <2>1. \A c \in Calls : Sound(c) => Sound(c)'
    BY <1>5, SoundKeeps DEF HookInv
  <2>2. Sound(d)
    BY <1>1, <1>3 DEF Sound
  <2>3. \A u \in Tokens : u # t => Sound(call[u]) /\ call'[u] = call[u] /\ call[u] \in Calls
    BY <1>1, <1>4 DEF HookInv, CallsSound
  <2>. HIDE DEF Sound
  <2>. QED
    BY <1>2, <1>4, <2>1, <2>2, <2>3 DEF CallsSound
<1>. QED
  BY <1>5, <1>6, <1>7, ServerKeeps

-----------------------------------------------------------------------------
(* The hook acts: what its handlers are made of.                           *)

LEMMA AskKeeps ==
  ASSUME HookInv, UNCHANGED phase, NEW t \in Tokens, NEW x \in Requests, Ask(t, x)
  PROVE  /\ call' \in [Tokens -> Calls] /\ CallsSound'
         /\ \A u \in Tokens : call'[u] = IF u = t THEN x ELSE call[u]
<1>1. call \in [Tokens -> Calls]
  BY DEF HookInv, TypeOK
<1>2. \A u \in Tokens : call'[u] = IF u = t THEN x ELSE call[u]
  BY <1>1 DEF Ask
<1>3. x \in Calls /\ Sound(x)'
  BY RequestsAreSound
<1>4. \A c \in Calls : Sound(c) => Sound(c)'
  BY SoundKeeps, NoServerStep DEF HookInv
<1>5. \A u \in Tokens : Sound(call[u]) /\ call[u] \in Calls
  BY <1>1 DEF HookInv, CallsSound
<1>6. CallsSound'
  <2>. HIDE DEF Sound
  <2>. QED
    BY <1>2, <1>3, <1>4, <1>5 DEF CallsSound
<1>. QED
  BY <1>1, <1>2, <1>3, <1>6 DEF Ask

LEMMA CallsStay ==
  ASSUME HookInv, UNCHANGED phase, UNCHANGED call
  PROVE  call' \in [Tokens -> Calls] /\ CallsSound'
<1>1. \A c \in Calls : Sound(c) => Sound(c)'
  BY SoundKeeps, NoServerStep DEF HookInv
<1>2. \A u \in Tokens : Sound(call[u]) /\ call[u] \in Calls
  BY DEF HookInv, CallsSound, TypeOK
<1>3. CallsSound'
  <2>. HIDE DEF Sound
  <2>. QED
    BY <1>1, <1>2 DEF CallsSound
<1>. QED
  BY <1>3 DEF HookInv, TypeOK

(* A new request of the current generation.                                *)
LEMMA AskedFollows ==
  ASSUME NEW x \in Requests, gen' # None => call'[gen'] = x,
         x.op \in {"get", "decide", "delete"} => x.run = currentId',
         x.op = "create" => shown' = Nothing,
         x.quiet => error'
  PROVE  CurrentFollows'
BY RequestsAreSound, NoCallIs DEF CurrentFollows, Follows

(* Only the current generation had a timer.                                *)
LEMMA ClearTimerStopsAll ==
  ASSUME HookInv, ClearTimer(gen)
  PROVE  /\ timer' \in [Tokens -> Runs \union {None}]
         /\ \A u \in Tokens : timer'[u] = None
         /\ TimerFollows' /\ OnlyTheCurrentPolls'
<1>1. \A u \in Tokens : u # gen => timer[u] = None
  BY DEF HookInv, OnlyTheCurrentPolls, Current
<1>2. timer' = [u \in Tokens |-> IF u = gen THEN None ELSE timer[u]]
  BY DEF ClearTimer, SetTimer
<1>3. \A u \in Tokens : timer'[u] = None
  BY <1>1, <1>2
<1>. QED
  BY <1>2, <1>3 DEF TimerFollows, OnlyTheCurrentPolls

LEMMA ClearLocalKeeps ==
  ASSUME HookInv, BoundsAssumption, UNCHANGED phase,
         NEW id \in Runs \union {None}, id # None => phase[id] # "unborn",
         ClearLocal(id)
  PROVE  /\ currentId' = id /\ shown' = Nothing /\ shown' \in Views /\ ~error'
         /\ turned' \subseteq Runs /\ error' \in BOOLEAN
         /\ FollowedAreBorn' /\ SomebodyLooks'
<1>1. currentId' = id /\ shown' = Nothing /\ shown' \in Views /\ ~error'
      /\ turned' = (turned \union {currentId}) \ {id, None}
  BY NothingIs DEF ClearLocal
<1>2. turned' \subseteq Runs /\ error' \in BOOLEAN
  BY <1>1 DEF HookInv, TypeOK, ClearLocal
<1>3. FollowedAreBorn'
  BY <1>1 DEF HookInv, FollowedAreBorn
<1>4. SomebodyLooks'
  BY <1>1, NothingIs DEF SomebodyLooks, L!Working
<1>. QED
  BY <1>1, <1>2, <1>3, <1>4

(* A write that is given up is either lost or may come late.               *)
LEMMA UnheardKeeps ==
  ASSUME HookInv, NEW t \in Tokens, Pending(t), Unheard(t)
  PROVE  /\ late' \subseteq [op: {"create", "decide", "delete"},
                             run: Runs \union {None}, cmd: Commands \union {None}]
         /\ LateSound'
<1>1. call[t] \in Calls /\ Sound(call[t])
  BY DEF HookInv, TypeOK, CallsSound
<1>. PICK c \in Calls : c = call[t]
  BY <1>1
<1>2. c.op # "none" /\ (c.op = "decide" => c.cmd \in Commands)
  BY <1>1 DEF Sound, Pending
<1>3. CASE late' = late
  BY <1>3 DEF HookInv, TypeOK, LateSound
<1>4. CASE late' # late
  <2>1. /\ late' = late \union {[op |-> c.op, run |-> c.run, cmd |-> c.cmd]}
        /\ c.op # "get"
    BY <1>4 DEF Unheard
  <2>2. /\ c.op \in {"create", "decide", "delete"} /\ c.run \in Runs \union {None}
        /\ c.cmd \in Commands \union {None}
    BY <1>2, <2>1, RunsOfCalls
  <2>. QED
    BY <1>2, <2>1, <2>2 DEF HookInv, TypeOK, LateSound
<1>. QED
  BY <1>3, <1>4

(* Writes that may come late are untouched.                                *)
LEMMA LateStays ==
  ASSUME HookInv, UNCHANGED late
  PROVE  /\ late' \subseteq [op: {"create", "decide", "delete"},
                             run: Runs \union {None}, cmd: Commands \union {None}]
         /\ LateSound'
BY DEF HookInv, TypeOK, LateSound

(* The parts of the invariant, put together after a step of the hook.      *)
LEMMA HookInvOf ==
  ASSUME HookInv, UNCHANGED phase,
         late' \subseteq [op: {"create", "decide", "delete"},
                          run: Runs \union {None}, cmd: Commands \union {None}],
         mounted' \in BOOLEAN, gen' \in Tokens \union {None},
         timer' \in [Tokens -> Runs \union {None}], call' \in [Tokens -> Calls],
         currentId' \in Runs \union {None}, shown' \in Views,
         busy' \in BOOLEAN, error' \in BOOLEAN, turned' \subseteq Runs,
         CallsSound', LateSound', CurrentFollows', TimerFollows', FollowedAreBorn',
         SomebodyLooks', OnlyTheCurrentPolls', BusyMeansPending'
  PROVE  HookInv'
BY DEF HookInv, TypeOK

-----------------------------------------------------------------------------
(* The hook acts: its handlers.                                            *)

(* The handlers that abandon the generation before and ask for `x`.        *)
LEMMA BeginKeeps ==
  ASSUME HookInv, BoundsAssumption, UNCHANGED server, NEW t \in Tokens,
         NEW x \in Requests, Begin(t), Ask(t, x), x # NoCall,
         mounted' = TRUE, busy' = TRUE,
         currentId' \in Runs \union {None}, shown' \in Views, error' \in BOOLEAN,
         turned' \subseteq Runs, FollowedAreBorn',
         x.op \in {"get", "decide", "delete"} => x.run = currentId',
         x.op = "create" => shown' = Nothing, ~x.quiet
  PROVE  HookInv'
<1>1. UNCHANGED <<phase, late>>
  BY DEF server
<1>2. /\ call' \in [Tokens -> Calls] /\ CallsSound' /\ call'[t] = x
  BY <1>1, AskKeeps
<1>3. gen' = t /\ gen' # None
  BY DEF Begin, BoundsAssumption
<1>4. CurrentFollows'
  BY <1>2, <1>3, AskedFollows
<1>5. Pending(t)'
  BY <1>2 DEF Pending
<1>6. SomebodyLooks' /\ BusyMeansPending'
  BY <1>3, <1>5 DEF SomebodyLooks, BusyMeansPending
<1>. QED
  BY <1>1, <1>2, <1>3, <1>4, <1>6, ClearTimerStopsAll, LateStays, HookInvOf DEF Begin

LEMMA OpenKeeps ==
  ASSUME HookInv, BoundsAssumption, NEW t \in Tokens, NEW id \in Runs \union {None},
         Open(id, t)
  PROVE  HookInv'
<1>1. UNCHANGED <<phase, late>>
  BY DEF Open, server
<1>2. /\ currentId' = id /\ shown' = Nothing /\ shown' \in Views /\ ~error'
      /\ turned' \subseteq Runs /\ error' \in BOOLEAN
      /\ FollowedAreBorn' /\ SomebodyLooks'
  BY <1>1, ClearLocalKeeps DEF Open
<1>3. CASE id = None
  <2>1. call' \in [Tokens -> Calls] /\ CallsSound' /\ call' = call /\ ~busy'
        /\ busy' \in BOOLEAN
    BY <1>1, <1>3, CallsStay DEF Open
  <2>2. gen' = t /\ call'[t] = NoCall
    BY <2>1 DEF Open, Begin, Pending
  <2>3. CurrentFollows'
    BY <2>2, NoCallIs, AskedFollows
  <2>4. BusyMeansPending'
    BY <2>1 DEF BusyMeansPending
  <2>. QED
    BY <1>1, <1>2, <2>1, <2>2, <2>3, <2>4, ClearTimerStopsAll, LateStays, HookInvOf
       DEF Open, Begin
<1>4. CASE id # None
  <2>1. Get(id) # NoCall /\ busy' = TRUE /\ Ask(t, Get(id)) /\ id \in Runs
    BY <1>4, GetIs, NoCallIs DEF Open
  <2>. QED
    BY <1>2, <2>1, GetIs, BeginKeeps DEF Open
<1>. QED
  BY <1>3, <1>4

LEMMA CreateRunKeeps ==
  ASSUME HookInv, BoundsAssumption, NEW t \in Tokens, CreateRun(t)
  PROVE  HookInv'
<1>1. UNCHANGED phase /\ mounted' = TRUE
  BY DEF CreateRun, server, HookInv, TypeOK
<1>2. /\ currentId' = None /\ shown' = Nothing /\ shown' \in Views
      /\ turned' \subseteq Runs /\ error' \in BOOLEAN /\ FollowedAreBorn'
  BY <1>1, ClearLocalKeeps DEF CreateRun
<1>3. [NoCall EXCEPT !.op = "create"] # NoCall
  BY CreateIs, NoCallIs
<1>. QED
  BY <1>1, <1>2, <1>3, CreateIs, BeginKeeps DEF CreateRun

(* A displayed run has an id.                                              *)
LEMMA ShownHasRun ==
  ASSUME HookInv, shown # Nothing
  PROVE  shown.run \in Runs /\ shown.run = currentId /\ shown.phase \in Shown
BY DEF HookInv, TypeOK, Views, FollowedAreBorn

LEMMA ActionKeeps ==
  ASSUME HookInv, BoundsAssumption, NEW t \in Tokens, NEW cmd \in Commands,
         Action(cmd, t)
  PROVE  HookInv'
<1>1. shown # Nothing
  BY NothingIs DEF Action, Commands, GateOf
<1>2. /\ mounted' = TRUE
      /\ currentId' \in Runs \union {None} /\ shown' \in Views /\ error' \in BOOLEAN
      /\ turned' \subseteq Runs /\ FollowedAreBorn'
  BY DEF Action, server, HookInv, TypeOK, FollowedAreBorn, Seen
<1>. PICK x : x = [NoCall EXCEPT !.op = "decide", !.run = shown.run, !.cmd = cmd]
  OBVIOUS
<1>3. x \in Requests /\ x.op = "decide" /\ x.run = shown.run /\ ~x.quiet /\ x # NoCall
  BY <1>1, ShownHasRun, DecideIs, NoCallIs
<1>4. x.run = currentId'
  BY <1>1, <1>3, ShownHasRun DEF Action
<1>. QED
  BY <1>2, <1>3, <1>4, BeginKeeps DEF Action

LEMMA DeleteRunKeeps ==
  ASSUME HookInv, BoundsAssumption, NEW t \in Tokens, DeleteRun(t)
  PROVE  HookInv'
<1>1. shown # Nothing
  BY DEF DeleteRun
<1>2. /\ mounted' = TRUE
      /\ currentId' \in Runs \union {None} /\ shown' \in Views /\ error' \in BOOLEAN
      /\ turned' \subseteq Runs /\ FollowedAreBorn'
  BY DEF DeleteRun, server, HookInv, TypeOK, FollowedAreBorn, Seen
<1>. PICK x : x = [NoCall EXCEPT !.op = "delete", !.run = shown.run]
  OBVIOUS
<1>3. x \in Requests /\ x.op = "delete" /\ x.run = shown.run /\ ~x.quiet /\ x # NoCall
  BY <1>1, ShownHasRun, DeleteIs, NoCallIs
<1>4. x.run = currentId'
  BY <1>1, <1>3, ShownHasRun DEF DeleteRun
<1>. QED
  BY <1>2, <1>3, <1>4, BeginKeeps DEF DeleteRun

LEMMA RefreshKeeps ==
  ASSUME HookInv, BoundsAssumption, NEW t \in Tokens, Refresh(t)
  PROVE  HookInv'
<1>1. currentId \in Runs /\ mounted' = TRUE /\ busy' = TRUE /\ ~error'
      /\ UNCHANGED <<phase, late, mounted, currentId, shown, turned>>
  BY DEF Refresh, server, HookInv, TypeOK
<1>2. /\ currentId' \in Runs \union {None} /\ shown' \in Views /\ error' \in BOOLEAN
      /\ turned' \subseteq Runs /\ FollowedAreBorn'
  BY DEF Refresh, server, HookInv, TypeOK, FollowedAreBorn, Seen
<1>. PICK x : x = Get(currentId)
  OBVIOUS
<1>3. x \in Requests /\ x.op = "get" /\ x.run = currentId' /\ ~x.quiet /\ x # NoCall
  BY <1>1, GetIs, NoCallIs
<1>4. CASE gen = None
  BY <1>1, <1>2, <1>3, <1>4, BeginKeeps DEF Refresh
<1>5. CASE gen # None
  <2>1. gen = t /\ gen' = t /\ ClearTimer(gen)
    BY <1>5 DEF Refresh
  <2>2. call' \in [Tokens -> Calls] /\ CallsSound' /\ call'[t] = x
    BY <1>1, <1>3, AskKeeps DEF Refresh
  <2>3. CurrentFollows'
    BY <1>3, <2>1, <2>2, AskedFollows
  <2>4. Pending(t)'
    BY <1>3, <2>2 DEF Pending
  <2>5. SomebodyLooks' /\ BusyMeansPending'
    BY <1>5, <2>1, <2>4 DEF SomebodyLooks, BusyMeansPending
  <2>. QED
    BY <1>1, <1>2, <2>1, <2>2, <2>3, <2>5, ClearTimerStopsAll, LateStays, HookInvOf
<1>. QED
  BY <1>4, <1>5

(* The handlers that leave nothing behind.                                 *)
LEMMA ResetKeeps ==
  ASSUME HookInv, BoundsAssumption, Reset
  PROVE  HookInv'
<1>1. UNCHANGED <<phase, late, call, mounted>> /\ busy' = FALSE /\ gen' = None
  BY DEF Reset, server, Invalidate
<1>2. /\ currentId' = None /\ shown' \in Views /\ turned' \subseteq Runs
      /\ error' \in BOOLEAN /\ FollowedAreBorn' /\ SomebodyLooks'
  BY <1>1, ClearLocalKeeps DEF Reset
<1>3. CurrentFollows' /\ BusyMeansPending' /\ mounted' \in BOOLEAN
  BY <1>1 DEF CurrentFollows, BusyMeansPending, HookInv, TypeOK
<1>. QED
  BY <1>1, <1>2, <1>3, CallsStay, ClearTimerStopsAll, LateStays, HookInvOf
     DEF Reset, Invalidate

LEMMA UnmountKeeps ==
  ASSUME HookInv, BoundsAssumption, Unmount
  PROVE  HookInv'
<1>1. UNCHANGED <<phase, late, call, screen>> /\ gen' = None /\ mounted' = FALSE
  BY DEF Unmount, server, Invalidate
<1>2. /\ currentId' \in Runs \union {None} /\ shown' \in Views /\ turned' \subseteq Runs
      /\ error' \in BOOLEAN /\ busy' \in BOOLEAN /\ FollowedAreBorn'
  BY <1>1 DEF screen, HookInv, TypeOK, FollowedAreBorn, Seen
<1>3. CurrentFollows' /\ BusyMeansPending' /\ SomebodyLooks'
  BY <1>1 DEF CurrentFollows, BusyMeansPending, SomebodyLooks
<1>. QED
  BY <1>1, <1>2, <1>3, CallsStay, ClearTimerStopsAll, LateStays, HookInvOf
     DEF Unmount, Invalidate

LEMMA DeletedKeeps ==
  ASSUME HookInv, BoundsAssumption, NEW t \in Tokens, Deleted(t)
  PROVE  HookInv'
<1>1. UNCHANGED <<phase, late, mounted>> /\ busy' = FALSE /\ gen' = None
  BY DEF Deleted, server, Invalidate
<1>2. /\ currentId' = None /\ shown' \in Views /\ turned' \subseteq Runs
      /\ error' \in BOOLEAN /\ FollowedAreBorn' /\ SomebodyLooks'
  BY <1>1, ClearLocalKeeps DEF Deleted
<1>3. CurrentFollows' /\ BusyMeansPending' /\ mounted' \in BOOLEAN
  BY <1>1 DEF CurrentFollows, BusyMeansPending, HookInv, TypeOK
<1>4. call' \in [Tokens -> Calls] /\ CallsSound'
  BY <1>1, NoCallIs, AskKeeps DEF Deleted
<1>. QED
  BY <1>1, <1>2, <1>3, <1>4, ClearTimerStopsAll, LateStays, HookInvOf
     DEF Deleted, Invalidate

-----------------------------------------------------------------------------
(* The hook acts: timers, and the ends of requests.                        *)

(* The timer's callback asks about the run that is followed.               *)
LEMMA PollKeeps ==
  ASSUME HookInv, BoundsAssumption, NEW t \in Tokens, Poll(t)
  PROVE  HookInv'
<1>1. UNCHANGED <<phase, late, mounted, gen, currentId, shown, busy, error, turned>>
      /\ gen = t /\ mounted
  BY DEF Poll, server, screen, Current
<1>2. timer[t] \in Runs /\ timer[t] = currentId
  BY DEF Poll, HookInv, TypeOK, TimerFollows
<1>. PICK x : x = Get(currentId)
  OBVIOUS
<1>3. x \in Requests /\ x.op = "get" /\ x.run = currentId /\ ~x.quiet /\ x # NoCall
  BY <1>2, GetIs, NoCallIs
<1>4. call' \in [Tokens -> Calls] /\ CallsSound' /\ call'[t] = x
  BY <1>1, <1>2, <1>3, AskKeeps DEF Poll
<1>5. CurrentFollows'
  BY <1>1, <1>3, <1>4, AskedFollows
<1>6. Pending(t)' /\ gen' = t /\ t # None
  BY <1>1, <1>3, <1>4 DEF Pending, BoundsAssumption
<1>7. SomebodyLooks' /\ BusyMeansPending'
  BY <1>6 DEF SomebodyLooks, BusyMeansPending
<1>8. FollowedAreBorn'
  BY <1>1 DEF HookInv, FollowedAreBorn, Seen
<1>. QED
  BY <1>1, <1>4, <1>5, <1>7, <1>8, ClearTimerStopsAll, LateStays, HookInvOf
     DEF Poll, HookInv, TypeOK

(* While a request is pending there is no timer.                           *)
LEMMA PendingHasNoTimer ==
  ASSUME HookInv, NEW t \in Tokens, Pending(t), gen = t
  PROVE  \A u \in Tokens : timer[u] = None
BY DEF HookInv, OnlyTheCurrentPolls, Current

(* An answer that carries a view is of the run that is followed, and is no *)
(* older than the screen.                                                  *)
LEMMA ViewsAreNews ==
  ASSUME HookInv, BoundsAssumption, NEW t \in Tokens, gen = t,
         call[t].answer.is = "view"
  PROVE  LET view == call[t].answer.view IN
           /\ call[t].run \in Runs /\ call[t].run = currentId
           /\ view \in Views /\ view # Nothing /\ view.run = currentId
           /\ view.phase \in L!Working => view.polls
           /\ Seen(currentId, view.phase)
           /\ shown # Nothing => Rank(shown.phase) <= Rank(view.phase)
<1>. PICK c : c = call[t]
  OBVIOUS
<1>1. c \in Calls /\ Sound(c) /\ Follows(c)
  BY DEF HookInv, TypeOK, CallsSound, CurrentFollows, BoundsAssumption
<1>. PICK view : view = c.answer.view
  OBVIOUS
<1>2. IsViewOf(c.run, view)
  BY <1>1 DEF Sound
<1>3. c.run \in Runs /\ c.run = currentId
  BY <1>1, <1>2, RunsOfCalls DEF IsViewOf, Follows, BoundsAssumption
<1>4. /\ view \in Views /\ view.run = c.run
      /\ view.phase \in L!Working => view.polls
      /\ Seen(c.run, view.phase)
  BY <1>2 DEF IsViewOf, Views
<1>5. view # Nothing
  BY <1>3, <1>4, NothingIs DEF BoundsAssumption
<1>6. shown # Nothing => Rank(shown.phase) <= Rank(view.phase)
  BY <1>1 DEF Follows
<1>. QED
  BY <1>3, <1>4, <1>5, <1>6

(* A view that is accepted is what is now displayed.                       *)
LEMMA AcceptKeeps ==
  ASSUME HookInv, BoundsAssumption, UNCHANGED <<phase, turned>>,
         NEW view \in Views, view # Nothing, view.run = currentId,
         Seen(currentId, view.phase), Accept(view)
  PROVE  /\ FollowedAreBorn' /\ currentId' = currentId
         /\ currentId' \in Runs \union {None} /\ shown' \in Views
BY DEF Accept, HookInv, TypeOK, FollowedAreBorn, Seen

LEMMA FreshKeeps ==
  ASSUME HookInv, BoundsAssumption, NEW t \in Tokens, Fresh(t)
  PROVE  HookInv'
<1>. PICK view : view = call[t].answer.view
  OBVIOUS
<1>1. UNCHANGED <<phase, late, mounted, gen, error, turned>> /\ gen = t /\ ~busy'
      /\ busy' \in BOOLEAN
  BY DEF Fresh, server, Current
<1>2. /\ call[t].run \in Runs /\ call[t].run = currentId
      /\ view \in Views /\ view # Nothing /\ view.run = currentId
      /\ view.phase \in L!Working => view.polls
      /\ Seen(currentId, view.phase)
  BY <1>1, ViewsAreNews DEF Fresh, Answered
<1>3. /\ FollowedAreBorn' /\ currentId' = currentId
      /\ currentId' \in Runs \union {None} /\ shown' \in Views /\ shown' = view
  BY <1>1, <1>2, AcceptKeeps DEF Fresh, Accept
<1>4. /\ call' \in [Tokens -> Calls] /\ CallsSound'
      /\ \A u \in Tokens : call'[u] = IF u = t THEN NoCall ELSE call[u]
  BY <1>1, NoCallIs, AskKeeps DEF Fresh
<1>5. CurrentFollows'
  BY <1>1, <1>4, NoCallIs, AskedFollows
<1>6. Pending(t) /\ t # None
  BY NoCallIs DEF Fresh, Pending, BoundsAssumption
<1>7. \A u \in Tokens : timer[u] = None
  BY <1>1, <1>6, PendingHasNoTimer
<1>8. /\ timer' \in [Tokens -> Runs \union {None}]
      /\ \A u \in Tokens : timer'[u] = IF u = t /\ view.polls THEN currentId ELSE None
  BY <1>2, <1>7 DEF Fresh, SetTimer, HookInv, TypeOK
<1>9. TimerFollows' /\ OnlyTheCurrentPolls'
  <2>1. mounted' /\ gen' = t /\ ~Pending(t)'
    BY <1>1, <1>4 DEF Fresh, Current, Pending
  <2>. QED
    BY <1>3, <1>8, <2>1 DEF TimerFollows, OnlyTheCurrentPolls, Current
<1>10. SomebodyLooks' /\ BusyMeansPending'
  BY <1>1, <1>2, <1>3, <1>6, <1>8 DEF SomebodyLooks, BusyMeansPending, BoundsAssumption
<1>. QED
  BY <1>1, <1>3, <1>4, <1>5, <1>8, <1>9, <1>10, LateStays, HookInvOf DEF HookInv, TypeOK

(* The current request is replaced by a GET.                               *)
LEMMA GetFollowsKeeps ==
  ASSUME HookInv, BoundsAssumption, UNCHANGED <<phase, late, mounted, gen, timer, busy>>,
         NEW t \in Tokens, gen = t, Pending(t), NEW x \in Requests, Ask(t, x),
         x.op = "get", x.run = currentId', x.quiet => error',
         currentId' \in Runs \union {None}, shown' \in Views, error' \in BOOLEAN,
         turned' \subseteq Runs, FollowedAreBorn'
  PROVE  HookInv'
<1>1. x # NoCall
  BY NoCallIs
<1>2. call' \in [Tokens -> Calls] /\ CallsSound' /\ call'[t] = x
  BY AskKeeps
<1>3. CurrentFollows'
  BY <1>2, AskedFollows
<1>4. Pending(t)' /\ t # None /\ gen' = t
  BY <1>1, <1>2 DEF Pending, BoundsAssumption
<1>5. \A u \in Tokens : timer'[u] = None
  BY PendingHasNoTimer
<1>6. TimerFollows' /\ OnlyTheCurrentPolls' /\ SomebodyLooks' /\ BusyMeansPending'
  BY <1>4, <1>5 DEF TimerFollows, OnlyTheCurrentPolls, SomebodyLooks, BusyMeansPending
<1>. QED
  BY <1>2, <1>3, <1>6, LateStays, HookInvOf DEF HookInv, TypeOK

LEMMA CreatedKeeps ==
  ASSUME HookInv, BoundsAssumption, NEW t \in Tokens, Created(t)
  PROVE  HookInv'
<1>. PICK c : c = call[t]
  OBVIOUS
<1>. PICK r : r = c.answer.view.run
  OBVIOUS
<1>1. UNCHANGED <<phase, late, mounted, gen, timer, shown, busy, error, turned>>
      /\ gen = t /\ t # None /\ currentId' = r
  BY DEF Created, server, Current, BoundsAssumption
<1>2. Sound(c) /\ Follows(c) /\ c.answer.is = "created"
  BY <1>1 DEF HookInv, CallsSound, CurrentFollows, Created, Answered
<1>3. /\ r \in Runs /\ phase[r] # "unborn" /\ r \notin turned /\ shown = Nothing
      /\ c # NoCall
  BY <1>2, NoCallIs DEF Sound, Follows
<1>4. FollowedAreBorn'
  BY <1>1, <1>3 DEF FollowedAreBorn, HookInv
<1>. QED
  BY <1>1, <1>3, <1>4, GetIs, GetFollowsKeeps DEF Created, Pending, HookInv, TypeOK

LEMMA DecidedKeeps ==
  ASSUME HookInv, BoundsAssumption, NEW t \in Tokens, Decided(t)
  PROVE  HookInv'
<1>. PICK view : view = call[t].answer.view
  OBVIOUS
<1>1. UNCHANGED <<phase, late, mounted, gen, timer, busy, error, turned>> /\ gen = t
  BY DEF Decided, server, Current
<1>2. /\ call[t].run \in Runs /\ call[t].run = currentId
      /\ view \in Views /\ view # Nothing /\ view.run = currentId
      /\ Seen(currentId, view.phase)
  BY <1>1, ViewsAreNews DEF Decided, Answered
<1>3. /\ FollowedAreBorn' /\ currentId' = currentId
      /\ currentId' \in Runs \union {None} /\ shown' \in Views
  BY <1>1, <1>2, AcceptKeeps DEF Decided
<1>4. Pending(t)
  BY NoCallIs DEF Decided, Pending
<1>. QED
  BY <1>1, <1>2, <1>3, <1>4, GetIs, GetFollowsKeeps DEF Decided, HookInv, TypeOK

LEMMA ConflictedKeeps ==
  ASSUME HookInv, BoundsAssumption, NEW t \in Tokens, Conflicted(t)
  PROVE  HookInv'
<1>. PICK c : c = call[t]
  OBVIOUS
<1>1. UNCHANGED <<phase, late, mounted, gen, timer, currentId, shown, busy, turned>>
      /\ gen = t /\ t # None /\ error'
  BY DEF Conflicted, server, Current, BoundsAssumption
<1>2. c \in Calls /\ Sound(c) /\ Follows(c) /\ c.answer.is = "conflict"
  BY <1>1 DEF HookInv, TypeOK, CallsSound, CurrentFollows, Conflicted, Answered
<1>3. c.run \in Runs /\ c.run = currentId /\ c # NoCall
  BY <1>2, RunsOfCalls, NoCallIs DEF Sound, Follows
<1>4. FollowedAreBorn' /\ error' \in BOOLEAN
  BY <1>1 DEF FollowedAreBorn, HookInv, Seen, Conflicted
<1>. QED
  BY <1>1, <1>3, <1>4, QuietGetIs, GetFollowsKeeps DEF Conflicted, Pending, HookInv, TypeOK

(* An error stops the polling, and is displayed: only a GET that follows a *)
(* conflict is quiet, and that conflict is displayed.                      *)
LEMMA FailedKeeps ==
  ASSUME HookInv, BoundsAssumption, NEW t \in Tokens, Failed(t)
  PROVE  HookInv'
<1>. PICK c : c = call[t]
  OBVIOUS
<1>1. UNCHANGED <<phase, mounted, gen, timer, currentId, shown, turned>>
      /\ gen = t /\ t # None /\ ~busy' /\ busy' \in BOOLEAN /\ Pending(t)
  BY DEF Failed, server, Current, BoundsAssumption
<1>2. Follows(c)
  BY <1>1 DEF HookInv, CurrentFollows
<1>3. error' /\ error' \in BOOLEAN
  BY <1>2 DEF Failed, Follows, HookInv, TypeOK
<1>4. /\ call' \in [Tokens -> Calls] /\ CallsSound'
      /\ \A u \in Tokens : call'[u] = IF u = t THEN NoCall ELSE call[u]
  BY <1>1, NoCallIs, AskKeeps DEF Failed
<1>5. CurrentFollows'
  BY <1>1, <1>4, NoCallIs, AskedFollows
<1>6. \A u \in Tokens : timer'[u] = None
  BY <1>1, PendingHasNoTimer
<1>7. TimerFollows' /\ OnlyTheCurrentPolls' /\ SomebodyLooks' /\ BusyMeansPending'
  BY <1>1, <1>3, <1>6 DEF TimerFollows, OnlyTheCurrentPolls, SomebodyLooks, BusyMeansPending
<1>8. FollowedAreBorn'
  BY <1>1 DEF FollowedAreBorn, HookInv, Seen
<1>. QED
  BY <1>1, <1>3, <1>4, <1>5, <1>7, <1>8, UnheardKeeps, HookInvOf DEF Failed, HookInv, TypeOK

LEMMA DroppedKeeps ==
  ASSUME HookInv, BoundsAssumption, NEW t \in Tokens, Dropped(t)
  PROVE  HookInv'
<1>1. UNCHANGED <<phase, mounted, gen, timer, currentId, shown, busy, error, turned>>
      /\ Pending(t)
  BY DEF Dropped, server, screen
<1>2. /\ call' \in [Tokens -> Calls] /\ CallsSound'
      /\ \A u \in Tokens : call'[u] = IF u = t THEN NoCall ELSE call[u]
  BY <1>1, NoCallIs, AskKeeps DEF Dropped
<1>3. CurrentFollows'
  <2>1. CASE gen = t
    BY <1>1, <1>2, <2>1, NoCallIs, AskedFollows
  <2>2. CASE gen # t
    BY <1>1, <1>2, <2>2 DEF HookInv, TypeOK, CurrentFollows, Follows
  <2>. QED
    BY <2>1, <2>2
<1>4. \A u \in Tokens : Pending(u)' => Pending(u)
  BY <1>2 DEF Pending
<1>5. mounted /\ gen # None => gen # t /\ gen \in Tokens /\ (Pending(gen) <=> Pending(gen)')
  BY <1>1, <1>2 DEF Dropped, Current, Pending, HookInv, TypeOK
<1>6. TimerFollows' /\ OnlyTheCurrentPolls'
  BY <1>1, <1>4 DEF HookInv, TimerFollows, OnlyTheCurrentPolls, Current
<1>7. SomebodyLooks' /\ BusyMeansPending'
  BY <1>1, <1>5 DEF HookInv, SomebodyLooks, BusyMeansPending
<1>8. FollowedAreBorn'
  BY <1>1 DEF FollowedAreBorn, HookInv, Seen
<1>. QED
  BY <1>1, <1>2, <1>3, <1>6, <1>7, <1>8, UnheardKeeps, HookInvOf DEF Dropped, HookInv, TypeOK

-----------------------------------------------------------------------------
(* The invariant.                                                          *)

LEMMA HookInit == BoundsAssumption /\ Init => HookInv
<1>. SUFFICES ASSUME BoundsAssumption, Init PROVE HookInv
  OBVIOUS
<1>1. TypeOK
  BY NoCallIs, NothingIs DEF Init, TypeOK, L!Phases
<1>2. CallsSound
  BY NoCallIs, RequestsAreSound DEF Init, CallsSound
<1>3. LateSound /\ CurrentFollows /\ TimerFollows /\ FollowedAreBorn
  BY DEF Init, LateSound, CurrentFollows, TimerFollows, FollowedAreBorn
<1>4. SomebodyLooks /\ OnlyTheCurrentPolls /\ BusyMeansPending
  BY DEF Init, SomebodyLooks, OnlyTheCurrentPolls, BusyMeansPending
<1>. QED
  BY <1>1, <1>2, <1>3, <1>4 DEF HookInv

LEMMA HookNext == BoundsAssumption /\ HookInv /\ [Next]_vars => HookInv'
<1>. SUFFICES ASSUME BoundsAssumption, HookInv, [Next]_vars PROVE HookInv'
  OBVIOUS
<1>1. ASSUME NEW t \in Tokens, NEW id \in Runs \union {None}, Open(id, t) PROVE HookInv'
  BY <1>1, OpenKeeps
<1>2. ASSUME NEW t \in Tokens, CreateRun(t) PROVE HookInv'
  BY <1>2, CreateRunKeeps
<1>3. ASSUME NEW t \in Tokens, NEW cmd \in Commands, Action(cmd, t) PROVE HookInv'
  BY <1>3, ActionKeeps
<1>4. ASSUME NEW t \in Tokens, Refresh(t) PROVE HookInv'
  BY <1>4, RefreshKeeps
<1>5. ASSUME NEW t \in Tokens, DeleteRun(t) PROVE HookInv'
  BY <1>5, DeleteRunKeeps
<1>6. ASSUME NEW t \in Tokens, Poll(t) PROVE HookInv'
  BY <1>6, PollKeeps
<1>7. ASSUME NEW t \in Tokens, Settle(t) PROVE HookInv'
  BY <1>7, FreshKeeps, CreatedKeeps, DecidedKeeps, ConflictedKeeps, DeletedKeeps,
     FailedKeeps, DroppedKeeps DEF Settle
<1>8. ASSUME NEW t \in Tokens, Respond(t) PROVE HookInv'
  BY <1>8, ServesKeeps, BirthsKeeps, DecidesKeeps, RefusesKeeps, RemovesKeeps DEF Respond
<1>9. CASE Unmount
  BY <1>9, UnmountKeeps
<1>10. CASE Reset
  BY <1>10, ResetKeeps
<1>11. ASSUME NEW m \in late, ServesLate(m) PROVE HookInv'
  BY <1>11, ServesLateKeeps
<1>12. CASE Elsewhere
  BY <1>12, ElsewhereKeeps
<1>13. CASE UNCHANGED vars
  <2>1. UNCHANGED <<phase, late, call, client>>
    BY <1>13 DEF vars, server, client
  <2>. QED
    BY <2>1, NoServerStep, SilenceKeeps DEF HookInv
<1>. QED
  BY <1>1, <1>2, <1>3, <1>4, <1>5, <1>6, <1>7, <1>8, <1>9, <1>10, <1>11, <1>12, <1>13
     DEF Next

(* However answers, time-outs and the user's operations interleave, a      *)
(* request of the current generation is about the run that is followed,    *)
(* its answer is news, and no view is ahead of the server.                 *)
THEOREM HookInvariant == Spec => []HookInv
<1>1. Init => HookInv
  BY HookInit, BoundsAssumption
<1>2. HookInv /\ [Next]_vars => HookInv'
  BY HookNext, BoundsAssumption
<1>. QED
  BY <1>1, <1>2, PTL DEF Spec

-----------------------------------------------------------------------------
(* What the run checks.                                                    *)

(* The screen is of the run the user follows and never of one that was     *)
(* replaced, reset or deleted; a run that works on the server is polled    *)
(* unless an error is displayed; only the current generation polls; and    *)
(* the controls are disabled only while it waits (current, getFresh).      *)
THEOREM TheScreenIsTrue == Spec => []ScreenIsTrue
<1>1. HookInv => ScreenIsTrue
  <2>. SUFFICES ASSUME HookInv PROVE ScreenIsTrue
    OBVIOUS
  <2>1. ShowsWhatWasAskedFor
    BY DEF HookInv, FollowedAreBorn, ShowsWhatWasAskedFor
  <2>. QED
    BY <2>1 DEF HookInv, ScreenIsTrue
<1>. QED
  BY <1>1, HookInvariant, PTL

(* What a step can put on the screen.                                      *)
Displays ==
  \/ shown' \in {shown, Nothing}
  \/ \E t \in Tokens :
       /\ gen = t /\ call[t].answer.is = "view"
       /\ shown' = call[t].answer.view

LEMMA StepDisplays == [Next]_vars => Displays
<1>. SUFFICES ASSUME [Next]_vars PROVE Displays
  OBVIOUS
<1>1. ASSUME NEW t \in Tokens, NEW id \in Runs \union {None}, Open(id, t) PROVE Displays
  BY <1>1 DEF Open, ClearLocal, Displays
<1>2. ASSUME NEW t \in Tokens, CreateRun(t) \/ Refresh(t) \/ DeleteRun(t) \/ Poll(t)
      PROVE Displays
  BY <1>2 DEF CreateRun, Refresh, DeleteRun, Poll, ClearLocal, screen, Displays
<1>3. ASSUME NEW t \in Tokens, NEW cmd \in Commands, Action(cmd, t) PROVE Displays
  BY <1>3 DEF Action, Displays
<1>4. ASSUME NEW t \in Tokens, Fresh(t) \/ Decided(t) PROVE Displays
  BY <1>4 DEF Fresh, Decided, Accept, Answered, Current, Displays
<1>5. ASSUME NEW t \in Tokens,
             Created(t) \/ Conflicted(t) \/ Deleted(t) \/ Failed(t) \/ Dropped(t)
      PROVE Displays
  BY <1>5 DEF Created, Conflicted, Deleted, Failed, Dropped, ClearLocal, screen, Displays
<1>6. ASSUME NEW t \in Tokens, Respond(t) PROVE Displays
  BY <1>6 DEF Respond, Serves, Births, Decides, Refuses, Removes, client, screen, Displays
<1>7. CASE Unmount \/ Reset \/ Elsewhere
  BY <1>7 DEF Unmount, Reset, ClearLocal, Elsewhere, client, screen, Displays
<1>8. ASSUME NEW m \in late, ServesLate(m) PROVE Displays
  BY <1>8 DEF ServesLate, client, screen, Displays
<1>9. CASE UNCHANGED vars
  BY <1>9 DEF vars, screen, Displays
<1>. QED
  BY <1>1, <1>2, <1>3, <1>4, <1>5, <1>6, <1>7, <1>8, <1>9 DEF Next, Settle

(* While one run stays on the screen its stage never goes back: an answer  *)
(* that comes late is of an abandoned generation, and is dropped.          *)
THEOREM TheScreenNeverGoesBack == Spec => NeverGoesBack
<1>1. HookInv /\ [Next]_vars =>
        [shown # Nothing /\ shown'.run = shown.run
           => Rank(shown.phase) <= Rank(shown'.phase)]_vars
  <2>. SUFFICES ASSUME HookInv, [Next]_vars, shown # Nothing, shown'.run = shown.run
                PROVE  Rank(shown.phase) <= Rank(shown'.phase)
    OBVIOUS
  <2>1. shown.run \in Runs /\ shown.phase \in Shown
    BY ShownHasRun
  <2>2. CASE shown' = shown
    BY <2>1, <2>2, RankIsNat
  <2>3. CASE shown' = Nothing
    BY <2>1, <2>3, NothingIs, BoundsAssumption DEF BoundsAssumption
  <2>4. CASE \E t \in Tokens : /\ gen = t /\ call[t].answer.is = "view"
                               /\ shown' = call[t].answer.view
    BY <2>4, ViewsAreNews, BoundsAssumption
  <2>. QED
    BY <2>2, <2>3, <2>4, StepDisplays DEF Displays
<1>. QED
  BY <1>1, HookInvariant, PTL DEF Spec, NeverGoesBack
=============================================================================
