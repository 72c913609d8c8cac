---------------------------- MODULE PlanningProofs ----------------------------
(***************************************************************************)
(* Proofs about the parts of MCPlanning that keep records: the engine      *)
(* sidecar's runs, recorded runs of blind candidates, assessments, the     *)
(* archive with its manifest, and the sealed packet.  Every part has an    *)
(* inductive invariant of its own; PlanningInvariant joins them.  At the   *)
(* end the gate of a submission, by itself.                                *)
(***************************************************************************)
EXTENDS MCPlanning, TLAPS, FiniteSetTheorems, SequenceTheorems

-----------------------------------------------------------------------------
(* The records of the engine's runs                                        *)

WorkSteps ==
  {"INGEST", "EXTRACT", "SUITE", "GENERATE", "PACK", "LAUNCH", "EVALUATE", "GRADE", "SCORE",
   "UNSWARMED", "SWARM", "CAPTURE", "REVISE"}
SaveSteps == EngineRun!Statuses \cup {"save"}
StepNames == WorkSteps \cup SaveSteps

SuiteNames == Suites \cup {EngineRun!None, EngineRun!Generated}
Evidence   == {<<>>} \cup (Nat \X SuiteNames)
Scores     == {<<>>} \cup (Evidence \X Evidence)
Entries    == [ir : Nat, suite : SuiteNames, eval : Evidence, eff : Scores, swarm : Evidence]
Copies ==
  [file : {"whole"}, status : EngineRun!Statuses \cup {"pending", "compiled", "completed", "failed"},
   ir : Nat, suite : SuiteNames, eval : Evidence, eff : Scores, swarm : Evidence,
   launch : {"none", "ok", "failed", "unverified"}, history : SUBSET Entries]

(* A copy holds evidence of the policy and the suite that it holds: an     *)
(* evaluation before a capture, and neither without a suite.               *)
Coherent(c) ==
  /\ c.eval # <<>> => c.eval = <<c.ir, c.suite>> /\ c.suite # EngineRun!None
  /\ c.swarm # <<>> => c.swarm = <<c.ir, c.suite>> /\ c.eval # <<>>
  /\ c.ir > 1 => c.launch \in {"none", "unverified"} /\ c.swarm = <<>>

(* Its score is of what it holds, or it is not completed; or it will not   *)
(* be, or be scored, before it is saved.                                   *)
Scored(c) == c.status = "completed" => c.eff = <<c.eval, c.swarm>>
Due(steps) ==
  \E i \in DOMAIN steps : /\ steps[i] \in EngineRun!Statuses \cup {"SCORE"}
                          /\ \A j \in DOMAIN steps : j < i => steps[j] # "save"

In(name, steps) == \E i \in DOMAIN steps : steps[i] = name
Before(first, name, steps) ==
  \A j \in DOMAIN steps : steps[j] = name => \E i \in DOMAIN steps : i < j /\ steps[i] \in first

Once(names, steps) ==
  \A i, j \in DOMAIN steps : steps[i] \in names /\ steps[j] \in names => i = j

(* What the steps that a request has left say of its copy: a policy is     *)
(* extracted and then a suite generated once, and only where there is      *)
(* none; a revision does nothing else; ...                                 *)
MakesFirst(c, steps) ==
  /\ Once({"EXTRACT"}, steps) /\ Once({"SUITE", "GENERATE"}, steps) /\ Once({"REVISE"}, steps)
  /\ In("REVISE", steps) => \A i \in DOMAIN steps : steps[i] \in SaveSteps \cup {"REVISE"}
  /\ In("EXTRACT", steps) =>
       /\ c.ir = 0 /\ c.suite = EngineRun!None /\ c.eval = <<>> /\ c.swarm = <<>>
       /\ ~In("SUITE", steps) /\ Before({"EXTRACT"}, "GENERATE", steps)
  /\ In("GENERATE", steps) => c.suite = EngineRun!None
(* ... a suite is graded, and captured once it was graded, ...             *)
GradesFirst(c, steps) ==
  /\ In("GRADE", steps) => c.suite # EngineRun!None
  /\ In("CAPTURE", steps) => c.ir <= 1 /\ c.eval # <<>>
  /\ c.eval = <<>> => Before({"EVALUATE", "GRADE"}, "SWARM", steps)
  /\ c.suite = EngineRun!None /\ In("SWARM", steps) =>
       Before({"SUITE", "GENERATE"}, "EVALUATE", steps)
(* ... and while that happens the run is not completed.                    *)
Working(c, steps) ==
  \A i \in DOMAIN steps : steps[i] \in {"GRADE", "CAPTURE"} =>
    IF i = 1 THEN c.status # "completed" ELSE steps[i - 1] \in EngineRun!Statuses

Ready(c, steps) ==
  /\ Coherent(c) /\ (Scored(c) \/ Due(steps))
  /\ MakesFirst(c, steps) /\ GradesFirst(c, steps) /\ Working(c, steps)

(* What a request that writes has done.                                    *)
Writes(r) ==
  writing[r] # "no" =>
    /\ todo[r] # <<>> /\ Head(todo[r]) \in SaveSteps
    /\ Head(todo[r]) \in EngineRun!Statuses => rec[r].status = Head(todo[r])

RunsTyped ==
  /\ writing \in [Requests -> {"no", "open", "mixed"}]
  /\ rec \in [Requests -> Copies]
  /\ todo \in [Requests -> Seq(StepNames)]
  /\ disk \in Copies \cup {EngineRun!Absent, EngineRun!Torn}
  /\ saved \in Copies \cup {EngineRun!Absent}
  /\ begun \in Nat

Handled(r) == todo[r] # <<>> => Ready(rec[r], todo[r])

DiskIsSound == disk.file = "whole" => Coherent(disk) /\ Scored(disk)

RunsInvariant ==
  RunsTyped /\ DiskIsSound /\ \A r \in Requests : Handled(r) /\ Writes(r)

Evident(h, c) == h.ir = c.ir /\ h.suite = c.suite /\ h.eval = c.eval /\ h.swarm = c.swarm

(* While no two requests overlap, a copy has all that was saved: in its    *)
(* history, or as its own evidence.                                        *)
Shows(c, s) ==
  c.ir = s.ir /\ c.suite = s.suite /\ (s.swarm = <<>> \/ c.swarm = s.swarm)
Remembers(c, s) ==
  \E h \in c.history : Evident(h, s)
Keeps(c, steps, s) ==
  s.file = "whole" =>
    /\ s.history \subseteq c.history
    /\ s.suite # EngineRun!None => Shows(c, s) \/ Remembers(c, s)
    /\ In("REVISE", steps) => Evident(c, s)

SerialInvariant ==
  /\ RunsInvariant /\ OneAtATime
  /\ disk.file = "whole" => disk = saved
  /\ disk.file = "absent" => saved.file = "absent"
  /\ saved.file = "whole" => Coherent(saved)
  /\ \A r \in Requests : writing[r] # "mixed" /\ (todo[r] # <<>> => Keeps(rec[r], todo[r], saved))

-----------------------------------------------------------------------------
(* The steps that are left after a step: what it inserts, then the rest.   *)
LEMMA Spliced ==
  ASSUME NEW s \in Seq(StepNames), s # <<>>, NEW n \in Seq(StepNames)
  PROVE  /\ n \o Tail(s) \in Seq(StepNames)
         /\ Len(n) \in Nat /\ Len(s) \in Nat /\ Len(s) >= 1 /\ Head(s) = s[1]
         /\ DOMAIN s = 1..Len(s) /\ DOMAIN n = 1..Len(n)
         /\ DOMAIN (n \o Tail(s)) = 1..(Len(n) + Len(s) - 1)
         /\ \A i \in 1..Len(n) : (n \o Tail(s))[i] = n[i]
         /\ \A i \in (Len(n) + 1)..(Len(n) + Len(s) - 1) : (n \o Tail(s))[i] = s[i - Len(n) + 1]
<1>1. /\ Tail(s) \in Seq(StepNames) /\ Len(Tail(s)) = Len(s) - 1 /\ Head(s) = s[1]
      /\ \A i \in 1..(Len(s) - 1) : Tail(s)[i] = s[i + 1]
      /\ Len(n) \in Nat /\ Len(s) \in Nat /\ Len(s) >= 1
  OBVIOUS
<1>2. /\ n \o Tail(s) \in Seq(StepNames) /\ Len(n \o Tail(s)) = Len(n) + Len(Tail(s))
      /\ \A i \in 1..(Len(n) + Len(Tail(s))) :
           (n \o Tail(s))[i] = IF i <= Len(n) THEN n[i] ELSE Tail(s)[i - Len(n)]
  BY <1>1, ConcatProperties
<1>3. DOMAIN (n \o Tail(s)) = 1..Len(n \o Tail(s)) /\ DOMAIN s = 1..Len(s) /\ DOMAIN n = 1..Len(n)
  BY <1>2
<1>4. QED BY <1>1, <1>2, <1>3

(* A step that is left then was inserted, or was left before.              *)
LEMMA SplicedIn ==
  ASSUME NEW s \in Seq(StepNames), s # <<>>, NEW n \in Seq(StepNames), NEW x
  PROVE  In(x, n \o Tail(s)) => In(x, n) \/ In(x, s)
BY Spliced DEF In

(* What comes first still does, unless it was the step just done, and does *)
(* too when it was inserted.                                               *)
LEMMA SplicedBefore ==
  ASSUME NEW s \in Seq(StepNames), s # <<>>, NEW n \in Seq(StepNames), NEW x, NEW A,
         ~In(x, n), (Before(A, x, s) /\ Head(s) \notin A) \/ \E a \in A : In(a, n)
  PROVE  Before(A, x, n \o Tail(s))
<1> DEFINE t == n \o Tail(s)
<1> SUFFICES ASSUME NEW j \in DOMAIN t, t[j] = x
             PROVE  \E i \in DOMAIN t : i < j /\ t[i] \in A
  BY DEF Before
<1>1. /\ Len(n) \in Nat /\ Len(s) \in Nat /\ Len(s) >= 1 /\ Head(s) = s[1]
      /\ DOMAIN s = 1..Len(s) /\ DOMAIN n = 1..Len(n) /\ DOMAIN t = 1..(Len(n) + Len(s) - 1)
      /\ \A i \in 1..Len(n) : t[i] = n[i]
      /\ \A i \in (Len(n) + 1)..(Len(n) + Len(s) - 1) : t[i] = s[i - Len(n) + 1]
  BY Spliced
<1> HIDE DEF t
<1>2. j > Len(n)
  BY <1>1 DEF In
<1>3. CASE \E a \in A : In(a, n)
  <2>1. PICK i \in DOMAIN n : n[i] \in A
    BY <1>3 DEF In
  <2>2. i \in DOMAIN t /\ t[i] \in A /\ i < j
    BY <1>1, <1>2, <2>1
  <2>3. QED BY <2>2
<1>4. CASE Before(A, x, s) /\ Head(s) \notin A
  <2>1. j - Len(n) + 1 \in DOMAIN s /\ s[j - Len(n) + 1] = x
    BY <1>1, <1>2
  <2>2. PICK i \in DOMAIN s : i < j - Len(n) + 1 /\ s[i] \in A
    BY <1>4, <2>1 DEF Before
  <2>3. i > 1
    BY <1>1, <1>4, <2>2
  <2>4. i + Len(n) - 1 \in DOMAIN t /\ t[i + Len(n) - 1] = s[i] /\ i + Len(n) - 1 < j
    BY <1>1, <1>2, <2>2, <2>3
  <2>5. QED BY <2>2, <2>4
<1>5. QED BY <1>3, <1>4

(* A score that is due before the next save stays due, or is inserted.     *)
LEMMA SplicedDue ==
  ASSUME NEW s \in Seq(StepNames), s # <<>>, NEW n \in Seq(StepNames), ~In("save", n),
         \/ Due(s) /\ Head(s) \notin EngineRun!Statuses \cup {"SCORE"}
         \/ \E a \in EngineRun!Statuses \cup {"SCORE"} : In(a, n)
  PROVE  Due(n \o Tail(s))
<1> DEFINE t == n \o Tail(s)
<1>1. /\ Len(n) \in Nat /\ Len(s) \in Nat /\ Len(s) >= 1 /\ Head(s) = s[1]
      /\ DOMAIN s = 1..Len(s) /\ DOMAIN n = 1..Len(n) /\ DOMAIN t = 1..(Len(n) + Len(s) - 1)
      /\ \A i \in 1..Len(n) : t[i] = n[i]
      /\ \A i \in (Len(n) + 1)..(Len(n) + Len(s) - 1) : t[i] = s[i - Len(n) + 1]
  BY Spliced
<1> HIDE DEF t
<1>2. CASE \E a \in EngineRun!Statuses \cup {"SCORE"} : In(a, n)
  <2>1. PICK i \in DOMAIN n : n[i] \in EngineRun!Statuses \cup {"SCORE"}
    BY <1>2 DEF In
  <2>2. i \in DOMAIN t /\ t[i] \in EngineRun!Statuses \cup {"SCORE"}
    BY <1>1, <2>1
  <2>3. \A j \in DOMAIN t : j < i => t[j] # "save"
    BY <1>1, <2>1 DEF In
  <2>4. QED BY <2>2, <2>3 DEF Due, t
<1>3. CASE Due(s) /\ Head(s) \notin EngineRun!Statuses \cup {"SCORE"}
  <2>1. PICK i \in DOMAIN s : /\ s[i] \in EngineRun!Statuses \cup {"SCORE"}
                              /\ \A j \in DOMAIN s : j < i => s[j] # "save"
    BY <1>3 DEF Due
  <2>2. i > 1
    BY <1>1, <1>3, <2>1
  <2>3. i + Len(n) - 1 \in DOMAIN t /\ t[i + Len(n) - 1] \in EngineRun!Statuses \cup {"SCORE"}
    BY <1>1, <2>1, <2>2
  <2>4. \A j \in DOMAIN t : j < i + Len(n) - 1 => t[j] # "save"
    <3> SUFFICES ASSUME NEW j \in DOMAIN t, j < i + Len(n) - 1 PROVE t[j] # "save"
      OBVIOUS
    <3>1. CASE j <= Len(n)
      BY <1>1, <3>1 DEF In
    <3>2. CASE j > Len(n)
      <4>1. j - Len(n) + 1 \in DOMAIN s /\ j - Len(n) + 1 < i /\ t[j] = s[j - Len(n) + 1]
        BY <1>1, <3>2, <2>1
      <4>2. QED BY <2>1, <4>1
    <3>3. QED BY <1>1, <3>1, <3>2
  <2>5. QED BY <2>3, <2>4 DEF Due, t
<1>4. QED BY <1>2, <1>3

(* Every grading and capture still follows the status it needs.            *)
LEMMA SplicedWorking ==
  ASSUME NEW s \in Seq(StepNames), s # <<>>, NEW n \in Seq(StepNames), NEW c, NEW d,
         Working(c, s), Head(s) \notin EngineRun!Statuses, Working(d, n)
  PROVE  Working(d, n \o Tail(s))
<1> DEFINE t == n \o Tail(s)
<1>1. /\ Len(n) \in Nat /\ Len(s) \in Nat /\ Len(s) >= 1 /\ Head(s) = s[1]
      /\ DOMAIN s = 1..Len(s) /\ DOMAIN n = 1..Len(n) /\ DOMAIN t = 1..(Len(n) + Len(s) - 1)
      /\ \A i \in 1..Len(n) : t[i] = n[i]
      /\ \A i \in (Len(n) + 1)..(Len(n) + Len(s) - 1) : t[i] = s[i - Len(n) + 1]
  BY Spliced
<1> SUFFICES ASSUME NEW i \in DOMAIN t, t[i] \in {"GRADE", "CAPTURE"}
             PROVE  IF i = 1 THEN d.status # "completed" ELSE t[i - 1] \in EngineRun!Statuses
  BY DEF Working
<1> HIDE DEF t
<1>2. CASE i <= Len(n)
  BY <1>1, <1>2 DEF Working
<1>3. CASE i > Len(n)
  <2>0. i \in (Len(n) + 1)..(Len(n) + Len(s) - 1)
    BY <1>1, <1>3
  <2> DEFINE k == i - Len(n) + 1
  <2>a. t[i] = s[k]
    BY <1>1, <2>0
  <2>b. k \in 1..Len(s) /\ k > 1 /\ k - 1 = i - Len(n)
    BY <1>1, <2>0
  <2> HIDE DEF k
  <2>1. k \in DOMAIN s /\ t[i] = s[k] /\ k > 1 /\ k - 1 = i - Len(n)
    BY <1>1, <2>a, <2>b
  <2>2. s[k - 1] \in EngineRun!Statuses
    BY <2>1 DEF Working
  <2>3. k - 1 # 1 /\ i \in Nat
    BY <1>1, <2>2
  <2>4. i - 1 \in DOMAIN t /\ t[i - 1] = s[k - 1] /\ i # 1
    BY <1>1, <1>3, <2>1, <2>3
  <2>5. QED BY <2>2, <2>4
<1>4. QED BY <1>1, <1>2, <1>3

(* What may be left once is not inserted a second time; what was done and  *)
(* may be done once is not left.                                           *)
LEMMA SplicedOnce ==
  ASSUME NEW s \in Seq(StepNames), s # <<>>, NEW n \in Seq(StepNames), NEW A,
         Once(A, s), Once(A, n), Head(s) \in A \/ \A a \in A : ~In(a, n)
  PROVE  /\ Once(A, n \o Tail(s))
         /\ Head(s) \in A /\ (\A a \in A : ~In(a, n)) => \A a \in A : ~In(a, n \o Tail(s))
<1> DEFINE t == n \o Tail(s)
<1>1. /\ Len(n) \in Nat /\ Len(s) \in Nat /\ Len(s) >= 1 /\ Head(s) = s[1]
      /\ DOMAIN s = 1..Len(s) /\ DOMAIN n = 1..Len(n) /\ DOMAIN t = 1..(Len(n) + Len(s) - 1)
      /\ \A i \in 1..Len(n) : t[i] = n[i]
      /\ \A i \in (Len(n) + 1)..(Len(n) + Len(s) - 1) : t[i] = s[i - Len(n) + 1]
  BY Spliced
<1> HIDE DEF t
<1>2. ASSUME NEW i \in DOMAIN t, i > Len(n)
      PROVE  i - Len(n) + 1 \in DOMAIN s /\ i - Len(n) + 1 # 1 /\ t[i] = s[i - Len(n) + 1]
  <2>1. i \in (Len(n) + 1)..(Len(n) + Len(s) - 1)
    BY <1>1, <1>2
  <2>2. QED BY <1>1, <2>1
<1>3. ASSUME NEW i \in DOMAIN t, ~(i > Len(n)) PROVE i \in DOMAIN n /\ t[i] = n[i]
  BY <1>1, <1>3
<1>4. ASSUME NEW i \in DOMAIN t, NEW j \in DOMAIN t, t[i] \in A, t[j] \in A PROVE i = j
  <2>1. CASE i > Len(n) /\ j > Len(n)
    <3>1. i - Len(n) + 1 = j - Len(n) + 1
      BY <1>2, <1>4, <2>1 DEF Once
    <3>2. QED BY <1>1, <3>1
  <2>2. CASE ~(i > Len(n)) /\ ~(j > Len(n))
    BY <1>3, <1>4, <2>2 DEF Once
  <2>3. CASE i > Len(n) /\ ~(j > Len(n))
    <3>1. Head(s) \in A
      BY <1>3, <1>4, <2>3 DEF In
    <3>2. 1 \in DOMAIN s /\ s[1] \in A
      BY <1>1, <3>1
    <3>3. /\ i - Len(n) + 1 \in DOMAIN s /\ i - Len(n) + 1 # 1
          /\ s[i - Len(n) + 1] \in A
      BY <1>2, <1>4, <2>3
    <3>4. QED BY <3>2, <3>3 DEF Once
  <2>4. CASE ~(i > Len(n)) /\ j > Len(n)
    <3>1. Head(s) \in A
      BY <1>3, <1>4, <2>4 DEF In
    <3>2. 1 \in DOMAIN s /\ s[1] \in A
      BY <1>1, <3>1
    <3>3. /\ j - Len(n) + 1 \in DOMAIN s /\ j - Len(n) + 1 # 1
          /\ s[j - Len(n) + 1] \in A
      BY <1>2, <1>4, <2>4
    <3>4. QED BY <3>2, <3>3 DEF Once
  <2>5. QED BY <2>1, <2>2, <2>3, <2>4
<1>5. ASSUME Head(s) \in A, \A a \in A : ~In(a, n), NEW i \in DOMAIN t, t[i] \in A PROVE FALSE
  <2>1. CASE i > Len(n)
    BY <1>1, <1>2, <1>5, <2>1 DEF Once
  <2>2. CASE ~(i > Len(n))
    BY <1>3, <1>5, <2>2 DEF In
  <2>3. QED BY <2>1, <2>2
<1>6. Once(A, t)
  BY <1>4 DEF Once
<1>7. QED BY <1>5, <1>6 DEF In, t

-----------------------------------------------------------------------------
(* The steps on a copy.                                                    *)

(* A packet only changes what is known of its launch, and revised wording  *)
(* is unverified (_attach_mirofish).                                       *)
LEMMA Packing ==
  ASSUME NEW c \in Copies, NEW l \in BOOLEAN, NEW p \in EngineRun!Packs(c, l)
  PROVE  \E u \in {"none", "ok", "failed", "unverified"} :
           p = [c EXCEPT !.launch = u] /\ (u = "unverified" <=> c.ir > 1)
BY DEF EngineRun!Packs

(* _archive_evidence puts the evidence in the history and takes the        *)
(* capture off the copy.                                                   *)
LEMMA Archiving ==
  ASSUME NEW c \in Copies, NEW a, a = EngineRun!Archived(c)
  PROVE  /\ a \in Copies
         /\ a.status = c.status /\ a.ir = c.ir /\ a.suite = c.suite /\ a.eval = c.eval
         /\ a.eff = c.eff /\ a.launch = c.launch /\ a.swarm = <<>> /\ a.file = "whole"
         /\ c.history \subseteq a.history /\ \E h \in a.history : Evident(h, c)
<1> DEFINE e == [ir |-> c.ir, suite |-> c.suite, eval |-> c.eval, eff |-> c.eff,
                 swarm |-> c.swarm]
<1>1. a = [c EXCEPT !.history = @ \cup {e}, !.swarm = <<>>]
  BY DEF EngineRun!Archived
<1>2. e \in Entries
  BY DEF Copies, Entries
<1>3. c.history \cup {e} \in SUBSET Entries /\ <<>> \in Evidence
  BY <1>2 DEF Copies, Evidence
<1> HIDE DEF e
<1>4. a \in Copies /\ a.history = c.history \cup {e}
  BY <1>1, <1>3 DEF Copies
<1>5. /\ a.status = c.status /\ a.ir = c.ir /\ a.suite = c.suite /\ a.eval = c.eval
      /\ a.eff = c.eff /\ a.launch = c.launch /\ a.swarm = <<>> /\ a.file = "whole"
  BY <1>1 DEF Copies
<1>6. Evident(e, c)
  BY DEF e, Evident
<1>7. QED BY <1>4, <1>5, <1>6

(* _evaluate replaces the evaluation by one of the policy and suite that   *)
(* the copy has.                                                           *)
LEMMA Grading ==
  ASSUME NEW c \in Copies, NEW g, g = EngineRun!Graded(c)
  PROVE  /\ g \in Copies
         /\ g.status = c.status /\ g.ir = c.ir /\ g.suite = c.suite /\ g.eff = c.eff
         /\ g.swarm = c.swarm /\ g.launch = c.launch /\ g.history = c.history
         /\ g.eval = <<c.ir, c.suite>> /\ g.eval # <<>>
BY DEF EngineRun!Graded, Copies, Evidence

(* _score only writes the score and completes the run.                     *)
LEMMA ScoringPlain ==
  ASSUME NEW c \in Copies, NEW g, g = EngineRun!Scored(c)
  PROVE  /\ g \in Copies /\ Scored(g)
         /\ g.ir = c.ir /\ g.suite = c.suite /\ g.eval = c.eval
         /\ g.swarm = c.swarm /\ g.launch = c.launch /\ g.history = c.history
BY DEF EngineRun!Scored, Copies, Scores, Scored

Generates == <<"generating_scenarios", "GENERATE">>
Evaluates == <<"evaluating", "GRADE">>
Regrades == <<"EVALUATE", "SCORE">>
Rescores == <<"SCORE">>
Starts == <<"rehearsing", "CAPTURE", "SCORE">>
Inserted == {<<>>, Generates, Evaluates, Regrades, Rescores, Starts}

(* What a step on the copy c leaves: the copy d and the inserted steps n.  *)
Leads(c, first, d, n) ==
  /\ d \in Copies /\ n \in Inserted
  /\ Coherent(d)
  /\ Scored(d) \/ n # <<>> \/ (first # "SCORE" /\ ~Scored(c))
  /\ first \notin {"EXTRACT", "REVISE"} => d.ir = c.ir
  /\ d.suite = c.suite \/ first = "GENERATE"
  /\ d.eval = c.eval \/ (first \in {"GRADE", "REVISE"} /\ d.eval # <<>>)
  /\ first # "CAPTURE" => d.swarm \in {c.swarm, <<>>}
  /\ first = "GENERATE" => d.suite # EngineRun!None
  /\ first = "GRADE" => d.eval # <<>>
  /\ first = "SUITE" => n = IF c.suite = EngineRun!None THEN Generates ELSE <<>>
  /\ first = "EVALUATE" => n = IF c.suite = EngineRun!None THEN <<>> ELSE Evaluates
  /\ n = Generates => first = "SUITE"
  /\ n \in {Evaluates, Regrades} => d.suite # EngineRun!None
  /\ n = Starts => first = "SWARM" /\ d.ir <= 1
  /\ first = "REVISE" => n = <<>>
  /\ c.history \subseteq d.history
  /\ first = "REVISE" \/ d.swarm \notin {c.swarm, <<c.ir, c.suite>>} =>
       \E h \in d.history : Evident(h, c)

(* What each of the inserted lists has in it.                              *)
LEMMA InsertedSteps ==
  ASSUME NEW x
  PROVE  /\ ~In(x, <<>>)
         /\ In(x, Generates) <=> x \in {"generating_scenarios", "GENERATE"}
         /\ In(x, Evaluates) <=> x \in {"evaluating", "GRADE"}
         /\ In(x, Regrades) <=> x \in {"EVALUATE", "SCORE"}
         /\ In(x, Rescores) <=> x = "SCORE"
         /\ In(x, Starts) <=> x \in {"rehearsing", "CAPTURE", "SCORE"}
<1>1. /\ DOMAIN <<>> = {} /\ DOMAIN Generates = {1, 2} /\ DOMAIN Evaluates = {1, 2}
      /\ DOMAIN Regrades = {1, 2} /\ DOMAIN Rescores = {1} /\ DOMAIN Starts = {1, 2, 3}
  BY DEF Generates, Evaluates, Regrades, Rescores, Starts
<1>2. ~In(x, <<>>)
  BY <1>1 DEF In
<1>3. In(x, Generates) <=> x \in {"generating_scenarios", "GENERATE"}
  BY <1>1 DEF In, Generates
<1>4. In(x, Evaluates) <=> x \in {"evaluating", "GRADE"}
  BY <1>1 DEF In, Evaluates
<1>5. In(x, Regrades) <=> x \in {"EVALUATE", "SCORE"}
  BY <1>1 DEF In, Regrades
<1>6. In(x, Rescores) <=> x = "SCORE"
  BY <1>1 DEF In, Rescores
<1>7. In(x, Starts) <=> x \in {"rehearsing", "CAPTURE", "SCORE"}
  BY <1>1 DEF In, Starts
<1>8. QED BY <1>2, <1>3, <1>4, <1>5, <1>6, <1>7

(* The inserted lists are different ones.                                  *)
LEMMA InsertedApart ==
  /\ <<>> \notin {Generates, Evaluates, Regrades, Rescores, Starts}
  /\ Generates \notin {Evaluates, Regrades, Rescores, Starts}
  /\ Evaluates \notin {Regrades, Rescores, Starts}
  /\ Regrades \notin {Rescores, Starts} /\ Rescores # Starts
BY DEF Generates, Evaluates, Regrades, Rescores, Starts

(* What is inserted are steps, each of which finds the status it needs.    *)
LEMMA InsertedTyped ==
  ASSUME NEW n \in Inserted, NEW d
  PROVE  n \in Seq(StepNames) /\ Working(d, n)
<1>1. CASE n \in {<<>>, Regrades, Rescores}
  <2>1. ~In("GRADE", n) /\ ~In("CAPTURE", n)
    BY <1>1, InsertedSteps
  <2>2. Working(d, n)
    BY <2>1 DEF Working, In
  <2>3. "EVALUATE" \in StepNames /\ "SCORE" \in StepNames
    BY DEF StepNames, WorkSteps
  <2>4. <<>> \in Seq(StepNames) /\ Rescores \in Seq(StepNames) /\ Regrades \in Seq(StepNames)
    BY <2>3 DEF Rescores, Regrades
  <2>5. QED BY <1>1, <2>2, <2>4
<1>2. CASE n = Generates
  <2>1. ~In("GRADE", n) /\ ~In("CAPTURE", n)
    BY <1>2, InsertedSteps
  <2>2. Working(d, n)
    BY <2>1 DEF Working, In
  <2>3. n \in Seq(StepNames)
    BY <1>2 DEF Generates, StepNames, WorkSteps, SaveSteps, EngineRun!Statuses
  <2>4. QED BY <2>2, <2>3
<1>3. CASE n = Evaluates
  <2>1. n \in Seq(StepNames)
    BY <1>3 DEF Evaluates, StepNames, WorkSteps, SaveSteps, EngineRun!Statuses
  <2>2. DOMAIN n = {1, 2} /\ n[1] = "evaluating" /\ n[2] = "GRADE"
    BY <1>3 DEF Evaluates
  <2>3. QED BY <2>1, <2>2 DEF Working, EngineRun!Statuses
<1>4. CASE n = Starts
  <2>1. n \in Seq(StepNames)
    BY <1>4 DEF Starts, StepNames, WorkSteps, SaveSteps, EngineRun!Statuses
  <2>2. /\ DOMAIN n = {1, 2, 3}
        /\ n[1] = "rehearsing" /\ n[2] = "CAPTURE" /\ n[3] = "SCORE"
    BY <1>4 DEF Starts
  <2>3. QED BY <2>1, <2>2 DEF Working, EngineRun!Statuses
<1>5. QED BY <1>1, <1>2, <1>3, <1>4 DEF Inserted

(* The outcomes of each step, apart.                                       *)
LEMMA OutcomesAre ==
  ASSUME NEW c
  PROVE  /\ EngineRun!Outcomes("INGEST", c) =
             EngineRun!Leave({c}, <<>>)
         /\ EngineRun!Outcomes("EXTRACT", c) =
             EngineRun!Leave({[c EXCEPT !.ir = 1]}, <<>>)
         /\ EngineRun!Outcomes("SUITE", c) =
             EngineRun!Leave({c}, IF c.suite # EngineRun!None THEN <<>> ELSE Generates)
         /\ EngineRun!Outcomes("GENERATE", c) =
             EngineRun!Leave({[c EXCEPT !.suite = EngineRun!Generated]}, <<>>)
         /\ EngineRun!Outcomes("PACK", c) =
             EngineRun!Leave(EngineRun!Packs(c, FALSE), <<>>)
         /\ EngineRun!Outcomes("LAUNCH", c) =
             EngineRun!Leave(EngineRun!Packs(c, TRUE), <<>>)
         /\ EngineRun!Outcomes("EVALUATE", c) =
             EngineRun!Leave({c}, IF c.suite = EngineRun!None THEN <<>> ELSE Evaluates)
         /\ EngineRun!Outcomes("GRADE", c) =
             EngineRun!Leave({EngineRun!Graded(c)}, <<>>)
         /\ EngineRun!Outcomes("UNSWARMED", c) =
             EngineRun!Leave({EngineRun!Archived(c)}, Rescores)
         /\ EngineRun!Outcomes("SWARM", c) =
             EngineRun!SwarmStarts(c)
         /\ EngineRun!Outcomes("CAPTURE", c) =
             EngineRun!Leave({[c EXCEPT !.launch = "ok", !.swarm = <<c.ir, c.suite>>],
                           [c EXCEPT !.launch = "failed"]}, <<>>)
         /\ EngineRun!Outcomes("REVISE", c) =
             IF c.suite = EngineRun!None THEN {}
          ELSE EngineRun!Leave(EngineRun!Revised(c), <<>>)
         /\ EngineRun!Outcomes("SCORE", c) =
             IF c.eval # <<>> THEN EngineRun!Leave({EngineRun!Scored(c)}, <<>>)
             ELSE IF c.suite # EngineRun!None THEN EngineRun!Leave({c}, Regrades)
             ELSE EngineRun!Leave({[c EXCEPT !.status = "compiled"]}, <<>>)
BY DEF EngineRun!Outcomes, Generates, Evaluates, Regrades, Rescores

(* What a step leaves is one of its copies, and the steps that follow.     *)
LEMMA Left ==
  ASSUME NEW cs, NEW n, NEW o \in EngineRun!Leave(cs, n)
  PROVE  o.c \in cs /\ o.next = n
BY DEF EngineRun!Leave

(* A swarm starts on a copy whose capture is archived, with wording of its *)
(* packet that is verified (_run_swarm).                                   *)
LEMMA SwarmStarting ==
  ASSUME NEW c \in Copies, NEW o \in EngineRun!SwarmStarts(c)
  PROVE  \E a \in {c, EngineRun!Archived(c)} : \E p \in EngineRun!Packs(a, FALSE) :
           o.c = p /\ o.next = IF p.launch = "unverified" THEN Rescores ELSE Starts
<1> DEFINE a == IF c.swarm = <<>> THEN c ELSE EngineRun!Archived(c)
<1>1. PICK p \in EngineRun!Packs(a, FALSE) :
        o \in EngineRun!Leave({p}, IF p.launch = "unverified" THEN Rescores ELSE Starts)
  BY DEF EngineRun!SwarmStarts, Rescores, Starts
<1>2. o.c = p /\ o.next = IF p.launch = "unverified" THEN Rescores ELSE Starts
  BY <1>1, Left
<1>3. a \in {c, EngineRun!Archived(c)}
  OBVIOUS
<1>4. QED BY <1>1, <1>2, <1>3

(* What is known of the copy at the step that is next.                     *)
LEMMA HeadSays ==
  ASSUME NEW s \in Seq(StepNames), s # <<>>, NEW c \in Copies, Ready(c, s)
  PROVE  /\ Head(s) = "EXTRACT" => /\ c.ir = 0 /\ c.suite = EngineRun!None
                                   /\ c.eval = <<>> /\ c.swarm = <<>>
         /\ Head(s) = "GENERATE" => c.suite = EngineRun!None
         /\ Head(s) = "GRADE" => c.suite # EngineRun!None /\ c.status # "completed"
         /\ Head(s) = "CAPTURE" => c.ir <= 1 /\ c.eval # <<>> /\ c.status # "completed"
         /\ Head(s) = "SWARM" => c.eval # <<>>
         /\ Head(s) = "EVALUATE" /\ In("SWARM", s) => c.suite # EngineRun!None
<1>1. 1 \in DOMAIN s /\ Head(s) = s[1] /\ \A j \in DOMAIN s : ~(j < 1)
  BY Spliced
<1>2. In(Head(s), s)
  BY <1>1 DEF In
<1>3. MakesFirst(c, s) /\ GradesFirst(c, s) /\ Working(c, s)
  BY DEF Ready
<1>4. Head(s) \in {"GRADE", "CAPTURE"} => c.status # "completed"
  BY <1>1, <1>3 DEF Working
<1>5. \A A : Head(s) = "SWARM" => ~Before(A, "SWARM", s)
  BY <1>1 DEF Before
<1>6. \A A : Head(s) = "EVALUATE" => ~Before(A, "EVALUATE", s)
  BY <1>1 DEF Before
<1>7. Head(s) = "SWARM" => c.eval # <<>>
  BY <1>3, <1>5 DEF GradesFirst
<1>8. Head(s) = "EVALUATE" /\ In("SWARM", s) => c.suite # EngineRun!None
  BY <1>3, <1>6 DEF GradesFirst
<1>9. QED BY <1>2, <1>3, <1>4, <1>7, <1>8 DEF MakesFirst, GradesFirst

(* What every step of the work leaves, one step after the other.           *)
LEMMA Leading ==
  ASSUME NEW s \in Seq(StepNames), s # <<>>, NEW c \in Copies, Ready(c, s),
         Head(s) \in WorkSteps, NEW o \in EngineRun!Outcomes(Head(s), c)
  PROVE  Leads(c, Head(s), o.c, o.next)
<1>1. Coherent(c) /\ c \in Copies
  BY DEF Ready
<1>2. CASE Head(s) = "INGEST"
  <2>1. o.c = c /\ o.next = <<>>
    <3>1. o \in EngineRun!Leave({c}, <<>>)
      BY <1>2, OutcomesAre
    <3>2. QED BY <3>1, Left
  <2>2. QED BY <1>1, <1>2, <2>1, InsertedApart DEF Leads, Inserted
<1>3. CASE Head(s) = "EXTRACT"
  <2>1. o.c = [c EXCEPT !.ir = 1] /\ o.next = <<>>
    <3>1. o \in EngineRun!Leave({[c EXCEPT !.ir = 1]}, <<>>)
      BY <1>3, OutcomesAre
    <3>2. QED BY <3>1, Left
  <2>2. c.eval = <<>> /\ c.swarm = <<>>
    BY <1>3, HeadSays
  <2>3. /\ o.c \in Copies /\ o.c.suite = c.suite /\ o.c.eval = c.eval /\ o.c.swarm = c.swarm
        /\ o.c.eff = c.eff /\ o.c.status = c.status /\ o.c.ir = 1
        /\ o.c.history = c.history
    BY <2>1 DEF Copies
  <2>4. Coherent(o.c) /\ (Scored(o.c) \/ ~Scored(c))
    BY <2>2, <2>3 DEF Coherent, Scored
  <2>5. QED BY <1>3, <2>1, <2>3, <2>4, InsertedApart DEF Leads, Inserted
<1>4. CASE Head(s) = "SUITE"
  <2>1. o.c = c /\ o.next = IF c.suite # EngineRun!None THEN <<>> ELSE Generates
    <3>1. o \in EngineRun!Leave({c}, IF c.suite # EngineRun!None THEN <<>> ELSE Generates)
      BY <1>4, OutcomesAre
    <3>2. QED BY <3>1, Left
  <2>2. QED BY <1>1, <1>4, <2>1, InsertedApart DEF Leads, Inserted
<1>5. CASE Head(s) = "GENERATE"
  <2>1. o.c = [c EXCEPT !.suite = EngineRun!Generated] /\ o.next = <<>>
    <3>1. o \in EngineRun!Leave({[c EXCEPT !.suite = EngineRun!Generated]}, <<>>)
      BY <1>5, OutcomesAre
    <3>2. QED BY <3>1, Left
  <2>2. c.eval = <<>> /\ c.swarm = <<>>
    BY <1>1, <1>5, HeadSays DEF Coherent
  <2>3. EngineRun!Generated \in SuiteNames /\ EngineRun!Generated # EngineRun!None
    BY DEF SuiteNames, EngineRun!None, EngineRun!Generated
  <2>4. /\ o.c \in Copies /\ o.c.suite = EngineRun!Generated /\ o.c.eval = c.eval
        /\ o.c.swarm = c.swarm /\ o.c.eff = c.eff /\ o.c.status = c.status /\ o.c.ir = c.ir
        /\ o.c.launch = c.launch /\ o.c.history = c.history
    BY <2>1, <2>3 DEF Copies
  <2>5. Coherent(o.c) /\ (Scored(o.c) \/ ~Scored(c))
    BY <1>1, <2>2, <2>4 DEF Coherent, Scored
  <2>6. QED BY <1>5, <2>1, <2>3, <2>4, <2>5, InsertedApart DEF Leads, Inserted
<1>6. CASE Head(s) \in {"PACK", "LAUNCH"}
  <2>1. PICK l \in BOOLEAN : o.c \in EngineRun!Packs(c, l) /\ o.next = <<>>
    <3>1. CASE Head(s) = "PACK"
      <4>1. o.c \in EngineRun!Packs(c, FALSE) /\ o.next = <<>>
        <5>1. o \in EngineRun!Leave(EngineRun!Packs(c, FALSE), <<>>)
          BY <3>1, OutcomesAre
        <5>2. QED BY <5>1, Left
      <4>2. QED BY <4>1
    <3>2. CASE Head(s) = "LAUNCH"
      <4>1. o.c \in EngineRun!Packs(c, TRUE) /\ o.next = <<>>
        <5>1. o \in EngineRun!Leave(EngineRun!Packs(c, TRUE), <<>>)
          BY <3>2, OutcomesAre
        <5>2. QED BY <5>1, Left
      <4>2. QED BY <4>1
    <3>3. QED BY <1>6, <3>1, <3>2
  <2>2. PICK u \in {"none", "ok", "failed", "unverified"} :
          o.c = [c EXCEPT !.launch = u] /\ (u = "unverified" <=> c.ir > 1)
    BY <2>1, Packing
  <2>3. /\ o.c \in Copies /\ o.c.suite = c.suite /\ o.c.eval = c.eval /\ o.c.launch = u
        /\ o.c.history = c.history
        /\ o.c.swarm = c.swarm /\ o.c.eff = c.eff /\ o.c.status = c.status /\ o.c.ir = c.ir
    BY <2>2 DEF Copies
  <2>4. Coherent(o.c) /\ (Scored(o.c) \/ ~Scored(c))
    BY <1>1, <2>2, <2>3 DEF Coherent, Scored
  <2>5. QED BY <1>6, <2>1, <2>3, <2>4, InsertedApart DEF Leads, Inserted
<1>7. CASE Head(s) = "EVALUATE"
  <2>1. o.c = c /\ o.next = IF c.suite = EngineRun!None THEN <<>> ELSE Evaluates
    <3>1. o \in EngineRun!Leave({c}, IF c.suite = EngineRun!None THEN <<>> ELSE Evaluates)
      BY <1>7, OutcomesAre
    <3>2. QED BY <3>1, Left
  <2>2. QED BY <1>1, <1>7, <2>1, InsertedApart DEF Leads, Inserted
<1>8. CASE Head(s) = "GRADE"
  <2>1. o.c = EngineRun!Graded(c) /\ o.next = <<>>
    <3>1. o \in EngineRun!Leave({EngineRun!Graded(c)}, <<>>)
      BY <1>8, OutcomesAre
    <3>2. QED BY <3>1, Left
  <2>2. /\ o.c \in Copies /\ o.c.suite = c.suite /\ o.c.eval = <<c.ir, c.suite>>
        /\ o.c.launch = c.launch /\ o.c.eval # <<>> /\ o.c.history = c.history
        /\ o.c.swarm = c.swarm /\ o.c.eff = c.eff /\ o.c.status = c.status /\ o.c.ir = c.ir
    BY <2>1, Grading
  <2>3. c.suite # EngineRun!None /\ c.status # "completed"
    BY <1>8, HeadSays
  <2>4. Coherent(o.c) /\ Scored(o.c)
    BY <1>1, <2>2, <2>3 DEF Coherent, Scored
  <2>5. QED BY <1>8, <2>1, <2>2, <2>4, InsertedApart DEF Leads, Inserted
<1>9. CASE Head(s) = "SCORE"
  <2>1. CASE c.eval # <<>>
    <3>1. o.c = EngineRun!Scored(c) /\ o.next = <<>>
      <4>1. o \in EngineRun!Leave({EngineRun!Scored(c)}, <<>>)
        BY <1>9, <2>1, OutcomesAre
      <4>2. QED BY <4>1, Left
    <3>2. /\ o.c \in Copies /\ Scored(o.c)
          /\ o.c.suite = c.suite /\ o.c.eval = c.eval /\ o.c.launch = c.launch
          /\ o.c.swarm = c.swarm /\ o.c.ir = c.ir /\ o.c.history = c.history
      BY <3>1, ScoringPlain
    <3>3. Coherent(o.c)
      BY <1>1, <3>2 DEF Coherent
    <3>4. QED BY <1>9, <3>1, <3>2, <3>3, InsertedApart DEF Leads, Inserted
  <2>2. CASE c.eval = <<>> /\ c.suite # EngineRun!None
    <3>1. o.c = c /\ o.next = Regrades
      <4>1. o \in EngineRun!Leave({c}, Regrades)
        BY <1>9, <2>2, OutcomesAre
      <4>2. QED BY <4>1, Left
    <3>2. QED BY <1>1, <1>9, <2>2, <3>1, InsertedApart DEF Leads, Inserted
  <2>3. CASE c.eval = <<>> /\ c.suite = EngineRun!None
    <3>1. o.c = [c EXCEPT !.status = "compiled"] /\ o.next = <<>>
      <4>1. o \in EngineRun!Leave({[c EXCEPT !.status = "compiled"]}, <<>>)
        BY <1>9, <2>3, OutcomesAre
      <4>2. QED BY <4>1, Left
    <3>2. /\ o.c \in Copies /\ o.c.status # "completed"
          /\ o.c.suite = c.suite /\ o.c.eval = c.eval /\ o.c.launch = c.launch
          /\ o.c.swarm = c.swarm /\ o.c.ir = c.ir /\ o.c.history = c.history
      BY <3>1 DEF Copies
    <3>3. Coherent(o.c) /\ Scored(o.c)
      BY <1>1, <3>2 DEF Coherent, Scored
    <3>4. QED BY <1>9, <3>1, <3>2, <3>3, InsertedApart DEF Leads, Inserted
  <2>4. QED BY <2>1, <2>2, <2>3
<1>10. CASE Head(s) = "UNSWARMED"
  <2>1. o.c = EngineRun!Archived(c) /\ o.next = Rescores
    <3>1. o \in EngineRun!Leave({EngineRun!Archived(c)}, Rescores)
      BY <1>10, OutcomesAre
    <3>2. QED BY <3>1, Left
  <2>2. /\ o.c \in Copies /\ o.c.ir = c.ir /\ o.c.suite = c.suite /\ o.c.eval = c.eval
        /\ o.c.swarm = <<>> /\ o.c.launch = c.launch
        /\ c.history \subseteq o.c.history /\ \E h \in o.c.history : Evident(h, c)
    BY <2>1, Archiving
  <2>3. Coherent(o.c)
    BY <1>1, <2>2 DEF Coherent
  <2>4. QED BY <1>10, <2>1, <2>2, <2>3, InsertedApart DEF Leads, Inserted
<1>11. CASE Head(s) = "SWARM"
  <2>1. PICK a \in {c, EngineRun!Archived(c)} : \E p \in EngineRun!Packs(a, FALSE) :
          o.c = p /\ o.next = IF p.launch = "unverified" THEN Rescores ELSE Starts
    <3>1. o \in EngineRun!SwarmStarts(c)
      BY <1>11, OutcomesAre
    <3>2. QED BY <3>1, SwarmStarting
  <2>2. /\ a \in Copies /\ a.ir = c.ir /\ a.suite = c.suite /\ a.eval = c.eval
        /\ a.swarm \in {c.swarm, <<>>} /\ c.history \subseteq a.history
        /\ a.swarm # c.swarm => \E h \in a.history : Evident(h, c)
    <3>1. CASE a = c
      BY <3>1
    <3>2. CASE a = EngineRun!Archived(c)
      BY <3>2, Archiving
    <3>3. QED BY <3>1, <3>2
  <2>3. o.c \in EngineRun!Packs(a, FALSE)
    BY <2>1
  <2>4. PICK u \in {"none", "ok", "failed", "unverified"} :
          o.c = [a EXCEPT !.launch = u] /\ (u = "unverified" <=> a.ir > 1)
    BY <2>2, <2>3, Packing
  <2>5. /\ o.c \in Copies /\ o.c.ir = c.ir /\ o.c.suite = c.suite /\ o.c.eval = c.eval
        /\ o.c.swarm \in {c.swarm, <<>>} /\ o.c.launch = u /\ c.history \subseteq o.c.history
        /\ o.c.swarm # c.swarm => \E h \in o.c.history : Evident(h, c)
    BY <2>2, <2>4 DEF Copies
  <2>6. Coherent(o.c)
    BY <1>1, <2>2, <2>4, <2>5 DEF Coherent
  <2>7. o.next = (IF u = "unverified" THEN Rescores ELSE Starts)
    BY <2>1, <2>5
  <2>8. o.next = Starts => o.c.ir <= 1
    BY <2>2, <2>4, <2>5, <2>7, InsertedApart DEF Copies
  <2>9. QED BY <1>11, <2>5, <2>6, <2>7, <2>8, InsertedApart DEF Leads, Inserted
<1>12. CASE Head(s) = "CAPTURE"
  <2>1. /\ o.next = <<>>
        /\ \/ o.c = [c EXCEPT !.launch = "ok", !.swarm = <<c.ir, c.suite>>]
           \/ o.c = [c EXCEPT !.launch = "failed"]
    <3>1. o \in EngineRun!Leave({[c EXCEPT !.launch = "ok", !.swarm = <<c.ir, c.suite>>],
                                [c EXCEPT !.launch = "failed"]}, <<>>)
      BY <1>12, OutcomesAre
    <3>2. QED BY <3>1, Left
  <2>2. c.ir <= 1 /\ c.eval # <<>> /\ c.status # "completed"
    BY <1>12, HeadSays
  <2>3. <<c.ir, c.suite>> \in Evidence
    BY DEF Copies, Evidence
  <2>4. /\ o.c \in Copies /\ o.c.ir = c.ir /\ o.c.suite = c.suite /\ o.c.eval = c.eval
        /\ o.c.swarm \in {c.swarm, <<c.ir, c.suite>>} /\ o.c.status = c.status
        /\ o.c.history = c.history
    <3>1. CASE o.c = [c EXCEPT !.launch = "ok", !.swarm = <<c.ir, c.suite>>]
      BY <2>3, <3>1 DEF Copies
    <3>2. CASE o.c = [c EXCEPT !.launch = "failed"]
      BY <3>2 DEF Copies
    <3>3. QED BY <2>1, <3>1, <3>2
  <2>5. Coherent(o.c) /\ Scored(o.c)
    <3>1. ~(c.ir > 1)
      BY <2>2 DEF Copies
    <3>2. QED BY <1>1, <2>2, <2>4, <3>1 DEF Coherent, Scored
  <2>6. QED BY <1>12, <2>1, <2>4, <2>5, InsertedApart DEF Leads, Inserted
<1>13. CASE Head(s) = "REVISE"
  <2>1. /\ c.suite # EngineRun!None /\ o \in EngineRun!Leave(EngineRun!Revised(c), <<>>)
    BY <1>13, OutcomesAre
  <2>2. o.c \in EngineRun!Revised(c) /\ o.next = <<>>
    BY <2>1, Left
  <2> DEFINE a == EngineRun!Archived(c)
             n == [a EXCEPT !.ir = @ + 1, !.eff = <<>>]
             g == EngineRun!Graded(n)
  <2>3. PICK p \in EngineRun!Packs(g, FALSE) : o.c = EngineRun!Scored(p)
    BY <2>2 DEF EngineRun!Revised
  <2>4. /\ a \in Copies /\ a.ir = c.ir /\ a.suite = c.suite /\ a.swarm = <<>>
        /\ c.history \subseteq a.history /\ \E h \in a.history : Evident(h, c)
    BY Archiving
  <2> HIDE DEF a
  <2>5. /\ n \in Copies /\ n.ir = c.ir + 1 /\ n.suite = c.suite /\ n.swarm = <<>>
        /\ n.history = a.history
    <3>1. a.ir + 1 \in Nat /\ <<>> \in Scores
      BY <2>4 DEF Copies, Scores
    <3>2. QED BY <2>4, <3>1 DEF Copies
  <2> HIDE DEF n
  <2>6. /\ g \in Copies /\ g.ir = n.ir /\ g.suite = c.suite /\ g.swarm = <<>>
        /\ g.eval = <<n.ir, n.suite>> /\ g.history = a.history
    BY <2>5, Grading
  <2> HIDE DEF g
  <2>7. PICK u \in {"none", "ok", "failed", "unverified"} :
          p = [g EXCEPT !.launch = u] /\ (u = "unverified" <=> g.ir > 1)
    BY <2>3, <2>6, Packing
  <2>8. /\ p \in Copies /\ p.ir = g.ir /\ p.suite = c.suite /\ p.swarm = <<>>
        /\ p.eval = <<p.ir, p.suite>> /\ p.launch = u /\ p.history = a.history
    BY <2>5, <2>6, <2>7 DEF Copies
  <2>9. /\ o.c \in Copies /\ Scored(o.c) /\ o.c.ir = g.ir /\ o.c.suite = c.suite
        /\ o.c.swarm = <<>> /\ o.c.eval = <<o.c.ir, o.c.suite>> /\ o.c.launch = u
        /\ o.c.history = a.history
    BY <2>3, <2>8, ScoringPlain
  <2>10. Coherent(o.c)
    BY <2>1, <2>7, <2>9 DEF Coherent
  <2>11. o.c.eval # <<>>
    BY <2>9
  <2>12. QED BY <1>13, <2>2, <2>4, <2>9, <2>10, <2>11, InsertedApart DEF Leads, Inserted
<1>14. QED
  BY <1>2, <1>3, <1>4, <1>5, <1>6, <1>7, <1>8, <1>9, <1>10, <1>11, <1>12, <1>13
     DEF WorkSteps

(* After a step the copy is ready for the steps that are left then.        *)
LEMMA Following ==
  ASSUME NEW s \in Seq(StepNames), s # <<>>, NEW c \in Copies, Ready(c, s),
         Head(s) \in WorkSteps, NEW d, NEW n, Leads(c, Head(s), d, n)
  PROVE  Ready(d, n \o Tail(s))
<1> DEFINE t == n \o Tail(s)
           x == Head(s)
<1>1. /\ MakesFirst(c, s) /\ GradesFirst(c, s) /\ Working(c, s) /\ (Scored(c) \/ Due(s))
      /\ Coherent(c)
  BY DEF Ready
<1>2. n \in Inserted /\ n \in Seq(StepNames) /\ Working(d, n) /\ d \in Copies /\ Coherent(d)
  BY InsertedTyped DEF Leads
<1>3. x \notin SaveSteps /\ In(x, s)
  <2>1. 1 \in DOMAIN s /\ s[1] = x
    BY Spliced, <1>2
  <2>2. QED BY <2>1 DEF In, WorkSteps, SaveSteps, EngineRun!Statuses
<1>4. \A y : In(y, t) => In(y, n) \/ In(y, s)
  BY <1>2, SplicedIn
<1>5. /\ \A y \in {"EXTRACT", "SUITE", "REVISE", "SWARM", "save"} : ~In(y, n)
      /\ In("GENERATE", n) => n = Generates
      /\ In("GRADE", n) => n = Evaluates
      /\ In("CAPTURE", n) => n = Starts
      /\ In("EVALUATE", n) => n = Regrades
  BY <1>2, InsertedSteps DEF Inserted
<1>6. Coherent(d) /\ Working(d, t)
  BY <1>1, <1>2, <1>3, SplicedWorking DEF SaveSteps
<1>7. Scored(d) \/ Due(t)
  <2>1. CASE n # <<>>
    <3>1. \E a \in EngineRun!Statuses \cup {"SCORE"} : In(a, n)
      BY <1>2, <2>1, InsertedSteps DEF Inserted, EngineRun!Statuses
    <3>2. QED BY <1>2, <1>5, <3>1, SplicedDue
  <2>2. CASE x # "SCORE" /\ ~Scored(c)
    BY <1>1, <1>2, <1>3, <1>5, <2>2, SplicedDue DEF SaveSteps
  <2>3. QED BY <2>1, <2>2 DEF Leads
<1>8. /\ Once({"EXTRACT"}, t) /\ (x = "EXTRACT" => ~In("EXTRACT", t))
      /\ Once({"REVISE"}, t) /\ (x = "REVISE" => ~In("REVISE", t))
  <2>1. Once({"EXTRACT"}, n) /\ Once({"REVISE"}, n)
    BY <1>5 DEF Once, In
  <2>2. QED BY <1>1, <1>2, <1>5, <2>1, SplicedOnce DEF MakesFirst
<1>9. /\ Once({"SUITE", "GENERATE"}, t)
      /\ x = "GENERATE" => ~In("GENERATE", t)
      /\ In("GENERATE", t) => d.suite = EngineRun!None
  <2>1. CASE n = Generates
    <3>1. x = "SUITE" /\ c.suite = EngineRun!None /\ d.suite = c.suite
      BY <2>1, InsertedApart DEF Leads
    <3>2. Once({"SUITE", "GENERATE"}, n)
      <4>1. DOMAIN n = {1, 2} /\ n[1] = "generating_scenarios" /\ n[2] = "GENERATE"
        BY <2>1 DEF Generates
      <4>2. QED BY <4>1 DEF Once
    <3>3. QED BY <1>1, <1>2, <3>1, <3>2, SplicedOnce DEF MakesFirst
  <2>2. CASE n # Generates
    <3>1. ~In("SUITE", n) /\ ~In("GENERATE", n)
      BY <1>5, <2>2
    <3>2. Once({"SUITE", "GENERATE"}, n)
      BY <3>1 DEF Once, In
    <3>3. /\ Once({"SUITE", "GENERATE"}, t)
          /\ x = "GENERATE" => ~In("GENERATE", t)
      BY <1>1, <1>2, <3>1, <3>2, SplicedOnce DEF MakesFirst
    <3>4. In("GENERATE", t) => In("GENERATE", s) /\ x # "GENERATE"
      BY <1>4, <3>1, <3>3
    <3>5. In("GENERATE", t) => d.suite = EngineRun!None
      BY <1>1, <3>4 DEF MakesFirst, Leads
    <3>6. QED BY <3>3, <3>5
  <2>3. QED BY <2>1, <2>2
<1>10. In("REVISE", t) => \A i \in DOMAIN t : t[i] \in SaveSteps \cup {"REVISE"}
  <2>1. SUFFICES ASSUME In("REVISE", t), NEW i \in DOMAIN t
                 PROVE  t[i] \in SaveSteps \cup {"REVISE"}
    OBVIOUS
  <2>2. In("REVISE", s)
    BY <1>4, <1>5, <2>1
  <2>3. \A y : In(y, s) => y \in SaveSteps \cup {"REVISE"}
    BY <1>1, <2>2 DEF MakesFirst, In
  <2>4. x = "REVISE"
    BY <1>3, <2>3
  <2>5. n = <<>>
    BY <2>4 DEF Leads
  <2>6. In(t[i], t)
    BY DEF In
  <2>7. In(t[i], s)
    BY <1>4, <2>5, <2>6, InsertedSteps
  <2>8. QED BY <2>3, <2>7
<1>11. x = "REVISE" => \A y : In(y, t) => y \in SaveSteps \cup {"REVISE"}
  <2>1. SUFFICES ASSUME x = "REVISE", NEW y, In(y, t) PROVE y \in SaveSteps \cup {"REVISE"}
    OBVIOUS
  <2>2. n = <<>>
    BY <2>1 DEF Leads
  <2>3. In(y, s)
    BY <1>4, <2>1, <2>2, InsertedSteps
  <2>4. QED BY <1>1, <1>3, <2>1, <2>3 DEF MakesFirst, In
<1>12. /\ ~("EXTRACT" \in SaveSteps \cup {"REVISE"}) /\ ~("CAPTURE" \in SaveSteps \cup {"REVISE"})
       /\ ~("GENERATE" \in SaveSteps \cup {"REVISE"}) /\ ~("SWARM" \in SaveSteps \cup {"REVISE"})
  BY DEF SaveSteps, EngineRun!Statuses
<1>13. In("EXTRACT", t) => /\ d.ir = 0 /\ d.suite = EngineRun!None
                           /\ d.eval = <<>> /\ d.swarm = <<>>
                           /\ ~In("SUITE", t) /\ Before({"EXTRACT"}, "GENERATE", t)
  <2>1. SUFFICES ASSUME In("EXTRACT", t)
                 PROVE  /\ d.ir = 0 /\ d.suite = EngineRun!None /\ d.eval = <<>> /\ d.swarm = <<>>
                        /\ ~In("SUITE", t) /\ Before({"EXTRACT"}, "GENERATE", t)
    OBVIOUS
  <2>2. In("EXTRACT", s) /\ x \notin {"EXTRACT", "REVISE"}
    BY <1>4, <1>5, <1>8, <1>11, <1>12, <2>1
  <2>3. c.ir = 0 /\ c.suite = EngineRun!None /\ c.eval = <<>> /\ c.swarm = <<>>
    BY <1>1, <2>2 DEF MakesFirst
  <2>4. x \notin {"GENERATE", "GRADE", "CAPTURE"}
    <3>1. x = "GRADE" => c.suite # EngineRun!None
      BY <1>1, <1>3 DEF GradesFirst
    <3>2. x = "CAPTURE" => c.eval # <<>>
      BY <1>1, <1>3 DEF GradesFirst
    <3>3. Before({"EXTRACT"}, "GENERATE", s)
      BY <1>1, <2>2 DEF MakesFirst
    <3>4. x # "GENERATE"
      <4>1. 1 \in DOMAIN s /\ s[1] = x /\ \A j \in DOMAIN s : ~(j < 1)
        BY <1>2, Spliced
      <4>2. QED BY <3>3, <4>1 DEF Before
    <3>5. QED BY <2>3, <3>1, <3>2, <3>4
  <2>5. ~In("SUITE", s) /\ x # "SUITE"
    BY <1>1, <1>3, <2>2 DEF MakesFirst
  <2>6. ~In("GENERATE", n) /\ ~In("SUITE", t)
    BY <1>4, <1>5, <2>5 DEF Leads
  <2>7. Before({"EXTRACT"}, "GENERATE", t)
    BY <1>1, <1>2, <2>2, <2>6, SplicedBefore DEF MakesFirst
  <2>8. QED BY <2>2, <2>3, <2>4, <2>6, <2>7 DEF Leads
<1>14. MakesFirst(d, t)
  BY <1>8, <1>9, <1>10, <1>13 DEF MakesFirst
<1>15. In("GRADE", t) => d.suite # EngineRun!None
  <2>1. In("GRADE", n) => d.suite # EngineRun!None
    BY <1>5 DEF Leads
  <2>2. In("GRADE", s) => c.suite # EngineRun!None
    BY <1>1 DEF GradesFirst
  <2>3. QED BY <1>4, <2>1, <2>2 DEF Leads
<1>16. In("CAPTURE", t) => d.ir <= 1 /\ d.eval # <<>>
  <2>1. In("CAPTURE", n) => d.ir <= 1 /\ d.eval # <<>>
    <3>1. In("CAPTURE", n) => x = "SWARM" /\ d.ir <= 1
      BY <1>5 DEF Leads
    <3>2. x = "SWARM" => c.eval # <<>> /\ d.eval = c.eval
      BY HeadSays DEF Leads
    <3>3. QED BY <3>1, <3>2
  <2>2. In("CAPTURE", s) => c.ir <= 1 /\ c.eval # <<>> /\ x # "EXTRACT"
    <3>1. x = "EXTRACT" => c.eval = <<>>
      BY HeadSays
    <3>2. QED BY <1>1, <3>1 DEF GradesFirst
  <2>3. In("CAPTURE", t) => x # "REVISE"
    BY <1>11, <1>12
  <2>4. QED BY <1>4, <2>1, <2>2, <2>3 DEF Leads
<1>17. d.eval = <<>> => Before({"EVALUATE", "GRADE"}, "SWARM", t)
  <2>1. SUFFICES ASSUME d.eval = <<>> PROVE Before({"EVALUATE", "GRADE"}, "SWARM", t)
    OBVIOUS
  <2>2. c.eval = <<>> /\ x # "GRADE"
    BY <2>1 DEF Leads
  <2>3. Before({"EVALUATE", "GRADE"}, "SWARM", s)
    BY <1>1, <2>2 DEF GradesFirst
  <2>4. CASE x # "EVALUATE"
    BY <1>2, <1>5, <2>2, <2>3, <2>4, SplicedBefore
  <2>5. CASE x = "EVALUATE" /\ c.suite # EngineRun!None
    <3>1. In("GRADE", n)
      BY <2>5, InsertedSteps DEF Leads
    <3>2. QED BY <1>2, <1>5, <3>1, SplicedBefore
  <2>6. CASE x = "EVALUATE" /\ c.suite = EngineRun!None
    <3>1. ~In("SWARM", t)
      BY <1>4, <1>5, <2>6, HeadSays
    <3>2. QED BY <3>1 DEF In, Before
  <2>7. QED BY <2>4, <2>5, <2>6
<1>18. d.suite = EngineRun!None /\ In("SWARM", t) => Before({"SUITE", "GENERATE"}, "EVALUATE", t)
  <2>1. SUFFICES ASSUME d.suite = EngineRun!None, In("SWARM", t)
                 PROVE  Before({"SUITE", "GENERATE"}, "EVALUATE", t)
    OBVIOUS
  <2>2. c.suite = EngineRun!None /\ x # "GENERATE" /\ In("SWARM", s)
    BY <1>4, <1>5, <2>1 DEF Leads
  <2>3. Before({"SUITE", "GENERATE"}, "EVALUATE", s)
    BY <1>1, <2>2 DEF GradesFirst
  <2>4. ~In("EVALUATE", n)
    BY <1>5, <2>1 DEF Leads
  <2>5. CASE x # "SUITE"
    BY <1>2, <2>2, <2>3, <2>4, <2>5, SplicedBefore
  <2>6. CASE x = "SUITE"
    <3>1. In("GENERATE", n)
      BY <2>2, <2>6, InsertedSteps DEF Leads
    <3>2. QED BY <1>2, <2>4, <3>1, SplicedBefore
  <2>7. QED BY <2>5, <2>6
<1>19. GradesFirst(d, t)
  BY <1>15, <1>16, <1>17, <1>18 DEF GradesFirst
<1>20. QED BY <1>6, <1>7, <1>14, <1>19 DEF Ready

-----------------------------------------------------------------------------
(* What the routes begin with.                                             *)

Created == <<"save", "ingesting", "INGEST", "extracting", "EXTRACT", "compiling",
             "generating_scenarios", "GENERATE", "PACK", "EVALUATE", "SCORE">>

(* The steps of a new run begin in this order, whatever is optional        *)
(* (create_run).                                                           *)
LEMMA CreatingSteps ==
  /\ EngineRun!CreateSteps \in Seq(StepNames)
  /\ LET t == EngineRun!CreateSteps
     IN /\ DOMAIN t = 1..Len(t) /\ Len(t) \in 12..14
        /\ \A i \in 1..11 : t[i] = Created[i]
        /\ \A i \in 12..Len(t) : t[i] \in {"SWARM", "LAUNCH", "SCORE", "save"}
<1> DEFINE mid == IF settings.swarm /\ settings.capture THEN <<"SWARM">>
                  ELSE IF settings.launch THEN <<"LAUNCH", "SCORE">> ELSE <<>>
           e == <<"save">>
           t == EngineRun!CreateSteps
<1>1. Created \in Seq(StepNames) /\ Len(Created) = 11
  BY DEF Created, StepNames, WorkSteps, SaveSteps, EngineRun!Statuses
<1>2. /\ mid \in Seq(StepNames) /\ e \in Seq(StepNames) /\ Len(e) = 1 /\ Len(mid) \in 0..2
      /\ \A i \in 1..Len(mid) : mid[i] \in {"SWARM", "LAUNCH", "SCORE"}
      /\ e[1] = "save"
  <2>1. {"SWARM", "LAUNCH", "SCORE", "save"} \subseteq StepNames
    BY DEF StepNames, WorkSteps, SaveSteps
  <2>2. e \in Seq(StepNames) /\ Len(e) = 1 /\ e[1] = "save"
    BY <2>1
  <2>3. mid \in {<<"SWARM">>, <<"LAUNCH", "SCORE">>, <<>>}
    OBVIOUS
  <2> HIDE DEF mid
  <2>4. CASE mid = <<"SWARM">>
    BY <2>1, <2>2, <2>4
  <2>5. CASE mid = <<"LAUNCH", "SCORE">>
    BY <2>1, <2>2, <2>5
  <2>6. CASE mid = <<>>
    BY <2>1, <2>2, <2>6
  <2>7. QED BY <2>3, <2>4, <2>5, <2>6
<1>3. t = (Created \o mid) \o e
  BY DEF EngineRun!CreateSteps, Created
<1> HIDE DEF mid, e, t
<1>4. /\ Created \o mid \in Seq(StepNames) /\ Len(Created \o mid) = 11 + Len(mid)
      /\ \A i \in 1..(11 + Len(mid)) :
           (Created \o mid)[i] = IF i <= 11 THEN Created[i] ELSE mid[i - 11]
  <2>1. /\ Created \o mid \in Seq(StepNames) /\ Len(Created \o mid) = Len(Created) + Len(mid)
        /\ \A i \in 1..(Len(Created) + Len(mid)) :
             (Created \o mid)[i] = IF i <= Len(Created) THEN Created[i] ELSE mid[i - Len(Created)]
    BY <1>1, <1>2, ConcatProperties
  <2>2. QED BY <1>1, <2>1
<1>5. /\ t \in Seq(StepNames) /\ Len(t) = 12 + Len(mid)
      /\ \A i \in 1..(12 + Len(mid)) :
           t[i] = IF i <= 11 + Len(mid) THEN (Created \o mid)[i] ELSE e[i - (11 + Len(mid))]
  <2> DEFINE b == Created \o mid
  <2>1. b \in Seq(StepNames) /\ Len(b) = 11 + Len(mid) /\ Len(e) = 1 /\ t = b \o e
    BY <1>2, <1>3, <1>4
  <2> HIDE DEF b
  <2>2. /\ b \o e \in Seq(StepNames) /\ Len(b \o e) = Len(b) + Len(e)
        /\ \A i \in 1..(Len(b) + Len(e)) :
             (b \o e)[i] = IF i <= Len(b) THEN b[i] ELSE e[i - Len(b)]
    <3>1. b \in Seq(StepNames) /\ e \in Seq(StepNames)
      BY <1>2, <2>1
    <3>2. QED BY <3>1, ConcatProperties
  <2>3. Len(b) + Len(e) = 12 + Len(mid)
    BY <1>2, <2>1
  <2>4. QED BY <2>1, <2>2, <2>3 DEF b
<1>6. DOMAIN t = 1..Len(t) /\ Len(t) \in 12..14
  BY <1>2, <1>5
<1>7. \A i \in 1..11 : t[i] = Created[i]
  BY <1>2, <1>4, <1>5
<1>8. ASSUME NEW i \in 12..Len(t) PROVE t[i] \in {"SWARM", "LAUNCH", "SCORE", "save"}
  <2>1. CASE i <= 11 + Len(mid)
    <3>1. t[i] = mid[i - 11] /\ i - 11 \in 1..Len(mid)
      BY <1>2, <1>4, <1>5, <2>1
    <3>2. QED BY <1>2, <3>1
  <2>2. CASE ~(i <= 11 + Len(mid))
    <3>1. i = 12 + Len(mid)
      BY <1>2, <1>5, <2>2
    <3>2. t[i] = e[1]
      BY <1>2, <1>5, <3>1
    <3>3. QED BY <1>2, <3>2
  <2>3. QED BY <2>1, <2>2
<1>9. QED BY <1>5, <1>6, <1>7, <1>8 DEF t

(* A new record holds no evidence.                                         *)
LEMMA NewIsTyped ==
  EngineRun!NewRecord \in Copies /\ Coherent(EngineRun!NewRecord) /\ Scored(EngineRun!NewRecord)
<1>1. EngineRun!NewRecord \in Copies
  BY DEF EngineRun!NewRecord, Copies, SuiteNames, Evidence, Scores
<1>2. QED BY <1>1 DEF EngineRun!NewRecord, Coherent, Scored

(* A new record is ready for the steps of create_run,                      *)
LEMMA CreateIsReady == Ready(EngineRun!NewRecord, EngineRun!CreateSteps)
<1> DEFINE t == EngineRun!CreateSteps
<1>1. /\ DOMAIN t = 1..Len(t) /\ Len(t) \in 12..14
      /\ \A i \in 1..11 : t[i] = Created[i]
      /\ \A i \in 12..Len(t) : t[i] \in {"SWARM", "LAUNCH", "SCORE", "save"}
  BY CreatingSteps
<1> HIDE DEF t
<1>2. /\ t[1] = "save" /\ t[2] = "ingesting" /\ t[3] = "INGEST" /\ t[4] = "extracting"
      /\ t[5] = "EXTRACT" /\ t[6] = "compiling" /\ t[7] = "generating_scenarios"
      /\ t[8] = "GENERATE" /\ t[9] = "PACK" /\ t[10] = "EVALUATE" /\ t[11] = "SCORE"
  BY <1>1 DEF Created
<1>3. \A i \in DOMAIN t : i \in 1..11 \/ i \in 12..Len(t)
  BY <1>1
<1>4. /\ \A i \in DOMAIN t : t[i] = "EXTRACT" => i = 5
      /\ \A i \in DOMAIN t : t[i] \in {"SUITE", "GENERATE"} => i = 8
      /\ ~In("REVISE", t) /\ ~In("SUITE", t) /\ ~In("GRADE", t) /\ ~In("CAPTURE", t)
      /\ \A i \in DOMAIN t : t[i] = "SWARM" => i > 11
      /\ \A i \in DOMAIN t : t[i] = "EVALUATE" => i = 10
      /\ 5 \in DOMAIN t /\ 8 \in DOMAIN t /\ 10 \in DOMAIN t
  <2>1. ASSUME NEW i \in 1..11
        PROVE  /\ t[i] = "EXTRACT" => i = 5
               /\ t[i] \in {"SUITE", "GENERATE"} => i = 8
               /\ t[i] = "EVALUATE" => i = 10
               /\ t[i] \notin {"REVISE", "SUITE", "GRADE", "CAPTURE", "SWARM"}
    <3>1. i \in {1, 2, 3, 4, 5, 6, 7, 8, 9, 10, 11}
      OBVIOUS
    <3>2. QED BY <1>2, <3>1
  <2>2. ASSUME NEW i \in 12..Len(t)
        PROVE  i > 11 /\ t[i] \notin {"EXTRACT", "SUITE", "GENERATE", "EVALUATE", "REVISE",
                                      "GRADE", "CAPTURE"}
    BY <1>1
  <2>3. 5 \in DOMAIN t /\ 8 \in DOMAIN t /\ 10 \in DOMAIN t
    BY <1>1
  <2>4. /\ \A i \in DOMAIN t : t[i] = "EXTRACT" => i = 5
        /\ \A i \in DOMAIN t : t[i] \in {"SUITE", "GENERATE"} => i = 8
        /\ \A i \in DOMAIN t : t[i] = "SWARM" => i > 11
        /\ \A i \in DOMAIN t : t[i] = "EVALUATE" => i = 10
    BY <1>3, <2>1, <2>2
  <2>5. \A i \in DOMAIN t : t[i] \notin {"REVISE", "SUITE", "GRADE", "CAPTURE"}
    BY <1>3, <2>1, <2>2
  <2>6. QED BY <2>3, <2>4, <2>5 DEF In
<1>5. MakesFirst(EngineRun!NewRecord, t)
  <2>1. Once({"EXTRACT"}, t) /\ Once({"SUITE", "GENERATE"}, t) /\ Once({"REVISE"}, t)
    BY <1>4 DEF Once, In
  <2>2. Before({"EXTRACT"}, "GENERATE", t)
    BY <1>2, <1>4 DEF Before
  <2>3. QED BY <1>4, <2>1, <2>2 DEF MakesFirst, EngineRun!NewRecord, EngineRun!None
<1>6. Working(EngineRun!NewRecord, t)
  BY <1>4 DEF Working, In
<1>7. GradesFirst(EngineRun!NewRecord, t)
  <2>1. Before({"EVALUATE", "GRADE"}, "SWARM", t)
    BY <1>1, <1>2, <1>4 DEF Before
  <2>2. Before({"SUITE", "GENERATE"}, "EVALUATE", t)
    BY <1>2, <1>4 DEF Before
  <2>3. QED BY <1>4, <2>1, <2>2 DEF GradesFirst
<1>8. QED BY <1>5, <1>6, <1>7, NewIsTyped DEF Ready, t

(* a record on disk for those of a rehearsal, with or without a swarm,     *)
LEMMA RehearseIsReady ==
  ASSUME NEW c \in Copies, Coherent(c), Scored(c), NEW swarm \in BOOLEAN
  PROVE  EngineRun!RehearseSteps(swarm) \in Seq(StepNames) /\ Ready(c, EngineRun!RehearseSteps(swarm))
<1> DEFINE t == EngineRun!RehearseSteps(swarm)
<1>1. /\ DOMAIN t = {1, 2, 3, 4, 5, 6}
      /\ t[1] = "rehearsing" /\ t[2] = "SUITE" /\ t[3] = "PACK" /\ t[4] = "EVALUATE"
      /\ t[5] \in {"SCORE", "SWARM", "UNSWARMED"} /\ t[6] = "save"
  BY DEF EngineRun!RehearseSteps
<1>2. t \in Seq(StepNames)
  BY DEF EngineRun!RehearseSteps, StepNames, WorkSteps, SaveSteps, EngineRun!Statuses
<1> HIDE DEF t
<1>3. /\ ~In("EXTRACT", t) /\ ~In("GENERATE", t) /\ ~In("REVISE", t)
      /\ ~In("GRADE", t) /\ ~In("CAPTURE", t)
      /\ \A i \in DOMAIN t : t[i] = "SUITE" => i = 2
      /\ \A i \in DOMAIN t : t[i] = "EVALUATE" => i = 4
      /\ \A i \in DOMAIN t : t[i] = "SWARM" => i = 5
  BY <1>1 DEF In
<1>4. MakesFirst(c, t)
  BY <1>3 DEF MakesFirst, Once, In
<1>5. Working(c, t)
  BY <1>3 DEF Working, In
<1>6. GradesFirst(c, t)
  <2>1. Before({"EVALUATE", "GRADE"}, "SWARM", t)
    BY <1>1, <1>3 DEF Before
  <2>2. Before({"SUITE", "GENERATE"}, "EVALUATE", t)
    BY <1>1, <1>3 DEF Before
  <2>3. QED BY <1>3, <2>1, <2>2 DEF GradesFirst
<1>7. QED BY <1>2, <1>4, <1>5, <1>6 DEF Ready, t

(* Steps of which only what makes the score matters.                       *)
LEMMA PlainIsReady ==
  ASSUME NEW c \in Copies, Coherent(c), NEW t \in Seq(StepNames), Scored(c) \/ Due(t),
         \A i \in DOMAIN t : t[i] \in SaveSteps \cup {"PACK", "LAUNCH", "EVALUATE", "SCORE"}
  PROVE  Ready(c, t)
<1>1. \A x \in {"EXTRACT", "SUITE", "GENERATE", "REVISE", "GRADE", "CAPTURE", "SWARM"} : ~In(x, t)
  BY DEF In, SaveSteps, EngineRun!Statuses
<1>2. MakesFirst(c, t)
  BY <1>1 DEF MakesFirst, Once, In
<1>3. GradesFirst(c, t)
  BY <1>1 DEF GradesFirst, Before, In
<1>4. Working(c, t)
  BY <1>1 DEF Working, In
<1>5. QED BY <1>2, <1>3, <1>4 DEF Ready

(* one with a suite attached for those that evaluate it,                   *)
LEMMA AttachIsReady ==
  ASSUME NEW c \in Copies, Coherent(c), NEW s \in Suites
  PROVE  LET w == EngineRun!WithSuite(c, s)
         IN /\ w \in Copies /\ EngineRun!AttachSteps \in Seq(StepNames)
            /\ Ready(w, EngineRun!AttachSteps)
<1> DEFINE a == EngineRun!Archived(c)
           w == EngineRun!WithSuite(c, s)
           t == EngineRun!AttachSteps
<1>1. w = [a EXCEPT !.suite = s, !.eval = <<>>, !.eff = <<>>]
  BY DEF EngineRun!WithSuite
<1>2. a \in Copies /\ a.ir = c.ir /\ a.swarm = <<>> /\ a.launch = c.launch
  BY Archiving
<1> HIDE DEF a, w
<1>3. s \in SuiteNames /\ <<>> \in Evidence /\ <<>> \in Scores
  BY DEF SuiteNames, Evidence, Scores
<1>4. /\ w \in Copies /\ w.ir = c.ir /\ w.swarm = <<>> /\ w.launch = c.launch
      /\ w.eval = <<>>
  BY <1>1, <1>2, <1>3 DEF Copies
<1>5. Coherent(w)
  BY <1>4 DEF Coherent
<1>6. /\ DOMAIN t = {1, 2, 3, 4} /\ t[1] \in {"PACK", "LAUNCH"} /\ t[2] = "EVALUATE"
      /\ t[3] = "SCORE" /\ t[4] = "save"
  BY DEF EngineRun!AttachSteps
<1>7. t \in Seq(StepNames)
  BY DEF EngineRun!AttachSteps, StepNames, WorkSteps, SaveSteps
<1> HIDE DEF t
<1>8. Due(t)
  <2>1. \A j \in DOMAIN t : j < 3 => t[j] # "save"
    BY <1>6
  <2>2. QED BY <1>6, <2>1 DEF Due
<1>9. \A i \in DOMAIN t : t[i] \in SaveSteps \cup {"PACK", "LAUNCH", "EVALUATE", "SCORE"}
  BY <1>6 DEF SaveSteps
<1>10. QED BY <1>4, <1>5, <1>7, <1>8, <1>9, PlainIsReady DEF w, t

(* a record on disk for a packet and for a launch,                         *)
LEMMA PackIsReady ==
  ASSUME NEW c \in Copies, Coherent(c), Scored(c), NEW s \in {"PACK", "LAUNCH"}
  PROVE  <<s, "save">> \in Seq(StepNames) /\ Ready(c, <<s, "save">>)
<1> DEFINE t == <<s, "save">>
<1>1. t \in Seq(StepNames)
  BY DEF StepNames, WorkSteps, SaveSteps
<1>2. \A i \in DOMAIN t : t[i] \in SaveSteps \cup {"PACK", "LAUNCH", "EVALUATE", "SCORE"}
  BY DEF SaveSteps
<1> HIDE DEF t
<1>3. QED BY <1>1, <1>2, PlainIsReady DEF t

(* for the save of a failure,                                              *)
LEMMA FailIsReady ==
  ASSUME NEW c \in Copies, Coherent(c), Scored(c)
  PROVE  <<"save">> \in Seq(StepNames) /\ Ready(c, <<"save">>)
<1> DEFINE t == <<"save">>
<1>1. t \in Seq(StepNames)
  BY DEF StepNames, SaveSteps
<1>2. \A i \in DOMAIN t : t[i] \in SaveSteps \cup {"PACK", "LAUNCH", "EVALUATE", "SCORE"}
  BY DEF SaveSteps
<1> HIDE DEF t
<1>3. QED BY <1>1, <1>2, PlainIsReady DEF t

(* and for a revision.                                                     *)
LEMMA ReviseIsReady ==
  ASSUME NEW c \in Copies, Coherent(c), Scored(c)
  PROVE  /\ <<"extracting", "REVISE", "save">> \in Seq(StepNames)
         /\ Ready(c, <<"extracting", "REVISE", "save">>)
<1> DEFINE t == <<"extracting", "REVISE", "save">>
<1>1. t \in Seq(StepNames)
  BY DEF StepNames, WorkSteps, SaveSteps, EngineRun!Statuses
<1>2. DOMAIN t = {1, 2, 3} /\ t[1] = "extracting" /\ t[2] = "REVISE" /\ t[3] = "save"
  OBVIOUS
<1> HIDE DEF t
<1>3. \A i \in DOMAIN t : t[i] \in SaveSteps \cup {"REVISE"}
  BY <1>2 DEF SaveSteps, EngineRun!Statuses
<1>4. \A x \in {"EXTRACT", "SUITE", "GENERATE", "GRADE", "CAPTURE", "SWARM", "EVALUATE"} : ~In(x, t)
  BY <1>2 DEF In
<1>5. MakesFirst(c, t)
  <2>1. Once({"REVISE"}, t)
    BY <1>2 DEF Once
  <2>2. QED BY <1>3, <1>4, <2>1 DEF MakesFirst, Once, In
<1>6. GradesFirst(c, t)
  BY <1>4 DEF GradesFirst, Before, In
<1>7. Working(c, t)
  BY <1>4 DEF Working, In
<1>8. QED BY <1>1, <1>5, <1>6, <1>7 DEF Ready, t

(* A save: the copy has its score by then, and what is left stays so.      *)
LEMMA OpenIsReady ==
  ASSUME NEW s \in Seq(StepNames), s # <<>>, NEW c \in Copies, Ready(c, s), Head(s) \in SaveSteps,
         NEW d, d = [c EXCEPT !.status = IF Head(s) = "save" THEN c.status ELSE Head(s)]
  PROVE  d \in Copies /\ Ready(d, s) /\ (Head(s) \in EngineRun!Statuses => d.status = Head(s))
<1>1. /\ d \in Copies /\ d.ir = c.ir /\ d.suite = c.suite /\ d.eval = c.eval /\ d.eff = c.eff
      /\ d.swarm = c.swarm /\ d.launch = c.launch
      /\ d.status = IF Head(s) = "save" THEN c.status ELSE Head(s)
  BY DEF Copies, SaveSteps
<1>2. 1 \in DOMAIN s /\ s[1] = Head(s) /\ \A j \in DOMAIN s : ~(j < 1)
  BY Spliced
<1>3. /\ Coherent(c) /\ MakesFirst(c, s) /\ GradesFirst(c, s) /\ Working(c, s)
      /\ Scored(c) \/ Due(s)
  BY DEF Ready
<1>4. Coherent(d) /\ MakesFirst(d, s) /\ GradesFirst(d, s)
  BY <1>1, <1>3 DEF Coherent, MakesFirst, GradesFirst
<1>5. Working(d, s)
  BY <1>2, <1>3 DEF Working, SaveSteps, EngineRun!Statuses
<1>6. Scored(d) \/ Due(s)
  <2>1. CASE Head(s) = "save"
    BY <1>1, <1>3, <2>1 DEF Scored
  <2>2. CASE Head(s) \in EngineRun!Statuses
    BY <1>2, <2>2 DEF Due
  <2>3. QED BY <2>1, <2>2 DEF SaveSteps
<1>7. Head(s) \in EngineRun!Statuses => d.status = Head(s)
  BY <1>1 DEF EngineRun!Statuses
<1>8. QED BY <1>1, <1>4, <1>5, <1>6, <1>7 DEF Ready

(* Once a copy is saved it is ready for what is left after the save.       *)
LEMMA SaveIsReady ==
  ASSUME NEW s \in Seq(StepNames), s # <<>>, NEW c \in Copies, Ready(c, s), Head(s) \in SaveSteps,
         Head(s) \in EngineRun!Statuses => c.status = Head(s)
  PROVE  Scored(c) /\ Coherent(c) /\ Tail(s) \in Seq(StepNames) /\ Ready(c, Tail(s))
<1> DEFINE n == <<>>
           t == n \o Tail(s)
<1>0. n \in Seq(StepNames) /\ \A x : ~In(x, n)
  BY DEF In
<1>1. t = Tail(s) /\ Tail(s) \in Seq(StepNames)
  <2>1. Tail(s) \in Seq(StepNames)
    OBVIOUS
  <2>2. QED BY <2>1, ConcatEmptySeq
<1>2. /\ Len(s) \in Nat /\ Len(s) >= 1 /\ Head(s) = s[1] /\ DOMAIN s = 1..Len(s)
  BY Spliced
<1>3. /\ Coherent(c) /\ MakesFirst(c, s) /\ GradesFirst(c, s) /\ Working(c, s)
      /\ Scored(c) \/ Due(s)
  BY DEF Ready
<1> HIDE DEF n
<1>4. Scored(c)
  <2>1. CASE Head(s) \in EngineRun!Statuses
    BY <2>1 DEF Scored, EngineRun!Statuses
  <2>2. CASE Head(s) = "save"
    <3>1. ~Due(s)
      <4>1. SUFFICES ASSUME NEW i \in DOMAIN s, s[i] \in EngineRun!Statuses \cup {"SCORE"},
                            \A j \in DOMAIN s : j < i => s[j] # "save"
                     PROVE  FALSE
        BY DEF Due
      <4>2. i # 1
        BY <1>2, <2>2, <4>1 DEF EngineRun!Statuses
      <4>3. 1 \in DOMAIN s /\ 1 < i
        BY <1>2, <4>2
      <4>4. QED BY <1>2, <2>2, <4>1, <4>3
    <3>2. QED BY <1>3, <3>1
  <2>3. QED BY <2>1, <2>2 DEF SaveSteps
<1>5. MakesFirst(c, t)
  <2>1. \A x : In(x, t) => In(x, s)
    BY <1>0, SplicedIn
  <2>2. Once({"EXTRACT"}, t) /\ Once({"SUITE", "GENERATE"}, t) /\ Once({"REVISE"}, t)
    <3>1. \A A : Once(A, n)
      BY <1>0 DEF Once, In
    <3>2. QED BY <1>0, <1>3, <3>1, SplicedOnce DEF MakesFirst
  <2>3. In("REVISE", t) => \A i \in DOMAIN t : t[i] \in SaveSteps \cup {"REVISE"}
    <3>1. SUFFICES ASSUME In("REVISE", t), NEW i \in DOMAIN t
                   PROVE  t[i] \in SaveSteps \cup {"REVISE"}
      OBVIOUS
    <3>2. In("REVISE", s) /\ In(t[i], t) /\ In(t[i], s)
      BY <2>1, <3>1 DEF In
    <3>3. QED BY <1>3, <3>2 DEF MakesFirst, In
  <2>4. Before({"EXTRACT"}, "GENERATE", s) => Before({"EXTRACT"}, "GENERATE", t)
    <3>1. Head(s) \notin {"EXTRACT"}
      BY DEF SaveSteps, EngineRun!Statuses
    <3>2. QED BY <1>0, <3>1, SplicedBefore
  <2>5. QED BY <1>3, <2>1, <2>2, <2>3, <2>4 DEF MakesFirst
<1>6. GradesFirst(c, t)
  <2>1. \A x : In(x, t) => In(x, s)
    BY <1>0, SplicedIn
  <2>2. Head(s) \notin {"EVALUATE", "GRADE"} /\ Head(s) \notin {"SUITE", "GENERATE"}
    BY DEF SaveSteps, EngineRun!Statuses
  <2>3. /\ Before({"EVALUATE", "GRADE"}, "SWARM", s) => Before({"EVALUATE", "GRADE"}, "SWARM", t)
        /\ Before({"SUITE", "GENERATE"}, "EVALUATE", s) =>
             Before({"SUITE", "GENERATE"}, "EVALUATE", t)
    BY <1>0, <2>2, SplicedBefore
  <2>4. QED BY <1>3, <2>1, <2>3 DEF GradesFirst
<1> HIDE DEF t
<1>7. Working(c, t)
  <2>1. /\ \A i \in DOMAIN t : i \in Nat /\ i >= 1 /\ i + 1 \in DOMAIN s /\ t[i] = s[i + 1]
        /\ DOMAIN t = 1..(Len(s) - 1)
    <3>1. /\ Len(Tail(s)) = Len(s) - 1 /\ DOMAIN Tail(s) = 1..(Len(s) - 1)
          /\ \A i \in 1..(Len(s) - 1) : Tail(s)[i] = s[i + 1]
      BY <1>2
    <3>2. \A i \in 1..(Len(s) - 1) : i \in Nat /\ i >= 1 /\ i + 1 \in 1..Len(s)
      BY <1>2
    <3>3. QED BY <1>1, <1>2, <3>1, <3>2
  <2>2. SUFFICES ASSUME NEW i \in DOMAIN t, t[i] \in {"GRADE", "CAPTURE"}
                 PROVE  IF i = 1 THEN c.status # "completed" ELSE t[i - 1] \in EngineRun!Statuses
    BY DEF Working
  <2>3. i + 1 \in DOMAIN s /\ s[i + 1] \in {"GRADE", "CAPTURE"} /\ i + 1 # 1 /\ i + 1 - 1 = i
    BY <2>1, <2>2
  <2>4. s[i] \in EngineRun!Statuses
    BY <1>3, <2>3 DEF Working
  <2>5. CASE i = 1
    BY <1>2, <2>4, <2>5 DEF EngineRun!Statuses
  <2>6. CASE i # 1
    <3>1. i - 1 \in DOMAIN t /\ t[i - 1] = s[i]
      <4>1. i \in Nat /\ i > 1 /\ i <= Len(s) - 1
        BY <1>2, <2>1, <2>6
      <4>2. i - 1 \in DOMAIN t /\ i - 1 + 1 = i
        BY <1>2, <2>1, <4>1
      <4>3. QED BY <2>1, <4>2
    <3>2. QED BY <2>4, <2>6, <3>1
  <2>7. QED BY <2>5, <2>6
<1>8. QED BY <1>1, <1>3, <1>4, <1>5, <1>6, <1>7 DEF Ready

-----------------------------------------------------------------------------
(* Every step of the engine's runs keeps the invariant.                    *)

(* Before the first request there is no record, or one of an earlier       *)
(* process.                                                                *)
LEMMA RunsInit == EngineRun!Init => RunsInvariant
<1> SUFFICES ASSUME EngineRun!Init PROVE RunsInvariant
  OBVIOUS
<1>1. EngineRun!NewRecord \in Copies
  BY NewIsTyped
<1>2. RunsTyped
  BY <1>1 DEF EngineRun!Init, RunsTyped
<1>3. DiskIsSound
  BY DEF EngineRun!Init, DiskIsSound, EngineRun!Absent
<1>4. \A r \in Requests : Handled(r) /\ Writes(r)
  BY DEF EngineRun!Init, Handled, Writes
<1>5. QED BY <1>2, <1>3, <1>4 DEF RunsInvariant

(* What a request is told as it is taken, or as it works.                  *)
LEMMA Taken ==
  ASSUME RunsInvariant, NEW r \in Requests, NEW c \in Copies, NEW t \in Seq(StepNames),
         t # <<>> => Ready(c, t), writing[r] = "no",
         rec' = [rec EXCEPT ![r] = c], todo' = [todo EXCEPT ![r] = t],
         UNCHANGED <<disk, saved, writing>>, begun' \in Nat
  PROVE  RunsInvariant'
<1>1. /\ writing \in [Requests -> {"no", "open", "mixed"}] /\ rec \in [Requests -> Copies]
      /\ todo \in [Requests -> Seq(StepNames)]
      /\ disk \in Copies \cup {EngineRun!Absent, EngineRun!Torn}
      /\ saved \in Copies \cup {EngineRun!Absent}
      /\ DiskIsSound /\ \A q \in Requests : Handled(q) /\ Writes(q)
  BY DEF RunsInvariant, RunsTyped
<1>2. RunsTyped'
  BY <1>1 DEF RunsTyped
<1>3. DiskIsSound'
  BY <1>1 DEF DiskIsSound
<1>4. ASSUME NEW q \in Requests PROVE Handled(q)' /\ Writes(q)'
  <2>1. CASE q = r
    <3>1. rec'[q] = c /\ todo'[q] = t /\ writing'[q] = "no"
      BY <1>1, <2>1
    <3>2. QED BY <3>1 DEF Handled, Writes
  <2>2. CASE q # r
    <3>1. rec'[q] = rec[q] /\ todo'[q] = todo[q] /\ writing'[q] = writing[q]
      BY <1>1, <2>2
    <3>2. QED BY <1>1, <3>1 DEF Handled, Writes
  <2>3. QED BY <2>1, <2>2
<1>5. QED BY <1>2, <1>3, <1>4 DEF RunsInvariant

(* A request is taken on the record as it is on disk (routes.py).          *)
LEMMA BeginKeeps ==
  ASSUME RunsInvariant, NEW r \in Requests, EngineRun!Begin(r)
  PROVE  RunsInvariant'
<1>1. /\ todo[r] = <<>> /\ begun \in Nat /\ Writes(r) /\ DiskIsSound
      /\ writing \in [Requests -> {"no", "open", "mixed"}]
      /\ disk \in Copies \cup {EngineRun!Absent, EngineRun!Torn}
  BY DEF EngineRun!Begin, RunsInvariant, RunsTyped
<1>2. writing[r] = "no" /\ begun' \in Nat /\ UNCHANGED <<disk, saved, writing>>
  BY <1>1 DEF EngineRun!Begin, Writes
<1>3. ASSUME NEW c \in Copies, NEW t \in Seq(StepNames), Ready(c, t), NEW g,
             EngineRun!Takes(r, c, t, g)
      PROVE  RunsInvariant'
  BY <1>2, <1>3, Taken DEF EngineRun!Takes
<1>4. CASE disk = EngineRun!Absent /\
           EngineRun!Takes(r, EngineRun!NewRecord, EngineRun!CreateSteps, "create")
  BY <1>3, <1>4, NewIsTyped, CreatingSteps, CreateIsReady
<1>5. CASE EngineRun!Readable(disk)
  <2>1. disk \in Copies /\ Coherent(disk) /\ Scored(disk)
    BY <1>1, <1>5 DEF EngineRun!Readable, EngineRun!Absent, EngineRun!Torn, DiskIsSound
  <2>2. ASSUME NEW swarm \in BOOLEAN, EngineRun!Takes(r, disk, EngineRun!RehearseSteps(swarm), "no")
        PROVE  RunsInvariant'
    BY <1>3, <2>1, <2>2, RehearseIsReady
  <2>3. ASSUME NEW s \in Suites,
               EngineRun!Takes(r, EngineRun!WithSuite(disk, s), EngineRun!AttachSteps, "no")
        PROVE  RunsInvariant'
    BY <1>3, <2>1, <2>3, AttachIsReady
  <2>4. ASSUME NEW s \in {"PACK", "LAUNCH"}, EngineRun!Takes(r, disk, <<s, "save">>, "no")
        PROVE  RunsInvariant'
    BY <1>3, <2>1, <2>4, PackIsReady
  <2>5. CASE EngineRun!Takes(r, disk, <<"extracting", "REVISE", "save">>, "revise")
    BY <1>3, <2>1, <2>5, ReviseIsReady
  <2>6. CASE disk = EngineRun!Absent /\
             EngineRun!Takes(r, EngineRun!NewRecord, EngineRun!CreateSteps, "create")
    BY <1>4, <2>6
  <2>7. QED BY <2>2, <2>3, <2>4, <2>5, <2>6 DEF EngineRun!Begin
<1>6. QED BY <1>4, <1>5 DEF EngineRun!Begin

(* Opening a file for a save truncates it (store.py).                      *)
LEMMA OpenKeeps ==
  ASSUME RunsInvariant, NEW r \in Requests, EngineRun!OpenFile(r)
  PROVE  RunsInvariant'
<1>1. /\ writing \in [Requests -> {"no", "open", "mixed"}] /\ rec \in [Requests -> Copies]
      /\ todo \in [Requests -> Seq(StepNames)]
      /\ saved \in Copies \cup {EngineRun!Absent} /\ begun \in Nat
      /\ DiskIsSound /\ \A q \in Requests : Handled(q) /\ Writes(q)
  BY DEF RunsInvariant, RunsTyped
<1> DEFINE s == todo[r]
           d == [rec[r] EXCEPT !.status = IF Head(s) = "save" THEN rec[r].status ELSE Head(s)]
<1>2. /\ s \in Seq(StepNames) /\ s # <<>> /\ Head(s) \in SaveSteps
      /\ writing' = [writing EXCEPT ![r] = "open"] /\ disk' = EngineRun!Torn
      /\ UNCHANGED <<saved, todo, begun>>
  BY <1>1 DEF EngineRun!OpenFile, EngineRun!Step, SaveSteps, EngineRun!Statuses
<1>3. rec' = [rec EXCEPT ![r] = d]
  BY <1>1, <1>2 DEF EngineRun!OpenFile, EngineRun!Step
<1>4. rec[r] \in Copies /\ Ready(rec[r], s)
  BY <1>1, <1>2 DEF Handled
<1>5. d \in Copies /\ Ready(d, s) /\ (Head(s) \in EngineRun!Statuses => d.status = Head(s))
  <2>1. d = [rec[r] EXCEPT !.status = IF Head(s) = "save" THEN rec[r].status ELSE Head(s)]
    OBVIOUS
  <2>2. s \in Seq(StepNames) /\ s # <<>> /\ Head(s) \in SaveSteps
    BY <1>2
  <2>3. rec[r] \in Copies /\ Ready(rec[r], s)
    BY <1>4
  <2> HIDE DEF d, s
  <2>4. QED BY <2>1, <2>2, <2>3, OpenIsReady
<1> HIDE DEF d
<1>6. RunsTyped'
  BY <1>1, <1>2, <1>3, <1>5 DEF RunsTyped
<1>7. DiskIsSound'
  BY <1>2 DEF DiskIsSound, EngineRun!Torn
<1>8. ASSUME NEW q \in Requests PROVE Handled(q)' /\ Writes(q)'
  <2>1. CASE q = r
    <3>1. rec'[q] = d /\ todo'[q] = s
      BY <1>1, <1>2, <1>3, <2>1
    <3>2. QED BY <1>2, <1>5, <3>1 DEF Handled, Writes
  <2>2. CASE q # r
    <3>1. rec'[q] = rec[q] /\ todo'[q] = todo[q] /\ writing'[q] = writing[q]
      BY <1>1, <1>2, <1>3, <2>2
    <3>2. QED BY <1>1, <3>1 DEF Handled, Writes
  <2>3. QED BY <2>1, <2>2
<1>9. QED BY <1>6, <1>7, <1>8 DEF RunsInvariant

(* A save writes a copy that has its score.                                *)
LEMMA WriteKeeps ==
  ASSUME RunsInvariant, NEW r \in Requests, EngineRun!WriteFile(r)
  PROVE  RunsInvariant' /\ Scored(rec[r]) /\ Coherent(rec[r]) /\ saved' = rec[r]
<1>1. /\ writing \in [Requests -> {"no", "open", "mixed"}] /\ rec \in [Requests -> Copies]
      /\ todo \in [Requests -> Seq(StepNames)] /\ begun \in Nat
      /\ \A q \in Requests : Handled(q) /\ Writes(q)
  BY DEF RunsInvariant, RunsTyped
<1> DEFINE s == todo[r]
<1>2. /\ writing[r] # "no" /\ disk' \in {rec[r], EngineRun!Torn} /\ saved' = rec[r]
      /\ writing' = [q \in Requests |-> IF q = r THEN "no"
                                        ELSE IF writing[q] = "open" THEN "mixed"
                                        ELSE writing[q]]
      /\ todo' = [todo EXCEPT ![r] = Tail(s)] /\ UNCHANGED <<rec, begun>>
  BY DEF EngineRun!WriteFile
<1>3. /\ s # <<>> /\ Head(s) \in SaveSteps
      /\ Head(s) \in EngineRun!Statuses => rec[r].status = Head(s)
  BY <1>1, <1>2 DEF Writes
<1>4. rec[r] \in Copies /\ s \in Seq(StepNames) /\ Ready(rec[r], s)
  BY <1>1, <1>3 DEF Handled
<1>5. /\ Scored(rec[r]) /\ Coherent(rec[r]) /\ Tail(s) \in Seq(StepNames)
      /\ Ready(rec[r], Tail(s))
  BY <1>3, <1>4, SaveIsReady
<1>6. RunsTyped'
  <2>1. writing' \in [Requests -> {"no", "open", "mixed"}]
    BY <1>1, <1>2
  <2>2. QED BY <1>1, <1>2, <1>4, <1>5, <2>1 DEF RunsTyped
<1>7. DiskIsSound'
  BY <1>2, <1>5 DEF DiskIsSound, EngineRun!Torn
<1>8. ASSUME NEW q \in Requests PROVE Handled(q)' /\ Writes(q)'
  <2>1. CASE q = r
    <3>1. rec'[q] = rec[q] /\ todo'[q] = Tail(s) /\ writing'[q] = "no"
      BY <1>1, <1>2, <2>1
    <3>2. QED BY <1>5, <2>1, <3>1 DEF Handled, Writes
  <2>2. CASE q # r
    <3>1. /\ rec'[q] = rec[q] /\ todo'[q] = todo[q]
          /\ writing'[q] = IF writing[q] = "open" THEN "mixed" ELSE writing[q]
      BY <1>1, <1>2, <2>2
    <3>2. writing'[q] # "no" => writing[q] # "no"
      BY <3>1
    <3>3. QED BY <1>1, <3>1, <3>2 DEF Handled, Writes
  <2>3. QED BY <2>1, <2>2
<1>9. QED BY <1>2, <1>5, <1>6, <1>7, <1>8 DEF RunsInvariant

(* A request that works does not write.                                    *)
LEMMA Idles ==
  ASSUME RunsInvariant, NEW r \in Requests, todo[r] # <<>>, Head(todo[r]) \notin SaveSteps
  PROVE  /\ writing[r] = "no" /\ todo[r] \in Seq(StepNames) /\ rec[r] \in Copies
         /\ Ready(rec[r], todo[r]) /\ Head(todo[r]) \in WorkSteps
<1>1. /\ writing \in [Requests -> {"no", "open", "mixed"}] /\ rec \in [Requests -> Copies]
      /\ todo \in [Requests -> Seq(StepNames)] /\ Handled(r) /\ Writes(r)
  BY DEF RunsInvariant, RunsTyped
<1>2. Head(todo[r]) \in StepNames
  BY <1>1
<1>3. QED BY <1>1, <1>2 DEF Handled, Writes, StepNames

(* A step of the work of a request.                                        *)
LEMMA WorkKeeps ==
  ASSUME RunsInvariant, NEW r \in Requests, EngineRun!Work(r)
  PROVE  RunsInvariant'
<1>1. todo[r] # <<>> /\ Head(todo[r]) \notin SaveSteps
  BY DEF EngineRun!Work, EngineRun!Runs, EngineRun!Step, SaveSteps
<1>2. /\ writing[r] = "no" /\ todo[r] \in Seq(StepNames) /\ rec[r] \in Copies
      /\ Ready(rec[r], todo[r]) /\ Head(todo[r]) \in WorkSteps
  BY <1>1, Idles
<1>3. PICK o \in EngineRun!Outcomes(Head(todo[r]), rec[r]) :
        /\ rec' = [rec EXCEPT ![r] = o.c]
        /\ todo' = [todo EXCEPT ![r] = o.next \o Tail(todo[r])]
  BY <1>1 DEF EngineRun!Work, EngineRun!Step
<1>4. Leads(rec[r], Head(todo[r]), o.c, o.next)
  BY <1>1, <1>2, Leading
<1>5. o.c \in Copies /\ o.next \in Seq(StepNames)
  BY <1>4, InsertedTyped DEF Leads
<1>6. Ready(o.c, o.next \o Tail(todo[r]))
  BY <1>1, <1>2, <1>4, Following
<1>7. o.next \o Tail(todo[r]) \in Seq(StepNames)
  BY <1>1, <1>2, <1>5, Spliced
<1>8. UNCHANGED <<disk, saved, writing>> /\ begun' \in Nat
  BY DEF EngineRun!Work, RunsInvariant, RunsTyped
<1>9. QED BY <1>2, <1>3, <1>5, <1>6, <1>7, <1>8, Taken

(* A step raises, and the request ends or fails the run.                   *)
LEMMA RaiseKeeps ==
  ASSUME RunsInvariant, NEW r \in Requests, EngineRun!Raise(r)
  PROVE  RunsInvariant'
<1>1. todo[r] # <<>> /\ Head(todo[r]) \notin SaveSteps
  BY DEF EngineRun!Raise, EngineRun!MayRaise, EngineRun!Step, SaveSteps, EngineRun!Statuses
<1>2. writing[r] = "no" /\ rec[r] \in Copies /\ Ready(rec[r], todo[r])
  BY <1>1, Idles
<1> DEFINE c == IF guarded[r] = "no" THEN rec[r] ELSE [rec[r] EXCEPT !.status = "failed"]
           t == IF guarded[r] = "no" THEN <<>> ELSE <<"save">>
<1>3. rec \in [Requests -> Copies]
  BY DEF RunsInvariant, RunsTyped
<1>4. rec' = [rec EXCEPT ![r] = c] /\ todo' = [todo EXCEPT ![r] = t]
  BY <1>2, <1>3 DEF EngineRun!Raise, Copies
<1>5. UNCHANGED <<disk, saved, writing>> /\ begun' \in Nat
  BY DEF EngineRun!Raise, RunsInvariant, RunsTyped
<1>6. c \in Copies /\ t \in Seq(StepNames) /\ (t # <<>> => Ready(c, t))
  <2>1. CASE guarded[r] = "no"
    BY <1>2, <2>1
  <2>2. CASE guarded[r] # "no"
    <3>1. c \in Copies /\ Coherent(c) /\ Scored(c)
      BY <1>2, <2>2 DEF Ready, Coherent, Scored, Copies
    <3>2. QED BY <2>2, <3>1, FailIsReady
  <2>3. QED BY <2>1, <2>2
<1>7. QED BY <1>2, <1>4, <1>5, <1>6, Taken

(* The end of the process leaves what is on disk.                          *)
LEMMA CrashKeeps ==
  ASSUME RunsInvariant, EngineRun!Crash
  PROVE  RunsInvariant'
<1>1. /\ todo' = [r \in Requests |-> <<>>] /\ writing' = [r \in Requests |-> "no"]
      /\ UNCHANGED <<disk, saved, rec, begun>>
  BY DEF EngineRun!Crash
<1>2. RunsTyped'
  BY <1>1 DEF RunsInvariant, RunsTyped
<1>3. DiskIsSound'
  BY <1>1 DEF RunsInvariant, DiskIsSound
<1>4. \A r \in Requests : Handled(r)' /\ Writes(r)'
  BY <1>1 DEF Handled, Writes
<1>5. QED BY <1>2, <1>3, <1>4 DEF RunsInvariant

(* Every step of the sidecar keeps the invariant.                          *)
LEMMA RunsStep == RunsInvariant /\ EngineRun!Next => RunsInvariant'
BY BeginKeeps, OpenKeeps, WriteKeeps, WorkKeeps, RaiseKeeps, CrashKeeps DEF EngineRun!Next

(* So does a step of nobody.                                               *)
LEMMA RunsStutter == RunsInvariant /\ UNCHANGED EngineRun!vars => RunsInvariant'
BY DEF EngineRun!vars, RunsInvariant, RunsTyped, DiskIsSound, Handled, Writes

(* What is said of a record that can be read follows from it.              *)
LEMMA RunsAreSound ==
  RunsInvariant => /\ EngineRun!TypeOK /\ EngineRun!EvidenceIsCurrent
                   /\ EngineRun!CompletedIsScored /\ EngineRun!RevisedIsNotLaunched
<1> SUFFICES ASSUME RunsInvariant
             PROVE  /\ EngineRun!TypeOK /\ EngineRun!EvidenceIsCurrent
                    /\ EngineRun!CompletedIsScored /\ EngineRun!RevisedIsNotLaunched
  OBVIOUS
<1>1. EngineRun!TypeOK
  BY DEF RunsInvariant, RunsTyped, EngineRun!TypeOK, Copies, SuiteNames, EngineRun!Absent,
         EngineRun!Torn
<1>2. EngineRun!EvidenceIsCurrent /\ EngineRun!RevisedIsNotLaunched
  BY DEF RunsInvariant, DiskIsSound, Coherent, EngineRun!EvidenceIsCurrent,
     EngineRun!Readable,
         EngineRun!RevisedIsNotLaunched
<1>3. EngineRun!CompletedIsScored
  BY DEF RunsInvariant, DiskIsSound, Scored, EngineRun!CompletedIsScored, EngineRun!Readable
<1>4. QED BY <1>1, <1>2, <1>3

-----------------------------------------------------------------------------
(* While no two requests overlap, nothing that was saved is forgotten.     *)

(* A record keeps what it shows itself.                                    *)
LEMMA SameKeeps == \A c, t : Keeps(c, t, c)
BY DEF Keeps, Shows, Evident

(* The work of a request takes nothing off its copy but what it archives   *)
(* first.                                                                  *)
LEMMA WorkRemembers ==
  ASSUME NEW s \in Seq(StepNames), s # <<>>, NEW c \in Copies, Ready(c, s),
         Head(s) \in WorkSteps, NEW d, NEW n, Leads(c, Head(s), d, n),
         NEW v, v.file = "whole" => Coherent(v), Keeps(c, s, v)
  PROVE  Keeps(d, n \o Tail(s), v)
<1> SUFFICES ASSUME v.file = "whole" PROVE Keeps(d, n \o Tail(s), v)
  BY DEF Keeps
<1>1. Coherent(c) /\ Coherent(v) /\ MakesFirst(c, s)
  BY DEF Ready
<1>2. v.history \subseteq c.history /\ c.history \subseteq d.history
  BY DEF Keeps, Leads
<1>3. Remembers(c, v) => Remembers(d, v)
  BY <1>2 DEF Remembers
<1>4. CASE Head(s) = "REVISE"
  <2>1. In("REVISE", s)
    BY <1>4, Spliced DEF In
  <2>2. Evident(c, v)
    BY <2>1 DEF Keeps
  <2>3. Remembers(d, v)
    BY <1>4, <2>2 DEF Leads, Remembers, Evident
  <2>4. ~In("REVISE", n \o Tail(s))
    <3>1. n = <<>> /\ n \in Seq(StepNames)
      <4>1. n = <<>>
        BY <1>4 DEF Leads
      <4>2. QED BY <4>1
    <3>2. Once({"REVISE"}, n) /\ ~In("REVISE", n)
      BY <3>1 DEF Once, In
    <3>3. QED BY <1>1, <1>4, <3>1, <3>2, SplicedOnce DEF MakesFirst
  <2>5. QED BY <1>2, <2>3, <2>4 DEF Keeps
<1>5. CASE Head(s) # "REVISE"
  <2>1. ~In("REVISE", n \o Tail(s))
    <3>1. 1 \in DOMAIN s /\ s[1] = Head(s)
      BY Spliced
    <3>2. ~In("REVISE", s)
      BY <1>1, <1>5, <3>1 DEF MakesFirst, SaveSteps, WorkSteps, EngineRun!Statuses
    <3>3. ~In("REVISE", n) /\ n \in Seq(StepNames)
      <4>1. n \in Inserted
        BY DEF Leads
      <4>2. n \in Seq(StepNames)
        BY <4>1, InsertedTyped
      <4>3. ~In("REVISE", n)
        BY <4>1, InsertedSteps DEF Inserted
      <4>4. QED BY <4>2, <4>3
    <3>4. QED BY <3>2, <3>3, SplicedIn
  <2>2. ASSUME v.suite # EngineRun!None, Shows(c, v) PROVE Shows(d, v) \/ Remembers(d, v)
    <3>1. c.suite # EngineRun!None /\ c.ir = v.ir /\ c.suite = v.suite
      BY <2>2 DEF Shows
    <3>2. Head(s) \notin {"EXTRACT", "GENERATE"}
      BY <3>1, HeadSays
    <3>3. d.ir = c.ir /\ d.suite = c.suite
      BY <1>5, <3>2 DEF Leads
    <3>4. CASE v.swarm = <<>>
      BY <3>1, <3>3, <3>4 DEF Shows
    <3>5. CASE v.swarm # <<>>
      <4>1. /\ c.swarm = v.swarm /\ c.swarm = <<c.ir, c.suite>>
            /\ c.eval = <<c.ir, c.suite>> /\ v.eval = <<c.ir, c.suite>>
        BY <1>1, <2>2, <3>1, <3>5 DEF Shows, Coherent
      <4>2. CASE d.swarm = c.swarm
        BY <3>1, <3>3, <4>1, <4>2 DEF Shows
      <4>3. CASE d.swarm # c.swarm
        <5>1. PICK h \in d.history : Evident(h, c)
          BY <4>1, <4>3 DEF Leads
        <5>2. Evident(h, v)
          BY <3>1, <4>1, <5>1 DEF Evident
        <5>3. QED BY <5>2 DEF Remembers
      <4>4. QED BY <4>2, <4>3
    <3>6. QED BY <3>4, <3>5
  <2>3. QED BY <1>2, <1>3, <2>1, <2>2 DEF Keeps
<1>6. QED BY <1>4, <1>5

(* A suite is attached after the evidence of the old one is archived       *)
(* (attach_suite).                                                         *)
LEMMA AttachRemembers ==
  ASSUME NEW c \in Copies, NEW s \in Suites
  PROVE  Keeps(EngineRun!WithSuite(c, s), EngineRun!AttachSteps, c)
<1> DEFINE a == EngineRun!Archived(c)
           w == EngineRun!WithSuite(c, s)
<1>1. w = [a EXCEPT !.suite = s, !.eval = <<>>, !.eff = <<>>]
  BY DEF EngineRun!WithSuite
<1>2. a \in Copies /\ c.history \subseteq a.history /\ \E h \in a.history : Evident(h, c)
  BY Archiving
<1> HIDE DEF a, w
<1>3. w.history = a.history
  BY <1>1, <1>2 DEF Copies
<1>4. ~In("REVISE", EngineRun!AttachSteps)
  BY DEF In, EngineRun!AttachSteps
<1>5. QED BY <1>2, <1>3, <1>4 DEF Keeps, Remembers, w

(* A step on a copy alone replaces nothing that was saved.                 *)
LEMMA SerialTaken ==
  ASSUME SerialInvariant, RunsInvariant', OneAtATime', NEW r \in Requests, NEW c, NEW t,
         t # <<>> => Keeps(c, t, saved),
         rec' = [rec EXCEPT ![r] = c], todo' = [todo EXCEPT ![r] = t],
         UNCHANGED <<disk, saved, writing>>
  PROVE  SerialInvariant' /\ EngineRun!Archives /\ EngineRun!Retains
<1>1. /\ rec \in [Requests -> Copies] /\ todo \in [Requests -> Seq(StepNames)]
  BY DEF SerialInvariant, RunsInvariant, RunsTyped
<1>2. ASSUME NEW q \in Requests
      PROVE  (writing[q] # "mixed")' /\ (todo[q] # <<>> => Keeps(rec[q], todo[q], saved))'
  <2>1. CASE q = r
    BY <1>1, <2>1 DEF SerialInvariant
  <2>2. CASE q # r
    <3>1. rec'[q] = rec[q] /\ todo'[q] = todo[q]
      BY <1>1, <2>2
    <3>2. QED BY <3>1 DEF SerialInvariant
  <2>3. QED BY <2>1, <2>2
<1>3. SerialInvariant'
  BY <1>2 DEF SerialInvariant
<1>4. EngineRun!Archives /\ EngineRun!Retains
  BY DEF EngineRun!Archives, EngineRun!Retains
<1>5. QED BY <1>3, <1>4

(* A request that is taken alone reads what was saved last.                *)
LEMMA BeginRemembers ==
  ASSUME SerialInvariant, RunsInvariant', OneAtATime', NEW r \in Requests, EngineRun!Begin(r)
  PROVE  SerialInvariant' /\ EngineRun!Archives /\ EngineRun!Retains
<1>1. UNCHANGED <<disk, saved, writing>>
  BY DEF EngineRun!Begin
<1>2. ASSUME NEW c, NEW t, NEW g, Keeps(c, t, saved), EngineRun!Takes(r, c, t, g)
      PROVE  SerialInvariant' /\ EngineRun!Archives /\ EngineRun!Retains
  BY <1>1, <1>2, SerialTaken DEF EngineRun!Takes
<1>3. CASE disk = EngineRun!Absent
  <2>1. \A c, t : Keeps(c, t, saved)
    BY <1>3 DEF SerialInvariant, EngineRun!Absent, Keeps
  <2>2. EngineRun!Takes(r, EngineRun!NewRecord, EngineRun!CreateSteps, "create")
    BY <1>3 DEF EngineRun!Begin, EngineRun!Readable, EngineRun!Absent
  <2>3. QED BY <1>2, <2>1, <2>2
<1>4. CASE EngineRun!Readable(disk)
  <2>1. disk \in Copies /\ disk = saved
    BY <1>4 DEF EngineRun!Readable, EngineRun!Absent, EngineRun!Torn, SerialInvariant,
           RunsInvariant, RunsTyped
  <2>2. /\ \A t : Keeps(disk, t, saved)
        /\ \A s \in Suites : Keeps(EngineRun!WithSuite(disk, s), EngineRun!AttachSteps, saved)
    BY <2>1, SameKeeps, AttachRemembers
  <2>3. ASSUME NEW swarm \in BOOLEAN, EngineRun!Takes(r, disk, EngineRun!RehearseSteps(swarm), "no")
        PROVE  SerialInvariant' /\ EngineRun!Archives /\ EngineRun!Retains
    BY <1>2, <2>2, <2>3
  <2>4. ASSUME NEW s \in Suites,
               EngineRun!Takes(r, EngineRun!WithSuite(disk, s), EngineRun!AttachSteps, "no")
        PROVE  SerialInvariant' /\ EngineRun!Archives /\ EngineRun!Retains
    BY <1>2, <2>2, <2>4
  <2>5. ASSUME NEW s \in {"PACK", "LAUNCH"}, EngineRun!Takes(r, disk, <<s, "save">>, "no")
        PROVE  SerialInvariant' /\ EngineRun!Archives /\ EngineRun!Retains
    BY <1>2, <2>2, <2>5
  <2>6. CASE EngineRun!Takes(r, disk, <<"extracting", "REVISE", "save">>, "revise")
    BY <1>2, <2>2, <2>6
  <2>7. disk # EngineRun!Absent
    BY <1>4 DEF EngineRun!Readable, EngineRun!Absent
  <2>8. QED BY <2>3, <2>4, <2>5, <2>6, <2>7 DEF EngineRun!Begin
<1>5. QED BY <1>3, <1>4 DEF EngineRun!Begin

(* Nothing is saved before the file is written.                            *)
LEMMA OpenRemembers ==
  ASSUME SerialInvariant, RunsInvariant', OneAtATime', NEW r \in Requests, EngineRun!OpenFile(r)
  PROVE  SerialInvariant' /\ EngineRun!Archives /\ EngineRun!Retains
<1>1. /\ rec \in [Requests -> Copies] /\ todo[r] # <<>>
      /\ writing \in [Requests -> {"no", "open", "mixed"}]
  BY DEF SerialInvariant, RunsInvariant, RunsTyped, EngineRun!OpenFile, EngineRun!Step,
         EngineRun!Statuses
<1>2. /\ writing' = [writing EXCEPT ![r] = "open"] /\ disk' = EngineRun!Torn
      /\ UNCHANGED <<saved, todo>>
  BY DEF EngineRun!OpenFile
<1>3. ASSUME NEW q \in Requests
      PROVE  /\ rec'[q].ir = rec[q].ir /\ rec'[q].suite = rec[q].suite
             /\ rec'[q].eval = rec[q].eval /\ rec'[q].swarm = rec[q].swarm
             /\ rec'[q].history = rec[q].history
  BY <1>1 DEF EngineRun!OpenFile, Copies
<1>4. ASSUME NEW q \in Requests
      PROVE  (writing[q] # "mixed")' /\ (todo[q] # <<>> => Keeps(rec[q], todo[q], saved))'
  <2>1. (writing[q] # "mixed")'
    BY <1>1, <1>2 DEF SerialInvariant
  <2>2. todo[q] # <<>> => Keeps(rec[q], todo[q], saved)
    BY DEF SerialInvariant
  <2>3. Keeps(rec[q], todo[q], saved) => Keeps(rec'[q], todo[q], saved)
    BY <1>3 DEF Keeps, Shows, Remembers, Evident
  <2>4. QED BY <1>2, <2>1, <2>2, <2>3
<1>5. SerialInvariant'
  BY <1>2, <1>4 DEF SerialInvariant, EngineRun!Torn
<1>6. QED BY <1>2, <1>5 DEF EngineRun!Archives, EngineRun!Retains

(* What a save replaces is in the history that it writes.                  *)
LEMMA WriteRemembers ==
  ASSUME SerialInvariant, RunsInvariant', OneAtATime', NEW r \in Requests, EngineRun!WriteFile(r)
  PROVE  SerialInvariant' /\ EngineRun!Archives /\ EngineRun!Retains
<1>1. /\ writing \in [Requests -> {"no", "open", "mixed"}] /\ rec \in [Requests -> Copies]
      /\ todo \in [Requests -> Seq(StepNames)] /\ RunsInvariant
      /\ \A q \in Requests : Writes(q)
  BY DEF SerialInvariant, RunsInvariant, RunsTyped
<1>2. Coherent(rec[r]) /\ saved' = rec[r]
  BY <1>1, WriteKeeps
<1>3. /\ writing[r] # "no" /\ writing[r] # "mixed" /\ todo[r] # <<>>
      /\ Keeps(rec[r], todo[r], saved)
  BY <1>1 DEF EngineRun!WriteFile, SerialInvariant, Writes
<1>4. disk' = rec[r] /\ rec' = rec /\ rec[r] \in Copies
  BY <1>1, <1>3 DEF EngineRun!WriteFile
<1>5. ASSUME NEW q \in Requests, q # r PROVE todo'[q] = <<>> /\ writing'[q] = "no"
  <2>1. todo[q] = <<>> /\ writing[q] = "no"
    BY <1>1, <1>3, <1>5 DEF SerialInvariant, OneAtATime, Writes
  <2>2. QED BY <1>1, <1>5, <2>1 DEF EngineRun!WriteFile
<1>6. writing'[r] = "no"
  BY DEF EngineRun!WriteFile
<1>7. ASSUME NEW q \in Requests
      PROVE  (writing[q] # "mixed")' /\ (todo[q] # <<>> => Keeps(rec[q], todo[q], saved))'
  <2>1. CASE q = r
    BY <1>2, <1>4, <1>6, <2>1, SameKeeps
  <2>2. CASE q # r
    BY <1>5, <2>2
  <2>3. QED BY <2>1, <2>2
<1>8. SerialInvariant'
  BY <1>2, <1>4, <1>7 DEF SerialInvariant, Copies
<1>9. EngineRun!Retains
  BY <1>2, <1>3 DEF EngineRun!Retains, Keeps
<1>10. EngineRun!Archives
  BY <1>2, <1>3 DEF EngineRun!Archives, Keeps, Shows, Remembers, Evident
<1>11. QED BY <1>8, <1>9, <1>10

(* So no step forgets anything, as long as requests do not overlap.        *)
LEMMA SerialStep ==
  ASSUME SerialInvariant, EngineRun!Next, OneAtATime'
  PROVE  SerialInvariant' /\ EngineRun!Archives /\ EngineRun!Retains
<1>1. RunsInvariant /\ RunsInvariant'
  BY RunsStep DEF SerialInvariant
<1>2. CASE EngineRun!Crash
  <2>1. /\ todo' = [r \in Requests |-> <<>>] /\ writing' = [r \in Requests |-> "no"]
        /\ UNCHANGED <<disk, saved, rec>>
    BY <1>2 DEF EngineRun!Crash
  <2>2. SerialInvariant'
    BY <1>1, <2>1 DEF SerialInvariant
  <2>3. QED BY <2>1, <2>2 DEF EngineRun!Archives, EngineRun!Retains
<1>3. ASSUME NEW r \in Requests, EngineRun!Work(r)
      PROVE  SerialInvariant' /\ EngineRun!Archives /\ EngineRun!Retains
  <2>1. todo[r] # <<>> /\ Head(todo[r]) \notin SaveSteps
    BY <1>3 DEF EngineRun!Work, EngineRun!Runs, EngineRun!Step, SaveSteps
  <2>2. /\ todo[r] \in Seq(StepNames) /\ rec[r] \in Copies
        /\ Ready(rec[r], todo[r]) /\ Head(todo[r]) \in WorkSteps
    BY <1>1, <2>1, Idles
  <2>3. PICK o \in EngineRun!Outcomes(Head(todo[r]), rec[r]) :
          /\ rec' = [rec EXCEPT ![r] = o.c]
          /\ todo' = [todo EXCEPT ![r] = o.next \o Tail(todo[r])]
    BY <1>3, <2>1 DEF EngineRun!Work, EngineRun!Step
  <2>4. Leads(rec[r], Head(todo[r]), o.c, o.next)
    BY <2>1, <2>2, Leading
  <2>5. Keeps(rec[r], todo[r], saved) /\ (saved.file = "whole" => Coherent(saved))
    BY <2>1 DEF SerialInvariant
  <2>6. Keeps(o.c, o.next \o Tail(todo[r]), saved)
    BY <2>1, <2>2, <2>4, <2>5, WorkRemembers
  <2>7. UNCHANGED <<disk, saved, writing>>
    BY <1>3 DEF EngineRun!Work
  <2>8. QED BY <1>1, <2>3, <2>6, <2>7, SerialTaken
<1>4. ASSUME NEW r \in Requests, EngineRun!Raise(r)
      PROVE  SerialInvariant' /\ EngineRun!Archives /\ EngineRun!Retains
  <2> DEFINE c == IF guarded[r] = "no" THEN rec[r] ELSE [rec[r] EXCEPT !.status = "failed"]
             t == IF guarded[r] = "no" THEN <<>> ELSE <<"save">>
  <2>1. rec \in [Requests -> Copies] /\ todo[r] # <<>>
    BY <1>1, <1>4 DEF RunsInvariant, RunsTyped, EngineRun!Raise, EngineRun!MayRaise,
           EngineRun!Step
  <2>2. rec' = [rec EXCEPT ![r] = c] /\ todo' = [todo EXCEPT ![r] = t]
    BY <1>4, <2>1 DEF EngineRun!Raise, Copies
  <2>3. UNCHANGED <<disk, saved, writing>>
    BY <1>4 DEF EngineRun!Raise
  <2>4. Keeps(rec[r], todo[r], saved)
    BY <2>1 DEF SerialInvariant
  <2>5. /\ c.ir = rec[r].ir /\ c.suite = rec[r].suite /\ c.eval = rec[r].eval
        /\ c.swarm = rec[r].swarm /\ c.history = rec[r].history
    BY <2>1 DEF Copies
  <2>6. ~In("REVISE", t)
    BY DEF In
  <2> HIDE DEF c, t
  <2>7. Keeps(c, t, saved)
    BY <2>4, <2>5, <2>6 DEF Keeps, Shows, Remembers, Evident
  <2>8. QED BY <1>1, <2>2, <2>3, <2>7, SerialTaken
<1>5. QED
  BY <1>1, <1>2, <1>3, <1>4, BeginRemembers, OpenRemembers, WriteRemembers
     DEF EngineRun!Next

(* At first there is nothing to forget.                                    *)
LEMMA SerialInit ==
  ASSUME EngineRun!Init
  PROVE  SerialInvariant
BY RunsInit DEF SerialInvariant, EngineRun!Init, OneAtATime, EngineRun!Absent

(* A step of nobody changes no record.                                     *)
LEMMA SerialStutter ==
  ASSUME SerialInvariant, UNCHANGED EngineRun!vars
  PROVE  SerialInvariant'
<1>1. RunsInvariant'
  BY RunsStutter DEF SerialInvariant
<1>2. UNCHANGED <<disk, saved, writing, rec, todo>>
  BY DEF EngineRun!vars
<1>3. QED BY <1>1, <1>2 DEF SerialInvariant, OneAtATime

-----------------------------------------------------------------------------
(* Recorded runs                                                           *)

AttemptLabels ==
  {"begin", "preflight", "refused", "reserve", "guard", "execute", "check", "custody", "audit",
   "announce", "link raw", "link audit", "settle", "succeeded", "rollback", "note", "ended"}
RecordStages == {"none", "partial", "complete"}
AttemptErrors == {"none", "changed", "incomplete", "failed"}

(* From the reservation on, from the verdict on, and once there may be a   *)
(* file in custody.                                                        *)
Holding == AttemptLabels \ {"begin", "preflight", "refused", "reserve", "ended"}
Judged  == Holding \ {"guard", "execute", "check"}
HasWritten == (Judged \ {"custody"}) \cup {"ended"}

Owns(r) == reservation[Blind!Mine(r)] # NoFile /\ reservation[Blind!Mine(r)].by = r

AttemptsTyped ==
  /\ aim \in [Recorders -> Blind!Aim]
  /\ approved \in BOOLEAN
  /\ pc \in [Recorders -> AttemptLabels]
  /\ record \in [Recorders -> RecordStages]
  /\ error \in [Recorders -> AttemptErrors]
  /\ ran \subseteq Recorders
  /\ reservation \in [BlindCandidates -> Blind!Reservations \cup {NoFile}]
  /\ custody \in [BlindCandidates -> [raw : Blind!Files \cup {NoFile}, audit : Blind!Files \cup {NoFile}]]
  /\ raw \in [BlindOutputs -> Blind!Files \cup {NoFile}]
  /\ audit \in [BlindOutputs -> Blind!Files \cup {NoFile}]

(* Whoever is past the reservation, or has run, owns it.                   *)
Owned ==
  \A r \in Recorders :
    /\ pc[r] \in Holding \/ r \in ran => Owns(r)
    /\ pc[r] \in {"execute", "check"} => r \in ran
    /\ pc[r] \in Holding \cup {"reserve"} \/ r \in ran => approved

(* Without an error there is a complete record of an execution.            *)
RecordsHonest ==
  \A r \in Recorders : pc[r] \in Judged /\ error[r] = "none" => record[r] = "complete" /\ r \in ran

(* What is in custody is the record of the one who owns the candidate.     *)
RawFiled(c, r) ==
  /\ Blind!Mine(r) = c /\ Owns(r) /\ pc[r] \in HasWritten /\ custody[c].raw = Blind!FileOf(r)
  /\ error[r] = "none" => record[r] = "complete" /\ r \in ran
RawKept ==
  \A c \in BlindCandidates : custody[c].raw # NoFile => \E r \in Recorders : RawFiled(c, r)

AuditFiled(c, r) ==
  Blind!Mine(r) = c /\ Owns(r) /\ pc[r] \in HasWritten /\ custody[c].audit.by = r
AuditKept ==
  \A c \in BlindCandidates : custody[c].audit # NoFile => \E r \in Recorders : AuditFiled(c, r)

(* What a recorder has written before it goes on.                          *)
Reached(r) ==
  /\ record[r] # "none" /\ pc[r] \in {"audit", "announce", "link raw", "link audit", "settle", "succeeded"}
       => custody[Blind!Mine(r)].raw = Blind!FileOf(r)
  /\ pc[r] \in {"announce", "link raw", "link audit", "settle", "succeeded"}
       => custody[Blind!Mine(r)].audit = Blind!FileOf(r)
  /\ pc[r] = "link raw" => record[r] # "none"
  /\ record[r] # "none" /\ pc[r] \in {"link audit", "settle", "succeeded"}
       => raw[Blind!Target(r)] = Blind!FileOf(r)
  /\ pc[r] \in {"settle", "succeeded"} => audit[Blind!Target(r)] = Blind!FileOf(r)
  /\ pc[r] = "succeeded" => reservation[Blind!Mine(r)] = Blind!Reservation(r, Blind!Status(error[r]))
AttemptProgress == \A r \in Recorders : Reached(r)

(* What is exposed was put there by its recorder, from custody.            *)
RawShown(o, r) ==
  /\ Blind!Target(r) = o /\ raw[o] = Blind!FileOf(r)
  /\ custody[Blind!Mine(r)].raw = Blind!FileOf(r) /\ custody[Blind!Mine(r)].audit # NoFile
  /\ pc[r] \in {"link audit", "settle", "succeeded", "rollback", "note", "ended"}
RawExposed ==
  \A o \in BlindOutputs : raw[o] \notin {NoFile, Blind!Foreign} => \E r \in Recorders : RawShown(o, r)

AuditShown(o, r) ==
  /\ Blind!Target(r) = o /\ audit[o] = Blind!FileOf(r) /\ custody[Blind!Mine(r)].audit # NoFile
  /\ pc[r] \in {"settle", "succeeded", "rollback", "note", "ended"}
AuditExposed ==
  \A o \in BlindOutputs : audit[o] \notin {NoFile, Blind!Foreign} => \E r \in Recorders : AuditShown(o, r)

BlindInvariant ==
  AttemptsTyped /\ Owned /\ RecordsHonest /\ RawKept /\ AuditKept /\ AttemptProgress /\ RawExposed /\ AuditExposed

-----------------------------------------------------------------------------
(* A file made of typed parts is a file, and never None.                   *)
LEMMA FileOfTyped ==
  ASSUME Blind!Distinct, AttemptsTyped, NEW r \in Recorders
  PROVE  Blind!FileOf(r) \in Blind!Files /\ Blind!FileOf(r) # NoFile /\ Blind!FileOf(r).by = r /\ r # Other
BY DEF Blind!Distinct, AttemptsTyped, Blind!FileOf, Blind!Files, RecordStages, AttemptErrors

(* The file of somebody else is a file, and never None.                    *)
LEMMA ForeignTyped ==
  ASSUME Blind!Distinct PROVE Blind!Foreign \in Blind!Files /\ Blind!Foreign # NoFile
BY DEF Blind!Distinct, Blind!Foreign, Blind!Files

(* Every recorder starts with values of its types.                         *)
LEMMA TypedInit == ASSUME Blind!Distinct, Blind!Init PROVE AttemptsTyped
BY DEF Blind!Distinct, Blind!Init, AttemptsTyped, AttemptLabels, RecordStages, AttemptErrors

(* A recorder is started for a candidate and an output.                    *)
LEMMA AimTyped ==
  ASSUME AttemptsTyped, NEW r \in Recorders PROVE Blind!Mine(r) \in BlindCandidates /\ Blind!Target(r) \in BlindOutputs
BY DEF AttemptsTyped, Blind!Aim, Blind!Mine, Blind!Target

(* `_reserve` and the changes of status write typed reservations.          *)
LEMMA ReservedTyped ==
  ASSUME AttemptsTyped, NEW r \in Recorders,
         NEW s \in Blind!Statuses,
         Blind!Reserved(r, s)
  PROVE  reservation' \in [BlindCandidates -> Blind!Reservations \cup {NoFile}]
<1>1. Blind!Reservation(r, s) \in Blind!Reservations
  BY DEF Blind!Reservations, Blind!Reservation
<1>2. QED BY <1>1, AimTyped DEF AttemptsTyped, Blind!Reserved

(* The status of every verdict is one of the statuses.                     *)
LEMMA StatusTyped ==
  ASSUME NEW e PROVE Blind!Status(e) \in Blind!Statuses
BY DEF Blind!Status, Blind!Statuses

(* A file put in custody leaves custody well formed.                       *)
LEMMA CustodyTyped ==
  ASSUME AttemptsTyped, NEW c \in BlindCandidates, NEW f \in Blind!Files,
         custody' = [custody EXCEPT ![c].raw = f] \/ custody' = [custody EXCEPT ![c].audit = f]
  PROVE  custody' \in [BlindCandidates -> [raw : Blind!Files \cup {NoFile}, audit : Blind!Files \cup {NoFile}]]
<1>1. custody[c] \in [raw : Blind!Files \cup {NoFile}, audit : Blind!Files \cup {NoFile}]
  BY DEF AttemptsTyped
<1>2. /\ [custody[c] EXCEPT !.raw = f] \in [raw : Blind!Files \cup {NoFile}, audit : Blind!Files \cup {NoFile}]
      /\ [custody[c] EXCEPT !.audit = f] \in [raw : Blind!Files \cup {NoFile}, audit : Blind!Files \cup {NoFile}]
  BY <1>1
<1>3. QED BY <1>2 DEF AttemptsTyped

(* Every step keeps every variable in its type.                            *)
LEMMA TypedStep == ASSUME Blind!Distinct, AttemptsTyped, [Blind!Next]_(Blind!vars) PROVE AttemptsTyped'
<1>0. CASE UNCHANGED Blind!vars
  BY <1>0 DEF Blind!vars, AttemptsTyped
<1>1. CASE Blind!Approve
  BY <1>1 DEF Blind!Approve, AttemptsTyped, Blind!files
<1>2. CASE Blind!Edit
  BY <1>2 DEF Blind!Edit, AttemptsTyped, Blind!files
<1>3. ASSUME NEW o \in ContendedOutputs, Blind!WriteElsewhere(o) PROVE AttemptsTyped'
  BY <1>3, ForeignTyped DEF Blind!WriteElsewhere, AttemptsTyped, Blind!world
<1>4. ASSUME NEW r \in Recorders, Blind!Records(r) PROVE AttemptsTyped'
  <2>0. Blind!Mine(r) \in BlindCandidates /\ Blind!Target(r) \in BlindOutputs /\ Blind!FileOf(r) \in Blind!Files
    BY AimTyped, FileOfTyped
  <2>1. CASE Blind!Begin(r)
    BY <2>0, <2>1 DEF AttemptsTyped, AttemptLabels, RecordStages, AttemptErrors,
       Blind!Begin, Blind!Goto, Blind!world,
       Blind!files
  <2>2. CASE Blind!Preflight(r)
    BY <2>0, <2>2 DEF AttemptsTyped, AttemptLabels, RecordStages, AttemptErrors,
       Blind!Preflight, Blind!Goto,
       Blind!world, Blind!files
  <2>3. CASE Blind!Reserve(r)
    BY <2>0, <2>3, ReservedTyped, StatusTyped DEF AttemptsTyped, AttemptLabels,
       RecordStages, AttemptErrors,
       Blind!Statuses,
         Blind!Reserve, Blind!Goto, Blind!world
  <2>4. CASE Blind!Guard(r)
    BY <2>0, <2>4 DEF AttemptsTyped, AttemptLabels, RecordStages, AttemptErrors,
       Blind!Guard, Blind!Fail, Blind!Goto,
       Blind!world, Blind!files
  <2>5. CASE Blind!Execute(r)
    BY <2>0, <2>5 DEF AttemptsTyped, AttemptLabels, RecordStages, AttemptErrors,
       Blind!Execute, Blind!Fail, Blind!Goto,
       Blind!world, Blind!files
  <2>6. CASE Blind!Check(r)
    BY <2>0, <2>6 DEF AttemptsTyped, AttemptLabels, RecordStages, AttemptErrors,
       Blind!Check, Blind!Fail, Blind!Goto,
       Blind!world, Blind!files
  <2>7. CASE Blind!KeepRecord(r)
    <3>1. custody' \in [BlindCandidates -> [raw : Blind!Files \cup {NoFile}, audit : Blind!Files \cup {NoFile}]]
      BY <2>0, <2>7, CustodyTyped DEF AttemptsTyped, Blind!KeepRecord, Blind!Step
    <3>2. QED BY <2>7, <3>1 DEF AttemptsTyped, AttemptLabels, Blind!KeepRecord, Blind!Step,
                 Blind!Goto,
                 Blind!world
  <2>8. CASE Blind!KeepAudit(r)
    <3>1. custody' \in [BlindCandidates -> [raw : Blind!Files \cup {NoFile}, audit : Blind!Files \cup {NoFile}]]
      BY <2>0, <2>8, CustodyTyped DEF AttemptsTyped, Blind!KeepAudit, Blind!Step
    <3>2. QED BY <2>8, <3>1 DEF AttemptsTyped, AttemptLabels, Blind!KeepAudit, Blind!Step,
                 Blind!Goto,
                 Blind!world
  <2>9. CASE Blind!Announce(r)
    BY <2>0, <2>9, ReservedTyped, StatusTyped DEF AttemptsTyped, AttemptLabels,
       RecordStages, AttemptErrors,
       Blind!Statuses,
         Blind!Announce, Blind!Step, Blind!Goto, Blind!world
  <2>10. CASE Blind!LinkRaw(r)
    BY <2>0, <2>10 DEF AttemptsTyped, AttemptLabels, RecordStages, AttemptErrors,
       Blind!LinkRaw, Blind!Step,
       Blind!Goto, Blind!world
  <2>11. CASE Blind!LinkAudit(r)
    BY <2>0, <2>11 DEF AttemptsTyped, AttemptLabels, RecordStages, AttemptErrors,
       Blind!LinkAudit, Blind!Step,
       Blind!Goto, Blind!world
  <2>12. CASE Blind!Settle(r)
    BY <2>0, <2>12, ReservedTyped, StatusTyped DEF AttemptsTyped, AttemptLabels,
       RecordStages, AttemptErrors,
       Blind!Settle, Blind!Step,
         Blind!Goto, Blind!world
  <2>13. CASE Blind!Rollback(r)
    BY <2>0, <2>13 DEF AttemptsTyped, AttemptLabels, RecordStages, AttemptErrors,
       Blind!Rollback, Blind!Goto,
       Blind!world
  <2>14. CASE Blind!Note(r)
    <3>1. Blind!Unpublished(r) \in Blind!Files
      BY <2>0 DEF Blind!Unpublished, Blind!FileOf, Blind!Files
    <3>2. custody' \in [BlindCandidates -> [raw : Blind!Files \cup {NoFile}, audit : Blind!Files \cup {NoFile}]]
      <4>1. \/ custody' = [custody EXCEPT ![Blind!Mine(r)].audit = Blind!Unpublished(r)]
            \/ custody' = custody
        BY <2>14 DEF Blind!Note
      <4>2. QED BY <2>0, <3>1, <4>1, CustodyTyped DEF AttemptsTyped
    <3>3. reservation' \in [BlindCandidates -> Blind!Reservations \cup {NoFile}]
      <4>1. Blind!Reserved(r, "publication_failed") \/ reservation' = reservation
        BY <2>14 DEF Blind!Note
      <4>2. QED BY <4>1, ReservedTyped DEF AttemptsTyped, Blind!Statuses
    <3>4. QED BY <2>14, <3>2, <3>3 DEF AttemptsTyped, AttemptLabels, Blind!Note,
                 Blind!Goto, Blind!world
  <2>15. CASE Blind!Crash(r)
    BY <2>0, <2>15 DEF AttemptsTyped, AttemptLabels, RecordStages, AttemptErrors,
       Blind!Crash, Blind!Goto, Blind!world,
       Blind!files
  <2>99. QED BY <1>4, <2>1, <2>2, <2>3, <2>4, <2>5, <2>6, <2>7, <2>8, <2>9, <2>10, <2>11,
                <2>12,
       <2>13, <2>14, <2>15 DEF Blind!Records
<1>5. QED BY <1>0, <1>1, <1>2, <1>3, <1>4 DEF Blind!Next

-----------------------------------------------------------------------------
(* A step of a recorder changes nothing that another recorder holds, and   *)
(* what it knows only until its run is judged.                             *)
Frame(s) ==
  /\ aim' = aim /\ approved' = approved
  /\ \A r \in Recorders : r # s =>
       pc'[r] = pc[r] /\ record'[r] = record[r] /\ error'[r] = error[r] /\ (r \in ran' <=> r \in ran)
  /\ pc[s] \notin {"guard", "execute", "check"} => record' = record /\ error' = error /\ ran' = ran

(* No step of a recorder reaches what another recorder knows.              *)
LEMMA StepsFrame ==
  ASSUME AttemptsTyped, NEW s \in Recorders, Blind!Records(s) PROVE Frame(s)
<1>1. CASE Blind!Begin(s)
  BY <1>1 DEF AttemptsTyped, Frame, Blind!Begin, Blind!Goto, Blind!world, Blind!files
<1>2. CASE Blind!Preflight(s)
  BY <1>2 DEF AttemptsTyped, Frame, Blind!Preflight, Blind!Goto, Blind!world, Blind!files
<1>3. CASE Blind!Reserve(s)
  BY <1>3 DEF AttemptsTyped, Frame, Blind!Reserve, Blind!Goto, Blind!world
<1>4. CASE Blind!Guard(s)
  BY <1>4 DEF AttemptsTyped, Frame, Blind!Guard, Blind!Fail, Blind!Goto, Blind!world,
     Blind!files
<1>5. CASE Blind!Execute(s)
  BY <1>5 DEF AttemptsTyped, Frame, Blind!Execute, Blind!Fail, Blind!Goto, Blind!world,
     Blind!files
<1>6. CASE Blind!Check(s)
  BY <1>6 DEF AttemptsTyped, Frame, Blind!Check, Blind!Fail, Blind!Goto, Blind!world,
     Blind!files
<1>7. CASE Blind!KeepRecord(s)
  BY <1>7 DEF AttemptsTyped, Frame, Blind!KeepRecord, Blind!Step, Blind!Goto, Blind!world
<1>8. CASE Blind!KeepAudit(s)
  BY <1>8 DEF AttemptsTyped, Frame, Blind!KeepAudit, Blind!Step, Blind!Goto, Blind!world
<1>9. CASE Blind!Announce(s)
  BY <1>9 DEF AttemptsTyped, Frame, Blind!Announce, Blind!Step, Blind!Goto, Blind!world
<1>10. CASE Blind!LinkRaw(s)
  BY <1>10 DEF AttemptsTyped, Frame, Blind!LinkRaw, Blind!Step, Blind!Goto, Blind!world
<1>11. CASE Blind!LinkAudit(s)
  BY <1>11 DEF AttemptsTyped, Frame, Blind!LinkAudit, Blind!Step, Blind!Goto, Blind!world
<1>12. CASE Blind!Settle(s)
  BY <1>12 DEF AttemptsTyped, Frame, Blind!Settle, Blind!Step, Blind!Goto, Blind!world
<1>13. CASE Blind!Rollback(s)
  BY <1>13 DEF AttemptsTyped, Frame, Blind!Rollback, Blind!Goto, Blind!world
<1>14. CASE Blind!Note(s)
  BY <1>14 DEF AttemptsTyped, Frame, Blind!Note, Blind!Goto, Blind!world
<1>15. CASE Blind!Crash(s)
  BY <1>15 DEF AttemptsTyped, Frame, Blind!Crash, Blind!Goto, Blind!world, Blind!files
<1>99. QED BY <1>1, <1>2, <1>3, <1>4, <1>5, <1>6, <1>7, <1>8, <1>9, <1>10, <1>11, <1>12,
              <1>13,
     <1>14, <1>15 DEF Blind!Records

(* A recorder writes its own reservation, and the first time a free one.   *)
ReservationEffect(s) ==
  \/ reservation' = reservation
  \/ /\ pc[s] \in Holding \/ (pc[s] = "reserve" /\ reservation[Blind!Mine(s)] = NoFile)
     /\ \E x \in Blind!Statuses :
          Blind!Reserved(s, x)

(* Custody is written at three places, each time by who holds the candidate.*)
CustodyEffect(s) ==
  \/ custody' = custody
  \/ /\ pc[s] = "custody" /\ record[s] # "none" /\ pc'[s] \in {"audit", "rollback"}
     /\ custody' = [custody EXCEPT ![Blind!Mine(s)].raw = Blind!FileOf(s)]
  \/ /\ pc[s] = "audit" /\ pc'[s] \in {"announce", "rollback"}
     /\ custody' = [custody EXCEPT ![Blind!Mine(s)].audit = Blind!FileOf(s)]
  \/ /\ pc[s] = "note" /\ pc'[s] = "ended"
     /\ custody' = [custody EXCEPT ![Blind!Mine(s)].audit = Blind!Unpublished(s)]

(* A canonical name changes from free to a file in custody, or back.       *)
RawEffect(s) ==
  \/ raw' = raw
  \/ /\ pc[s] = "link raw" /\ raw[Blind!Target(s)] = NoFile /\ pc'[s] \in {"link audit", "rollback"}
     /\ raw' = [raw EXCEPT ![Blind!Target(s)] = custody[Blind!Mine(s)].raw]
  \/ /\ pc[s] = "rollback" /\ raw[Blind!Target(s)] # NoFile /\ raw[Blind!Target(s)].by = s /\ pc'[s] = "note"
     /\ raw' = [raw EXCEPT ![Blind!Target(s)] = NoFile]

AuditEffect(s) ==
  \/ audit' = audit
  \/ /\ pc[s] = "link audit" /\ audit[Blind!Target(s)] = NoFile /\ pc'[s] \in {"settle", "rollback"}
     /\ audit' = [audit EXCEPT ![Blind!Target(s)] = custody[Blind!Mine(s)].audit]
  \/ /\ pc[s] = "rollback" /\ audit[Blind!Target(s)] # NoFile /\ audit[Blind!Target(s)].by = s /\ pc'[s] = "note"
     /\ audit' = [audit EXCEPT ![Blind!Target(s)] = NoFile]

(* A step leaves reservations alone but for the one it holds or creates    *)
(* (_reserve and the later changes of status).                             *)
LEMMA StepsReserve ==
  ASSUME AttemptsTyped, NEW s \in Recorders, Blind!Records(s) PROVE ReservationEffect(s)
<1> USE DEF ReservationEffect
<1>1. CASE Blind!Begin(s) \/ Blind!Preflight(s) \/ Blind!Guard(s) \/ Blind!Execute(s) \/ Blind!Check(s) \/ Blind!Crash(s)
  BY <1>1 DEF Blind!Begin, Blind!Preflight, Blind!Guard, Blind!Execute, Blind!Check,
     Blind!Crash, Blind!files
<1>2. CASE Blind!KeepRecord(s) \/ Blind!KeepAudit(s) \/ Blind!LinkRaw(s) \/ Blind!LinkAudit(s) \/ Blind!Rollback(s)
  BY <1>2 DEF Blind!KeepRecord, Blind!KeepAudit, Blind!LinkRaw, Blind!LinkAudit,
     Blind!Rollback
<1>3. CASE Blind!Reserve(s)
  BY <1>3 DEF Blind!Reserve, Blind!Statuses
<1>4. CASE Blind!Announce(s)
  <2>1. reservation' = reservation \/ Blind!Reserved(s, "publishing")
    BY <1>4 DEF Blind!Announce, Blind!Step
  <2>2. pc[s] \in Holding
    BY <1>4 DEF Blind!Announce, Blind!Step, Holding, AttemptLabels
  <2>3. QED BY <2>1, <2>2 DEF Blind!Statuses
<1>5. CASE Blind!Settle(s)
  <2>1. reservation' = reservation \/ Blind!Reserved(s, Blind!Status(error[s]))
    BY <1>5 DEF Blind!Settle, Blind!Step
  <2>2. pc[s] \in Holding
    BY <1>5 DEF Blind!Settle, Blind!Step, Holding, AttemptLabels
  <2>3. QED BY <2>1, <2>2, StatusTyped
<1>6. CASE Blind!Note(s)
  <2>1. reservation' = reservation \/ Blind!Reserved(s, "publication_failed")
    BY <1>6 DEF Blind!Note
  <2>2. pc[s] \in Holding
    BY <1>6 DEF Blind!Note, Holding, AttemptLabels
  <2>3. QED BY <2>1, <2>2 DEF Blind!Statuses
<1>7. QED BY <1>1, <1>2, <1>3, <1>4, <1>5, <1>6 DEF Blind!Records

(* Custody changes by the three writes of `_publish` and its handler.      *)
LEMMA StepsKeep ==
  ASSUME AttemptsTyped, NEW s \in Recorders, Blind!Records(s) PROVE CustodyEffect(s)
<1> USE DEF CustodyEffect
<1>1. CASE Blind!Begin(s) \/ Blind!Preflight(s) \/ Blind!Guard(s) \/ Blind!Execute(s) \/ Blind!Check(s) \/ Blind!Crash(s)
  BY <1>1 DEF Blind!Begin, Blind!Preflight, Blind!Guard, Blind!Execute, Blind!Check,
     Blind!Crash, Blind!files
<1>2. CASE Blind!Reserve(s) \/ Blind!Announce(s) \/ Blind!LinkRaw(s) \/ Blind!LinkAudit(s) \/ Blind!Settle(s) \/ Blind!Rollback(s)
  BY <1>2 DEF Blind!Reserve, Blind!Announce, Blind!LinkRaw, Blind!LinkAudit, Blind!Settle,
     Blind!Rollback
<1>3. CASE Blind!KeepRecord(s)
  BY <1>3 DEF Blind!KeepRecord, Blind!Step, Blind!Goto, AttemptsTyped
<1>4. CASE Blind!KeepAudit(s)
  BY <1>4 DEF Blind!KeepAudit, Blind!Step, Blind!Goto, AttemptsTyped
<1>5. CASE Blind!Note(s)
  BY <1>5 DEF Blind!Note, Blind!Goto, AttemptsTyped
<1>6. QED BY <1>1, <1>2, <1>3, <1>4, <1>5 DEF Blind!Records

(* A canonical name is linked when free and removed by who linked it       *)
(* (_publish, _remove_owned_link).                                         *)
LEMMA StepsExpose ==
  ASSUME AttemptsTyped, NEW s \in Recorders, Blind!Records(s) PROVE RawEffect(s) /\ AuditEffect(s)
<1> USE DEF RawEffect, AuditEffect
<1>1. CASE Blind!Begin(s) \/ Blind!Preflight(s) \/ Blind!Guard(s) \/ Blind!Execute(s) \/ Blind!Check(s) \/ Blind!Crash(s)
  BY <1>1 DEF Blind!Begin, Blind!Preflight, Blind!Guard, Blind!Execute, Blind!Check,
     Blind!Crash, Blind!files
<1>2. CASE Blind!Reserve(s) \/ Blind!KeepRecord(s) \/ Blind!KeepAudit(s) \/ Blind!Announce(s) \/ Blind!Settle(s) \/ Blind!Note(s)
  BY <1>2 DEF Blind!Reserve, Blind!KeepRecord, Blind!KeepAudit, Blind!Announce,
     Blind!Settle, Blind!Note
<1>3. CASE Blind!LinkRaw(s)
  BY <1>3 DEF Blind!LinkRaw, Blind!Step, Blind!Goto, AttemptsTyped
<1>4. CASE Blind!LinkAudit(s)
  BY <1>4 DEF Blind!LinkAudit, Blind!Step, Blind!Goto, AttemptsTyped
<1>5. CASE Blind!Rollback(s)
  BY <1>5 DEF Blind!Rollback, Blind!Goto, AttemptsTyped
<1>6. QED BY <1>1, <1>2, <1>3, <1>4, <1>5 DEF Blind!Records

(* How a recorder gets to where it holds the candidate, was executed, or   *)
(* is judged.                                                              *)
Advance(s) ==
  /\ pc'[s] \in Holding => pc[s] \in Holding \/ (pc[s] = "reserve" /\ Blind!Reserved(s, "reserved"))
  /\ pc'[s] = "reserve" => approved
  /\ ran \subseteq ran' /\ (s \in ran' => s \in ran \/ pc[s] = "guard")
  /\ pc'[s] \in {"execute", "check"} => s \in ran' \/ pc[s] = "execute"
  /\ pc'[s] \in Judged =>
       \/ pc[s] \in Judged
       \/ error'[s] # "none"
       \/ pc[s] = "check" /\ record'[s] = "complete"

(* What a recorder has written when it goes on.                            *)
OnTheWay(s) ==
  /\ pc'[s] = "audit" =>
       /\ pc[s] = "custody"
       /\ record[s] = "none" \/ custody' = [custody EXCEPT ![Blind!Mine(s)].raw = Blind!FileOf(s)]
  /\ pc'[s] = "announce" => pc[s] = "audit" /\ custody' = [custody EXCEPT ![Blind!Mine(s)].audit = Blind!FileOf(s)]
  /\ pc'[s] = "link raw" => pc[s] = "announce" /\ record[s] # "none" /\ custody' = custody
  /\ pc'[s] = "link audit" =>
       /\ custody' = custody
       /\ \/ pc[s] = "announce" /\ record[s] = "none"
          \/ pc[s] = "link raw" /\ raw' = [raw EXCEPT ![Blind!Target(s)] = custody[Blind!Mine(s)].raw]
  /\ pc'[s] = "settle" =>
       /\ pc[s] = "link audit" /\ custody' = custody /\ raw' = raw
       /\ audit' = [audit EXCEPT ![Blind!Target(s)] = custody[Blind!Mine(s)].audit]
  /\ pc'[s] = "succeeded" =>
       /\ pc[s] = "settle" /\ custody' = custody /\ raw' = raw /\ audit' = audit
       /\ Blind!Reserved(s, Blind!Status(error[s]))

(* Each step moves on as Advance says: the reservation comes first, the    *)
(* guard before the execution, and no verdict without a complete record.   *)
LEMMA StepsAdvance ==
  ASSUME AttemptsTyped, NEW s \in Recorders, Blind!Records(s) PROVE Advance(s)
<1> USE DEF AttemptsTyped, Advance, Blind!Goto, AttemptLabels, Holding, Judged
<1>1. CASE Blind!Begin(s)
  BY <1>1 DEF Blind!Begin, Blind!world, Blind!files
<1>2. CASE Blind!Preflight(s)
  BY <1>2 DEF Blind!Preflight, Blind!world, Blind!files
<1>3. CASE Blind!Reserve(s)
  BY <1>3 DEF Blind!Reserve, Blind!world
<1>4. CASE Blind!Guard(s)
  BY <1>4 DEF Blind!Guard, Blind!Fail, Blind!world, Blind!files
<1>5. CASE Blind!Execute(s)
  BY <1>5 DEF Blind!Execute, Blind!Fail, Blind!world, Blind!files
<1>6. CASE Blind!Check(s)
  BY <1>6 DEF Blind!Check, Blind!Fail, Blind!world, Blind!files
<1>7. CASE Blind!KeepRecord(s)
  BY <1>7 DEF Blind!KeepRecord, Blind!Step, Blind!world
<1>8. CASE Blind!KeepAudit(s)
  BY <1>8 DEF Blind!KeepAudit, Blind!Step, Blind!world
<1>9. CASE Blind!Announce(s)
  BY <1>9 DEF Blind!Announce, Blind!Step, Blind!world
<1>10. CASE Blind!LinkRaw(s)
  BY <1>10 DEF Blind!LinkRaw, Blind!Step, Blind!world
<1>11. CASE Blind!LinkAudit(s)
  BY <1>11 DEF Blind!LinkAudit, Blind!Step, Blind!world
<1>12. CASE Blind!Settle(s)
  BY <1>12 DEF Blind!Settle, Blind!Step, Blind!world
<1>13. CASE Blind!Rollback(s)
  BY <1>13 DEF Blind!Rollback, Blind!world
<1>14. CASE Blind!Note(s)
  BY <1>14 DEF Blind!Note, Blind!world
<1>15. CASE Blind!Crash(s)
  BY <1>15 DEF Blind!Crash, Blind!world, Blind!files
<1>99. QED BY <1>1, <1>2, <1>3, <1>4, <1>5, <1>6, <1>7, <1>8, <1>9, <1>10, <1>11, <1>12,
              <1>13,
     <1>14, <1>15 DEF Blind!Records

(* Each step of the publication follows the write before it.               *)
LEMMA StepsWrite ==
  ASSUME AttemptsTyped, NEW s \in Recorders, Blind!Records(s) PROVE OnTheWay(s)
<1> USE DEF AttemptsTyped, OnTheWay, Blind!Goto, AttemptLabels
<1>1. CASE Blind!Begin(s)
  BY <1>1 DEF Blind!Begin, Blind!world, Blind!files
<1>2. CASE Blind!Preflight(s)
  BY <1>2 DEF Blind!Preflight, Blind!world, Blind!files
<1>3. CASE Blind!Reserve(s)
  BY <1>3 DEF Blind!Reserve, Blind!world
<1>4. CASE Blind!Guard(s)
  BY <1>4 DEF Blind!Guard, Blind!Fail, Blind!world, Blind!files
<1>5. CASE Blind!Execute(s)
  BY <1>5 DEF Blind!Execute, Blind!Fail, Blind!world, Blind!files
<1>6. CASE Blind!Check(s)
  BY <1>6 DEF Blind!Check, Blind!Fail, Blind!world, Blind!files
<1>7. CASE Blind!KeepRecord(s)
  BY <1>7 DEF Blind!KeepRecord, Blind!Step, Blind!world
<1>8. CASE Blind!KeepAudit(s)
  BY <1>8 DEF Blind!KeepAudit, Blind!Step, Blind!world
<1>9. CASE Blind!Announce(s)
  BY <1>9 DEF Blind!Announce, Blind!Step, Blind!world
<1>10. CASE Blind!LinkRaw(s)
  BY <1>10 DEF Blind!LinkRaw, Blind!Step, Blind!world
<1>11. CASE Blind!LinkAudit(s)
  BY <1>11 DEF Blind!LinkAudit, Blind!Step, Blind!world
<1>12. CASE Blind!Settle(s)
  BY <1>12 DEF Blind!Settle, Blind!Step, Blind!world
<1>13. CASE Blind!Rollback(s)
  BY <1>13 DEF Blind!Rollback, Blind!world
<1>14. CASE Blind!Note(s)
  BY <1>14 DEF Blind!Note, Blind!world
<1>15. CASE Blind!Crash(s)
  BY <1>15 DEF Blind!Crash, Blind!world, Blind!files
<1>99. QED BY <1>1, <1>2, <1>3, <1>4, <1>5, <1>6, <1>7, <1>8, <1>9, <1>10, <1>11, <1>12,
              <1>13,
     <1>14, <1>15 DEF Blind!Records

-----------------------------------------------------------------------------
(* Steps of the rest of the world touch none of what the parts speak of,   *)
(* but that somebody may write a free name.                                *)
OthersAct ==
  /\ aim' = aim /\ (approved => approved')
  /\ UNCHANGED <<pc, record, error, ran, reservation, custody>>
  /\ \A o \in BlindOutputs : raw'[o] = raw[o] \/ (raw[o] = NoFile /\ raw'[o] = Blind!Foreign)
  /\ \A o \in BlindOutputs : audit'[o] = audit[o] \/ (audit[o] = NoFile /\ audit'[o] = Blind!Foreign)

(* A step is one of a recorder, or of the rest of the world.               *)
LEMMA StepsOfNext ==
  ASSUME AttemptsTyped, [Blind!Next]_(Blind!vars) PROVE OthersAct \/ \E s \in Recorders : Blind!Records(s)
<1>1. CASE UNCHANGED Blind!vars
  BY <1>1 DEF Blind!vars, OthersAct
<1>2. CASE Blind!Approve
  BY <1>2 DEF Blind!Approve, OthersAct, Blind!files
<1>3. CASE Blind!Edit
  BY <1>3 DEF Blind!Edit, OthersAct, Blind!files
<1>4. ASSUME NEW o \in ContendedOutputs, Blind!WriteElsewhere(o) PROVE OthersAct
  BY <1>4 DEF Blind!WriteElsewhere, OthersAct, Blind!world, AttemptsTyped
<1>5. QED BY <1>1, <1>2, <1>3, <1>4 DEF Blind!Next

(* Reservations are written by those who hold them.                        *)
LEMMA OwnedStep ==
  ASSUME Blind!Distinct, AttemptsTyped, Owned, OthersAct \/ \E s \in Recorders : Blind!Records(s) PROVE Owned'
<1> SUFFICES ASSUME NEW r \in Recorders
    PROVE  /\ pc'[r] \in Holding \/ r \in ran' => Owns(r)'
           /\ pc'[r] \in {"execute", "check"} => r \in ran'
           /\ pc'[r] \in Holding \cup {"reserve"} \/ r \in ran' => approved'
  BY DEF Owned
<1>1. CASE OthersAct
  BY <1>1 DEF OthersAct, Owned, Owns, Blind!Mine
<1>2. ASSUME NEW s \in Recorders, Blind!Records(s), r # s
      PROVE  /\ pc'[r] \in Holding \/ r \in ran' => Owns(r)'
             /\ pc'[r] \in {"execute", "check"} => r \in ran'
             /\ pc'[r] \in Holding \cup {"reserve"} \/ r \in ran' => approved'
  <2>1. Frame(s) /\ ReservationEffect(s)
    BY <1>2, StepsFrame, StepsReserve
  <2>2. pc'[r] = pc[r] /\ (r \in ran' <=> r \in ran) /\ approved' = approved /\ Blind!Mine(r)' = Blind!Mine(r)
    BY <1>2, <2>1 DEF Frame, Blind!Mine
  <2>3. ASSUME Owns(r) PROVE Owns(r)'
    <3>1. reservation'[Blind!Mine(r)] = reservation[Blind!Mine(r)]
      <4>1. CASE reservation' = reservation
        BY <4>1
      <4>2. CASE pc[s] \in Holding
        <5>1. Owns(s)
          BY <4>2 DEF Owned
        <5>2. Blind!Mine(r) # Blind!Mine(s)
          BY <1>2, <2>3, <5>1 DEF Owns
        <5>3. QED BY <2>1, <5>2, AimTyped DEF ReservationEffect, Blind!Reserved,
                     AttemptsTyped
      <4>3. CASE reservation[Blind!Mine(s)] = NoFile
        <5>1. Blind!Mine(r) # Blind!Mine(s)
          BY <2>3, <4>3 DEF Owns
        <5>2. QED BY <2>1, <5>1, AimTyped DEF ReservationEffect, Blind!Reserved,
                     AttemptsTyped
      <4>4. QED BY <2>1, <4>1, <4>2, <4>3 DEF ReservationEffect
    <3>2. QED BY <2>2, <2>3, <3>1 DEF Owns
  <2>4. QED BY <2>2, <2>3 DEF Owned
<1>3. ASSUME Blind!Records(r)
      PROVE  /\ pc'[r] \in Holding \/ r \in ran' => Owns(r)'
             /\ pc'[r] \in {"execute", "check"} => r \in ran'
             /\ pc'[r] \in Holding \cup {"reserve"} \/ r \in ran' => approved'
  <2>1. Frame(r) /\ ReservationEffect(r) /\ Advance(r)
    BY <1>3, StepsFrame, StepsReserve, StepsAdvance
  <2>2. Blind!Mine(r)' = Blind!Mine(r) /\ approved' = approved
    BY <2>1 DEF Frame, Blind!Mine
  <2>3. ASSUME NEW x \in Blind!Statuses, Blind!Reserved(r, x) PROVE Owns(r)'
    <3>1. Blind!Reservation(r, x) \in Blind!Reservations /\ Blind!Reservation(r, x).by = r
      BY DEF Blind!Reservation, Blind!Reservations
    <3>2. reservation'[Blind!Mine(r)] = Blind!Reservation(r, x)
      BY <2>3, AimTyped DEF Blind!Reserved, AttemptsTyped
    <3>3. QED BY <2>2, <3>1, <3>2 DEF Owns, Blind!Distinct
  <2>4. Owns(r) => Owns(r)'
    <3>1. CASE reservation' = reservation
      BY <2>2, <3>1 DEF Owns
    <3>2. QED BY <2>1, <2>3, <3>1 DEF ReservationEffect
  <2>5. pc'[r] \in Holding \/ r \in ran' => Owns(r)'
    BY <2>1, <2>3, <2>4 DEF Advance, Owned, Blind!Statuses, Holding, AttemptLabels
  <2>6. pc'[r] \in {"execute", "check"} => r \in ran'
    BY <2>1 DEF Advance, Owned
  <2>7. pc'[r] \in Holding \cup {"reserve"} \/ r \in ran' => approved'
    BY <2>1, <2>2 DEF Advance, Owned, Holding, AttemptLabels
  <2>8. QED BY <2>5, <2>6, <2>7
<1>4. QED BY <1>1, <1>2, <1>3

(* A verdict without an error stays one of a complete, executed record.    *)
LEMMA HonestStep ==
  ASSUME AttemptsTyped, Owned, RecordsHonest, OthersAct \/ \E s \in Recorders : Blind!Records(s) PROVE RecordsHonest'
<1> SUFFICES ASSUME NEW r \in Recorders, pc'[r] \in Judged, error'[r] = "none"
    PROVE  record'[r] = "complete" /\ r \in ran'
  BY DEF RecordsHonest
<1>1. CASE OthersAct
  BY <1>1 DEF OthersAct, RecordsHonest
<1>2. ASSUME NEW s \in Recorders, Blind!Records(s), r # s PROVE record'[r] = "complete" /\ r \in ran'
  BY <1>2, StepsFrame DEF Frame, RecordsHonest
<1>3. ASSUME Blind!Records(r) PROVE record'[r] = "complete" /\ r \in ran'
  <2>1. Frame(r) /\ Advance(r)
    BY <1>3, StepsFrame, StepsAdvance
  <2>2. CASE pc[r] \in Judged
    <3>1. record' = record /\ error' = error /\ ran' = ran
      BY <2>1, <2>2 DEF Frame, Judged
    <3>2. QED BY <2>2, <3>1 DEF RecordsHonest
  <2>3. CASE pc[r] = "check" /\ record'[r] = "complete"
    BY <2>1, <2>3 DEF Advance, Owned
  <2>4. QED BY <2>1, <2>2, <2>3 DEF Advance
<1>4. QED BY <1>1, <1>2, <1>3

(* What a recorder has filed stays the record it holds: files are written  *)
(* once there is a verdict.                                                *)
LEMMA FiledFrame ==
  ASSUME AttemptsTyped, NEW s \in Recorders, Blind!Records(s), NEW r \in Recorders, pc[r] \in HasWritten
  PROVE  /\ record'[r] = record[r] /\ error'[r] = error[r] /\ (r \in ran' <=> r \in ran)
         /\ Blind!FileOf(r)' = Blind!FileOf(r) /\ Blind!Mine(r)' = Blind!Mine(r) /\ Blind!Target(r)' = Blind!Target(r)
<1>1. Frame(s)
  BY StepsFrame
<1>2. record'[r] = record[r] /\ error'[r] = error[r] /\ (r \in ran' <=> r \in ran)
  BY <1>1 DEF Frame, HasWritten, Judged, Holding, AttemptLabels
<1>3. QED BY <1>1, <1>2 DEF Frame, Blind!FileOf, Blind!Mine, Blind!Target

(* Nobody takes a reservation from its owner.                              *)
LEMMA OwnerStays ==
  ASSUME Blind!Distinct, AttemptsTyped, Owned, NEW s \in Recorders, Blind!Records(s), NEW r \in Recorders, Owns(r)
  PROVE  Owns(r)'
<1>1. Frame(s) /\ ReservationEffect(s)
  BY StepsFrame, StepsReserve
<1>2. Blind!Mine(r)' = Blind!Mine(r)
  BY <1>1 DEF Frame, Blind!Mine
<1>3. CASE reservation' = reservation
  BY <1>2, <1>3 DEF Owns
<1>4. CASE Blind!Mine(r) # Blind!Mine(s)
  BY <1>1, <1>2, <1>4, AimTyped DEF ReservationEffect, Blind!Reserved, AttemptsTyped, Owns
<1>5. ASSUME Blind!Mine(r) = Blind!Mine(s), NEW x \in Blind!Statuses, Blind!Reserved(s, x), pc[s] \in Holding PROVE Owns(r)'
  <2>1. r = s
    BY <1>5 DEF Owned, Owns
  <2>2. Blind!Reservation(r, x) \in Blind!Reservations /\ Blind!Reservation(r, x).by = r
    BY DEF Blind!Reservation, Blind!Reservations
  <2>3. reservation'[Blind!Mine(r)] = Blind!Reservation(r, x)
    BY <1>5, <2>1, AimTyped DEF Blind!Reserved, AttemptsTyped
  <2>4. QED BY <1>2, <2>2, <2>3 DEF Owns, Blind!Distinct
<1>6. CASE Blind!Mine(r) = Blind!Mine(s) /\ reservation[Blind!Mine(s)] = NoFile
  BY <1>6 DEF Owns
<1>7. QED BY <1>1, <1>3, <1>4, <1>5, <1>6 DEF ReservationEffect

(* Once a file may be in custody, a recorder stays where it may be.        *)
LEMMA WrittenStays ==
  ASSUME AttemptsTyped, NEW s \in Recorders, Blind!Records(s), NEW r \in Recorders, pc[r] \in HasWritten
  PROVE  pc'[r] \in HasWritten
<1>1. CASE r # s
  BY <1>1, StepsFrame DEF Frame
<1>2. CASE r = s
  <2> USE <1>2 DEF AttemptsTyped, HasWritten, Judged, Holding, AttemptLabels, Blind!Goto
  <2>1. CASE Blind!Begin(s)
    BY <2>1 DEF Blind!Begin, Blind!world, Blind!files
  <2>2. CASE Blind!Preflight(s)
    BY <2>2 DEF Blind!Preflight, Blind!world, Blind!files
  <2>3. CASE Blind!Reserve(s)
    BY <2>3 DEF Blind!Reserve, Blind!world
  <2>4. CASE Blind!Guard(s)
    BY <2>4 DEF Blind!Guard, Blind!Fail, Blind!world, Blind!files
  <2>5. CASE Blind!Execute(s)
    BY <2>5 DEF Blind!Execute, Blind!Fail, Blind!world, Blind!files
  <2>6. CASE Blind!Check(s)
    BY <2>6 DEF Blind!Check, Blind!Fail, Blind!world, Blind!files
  <2>7. CASE Blind!KeepRecord(s)
    BY <2>7 DEF Blind!KeepRecord, Blind!Step, Blind!world
  <2>8. CASE Blind!KeepAudit(s)
    BY <2>8 DEF Blind!KeepAudit, Blind!Step, Blind!world
  <2>9. CASE Blind!Announce(s)
    BY <2>9 DEF Blind!Announce, Blind!Step, Blind!world
  <2>10. CASE Blind!LinkRaw(s)
    BY <2>10 DEF Blind!LinkRaw, Blind!Step, Blind!world
  <2>11. CASE Blind!LinkAudit(s)
    BY <2>11 DEF Blind!LinkAudit, Blind!Step, Blind!world
  <2>12. CASE Blind!Settle(s)
    BY <2>12 DEF Blind!Settle, Blind!Step, Blind!world
  <2>13. CASE Blind!Rollback(s)
    BY <2>13 DEF Blind!Rollback, Blind!world
  <2>14. CASE Blind!Note(s)
    BY <2>14 DEF Blind!Note, Blind!world
  <2>15. CASE Blind!Crash(s)
    BY <2>15 DEF Blind!Crash, Blind!world, Blind!files
  <2>99. QED BY <2>1, <2>2, <2>3, <2>4, <2>5, <2>6, <2>7, <2>8, <2>9, <2>10, <2>11, <2>12,
                <2>13,
       <2>14, <2>15 DEF Blind!Records
<1>3. QED BY <1>1, <1>2

(* The raw record in custody remains that of the candidate's owner.        *)
LEMMA RawKeptStep ==
  ASSUME Blind!Distinct, AttemptsTyped, AttemptsTyped', Owned, RecordsHonest, RawKept, OthersAct \/ \E s \in Recorders : Blind!Records(s)
  PROVE  RawKept'
<1> SUFFICES ASSUME NEW c \in BlindCandidates, custody'[c].raw # NoFile
    PROVE  \E r \in Recorders : RawFiled(c, r)'
  BY DEF RawKept
<1>1. CASE OthersAct
  BY <1>1 DEF OthersAct, RawKept, RawFiled, Owns, Blind!Mine, Blind!FileOf
<1>2. ASSUME NEW s \in Recorders, Blind!Records(s), custody'[c].raw = custody[c].raw
      PROVE  \E r \in Recorders : RawFiled(c, r)'
  <2>1. PICK r \in Recorders : RawFiled(c, r)
    BY <1>2 DEF RawKept
  <2>2. /\ record'[r] = record[r] /\ error'[r] = error[r] /\ (r \in ran' <=> r \in ran)
        /\ Blind!FileOf(r)' = Blind!FileOf(r) /\ Blind!Mine(r)' = Blind!Mine(r)
    BY <1>2, <2>1, FiledFrame DEF RawFiled
  <2>3. Owns(r)' /\ pc'[r] \in HasWritten
    BY <1>2, <2>1, OwnerStays, WrittenStays DEF RawFiled
  <2>4. RawFiled(c, r)'
    BY <1>2, <2>1, <2>2, <2>3 DEF RawFiled
  <2>5. QED BY <2>4
<1>3. ASSUME NEW s \in Recorders, Blind!Records(s), custody'[c].raw # custody[c].raw
      PROVE  \E r \in Recorders : RawFiled(c, r)'
  <2>1. CustodyEffect(s) /\ Frame(s)
    BY <1>3, StepsKeep, StepsFrame
  <2>2. /\ pc[s] = "custody" /\ pc'[s] \in {"audit", "rollback"}
        /\ custody' = [custody EXCEPT ![Blind!Mine(s)].raw = Blind!FileOf(s)] /\ Blind!Mine(s) = c
    BY <1>3, <2>1, AimTyped DEF CustodyEffect, AttemptsTyped
  <2>3. custody'[c].raw = Blind!FileOf(s)
    BY <2>2, AimTyped DEF AttemptsTyped
  <2>4. pc[s] \in Holding /\ pc[s] \in Judged /\ pc'[s] \in HasWritten
    BY <2>2 DEF HasWritten, Judged, Holding, AttemptLabels
  <2>5. Owns(s) /\ (error[s] = "none" => record[s] = "complete" /\ s \in ran)
    BY <2>4 DEF Owned, RecordsHonest
  <2>6. /\ record' = record /\ error' = error /\ ran' = ran /\ Blind!FileOf(s)' = Blind!FileOf(s) /\ Blind!Mine(s)' = c
    BY <2>1, <2>2 DEF Frame, Blind!FileOf, Blind!Mine
  <2>7. Owns(s)'
    BY <1>3, <2>5, OwnerStays
  <2>8. RawFiled(c, s)'
    BY <2>3, <2>4, <2>5, <2>6, <2>7 DEF RawFiled
  <2>9. QED BY <2>8
<1>4. QED BY <1>1, <1>2, <1>3

(* The audit in custody remains that of the candidate's owner.             *)
LEMMA AuditKeptStep ==
  ASSUME Blind!Distinct, AttemptsTyped, AttemptsTyped', Owned, AuditKept, OthersAct \/ \E s \in Recorders : Blind!Records(s)
  PROVE  AuditKept'
<1> SUFFICES ASSUME NEW c \in BlindCandidates, custody'[c].audit # NoFile
    PROVE  \E r \in Recorders : AuditFiled(c, r)'
  BY DEF AuditKept
<1>1. CASE OthersAct
  BY <1>1 DEF OthersAct, AuditKept, AuditFiled, Owns, Blind!Mine
<1>2. ASSUME NEW s \in Recorders, Blind!Records(s), custody'[c].audit = custody[c].audit
      PROVE  \E r \in Recorders : AuditFiled(c, r)'
  <2>1. PICK r \in Recorders : AuditFiled(c, r)
    BY <1>2 DEF AuditKept
  <2>2. Blind!Mine(r)' = Blind!Mine(r) /\ Owns(r)' /\ pc'[r] \in HasWritten
    BY <1>2, <2>1, FiledFrame, OwnerStays, WrittenStays DEF AuditFiled
  <2>3. AuditFiled(c, r)'
    BY <1>2, <2>1, <2>2 DEF AuditFiled
  <2>4. QED BY <2>3
<1>3. ASSUME NEW s \in Recorders, Blind!Records(s), custody'[c].audit # custody[c].audit
      PROVE  \E r \in Recorders : AuditFiled(c, r)'
  <2>1. CustodyEffect(s) /\ Frame(s)
    BY <1>3, StepsKeep, StepsFrame
  <2>2. /\ pc[s] \in {"audit", "note"} /\ pc'[s] \in {"announce", "rollback", "ended"} /\ Blind!Mine(s) = c
        /\ \/ custody' = [custody EXCEPT ![Blind!Mine(s)].audit = Blind!FileOf(s)]
           \/ custody' = [custody EXCEPT ![Blind!Mine(s)].audit = Blind!Unpublished(s)]
    BY <1>3, <2>1, AimTyped DEF CustodyEffect, AttemptsTyped
  <2>3. Blind!FileOf(s).by = s /\ Blind!Unpublished(s).by = s
    BY DEF Blind!FileOf, Blind!Unpublished
  <2>4. custody'[c].audit.by = s
    BY <2>2, <2>3, AimTyped DEF AttemptsTyped
  <2>5. pc[s] \in Holding /\ pc'[s] \in HasWritten
    BY <2>2 DEF HasWritten, Judged, Holding, AttemptLabels
  <2>6. Blind!Mine(s)' = c
    BY <2>1, <2>2 DEF Frame, Blind!Mine
  <2>7. Owns(s)'
    BY <1>3, <2>5, OwnerStays DEF Owned
  <2>8. AuditFiled(c, s)'
    BY <2>4, <2>5, <2>6, <2>7 DEF AuditFiled
  <2>9. QED BY <2>8
<1>4. QED BY <1>1, <1>2, <1>3

(* Nobody else writes what belongs to the owner of a candidate.            *)
LEMMA OthersKeepOut ==
  ASSUME Blind!Distinct, AttemptsTyped, Owned, NEW s \in Recorders, Blind!Records(s),
         NEW r \in Recorders, Owns(r), r # s
  PROVE  custody'[Blind!Mine(r)] = custody[Blind!Mine(r)] /\ reservation'[Blind!Mine(r)] = reservation[Blind!Mine(r)]
<1>1. CustodyEffect(s) /\ ReservationEffect(s)
  BY StepsKeep, StepsReserve
<1>2. pc[s] \in Holding => Blind!Mine(r) # Blind!Mine(s)
  BY DEF Owned, Owns
<1>3. custody'[Blind!Mine(r)] = custody[Blind!Mine(r)]
  BY <1>1, <1>2, AimTyped DEF CustodyEffect, AttemptsTyped, Holding, AttemptLabels
<1>4. reservation[Blind!Mine(s)] = NoFile => Blind!Mine(r) # Blind!Mine(s)
  BY DEF Owns
<1>5. reservation'[Blind!Mine(r)] = reservation[Blind!Mine(r)]
  BY <1>1, <1>2, <1>4, AimTyped DEF ReservationEffect, Blind!Reserved, AttemptsTyped
<1>6. QED BY <1>3, <1>5

(* What a recorder has written is still there at its later steps, whatever *)
(* others do in between.                                                   *)
LEMMA ProgressStep ==
  ASSUME Blind!Distinct, AttemptsTyped, AttemptsTyped', Owned, AttemptProgress, OthersAct \/ \E s \in Recorders : Blind!Records(s)
  PROVE  AttemptProgress'
<1> SUFFICES ASSUME NEW r \in Recorders PROVE Reached(r)'
  BY DEF AttemptProgress
<1>0. Reached(r) /\ Blind!FileOf(r) # NoFile /\ Blind!FileOf(r).by = r
  BY FileOfTyped DEF AttemptProgress
<1>1. CASE OthersAct
  <2>1. /\ pc' = pc /\ record' = record /\ custody' = custody /\ reservation' = reservation
        /\ error' = error /\ Blind!FileOf(r)' = Blind!FileOf(r) /\ Blind!Mine(r)' = Blind!Mine(r) /\ Blind!Target(r)' = Blind!Target(r)
    BY <1>1 DEF OthersAct, Blind!FileOf, Blind!Mine, Blind!Target
  <2>2. /\ raw[Blind!Target(r)] = Blind!FileOf(r) => raw'[Blind!Target(r)] = Blind!FileOf(r)
        /\ audit[Blind!Target(r)] = Blind!FileOf(r) => audit'[Blind!Target(r)] = Blind!FileOf(r)
    BY <1>0, <1>1, AimTyped DEF OthersAct
  <2>3. QED BY <1>0, <2>1, <2>2 DEF Reached
<1>2. ASSUME NEW s \in Recorders, Blind!Records(s), r # s, pc[r] \in HasWritten, pc[r] \in Holding
      PROVE  Reached(r)'
  <2>1. /\ record'[r] = record[r] /\ error'[r] = error[r] /\ pc'[r] = pc[r]
        /\ Blind!FileOf(r)' = Blind!FileOf(r) /\ Blind!Mine(r)' = Blind!Mine(r) /\ Blind!Target(r)' = Blind!Target(r)
    BY <1>2, FiledFrame, StepsFrame DEF Frame
  <2>2. custody'[Blind!Mine(r)] = custody[Blind!Mine(r)] /\ reservation'[Blind!Mine(r)] = reservation[Blind!Mine(r)]
    BY <1>2, OthersKeepOut DEF Owned
  <2>3. RawEffect(s) /\ AuditEffect(s)
    BY <1>2, StepsExpose
  <2>4. raw[Blind!Target(r)] = Blind!FileOf(r) => raw'[Blind!Target(r)] = Blind!FileOf(r)
    BY <1>0, <1>2, <2>3, AimTyped DEF RawEffect, AttemptsTyped
  <2>5. audit[Blind!Target(r)] = Blind!FileOf(r) => audit'[Blind!Target(r)] = Blind!FileOf(r)
    BY <1>0, <1>2, <2>3, AimTyped DEF AuditEffect, AttemptsTyped
  <2>6. QED BY <1>0, <2>1, <2>2, <2>4, <2>5 DEF Reached
<1>3. ASSUME NEW s \in Recorders, Blind!Records(s), r # s,
             ~(pc[r] \in HasWritten /\ pc[r] \in Holding)
      PROVE  Reached(r)'
  <2>1. pc'[r] = pc[r]
    BY <1>3, StepsFrame DEF Frame
  <2>2. QED BY <1>3, <2>1 DEF Reached, HasWritten, Judged, Holding, AttemptLabels
<1>4. ASSUME Blind!Records(r), pc[r] \in HasWritten \cup {"custody"} PROVE Reached(r)'
  <2>1. OnTheWay(r) /\ Frame(r)
    BY <1>4, StepsWrite, StepsFrame
  <2>2. /\ record' = record /\ error' = error
        /\ Blind!FileOf(r)' = Blind!FileOf(r) /\ Blind!Mine(r)' = Blind!Mine(r) /\ Blind!Target(r)' = Blind!Target(r)
    BY <1>4, <2>1 DEF Frame, HasWritten, Judged, Holding, AttemptLabels, Blind!FileOf,
       Blind!Mine,
       Blind!Target
  <2>3. Blind!Mine(r) \in BlindCandidates /\ Blind!Target(r) \in BlindOutputs
    BY AimTyped
  <2>4. CASE pc'[r] = "audit"
    BY <1>0, <2>1, <2>2, <2>3, <2>4 DEF Reached, OnTheWay, AttemptsTyped
  <2>5. CASE pc'[r] = "announce"
    BY <1>0, <2>1, <2>2, <2>3, <2>5 DEF Reached, OnTheWay, AttemptsTyped
  <2>6. CASE pc'[r] = "link raw"
    BY <1>0, <2>1, <2>2, <2>6 DEF Reached, OnTheWay
  <2>7. CASE pc'[r] = "link audit"
    BY <1>0, <2>1, <2>2, <2>3, <2>7 DEF Reached, OnTheWay, AttemptsTyped
  <2>8. CASE pc'[r] = "settle"
    BY <1>0, <2>1, <2>2, <2>3, <2>8 DEF Reached, OnTheWay, AttemptsTyped
  <2>9. CASE pc'[r] = "succeeded"
    BY <1>0, <2>1, <2>2, <2>3, <2>9 DEF Reached, OnTheWay, Blind!Reserved, AttemptsTyped
  <2>10. QED BY <2>4, <2>5, <2>6, <2>7, <2>8, <2>9 DEF Reached
<1>5. ASSUME Blind!Records(r), pc[r] \notin HasWritten \cup {"custody"} PROVE Reached(r)'
  BY <1>5, StepsWrite DEF OnTheWay, Reached, HasWritten, Judged, Holding, AttemptLabels
<1>6. QED BY <1>1, <1>2, <1>3, <1>4, <1>5

(* Once a recorder has linked a file it goes on, rolls back or ends.       *)
LEMMA ShownStays ==
  ASSUME AttemptsTyped, NEW s \in Recorders, Blind!Records(s), NEW r \in Recorders
  PROVE  /\ pc[r] \in {"link audit", "settle", "succeeded", "rollback", "note", "ended"} =>
              pc'[r] \in {"link audit", "settle", "succeeded", "rollback", "note", "ended"}
         /\ pc[r] \in {"settle", "succeeded", "rollback", "note", "ended"} =>
              pc'[r] \in {"settle", "succeeded", "rollback", "note", "ended"}
<1>1. CASE r # s
  BY <1>1, StepsFrame DEF Frame
<1>2. CASE r = s
  <2> USE <1>2 DEF AttemptsTyped, AttemptLabels, Blind!Goto
  <2>1. CASE Blind!Begin(s)
    BY <2>1 DEF Blind!Begin, Blind!world, Blind!files
  <2>2. CASE Blind!Preflight(s)
    BY <2>2 DEF Blind!Preflight, Blind!world, Blind!files
  <2>3. CASE Blind!Reserve(s)
    BY <2>3 DEF Blind!Reserve, Blind!world
  <2>4. CASE Blind!Guard(s)
    BY <2>4 DEF Blind!Guard, Blind!Fail, Blind!world, Blind!files
  <2>5. CASE Blind!Execute(s)
    BY <2>5 DEF Blind!Execute, Blind!Fail, Blind!world, Blind!files
  <2>6. CASE Blind!Check(s)
    BY <2>6 DEF Blind!Check, Blind!Fail, Blind!world, Blind!files
  <2>7. CASE Blind!KeepRecord(s)
    BY <2>7 DEF Blind!KeepRecord, Blind!Step, Blind!world
  <2>8. CASE Blind!KeepAudit(s)
    BY <2>8 DEF Blind!KeepAudit, Blind!Step, Blind!world
  <2>9. CASE Blind!Announce(s)
    BY <2>9 DEF Blind!Announce, Blind!Step, Blind!world
  <2>10. CASE Blind!LinkRaw(s)
    BY <2>10 DEF Blind!LinkRaw, Blind!Step, Blind!world
  <2>11. CASE Blind!LinkAudit(s)
    BY <2>11 DEF Blind!LinkAudit, Blind!Step, Blind!world
  <2>12. CASE Blind!Settle(s)
    BY <2>12 DEF Blind!Settle, Blind!Step, Blind!world
  <2>13. CASE Blind!Rollback(s)
    BY <2>13 DEF Blind!Rollback, Blind!world
  <2>14. CASE Blind!Note(s)
    BY <2>14 DEF Blind!Note, Blind!world
  <2>15. CASE Blind!Crash(s)
    BY <2>15 DEF Blind!Crash, Blind!world, Blind!files
  <2>99. QED BY <2>1, <2>2, <2>3, <2>4, <2>5, <2>6, <2>7, <2>8, <2>9, <2>10, <2>11, <2>12,
                <2>13,
       <2>14, <2>15 DEF Blind!Records
<1>3. QED BY <1>1, <1>2

(* What is in custody for a candidate whose owner exposes it stays there.  *)
LEMMA CustodyStays ==
  ASSUME Blind!Distinct, AttemptsTyped, Owned, RawKept, AuditKept, NEW s \in Recorders, Blind!Records(s),
         NEW r \in Recorders, custody[Blind!Mine(r)].audit # NoFile, pc[r] \in HasWritten
  PROVE  /\ custody'[Blind!Mine(r)].audit # NoFile
         /\ custody[Blind!Mine(r)].raw = Blind!FileOf(r) => custody'[Blind!Mine(r)].raw = Blind!FileOf(r)
<1>1. CustodyEffect(s) /\ Blind!Mine(r) \in BlindCandidates
  BY StepsKeep, AimTyped
<1>2. Blind!FileOf(s) # NoFile /\ Blind!Unpublished(s) # NoFile
  BY FileOfTyped DEF Blind!FileOf, Blind!Unpublished, Blind!Files, Blind!Distinct,
     AttemptsTyped,
     RecordStages, AttemptErrors
<1>3. custody'[Blind!Mine(r)].audit # NoFile
  BY <1>1, <1>2, AimTyped DEF CustodyEffect, AttemptsTyped
<1>4. ASSUME custody[Blind!Mine(r)].raw = Blind!FileOf(r), pc[s] = "custody" PROVE Blind!Mine(s) # Blind!Mine(r)
  <2>1. PICK q \in Recorders : RawFiled(Blind!Mine(r), q)
    BY <1>1, <1>4, FileOfTyped DEF RawKept
  <2>2. q = r
    BY <1>4, <2>1 DEF RawFiled, Blind!FileOf
  <2>3. Owns(s) /\ Owns(r)
    BY <1>4, <2>1, <2>2 DEF RawFiled, Owned, Holding, AttemptLabels
  <2>4. s # r
    BY <1>4 DEF HasWritten, Judged
  <2>5. QED BY <2>3, <2>4 DEF Owns
<1>5. custody[Blind!Mine(r)].raw = Blind!FileOf(r) => custody'[Blind!Mine(r)].raw = Blind!FileOf(r)
  BY <1>1, <1>4, AimTyped DEF CustodyEffect, AttemptsTyped
<1>6. QED BY <1>3, <1>5

(* A raw record at a canonical name remains one that is in custody.        *)
LEMMA RawExposedStep ==
  ASSUME Blind!Distinct, AttemptsTyped, AttemptsTyped', Owned, RawKept, AuditKept, AttemptProgress, RawExposed,
         OthersAct \/ \E s \in Recorders : Blind!Records(s)
  PROVE  RawExposed'
<1> SUFFICES ASSUME NEW o \in BlindOutputs, raw'[o] \notin {NoFile, Blind!Foreign}
    PROVE  \E r \in Recorders : RawShown(o, r)'
  BY DEF RawExposed, Blind!Foreign
<1>1. CASE OthersAct
  BY <1>1 DEF OthersAct, RawExposed, RawShown, Blind!Mine, Blind!Target, Blind!FileOf
<1>2. ASSUME NEW s \in Recorders, Blind!Records(s), raw'[o] = raw[o]
      PROVE  \E r \in Recorders : RawShown(o, r)'
  <2>1. PICK r \in Recorders : RawShown(o, r)
    BY <1>2 DEF RawExposed
  <2>2. pc[r] \in HasWritten
    BY <2>1 DEF RawShown, HasWritten, Judged, Holding, AttemptLabels
  <2>3. Blind!FileOf(r)' = Blind!FileOf(r) /\ Blind!Mine(r)' = Blind!Mine(r) /\ Blind!Target(r)' = Blind!Target(r)
    BY <1>2, <2>2, FiledFrame
  <2>4. custody'[Blind!Mine(r)].raw = Blind!FileOf(r) /\ custody'[Blind!Mine(r)].audit # NoFile
    BY <1>2, <2>1, <2>2, CustodyStays DEF RawShown
  <2>5. RawShown(o, r)'
    BY <1>2, <2>1, <2>3, <2>4, ShownStays DEF RawShown
  <2>6. QED BY <2>5
<1>3. ASSUME NEW s \in Recorders, Blind!Records(s), raw'[o] # raw[o] PROVE RawShown(o, s)'
  <2>1. /\ pc[s] = "link raw" /\ pc'[s] \in {"link audit", "rollback"} /\ Blind!Target(s) = o
        /\ raw'[o] = custody[Blind!Mine(s)].raw
    <3>1. RawEffect(s) /\ Blind!Target(s) \in BlindOutputs
      BY <1>3, StepsExpose, AimTyped
    <3>2. QED BY <1>3, <3>1 DEF RawEffect, AttemptsTyped
  <2>2. custody[Blind!Mine(s)].raw = Blind!FileOf(s) /\ custody[Blind!Mine(s)].audit = Blind!FileOf(s) /\ Blind!FileOf(s) # NoFile
    BY <2>1, FileOfTyped DEF AttemptProgress, Reached
  <2>3. custody' = custody
    BY <1>3, <2>1, StepsKeep DEF CustodyEffect
  <2>4. pc[s] \in HasWritten
    BY <2>1 DEF HasWritten, Judged, Holding, AttemptLabels
  <2>5. Blind!FileOf(s)' = Blind!FileOf(s) /\ Blind!Mine(s)' = Blind!Mine(s) /\ Blind!Target(s)' = Blind!Target(s)
    BY <1>3, <2>4, FiledFrame
  <2>6. QED BY <2>1, <2>2, <2>3, <2>5 DEF RawShown
<1>4. QED BY <1>1, <1>2, <1>3

(* An audit at a canonical name remains one of a recorder in custody.      *)
LEMMA AuditExposedStep ==
  ASSUME Blind!Distinct, AttemptsTyped, AttemptsTyped', Owned, RawKept, AuditKept, AttemptProgress, AuditExposed,
         OthersAct \/ \E s \in Recorders : Blind!Records(s)
  PROVE  AuditExposed'
<1> SUFFICES ASSUME NEW o \in BlindOutputs, audit'[o] \notin {NoFile, Blind!Foreign}
    PROVE  \E r \in Recorders : AuditShown(o, r)'
  BY DEF AuditExposed, Blind!Foreign
<1>1. CASE OthersAct
  BY <1>1 DEF OthersAct, AuditExposed, AuditShown, Blind!Mine, Blind!Target, Blind!FileOf
<1>2. ASSUME NEW s \in Recorders, Blind!Records(s), audit'[o] = audit[o]
      PROVE  \E r \in Recorders : AuditShown(o, r)'
  <2>1. PICK r \in Recorders : AuditShown(o, r)
    BY <1>2 DEF AuditExposed
  <2>2. pc[r] \in HasWritten
    BY <2>1 DEF AuditShown, HasWritten, Judged, Holding, AttemptLabels
  <2>3. Blind!FileOf(r)' = Blind!FileOf(r) /\ Blind!Mine(r)' = Blind!Mine(r) /\ Blind!Target(r)' = Blind!Target(r)
    BY <1>2, <2>2, FiledFrame
  <2>4. custody'[Blind!Mine(r)].audit # NoFile
    BY <1>2, <2>1, <2>2, CustodyStays DEF AuditShown
  <2>5. AuditShown(o, r)'
    BY <1>2, <2>1, <2>3, <2>4, ShownStays DEF AuditShown
  <2>6. QED BY <2>5
<1>3. ASSUME NEW s \in Recorders, Blind!Records(s), audit'[o] # audit[o] PROVE AuditShown(o, s)'
  <2>1. /\ pc[s] = "link audit" /\ pc'[s] \in {"settle", "rollback"} /\ Blind!Target(s) = o
        /\ audit'[o] = custody[Blind!Mine(s)].audit
    <3>1. AuditEffect(s) /\ Blind!Target(s) \in BlindOutputs
      BY <1>3, StepsExpose, AimTyped
    <3>2. QED BY <1>3, <3>1 DEF AuditEffect, AttemptsTyped
  <2>2. custody[Blind!Mine(s)].audit = Blind!FileOf(s) /\ Blind!FileOf(s) # NoFile
    BY <2>1, FileOfTyped DEF AttemptProgress, Reached
  <2>3. custody' = custody
    BY <1>3, <2>1, StepsKeep DEF CustodyEffect
  <2>4. pc[s] \in HasWritten
    BY <2>1 DEF HasWritten, Judged, Holding, AttemptLabels
  <2>5. Blind!FileOf(s)' = Blind!FileOf(s) /\ Blind!Mine(s)' = Blind!Mine(s) /\ Blind!Target(s)' = Blind!Target(s)
    BY <1>3, <2>4, FiledFrame
  <2>6. QED BY <2>1, <2>2, <2>3, <2>5 DEF AuditShown
<1>4. QED BY <1>1, <1>2, <1>3

-----------------------------------------------------------------------------
(* The inductive invariant, and what it says of the files.                 *)
LEMMA BlindInit == ASSUME Blind!Distinct PROVE Blind!Init => BlindInvariant
<1> SUFFICES ASSUME Blind!Init PROVE BlindInvariant
  OBVIOUS
<1>1. AttemptsTyped
  BY TypedInit
<1>2. Owned /\ RecordsHonest /\ AttemptProgress
  BY DEF Blind!Init, Owned, RecordsHonest, AttemptProgress, Reached, Holding, Judged,
     AttemptLabels
<1>3. RawKept /\ AuditKept /\ RawExposed /\ AuditExposed
  BY DEF Blind!Init, RawKept, AuditKept, RawExposed, AuditExposed
<1>4. QED BY <1>1, <1>2, <1>3 DEF BlindInvariant

(* The inductive invariant is kept.                                        *)
LEMMA BlindStep ==
  ASSUME Blind!Distinct PROVE BlindInvariant /\ [Blind!Next]_(Blind!vars) => BlindInvariant'
<1> SUFFICES ASSUME BlindInvariant, [Blind!Next]_(Blind!vars) PROVE BlindInvariant'
  OBVIOUS
<1>1. AttemptsTyped /\ Owned /\ RecordsHonest /\ RawKept /\ AuditKept /\ AttemptProgress /\ RawExposed /\ AuditExposed
  BY DEF BlindInvariant
<1>2. AttemptsTyped'
  BY <1>1, TypedStep
<1>3. OthersAct \/ \E s \in Recorders : Blind!Records(s)
  BY <1>1, StepsOfNext
<1>4. QED
  BY <1>1, <1>2, <1>3, OwnedStep, HonestStep, RawKeptStep, AuditKeptStep, ProgressStep,
     RawExposedStep, AuditExposedStep DEF BlindInvariant

(* Whoever ran owns the reservation, and that has one owner.               *)
LEMMA RunsOnce ==
  ASSUME Blind!Distinct PROVE BlindInvariant => Blind!OneExecution
BY DEF BlindInvariant, Owned, Owns, Blind!OneExecution, AttemptsTyped

(* What is exposed is in custody.                                          *)
LEMMA KeepsFirst ==
  ASSUME Blind!Distinct PROVE BlindInvariant => Blind!ExposedIsKept
<1> SUFFICES ASSUME BlindInvariant, NEW o \in BlindOutputs
    PROVE  /\ raw[o] # NoFile /\ raw[o].by # Other =>
                custody[Blind!Mine(raw[o].by)].raw = raw[o] /\ custody[Blind!Mine(raw[o].by)].audit # NoFile
           /\ audit[o] # NoFile /\ audit[o].by # Other => custody[Blind!Mine(audit[o].by)].audit # NoFile
  BY DEF Blind!ExposedIsKept
<1>1. \A r : Blind!FileOf(r).by = r
  BY DEF Blind!FileOf
<1>2. Blind!Foreign.by = Other
  BY DEF Blind!Foreign
<1>3. ASSUME raw[o] # NoFile, raw[o].by # Other
      PROVE  custody[Blind!Mine(raw[o].by)].raw = raw[o] /\ custody[Blind!Mine(raw[o].by)].audit # NoFile
  <2>1. PICK r \in Recorders : RawShown(o, r)
    BY <1>2, <1>3 DEF BlindInvariant, RawExposed
  <2>2. raw[o].by = r
    BY <1>1, <2>1 DEF RawShown
  <2>3. QED BY <1>3, <2>1, <2>2 DEF RawShown
<1>4. ASSUME audit[o] # NoFile, audit[o].by # Other PROVE custody[Blind!Mine(audit[o].by)].audit # NoFile
  <2>1. PICK r \in Recorders : AuditShown(o, r)
    BY <1>2, <1>4 DEF BlindInvariant, AuditExposed
  <2>2. audit[o].by = r
    BY <1>1, <2>1 DEF AuditShown
  <2>3. QED BY <1>4, <2>1, <2>2 DEF AuditShown
<1>5. QED BY <1>3, <1>4

(* Files that bind were put there by the owner, from custody, without an   *)
(* error.                                                                  *)
LEMMA BindsFirst ==
  ASSUME Blind!Distinct PROVE BlindInvariant => Blind!BoundIsFirst
<1> SUFFICES ASSUME BlindInvariant, NEW o \in BlindOutputs, Blind!Binds(o)
    PROVE  LET r == raw[o].by
           IN approved /\ r \in ran /\ raw[o].record = "complete" /\ reservation[Blind!Mine(r)].by = r
  BY DEF Blind!BoundIsFirst
<1>1. audit[o] # Blind!Foreign
  BY DEF Blind!Binds, Blind!Foreign
<1>2. PICK r \in Recorders : AuditShown(o, r)
  BY <1>1 DEF BlindInvariant, AuditExposed, Blind!Binds
<1>3. raw[o].by = r /\ error[r] = "none" /\ r # Other
  BY <1>2 DEF AuditShown, Blind!Binds, Blind!FileOf, Blind!Distinct
<1>4. raw[o] # Blind!Foreign
  BY <1>3 DEF Blind!Foreign
<1>5. PICK q \in Recorders : RawShown(o, q)
  BY <1>4 DEF BlindInvariant, RawExposed, Blind!Binds
<1>6. q = r
  <2>1. Blind!FileOf(q).by = q
    BY DEF Blind!FileOf
  <2>2. QED BY <1>3, <1>5, <2>1 DEF RawShown
<1>7. custody[Blind!Mine(r)].raw = Blind!FileOf(r) /\ Blind!FileOf(r) # NoFile /\ Blind!Mine(r) \in BlindCandidates
     /\ raw[o] = Blind!FileOf(r)
  BY <1>5, <1>6, FileOfTyped, AimTyped DEF RawShown, BlindInvariant
<1>8. PICK p \in Recorders : RawFiled(Blind!Mine(r), p)
  BY <1>7 DEF BlindInvariant, RawKept
<1>9. p = r
  BY <1>7, <1>8 DEF RawFiled, Blind!FileOf
<1>10. record[r] = "complete" /\ r \in ran /\ Owns(r)
  BY <1>3, <1>8, <1>9 DEF RawFiled
<1>11. approved
  BY <1>10 DEF BlindInvariant, Owned
<1>12. raw[o].record = "complete"
  BY <1>7, <1>10 DEF Blind!FileOf
<1>13. QED BY <1>3, <1>10, <1>11, <1>12 DEF Owns

(* Who succeeded has written both files and the reservation.               *)
LEMMA RecordsSuccess ==
  ASSUME Blind!Distinct PROVE BlindInvariant => Blind!RecordedIsThere
BY DEF BlindInvariant, AttemptProgress, Reached, Blind!RecordedIsThere, Blind!Reservation

(* A name is written when it is free, and freed by its recorder alone.     *)
LEMMA ReplacesNothing ==
  ASSUME Blind!Distinct PROVE BlindInvariant /\ [Blind!Next]_(Blind!vars) => Blind!Replaces
<1> SUFFICES ASSUME BlindInvariant, [Blind!Next]_(Blind!vars) PROVE Blind!Replaces
  OBVIOUS
<1>0. AttemptsTyped /\ Owned /\ (OthersAct \/ \E s \in Recorders : Blind!Records(s))
  BY StepsOfNext DEF BlindInvariant
<1>1. CASE OthersAct
  BY <1>1 DEF OthersAct, Blind!Replaces
<1>2. ASSUME NEW s \in Recorders, Blind!Records(s) PROVE Blind!Replaces
  <2>1. RawEffect(s) /\ AuditEffect(s) /\ ReservationEffect(s)
    BY <1>0, <1>2, StepsExpose, StepsReserve
  <2>2. ASSUME NEW o \in BlindOutputs, raw[o] # NoFile, raw'[o] # raw[o]
        PROVE  raw'[o] = NoFile /\ pc[raw[o].by] = "rollback"
    BY <1>0, <2>1, <2>2, AimTyped DEF RawEffect, AttemptsTyped
  <2>3. ASSUME NEW o \in BlindOutputs, audit[o] # NoFile, audit'[o] # audit[o]
        PROVE  audit'[o] = NoFile /\ pc[audit[o].by] = "rollback"
    BY <1>0, <2>1, <2>3, AimTyped DEF AuditEffect, AttemptsTyped
  <2>4. ASSUME NEW c \in BlindCandidates, reservation[c] # NoFile
        PROVE  reservation'[c] # NoFile /\ reservation'[c].by = reservation[c].by
    <3>1. CASE reservation'[c] = reservation[c]
      BY <2>4, <3>1
    <3>2. ASSUME NEW x \in Blind!Statuses, Blind!Reserved(s, x), Blind!Mine(s) = c, pc[s] \in Holding
          PROVE  reservation'[c] # NoFile /\ reservation'[c].by = reservation[c].by
      <4>1. reservation[c].by = s
        BY <1>0, <3>2 DEF Owned, Owns
      <4>2. Blind!Reservation(s, x) \in Blind!Reservations /\ Blind!Reservation(s, x).by = s
        BY DEF Blind!Reservation, Blind!Reservations
      <4>3. reservation'[c] = Blind!Reservation(s, x)
        BY <1>0, <3>2 DEF Blind!Reserved, AttemptsTyped
      <4>4. QED BY <4>1, <4>2, <4>3 DEF Blind!Distinct
    <3>3. QED BY <1>0, <2>1, <2>4, <3>1, <3>2, AimTyped DEF ReservationEffect,
                 Blind!Reserved, AttemptsTyped
  <2>5. QED BY <2>2, <2>3, <2>4 DEF Blind!Replaces
<1>3. QED BY <1>0, <1>1, <1>2

(* The tree is as tagged, or edited.                                       *)
LEMMA TreeTyped ==
  ASSUME tree \in {"tagged", "edited"}, [Blind!Next]_(Blind!vars)
  PROVE  (tree \in {"tagged", "edited"})'
<1>1. CASE UNCHANGED Blind!vars
  BY <1>1 DEF Blind!vars
<1>2. CASE Blind!Approve \/ Blind!Edit
  BY <1>2 DEF Blind!Approve, Blind!Edit
<1>3. ASSUME NEW o \in ContendedOutputs, Blind!WriteElsewhere(o) PROVE tree' = tree
  BY <1>3 DEF Blind!WriteElsewhere, Blind!world
<1>4. ASSUME NEW r \in Recorders, Blind!Records(r) PROVE tree' = tree
  <2>1. UNCHANGED Blind!world
    BY <1>4 DEF Blind!Records, Blind!Begin, Blind!Preflight, Blind!Reserve, Blind!Guard,
         Blind!Execute, Blind!Check, Blind!KeepRecord, Blind!KeepAudit, Blind!Announce,
         Blind!LinkRaw, Blind!LinkAudit, Blind!Settle, Blind!Rollback, Blind!Note,
         Blind!Crash, Blind!Step
  <2>2. QED BY <2>1 DEF Blind!world
<1>5. QED BY <1>1, <1>2, <1>3, <1>4 DEF Blind!Next

(* What the invariant says of the files and of their order.                *)
LEMMA BlindIsSound ==
  ASSUME BlindInvariant, tree \in {"tagged", "edited"}
  PROVE  /\ Blind!TypeOK /\ Blind!OneExecution /\ Blind!ExposedIsKept
         /\ Blind!BoundIsFirst /\ Blind!RecordedIsThere
<1>1. AttemptsTyped
  BY DEF BlindInvariant
<1>2. \A c \in BlindCandidates : {custody[c].raw, custody[c].audit} \subseteq Blind!Files \cup {NoFile}
  BY <1>1 DEF AttemptsTyped
<1>3. Blind!TypeOK
  BY <1>1, <1>2 DEF AttemptsTyped, RecordStages, Blind!TypeOK
<1>4. QED
  BY <1>3, RunsOnce, KeepsFirst, BindsFirst, RecordsSuccess, NamesAssumption

-----------------------------------------------------------------------------
(* Assessments of recorded runs                                            *)

AssessorLabels ==
  {"bind", "reveal", "score", "write", "rename", "sync", "cleanup", "failed", "published", "dead"}

(* What was established of an assessment that goes on to score.            *)
Established(i) ==
  /\ Gold!Bound(i) /\ i.revealed = i.seal /\ i.complete /\ i.evaluated = ProgramEngine

AssessmentsTyped ==
  /\ pc \in [Assessors -> AssessorLabels]
  /\ temporary \in [Assessors -> (SUBSET Gold!Names) \cup {NoFile}]
  /\ output # NoFile =>
       \E a \in Assessors : output = [by |-> a, files |-> Gold!Names] /\ Established(given[a])

AssessmentProgress(a) ==
  /\ pc[a] \in {"bind", "reveal", "score", "failed"} => temporary[a] = NoFile
  /\ pc[a] = "reveal" => Gold!Bound(given[a])
  /\ pc[a] \in {"score", "write", "rename"} => Established(given[a])
  /\ pc[a] = "write" => temporary[a] \subseteq Gold!Names
  /\ pc[a] = "rename" => temporary[a] = Gold!Names
  /\ pc[a] \in {"sync", "published"} => output # NoFile /\ output.by = a

AssessmentInvariant == AssessmentsTyped /\ \A a \in Assessors : AssessmentProgress(a)

(* The assessment of an assessor that starts has nothing to clean up.      *)
LEMMA AssessmentInit == Gold!Init => AssessmentInvariant
BY DEF Gold!Init, AssessmentInvariant, AssessmentsTyped, AssessmentProgress, AssessorLabels,
       Gold!Names

(* A step of one assessor keeps the others' progress: it replaces no       *)
(* directory.                                                              *)
LEMMA AssessmentStep ==
  ASSUME AssessmentInvariant, NEW a \in Assessors,
         Gold!Bind(a) \/ Gold!Reveal(a) \/ Gold!Score(a) \/ Gold!Write(a) \/ Gold!Rename(a)
           \/ Gold!Sync(a) \/ Gold!Cleanup(a) \/ Gold!Crash(a)
  PROVE  AssessmentInvariant' /\ Gold!Replaces
<1> USE DEF AssessmentInvariant, AssessmentsTyped, AssessmentProgress, AssessorLabels,
            Gold!Goto, Gold!Replaces
<1>1. CASE Gold!Bind(a)
  BY <1>1 DEF Gold!Bind
<1>2. CASE Gold!Reveal(a)
  BY <1>2 DEF Gold!Reveal, Established
<1>3. CASE Gold!Score(a)
  BY <1>3 DEF Gold!Score, Gold!Names
<1>4. CASE Gold!Write(a)
  BY <1>4 DEF Gold!Write, Gold!Names
<1>5. CASE Gold!Rename(a)
  BY <1>5, NamesAssumption DEF Gold!Rename
<1>6. CASE Gold!Sync(a)
  BY <1>6 DEF Gold!Sync
<1>7. CASE Gold!Cleanup(a)
  BY <1>7 DEF Gold!Cleanup
<1>8. CASE Gold!Crash(a)
  BY <1>8 DEF Gold!Crash
<1>9. QED
  BY <1>1, <1>2, <1>3, <1>4, <1>5, <1>6, <1>7, <1>8

(* What is found at the output is one assessment.                          *)
LEMMA AssessmentIsSound ==
  ASSUME AssessmentInvariant
  PROVE  Gold!TypeOK /\ Gold!OutputIsOneAssessment /\ Gold!FailureIsClean
<1>1. Gold!TypeOK
  BY DEF AssessmentInvariant, AssessmentsTyped, Gold!TypeOK
<1>2. Gold!FailureIsClean
  BY DEF AssessmentInvariant, AssessmentProgress, Gold!FailureIsClean
<1>3. Gold!OutputIsOneAssessment
  BY DEF AssessmentInvariant, AssessmentsTyped, AssessmentProgress,
     Gold!OutputIsOneAssessment,
         Established, Gold!Bound
<1>4. QED BY <1>1, <1>2, <1>3

-----------------------------------------------------------------------------
(* The archive and its manifest                                            *)

PackagerLabels ==
  {"idle", "inspect", "write", "verify", "keep archive", "keep manifest", "replace archive",
   "replace manifest", "drop", "rollback", "incomplete", "dead"}

(* What a rollback of this run, all of it, would leave at a name.          *)
Old(k) == IF backup[k] # {} THEN backup[k] ELSE IF k \in published THEN {} ELSE output[k]

PackagesTyped ==
  /\ pc \in PackagerLabels
  /\ tree \in Pair!Holds /\ hashes \in Pair!Holds /\ published \in SUBSET Pair!Kinds
  /\ staged \in [Pair!Kinds -> SUBSET Pair!Holds]
  /\ output \in [Pair!Kinds -> SUBSET Pair!Holds]
  /\ backup \in [Pair!Kinds -> SUBSET Pair!Holds]

(* Before this run moves anything there is the old pair and no backup.     *)
NothingMoved ==
  pc \in {"idle", "inspect", "write", "verify", "keep archive"} =>
    backup = Pair!Nothing /\ output["archive"] = output["manifest"]
NothingPublished ==
  pc \in {"inspect", "write", "verify", "keep archive", "keep manifest", "replace archive"} =>
    published = {}

(* How far the two files are.                                              *)
MovedAside ==
  /\ pc = "keep manifest" => output["archive"] = {} /\ backup["manifest"] = {}
                               /\ output["manifest"] = backup["archive"]
  /\ pc = "replace archive" => output = Pair!Nothing
  /\ pc = "replace manifest" => output["manifest"] = {} /\ published = {"archive"}
  /\ pc \in {"replace archive", "replace manifest"} => backup["archive"] = backup["manifest"]
MovedIn ==
  /\ pc \in {"keep archive", "keep manifest", "replace archive"} => staged["archive"] = {hashes}
  /\ pc \in {"keep archive", "keep manifest", "replace archive", "replace manifest"} =>
       staged["manifest"] = {hashes}
  /\ pc \in {"replace manifest", "drop"} => output["archive"] = {hashes}
  /\ pc = "drop" => output["manifest"] = {hashes}

(* A rollback of everything leaves the old pair, or nothing.               *)
RollsBack == pc = "rollback" => Old("archive") = Old("manifest")

(* Where an old pair is, if there was one.                                 *)
Somewhere ==
  paired =>
    \E h \in Pair!Holds : \A k \in Pair!Kinds :
      /\ pc = "idle" => h \in output[k]
      /\ pc \in {"incomplete", "dead"} => h \in output[k] \cup backup[k]
      /\ pc \notin {"idle", "incomplete", "dead", "drop"} => h \in Old(k)

PackageInvariant ==
  PackagesTyped /\ NothingMoved /\ NothingPublished /\ MovedAside /\ MovedIn /\ RollsBack /\ Somewhere

(* The first packager finds a pair or nothing.                             *)
LEMMA PackageInit == Pair!Init => PackageInvariant
<1> SUFFICES ASSUME Pair!Init PROVE PackageInvariant
  OBVIOUS
<1>1. tree \in Pair!Holds
  BY CommitAssumption DEF Pair!Init, Pair!Holds
<1>2. PackagesTyped
  BY <1>1 DEF Pair!Init, PackagesTyped, PackagerLabels, Pair!Nothing, Pair!Kinds
<1>3. NothingMoved /\ NothingPublished /\ MovedAside /\ MovedIn /\ RollsBack
  BY DEF Pair!Init, NothingMoved, NothingPublished, MovedAside, MovedIn, RollsBack,
     Pair!Kinds
<1>4. Somewhere
  BY <1>1 DEF Pair!Init, Somewhere, Pair!Kinds
<1>5. QED BY <1>2, <1>3, <1>4 DEF PackageInvariant

(* Each step of the packager leaves values of their types.                 *)
LEMMA PackagesTypedStep ==
  ASSUME PackagesTyped, Pair!Next PROVE PackagesTyped'
<1> USE DEF PackagesTyped, PackagerLabels, Pair!Kinds
<1>1. CASE Pair!Edit
  <2>1. tree' \in Pair!Holds
    BY <1>1 DEF Pair!Edit, Pair!Holds
  <2>2. QED BY <1>1, <2>1 DEF Pair!Edit
<1>2. CASE Pair!Preflight
  BY <1>2 DEF Pair!Preflight, Pair!Nothing
<1>3. CASE Pair!Inspect
  BY <1>3 DEF Pair!Inspect
<1>4. CASE Pair!WriteArchive
  BY <1>4 DEF Pair!WriteArchive
<1>5. CASE Pair!VerifyArchive
  BY <1>5 DEF Pair!VerifyArchive, Pair!Nothing
<1>6. CASE Pair!Publish
  BY <1>6 DEF Pair!Publish, Pair!Keep, Pair!Replace
<1>7. CASE Pair!DropBackups
  BY <1>7 DEF Pair!DropBackups, Pair!Nothing
<1>8. CASE Pair!Rollback
  BY <1>8 DEF Pair!Rollback, Pair!Nothing
<1>9. CASE Pair!Crash
  BY <1>9 DEF Pair!Crash
<1>10. QED
  BY <1>1, <1>2, <1>3, <1>4, <1>5, <1>6, <1>7, <1>8, <1>9 DEF Pair!Next

(* What stands at a name, or will after a rollback, is there or beside it. *)
LEMMA OldIsThere ==
  \A k \in Pair!Kinds : Old(k) \subseteq output[k] \cup backup[k]
BY DEF Old

(* Each step moves one file aside, or in, or back.                         *)
LEMMA PackageStep ==
  ASSUME PackageInvariant, Pair!Next PROVE PackageInvariant'
<1>0. PackagesTyped /\ PackagesTyped'
  BY PackagesTypedStep DEF PackageInvariant
<1> USE DEF PackageInvariant, NothingMoved, NothingPublished, MovedAside, MovedIn,
            RollsBack,
            Pair!Kinds
<1> DEFINE Rest == NothingMoved /\ NothingPublished /\ MovedAside /\ MovedIn /\ RollsBack
<1>1. CASE Pair!Edit
  BY <1>0, <1>1 DEF Pair!Edit, Somewhere, Old
<1>2. CASE Pair!Preflight
  BY <1>0, <1>2 DEF Pair!Preflight, Pair!Nothing, Somewhere, Old
<1>3. CASE Pair!Inspect
  BY <1>0, <1>3 DEF Pair!Inspect, Somewhere, Old
<1>4. CASE Pair!WriteArchive
  BY <1>0, <1>4 DEF Pair!WriteArchive, Somewhere, Old
<1>5. CASE Pair!VerifyArchive
  <2>1. Rest'
    BY <1>0, <1>5 DEF Pair!VerifyArchive, PackagesTyped
  <2>2. Somewhere'
    BY <1>0, <1>5 DEF Pair!VerifyArchive, Pair!Nothing, Somewhere, Old
  <2>3. QED BY <1>0, <2>1, <2>2
<1>6. CASE Pair!Publish
  <2>1. CASE Pair!Keep("archive", "keep archive", "keep manifest")
    <3>1. /\ backup = Pair!Nothing /\ output["archive"] = output["manifest"] /\ published = {}
          /\ published' = published /\ staged' = staged /\ hashes' = hashes /\ paired' = paired
          /\ Somewhere /\ pc = "keep archive"
      BY <2>1 DEF Pair!Keep
    <3>2. \A k \in Pair!Kinds : Old(k) = output[k] /\ Old(k)' = output[k]
      BY <1>0, <2>1, <3>1 DEF Pair!Keep, Pair!Nothing, PackagesTyped, Old
    <3>3. Somewhere'
      <4>1. pc' \notin {"idle", "incomplete", "dead", "drop"} /\ paired' = paired
        BY <2>1 DEF Pair!Keep
      <4>2. ASSUME paired
            PROVE  \E h \in Pair!Holds : \A k \in Pair!Kinds : h \in Old(k)'
        <5>1. PICK h \in Pair!Holds : \A k \in Pair!Kinds : h \in Old(k)
          BY <3>1, <4>2 DEF Somewhere
        <5>2. \A k \in Pair!Kinds : h \in Old(k)'
          BY <3>2, <5>1
        <5>3. QED BY <5>2
      <4>3. QED BY <4>1, <4>2 DEF Somewhere
    <3>4. Rest'
      BY <1>0, <2>1, <3>1, <3>2 DEF Pair!Keep, Pair!Nothing, PackagesTyped
    <3>5. QED BY <1>0, <3>3, <3>4
  <2>2. CASE Pair!Keep("manifest", "keep manifest", "replace archive")
    BY <1>0, <2>2 DEF Pair!Keep, Pair!Nothing, PackagesTyped, Somewhere, Old
  <2>3. CASE Pair!Replace("archive", "replace archive", "replace manifest")
    BY <1>0, <2>3 DEF Pair!Replace, Pair!Nothing, PackagesTyped, Somewhere, Old
  <2>4. CASE Pair!Replace("manifest", "replace manifest", "drop")
    BY <1>0, <2>4 DEF Pair!Replace, Pair!Nothing, PackagesTyped, Somewhere, Old
  <2>5. QED BY <1>6, <2>1, <2>2, <2>3, <2>4 DEF Pair!Publish
<1>7. CASE Pair!DropBackups
  BY <1>0, <1>7 DEF Pair!DropBackups, Pair!Nothing, PackagesTyped, Somewhere, Old
<1>8. CASE Pair!Rollback
  BY <1>0, <1>8 DEF Pair!Rollback, Pair!Nothing, PackagesTyped, Somewhere, Old
<1>9. CASE Pair!Crash
  <2>1. Somewhere'
    <3>1. CASE pc = "drop"
      BY <1>0, <1>9, <3>1 DEF Pair!Crash, Somewhere, PackagesTyped
    <3>2. CASE pc # "drop"
      BY <1>0, <1>9, <3>2, OldIsThere DEF Pair!Crash, Somewhere
    <3>3. QED BY <3>1, <3>2
  <2>2. QED BY <1>0, <1>9, <2>1 DEF Pair!Crash
<1>10. QED
  BY <1>1, <1>2, <1>3, <1>4, <1>5, <1>6, <1>7, <1>8, <1>9 DEF Pair!Next

(* Nobody who is not told otherwise finds one file without the other.      *)
LEMMA PackageIsSound ==
  ASSUME PackageInvariant PROVE Pair!TypeOK /\ Pair!PairIsOne /\ Pair!PairIsSomewhere
<1>1. Pair!TypeOK
  BY DEF PackageInvariant, PackagesTyped, Pair!TypeOK
<1>2. Pair!PairIsOne
  BY DEF PackageInvariant, NothingMoved, Pair!PairIsOne
<1>3. Pair!PairIsSomewhere
  BY OldIsThere DEF PackageInvariant, Somewhere, MovedIn, Pair!PairIsSomewhere, Pair!Kinds
<1>4. QED BY <1>1, <1>2, <1>3

-----------------------------------------------------------------------------
(* The sealed packet                                                       *)

(* Every member was made by the authors' tools, of one edition or another. *)
MadeByTools(p) ==
  /\ p = [name \in Packet!Names |-> p[name]]
  /\ \A name \in Packet!Names : \E e \in PacketEditions : p[name] = Packet!Member(name, e)

Ledger == [hashes |-> packet, policy |-> policy, ids |-> ids]

PacketInvariant ==
  /\ state \in {"author", "sealed", "altered", "refused", "revealed", "rejected"}
  /\ MadeByTools(packet)
  /\ state \in {"author", "refused"} => seal = {}
  /\ state = "sealed" => seal = {Ledger}
  /\ state \notin {"author", "refused"} =>
       \E p : /\ MadeByTools(p) /\ Packet!Links(p, policy, ids)
              /\ seal = {[hashes |-> p, policy |-> policy, ids |-> ids]}
  /\ state = "revealed" => \A ledger \in seal : Packet!Reveals(packet, ledger)
  /\ state = "rejected" => \E ledger \in seal : ~Packet!Reveals(packet, ledger)

(* A packet is put together from what the tools made.                      *)
LEMMA PacketInit == Packet!Init => PacketInvariant
<1> SUFFICES ASSUME Packet!Init PROVE PacketInvariant
  OBVIOUS
<1>1. MadeByTools(packet)
  BY DEF Packet!Init, MadeByTools, Packet!Mixture
<1>2. QED BY <1>1 DEF Packet!Init, PacketInvariant

(* A ledger is of members whose links were checked.                        *)
LEMMA PacketStep == ASSUME PacketInvariant, Packet!Next PROVE PacketInvariant'
<1>1. CASE Packet!SealContracts
  <2>1. MadeByTools(packet)' /\ MadeByTools(packet)
    BY <1>1 DEF Packet!SealContracts, PacketInvariant
  <2>2. CASE Packet!Links(packet, policy, ids)
    BY <1>1, <2>1, <2>2 DEF Packet!SealContracts, PacketInvariant, Ledger
  <2>3. CASE ~Packet!Links(packet, policy, ids)
    BY <1>1, <2>1, <2>3 DEF Packet!SealContracts, PacketInvariant
  <2>4. QED BY <2>2, <2>3
<1>2. CASE Packet!Regenerate
  <2>1. MadeByTools(packet)'
    BY <1>2 DEF Packet!Regenerate, PacketInvariant, MadeByTools
  <2>2. QED BY <1>2, <2>1 DEF Packet!Regenerate, PacketInvariant
<1>3. CASE Packet!Reveal
  BY <1>3 DEF Packet!Reveal, PacketInvariant
<1>4. QED BY <1>1, <1>2, <1>3 DEF Packet!Next

(* Members that name each other as `_validate_links` wants them are those  *)
(* of one edition: the one that the members themselves show.               *)
Shown(p) ==
  [text |-> p["source-labels"].text, contract |-> p["confirmed-contract"],
   rules |-> p["canonical-policy-ir"].rules, engine |-> p["frozen-suite"].engine,
   gold |-> p["frozen-suite"].gold, defects |-> p["defect-manifest"].defects,
   confirmed |-> p["canonical-policy-ir"].confirmed]
(* Members that name one another by hash are of one edition.               *)
LEMMA LinkedIsOneEdition ==
  ASSUME NEW p, NEW text, NEW sealedIds, MadeByTools(p), Packet!Links(p, text, sealedIds)
  PROVE  /\ p = Packet!Consistent(Shown(p))
         /\ text = Shown(p).text /\ sealedIds = Shown(p).defects /\ Shown(p).confirmed
<1> DEFINE source == p["source-labels"]     baseline == p["canonical-policy-ir"]
           suite_ == p["frozen-suite"]       report == p["expected-effects"]
           manifest == p["defect-manifest"] corrected == p["corrected-semantics"]
<1>1. \A name \in Packet!Names : \E e \in PacketEditions : p[name] = Packet!Member(name, e)
  BY DEF MadeByTools
<1>2. PICK e1 \in PacketEditions : source = Packet!SourceOf(e1)
  BY <1>1 DEF Packet!Names, Packet!Member
<1>3. PICK e2 \in PacketEditions : baseline = Packet!PolicyOf(e2)
  BY <1>1 DEF Packet!Names, Packet!Member
<1>4. PICK e3 \in PacketEditions : suite_ = Packet!SuiteOf(e3)
  BY <1>1 DEF Packet!Names, Packet!Member
<1>5. PICK e4 \in PacketEditions : report = Packet!ReportOf(e4)
  BY <1>1 DEF Packet!Names, Packet!Member
<1>6. PICK e5 \in PacketEditions : manifest = Packet!ManifestOf(e5)
  BY <1>1 DEF Packet!Names, Packet!Member
<1>7. PICK e6 \in PacketEditions : corrected = Packet!CorrectedOf(e6)
  BY <1>1 DEF Packet!Names, Packet!Member
<1>8. /\ source = Packet!SourceOf(Shown(p)) /\ baseline = Packet!PolicyOf(Shown(p))
      /\ text = Shown(p).text /\ sealedIds = Shown(p).defects /\ Shown(p).confirmed
  BY <1>2, <1>3, <1>6 DEF Packet!Links, Packet!SourceOf, Packet!PolicyOf, Shown
<1>9. suite_ = Packet!SuiteOf(Shown(p)) /\ manifest = Packet!ManifestOf(Shown(p))
  BY <1>4, <1>6, <1>8
     DEF Packet!Links, Packet!SuiteOf, Packet!ManifestOf, Packet!ContractOf, Shown
<1>10. report = Packet!ReportOf(Shown(p)) /\ corrected = Packet!CorrectedOf(Shown(p))
  BY <1>5, <1>7, <1>8, <1>9
     DEF Packet!Links, Packet!ReportOf, Packet!CorrectedOf, Packet!ContractOf, Shown
<1>11. p["confirmed-contract"] = Packet!ContractOf(Shown(p))
  BY DEF Packet!ContractOf, Shown
<1>12. \A name \in Packet!Names : p[name] = Packet!Member(name, Shown(p))
  BY <1>8, <1>9, <1>10, <1>11 DEF Packet!Names, Packet!Member
<1>13. p = Packet!Consistent(Shown(p))
  BY <1>12 DEF Packet!Consistent, MadeByTools
<1>14. QED BY <1>8, <1>13

(* What was linked when it was sealed is revealed to the same engine, if   *)
(* it has a gold case.                                                     *)
LEMMA SealedCanBeRevealed ==
  ASSUME NEW p, Packet!Links(p, policy, ids),
         p["frozen-suite"].engine = ProgramEngine, p["defect-manifest"].gold # {}
  PROVE  Packet!Reveals(p, [hashes |-> p, policy |-> policy, ids |-> ids])
BY DEF Packet!Links, Packet!Reveals

(* The seals mean what they say.                                           *)
LEMMA PacketIsSound ==
  ASSUME PacketInvariant
  PROVE  Packet!TypeOK /\ Packet!SealedIsOneEdition /\ Packet!RevealedIsSealed
<1>1. Packet!TypeOK
  BY DEF PacketInvariant, MadeByTools, Packet!TypeOK
<1>2. Packet!SealedIsOneEdition
  <2> SUFFICES ASSUME NEW ledger \in seal
               PROVE  /\ ledger.hashes = Packet!Consistent(Shown(ledger.hashes))
                      /\ ledger.policy = Shown(ledger.hashes).text
                      /\ ledger.ids = Shown(ledger.hashes).defects
                      /\ Shown(ledger.hashes).confirmed
    BY DEF Packet!SealedIsOneEdition, Shown
  <2>1. PICK p : /\ MadeByTools(p) /\ Packet!Links(p, policy, ids)
                 /\ ledger = [hashes |-> p, policy |-> policy, ids |-> ids]
    BY DEF PacketInvariant
  <2>2. QED BY <2>1, LinkedIsOneEdition
<1>3. Packet!RevealedIsSealed
  <2> SUFFICES ASSUME NEW ledger \in seal
               PROVE  /\ state = "revealed" => packet = ledger.hashes
                      /\ state = "rejected" /\ packet = ledger.hashes =>
                           \/ packet["frozen-suite"].engine # ProgramEngine
                           \/ packet["defect-manifest"].gold = {}
    BY DEF Packet!RevealedIsSealed
  <2>1. PICK p : /\ Packet!Links(p, policy, ids)
                 /\ seal = {[hashes |-> p, policy |-> policy, ids |-> ids]}
    BY DEF PacketInvariant
  <2>2. state = "revealed" => packet = ledger.hashes
    BY DEF PacketInvariant, Packet!Reveals
  <2>3. ASSUME state = "rejected", packet = ledger.hashes,
               packet["frozen-suite"].engine = ProgramEngine,
               packet["defect-manifest"].gold # {}
        PROVE  FALSE
    <3>1. packet = p /\ ledger = [hashes |-> p, policy |-> policy, ids |-> ids]
      BY <2>1, <2>3
    <3>2. Packet!Reveals(p, ledger)
      BY <2>1, <2>3, <3>1, SealedCanBeRevealed
    <3>3. QED BY <2>1, <2>3, <3>1, <3>2 DEF PacketInvariant
  <2>4. QED BY <2>2, <2>3
<1>4. QED BY <1>1, <1>2, <1>3

-----------------------------------------------------------------------------
(* The parts together                                                      *)

PlanningInvariant ==
  /\ part \in {"overlap", "serial"} => RunsInvariant
  /\ part = "serial" => SerialInvariant
  /\ part = "blind" => BlindInvariant /\ tree \in {"tagged", "edited"}
  /\ part = "gold" => AssessmentInvariant
  /\ part = "pair" => PackageInvariant
  /\ part = "packet" => PacketInvariant

(* A step of nobody keeps the assessments,                                 *)
LEMMA AssessmentStutter ==
  ASSUME AssessmentInvariant, UNCHANGED Gold!vars PROVE AssessmentInvariant' /\ Gold!Replaces
BY DEF AssessmentInvariant, AssessmentsTyped, AssessmentProgress, Gold!vars, Gold!Replaces

(* the archive with its manifest,                                          *)
LEMMA PackageStutter ==
  ASSUME PackageInvariant, UNCHANGED Pair!vars PROVE PackageInvariant'
BY DEF PackageInvariant, PackagesTyped, NothingMoved, NothingPublished, MovedAside, MovedIn,
       RollsBack, Somewhere, Old, Pair!vars

(* and the packet.                                                         *)
LEMMA PacketStutter ==
  ASSUME PacketInvariant, UNCHANGED Packet!vars PROVE PacketInvariant'
BY DEF PacketInvariant, MadeByTools, Ledger, Packet!vars

(* A step is of the part that was chosen.                                  *)
LEMMA PartOfStep ==
  ASSUME [Next]_vars
  PROVE  /\ part' = part
         /\ part = "overlap" => [EngineRun!Next]_(EngineRun!vars)
         /\ part = "serial" =>
              (EngineRun!Next /\ OneAtATime') \/ UNCHANGED EngineRun!vars
         /\ part = "blind" => [Blind!Next]_(Blind!vars)
         /\ part = "gold" => [Gold!Next]_(Gold!vars)
         /\ part = "pair" => [Pair!Next]_(Pair!vars)
         /\ part = "packet" => [Packet!Next]_(Packet!vars)
<1>1. CASE Next
  <2>1. part' = part
    BY <1>1 DEF Next, CustodyNext, Part
  <2>2. part \in {"overlap", "serial"} => EngineRun!Next /\ (part = "serial" => OneAtATime')
    BY <1>1 DEF Next, CustodyNext, Part
  <2>3. part = "blind" => Blind!Next
    BY <1>1 DEF Next, CustodyNext, Part
  <2>4. part = "gold" => Gold!Next
    BY <1>1 DEF Next, CustodyNext, Part
  <2>5. part = "pair" => Pair!Next
    BY <1>1 DEF Next, CustodyNext, Part
  <2>6. part = "packet" => Packet!Next
    BY <1>1 DEF Next, CustodyNext, Part
  <2>7. QED BY <2>1, <2>2, <2>3, <2>4, <2>5, <2>6
<1>2. CASE UNCHANGED vars
  BY <1>2 DEF vars, runVars, custodyVars, blindVars, packetVars, pairVars, goldVars,
              EngineRun!vars, Blind!vars, Gold!vars, Pair!vars, Packet!vars
<1>3. QED BY <1>1, <1>2

(* Every part begins in its invariant.                                     *)
LEMMA PlanningInit == Init => PlanningInvariant
<1> SUFFICES ASSUME Init PROVE PlanningInvariant
  OBVIOUS
<1>1. part \in {"overlap", "serial"} => EngineRun!Init
  BY DEF Init, CustodyInit
<1>2. part = "blind" => Blind!Init
  BY DEF Init, CustodyInit
<1>3. part = "gold" => Gold!Init
  BY DEF Init, CustodyInit
<1>4. part = "pair" => Pair!Init
  BY DEF Init, CustodyInit
<1>5. part = "packet" => Packet!Init
  BY DEF Init, CustodyInit
<1>6. Blind!Init => tree \in {"tagged", "edited"}
  BY DEF Blind!Init
<1>7. QED
  BY <1>1, <1>2, <1>3, <1>4, <1>5, <1>6, RunsInit, SerialInit, BlindInit, NamesAssumption,
     AssessmentInit, PackageInit, PacketInit DEF PlanningInvariant

(* Every part keeps its invariant, and what the parts may never do.        *)
LEMMA PlanningStep ==
  ASSUME PlanningInvariant, [Next]_vars
  PROVE  /\ PlanningInvariant'
         /\ part = "serial" => EngineRun!Archives /\ EngineRun!Retains
         /\ part = "blind" => Blind!Replaces
         /\ part = "gold" => Gold!Replaces
<1>1. part' = part
  BY PartOfStep
<1>2. ASSUME part \in {"overlap", "serial"} PROVE RunsInvariant'
  BY <1>2, PartOfStep, RunsStep, RunsStutter DEF PlanningInvariant
<1>3. ASSUME part = "serial" PROVE SerialInvariant' /\ EngineRun!Archives /\ EngineRun!Retains
  <2>1. CASE EngineRun!Next /\ OneAtATime'
    BY <1>3, <2>1, SerialStep DEF PlanningInvariant
  <2>2. CASE UNCHANGED EngineRun!vars
    <3>1. SerialInvariant'
      BY <1>3, <2>2, SerialStutter DEF PlanningInvariant
    <3>2. saved' = saved
      BY <2>2 DEF EngineRun!vars
    <3>3. QED BY <3>1, <3>2 DEF EngineRun!Archives, EngineRun!Retains
  <2>3. QED BY <1>3, <2>1, <2>2, PartOfStep
<1>4. ASSUME part = "blind"
      PROVE  (BlindInvariant /\ tree \in {"tagged", "edited"})' /\ Blind!Replaces
  <2>1. BlindInvariant /\ tree \in {"tagged", "edited"} /\ [Blind!Next]_(Blind!vars)
    BY <1>4, PartOfStep DEF PlanningInvariant
  <2>2. BlindInvariant' /\ Blind!Replaces
    BY <2>1, BlindStep, ReplacesNothing, NamesAssumption
  <2>3. QED BY <2>1, <2>2, TreeTyped
<1>5. ASSUME part = "gold" PROVE AssessmentInvariant' /\ Gold!Replaces
  BY <1>5, PartOfStep, AssessmentStep, AssessmentStutter DEF PlanningInvariant, Gold!Next
<1>6. ASSUME part = "pair" PROVE PackageInvariant'
  BY <1>6, PartOfStep, PackageStep, PackageStutter DEF PlanningInvariant
<1>7. ASSUME part = "packet" PROVE PacketInvariant'
  BY <1>7, PartOfStep, PacketStep, PacketStutter DEF PlanningInvariant
<1>8. QED
  BY <1>1, <1>2, <1>3, <1>4, <1>5, <1>6, <1>7 DEF PlanningInvariant

(* The inductive invariant of all parts.                                   *)
THEOREM PlanningIsInvariant == Spec => []PlanningInvariant
<1>1. PlanningInvariant /\ [Next]_vars => PlanningInvariant'
  BY PlanningStep
<1>2. QED BY <1>1, PlanningInit, PTL DEF Spec

(* However requests on one run overlap, fail or end with the process, a    *)
(* record that can be read shows evidence of the policy and the suite it   *)
(* shows, a score of that evidence, and no launch of unverified wording    *)
(* (store.py, api/runs.py).                                                *)
THEOREM RecordsStayConsistent == Spec => []RecordsAreConsistent
<1>1. PlanningInvariant => RecordsAreConsistent
  BY RunsAreSound DEF PlanningInvariant, RecordsAreConsistent
<1>2. QED BY <1>1, PlanningIsInvariant, PTL

(* Whatever crashes, fails or is written in between, a candidate has one   *)
(* recorded run, an assessment is of one complete run, an archive has its  *)
(* manifest, and a sealed packet is the work of one edition                *)
(* (record_blind_run.py, gold_assessment.py, package_submission.py,        *)
(* validate_and_seal_blind_contracts.py).                                  *)
THEOREM EvidenceStaysFirstHand == Spec => []EvidenceIsFirstHand
<1>1. PlanningInvariant => EvidenceIsFirstHand
  BY BlindIsSound, AssessmentIsSound, PackageIsSound, PacketIsSound
     DEF PlanningInvariant, EvidenceIsFirstHand
<1>2. QED BY <1>1, PlanningIsInvariant, PTL

(* While requests do not overlap nothing that a save replaces is lost, and *)
(* what was recorded or published once of a benchmark is not replaced      *)
(* (_archive_evidence, _reserve, _publish, _rename_no_replace).            *)
THEOREM NothingIsEverForgotten == Spec => NothingIsForgotten
<1>1. PlanningInvariant /\ [Next]_vars =>
        [/\ part = "serial" => EngineRun!Archives /\ EngineRun!Retains
         /\ part = "blind" => Blind!Replaces
         /\ part = "gold" => Gold!Replaces]_vars
  BY PlanningStep
<1>2. QED BY <1>1, PlanningIsInvariant, PTL DEF Spec, NothingIsForgotten

-----------------------------------------------------------------------------
(* Each component by itself                                                *)

(* However requests on one run overlap, the records of the engine sidecar  *)
(* have their types and show what belongs together.                        *)
THEOREM EngineRecordsAreSound ==
  EngineRun!Spec => [](/\ EngineRun!TypeOK /\ EngineRun!EvidenceIsCurrent
                       /\ EngineRun!CompletedIsScored /\ EngineRun!RevisedIsNotLaunched)
<1>1. RunsInvariant /\ [EngineRun!Next]_(EngineRun!vars) => RunsInvariant'
  BY RunsStep, RunsStutter
<1>2. QED BY <1>1, RunsInit, RunsAreSound, PTL DEF EngineRun!Spec

(* What the assessments of gold_assessment.py publish is one assessment of *)
(* one complete run, and a failed one leaves nothing behind.               *)
THEOREM AssessmentsAreSound ==
  Gold!Spec => [](Gold!TypeOK /\ Gold!OutputIsOneAssessment /\ Gold!FailureIsClean)
<1>1. AssessmentInvariant /\ [Gold!Next]_(Gold!vars) => AssessmentInvariant'
  BY AssessmentStep, AssessmentStutter DEF Gold!Next
<1>2. AssessmentInvariant => Gold!TypeOK /\ Gold!OutputIsOneAssessment /\ Gold!FailureIsClean
  BY AssessmentIsSound
<1>3. QED BY <1>1, <1>2, AssessmentInit, PTL DEF Gold!Spec

(* The packager (package_submission.py) never leaves an archive without    *)
(* its manifest, and does not lose the pair it replaces.                   *)
THEOREM PackagesAreSound ==
  Pair!Spec => [](Pair!TypeOK /\ Pair!PairIsOne /\ Pair!PairIsSomewhere)
<1>1. PackageInvariant /\ [Pair!Next]_(Pair!vars) => PackageInvariant'
  BY PackageStep, PackageStutter
<1>2. PackageInvariant => Pair!TypeOK /\ Pair!PairIsOne /\ Pair!PairIsSomewhere
  BY PackageIsSound
<1>3. QED BY <1>1, <1>2, PackageInit, PTL DEF Pair!Spec

(* What is sealed is one edition, and what is revealed was sealed          *)
(* (validate_and_seal_blind_contracts.py).                                 *)
THEOREM PacketsAreSound ==
  Packet!Spec => [](Packet!TypeOK /\ Packet!SealedIsOneEdition /\ Packet!RevealedIsSealed)
<1>1. PacketInvariant /\ [Packet!Next]_(Packet!vars) => PacketInvariant'
  BY PacketStep, PacketStutter
<1>2. PacketInvariant => Packet!TypeOK /\ Packet!SealedIsOneEdition /\ Packet!RevealedIsSealed
  BY PacketIsSound
<1>3. QED BY <1>1, <1>2, PacketInit, PTL DEF Packet!Spec

(* The inductive invariant holds of every behaviour.                       *)
THEOREM AttemptInvariant == Blind!Spec => []BlindInvariant
<1>1. Blind!Init => BlindInvariant
  BY BlindInit, NamesAssumption
<1>2. BlindInvariant /\ [Blind!Next]_(Blind!vars) => BlindInvariant'
  BY BlindStep, NamesAssumption
<1>3. QED BY <1>1, <1>2, PTL DEF Blind!Spec

(* A candidate is executed at most once, whatever fails or crashes, and    *)
(* however many recorders are started for it (record_blind_run.py, _reserve). *)
THEOREM ExecutedOnce == Blind!Spec => []Blind!OneExecution
<1>1. BlindInvariant => Blind!OneExecution
  BY RunsOnce, NamesAssumption
<1>2. QED BY <1>1, AttemptInvariant, PTL

(* What stands at a canonical name is in custody (record_blind_run.py:776). *)
THEOREM ExposedAfterKept == Blind!Spec => []Blind!ExposedIsKept
<1>1. BlindInvariant => Blind!ExposedIsKept
  BY KeepsFirst, NamesAssumption
<1>2. QED BY <1>1, AttemptInvariant, PTL

(* A pair of files that binds (blind_evidence.py, bind_first_run) is the   *)
(* complete record of the only execution of an approved candidate.         *)
THEOREM BindingIsFirst == Blind!Spec => []Blind!BoundIsFirst
<1>1. BlindInvariant => Blind!BoundIsFirst
  BY BindsFirst, NamesAssumption
<1>2. QED BY <1>1, AttemptInvariant, PTL

(* Who was told that the run is recorded finds both files.                 *)
THEOREM SuccessIsRecorded == Blind!Spec => []Blind!RecordedIsThere
<1>1. BlindInvariant => Blind!RecordedIsThere
  BY RecordsSuccess, NamesAssumption
<1>2. QED BY <1>1, AttemptInvariant, PTL

(* At a canonical name nothing is replaced, only the recorder that put a   *)
(* file there removes it (_remove_owned_link), and no reservation is ever  *)
(* given back (_reserve).                                                  *)
THEOREM NothingReplaced == Blind!Spec => Blind!NothingIsReplaced
<1>1. BlindInvariant /\ [Blind!Next]_(Blind!vars) => [Blind!Replaces]_(Blind!vars)
  BY ReplacesNothing, NamesAssumption
<1>2. QED BY <1>1, AttemptInvariant, PTL DEF Blind!Spec, Blind!NothingIsReplaced

-----------------------------------------------------------------------------
(* The gate of a submission (SubmissionClaims).                            *)

(* Two digits and a rest read as the number they were made of.             *)
LEMMA DigitsRead ==
  ASSUME NEW n \in Nat
  PROVE  /\ Claims!Reading(Claims!PercentDisplay(n)) = n
         /\ Claims!Reading(Claims!Cost(n)) = n
         /\ Claims!Reading(Claims!Plain(n)) = 100 * n
<1>. DEFINE w == n \div 100
            d == n % 100
<1>1. w \in Nat /\ d \in 0..99 /\ n = 100 * w + d
  OBVIOUS
<1>. DEFINE a == d \div 10
            b == d % 10
<1>2. a \in 0..9 /\ b \in 0..9 /\ d = 10 * a + b
  BY <1>1
<1>3. n % 10 = b
  BY <1>1, <1>2
<1>4. Claims!Reading(Claims!Cost(n)) = n
  <2>1. Claims!Cost(n) = [unit |-> "$", whole |-> w, fraction |-> <<a, b>>]
    BY <1>3 DEF Claims!Cost
  <2>. HIDE DEF w, a, b, d
  <2>2. Claims!Reading([unit |-> "$", whole |-> w, fraction |-> <<a, b>>]) = w * 100 + a * 10 + b
    BY <1>1, <1>2 DEF Claims!Reading
  <2>. QED BY <1>1, <1>2, <2>1, <2>2
<1>5. Claims!Reading(Claims!Plain(n)) = 100 * n
  BY DEF Claims!Plain, Claims!Reading
<1>6. Claims!Reading(Claims!PercentDisplay(n)) = n
  <2>1. Claims!PercentDisplay(n) =
          [unit |-> "%", whole |-> w,
           fraction |-> IF d = 0 THEN <<>> ELSE IF b = 0 THEN <<a>> ELSE <<a, b>>]
    BY DEF Claims!PercentDisplay
  <2>. HIDE DEF w, a, b, d
  <2>2. Claims!Reading([unit |-> "%", whole |-> w, fraction |-> <<>>]) = w * 100
    BY <1>1 DEF Claims!Reading
  <2>3. Claims!Reading([unit |-> "%", whole |-> w, fraction |-> <<a>>]) = w * 100 + a * 10
    BY <1>1, <1>2 DEF Claims!Reading
  <2>4. Claims!Reading([unit |-> "%", whole |-> w, fraction |-> <<a, b>>]) = w * 100 + a * 10 + b
    BY <1>1, <1>2 DEF Claims!Reading
  <2>. QED BY <1>1, <1>2, <2>1, <2>2, <2>3, <2>4
<1>. QED BY <1>4, <1>5, <1>6

(* Basis points are the ratio to the nearest one.                          *)
LEMMA RoundedIsNear ==
  ASSUME NEW n \in Nat, NEW d \in Nat \ {0}
  PROVE  /\ Claims!Rounded(n, d) \in Nat
         /\ 2 * (Claims!Rounded(n, d) * d - 10000 * n) \in (-d)..d
<1>. DEFINE h == d \div 2
            x == n * 10000 + h
            q == x \div d
            r == x % d
<1>1. h \in Nat /\ 2 * h <= d /\ d <= 2 * h + 1
  OBVIOUS
<1>. HIDE DEF h
<1>2. x \in Nat
  BY <1>1
<1>. HIDE DEF x
<1>3. q \in Int /\ r \in 0..(d - 1) /\ x = d * q + r
  BY <1>2
<1>. HIDE DEF q, r
<1>4. q >= 0
  <2>. SUFFICES ASSUME q <= -1 PROVE FALSE
    BY <1>3
  <2>1. d * q <= -d
    BY <1>3
  <2>. QED BY <1>2, <1>3, <2>1
<1>5. d * q \in Int /\ q * d = d * q
  BY <1>3
<1>. DEFINE z == d * q
<1>. HIDE DEF z
<1>6. 2 * (z - 10000 * n) \in (-d)..d
  BY <1>1, <1>3, <1>5 DEF z, x
<1>7. Claims!Rounded(n, d) = q
  BY DEF Claims!Rounded, q, x, h
<1>. QED BY <1>3, <1>4, <1>5, <1>6, <1>7 DEF z

(* What stays the same of a submission: its form, whatever is written.     *)
IsMetric(m) ==
  /\ m = [status |-> m.status, frozen |-> m.frozen, artifact |-> m.artifact,
          provenance |-> m.provenance, num |-> m.num, den |-> m.den, points |-> m.points,
          display |-> m.display]
  /\ m.num \in Int /\ m.den \in Int /\ m.points \in Int

HasForm(s) ==
  s = [status |-> s.status, frozen |-> s.frozen, provenance |-> s.provenance, files |-> s.files,
       pages |-> s.pages, seconds |-> s.seconds, artifacts |-> s.artifacts, metrics |-> s.metrics,
       sources |-> s.sources, declared |-> s.declared, given |-> s.given, texts |-> s.texts,
       tree |-> s.tree]

HasMetrics(s) ==
  s.metrics = [k \in Claims!Keys |-> s.metrics[k]] /\ \A k \in Claims!Keys : IsMetric(s.metrics[k])

HasTree(s) == \A f \in s.tree : \E d, g : f.path = <<d, g>>

SubmissionInvariant ==
  /\ HasForm(sub) /\ HasMetrics(sub) /\ HasTree(sub)
  /\ state = "passed" =>
       /\ Claims!EvidenceErrors = {} /\ Claims!ClaimsErrors = {} /\ Claims!TreeErrors = {}

(* Numbers may be written over a metric.                                   *)
LEMMA MetricsRewritten ==
  ASSUME NEW m, IsMetric(m), NEW n \in Int, NEW d \in Int, NEW p \in Int, NEW z
  PROVE  /\ IsMetric([m EXCEPT !.num = n, !.den = d, !.points = p, !.display = z])
         /\ IsMetric([m EXCEPT !.num = n, !.den = d, !.points = p])
         /\ IsMetric([m EXCEPT !.num = n, !.den = d]) /\ IsMetric([m EXCEPT !.points = p])
<1>. DEFINE m1 == [m EXCEPT !.num = n]
            m2 == [m1 EXCEPT !.den = d]
            m3 == [m2 EXCEPT !.points = p]
            m4 == [m3 EXCEPT !.display = z]
<1>1. IsMetric(m1)
  BY DEF IsMetric
<1>. HIDE DEF m1
<1>2. IsMetric(m2)
  BY <1>1 DEF IsMetric
<1>. HIDE DEF m2
<1>3. IsMetric(m3)
  BY <1>2 DEF IsMetric
<1>. HIDE DEF m3
<1>4. IsMetric(m4)
  BY <1>3 DEF IsMetric
<1>5. IsMetric([m EXCEPT !.points = p])
  BY DEF IsMetric
<1>6. m2 = [m EXCEPT !.num = n, !.den = d]
  BY DEF m1, m2
<1>7. m3 = [m EXCEPT !.num = n, !.den = d, !.points = p]
  BY DEF m1, m2, m3
<1>8. m4 = [m EXCEPT !.num = n, !.den = d, !.points = p, !.display = z]
  BY DEF m1, m2, m3
<1>. HIDE DEF m4
<1>. QED BY <1>2, <1>3, <1>4, <1>5, <1>6, <1>7, <1>8

(* A ratio as a metric writes it down.                                     *)
LEMMA RatesAreNumbers ==
  ASSUME NEW r \in ClaimedRatios
  PROVE  /\ r[1] \in Int /\ r[2] \in Int /\ Claims!Rounded(r[1], r[2]) \in Int
         /\ \A m : IsMetric(m) => IsMetric(Claims!Rate(m, r))
<1>1. r[1] \in Int /\ r[2] \in Nat \ {0}
  BY RatiosAssumption
<1>. DEFINE x == r[1] * 10000 + r[2] \div 2
<1>2. x \in Int
  BY <1>1
<1>3. Claims!Rounded(r[1], r[2]) = x \div r[2]
  BY DEF Claims!Rounded
<1>. HIDE DEF x
<1>4. Claims!Rounded(r[1], r[2]) \in Int
  BY <1>1, <1>2, <1>3
<1>5. ASSUME NEW m, IsMetric(m) PROVE IsMetric(Claims!Rate(m, r))
  <2>. DEFINE p == Claims!Rounded(r[1], r[2])
              q == [num |-> r[1], den |-> r[2], points |-> p]
              z == Claims!PercentDisplay(p)
  <2>1. Claims!Rate(m, r) = [m EXCEPT !.num = r[1], !.den = r[2], !.points = p, !.display = z]
    BY DEF Claims!Rate, Claims!RateOf
  <2>2. p \in Int
    BY <1>4
  <2>. DEFINE n == r[1]
              d == r[2]
  <2>3. n \in Int /\ d \in Int
    BY <1>1
  <2>. HIDE DEF p, z, n, d
  <2>4. IsMetric([m EXCEPT !.num = n, !.den = d, !.points = p, !.display = z])
    BY <1>5, <2>2, <2>3, MetricsRewritten
  <2>5. Claims!Rate(m, r) = [m EXCEPT !.num = n, !.den = d, !.points = p, !.display = z]
    BY <2>1 DEF n, d
  <2>. QED BY <2>4, <2>5
<1>. QED BY <1>1, <1>4, <1>5

(* The authors begin with a submission in order.                           *)
LEMMA SubmissionInit == ASSUME Claims!Init PROVE SubmissionInvariant
<1>1. PICK r \in ClaimedRatios, p \in Claims!Allowed : sub = Claims!Ordered(r, p)
  BY DEF Claims!Init
<1>. DEFINE M(k) == Claims!Metric(k, p)
            metrics == [k \in Claims!Keys |-> IF MetricKinds[k] = "rate" THEN Claims!Rate(M(k), r)
                                              ELSE M(k)]
<1>2. ASSUME NEW k \in Claims!Keys PROVE IsMetric(M(k)) /\ IsMetric(Claims!Rate(M(k), r))
  <2>1. IsMetric(M(k))
    BY DEF IsMetric, Claims!Metric, Claims!NA
  <2>. HIDE DEF M
  <2>. QED BY <2>1, RatesAreNumbers
<1>3. /\ HasForm(sub) /\ sub.metrics = metrics
      /\ sub.tree = {[path |-> <<{}, {}>>, name |-> "deck", bytes |-> 1]}
  BY <1>1 DEF HasForm, Claims!Ordered
<1>. HIDE DEF M
<1>4. HasMetrics(sub)
  BY <1>2, <1>3 DEF HasMetrics
<1>5. HasTree(sub)
  BY <1>3 DEF HasTree
<1>. QED BY <1>3, <1>4, <1>5 DEF SubmissionInvariant, Claims!Init

(* No edit changes the form of a submission.                               *)
LEMMA EditsKeepForm ==
  ASSUME HasForm(sub), HasMetrics(sub), HasTree(sub), Claims!Edit
  PROVE  (HasForm(sub) /\ HasMetrics(sub) /\ HasTree(sub))'
<1>1. CASE Claims!EditMetric
  <2>1. PICK k \in Claims!Keys : \E m : IsMetric(m) /\ sub' = [sub EXCEPT !.metrics[k] = m]
    <3>1. PICK k \in Claims!Keys : \E m \in
             {[sub.metrics[k] EXCEPT !.status = "pending"], [sub.metrics[k] EXCEPT !.frozen = "g"],
              [sub.metrics[k] EXCEPT !.num = Claims!NA, !.den = Claims!NA, !.points = Claims!NA],
              [sub.metrics[k] EXCEPT !.points = @ + 1]} \cup
             {[sub.metrics[k] EXCEPT !.provenance = p] : p \in Claims!Provenances} \cup
             {[sub.metrics[k] EXCEPT !.artifact = a] : a \in Artifacts} \cup
             {[sub.metrics[k] EXCEPT !.num = r[1], !.den = r[2]] : r \in ClaimedRatios} \cup
             {Claims!Rate(sub.metrics[k], r) : r \in ClaimedRatios} \cup
             {[sub.metrics[k] EXCEPT !.display = d] : d \in Claims!Displays(k)} :
           sub' = [sub EXCEPT !.metrics[k] = m]
      BY <1>1 DEF Claims!EditMetric
    <3>. DEFINE x == sub.metrics[k]
    <3>2. IsMetric(x)
      BY DEF HasMetrics
    <3>. HIDE DEF x
    <3>3. /\ IsMetric([x EXCEPT !.num = Claims!NA, !.den = Claims!NA, !.points = Claims!NA])
          /\ IsMetric([x EXCEPT !.points = @ + 1])
      <4>1. Claims!NA \in Int
        BY DEF Claims!NA
      <4>2. x.points + 1 \in Int
        BY <3>2 DEF IsMetric
      <4>. DEFINE y == x.points + 1
      <4>3. [x EXCEPT !.points = @ + 1] = [x EXCEPT !.points = y]
        OBVIOUS
      <4>. HIDE DEF y
      <4>. QED BY <3>2, <4>1, <4>2, <4>3, MetricsRewritten DEF y
    <3>4. /\ IsMetric([x EXCEPT !.status = "pending"]) /\ IsMetric([x EXCEPT !.frozen = "g"])
          /\ \A p : IsMetric([x EXCEPT !.provenance = p])
          /\ \A a : IsMetric([x EXCEPT !.artifact = a])
          /\ \A d : IsMetric([x EXCEPT !.display = d])
      BY <3>2 DEF IsMetric
    <3>5. \A r \in ClaimedRatios : /\ IsMetric([x EXCEPT !.num = r[1], !.den = r[2]])
                                   /\ IsMetric(Claims!Rate(x, r))
      <4>. TAKE r \in ClaimedRatios
      <4>1. r[1] \in Int /\ r[2] \in Int
        BY RatesAreNumbers
      <4>2. IsMetric([x EXCEPT !.num = r[1], !.den = r[2]])
        BY <3>2, <4>1, MetricsRewritten
      <4>. QED BY <3>2, <4>2, RatesAreNumbers
    <3>. QED BY <3>1, <3>3, <3>4, <3>5 DEF x
  <2>2. PICK m : IsMetric(m) /\ sub' = [sub EXCEPT !.metrics[k] = m]
    BY <2>1
  <2>3. /\ HasForm(sub)' /\ sub'.metrics = [sub.metrics EXCEPT ![k] = m]
        /\ sub'.tree = sub.tree
    BY <2>2 DEF HasForm
  <2>4. HasMetrics(sub)'
    BY <2>2, <2>3 DEF HasMetrics
  <2>. QED BY <2>3, <2>4 DEF HasTree
<1>2. CASE Claims!EditText
  <2>1. PICK t, x : sub' = [sub EXCEPT !.texts[t] = x]
    BY <1>2 DEF Claims!EditText
  <2>2. HasForm(sub)' /\ sub'.metrics = sub.metrics /\ sub'.tree = sub.tree
    BY <2>1 DEF HasForm
  <2>. QED BY <2>2 DEF HasMetrics, HasTree
<1>3. CASE Claims!EditRest
  <2>1. ASSUME NEW x,
               \/ sub' = [sub EXCEPT !.provenance = x] \/ sub' = [sub EXCEPT !.status = x]
               \/ sub' = [sub EXCEPT !.artifacts = x] \/ sub' = [sub EXCEPT !.declared = x]
               \/ sub' = [sub EXCEPT !.given = x] \/ sub' = [sub EXCEPT !.sources = x]
               \/ sub' = [sub EXCEPT !.files = x] \/ sub' = [sub EXCEPT !.pages = x]
               \/ sub' = [sub EXCEPT !.seconds = x]
        PROVE  HasForm(sub)' /\ sub'.metrics = sub.metrics /\ sub'.tree = sub.tree
    BY <2>1 DEF HasForm
  <2>2. /\ HasForm(sub)' /\ sub'.metrics = sub.metrics
        /\ \/ sub'.tree = sub.tree
           \/ \E d, f, n, b : sub'.tree = sub.tree \cup {[path |-> <<d, f>>, name |-> n, bytes |-> b]}
    <3>1. CASE \E p \in Claims!Provenances : sub' = [sub EXCEPT !.provenance = p]
      BY <2>1, <3>1
    <3>2. CASE sub' = [sub EXCEPT !.status = "draft"]
      BY <2>1, <3>2
    <3>3. CASE \E a \in Artifacts, f \in {"safe", "unsafe"}, c \in {"h", "i"} :
                 sub' = [sub EXCEPT !.artifacts[a] = [@ EXCEPT !.file = f, !.content = c]]
      <4>1. PICK a \in Artifacts, f \in {"safe", "unsafe"}, c \in {"h", "i"} :
                 sub' = [sub EXCEPT !.artifacts[a] = [@ EXCEPT !.file = f, !.content = c]]
        BY <3>3
      <4>. DEFINE x == [sub.artifacts EXCEPT ![a] = [@ EXCEPT !.file = f, !.content = c]]
      <4>2. sub' = [sub EXCEPT !.artifacts = x]
        BY <4>1
      <4>. HIDE DEF x
      <4>. QED BY <2>1, <4>2
    <3>4. CASE \E s \in TextSources : sub' = [sub EXCEPT !.declared = @ \ {s}]
      <4>1. PICK s \in TextSources : sub' = [sub EXCEPT !.declared = sub.declared \ {s}]
        BY <3>4
      <4>. QED BY <2>1, <4>1
    <3>5. CASE \E s \in TextSources : sub' = [sub EXCEPT !.given = @ \cup {s}]
      <4>1. PICK s \in TextSources : sub' = [sub EXCEPT !.given = sub.given \cup {s}]
        BY <3>5
      <4>. QED BY <2>1, <4>1
    <3>6. CASE \E s \in TextSources, p \in Claims!Provenances :
                 sub' = [sub EXCEPT !.sources[s].provenance = p]
      <4>1. PICK s \in TextSources, p \in Claims!Provenances :
                 sub' = [sub EXCEPT !.sources[s].provenance = p]
        BY <3>6
      <4>. DEFINE x == [sub.sources EXCEPT ![s].provenance = p]
      <4>2. sub' = [sub EXCEPT !.sources = x]
        BY <4>1
      <4>. HIDE DEF x
      <4>. QED BY <2>1, <4>2
    <3>7. CASE \E f \in {"deck", "video", "evidence"} : sub' = [sub EXCEPT !.files[f] = "unsafe"]
      <4>1. PICK f \in {"deck", "video", "evidence"} : sub' = [sub EXCEPT !.files[f] = "unsafe"]
        BY <3>7
      <4>. DEFINE x == [sub.files EXCEPT ![f] = "unsafe"]
      <4>2. sub' = [sub EXCEPT !.files = x]
        BY <4>1
      <4>. HIDE DEF x
      <4>. QED BY <2>1, <4>2
    <3>8. CASE sub' = [sub EXCEPT !.pages = 11] \/ sub' = [sub EXCEPT !.seconds = 301]
      BY <2>1, <3>8
    <3>9. CASE \E d, f \in SUBSET {"private", "link", "excluded"},
                  file \in {[name |-> "deck", bytes |-> 1], [name |-> "notes", bytes |-> PackageBytes - 1]} :
                 /\ d = {} \/ f \in {{}, {"private"}}
                 /\ sub' = [sub EXCEPT !.tree =
                             @ \cup {[path |-> <<d, f>>, name |-> file.name, bytes |-> file.bytes]}]
      <4>1. PICK d, f, n, b : sub' = [sub EXCEPT !.tree =
                             @ \cup {[path |-> <<d, f>>, name |-> n, bytes |-> b]}]
        BY <3>9
      <4>. DEFINE x == sub.tree \cup {[path |-> <<d, f>>, name |-> n, bytes |-> b]}
      <4>2. sub' = [sub EXCEPT !.tree = x]
        BY <4>1
      <4>3. HasForm(sub)' /\ sub'.metrics = sub.metrics /\ sub'.tree = x
        <5>. HIDE DEF x
        <5>. QED BY <4>2 DEF HasForm
      <4>. QED BY <4>3
    <3>. QED BY <1>3, <3>1, <3>2, <3>3, <3>4, <3>5, <3>6, <3>7, <3>8, <3>9 DEF Claims!EditRest
  <2>3. HasTree(sub)'
    BY <2>2 DEF HasTree
  <2>. QED BY <2>2, <2>3 DEF HasMetrics
<1>. QED BY <1>1, <1>2, <1>3 DEF Claims!Edit

(* Every step keeps the form, and passes what has no error.                *)
LEMMA SubmissionStep ==
  ASSUME SubmissionInvariant, [Claims!Next]_(Claims!vars) PROVE SubmissionInvariant'
<1>1. CASE Claims!Edit
  <2>1. (HasForm(sub) /\ HasMetrics(sub) /\ HasTree(sub))'
    BY <1>1, EditsKeepForm DEF SubmissionInvariant
  <2>2. state' # "passed"
    BY <1>1 DEF Claims!Edit
  <2>. QED BY <2>1, <2>2 DEF SubmissionInvariant
<1>2. CASE Claims!Verify
  <2>1. sub' = sub
    BY <1>2 DEF Claims!Verify
  <2>2. state' = "passed" =>
          /\ Claims!EvidenceErrors = {} /\ Claims!ClaimsErrors = {} /\ Claims!TreeErrors = {}
    BY <1>2 DEF Claims!Verify
  <2>3. /\ Claims!EvidenceErrors' = Claims!EvidenceErrors
        /\ Claims!ClaimsErrors' = Claims!ClaimsErrors /\ Claims!TreeErrors' = Claims!TreeErrors
    BY <2>1 DEF Claims!EvidenceErrors, Claims!ClaimsErrors, Claims!TreeErrors,
       Claims!ProvenanceErrors, Claims!ValidArtifacts, Claims!MetricErrors, Claims!CompareErrors,
       Claims!TextErrors, Claims!ClaimErrors, Claims!Validated, Claims!Candidates
  <2>. QED BY <2>1, <2>2, <2>3 DEF SubmissionInvariant, HasForm, HasMetrics, HasTree
<1>3. CASE UNCHANGED Claims!vars
  <2>1. sub' = sub /\ state' = state
    BY <1>3 DEF Claims!vars
  <2>2. /\ Claims!EvidenceErrors' = Claims!EvidenceErrors
        /\ Claims!ClaimsErrors' = Claims!ClaimsErrors /\ Claims!TreeErrors' = Claims!TreeErrors
    BY <2>1 DEF Claims!EvidenceErrors, Claims!ClaimsErrors, Claims!TreeErrors,
       Claims!ProvenanceErrors, Claims!ValidArtifacts, Claims!MetricErrors, Claims!CompareErrors,
       Claims!TextErrors, Claims!ClaimErrors, Claims!Validated, Claims!Candidates
  <2>. QED BY <2>1, <2>2 DEF SubmissionInvariant, HasForm, HasMetrics, HasTree
<1>. QED BY <1>1, <1>2, <1>3 DEF Claims!Next

(* Nothing is verified by an artifact, a display or a provenance of another *)
(* draft: what the gate found no error of.                                 *)
LEMMA VerifiedMetric ==
  ASSUME SubmissionInvariant, state = "passed", NEW k \in Claims!Keys,
         sub.metrics[k].status = "verified"
  PROVE  LET m == sub.metrics[k]
         IN /\ m.frozen = sub.frozen /\ m.artifact \in Claims!ValidArtifacts
            /\ m.provenance = sub.provenance /\ m.provenance \in Claims!Allowed
            /\ Claims!Arithmetic(k, m) # Claims!Unknown
            /\ m.display = Claims!Arithmetic(k, m)
<1>. DEFINE m == sub.metrics[k]
            shown == Claims!Arithmetic(k, m)
<1>1. Claims!MetricErrors(k) = {}
  <2>1. Claims!EvidenceErrors = {}
    BY DEF SubmissionInvariant
  <2>. QED BY <2>1 DEF Claims!EvidenceErrors
<1>2. /\ {"frozen" : x \in {x \in {m.frozen} : x # sub.frozen}} = {}
      /\ {"artifact" : x \in {x \in {m.artifact} : x \notin Claims!ValidArtifacts}} = {}
      /\ Claims!CompareErrors(m.provenance) = {}
      /\ (IF shown = Claims!Unknown THEN {"arithmetic"}
          ELSE {"display" : x \in {x \in {m.display} : x # shown}}) = {}
  BY <1>1 DEF Claims!MetricErrors
<1>. HIDE DEF shown
<1>3. m.frozen = sub.frozen /\ m.artifact \in Claims!ValidArtifacts
  BY <1>2
<1>4. m.provenance = sub.provenance /\ m.provenance \in Claims!Allowed
  BY <1>2 DEF Claims!CompareErrors, Claims!ProvenanceErrors
<1>5. shown # Claims!Unknown /\ m.display = shown
  BY <1>2
<1>. QED BY <1>3, <1>4, <1>5 DEF shown

(* A claim in a text that is checked repeats a verified metric.            *)
LEMMA ClaimRepeatsMetric ==
  ASSUME SubmissionInvariant, state = "passed",
         NEW t \in {"deck"} \cup sub.given \cup sub.declared, NEW c \in sub.texts[t].claims
  PROVE  /\ c.key \in Claims!Keys /\ sub.metrics[c.key].status = "verified"
         /\ c.display = sub.metrics[c.key].display
         /\ c.provenance = sub.metrics[c.key].provenance
<1>. DEFINE of == IF t = "deck" THEN {sub.provenance}
                  ELSE IF t \in sub.declared THEN {sub.sources[t].provenance} ELSE {}
<1>1. Claims!TextErrors(t) = {}
  <2>1. Claims!ClaimsErrors = {}
    BY DEF SubmissionInvariant
  <2>. QED BY <2>1 DEF Claims!ClaimsErrors
<1>2. Claims!ClaimErrors(c, of) = {}
  BY <1>1 DEF Claims!TextErrors
<1>. HIDE DEF of
<1>3. c.key \in Claims!Validated
  BY <1>2 DEF Claims!ClaimErrors
<1>. DEFINE m == sub.metrics[c.key]
<1>4. /\ {"claim display" : x \in {x \in {c.display} : x # m.display}} = {}
      /\ {"claim provenance" : x \in {x \in {m.provenance} \cup of : x # c.provenance}} = {}
  BY <1>2, <1>3 DEF Claims!ClaimErrors
<1>. QED BY <1>3, <1>4 DEF Claims!Validated

(* What the arithmetic accepts reads as what was measured.                 *)
LEMMA AcceptedIsMeasured ==
  ASSUME NEW k \in Claims!Keys, NEW m, IsMetric(m), Claims!Arithmetic(k, m) # Claims!Unknown
  PROVE  LET shown == Claims!Arithmetic(k, m)
         IN /\ m.num = Claims!NA => shown = Claims!Missing
            /\ m.num # Claims!NA /\ MetricKinds[k] = "rate" =>
                 2 * (Claims!Reading(shown) * m.den - 10000 * m.num) \in (-m.den)..m.den
            /\ m.num # Claims!NA /\ MetricKinds[k] # "rate" =>
                 m.num = Claims!Reading(shown) \div (IF MetricKinds[k] = "cost" THEN 1 ELSE 100)
<1>. DEFINE shown == Claims!Arithmetic(k, m)
<1>1. m.num \in Int /\ m.den \in Int /\ m.points \in Int /\ Claims!NA = -1
  BY DEF IsMetric, Claims!NA
<1>2. m.num = Claims!NA => shown = Claims!Missing
  BY DEF Claims!Arithmetic
<1>3. ASSUME m.num # Claims!NA, MetricKinds[k] = "rate"
      PROVE  2 * (Claims!Reading(shown) * m.den - 10000 * m.num) \in (-m.den)..m.den
  <2>1. /\ m.num \in Nat /\ m.den \in Nat \ {0} /\ m.points = Claims!Rounded(m.num, m.den)
        /\ shown = Claims!PercentDisplay(m.points)
    BY <1>1, <1>3 DEF Claims!Arithmetic
  <2>. HIDE DEF shown
  <2>2. m.points \in Nat /\ 2 * (m.points * m.den - 10000 * m.num) \in (-m.den)..m.den
    <3>. DEFINE n == m.num
                d == m.den
                q == m.points
    <3>1. n \in Nat /\ d \in Nat \ {0} /\ q = Claims!Rounded(n, d)
      BY <2>1
    <3>. HIDE DEF n, d, q
    <3>2. q \in Nat /\ 2 * (q * d - 10000 * n) \in (-d)..d
      BY <3>1, RoundedIsNear
    <3>. QED BY <3>2 DEF n, d, q
  <2>3. Claims!Reading(Claims!PercentDisplay(m.points)) = m.points
    BY <2>2, DigitsRead
  <2>. QED BY <2>1, <2>2, <2>3
<1>4. ASSUME m.num # Claims!NA, MetricKinds[k] # "rate"
      PROVE  m.num = Claims!Reading(shown) \div (IF MetricKinds[k] = "cost" THEN 1 ELSE 100)
  <2>1. /\ m.num \in Nat
        /\ shown = IF MetricKinds[k] = "cost" THEN Claims!Cost(m.num) ELSE Claims!Plain(m.num)
    BY <1>1, <1>4 DEF Claims!Arithmetic
  <2>. HIDE DEF shown
  <2>. DEFINE n == m.num
  <2>2. Claims!Reading(Claims!Cost(n)) = n /\ Claims!Reading(Claims!Plain(n)) = 100 * n
    BY <2>1, DigitsRead
  <2>. HIDE DEF n
  <2>3. n \in Nat /\ (n \div 1 = n) /\ ((100 * n) \div 100 = n)
    BY <2>1 DEF n
  <2>4. CASE MetricKinds[k] = "cost"
    <3>1. Claims!Reading(shown) = n
      BY <2>1, <2>2, <2>4 DEF n
    <3>. QED BY <2>3, <2>4, <3>1 DEF n
  <2>5. CASE MetricKinds[k] # "cost"
    <3>1. Claims!Reading(shown) = 100 * n
      BY <2>1, <2>2, <2>5 DEF n
    <3>. QED BY <2>3, <2>5, <3>1 DEF n
  <2>. QED BY <2>4, <2>5
<1>. QED BY <1>2, <1>3, <1>4

(* Of a path of a directory and a file, what is kept is neither private    *)
(* nor a link.                                                             *)
LEMMA KeptIsPublic ==
  ASSUME NEW d, NEW g, Claims!Fate(<<d, g>>) = "keep"
  PROVE  {"private", "link"} \cap d = {} /\ {"private", "link"} \cap g = {}
<1>. DEFINE path == <<d, g>>
            fates == [i \in DOMAIN path |-> IF i = Len(path) THEN Claims!FileFate(path[i])
                                            ELSE Claims!DirectoryFate(path[i])]
            first == {i \in DOMAIN path : fates[i] # "keep" /\ \A j \in 1..(i - 1) : fates[j] = "keep"}
<1>1. DOMAIN path = 1..2 /\ Len(path) = 2 /\ path[1] = d /\ path[2] = g
  OBVIOUS
<1>2. fates[1] = Claims!DirectoryFate(d) /\ fates[2] = Claims!FileFate(g)
  BY <1>1
<1>3. Claims!Fate(path) = IF first = {} THEN "keep" ELSE CHOOSE f \in {fates[i] : i \in first} : TRUE
  BY DEF Claims!Fate
<1>. HIDE DEF fates
<1>4. fates[1] = "keep" /\ fates[2] = "keep"
  <2>1. SUFFICES first = {}
    BY <1>1, <2>1
  <2>2. SUFFICES ASSUME first # {} PROVE FALSE
    OBVIOUS
  <2>3. Claims!Fate(path) \in {fates[i] : i \in first}
    <3>1. {fates[i] : i \in first} # {}
      BY <2>2
    <3>. QED BY <1>3, <2>2, <3>1
  <2>4. PICK i \in first : fates[i] = "keep"
    BY <2>3
  <2>. QED BY <2>4
<1>5. {"private", "link"} \cap d = {}
  BY <1>2, <1>4 DEF Claims!DirectoryFate
<1>6. {"private", "link"} \cap g = {}
  BY <1>2, <1>4 DEF Claims!FileFate
<1>. QED BY <1>5, <1>6

(* A submission in which the gate finds no error is true.                  *)
LEMMA PassedFollows == ASSUME SubmissionInvariant PROVE Claims!PassedIsTrue
<1>. SUFFICES ASSUME state = "passed" PROVE Claims!PassedIsTrue
  BY DEF Claims!PassedIsTrue
<1>1. ASSUME NEW t \in {"deck"} \cup sub.given \cup sub.declared, NEW c \in sub.texts[t].claims
      PROVE  LET m == sub.metrics[c.key]  a == sub.artifacts[m.artifact]
             IN /\ m.status = "verified" /\ m.frozen = sub.frozen
                /\ a.hash = a.content /\ a.file = "safe"
                /\ sub.provenance = c.provenance /\ c.provenance \in Claims!Allowed
                /\ m.num = Claims!NA => c.display = Claims!Missing
                /\ m.num # Claims!NA /\ MetricKinds[c.key] = "rate" =>
                     2 * (Claims!Reading(c.display) * m.den - 10000 * m.num) \in (-m.den)..m.den
                /\ m.num # Claims!NA /\ MetricKinds[c.key] # "rate" =>
                     m.num = Claims!Reading(c.display) \div
                               (IF MetricKinds[c.key] = "cost" THEN 1 ELSE 100)
  <2>. DEFINE k == c.key
              m == sub.metrics[k]
              a == sub.artifacts[m.artifact]
  <2>1. /\ k \in Claims!Keys /\ m.status = "verified"
        /\ c.display = m.display /\ c.provenance = m.provenance
    BY <1>1, ClaimRepeatsMetric
  <2>2. /\ m.frozen = sub.frozen /\ m.artifact \in Claims!ValidArtifacts
        /\ m.provenance = sub.provenance /\ m.provenance \in Claims!Allowed
        /\ Claims!Arithmetic(k, m) # Claims!Unknown
        /\ m.display = Claims!Arithmetic(k, m)
    BY <2>1, VerifiedMetric
  <2>3. a.file = "safe" /\ a.hash = a.content
    BY <2>2 DEF Claims!ValidArtifacts
  <2>4. IsMetric(m)
    BY <2>1 DEF SubmissionInvariant, HasMetrics
  <2>. HIDE DEF k, m
  <2>5. /\ m.num = Claims!NA => m.display = Claims!Missing
        /\ m.num # Claims!NA /\ MetricKinds[k] = "rate" =>
             2 * (Claims!Reading(m.display) * m.den - 10000 * m.num) \in (-m.den)..m.den
        /\ m.num # Claims!NA /\ MetricKinds[k] # "rate" =>
             m.num = Claims!Reading(m.display) \div (IF MetricKinds[k] = "cost" THEN 1 ELSE 100)
    BY <2>1, <2>2, <2>4, AcceptedIsMeasured
  <2>. QED BY <2>1, <2>2, <2>3, <2>5 DEF k, m
<1>2. FinalScript \in sub.declared
  <2>. SUFFICES ASSUME FinalScript \notin sub.declared PROVE FALSE
    OBVIOUS
  <2>. DEFINE missing == {"script" : x \in {x \in {FinalScript} : x \notin sub.declared}}
  <2>1. "script" \in missing
    OBVIOUS
  <2>2. missing \subseteq Claims!EvidenceErrors
    <3>. DEFINE others ==
      {"status" : x \in {x \in {sub.status} : x # "final"}} \cup
      Claims!ProvenanceErrors(sub.provenance) \cup
      {"artifact" : a \in Artifacts \ Claims!ValidArtifacts} \cup
      (UNION {Claims!MetricErrors(k) : k \in Claims!Keys}) \cup
      (UNION {Claims!CompareErrors(sub.sources[s].provenance) : s \in sub.declared})
    <3>1. Claims!EvidenceErrors = others \cup missing
      BY DEF Claims!EvidenceErrors
    <3>. HIDE DEF others, missing
    <3>. QED BY <3>1
  <2>. HIDE DEF missing
  <2>3. Claims!EvidenceErrors = {}
    BY DEF SubmissionInvariant
  <2>. QED BY <2>1, <2>2, <2>3
<1>3. ASSUME NEW f \in Claims!Candidates, NEW i \in DOMAIN f.path
      PROVE  {"private", "link"} \cap f.path[i] = {}
  <2>1. f \in sub.tree /\ Claims!Fate(f.path) = "keep"
    BY DEF Claims!Candidates
  <2>2. PICK d, g : f.path = <<d, g>>
    BY <2>1 DEF SubmissionInvariant, HasTree
  <2>3. {"private", "link"} \cap d = {} /\ {"private", "link"} \cap g = {}
    BY <2>1, <2>2, KeptIsPublic
  <2>4. i \in 1..2
    BY <2>2
  <2>5. (i = 1 /\ f.path[i] = d) \/ (i = 2 /\ f.path[i] = g)
    BY <2>2, <2>4
  <2>. QED BY <2>3, <2>5
<1>. QED BY <1>1, <1>2, <1>3 DEF Claims!PassedIsTrue

(* A submission that passed (scripts/verify_submission.py) claims in its   *)
(* texts what was measured, and nothing private is to be packaged with it. *)
THEOREM SubmissionsThatPassAreTrue == Claims!Spec => []Claims!PassedIsTrue
<1>1. Claims!Init => SubmissionInvariant
  BY SubmissionInit
<1>2. SubmissionInvariant /\ [Claims!Next]_(Claims!vars) => SubmissionInvariant'
  BY SubmissionStep
<1>3. SubmissionInvariant => Claims!PassedIsTrue
  BY PassedFollows
<1>. QED BY <1>1, <1>2, <1>3, PTL DEF Claims!Spec
=============================================================================
