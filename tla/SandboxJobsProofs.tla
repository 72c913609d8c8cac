------------------------- MODULE SandboxJobsProofs -------------------------
(***************************************************************************)
(* Theorems about SandboxJobs for any number of processes and of calls.    *)
(***************************************************************************)
EXTENDS SandboxJobs, TLAPS

-----------------------------------------------------------------------------
(* The inductive invariant, whichever processes share the journal.         *)

Preparing(x) == x.pc \in {"preparing", "prepared"}
Launching(x) == x.pc \in {"launching", "launched"}

(* What a call carries from one transaction to the next.                   *)
Carries(x) ==
  /\ x.pc \in {"poll", "reconcile"} => x.job.sim # 0 /\ x.job.status \notin Settled
  /\ x.pc = "reconcile" => x.state # "none"
  /\ Preparing(x) \/ Launching(x) => x.job.request
  /\ x.pc = "prepared" \/ Launching(x) => x.job.sim # 0

CallsCarry == \A c \in Calls : Carries(call[c])

RowIsWhole == row.status = "absent" => row = Absent

(* The claim of a job is stored before its simulation is created, and the  *)
(* claim of its start before it is launched; neither claim comes back.     *)
PreparedOnce ==
  /\ engine.made <= 1
  /\ row = Absent => engine.made = 0
  /\ \A c \in Calls : Preparing(call[c]) =>
       /\ row.status \in {"prepare_uncertain", "cancelled"}
       /\ engine.launches = 0
       /\ engine.made = IF call[c].pc = "prepared" THEN 1 ELSE 0
  /\ \A c, d \in Calls : Preparing(call[c]) /\ Preparing(call[d]) => c = d

StartedOnce ==
  /\ engine.launches <= 1
  /\ row.status \in {"absent", "ready"} =>
       /\ engine.launches = 0
       /\ \A c \in Calls : ~Preparing(call[c]) /\ ~Launching(call[c])
  /\ \A c \in Calls : Launching(call[c]) =>
       engine.launches = IF call[c].pc = "launched" THEN 1 ELSE 0
  /\ \A c, d \in Calls : Launching(call[c]) /\ Launching(call[d]) => c = d
  /\ \A c, d \in Calls : ~(Preparing(call[c]) /\ Launching(call[d]))

SharedInv ==
  /\ TypeOK
  /\ CallsCarry
  /\ RowIsWhole
  /\ PreparedOnce
  /\ StartedOnce

-----------------------------------------------------------------------------
(* The inductive invariant of a single process: its lock keeps the rows    *)
(* that prepare, start and stop work on.                                   *)

OneProcess == \A p, q \in Processes : p = q

Holders == {"preparing", "prepared", "launching", "launched", "undoing",
            "inspecting", "halting", "cancelling"}

LockIsHeld ==
  /\ \A c \in Calls : call[c] # NoCall => call[c].proc \in Processes
  /\ \A c \in Calls : call[c].pc \in Holders => call[c].held
  /\ \A c, d \in Calls : call[c].held /\ call[d].held => c = d

RowIsKept ==
  /\ \A c \in Calls :
       Launching(call[c]) \/ call[c].pc \in {"inspecting", "halting", "cancelling"} =>
         row = call[c].job
  /\ \A c \in Calls : Launching(call[c]) => call[c].job.status = "start_uncertain"

(* What runs was launched, can be found, and is stopped before its         *)
(* cancellation is recorded.                                               *)
RunsAreKnown ==
  /\ engine.launches = 0 => engine.runner = "none"
  /\ engine.runner = "running" => row.sim # 0 /\ row.sim = engine.runs
  /\ row.status = "cancelled" => engine.runner # "running"
  /\ \A c \in Calls : call[c].pc = "cancelling" => engine.runner # "running"

LocalInv ==
  /\ SharedInv
  /\ OneProcess
  /\ LockIsHeld
  /\ RowIsKept
  /\ RunsAreKnown

-----------------------------------------------------------------------------
(* What a step of one call may do.                                         *)

CallTypes == [op : {"none", "lookup", "prepare", "start", "stop"},
              proc : Processes \union {"none"}, pc : Pcs,
              held : BOOLEAN, job : Rows, state : Runner]
Engines == [made : Nat, launches : Nat, runs : Nat, runner : Runner]

RowFits(r) ==
  /\ r \in Rows
  /\ r.status \in Statuses \ {"absent", "cancelled"} => r.request
  /\ r.status \in Statuses \ {"absent", "prepare_uncertain", "cancelled"} => r.sim # 0
  /\ r.status = "absent" => r = Absent

LEMMA NoCallIs ==
  NoCall \in CallTypes /\ NoCall.pc = "idle" /\ NoCall.op = "none" /\ NoCall.proc = "none"
  /\ ~NoCall.held /\ Carries(NoCall) /\ ~Preparing(NoCall) /\ ~Launching(NoCall)
BY DEF NoCall, CallTypes, Absent, Rows, Statuses, Runner, Pcs, Carries, Preparing, Launching

LEMMA AbsentFits == RowFits(Absent) /\ RowFits(Tombstone) /\ Tombstone.status = "cancelled"
BY DEF RowFits, Absent, Tombstone, Rows, Statuses

LEMMA TypeOKIs ==
  TypeOK /\ RowIsWhole <=>
    call \in [Calls -> CallTypes] /\ engine \in Engines /\ RowFits(row)
BY DEF TypeOK, RowIsWhole, RowFits, CallTypes, Engines

(* The step of one call that neither claims nor creates nor launches, and  *)
(* what it may write to the row while others are at work.                  *)
LEMMA QuietKeeps ==
  ASSUME SharedInv, NEW c \in Calls, NEW x \in CallTypes,
         call' = [call EXCEPT ![c] = x], Carries(x), ~Preparing(x), ~Launching(x),
         engine' \in Engines, engine'.made = engine.made,
         engine'.launches = engine.launches,
         RowFits(row'),
         \/ row' = row
         \/ /\ row'.status # "absent"
            /\ \A d \in Calls \ {c} : Preparing(call[d]) =>
                 row'.status \in {"prepare_uncertain", "cancelled"}
            /\ row'.status = "ready" =>
                 /\ engine.launches = 0
                 /\ \A d \in Calls \ {c} : ~Preparing(call[d]) /\ ~Launching(call[d])
  PROVE  SharedInv'
<1>1. call \in [Calls -> CallTypes] /\ call' \in [Calls -> CallTypes]
  BY TypeOKIs DEF SharedInv
<1>2. \A d \in Calls : call'[d] = IF d = c THEN x ELSE call[d]
  BY <1>1
<1>3. TypeOK' /\ RowIsWhole'
  <2>1. (TypeOK /\ RowIsWhole <=>
           call \in [Calls -> CallTypes] /\ engine \in Engines /\ RowFits(row))'
    BY DEF TypeOK, RowIsWhole, RowFits, CallTypes, Engines
  <2>. QED
    BY <1>1, <2>1
<1>4. CallsCarry'
  <2>. HIDE DEF Carries
  <2>. QED
    BY <1>2 DEF SharedInv, CallsCarry
<1>5. \A d \in Calls : d # c => call'[d] = call[d]
  BY <1>2
<1>6. ~Preparing(call'[c]) /\ ~Launching(call'[c])
  BY <1>2
<1>7. row' = Absent => row = Absent
  BY DEF Absent
<1>8. PreparedOnce'
  BY <1>5, <1>6, <1>7 DEF SharedInv, PreparedOnce
<1>9. StartedOnce'
  BY <1>5, <1>6 DEF SharedInv, StartedOnce, Preparing
<1>. QED
  BY <1>3, <1>4, <1>8, <1>9 DEF SharedInv

-----------------------------------------------------------------------------
(* Each step keeps the invariant, whichever processes share the journal.   *)

LEMMA CallIs ==
  ASSUME SharedInv, NEW c \in Calls
  PROVE  /\ call[c] \in CallTypes /\ call[c].job \in Rows /\ Carries(call[c])
         /\ engine \in Engines /\ RowFits(row) /\ row \in Rows
BY TypeOKIs DEF SharedInv, CallsCarry, CallTypes, RowFits

(* The call goes on at `to` with what it carries, or returns.              *)
LEMMA GoesOn ==
  ASSUME SharedInv, NEW c \in Calls,
         NEW to \in {"lookup", "undoing", "inspecting", "halting", "cancelling"},
         NEW held \in BOOLEAN, NEW job \in Rows,
         call' = [call EXCEPT ![c] = [call[c] EXCEPT !.pc = to, !.held = held, !.job = job]],
         UNCHANGED row, engine' \in Engines, engine'.made = engine.made,
         engine'.launches = engine.launches
  PROVE  SharedInv'
<1>. PICK x : x = [call[c] EXCEPT !.pc = to, !.held = held, !.job = job]
  OBVIOUS
<1>1. x \in CallTypes /\ x.pc = to
  BY CallIs DEF CallTypes, Pcs
<1>2. Carries(x) /\ ~Preparing(x) /\ ~Launching(x)
  BY <1>1 DEF Carries, Preparing, Launching
<1>3. RowFits(row')
  BY CallIs
<1>. QED
  BY <1>1, <1>2, <1>3, QuietKeeps

LEMMA ReturnsKeeps ==
  ASSUME SharedInv, NEW c \in Calls, Returns(c), UNCHANGED <<row, engine>>
  PROVE  SharedInv'
BY NoCallIs, CallIs, QuietKeeps DEF Returns

LEMMA BeginKeeps ==
  ASSUME SharedInv, NEW c \in Calls, NEW p \in Processes,
         NEW op \in {"lookup", "prepare", "start", "stop"}, Begin(c, p, op)
  PROVE  SharedInv'
<1>. PICK x : x = [NoCall EXCEPT !.op = op, !.proc = p,
                                 !.pc = IF op = "lookup" THEN "lookup" ELSE "enter"]
  OBVIOUS
<1>1. x \in CallTypes /\ x.pc \in {"lookup", "enter"}
  BY NoCallIs DEF CallTypes, Pcs
<1>2. Carries(x) /\ ~Preparing(x) /\ ~Launching(x)
  BY <1>1 DEF Carries, Preparing, Launching
<1>. QED
  BY <1>1, <1>2, CallIs, QuietKeeps DEF Begin

LEMMA LookupReadKeeps ==
  ASSUME SharedInv, NEW c \in Calls, LookupRead(c)
  PROVE  SharedInv'
<1>1. CASE row.sim # 0 /\ row.status \notin Settled
  <2>. PICK x : x = [call[c] EXCEPT !.pc = "poll", !.job = row]
    OBVIOUS
  <2>1. x \in CallTypes /\ x.pc = "poll" /\ x.job = row
    BY CallIs DEF CallTypes, Pcs
  <2>2. Carries(x) /\ ~Preparing(x) /\ ~Launching(x)
    BY <1>1, <2>1 DEF Carries, Preparing, Launching
  <2>3. call' = [call EXCEPT ![c] = x]
    BY <1>1 DEF LookupRead
  <2>. QED
    BY <2>1, <2>2, <2>3, CallIs, QuietKeeps DEF LookupRead
<1>2. CASE ~(row.sim # 0 /\ row.status \notin Settled)
  BY <1>2, ReturnsKeeps DEF LookupRead
<1>. QED
  BY <1>1, <1>2

LEMMA PolledKeeps ==
  ASSUME SharedInv, NEW c \in Calls, Polled(c)
  PROVE  SharedInv'
<1>1. CASE engine.runner # "none"
  <2>. PICK x : x = [call[c] EXCEPT !.pc = "reconcile", !.state = engine.runner]
    OBVIOUS
  <2>1. /\ x \in CallTypes /\ x.pc = "reconcile" /\ x.job = call[c].job
        /\ x.state = engine.runner
    BY CallIs DEF CallTypes, Pcs, Engines
  <2>2. Carries(x) /\ ~Preparing(x) /\ ~Launching(x)
    BY <1>1, <2>1, CallIs DEF Polled, Carries, Preparing, Launching
  <2>3. call' = [call EXCEPT ![c] = x]
    BY <1>1 DEF Polled
  <2>. QED
    BY <2>1, <2>2, <2>3, CallIs, QuietKeeps DEF Polled
<1>2. CASE ~(engine.runner # "none")
  BY <1>2, ReturnsKeeps DEF Polled
<1>. QED
  BY <1>1, <1>2

(* A poll that comes late finds another row.                               *)
LEMMA ReconciledKeeps ==
  ASSUME SharedInv, NEW c \in Calls, Reconciled(c)
  PROVE  SharedInv'
<1>1. CASE row = call[c].job
  <2>1. row.sim # 0 /\ row.status \notin Settled /\ call[c].state \in Runner \ {"none"}
    BY <1>1, CallIs DEF Carries, Reconciled, CallTypes
  <2>2. row.request /\ row.status # "absent"
    BY <2>1, CallIs DEF RowFits, Rows, Statuses, Settled, Absent
  <2>3. row' = [row EXCEPT !.status = call[c].state]
    BY <1>1 DEF Reconciled
  <2>4. RowFits(row') /\ row'.status = call[c].state
    BY <2>1, <2>2, <2>3, CallIs DEF RowFits, Runner, Rows, Statuses
  <2>5. \A d \in Calls : ~Preparing(call[d])
    BY <2>1 DEF SharedInv, PreparedOnce, Settled
  <2>. QED
    BY <2>1, <2>4, <2>5, NoCallIs, CallIs, QuietKeeps DEF Reconciled, Returns, Runner
<1>2. CASE row # call[c].job
  BY <1>2, ReturnsKeeps DEF Reconciled
<1>. QED
  BY <1>1, <1>2

LEMMA PrepareClaimKeeps ==
  ASSUME SharedInv, NEW c \in Calls, PrepareClaim(c)
  PROVE  SharedInv'
<1>. PICK job : job = [request |-> TRUE, sim |-> 0, status |-> "prepare_uncertain"]
  OBVIOUS
<1>. PICK x : x = [call[c] EXCEPT !.pc = "preparing", !.held = TRUE, !.job = job]
  OBVIOUS
<1>1. RowFits(job) /\ job \in Rows /\ job.status = "prepare_uncertain" /\ job # Absent
  BY DEF RowFits, Rows, Statuses, Absent
<1>2. x \in CallTypes /\ x.pc = "preparing" /\ x.job.request
  BY <1>1, CallIs DEF CallTypes, Pcs
<1>3. call' = [call EXCEPT ![c] = x] /\ row' = job /\ UNCHANGED engine /\ row = Absent
  BY DEF PrepareClaim
<1>4. call \in [Calls -> CallTypes] /\ row.status = "absent"
  BY <1>3, TypeOKIs DEF SharedInv, Absent
<1>5. \A d \in Calls : call'[d] = IF d = c THEN x ELSE call[d]
  BY <1>3, <1>4
<1>6. \A d \in Calls : ~Preparing(call[d]) /\ ~Launching(call[d])
  BY <1>4 DEF SharedInv, StartedOnce
<1>7. Carries(x) /\ Preparing(x) /\ ~Launching(x)
  BY <1>2 DEF Carries, Preparing, Launching
<1>8. TypeOK' /\ RowIsWhole'
  <2>1. (TypeOK /\ RowIsWhole <=>
           call \in [Calls -> CallTypes] /\ engine \in Engines /\ RowFits(row))'
    BY DEF TypeOK, RowIsWhole, RowFits, CallTypes, Engines
  <2>. QED
    BY <1>1, <1>2, <1>3, <1>4, CallIs, <2>1
<1>9. CallsCarry'
  <2>. HIDE DEF Carries
  <2>. QED
    BY <1>5, <1>7 DEF SharedInv, CallsCarry
<1>10. engine.launches = 0 /\ engine.made = 0
  BY <1>3, <1>4 DEF SharedInv, StartedOnce, PreparedOnce
<1>11. PreparedOnce'
  BY <1>1, <1>2, <1>3, <1>5, <1>6, <1>10 DEF PreparedOnce
<1>12. StartedOnce'
  BY <1>1, <1>3, <1>5, <1>6, <1>7, <1>10 DEF StartedOnce
<1>. QED
  BY <1>8, <1>9, <1>11, <1>12 DEF SharedInv

LEMMA PreparedKeeps ==
  ASSUME SharedInv, NEW c \in Calls, Prepared(c)
  PROVE  SharedInv'
<1>1. engine \in Engines /\ call[c] \in CallTypes /\ call[c].job \in Rows
      /\ call[c].pc = "preparing" /\ Preparing(call[c]) /\ call[c].job.request
  BY CallIs DEF Prepared, At, Preparing, Carries
<1>2. engine.made = 0
  BY <1>1 DEF SharedInv, PreparedOnce
<1>3. /\ engine' \in Engines /\ engine'.made = 1 /\ engine'.launches = engine.launches
      /\ UNCHANGED row
  BY <1>1, <1>2 DEF Prepared, Engines
<1>. PICK x : x = [call[c] EXCEPT !.pc = "prepared", !.job.sim = engine.made + 1]
  OBVIOUS
<1>4. x.job \in Rows /\ x.job.request /\ x.job.sim # 0
  BY <1>1, <1>2 DEF Rows, CallTypes
<1>5. x \in CallTypes /\ x.pc = "prepared"
  BY <1>1, <1>4 DEF CallTypes, Pcs
<1>6. call' = [call EXCEPT ![c] = x]
  BY DEF Prepared
<1>7. \A d \in Calls : call'[d] = IF d = c THEN x ELSE call[d]
  BY <1>6, TypeOKIs DEF SharedInv
<1>8. Carries(x) /\ Preparing(x) /\ ~Launching(x)
  BY <1>4, <1>5 DEF Carries, Preparing, Launching
<1>9. TypeOK' /\ RowIsWhole'
  <2>1. (TypeOK /\ RowIsWhole <=>
           call \in [Calls -> CallTypes] /\ engine \in Engines /\ RowFits(row))'
    BY DEF TypeOK, RowIsWhole, RowFits, CallTypes, Engines
  <2>. QED
    BY <1>3, <1>5, <1>6, CallIs, TypeOKIs, <2>1 DEF SharedInv
<1>10. CallsCarry'
  <2>. HIDE DEF Carries
  <2>. QED
    BY <1>7, <1>8 DEF SharedInv, CallsCarry
<1>11. \A d \in Calls : Preparing(call[d]) => d = c
  BY <1>1 DEF SharedInv, PreparedOnce
<1>12. row # Absent
  BY <1>1 DEF SharedInv, PreparedOnce, Absent
<1>13. PreparedOnce'
  <2>1. \A d \in Calls : Preparing(call'[d]) => d = c
    BY <1>7, <1>11
  <2>2. row.status \in {"prepare_uncertain", "cancelled"} /\ engine.launches = 0
    BY <1>1 DEF SharedInv, PreparedOnce
  <2>3. call'[c].pc = "prepared"
    BY <1>5, <1>7
  <2>. QED
    BY <1>3, <1>12, <2>1, <2>2, <2>3 DEF PreparedOnce
<1>14. StartedOnce'
  BY <1>1, <1>3, <1>7, <1>8 DEF SharedInv, StartedOnce
<1>. QED
  BY <1>9, <1>10, <1>13, <1>14 DEF SharedInv

LEMMA PrepareRecordedKeeps ==
  ASSUME SharedInv, NEW c \in Calls, PrepareRecorded(c)
  PROVE  SharedInv'
<1>1. Preparing(call[c]) /\ call[c].pc = "prepared"
  BY DEF PrepareRecorded, At, Preparing
<1>2. call[c].job \in Rows /\ call[c].job.request /\ call[c].job.sim # 0
  BY <1>1, CallIs DEF Carries
<1>3. RowFits(row') /\ row'.status \in {"cancelled", "ready"}
  BY <1>2 DEF PrepareRecorded, RowFits, Rows, Statuses
<1>4. engine.launches = 0
      /\ \A d \in Calls \ {c} : ~Preparing(call[d]) /\ ~Launching(call[d])
  BY <1>1 DEF SharedInv, PreparedOnce, StartedOnce
<1>. QED
  BY <1>3, <1>4, NoCallIs, CallIs, QuietKeeps DEF PrepareRecorded, Returns

LEMMA StartClaimKeeps ==
  ASSUME SharedInv, NEW c \in Calls, StartClaim(c)
  PROVE  SharedInv'
<1>1. row \in Rows /\ row.status = "ready" /\ row.request /\ row.sim # 0
  BY CallIs DEF StartClaim, RowFits, Statuses
<1>. PICK job : job = [row EXCEPT !.status = "start_uncertain"]
  OBVIOUS
<1>2. RowFits(job) /\ job \in Rows /\ job.status = "start_uncertain" /\ job.request
      /\ job.sim # 0 /\ job # Absent
  BY <1>1 DEF RowFits, Rows, Statuses, Absent
<1>. PICK x : x = [call[c] EXCEPT !.pc = "launching", !.held = TRUE, !.job = job]
  OBVIOUS
<1>3. x \in CallTypes /\ x.pc = "launching" /\ x.job = job
  BY <1>2, CallIs DEF CallTypes, Pcs
<1>4. call' = [call EXCEPT ![c] = x] /\ row' = job /\ UNCHANGED engine
  BY DEF StartClaim
<1>5. \A d \in Calls : call'[d] = IF d = c THEN x ELSE call[d]
  BY <1>4, TypeOKIs DEF SharedInv
<1>6. engine.launches = 0 /\ \A d \in Calls : ~Preparing(call[d]) /\ ~Launching(call[d])
  BY <1>1 DEF SharedInv, StartedOnce
<1>7. Carries(x) /\ ~Preparing(x) /\ Launching(x)
  BY <1>2, <1>3 DEF Carries, Preparing, Launching
<1>8. TypeOK' /\ RowIsWhole'
  <2>1. (TypeOK /\ RowIsWhole <=>
           call \in [Calls -> CallTypes] /\ engine \in Engines /\ RowFits(row))'
    BY DEF TypeOK, RowIsWhole, RowFits, CallTypes, Engines
  <2>. QED
    BY <1>2, <1>3, <1>4, CallIs, TypeOKIs, <2>1 DEF SharedInv
<1>9. CallsCarry'
  <2>. HIDE DEF Carries
  <2>. QED
    BY <1>5, <1>7 DEF SharedInv, CallsCarry
<1>10. \A d \in Calls : ~Preparing(call'[d]) /\ (Launching(call'[d]) => d = c)
  BY <1>5, <1>6, <1>7
<1>11. PreparedOnce'
  BY <1>2, <1>4, <1>10 DEF SharedInv, PreparedOnce
<1>12. StartedOnce'
  <2>1. call'[c].pc = "launching"
    BY <1>3, <1>5
  <2>. QED
    BY <1>2, <1>4, <1>6, <1>10, <2>1 DEF StartedOnce
<1>. QED
  BY <1>8, <1>9, <1>11, <1>12 DEF SharedInv

LEMMA LaunchedKeeps ==
  ASSUME SharedInv, NEW c \in Calls, Launched(c)
  PROVE  SharedInv'
<1>1. /\ engine \in Engines /\ call[c] \in CallTypes /\ call[c].job \in Rows
      /\ call[c].pc = "launching" /\ Launching(call[c])
      /\ call[c].job.request /\ call[c].job.sim # 0
  BY CallIs DEF Launched, At, Launching, Carries
<1>2. engine.launches = 0
  BY <1>1 DEF SharedInv, StartedOnce
<1>3. /\ engine' \in Engines /\ engine'.launches = 1 /\ engine'.made = engine.made
      /\ UNCHANGED row
  <2>. PICK n \in Nat : n = call[c].job.sim
    BY <1>1 DEF Rows
  <2>1. engine' = [engine EXCEPT !.launches = 1, !.runs = n, !.runner = "running"]
    BY <1>1, <1>2 DEF Launched, Engines
  <2>2. engine \in Engines /\ UNCHANGED row
    BY <1>1 DEF Launched
  <2>. QED
    BY <2>1, <2>2 DEF Engines, Runner
<1>. PICK x : x = [call[c] EXCEPT !.pc = "launched"]
  OBVIOUS
<1>4. x \in CallTypes /\ x.pc = "launched" /\ x.job = call[c].job
  BY <1>1 DEF CallTypes, Pcs
<1>5. call' = [call EXCEPT ![c] = x]
  BY DEF Launched
<1>6. \A d \in Calls : call'[d] = IF d = c THEN x ELSE call[d]
  BY <1>5, TypeOKIs DEF SharedInv
<1>7. Carries(x) /\ ~Preparing(x) /\ Launching(x)
  BY <1>1, <1>4 DEF Carries, Preparing, Launching
<1>8. TypeOK' /\ RowIsWhole'
  <2>1. (TypeOK /\ RowIsWhole <=>
           call \in [Calls -> CallTypes] /\ engine \in Engines /\ RowFits(row))'
    BY DEF TypeOK, RowIsWhole, RowFits, CallTypes, Engines
  <2>. QED
    BY <1>3, <1>4, <1>5, CallIs, TypeOKIs, <2>1 DEF SharedInv
<1>9. CallsCarry'
  <2>. HIDE DEF Carries
  <2>. QED
    BY <1>6, <1>7 DEF SharedInv, CallsCarry
<1>10. \A d \in Calls : ~Preparing(call'[d]) /\ (Launching(call'[d]) => d = c)
  BY <1>1, <1>6, <1>7 DEF SharedInv, StartedOnce
<1>11. PreparedOnce'
  BY <1>3, <1>10 DEF SharedInv, PreparedOnce
<1>12. StartedOnce'
  <2>1. call'[c].pc = "launched"
    BY <1>4, <1>6
  <2>2. row.status \notin {"absent", "ready"}
    BY <1>1 DEF SharedInv, StartedOnce
  <2>. QED
    BY <1>3, <1>10, <2>1, <2>2 DEF StartedOnce
<1>. QED
  BY <1>8, <1>9, <1>11, <1>12 DEF SharedInv

LEMMA StartNotKeeps ==
  ASSUME SharedInv, NEW c \in Calls, StartNot(c)
  PROVE  SharedInv'
<1>1. CASE row = Absent
  BY <1>1, ReturnsKeeps DEF StartNot
<1>2. CASE row # Absent
  <2>1. call' = [call EXCEPT ![c] = [call[c] EXCEPT !.pc = "lookup", !.held = TRUE,
                                                    !.job = call[c].job]]
    BY <1>2, CallIs DEF StartNot, CallTypes
  <2>. QED
    BY <2>1, CallIs, GoesOn DEF StartNot
<1>. QED
  BY <1>1, <1>2

(* A start that comes back finds its row or a decision.                    *)
LEMMA StartRecordedKeeps ==
  ASSUME SharedInv, NEW c \in Calls, StartRecorded(c)
  PROVE  SharedInv'
<1>1. Launching(call[c]) /\ call[c] \in CallTypes /\ call[c].job \in Rows
      /\ call[c].job.request /\ call[c].job.sim # 0
  BY CallIs DEF StartRecorded, At, Launching, Carries
<1>. PICK to \in {"undoing", "lookup"} :
       to = IF row.status = "cancelled" THEN "undoing" ELSE "lookup"
  OBVIOUS
<1>. PICK x : x = [call[c] EXCEPT !.pc = to]
  OBVIOUS
<1>2. x \in CallTypes /\ x.pc = to
  BY <1>1 DEF CallTypes, Pcs
<1>3. Carries(x) /\ ~Preparing(x) /\ ~Launching(x)
  BY <1>2 DEF Carries, Preparing, Launching
<1>4. RowFits(row') /\ (row' = row \/ row'.status = "running")
  BY <1>1, CallIs DEF StartRecorded, RowFits, Rows, Statuses
<1>5. \A d \in Calls : ~Preparing(call[d])
  BY <1>1 DEF SharedInv, StartedOnce
<1>. QED
  BY <1>2, <1>3, <1>4, <1>5, CallIs, QuietKeeps DEF StartRecorded

LEMMA HaltIs ==
  ASSUME SharedInv, Halt
  PROVE  /\ engine' \in Engines /\ engine'.made = engine.made
         /\ engine'.launches = engine.launches /\ engine'.runs = engine.runs
         /\ engine'.runner # "running"
         /\ engine.runner = "none" => engine'.runner = "none"
BY TypeOKIs DEF SharedInv, Halt, Engines, Runner

LEMMA SoItGoesOn ==
  ASSUME SharedInv, NEW c \in Calls,
         NEW to \in {"lookup", "undoing", "inspecting", "halting", "cancelling"},
         call' = [call EXCEPT ![c].pc = to],
         UNCHANGED row, engine' \in Engines, engine'.made = engine.made,
         engine'.launches = engine.launches
  PROVE  SharedInv'
<1>. PICK x : x = [call[c] EXCEPT !.pc = to]
  OBVIOUS
<1>1. x \in CallTypes /\ x.pc = to
  BY CallIs DEF CallTypes, Pcs
<1>2. Carries(x) /\ ~Preparing(x) /\ ~Launching(x)
  BY <1>1 DEF Carries, Preparing, Launching
<1>. QED
  BY <1>1, <1>2, CallIs, QuietKeeps

LEMMA LaunchUndoneKeeps ==
  ASSUME SharedInv, NEW c \in Calls, LaunchUndone(c)
  PROVE  SharedInv'
BY HaltIs, SoItGoesOn DEF LaunchUndone

LEMMA StopReadKeeps ==
  ASSUME SharedInv, NEW c \in Calls, StopRead(c)
  PROVE  SharedInv'
<1>. PICK to \in {"inspecting", "cancelling"} :
       to = IF row.sim # 0 THEN "inspecting" ELSE "cancelling"
  OBVIOUS
<1>1. call' = [call EXCEPT ![c] = [call[c] EXCEPT !.pc = to, !.held = TRUE, !.job = row]]
  BY DEF StopRead
<1>. QED
  BY <1>1, CallIs, GoesOn DEF StopRead

LEMMA StopUnknownKeeps ==
  ASSUME SharedInv, NEW c \in Calls, StopUnknown(c)
  PROVE  SharedInv'
BY AbsentFits, NoCallIs, CallIs, QuietKeeps DEF StopUnknown, Returns

LEMMA InspectedKeeps ==
  ASSUME SharedInv, NEW c \in Calls, Inspected(c)
  PROVE  SharedInv'
<1>. PICK to \in {"halting", "lookup", "cancelling"} :
       to = CASE engine.runner = "running" -> "halting"
              [] engine.runner = "completed" -> "lookup"
              [] OTHER -> "cancelling"
  OBVIOUS
<1>1. call' = [call EXCEPT ![c].pc = to]
  BY DEF Inspected
<1>. QED
  BY <1>1, CallIs, SoItGoesOn DEF Inspected

LEMMA HaltedKeeps ==
  ASSUME SharedInv, NEW c \in Calls, Halted(c)
  PROVE  SharedInv'
BY HaltIs, SoItGoesOn DEF Halted

LEMMA StopRecordedKeeps ==
  ASSUME SharedInv, NEW c \in Calls, StopRecorded(c)
  PROVE  SharedInv'
<1>1. RowFits(row') /\ row'.status = "cancelled"
  BY CallIs DEF StopRecorded, RowFits, Rows, Statuses
<1>. QED
  BY <1>1, NoCallIs, CallIs, QuietKeeps DEF StopRecorded, Returns

(* The calls of a process vanish; the journal and the engine stay.         *)
LEMMA CrashKeeps ==
  ASSUME SharedInv, NEW p, Crash(p)
  PROVE  SharedInv'
<1>1. call \in [Calls -> CallTypes] /\ UNCHANGED <<row, engine>>
  BY TypeOKIs DEF SharedInv, Crash
<1>2. \A d \in Calls : call'[d] \in {call[d], NoCall}
  BY DEF Crash
<1>3. call' \in [Calls -> CallTypes]
  BY <1>1, NoCallIs DEF Crash
<1>4. TypeOK' /\ RowIsWhole'
  <2>1. (TypeOK /\ RowIsWhole <=>
           call \in [Calls -> CallTypes] /\ engine \in Engines /\ RowFits(row))'
    BY DEF TypeOK, RowIsWhole, RowFits, CallTypes, Engines
  <2>. QED
    BY <1>1, <1>3, TypeOKIs, <2>1 DEF SharedInv
<1>5. CallsCarry'
  <2>. HIDE DEF Carries
  <2>. QED
    BY <1>2, NoCallIs DEF SharedInv, CallsCarry
<1>6. \A d \in Calls : Preparing(call'[d]) \/ Launching(call'[d]) => call'[d] = call[d]
  BY <1>2, NoCallIs
<1>7. PreparedOnce'
  BY <1>1, <1>6 DEF SharedInv, PreparedOnce
<1>8. StartedOnce'
  BY <1>1, <1>6 DEF SharedInv, StartedOnce
<1>. QED
  BY <1>4, <1>5, <1>7, <1>8 DEF SharedInv

LEMMA RunnerEndsKeeps ==
  ASSUME SharedInv, RunnerEnds
  PROVE  SharedInv'
<1>1. /\ engine' \in Engines /\ engine'.made = engine.made
      /\ engine'.launches = engine.launches /\ UNCHANGED <<row, call>>
  BY TypeOKIs DEF SharedInv, RunnerEnds, Engines, Runner
<1>2. TypeOK' /\ RowIsWhole'
  <2>1. (TypeOK /\ RowIsWhole <=>
           call \in [Calls -> CallTypes] /\ engine \in Engines /\ RowFits(row))'
    BY DEF TypeOK, RowIsWhole, RowFits, CallTypes, Engines
  <2>. QED
    BY <1>1, TypeOKIs, <2>1 DEF SharedInv
<1>3. CallsCarry'
  BY <1>1 DEF SharedInv, CallsCarry, Carries, Preparing, Launching
<1>4. PreparedOnce' /\ StartedOnce'
  BY <1>1 DEF SharedInv, PreparedOnce, StartedOnce, Preparing, Launching
<1>. QED
  BY <1>2, <1>3, <1>4 DEF SharedInv

LEMMA SharedInit == Init => SharedInv
<1>. SUFFICES ASSUME Init PROVE SharedInv
  OBVIOUS
<1>1. /\ row = Absent /\ row.status = "absent"
      /\ engine \in Engines /\ engine.made = 0 /\ engine.launches = 0
      /\ \A c \in Calls : call[c] = NoCall
      /\ call \in [Calls -> CallTypes]
  BY NoCallIs DEF Init, Engines, Runner, Absent
<1>2. TypeOK /\ RowIsWhole
  BY <1>1, AbsentFits, TypeOKIs
<1>3. CallsCarry /\ PreparedOnce /\ StartedOnce
  BY <1>1, NoCallIs DEF CallsCarry, PreparedOnce, StartedOnce
<1>. QED
  BY <1>2, <1>3 DEF SharedInv

(* Every step of extension.py keeps it.                                    *)
LEMMA SharedNext == SharedInv /\ [Next]_vars => SharedInv'
<1>. SUFFICES ASSUME SharedInv, [Next]_vars PROVE SharedInv'
  OBVIOUS
<1>1. ASSUME NEW c \in Calls, NEW p \in Processes,
             NEW op \in {"lookup", "prepare", "start", "stop"}, Begin(c, p, op)
      PROVE  SharedInv'
  BY <1>1, BeginKeeps
<1>2. ASSUME NEW c \in Calls, LookupRead(c) \/ Polled(c) \/ Reconciled(c) PROVE SharedInv'
  BY <1>2, LookupReadKeeps, PolledKeeps, ReconciledKeeps
<1>3. ASSUME NEW c \in Calls, PrepareKnown(c) \/ EngineFails(c) PROVE SharedInv'
  BY <1>3, ReturnsKeeps DEF PrepareKnown, EngineFails
<1>4. ASSUME NEW c \in Calls, PrepareClaim(c) \/ Prepared(c) \/ PrepareRecorded(c)
      PROVE  SharedInv'
  BY <1>4, PrepareClaimKeeps, PreparedKeeps, PrepareRecordedKeeps
<1>5. ASSUME NEW c \in Calls,
             StartClaim(c) \/ StartNot(c) \/ Launched(c) \/ StartRecorded(c) \/ LaunchUndone(c)
      PROVE  SharedInv'
  BY <1>5, StartClaimKeeps, StartNotKeeps, LaunchedKeeps, StartRecordedKeeps,
     LaunchUndoneKeeps
<1>6. ASSUME NEW c \in Calls,
             StopRead(c) \/ StopUnknown(c) \/ Inspected(c) \/ Halted(c) \/ StopRecorded(c)
      PROVE  SharedInv'
  BY <1>6, StopReadKeeps, StopUnknownKeeps, InspectedKeeps, HaltedKeeps, StopRecordedKeeps
<1>7. ASSUME NEW p \in Processes, Crash(p) PROVE SharedInv'
  BY <1>7, CrashKeeps
<1>8. CASE RunnerEnds
  BY <1>8, RunnerEndsKeeps
<1>9. CASE UNCHANGED vars
  BY <1>9 DEF vars, SharedInv, TypeOK, RowIsWhole, CallsCarry, Carries, PreparedOnce,
              StartedOnce, Preparing, Launching
<1>. QED
  BY <1>1, <1>2, <1>3, <1>4, <1>5, <1>6, <1>7, <1>8, <1>9 DEF Next

(* Whatever processes do at the same time, each claim in the journal is    *)
(* made once, by one call, before what it claims is done.                  *)
THEOREM SharedInvariant == Spec => []SharedInv
BY SharedInit, SharedNext, PTL DEF Spec

(* However often prepare and start are repeated, by however many           *)
(* processes, and wherever they crash or fail: one fingerprint gets one    *)
(* simulation and one launch (prepare, start).                             *)
THEOREM OneLaunch == Spec => []LaunchedOnce
<1>1. SharedInv => LaunchedOnce
  BY DEF SharedInv, PreparedOnce, StartedOnce, LaunchedOnce
<1>. QED
  BY <1>1, SharedInvariant, PTL

(* What a step may write over a cancellation or an end: nothing, except    *)
(* that an end may be cancelled.                                           *)
LEMMA OutcomeSteps == SharedInv /\ [Next]_vars => StaysCancelled /\ StaysFinished
<1>. SUFFICES ASSUME SharedInv, [Next]_vars,
                     row.status \in {"cancelled", "completed", "failed", "stopped"}
              PROVE  row'.status \in {row.status, "cancelled"}
  BY DEF StaysCancelled, StaysFinished
<1>1. row # Absent /\ row.status \in Settled
  BY DEF Absent, Settled
<1>2. CASE row' = row
  BY <1>2
<1>3. ASSUME NEW c \in Calls, Reconciled(c) PROVE row' = row
  BY <1>1, <1>3, CallIs DEF Reconciled, Carries
<1>4. ASSUME NEW c \in Calls, PrepareRecorded(c) PROVE row'.status = "cancelled"
  <2>1. row.status = "cancelled"
    BY <1>4 DEF PrepareRecorded, At, SharedInv, PreparedOnce, Preparing
  <2>. QED
    BY <1>4, <2>1, CallIs DEF PrepareRecorded, Rows
<1>5. ASSUME NEW c \in Calls, StopRecorded(c) PROVE row'.status = "cancelled"
  BY <1>5, CallIs DEF StopRecorded, Rows
<1>6. ASSUME NEW c \in Calls, NEW p \in Processes,
             NEW op \in {"lookup", "prepare", "start", "stop"}, Begin(c, p, op)
      PROVE  row' = row
  BY <1>6 DEF Begin
<1>7. ASSUME NEW c \in Calls,
             \/ LookupRead(c) \/ Polled(c) \/ PrepareKnown(c) \/ Prepared(c)
             \/ StartNot(c) \/ Launched(c) \/ LaunchUndone(c) \/ StopRead(c)
             \/ Inspected(c) \/ Halted(c) \/ EngineFails(c)
      PROVE  row' = row
  BY <1>7 DEF LookupRead, Polled, PrepareKnown, Prepared, StartNot, Launched, LaunchUndone,
              StopRead, Inspected, Halted, EngineFails
<1>8. ASSUME NEW c \in Calls,
             PrepareClaim(c) \/ StartClaim(c) \/ StartRecorded(c) \/ StopUnknown(c)
      PROVE  row' = row
  BY <1>1, <1>8 DEF PrepareClaim, StartClaim, StartRecorded, StopUnknown
<1>9. CASE RunnerEnds \/ (\E p \in Processes : Crash(p)) \/ UNCHANGED vars
  BY <1>9 DEF RunnerEnds, Crash, vars
<1>. QED
  BY <1>2, <1>3, <1>4, <1>5, <1>6, <1>7, <1>8, <1>9 DEF Next

(* A cancellation recorded in the journal is final, and a simulation that  *)
(* is recorded as finished stays so unless it is cancelled, although       *)
(* prepare, start and poll work on rows they read earlier.                 *)
THEOREM OutcomesStand == Spec => [][StaysCancelled /\ StaysFinished]_vars
<1>1. SharedInv /\ [Next]_vars => [StaysCancelled /\ StaysFinished]_vars
  BY OutcomeSteps
<1>. QED
  BY <1>1, SharedInvariant, PTL DEF Spec

-----------------------------------------------------------------------------
(* A single process.                                                       *)

Stopping(x) == x.pc \in {"inspecting", "halting", "cancelling"}

(* A call that may take the lock, or has it, is alone with it.             *)
LEMMA LockIsMine ==
  ASSUME LocalInv, NEW c \in Calls, call[c] # NoCall, ~Locked(c) \/ call[c].held
  PROVE  \A d \in Calls \ {c} : ~call[d].held
<1>1. SUFFICES ASSUME NEW d \in Calls \ {c}, call[d].held PROVE FALSE
  OBVIOUS
<1>2. call[d].proc = call[c].proc
  BY <1>1, NoCallIs DEF LocalInv, LockIsHeld, OneProcess
<1>. QED
  BY <1>1, <1>2 DEF Locked, LocalInv, LockIsHeld

(* The step of a call that does nothing to the row or the engine.          *)
LEMMA LocalQuiet ==
  ASSUME LocalInv, SharedInv', NEW c \in Calls, NEW x,
         call' = [call EXCEPT ![c] = x], UNCHANGED <<row, engine>>,
         x # NoCall => x.proc \in Processes,
         x.pc \notin Holders, x.held => call[c].held
  PROVE  LocalInv'
<1>1. \A d \in Calls : call'[d] = IF d = c THEN x ELSE call[d]
  BY TypeOKIs DEF LocalInv, SharedInv
<1>2. LockIsHeld'
  BY <1>1 DEF LocalInv, LockIsHeld
<1>3. ~Launching(x) /\ ~Stopping(x) /\ x.pc # "cancelling"
  BY DEF Launching, Stopping, Holders
<1>4. RowIsKept'
  BY <1>1, <1>3 DEF LocalInv, RowIsKept, Stopping
<1>5. RunsAreKnown'
  BY <1>1, <1>3 DEF LocalInv, RunsAreKnown
<1>. QED
  BY <1>2, <1>4, <1>5 DEF LocalInv

(* The step of the call that has, takes or could take the lock.            *)
LEMMA LocalAlone ==
  ASSUME LocalInv, SharedInv', NEW c \in Calls, NEW x,
         \A d \in Calls \ {c} : ~call[d].held,
         call' = [call EXCEPT ![c] = x],
         x # NoCall => x.proc \in Processes,
         x.pc \in Holders => x.held,
         Launching(x) \/ Stopping(x) => row' = x.job,
         Launching(x) => x.job.status = "start_uncertain",
         engine'.launches = 0 => engine'.runner = "none",
         engine'.runner = "running" => row'.sim # 0 /\ row'.sim = engine'.runs,
         row'.status = "cancelled" => engine'.runner # "running",
         x.pc = "cancelling" => engine'.runner # "running"
  PROVE  LocalInv'
<1>1. \A d \in Calls : call'[d] = IF d = c THEN x ELSE call[d]
  BY TypeOKIs DEF LocalInv, SharedInv
<1>2. LockIsHeld'
  BY <1>1 DEF LocalInv, LockIsHeld
<1>3. \A d \in Calls \ {c} : call'[d].pc \notin Holders
  BY <1>1 DEF LocalInv, LockIsHeld
<1>4. \A d \in Calls \ {c} :
        ~Launching(call'[d]) /\ ~Stopping(call'[d]) /\ call'[d].pc # "cancelling"
  BY <1>3 DEF Launching, Stopping, Holders
<1>5. RowIsKept'
  BY <1>1, <1>4 DEF RowIsKept, Stopping
<1>6. RunsAreKnown'
  BY <1>1, <1>4 DEF RunsAreKnown
<1>. QED
  BY <1>2, <1>5, <1>6 DEF LocalInv

(* What a call of a single process is, at each place that matters.         *)
LEMMA LocalCallIs ==
  ASSUME LocalInv, NEW c \in Calls
  PROVE  /\ call[c] \in CallTypes /\ call[c].job \in Rows /\ row \in Rows
         /\ call[c].pc # "idle" => call[c] # NoCall /\ call[c].proc \in Processes
         /\ call[c].pc \in Holders =>
              call[c].held /\ \A d \in Calls \ {c} : ~call[d].held
BY CallIs, LockIsMine, NoCallIs DEF LocalInv, LockIsHeld, Holders

LEMMA LocalReturns ==
  ASSUME LocalInv, SharedInv', NEW c \in Calls, Returns(c), UNCHANGED <<row, engine>>
  PROVE  LocalInv'
BY NoCallIs, LocalQuiet DEF Returns, Holders

LEMMA LocalBegin ==
  ASSUME LocalInv, SharedInv', NEW c \in Calls, NEW p \in Processes,
         NEW op \in {"lookup", "prepare", "start", "stop"}, Begin(c, p, op)
  PROVE  LocalInv'
<1>. PICK x : x = [NoCall EXCEPT !.op = op, !.proc = p,
                                 !.pc = IF op = "lookup" THEN "lookup" ELSE "enter"]
  OBVIOUS
<1>1. x.proc = p /\ x.pc \in {"lookup", "enter"} /\ ~x.held
  BY NoCallIs DEF CallTypes
<1>. QED
  BY <1>1, LocalQuiet DEF Begin, Holders

LEMMA LocalLookup ==
  ASSUME LocalInv, SharedInv', NEW c \in Calls, LookupRead(c) \/ Polled(c)
  PROVE  LocalInv'
<1>1. UNCHANGED <<row, engine>> /\ call[c].proc \in Processes /\ call[c] \in CallTypes
  BY LocalCallIs DEF LookupRead, Polled
<1>2. CASE call' = [call EXCEPT ![c].pc = "poll", ![c].job = row]
  <2>. PICK x : x = [call[c] EXCEPT !.pc = "poll", !.job = row]
    OBVIOUS
  <2>1. x.proc = call[c].proc /\ x.pc = "poll" /\ x.held = call[c].held
    BY <1>1 DEF CallTypes
  <2>2. call' = [call EXCEPT ![c] = x]
    BY <1>2
  <2>. QED
    BY <1>1, <2>1, <2>2, LocalQuiet DEF Holders
<1>3. CASE call' = [call EXCEPT ![c].pc = "reconcile", ![c].state = engine.runner]
  <2>. PICK x : x = [call[c] EXCEPT !.pc = "reconcile", !.state = engine.runner]
    OBVIOUS
  <2>1. x.proc = call[c].proc /\ x.pc = "reconcile" /\ x.held = call[c].held
    BY <1>1 DEF CallTypes
  <2>2. call' = [call EXCEPT ![c] = x]
    BY <1>3
  <2>. QED
    BY <1>1, <2>1, <2>2, LocalQuiet DEF Holders
<1>4. CASE Returns(c)
  BY <1>1, <1>4, LocalReturns
<1>. QED
  BY <1>2, <1>3, <1>4 DEF LookupRead, Polled

(* The call returns and leaves a row behind, with the lock for itself.     *)
LEMMA LocalWrites ==
  ASSUME LocalInv, SharedInv', NEW c \in Calls, call[c].pc # "idle",
         ~Locked(c) \/ call[c].pc \in Holders, Returns(c), UNCHANGED engine,
         row'.sim = row.sim \/ engine.launches = 0,
         row'.status = "cancelled" => row.status = "cancelled" \/ engine.runner # "running"
  PROVE  LocalInv'
<1>1. \A d \in Calls \ {c} : ~call[d].held
  BY LocalCallIs, LockIsMine
<1>2. /\ engine.launches = 0 => engine.runner = "none"
      /\ engine.runner = "running" => row'.sim # 0 /\ row'.sim = engine.runs
      /\ row'.status = "cancelled" => engine.runner # "running"
  BY DEF LocalInv, RunsAreKnown
<1>3. NoCall.pc \notin Holders /\ ~Launching(NoCall) /\ ~Stopping(NoCall)
      /\ NoCall.pc # "cancelling"
  BY NoCallIs DEF Holders, Launching, Stopping
<1>. QED
  BY <1>1, <1>2, <1>3, LocalAlone DEF Returns

LEMMA LocalReconciled ==
  ASSUME LocalInv, SharedInv', NEW c \in Calls, Reconciled(c)
  PROVE  LocalInv'
<1>1. row'.sim = row.sim
  BY LocalCallIs DEF Reconciled, Rows
<1>2. row'.status = "cancelled" => row.status = "cancelled"
  BY LocalCallIs DEF Reconciled, Rows, CallTypes, Runner
<1>. QED
  BY <1>1, <1>2, LocalWrites DEF Reconciled

LEMMA LocalPrepare ==
  ASSUME LocalInv, SharedInv', NEW c \in Calls,
         PrepareClaim(c) \/ Prepared(c) \/ PrepareRecorded(c)
  PROVE  LocalInv'
<1>1. call[c] \in CallTypes /\ call[c].proc \in Processes
      /\ \A d \in Calls \ {c} : ~call[d].held
  BY LocalCallIs, LockIsMine DEF PrepareClaim, Prepared, PrepareRecorded, At, Holders
<1>2. engine.launches = 0 /\ engine.runner = "none"
  BY DEF LocalInv, RunsAreKnown, SharedInv, PreparedOnce, StartedOnce, PrepareClaim,
         Prepared, PrepareRecorded, At, Preparing, Absent
<1>3. CASE PrepareClaim(c)
  <2>. PICK job : job = [request |-> TRUE, sim |-> 0, status |-> "prepare_uncertain"]
    OBVIOUS
  <2>. PICK x : x = [call[c] EXCEPT !.pc = "preparing", !.held = TRUE, !.job = job]
    OBVIOUS
  <2>1. x.proc = call[c].proc /\ x.pc = "preparing" /\ x.held
    BY <1>1 DEF CallTypes
  <2>2. call' = [call EXCEPT ![c] = x] /\ UNCHANGED engine
    BY <1>3 DEF PrepareClaim
  <2>3. ~Launching(x) /\ ~Stopping(x)
    BY <2>1 DEF Launching, Stopping
  <2>. QED
    BY <1>1, <1>2, <2>1, <2>2, <2>3, LocalAlone
<1>4. CASE Prepared(c)
  <2>. PICK x : x = [call[c] EXCEPT !.pc = "prepared", !.job.sim = engine.made + 1]
    OBVIOUS
  <2>1. x.proc = call[c].proc /\ x.pc = "prepared" /\ x.held = call[c].held
    BY <1>1 DEF CallTypes
  <2>2. call' = [call EXCEPT ![c] = x] /\ engine'.runner = "none"
    BY <1>2, <1>4, CallIs DEF Prepared, LocalInv, Engines
  <2>3. ~Launching(x) /\ ~Stopping(x) /\ call[c].held
    BY <1>4, <2>1, LocalCallIs DEF Launching, Stopping, Prepared, At, Holders
  <2>. QED
    BY <1>1, <2>1, <2>2, <2>3, LocalAlone
<1>5. CASE PrepareRecorded(c)
  BY <1>2, <1>5, LocalWrites DEF PrepareRecorded, At, Holders
<1>. QED
  BY <1>3, <1>4, <1>5

LEMMA LocalStart ==
  ASSUME LocalInv, SharedInv', NEW c \in Calls,
         \/ StartClaim(c) \/ StartNot(c) \/ Launched(c) \/ StartRecorded(c)
         \/ LaunchUndone(c)
  PROVE  LocalInv'
<1>1. /\ call[c] \in CallTypes /\ call[c].job \in Rows /\ row \in Rows
      /\ engine \in Engines /\ call[c].proc \in Processes
      /\ \A d \in Calls \ {c} : ~call[d].held
  BY LocalCallIs, LockIsMine, CallIs
     DEF StartClaim, StartNot, Launched, StartRecorded, LaunchUndone, At, Holders, LocalInv
<1>2. /\ engine.launches = 0 => engine.runner = "none"
      /\ engine.runner = "running" => row.sim # 0 /\ row.sim = engine.runs
      /\ row.status = "cancelled" => engine.runner # "running"
  BY DEF LocalInv, RunsAreKnown
<1>3. CASE StartClaim(c)
  <2>. PICK x : x = [call[c] EXCEPT !.pc = "launching", !.held = TRUE, !.job = row']
    OBVIOUS
  <2>1. x.proc = call[c].proc /\ x.pc = "launching" /\ x.held /\ x.job = row'
    BY <1>1 DEF CallTypes
  <2>2. call' = [call EXCEPT ![c] = x] /\ UNCHANGED engine
    BY <1>3 DEF StartClaim
  <2>3. row'.status = "start_uncertain" /\ row'.sim = row.sim
    BY <1>1, <1>3 DEF StartClaim, Rows
  <2>. QED
    BY <1>1, <1>2, <2>1, <2>2, <2>3, LocalAlone
<1>4. CASE StartNot(c)
  <2>1. CASE row = Absent
    BY <1>4, <2>1, LocalReturns DEF StartNot
  <2>2. CASE row # Absent
    <3>. PICK x : x = [call[c] EXCEPT !.pc = "lookup", !.held = TRUE]
      OBVIOUS
    <3>1. x.proc = call[c].proc /\ x.pc = "lookup"
      BY <1>1 DEF CallTypes
    <3>2. call' = [call EXCEPT ![c] = x] /\ UNCHANGED <<row, engine>>
      BY <1>4, <2>2 DEF StartNot
    <3>3. x.pc \notin Holders /\ ~Launching(x) /\ ~Stopping(x)
      BY <3>1 DEF Holders, Launching, Stopping
    <3>. QED
      BY <1>1, <1>2, <3>1, <3>2, <3>3, LocalAlone
  <2>. QED
    BY <2>1, <2>2
<1>5. CASE Launched(c)
  <2>. PICK x : x = [call[c] EXCEPT !.pc = "launched"]
    OBVIOUS
  <2>1. /\ x.proc = call[c].proc /\ x.pc = "launched" /\ x.held = call[c].held
        /\ x.job = call[c].job
    BY <1>1 DEF CallTypes
  <2>2. /\ call' = [call EXCEPT ![c] = x] /\ UNCHANGED row
        /\ call[c].held /\ Launching(call[c])
    BY <1>5, LocalCallIs DEF Launched, At, Holders, Launching
  <2>3. /\ row = call[c].job /\ row.status = "start_uncertain" /\ row.sim # 0
    BY <2>2 DEF LocalInv, RowIsKept, SharedInv, CallsCarry, Carries
  <2>4. engine'.launches # 0 /\ engine'.runs = row.sim
    BY <1>1, <1>5, <2>3 DEF Launched, Engines
  <2>. QED
    BY <1>1, <2>1, <2>2, <2>3, <2>4, LocalAlone
<1>6. CASE StartRecorded(c)
  <2>. PICK x : x = [call[c] EXCEPT !.pc =
                       IF row.status = "cancelled" THEN "undoing" ELSE "lookup"]
    OBVIOUS
  <2>1. /\ x.proc = call[c].proc /\ x.pc \in {"undoing", "lookup"} /\ x.held = call[c].held
    BY <1>1 DEF CallTypes
  <2>2. /\ call' = [call EXCEPT ![c] = x] /\ UNCHANGED engine
        /\ call[c].held /\ Launching(call[c])
    BY <1>6, LocalCallIs DEF StartRecorded, At, Holders, Launching
  <2>3. row = call[c].job /\ row.status = "start_uncertain"
    BY <2>2 DEF LocalInv, RowIsKept
  <2>4. row'.sim = row.sim /\ row'.status # "cancelled"
    BY <1>1, <1>6, <2>3 DEF StartRecorded, Rows
  <2>5. ~Launching(x) /\ ~Stopping(x) /\ x.pc # "cancelling"
    BY <2>1 DEF Launching, Stopping
  <2>. QED
    BY <1>1, <1>2, <2>1, <2>2, <2>4, <2>5, LocalAlone
<1>7. CASE LaunchUndone(c)
  <2>. PICK x : x = [call[c] EXCEPT !.pc = "lookup"]
    OBVIOUS
  <2>1. x.proc = call[c].proc /\ x.pc = "lookup" /\ x.held = call[c].held
    BY <1>1 DEF CallTypes
  <2>2. call' = [call EXCEPT ![c] = x] /\ UNCHANGED row
    BY <1>7 DEF LaunchUndone
  <2>3. engine'.runner # "running" /\ engine'.launches = engine.launches
        /\ (engine.runner = "none" => engine'.runner = "none")
    BY <1>1, <1>7 DEF LaunchUndone, Halt, Engines
  <2>4. x.pc \notin Holders /\ ~Launching(x) /\ ~Stopping(x)
    BY <2>1 DEF Holders, Launching, Stopping
  <2>. QED
    BY <1>1, <1>2, <2>1, <2>2, <2>3, <2>4, LocalAlone
<1>. QED
  BY <1>3, <1>4, <1>5, <1>6, <1>7

LEMMA LocalStop ==
  ASSUME LocalInv, SharedInv', NEW c \in Calls,
         \/ StopRead(c) \/ StopUnknown(c) \/ Inspected(c) \/ Halted(c)
         \/ StopRecorded(c)
  PROVE  LocalInv'
<1>1. /\ call[c] \in CallTypes /\ call[c].job \in Rows /\ row \in Rows
      /\ engine \in Engines /\ call[c].proc \in Processes
      /\ \A d \in Calls \ {c} : ~call[d].held
  BY LocalCallIs, LockIsMine, CallIs
     DEF StopRead, StopUnknown, Inspected, Halted, StopRecorded, At, Holders, LocalInv
<1>2. /\ engine.launches = 0 => engine.runner = "none"
      /\ engine.runner = "running" => row.sim # 0 /\ row.sim = engine.runs
      /\ row.status = "cancelled" => engine.runner # "running"
      /\ call[c].pc = "cancelling" => engine.runner # "running"
  BY DEF LocalInv, RunsAreKnown
<1>3. CASE StopRead(c)
  <2>. PICK x : x = [call[c] EXCEPT !.pc = IF row.sim # 0 THEN "inspecting"
                                                          ELSE "cancelling",
                                    !.held = TRUE, !.job = row]
    OBVIOUS
  <2>1. /\ x.proc = call[c].proc /\ x.held /\ x.job = row
        /\ x.pc \in {"inspecting", "cancelling"} /\ (x.pc = "cancelling" => row.sim = 0)
    BY <1>1 DEF CallTypes
  <2>2. call' = [call EXCEPT ![c] = x] /\ UNCHANGED <<row, engine>>
    BY <1>3 DEF StopRead
  <2>3. ~Launching(x)
    BY <2>1 DEF Launching
  <2>. QED
    BY <1>1, <1>2, <2>1, <2>2, <2>3, LocalAlone
<1>4. CASE StopUnknown(c)
  <2>1. engine.launches = 0
    BY <1>4 DEF StopUnknown, LocalInv, SharedInv, StartedOnce, Absent
  <2>. QED
    BY <1>2, <1>4, <2>1, LocalWrites DEF StopUnknown, At
<1>5. CASE Inspected(c)
  <2>. PICK x : x = [call[c] EXCEPT !.pc =
                       CASE engine.runner = "running" -> "halting"
                         [] engine.runner = "completed" -> "lookup"
                         [] OTHER -> "cancelling"]
    OBVIOUS
  <2>1. /\ x.proc = call[c].proc /\ x.held = call[c].held /\ x.job = call[c].job
        /\ x.pc \in {"halting", "lookup", "cancelling"}
        /\ (x.pc = "cancelling" => engine.runner # "running")
    BY <1>1 DEF CallTypes
  <2>2. call' = [call EXCEPT ![c] = x] /\ UNCHANGED <<row, engine>>
    BY <1>5 DEF Inspected
  <2>3. call[c].held /\ row = call[c].job
    BY <1>5, LocalCallIs DEF Inspected, At, Holders, LocalInv, RowIsKept
  <2>4. ~Launching(x)
    BY <2>1 DEF Launching
  <2>. QED
    BY <1>1, <1>2, <2>1, <2>2, <2>3, <2>4, LocalAlone
<1>6. CASE Halted(c)
  <2>. PICK x : x = [call[c] EXCEPT !.pc = "cancelling"]
    OBVIOUS
  <2>1. /\ x.proc = call[c].proc /\ x.pc = "cancelling" /\ x.held = call[c].held
        /\ x.job = call[c].job
    BY <1>1 DEF CallTypes
  <2>2. call' = [call EXCEPT ![c] = x] /\ UNCHANGED row
    BY <1>6 DEF Halted
  <2>3. engine'.runner # "running" /\ engine'.launches = engine.launches
        /\ (engine.runner = "none" => engine'.runner = "none")
    BY <1>1, <1>6 DEF Halted, Halt, Engines
  <2>4. call[c].held /\ row = call[c].job
    BY <1>6, LocalCallIs DEF Halted, At, Holders, LocalInv, RowIsKept
  <2>5. ~Launching(x)
    BY <2>1 DEF Launching
  <2>. QED
    BY <1>1, <1>2, <2>1, <2>2, <2>3, <2>4, <2>5, LocalAlone
<1>7. CASE StopRecorded(c)
  <2>1. row = call[c].job /\ engine.runner # "running"
    BY <1>2, <1>7 DEF StopRecorded, At, LocalInv, RowIsKept
  <2>2. row'.sim = row.sim
    BY <1>1, <1>7, <2>1 DEF StopRecorded, Rows
  <2>. QED
    BY <1>7, <2>1, <2>2, LocalWrites DEF StopRecorded, At, Holders
<1>. QED
  BY <1>3, <1>4, <1>5, <1>6, <1>7

LEMMA LocalOutside ==
  ASSUME LocalInv, SharedInv',
         \/ \E p \in Processes : Crash(p)
         \/ RunnerEnds
         \/ UNCHANGED vars
  PROVE  LocalInv'
<1>1. CASE \E p \in Processes : Crash(p)
  <2>1. /\ UNCHANGED <<row, engine>>
        /\ \A d \in Calls : call'[d] \in {call[d], NoCall}
    BY <1>1 DEF Crash
  <2>2. /\ NoCall.pc \notin Holders /\ ~NoCall.held /\ NoCall.pc # "cancelling"
        /\ ~Launching(NoCall) /\ NoCall.pc \notin {"inspecting", "halting", "cancelling"}
    BY NoCallIs DEF Holders, Launching
  <2>3. LockIsHeld'
    BY <2>1, <2>2 DEF LocalInv, LockIsHeld
  <2>4. RowIsKept'
    BY <2>1, <2>2 DEF LocalInv, RowIsKept
  <2>5. RunsAreKnown'
    BY <2>1, <2>2 DEF LocalInv, RunsAreKnown
  <2>. QED
    BY <2>3, <2>4, <2>5 DEF LocalInv
<1>2. CASE RunnerEnds
  <2>1. engine \in Engines
    BY CallIs DEF LocalInv, SharedInv, TypeOK, Engines
  <2>2. /\ UNCHANGED <<row, call>> /\ engine'.runner # "running"
        /\ engine.runner = "running" /\ engine'.launches = engine.launches
    BY <1>2, <2>1 DEF RunnerEnds, Engines
  <2>. QED
    BY <2>2 DEF LocalInv, LockIsHeld, RowIsKept, RunsAreKnown
<1>3. CASE UNCHANGED vars
  BY <1>3 DEF vars, LocalInv, LockIsHeld, RowIsKept, RunsAreKnown
<1>. QED
  BY <1>1, <1>2, <1>3

LEMMA LocalInit == OneProcess /\ Init => LocalInv
<1>. SUFFICES ASSUME OneProcess, Init PROVE LocalInv
  OBVIOUS
<1>1. SharedInv
  BY SharedInit
<1>2. \A c \in Calls : call[c] = NoCall
  BY DEF Init
<1>3. LockIsHeld /\ RowIsKept
  BY <1>2, NoCallIs DEF LockIsHeld, RowIsKept, Holders, Launching
<1>4. RunsAreKnown
  BY <1>2, NoCallIs DEF RunsAreKnown, Init, Absent
<1>. QED
  BY <1>1, <1>3, <1>4 DEF LocalInv

LEMMA LocalNext == LocalInv /\ [Next]_vars => LocalInv'
<1>. SUFFICES ASSUME LocalInv, [Next]_vars PROVE LocalInv'
  OBVIOUS
<1>1. SharedInv'
  BY SharedNext DEF LocalInv
<1>2. ASSUME NEW c \in Calls, NEW p \in Processes,
             NEW op \in {"lookup", "prepare", "start", "stop"}, Begin(c, p, op)
      PROVE  LocalInv'
  BY <1>1, <1>2, LocalBegin
<1>3. ASSUME NEW c \in Calls,
             \/ LookupRead(c) \/ Polled(c) \/ Reconciled(c)
             \/ PrepareClaim(c) \/ PrepareKnown(c) \/ Prepared(c) \/ PrepareRecorded(c)
             \/ EngineFails(c)
      PROVE  LocalInv'
  BY <1>1, <1>3, LocalLookup, LocalReconciled, LocalPrepare, LocalReturns
     DEF PrepareKnown, EngineFails
<1>4. ASSUME NEW c \in Calls,
             \/ StartClaim(c) \/ StartNot(c) \/ Launched(c) \/ StartRecorded(c)
             \/ LaunchUndone(c)
      PROVE  LocalInv'
  BY <1>1, <1>4, LocalStart
<1>5. ASSUME NEW c \in Calls,
             \/ StopRead(c) \/ StopUnknown(c) \/ Inspected(c) \/ Halted(c)
             \/ StopRecorded(c)
      PROVE  LocalInv'
  BY <1>1, <1>5, LocalStop
<1>6. ASSUME \/ \E p \in Processes : Crash(p)
             \/ RunnerEnds
             \/ UNCHANGED vars
      PROVE  LocalInv'
  BY <1>1, <1>6, LocalOutside
<1>. QED
  BY <1>2, <1>3, <1>4, <1>5, <1>6 DEF Next

(* Theorem: LocalInv is an invariant of the registry of a single process,  *)
(* with any number of calls.                                               *)
THEOREM LocalInvariant == OneProcess /\ Spec => []LocalInv
<1>1. OneProcess /\ Init => LocalInv
  BY LocalInit
<1>2. LocalInv /\ [Next]_vars => LocalInv'
  BY LocalNext
<1>. QED
  BY <1>1, <1>2, PTL DEF Spec

(* Theorem: in the registry of a single process, whatever fails and        *)
(* wherever it crashes, a cancelled job has no simulation running and a    *)
(* running simulation is the one its row names, so it can be stopped.      *)
THEOREM NothingRunsUnfound ==
  OneProcess /\ Spec => [](CancelledIsStopped /\ RunningIsFindable)
<1>1. LocalInv => CancelledIsStopped /\ RunningIsFindable
  BY DEF LocalInv, RunsAreKnown, CancelledIsStopped, RunningIsFindable
<1>. QED
  BY <1>1, LocalInvariant, PTL

-----------------------------------------------------------------------------
(* What a single process answers.  A recorded end is the runner's, a launch *)
(* is in the journal, and the lookup at the end of stop and start finds the *)
(* row as it was read.                                                      *)

Finished == {"completed", "failed", "stopped"}
Ended == Finished \union {"cancelled"}
LookingUp(x) == x.pc \in {"lookup", "poll", "reconcile"}

EndsAreKnown ==
  /\ engine.launches # 0 =>
       row.status \notin {"absent", "prepare_uncertain", "ready"} /\ row.sim = engine.runs
  /\ row.status \in Finished => engine.runner = row.status
  /\ \A c \in Calls : call[c].pc = "reconcile" /\ call[c].state \in Finished =>
       engine.runner = call[c].state

LookupsAreKept ==
  /\ \A c \in Calls : call[c].held /\ call[c].pc \in {"poll", "reconcile"} =>
       row = call[c].job
  /\ \A c \in Calls : call[c].op = "stop" /\ LookingUp(call[c]) =>
       /\ call[c].held /\ engine.runner = "completed"
       /\ call[c].pc = "reconcile" => call[c].state = "completed"

ServedInv ==
  /\ LocalInv
  /\ EndsAreKnown
  /\ LookupsAreKept

(* The steps in which the server works on call c and nothing fails.        *)
Handles(c) ==
  \/ LookupRead(c) \/ Polled(c) \/ Reconciled(c)
  \/ PrepareClaim(c) \/ PrepareKnown(c) \/ Prepared(c) \/ PrepareRecorded(c)
  \/ StartClaim(c) \/ StartNot(c) \/ Launched(c) \/ StartRecorded(c)
  \/ LaunchUndone(c)
  \/ StopRead(c) \/ StopUnknown(c) \/ Inspected(c) \/ Halted(c)
  \/ StopRecorded(c)

(* The step of call c, which becomes x: the row changes only if nobody     *)
(* else holds the lock, and the end of a runner is final.                  *)
LEMMA ServedGoes ==
  ASSUME ServedInv, LocalInv', NEW c \in Calls, NEW x,
         call' = [call EXCEPT ![c] = x],
         row' = row \/ \A d \in Calls \ {c} : ~call[d].held,
         engine.runner \in Finished => engine'.runner = engine.runner,
         engine'.launches # 0 =>
           /\ row'.status \notin {"absent", "prepare_uncertain", "ready"}
           /\ row'.sim = engine'.runs,
         row'.status \in Finished => engine'.runner = row'.status,
         x.pc = "reconcile" /\ x.state \in Finished => engine'.runner = x.state,
         x.held /\ x.pc \in {"poll", "reconcile"} => row' = x.job,
         x.op = "stop" /\ LookingUp(x) =>
           /\ x.held /\ engine'.runner = "completed"
           /\ x.pc = "reconcile" => x.state = "completed"
  PROVE  ServedInv'
<1>1. \A d \in Calls : call'[d] = IF d = c THEN x ELSE call[d]
  BY TypeOKIs DEF ServedInv, LocalInv, SharedInv
<1>2. EndsAreKnown'
  BY <1>1 DEF ServedInv, EndsAreKnown
<1>3. LookupsAreKept'
  BY <1>1 DEF ServedInv, LookupsAreKept, LookingUp, Finished
<1>. QED
  BY <1>2, <1>3 DEF ServedInv

(* What is known of the row, the engine and the call that takes a step.    *)
LEMMA ServedIs ==
  ASSUME ServedInv, NEW c \in Calls
  PROVE  /\ call[c] \in CallTypes /\ call[c].job \in Rows /\ row \in Rows
         /\ engine \in Engines
         /\ engine.launches = 0 => engine.runner = "none"
         /\ engine.launches # 0 =>
              row.status \notin {"absent", "prepare_uncertain", "ready"} /\ row.sim = engine.runs
         /\ row.status \in Finished => engine.runner = row.status
         /\ call[c].pc # "idle" /\ (~Locked(c) \/ call[c].pc \in Holders) =>
              \A d \in Calls \ {c} : ~call[d].held
BY LocalCallIs, LockIsMine, CallIs DEF ServedInv, LocalInv, RunsAreKnown, EndsAreKnown

(* A call returns; what it writes is not new, or not an end.               *)
LEMMA ServedReturns ==
  ASSUME ServedInv, LocalInv', NEW c \in Calls, Returns(c), UNCHANGED engine,
         row' = row \/ \A d \in Calls \ {c} : ~call[d].held,
         engine.launches # 0 =>
           /\ row'.status \notin {"absent", "prepare_uncertain", "ready"}
           /\ row'.sim = row.sim,
         row'.status \in Finished => engine.runner = row'.status
  PROVE  ServedInv'
<1>1. NoCall.pc \notin {"poll", "reconcile"} /\ NoCall.op # "stop"
  BY NoCallIs DEF NoCall
<1>. QED
  BY <1>1, ServedIs, ServedGoes DEF Returns

LEMMA ServedLookup ==
  ASSUME ServedInv, LocalInv', NEW c \in Calls,
         LookupRead(c) \/ Polled(c) \/ Reconciled(c)
  PROVE  ServedInv'
<1>1. /\ call[c] \in CallTypes /\ call[c].job \in Rows /\ row \in Rows
      /\ call[c].pc # "idle"
  BY ServedIs DEF LookupRead, Polled, Reconciled
<1>2. /\ call[c].held /\ call[c].pc \in {"poll", "reconcile"} => row = call[c].job
      /\ call[c].op = "stop" /\ LookingUp(call[c]) =>
           /\ call[c].held /\ engine.runner = "completed"
           /\ call[c].pc = "reconcile" => call[c].state = "completed"
      /\ call[c].pc = "reconcile" /\ call[c].state \in Finished =>
           engine.runner = call[c].state
  BY DEF ServedInv, LookupsAreKept, EndsAreKnown
<1>3. CASE LookupRead(c) /\ call' = [call EXCEPT ![c].pc = "poll", ![c].job = row]
  <2>. PICK x : x = [call[c] EXCEPT !.pc = "poll", !.job = row]
    OBVIOUS
  <2>1. x.op = call[c].op /\ x.pc = "poll" /\ x.held = call[c].held /\ x.job = row
    BY <1>1 DEF CallTypes
  <2>2. call' = [call EXCEPT ![c] = x] /\ UNCHANGED <<row, engine>> /\ LookingUp(call[c])
    BY <1>3 DEF LookupRead, LookingUp
  <2>. QED
    BY <1>2, <2>1, <2>2, ServedIs, ServedGoes
<1>4. CASE Polled(c) /\ call' = [call EXCEPT ![c].pc = "reconcile",
                                             ![c].state = engine.runner]
  <2>. PICK x : x = [call[c] EXCEPT !.pc = "reconcile", !.state = engine.runner]
    OBVIOUS
  <2>1. /\ x.op = call[c].op /\ x.pc = "reconcile" /\ x.held = call[c].held
        /\ x.job = call[c].job /\ x.state = engine.runner
    BY <1>1 DEF CallTypes
  <2>2. /\ call' = [call EXCEPT ![c] = x] /\ UNCHANGED <<row, engine>>
        /\ call[c].pc = "poll" /\ LookingUp(call[c])
    BY <1>4 DEF Polled, LookingUp
  <2>. QED
    BY <1>2, <2>1, <2>2, ServedIs, ServedGoes
<1>5. CASE Returns(c) /\ UNCHANGED <<row, engine>>
  BY <1>5, ServedIs, ServedReturns
<1>6. CASE Reconciled(c)
  <2>1. \A d \in Calls \ {c} : ~call[d].held
    BY <1>1, <1>6, ServedIs DEF Reconciled
  <2>2. call[c].state \in Runner \ {"none"}
    BY <1>6, ServedIs DEF Reconciled, CallTypes, ServedInv, LocalInv, SharedInv,
       CallsCarry, Carries
  <2>3. row'.sim = row.sim /\ row'.status \in {row.status, call[c].state}
    BY <1>1, <1>6 DEF Reconciled, Rows
  <2>4. Returns(c) /\ UNCHANGED engine /\ call[c].pc = "reconcile"
    BY <1>6 DEF Reconciled
  <2>. QED
    BY <1>2, <2>1, <2>2, <2>3, <2>4, ServedIs, ServedReturns DEF Runner, Finished
<1>. QED
  BY <1>3, <1>4, <1>5, <1>6 DEF LookupRead, Polled

LEMMA ServedBegin ==
  ASSUME ServedInv, LocalInv', NEW c \in Calls, NEW p \in Processes,
         NEW op \in {"lookup", "prepare", "start", "stop"}, Begin(c, p, op)
  PROVE  ServedInv'
<1>. PICK x : x = [NoCall EXCEPT !.op = op, !.proc = p,
                                 !.pc = IF op = "lookup" THEN "lookup" ELSE "enter"]
  OBVIOUS
<1>1. x.op = op /\ x.pc = IF op = "lookup" THEN "lookup" ELSE "enter"
  BY NoCallIs DEF NoCall
<1>2. call' = [call EXCEPT ![c] = x] /\ UNCHANGED <<row, engine>>
  BY DEF Begin
<1>3. x.pc \notin {"poll", "reconcile"} /\ ~(x.op = "stop" /\ LookingUp(x))
  BY <1>1 DEF LookingUp
<1>. QED
  BY <1>2, <1>3, ServedIs, ServedGoes

LEMMA ServedPrepare ==
  ASSUME ServedInv, LocalInv', NEW c \in Calls,
         PrepareClaim(c) \/ Prepared(c) \/ PrepareRecorded(c)
  PROVE  ServedInv'
<1>1. call[c] \in CallTypes /\ \A d \in Calls \ {c} : ~call[d].held
  BY ServedIs DEF PrepareClaim, Prepared, PrepareRecorded, At, Holders
<1>2. engine.launches = 0 /\ engine.runner = "none"
  BY DEF ServedInv, LocalInv, RunsAreKnown, SharedInv, PreparedOnce, StartedOnce,
         PrepareClaim, Prepared, PrepareRecorded, At, Preparing, Absent
<1>3. CASE PrepareClaim(c)
  <2>. PICK job : job = [request |-> TRUE, sim |-> 0, status |-> "prepare_uncertain"]
    OBVIOUS
  <2>. PICK x : x = [call[c] EXCEPT !.pc = "preparing", !.held = TRUE, !.job = job]
    OBVIOUS
  <2>1. x.pc = "preparing"
    BY <1>1 DEF CallTypes
  <2>2. call' = [call EXCEPT ![c] = x] /\ UNCHANGED engine /\ row' = job
    BY <1>3 DEF PrepareClaim
  <2>. QED
    BY <1>1, <1>2, <2>1, <2>2, ServedGoes DEF Finished, LookingUp
<1>4. CASE Prepared(c)
  <2>. PICK x : x = [call[c] EXCEPT !.pc = "prepared", !.job.sim = engine.made + 1]
    OBVIOUS
  <2>1. x.pc = "prepared"
    BY <1>1 DEF CallTypes
  <2>2. /\ call' = [call EXCEPT ![c] = x] /\ UNCHANGED row
        /\ engine'.runner = "none" /\ engine'.launches = 0
    BY <1>2, <1>4, ServedIs DEF Prepared, Engines
  <2>. QED
    BY <1>1, <1>2, <2>1, <2>2, ServedIs, ServedGoes DEF Finished, LookingUp
<1>5. CASE PrepareRecorded(c)
  <2>1. row'.status \in {"cancelled", "ready"}
    BY <1>5, ServedIs DEF PrepareRecorded, Rows
  <2>. QED
    BY <1>1, <1>2, <1>5, <2>1, ServedReturns DEF PrepareRecorded, Finished
<1>. QED
  BY <1>3, <1>4, <1>5

LEMMA ServedStart ==
  ASSUME ServedInv, LocalInv', NEW c \in Calls,
         \/ StartClaim(c) \/ StartNot(c) \/ Launched(c) \/ StartRecorded(c)
         \/ LaunchUndone(c)
  PROVE  ServedInv'
<1>1. /\ call[c] \in CallTypes /\ call[c].job \in Rows /\ row \in Rows
      /\ engine \in Engines /\ \A d \in Calls \ {c} : ~call[d].held
      /\ call[c].op = "start"
  BY ServedIs DEF StartClaim, StartNot, Launched, StartRecorded, LaunchUndone, At, Holders
<1>2. CASE StartClaim(c)
  <2>. PICK x : x = [call[c] EXCEPT !.pc = "launching", !.held = TRUE, !.job = row']
    OBVIOUS
  <2>1. x.pc = "launching"
    BY <1>1 DEF CallTypes
  <2>2. call' = [call EXCEPT ![c] = x] /\ UNCHANGED engine
    BY <1>2 DEF StartClaim
  <2>3. row'.status = "start_uncertain" /\ engine.launches = 0
    BY <1>1, <1>2, ServedIs DEF StartClaim, Rows
  <2>. QED
    BY <1>1, <2>1, <2>2, <2>3, ServedGoes DEF Finished, LookingUp
<1>3. CASE StartNot(c)
  <2>1. CASE row = Absent
    BY <1>3, <2>1, ServedIs, ServedReturns DEF StartNot
  <2>2. CASE row # Absent
    <3>. PICK x : x = [call[c] EXCEPT !.pc = "lookup", !.held = TRUE]
      OBVIOUS
    <3>1. x.pc = "lookup" /\ x.op = "start"
      BY <1>1 DEF CallTypes
    <3>2. call' = [call EXCEPT ![c] = x] /\ UNCHANGED <<row, engine>>
      BY <1>3, <2>2 DEF StartNot
    <3>. QED
      BY <3>1, <3>2, ServedIs, ServedGoes
  <2>. QED
    BY <2>1, <2>2
<1>4. CASE Launched(c)
  <2>. PICK x : x = [call[c] EXCEPT !.pc = "launched"]
    OBVIOUS
  <2>1. x.pc = "launched"
    BY <1>1 DEF CallTypes
  <2>2. call' = [call EXCEPT ![c] = x] /\ UNCHANGED row /\ Launching(call[c])
    BY <1>4 DEF Launched, At, Launching
  <2>3. row = call[c].job /\ row.status = "start_uncertain"
    BY <2>2 DEF ServedInv, LocalInv, RowIsKept
  <2>4. engine.launches = 0
    BY <1>4, <2>2 DEF Launched, At, ServedInv, LocalInv, SharedInv, StartedOnce
  <2>5. engine'.runs = row.sim
    BY <1>1, <1>4, <2>3 DEF Launched, Engines
  <2>. QED
    BY <1>1, <2>1, <2>2, <2>3, <2>4, <2>5, ServedIs, ServedGoes DEF Finished, LookingUp
<1>5. CASE StartRecorded(c)
  <2>. PICK x : x = [call[c] EXCEPT !.pc =
                       IF row.status = "cancelled" THEN "undoing" ELSE "lookup"]
    OBVIOUS
  <2>1. x.pc \in {"undoing", "lookup"} /\ x.op = "start"
    BY <1>1 DEF CallTypes
  <2>2. call' = [call EXCEPT ![c] = x] /\ UNCHANGED engine /\ Launching(call[c])
    BY <1>5 DEF StartRecorded, At, Launching
  <2>3. row = call[c].job /\ row.status = "start_uncertain"
    BY <2>2 DEF ServedInv, LocalInv, RowIsKept
  <2>4. row'.sim = row.sim /\ row'.status = "running"
    BY <1>1, <1>5, <2>3 DEF StartRecorded, Rows
  <2>. QED
    BY <1>1, <2>1, <2>2, <2>4, ServedIs, ServedGoes DEF Finished
<1>6. CASE LaunchUndone(c)
  <2>. PICK x : x = [call[c] EXCEPT !.pc = "lookup"]
    OBVIOUS
  <2>1. x.pc = "lookup" /\ x.op = "start"
    BY <1>1 DEF CallTypes
  <2>2. call' = [call EXCEPT ![c] = x] /\ UNCHANGED row
    BY <1>6 DEF LaunchUndone
  <2>3. /\ engine'.launches = engine.launches /\ engine'.runs = engine.runs
        /\ engine.runner \in Finished => engine'.runner = engine.runner
    BY <1>1, <1>6 DEF LaunchUndone, Halt, Engines, Finished
  <2>. QED
    BY <2>1, <2>2, <2>3, ServedIs, ServedGoes
<1>. QED
  BY <1>2, <1>3, <1>4, <1>5, <1>6

LEMMA ServedStop ==
  ASSUME ServedInv, LocalInv', NEW c \in Calls,
         \/ StopRead(c) \/ StopUnknown(c) \/ Inspected(c) \/ Halted(c)
         \/ StopRecorded(c)
  PROVE  ServedInv'
<1>1. /\ call[c] \in CallTypes /\ call[c].job \in Rows /\ row \in Rows
      /\ engine \in Engines /\ \A d \in Calls \ {c} : ~call[d].held
  BY ServedIs DEF StopRead, StopUnknown, Inspected, Halted, StopRecorded, At, Holders
<1>2. CASE StopRead(c)
  <2>. PICK x : x = [call[c] EXCEPT !.pc = IF row.sim # 0 THEN "inspecting"
                                                          ELSE "cancelling",
                                    !.held = TRUE, !.job = row]
    OBVIOUS
  <2>1. x.pc \in {"inspecting", "cancelling"}
    BY <1>1 DEF CallTypes
  <2>2. call' = [call EXCEPT ![c] = x] /\ UNCHANGED <<row, engine>>
    BY <1>2 DEF StopRead
  <2>. QED
    BY <2>1, <2>2, ServedIs, ServedGoes DEF LookingUp
<1>3. CASE StopUnknown(c)
  <2>1. engine.launches = 0 /\ row'.status = "cancelled"
    BY <1>3, AbsentFits DEF StopUnknown, ServedInv, LocalInv, SharedInv, StartedOnce, Absent
  <2>. QED
    BY <1>1, <1>3, <2>1, ServedReturns DEF StopUnknown, Finished
<1>4. CASE Inspected(c)
  <2>. PICK x : x = [call[c] EXCEPT !.pc =
                       CASE engine.runner = "running" -> "halting"
                         [] engine.runner = "completed" -> "lookup"
                         [] OTHER -> "cancelling"]
    OBVIOUS
  <2>1. /\ x.held = call[c].held
        /\ x.pc \in {"halting", "lookup", "cancelling"}
        /\ (x.pc = "lookup" => engine.runner = "completed")
    BY <1>1 DEF CallTypes
  <2>2. call' = [call EXCEPT ![c] = x] /\ UNCHANGED <<row, engine>>
    BY <1>4 DEF Inspected
  <2>3. call[c].held
    BY <1>4, LocalCallIs DEF Inspected, At, Holders, ServedInv
  <2>. QED
    BY <2>1, <2>2, <2>3, ServedIs, ServedGoes DEF LookingUp
<1>5. CASE Halted(c)
  <2>. PICK x : x = [call[c] EXCEPT !.pc = "cancelling"]
    OBVIOUS
  <2>1. x.pc = "cancelling"
    BY <1>1 DEF CallTypes
  <2>2. call' = [call EXCEPT ![c] = x] /\ UNCHANGED row
    BY <1>5 DEF Halted
  <2>3. /\ engine'.launches = engine.launches /\ engine'.runs = engine.runs
        /\ engine.runner \in Finished => engine'.runner = engine.runner
    BY <1>1, <1>5 DEF Halted, Halt, Engines, Finished
  <2>. QED
    BY <2>1, <2>2, <2>3, ServedIs, ServedGoes DEF LookingUp
<1>6. CASE StopRecorded(c)
  <2>1. row = call[c].job
    BY <1>6 DEF StopRecorded, At, ServedInv, LocalInv, RowIsKept
  <2>2. row'.sim = row.sim /\ row'.status = "cancelled"
    BY <1>1, <1>6, <2>1 DEF StopRecorded, Rows
  <2>. QED
    BY <1>1, <1>6, <2>2, ServedReturns DEF StopRecorded, Finished
<1>. QED
  BY <1>2, <1>3, <1>4, <1>5, <1>6

LEMMA ServedOutside ==
  ASSUME ServedInv, LocalInv',
         \/ \E p \in Processes : Crash(p)
         \/ RunnerEnds
         \/ UNCHANGED vars
  PROVE  ServedInv'
<1>1. CASE \E p \in Processes : Crash(p)
  <2>1. /\ UNCHANGED <<row, engine>>
        /\ \A d \in Calls : call'[d] \in {call[d], NoCall}
    BY <1>1 DEF Crash
  <2>2. NoCall.pc \notin {"poll", "reconcile"} /\ NoCall.op # "stop" /\ ~NoCall.held
    BY NoCallIs DEF NoCall
  <2>. QED
    BY <2>1, <2>2 DEF ServedInv, EndsAreKnown, LookupsAreKept
<1>2. CASE RunnerEnds
  <2>1. engine \in Engines
    BY CallIs DEF ServedInv, LocalInv, SharedInv, TypeOK, Engines
  <2>2. /\ UNCHANGED <<row, call>> /\ engine.runner = "running"
        /\ engine'.launches = engine.launches /\ engine'.runs = engine.runs
    BY <1>2, <2>1 DEF RunnerEnds, Engines
  <2>. QED
    BY <2>2 DEF ServedInv, EndsAreKnown, LookupsAreKept, Finished
<1>3. CASE UNCHANGED vars
  BY <1>3 DEF vars, ServedInv, EndsAreKnown, LookupsAreKept
<1>. QED
  BY <1>1, <1>2, <1>3

LEMMA ServedNext == ServedInv /\ [Next]_vars => ServedInv'
<1>. SUFFICES ASSUME ServedInv, [Next]_vars PROVE ServedInv'
  OBVIOUS
<1>1. LocalInv'
  BY LocalNext DEF ServedInv
<1>2. ASSUME NEW c \in Calls, NEW p \in Processes,
             NEW op \in {"lookup", "prepare", "start", "stop"}, Begin(c, p, op)
      PROVE  ServedInv'
  BY <1>1, <1>2, ServedBegin
<1>3. ASSUME NEW c \in Calls, PrepareKnown(c) \/ EngineFails(c)
      PROVE  ServedInv'
  BY <1>1, <1>3, ServedIs, ServedReturns DEF PrepareKnown, EngineFails
<1>4. ASSUME NEW c \in Calls,
             \/ LookupRead(c) \/ Polled(c) \/ Reconciled(c)
             \/ PrepareClaim(c) \/ Prepared(c) \/ PrepareRecorded(c)
      PROVE  ServedInv'
  BY <1>1, <1>4, ServedLookup, ServedPrepare
<1>5. ASSUME NEW c \in Calls,
             \/ StartClaim(c) \/ StartNot(c) \/ Launched(c) \/ StartRecorded(c)
             \/ LaunchUndone(c)
      PROVE  ServedInv'
  BY <1>1, <1>5, ServedStart
<1>6. ASSUME NEW c \in Calls,
             \/ StopRead(c) \/ StopUnknown(c) \/ Inspected(c) \/ Halted(c)
             \/ StopRecorded(c)
      PROVE  ServedInv'
  BY <1>1, <1>6, ServedStop
<1>7. ASSUME \/ \E p \in Processes : Crash(p)
             \/ RunnerEnds
             \/ UNCHANGED vars
      PROVE  ServedInv'
  BY <1>1, <1>7, ServedOutside
<1>. QED
  BY <1>2, <1>3, <1>4, <1>5, <1>6, <1>7 DEF Next

LEMMA ServedInit == OneProcess /\ Init => ServedInv
<1>. SUFFICES ASSUME OneProcess, Init PROVE ServedInv
  OBVIOUS
<1>1. LocalInv
  BY LocalInit
<1>2. \A c \in Calls : call[c] = NoCall
  BY DEF Init
<1>3. EndsAreKnown /\ LookupsAreKept
  BY <1>2, NoCallIs DEF EndsAreKnown, LookupsAreKept, LookingUp, Init, Absent, NoCall,
     Finished
<1>. QED
  BY <1>1, <1>3 DEF ServedInv

(* Theorem: in the registry of a single process, an end that is recorded   *)
(* in the journal is the runner's own, and once there was a launch its row *)
(* names the simulation that was launched.                                 *)
THEOREM RecordedEndsAreTrue == OneProcess /\ Spec => []EndsAreKnown
<1>1. OneProcess /\ Init => ServedInv
  BY ServedInit
<1>2. ServedInv /\ [Next]_vars => ServedInv'
  BY ServedNext
<1>3. ServedInv => EndsAreKnown
  BY DEF ServedInv
<1>. QED
  BY <1>1, <1>2, <1>3, PTL DEF Spec

(* A stop that is answered without an error has ended the job.             *)
LEMMA StopsEnd ==
  ASSUME ServedInv, ServedInv', NEW c \in Calls, call[c].op = "stop", Handles(c),
         call'[c] = NoCall
  PROVE  row'.status \in Ended
<1>1. /\ call[c] \in CallTypes /\ call[c].job \in Rows /\ row \in Rows
      /\ engine \in Engines /\ call[c].pc # "idle"
      /\ \A d \in Calls : call[d] \in CallTypes
  BY ServedIs DEF Handles, LookupRead, Polled, Reconciled, PrepareClaim, PrepareKnown,
     Prepared, PrepareRecorded, StartClaim, StartNot, Launched, StartRecorded, LaunchUndone,
     StopRead, StopUnknown, Inspected, Halted, StopRecorded, At
<1>2. call \in [Calls -> CallTypes]
  BY TypeOKIs DEF ServedInv, LocalInv, SharedInv
<1>3. /\ call[c].held /\ call[c].pc \in {"poll", "reconcile"} => row = call[c].job
      /\ LookingUp(call[c]) =>
           /\ call[c].held /\ engine.runner = "completed"
           /\ call[c].pc = "reconcile" => call[c].state = "completed"
  BY DEF ServedInv, LookupsAreKept
<1>4. CASE LookupRead(c)
  <2>1. engine.runner = "completed"
    BY <1>3, <1>4 DEF LookupRead, LookingUp
  <2>2. row.status \notin {"absent", "prepare_uncertain", "ready"}
    BY <2>1, ServedIs
  <2>3. row.sim # 0 \/ row.status = "cancelled"
    BY <1>1, <2>2 DEF ServedInv, LocalInv, SharedInv, TypeOK, Rows
  <2>4. row.sim = 0 \/ row.status \in Settled
    <3>1. SUFFICES ASSUME row.sim # 0, row.status \notin Settled PROVE FALSE
      OBVIOUS
    <3>2. call'[c].pc = "poll"
      BY <1>1, <1>2, <1>4, <3>1 DEF LookupRead, CallTypes
    <3>. QED
      BY <3>2, NoCallIs
  <2>. QED
    BY <1>4, <2>2, <2>3, <2>4 DEF LookupRead, Settled, Ended, Finished
<1>5. CASE Polled(c)
  <2>1. engine.runner = "completed"
    BY <1>3, <1>5 DEF Polled, LookingUp
  <2>2. call'[c].pc = "reconcile"
    BY <1>1, <1>2, <1>5, <2>1 DEF Polled, CallTypes
  <2>. QED
    BY <2>2, NoCallIs
<1>6. CASE Reconciled(c)
  <2>1. row = call[c].job /\ call[c].state = "completed"
    BY <1>3, <1>6 DEF Reconciled, LookingUp
  <2>. QED
    BY <1>1, <1>6, <2>1 DEF Reconciled, Rows, Ended, Finished
<1>7. CASE StopUnknown(c)
  BY <1>7, AbsentFits DEF StopUnknown, Ended
<1>8. CASE StopRecorded(c)
  BY <1>1, <1>8 DEF StopRecorded, Rows, Ended
<1>9. CASE StopRead(c) \/ Inspected(c) \/ Halted(c)
  <2>1. call'[c].op = "stop"
    BY <1>1, <1>2, <1>9 DEF StopRead, Inspected, Halted, CallTypes, At
  <2>. QED
    BY <2>1, NoCallIs DEF NoCall
<1>. QED
  BY <1>4, <1>5, <1>6, <1>7, <1>8, <1>9
     DEF Handles, PrepareClaim, PrepareKnown, Prepared, PrepareRecorded, StartClaim,
         StartNot, Launched, StartRecorded, LaunchUndone, At

(* What has ended stays so, and what the journal says of it is true.       *)
LEMMA EndsStay ==
  ASSUME ServedInv, [Next]_vars
  PROVE  /\ row.status \in Ended => row'.status \in Ended
         /\ engine.runner = "completed" =>
              engine'.runner = "completed" /\ engine'.runs = engine.runs
<1>1. row.status \in Ended => row'.status \in Ended
  BY OutcomeSteps DEF ServedInv, LocalInv, StaysCancelled, StaysFinished, Ended, Finished
<1>2. ASSUME engine.runner = "completed"
      PROVE  engine'.runner = "completed" /\ engine'.runs = engine.runs
  <2>1. engine \in Engines /\ engine.launches # 0
    BY <1>2 DEF ServedInv, LocalInv, RunsAreKnown, SharedInv, TypeOK, Engines
  <2>2. \A c \in Calls : ~Launched(c)
    BY <2>1 DEF Launched, At, Launching, ServedInv, LocalInv, SharedInv, StartedOnce
  <2>3. CASE UNCHANGED engine
    BY <1>2, <2>3
  <2>4. ASSUME NEW c \in Calls, Prepared(c)
        PROVE  engine'.runner = "completed" /\ engine'.runs = engine.runs
    BY <1>2, <2>1, <2>4 DEF Prepared, Engines
  <2>5. CASE Halt
    BY <1>2, <2>1, <2>5 DEF Halt, Engines
  <2>. QED
    BY <1>2, <2>2, <2>3, <2>4, <2>5
       DEF Next, Begin, LookupRead, Polled, Reconciled, PrepareClaim, PrepareKnown,
           PrepareRecorded, StartClaim, StartNot, StartRecorded, LaunchUndone, StopRead,
           StopUnknown, Inspected, Halted, StopRecorded, EngineFails, Crash, RunnerEnds, vars
<1>. QED
  BY <1>1, <1>2

(* The registry may begin with a row that an earlier one has left behind.  *)
LEMMA ServedAtRest ==
  ASSUME OneProcess, call = [c \in Calls |-> NoCall],
         RowFits(row), engine \in Engines, engine.made <= 1, engine.launches <= 1,
         row = Absent => engine.made = 0,
         row.status \in {"absent", "ready"} => engine.launches = 0,
         engine.launches = 0 => engine.runner = "none",
         engine.runner = "running" => row.sim # 0 /\ row.sim = engine.runs,
         row.status = "cancelled" => engine.runner # "running",
         engine.launches # 0 =>
           row.status \notin {"absent", "prepare_uncertain", "ready"} /\ row.sim = engine.runs,
         row.status \in Finished => engine.runner = row.status
  PROVE  ServedInv
<1>1. \A c \in Calls : call[c] = NoCall
  OBVIOUS
<1>2. TypeOK /\ RowIsWhole
  BY NoCallIs, TypeOKIs
<1>3. CallsCarry
  BY <1>1, NoCallIs DEF CallsCarry, Carries, Preparing, Launching
<1>4. PreparedOnce /\ StartedOnce
  BY <1>1, NoCallIs DEF PreparedOnce, StartedOnce, Preparing, Launching
<1>5. LockIsHeld /\ RowIsKept
  BY <1>1, NoCallIs DEF LockIsHeld, RowIsKept, Holders, Launching
<1>6. RunsAreKnown
  BY <1>1, NoCallIs DEF RunsAreKnown
<1>7. EndsAreKnown /\ LookupsAreKept
  BY <1>1, NoCallIs DEF EndsAreKnown, LookupsAreKept, LookingUp, NoCall
<1>. QED
  BY <1>2, <1>3, <1>4, <1>5, <1>6, <1>7 DEF ServedInv, LocalInv, SharedInv

(* The server works on one call at a time and keeps its operation.         *)
LEMMA HandlesOne ==
  ASSUME TypeOK, RowIsWhole, NEW c \in Calls, Handles(c) \/ EngineFails(c)
  PROVE  /\ \A d \in Calls \ {c} : call'[d] = call[d]
         /\ call'[c] = NoCall \/ call'[c].op = call[c].op
         /\ EngineFails(c) => call'[c] = NoCall
<1>1. call \in [Calls -> CallTypes] /\ call[c] \in CallTypes
  BY TypeOKIs
<1>2. CASE EngineFails(c)
  BY <1>1, <1>2 DEF EngineFails, Returns
<1>3. CASE LookupRead(c) \/ Polled(c) \/ Reconciled(c)
  BY <1>1, <1>3 DEF LookupRead, Polled, Reconciled, Returns, CallTypes, EngineFails
<1>4. CASE PrepareClaim(c) \/ PrepareKnown(c) \/ Prepared(c) \/ PrepareRecorded(c)
  BY <1>1, <1>4 DEF PrepareClaim, PrepareKnown, Prepared, PrepareRecorded, Returns,
     CallTypes, EngineFails
<1>5. CASE StartClaim(c) \/ StartNot(c) \/ Launched(c) \/ StartRecorded(c) \/ LaunchUndone(c)
  BY <1>1, <1>5 DEF StartClaim, StartNot, Launched, StartRecorded, LaunchUndone, Returns,
     CallTypes, EngineFails
<1>6. CASE StopRead(c) \/ StopUnknown(c) \/ Inspected(c) \/ Halted(c) \/ StopRecorded(c)
  BY <1>1, <1>6 DEF StopRead, StopUnknown, Inspected, Halted, StopRecorded, Returns,
     CallTypes, EngineFails
<1>. QED
  BY <1>2, <1>3, <1>4, <1>5, <1>6 DEF Handles
=============================================================================
