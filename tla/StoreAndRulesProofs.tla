------------------------ MODULE StoreAndRulesProofs -------------------------
(***************************************************************************)
(* Theorems about the two parts of the backend that keep no promise to a   *)
(* service: RunStore, for every set of runs, callers and entries, every    *)
(* Ttl and every bound, and the rule engines of MCRules, for every suite,  *)
(* policy, proposal and claim.  Each has an invariant that every one of    *)
(* its steps keeps; what a loop or a sum does for every size has no        *)
(* smallest counterexample.                                                *)
(***************************************************************************)
EXTENDS RunStore, MCRules, FiniteSetTheorems, FunctionTheorems, SequenceTheorems,
        WellFoundedInduction, TLAPS

-----------------------------------------------------------------------------
(* The run store.                                                          *)

(* The variables keep their types: every step of store.py leaves a         *)
(* well-formed store and well-formed calls.                                *)

(* The record a create starts from is a record.                           *)
LEMMA NewRecordType == NewRecord \in Records
BY DEF NewRecord, Records

(* The empty store is well typed.                                         *)
LEMMA TypeInit == Init => TypeOK
<1> SUFFICES ASSUME Init PROVE TypeOK
  OBVIOUS
<1>1. Failed("none") \in Answers
  BY NewRecordType DEF Failed, Answers, Failures
<1>2. NoRequest \in Requests
  BY DEF NoRequest, Requests
<1>. QED
  BY <1>1, <1>2, NewRecordType DEF Init, TypeOK, InCall

(* Every step of store.py keeps the variables well typed.                 *)
LEMMA TypeNext == TypeOK /\ [Next]_vars => TypeOK'
<1> SUFFICES ASSUME TypeOK, [Next]_vars PROVE TypeOK'
  OBVIOUS
<1> USE NoneAssumption, BoundsAssumption, TtlAssumption
    DEF TypeOK, Requests, Answers, Failures, InCall, NewRecord, NoRequest, Failed,
        Returned, storeVars, callVars, vars
<1>1. ASSUME NEW p \in Procs, NEW r \in Runs, BeginCreate(p, r) PROVE TypeOK'
  BY <1>1 DEF BeginCreate, Enter, Fresh, Records
<1>2. ASSUME NEW p \in Procs, CreateInserted(p) PROVE TypeOK'
  BY <1>2 DEF CreateInserted, Leave, Records
<1>3. ASSUME NEW p \in Procs, CreateRefused(p) PROVE TypeOK'
  BY <1>3 DEF CreateRefused, Leave, Records
<1>4. ASSUME NEW p \in Procs, NEW r \in Runs, Capture(p, "get", r, 0) PROVE TypeOK'
  BY <1>4 DEF Capture, Enter, Records
<1>5. ASSUME NEW p \in Procs, NEW r \in Runs, NEW v \in 0 .. MaxVersion - 1,
             Capture(p, "mutate", r, v)
      PROVE TypeOK'
  BY <1>5 DEF Capture, Enter, Records
<1>6. ASSUME NEW p \in Procs, NEW r \in Runs, CaptureMissed(p, r) PROVE TypeOK'
  BY <1>6 DEF CaptureMissed, Leave, Records
<1>7. ASSUME NEW p \in Procs, NEW r \in Runs, Delete(p, r) PROVE TypeOK'
  BY <1>7 DEF Delete, Leave, Records
<1>8. ASSUME NEW p \in Procs, BeginPurge(p) PROVE TypeOK'
  BY <1>8 DEF BeginPurge, Enter, Records
<1>9. ASSUME NEW p \in Procs, Acquire(p) PROVE TypeOK'
  BY <1>9 DEF Acquire
<1>10. ASSUME NEW p \in Procs, Vanished(p) PROVE TypeOK'
  BY <1>10 DEF Vanished, Leave, Release, Records
<1>11. ASSUME NEW p \in Procs, ExpiredOnRead(p) PROVE TypeOK'
  BY <1>11 DEF ExpiredOnRead, Leave, Release, Records
<1>12. ASSUME NEW p \in Procs, GetReturned(p) PROVE TypeOK'
  BY <1>12 DEF GetReturned, Leave, Release, Records
<1>13. ASSUME NEW p \in Procs, Conflict(p) PROVE TypeOK'
  BY <1>13 DEF Conflict, Leave, Release, Records
<1>14. ASSUME NEW p \in Procs, Snapshot(p) PROVE TypeOK'
  BY <1>14 DEF Snapshot
<1>15. ASSUME NEW p \in Procs, ChangeInvalid(p) PROVE TypeOK'
  BY <1>15 DEF ChangeInvalid, Leave, Release, Records
<1>16. ASSUME NEW p \in Procs, CommitVanished(p) PROVE TypeOK'
  BY <1>16 DEF CommitVanished, Leave, Release, Records
<1>17. ASSUME NEW p \in Procs, CommitExpired(p) PROVE TypeOK'
  BY <1>17 DEF CommitExpired, Leave, Release, Records
<1>18. ASSUME NEW p \in Procs, Commit(p) PROVE TypeOK'
  <2>1. Applied(seen[p], p, req[p].expected) \in Records
    BY DEF Applied, Records, Change
  <2>. QED
    BY <1>18, <2>1 DEF Commit, Leave, Release, Records
<1>19. ASSUME NEW p \in Procs, Purge(p) PROVE TypeOK'
  BY <1>19 DEF Purge, Leave, Records
<1>20. ASSUME NEW p \in Procs, PurgeClosed(p) PROVE TypeOK'
  BY <1>20 DEF PurgeClosed, Leave, Records
<1>21. ASSUME NEW p \in Procs, Cancelled(p) PROVE TypeOK'
  BY <1>21 DEF Cancelled, Leave, Records
<1>22. CASE Close
  BY <1>22 DEF Close
<1>23. CASE Tick
  BY <1>23 DEF Tick
<1>24. CASE UNCHANGED vars
  BY <1>24
<1>. QED
  BY <1>1, <1>2, <1>3, <1>4, <1>5, <1>6, <1>7, <1>8, <1>9, <1>10, <1>11, <1>12,
     <1>13, <1>14, <1>15, <1>16, <1>17, <1>18, <1>19, <1>20, <1>21, <1>22,
     <1>23, <1>24
  DEF Next, Call, Continue

(* The store and its callers are well typed in every reachable state.      *)
THEOREM TypeCorrect == Spec => []TypeOK
BY TypeInit, TypeNext, PTL DEF Spec

-----------------------------------------------------------------------------
(* The inductive invariant.  Only four kinds of step matter: taking and    *)
(* releasing a lock, the snapshot, the commit, and the making of an entry. *)

(* The empty store satisfies the inductive invariant.                     *)
LEMMA InvInit == Init => StoreInv
<1> SUFFICES ASSUME Init PROVE StoreInv
  OBVIOUS
<1>1. TypeOK
  BY TypeInit
<1>2. NoLostUpdate
  BY DEF Init, NoLostUpdate, NewRecord
<1>. QED
  BY <1>1, <1>2 DEF Init, StoreInv, HoldersOwnTheLock, SnapshotIsCurrent, InCall,
     OnlyAllocatedInUse, AckedBelowVersion, OneWinnerPerVersion

(* A step that writes no record, acknowledges nothing and makes no entry   *)
(* keeps what the invariant says of the records.                           *)
LEMMA RecordsUntouched ==
  ASSUME StoreInv, UNCHANGED <<record, acked>>
  PROVE  AckedBelowVersion' /\ OneWinnerPerVersion' /\ NoLostUpdate'
BY DEF StoreInv, AckedBelowVersion, OneWinnerPerVersion, NoLostUpdate

(* A call that leaves, releasing at most its own lock, disturbs no other.  *)
LEMMA LeaveKeepsInv ==
  ASSUME StoreInv, TypeOK', NEW p \in Procs, NEW result, Leave(p, result),
         \A e \in Entries : lock'[e] = lock[e] \/ (lock[e] = p /\ lock'[e] = None),
         \A r \in Runs : entries'[r] \in {None, entries[r]} \union
                           (IF pc[p] = "creating" THEN {held[p]} ELSE {}),
         UNCHANGED <<allocated, record, acked>>
  PROVE  StoreInv'
<1>1. HoldersOwnTheLock'
  BY NoneAssumption
  DEF StoreInv, TypeOK, HoldersOwnTheLock, Leave, InCall
<1>2. SnapshotIsCurrent'
  BY DEF StoreInv, TypeOK, SnapshotIsCurrent, Leave
<1>3. OnlyAllocatedInUse'
  BY DEF StoreInv, TypeOK, OnlyAllocatedInUse, Leave, InCall
<1>. QED
  BY <1>1, <1>2, <1>3, RecordsUntouched DEF StoreInv

(* Every step of store.py keeps the inductive invariant.                  *)
LEMMA InvNext == StoreInv /\ [Next]_vars => StoreInv'
<1> SUFFICES ASSUME StoreInv, [Next]_vars PROVE StoreInv'
  OBVIOUS
<1>0. TypeOK /\ TypeOK'
  BY TypeNext DEF StoreInv
<1>1. ASSUME NEW p \in Procs, NEW r \in Runs, BeginCreate(p, r) PROVE StoreInv'
  <2>. PICK e \in Fresh :
         /\ allocated' = allocated \union {e}
         /\ record' = [record EXCEPT ![e] = NewRecord]
         /\ held' = [held EXCEPT ![p] = e]
    BY <1>1 DEF BeginCreate
  <2>. USE <1>0, <1>1 DEF BeginCreate, Enter, Fresh, StoreInv, TypeOK
  <2>1. HoldersOwnTheLock'
    BY DEF HoldersOwnTheLock, InCall
  <2>2. SnapshotIsCurrent'
    BY DEF SnapshotIsCurrent, OnlyAllocatedInUse, InCall
  <2>3. OnlyAllocatedInUse'
    BY DEF OnlyAllocatedInUse, InCall
  <2>4. AckedBelowVersion' /\ OneWinnerPerVersion'
    BY DEF AckedBelowVersion, OneWinnerPerVersion, OnlyAllocatedInUse
  <2>5. NoLostUpdate'
    BY BoundsAssumption DEF NoLostUpdate, OnlyAllocatedInUse, NewRecord
  <2>. QED
    BY <2>1, <2>2, <2>3, <2>4, <2>5
<1>2. ASSUME NEW p \in Procs, CreateInserted(p) PROVE StoreInv'
  BY <1>0, <1>2, LeaveKeepsInv DEF CreateInserted, TypeOK
<1>3. ASSUME NEW p \in Procs, CreateRefused(p) PROVE StoreInv'
  BY <1>0, <1>3, LeaveKeepsInv DEF CreateRefused, storeVars
<1>4. ASSUME NEW p \in Procs, NEW r \in Runs, NEW v, NEW op \in {"get", "mutate"},
             Capture(p, op, r, v)
      PROVE StoreInv'
  <2>. USE <1>0, <1>4 DEF Capture, Enter, storeVars, StoreInv, TypeOK
  <2>1. HoldersOwnTheLock' /\ SnapshotIsCurrent'
    BY DEF HoldersOwnTheLock, SnapshotIsCurrent, InCall
  <2>2. OnlyAllocatedInUse'
    BY DEF OnlyAllocatedInUse, InCall
  <2>. QED
    BY <2>1, <2>2, RecordsUntouched
<1>5. ASSUME NEW p \in Procs, NEW r \in Runs, CaptureMissed(p, r) PROVE StoreInv'
  BY <1>0, <1>5, LeaveKeepsInv DEF CaptureMissed, storeVars
<1>6. ASSUME NEW p \in Procs, NEW r \in Runs, Delete(p, r) PROVE StoreInv'
  BY <1>0, <1>6, LeaveKeepsInv DEF Delete, TypeOK
<1>7. ASSUME NEW p \in Procs, BeginPurge(p) PROVE StoreInv'
  <2>. USE <1>0, <1>7 DEF BeginPurge, Enter, storeVars, StoreInv, TypeOK
  <2>1. HoldersOwnTheLock' /\ SnapshotIsCurrent' /\ OnlyAllocatedInUse'
    BY DEF HoldersOwnTheLock, SnapshotIsCurrent, OnlyAllocatedInUse, InCall
  <2>. QED
    BY <2>1, RecordsUntouched
<1>8. ASSUME NEW p \in Procs, Acquire(p) PROVE StoreInv'
  <2>. USE <1>0, <1>8 DEF Acquire, storeVars, StoreInv, TypeOK
  <2>1. HoldersOwnTheLock'
    BY NoneAssumption DEF HoldersOwnTheLock, InCall
  <2>2. SnapshotIsCurrent' /\ OnlyAllocatedInUse'
    BY DEF SnapshotIsCurrent, OnlyAllocatedInUse, InCall
  <2>. QED
    BY <2>1, <2>2, RecordsUntouched
<1>9. ASSUME NEW p \in Procs, Snapshot(p) PROVE StoreInv'
  <2>. USE <1>0, <1>9 DEF Snapshot, storeVars, StoreInv, TypeOK
  <2>1. HoldersOwnTheLock' /\ OnlyAllocatedInUse'
    BY DEF HoldersOwnTheLock, OnlyAllocatedInUse, InCall
  <2>2. SnapshotIsCurrent'
    BY DEF SnapshotIsCurrent, VersionMatches, InCall
  <2>. QED
    BY <2>1, <2>2, RecordsUntouched
<1>10. ASSUME NEW p \in Procs,
              Vanished(p) \/ GetReturned(p) \/ Conflict(p)
                \/ ChangeInvalid(p) \/ CommitVanished(p)
       PROVE StoreInv'
  <2>1. \E result : Leave(p, result)
    BY <1>10 DEF Vanished, GetReturned, Conflict, ChangeInvalid, CommitVanished
  <2>2. /\ pc[p] \in {"locked", "changing"}
        /\ Release(p)
        /\ UNCHANGED <<entries, allocated, record, acked>>
    BY <1>10 DEF Vanished, GetReturned, Conflict, ChangeInvalid, CommitVanished,
       storeVars
  <2>3. \A e \in Entries : lock'[e] = lock[e] \/ (lock[e] = p /\ lock'[e] = None)
    BY <1>0, <2>2 DEF Release, StoreInv, HoldersOwnTheLock, TypeOK
  <2>. QED
    BY <1>0, <2>1, <2>2, <2>3, LeaveKeepsInv
<1>11. ASSUME NEW p \in Procs, ExpiredOnRead(p) \/ CommitExpired(p) PROVE StoreInv'
  <2>1. \E result : Leave(p, result)
    BY <1>11 DEF ExpiredOnRead, CommitExpired
  <2>2. /\ pc[p] \in {"locked", "changing"}
        /\ Release(p)
        /\ entries' = [entries EXCEPT ![req[p].run] = None]
        /\ UNCHANGED <<allocated, record, acked>>
    BY <1>11 DEF ExpiredOnRead, CommitExpired
  <2>3. \A e \in Entries : lock'[e] = lock[e] \/ (lock[e] = p /\ lock'[e] = None)
    BY <1>0, <2>2 DEF Release, StoreInv, HoldersOwnTheLock, TypeOK
  <2>. QED
    BY <1>0, <2>1, <2>2, <2>3, LeaveKeepsInv DEF TypeOK
<1>12. ASSUME NEW p \in Procs, Commit(p) PROVE StoreInv'
  <2>. DEFINE e == held[p]
              v == req[p].expected
              ack == [entry |-> e, by |-> p, at |-> v]
  <2>1. /\ e \in Entries /\ e \in allocated /\ v \in Nat
        /\ lock[e] = p
        /\ record[e].version = v
        /\ record[e].changes \in SUBSET Change
    BY <1>0, <1>12 DEF Commit, StoreInv, TypeOK, HoldersOwnTheLock,
       SnapshotIsCurrent, OnlyAllocatedInUse, InCall, Requests, Records
  <2>2. record' = [record EXCEPT ![e] =
          [version |-> v + 1,
           changes |-> record[e].changes \union {[by |-> p, at |-> v]}]]
    BY <1>12, <2>1 DEF Commit, Applied, StoreInv, SnapshotIsCurrent
  <2>3. acked' = acked \union {ack}
    BY <1>12 DEF Commit
  <2>4. /\ pc' = [pc EXCEPT ![p] = "idle"]
        /\ lock' = [lock EXCEPT ![e] = None]
        /\ held' = [held EXCEPT ![p] = None]
        /\ seen' = [seen EXCEPT ![p] = NewRecord]
        /\ req' = [req EXCEPT ![p] = NoRequest]
        /\ UNCHANGED <<entries, allocated>>
    BY <1>12 DEF Commit, Leave, Release
  <2>. HIDE DEF e, v
  <2>. USE <1>0, <2>1, <2>2, <2>3, <2>4 DEF StoreInv, TypeOK
  <2>5. \A q \in Procs : pc[q] \in {"locked", "changing"} /\ q # p => held[q] # e
    BY DEF HoldersOwnTheLock
  <2>6. HoldersOwnTheLock'
    BY <2>5 DEF HoldersOwnTheLock, InCall
  <2>7. SnapshotIsCurrent'
    BY <2>5 DEF SnapshotIsCurrent, InCall
  <2>8. OnlyAllocatedInUse'
    BY DEF OnlyAllocatedInUse, InCall
  <2>9. AckedBelowVersion'
    BY DEF AckedBelowVersion, Records
  <2>10. OneWinnerPerVersion'
    BY DEF OneWinnerPerVersion, AckedBelowVersion
  <2>11. NoLostUpdate'
    <3>. DEFINE Of(f, A) == {b \in A : b.entry = f}
                Changes(B) == {[by |-> a.by, at |-> a.at] : a \in B}
    <3>1. ASSUME NEW f \in Entries, f # e
          PROVE  record'[f].changes = Changes(Of(f, acked'))
      <4>1. Of(f, acked') = Of(f, acked)
        BY <3>1
      <4>2. record'[f] = record[f]
        BY <3>1
      <4>. QED
        BY <4>1, <4>2 DEF NoLostUpdate
    <3>2. record'[e].changes = Changes(Of(e, acked'))
      <4>1. Of(e, acked') = Of(e, acked) \union {ack}
        BY SMT
      <4>2. Changes(Of(e, acked) \union {ack}) =
              Changes(Of(e, acked)) \union {[by |-> p, at |-> v]}
        <5>1. [by |-> ack.by, at |-> ack.at] = [by |-> p, at |-> v]
          OBVIOUS
        <5>. HIDE DEF Of, ack
        <5>. QED
          BY <5>1
      <4>3. record'[e].changes = record[e].changes \union {[by |-> p, at |-> v]}
        OBVIOUS
      <4>4. record[e].changes = Changes(Of(e, acked))
        BY DEF NoLostUpdate
      <4>. HIDE DEF Of, Changes, ack
      <4>. QED
        BY <4>1, <4>2, <4>3, <4>4
    <3>3. ASSUME NEW f \in Entries, NEW u \in 0 .. MaxVersion
          PROVE  u < record'[f].version <=> \E c \in record'[f].changes : c.at = u
      <4>1. CASE f # e
        <5>1. record'[f] = record[f]
          BY <4>1
        <5>. QED
          BY <5>1 DEF NoLostUpdate
      <4>2. CASE f = e
        <5>1. /\ record'[e].version = v + 1
              /\ record'[e].changes =
                   record[e].changes \union {[by |-> p, at |-> v]}
          OBVIOUS
        <5>2. u < v <=> \E c \in record[e].changes : c.at = u
          BY DEF NoLostUpdate
        <5>3. u < v + 1 <=> u < v \/ u = v
          BY BoundsAssumption
        <5>4. [by |-> p, at |-> v].at = v
          OBVIOUS
        <5>5. (\E c \in record'[e].changes : c.at = u)
                <=> (\E c \in record[e].changes : c.at = u) \/ u = v
          BY ONLY <5>1, <5>4, Zenon
        <5>. QED
          BY ONLY <4>2, <5>1, <5>2, <5>3, <5>5
      <4>. QED
        BY <4>1, <4>2
    <3>. QED
      BY <3>1, <3>2, <3>3 DEF NoLostUpdate
  <2>. QED
    BY <2>6, <2>7, <2>8, <2>9, <2>10, <2>11
<1>13. ASSUME NEW p \in Procs, Purge(p) PROVE StoreInv'
  BY <1>0, <1>13, LeaveKeepsInv DEF Purge, TypeOK
<1>14. ASSUME NEW p \in Procs, PurgeClosed(p) PROVE StoreInv'
  BY <1>0, <1>14, LeaveKeepsInv DEF PurgeClosed, storeVars
<1>15. ASSUME NEW p \in Procs, Cancelled(p) PROVE StoreInv'
  <2>1. \A f \in Entries : lock'[f] = lock[f] \/ (lock[f] = p /\ lock'[f] = None)
    BY <1>15 DEF Cancelled
  <2>. QED
    BY <1>0, <1>15, <2>1, LeaveKeepsInv DEF Cancelled, storeVars
<1>16. CASE Close
  <2>. USE <1>0, <1>16 DEF Close, callVars, StoreInv, TypeOK
  <2>1. HoldersOwnTheLock' /\ SnapshotIsCurrent' /\ OnlyAllocatedInUse'
    BY DEF HoldersOwnTheLock, SnapshotIsCurrent, OnlyAllocatedInUse
  <2>. QED
    BY <2>1, RecordsUntouched
<1>17. CASE Tick \/ UNCHANGED vars
  <2>. USE <1>0, <1>17 DEF Tick, callVars, storeVars, vars, StoreInv
  <2>1. HoldersOwnTheLock' /\ SnapshotIsCurrent' /\ OnlyAllocatedInUse'
    BY DEF HoldersOwnTheLock, SnapshotIsCurrent, OnlyAllocatedInUse
  <2>. QED
    BY <2>1, RecordsUntouched
<1>. QED
  BY <1>1, <1>2, <1>3, <1>4, <1>5, <1>6, <1>7, <1>8, <1>9, <1>10, <1>11, <1>12,
     <1>13, <1>14, <1>15, <1>16, <1>17
  DEF Next, Call, Continue

(* Locks, snapshots, versions and acknowledgements agree at all times.    *)
THEOREM StoreInvariant == Spec => []StoreInv
BY InvInit, InvNext, PTL DEF Spec

(* mutate is a compare-and-swap: at most one call succeeds per expected    *)
(* version of an entry, for any number of concurrent callers.              *)
THEOREM CompareAndSwap == Spec => []OneWinnerPerVersion
<1>1. StoreInv => OneWinnerPerVersion
  BY DEF StoreInv
<1>. QED
  BY <1>1, StoreInvariant, PTL

(* No acknowledged change is ever missing from the stored record.          *)
THEOREM UpdatesSurvive == Spec => []NoLostUpdate
<1>1. StoreInv => NoLostUpdate
  BY DEF StoreInv
<1>. QED
  BY <1>1, StoreInvariant, PTL

-----------------------------------------------------------------------------
(* Steps classified by what they do to the bindings and the records.       *)

(* A run id is only ever bound to an entry that was being created.        *)
LEMMA BindingSteps ==
  ASSUME StoreInv, Next
  PROVE  /\ allocated \subseteq allocated'
         /\ \A r \in Runs : \/ entries'[r] \in {entries[r], None}
                            \/ Unborn(entries'[r])
         /\ \A p \in Procs : pc'[p] = "creating" =>
              \/ pc[p] = "creating" /\ held'[p] = held[p]
              \/ held'[p] \notin allocated
<1> USE DEF StoreInv, TypeOK, storeVars, callVars, Unborn
<1>1. ASSUME NEW p \in Procs, NEW r \in Runs, BeginCreate(p, r)
      PROVE  /\ allocated \subseteq allocated' /\ entries' = entries
             /\ \A q \in Procs : pc'[q] = "creating" =>
                  (pc[q] = "creating" /\ held'[q] = held[q]) \/ held'[q] \notin allocated
  BY <1>1 DEF BeginCreate, Enter, Fresh
<1>2. ASSUME NEW p \in Procs, NEW result, Leave(p, result)
      PROVE  \A q \in Procs : pc'[q] = "creating" =>
               pc[q] = "creating" /\ held'[q] = held[q]
  BY <1>2 DEF Leave
<1>3. ASSUME NEW p \in Procs, NEW result, Leave(p, result), allocated' = allocated,
             \A r \in Runs : entries'[r] \in {entries[r], None}
      PROVE  /\ allocated \subseteq allocated'
             /\ \A r \in Runs : \/ entries'[r] \in {entries[r], None}
                                \/ Unborn(entries'[r])
             /\ \A q \in Procs : pc'[q] = "creating" =>
                  \/ pc[q] = "creating" /\ held'[q] = held[q]
                  \/ held'[q] \notin allocated
  BY <1>2, <1>3
<1>4. ASSUME NEW p \in Procs, CreateInserted(p)
      PROVE  \A r \in Runs : \/ entries'[r] = entries[r]
                             \/ Unborn(entries'[r])
  BY <1>4 DEF CreateInserted
<1>5. ASSUME NEW p \in Procs,
             \/ CreateRefused(p) \/ Vanished(p) \/ GetReturned(p) \/ Conflict(p)
             \/ ChangeInvalid(p) \/ CommitVanished(p) \/ Commit(p)
             \/ ExpiredOnRead(p) \/ CommitExpired(p) \/ Purge(p) \/ PurgeClosed(p)
             \/ Cancelled(p)
             \/ \E r \in Runs : CaptureMissed(p, r) \/ Delete(p, r)
      PROVE  /\ \E result : Leave(p, result)
             /\ allocated' = allocated
             /\ \A r \in Runs : entries'[r] \in {entries[r], None}
  BY <1>5 DEF CreateRefused, Vanished, GetReturned, Conflict, ChangeInvalid,
     CommitVanished, Commit, ExpiredOnRead, CommitExpired, Purge, PurgeDue,
     PurgeClosed, Cancelled, CaptureMissed, Delete
<1>6. ASSUME NEW p \in Procs,
             \/ Acquire(p) \/ Snapshot(p) \/ BeginPurge(p)
             \/ \E r \in Runs, v \in Nat, op \in {"get", "mutate"} : Capture(p, op, r, v)
      PROVE  /\ allocated' = allocated /\ entries' = entries
             /\ \A q \in Procs : pc'[q] = "creating" =>
                  pc[q] = "creating" /\ held'[q] = held[q]
  BY <1>6 DEF Acquire, Snapshot, BeginPurge, Capture, Enter
<1>7. CASE Close \/ Tick
  BY <1>7 DEF Close, Tick
<1>8. ASSUME NEW p \in Procs, Call(p) \/ Acquire(p) \/ Continue(p) \/ Cancelled(p)
      PROVE  \/ \E r \in Runs : BeginCreate(p, r)
             \/ CreateInserted(p)
             \/ CreateRefused(p) \/ Vanished(p) \/ GetReturned(p) \/ Conflict(p)
             \/ ChangeInvalid(p) \/ CommitVanished(p) \/ Commit(p)
             \/ ExpiredOnRead(p) \/ CommitExpired(p) \/ Purge(p) \/ PurgeClosed(p)
             \/ Cancelled(p)
             \/ \E r \in Runs : CaptureMissed(p, r) \/ Delete(p, r)
             \/ Acquire(p) \/ Snapshot(p) \/ BeginPurge(p)
             \/ \E r \in Runs, v \in Nat, op \in {"get", "mutate"} : Capture(p, op, r, v)
  BY <1>8, BoundsAssumption DEF Call, Continue
<1>9. ASSUME NEW p \in Procs, CreateInserted(p)
      PROVE  allocated' = allocated /\ \E result : Leave(p, result)
  BY <1>9 DEF CreateInserted
<1>. QED
  BY <1>1, <1>2, <1>3, <1>4, <1>5, <1>6, <1>7, <1>8, <1>9 DEF Next

(* Only a commit on a bound entry and the making of an entry write.        *)
LEMMA RecordSteps ==
  ASSUME StoreInv, Next, NEW e \in Entries, record'[e] # record[e]
  PROVE  \/ e \notin allocated
         \/ Live(e) /\ now < deadline[e]
<1> USE DEF StoreInv, TypeOK
<1>1. ASSUME NEW p \in Procs, NEW r \in Runs, BeginCreate(p, r)
      PROVE  e \notin allocated
  BY <1>1 DEF BeginCreate, Fresh
<1>2. ASSUME NEW p \in Procs, Commit(p)
      PROVE  Live(e) /\ now < deadline[e]
  BY <1>2 DEF Commit, CommitAllowed, StillBound, Expired, Live, InCall
<1>3. ASSUME NEW p \in Procs,
             \/ CreateInserted(p) \/ CreateRefused(p) \/ Acquire(p)
             \/ Vanished(p) \/ ExpiredOnRead(p) \/ GetReturned(p) \/ Conflict(p)
             \/ Snapshot(p) \/ ChangeInvalid(p) \/ CommitVanished(p)
             \/ CommitExpired(p) \/ Purge(p) \/ PurgeClosed(p) \/ Cancelled(p)
             \/ BeginPurge(p)
             \/ \E r \in Runs : CaptureMissed(p, r) \/ Delete(p, r)
             \/ \E r \in Runs, v \in Nat, op \in {"get", "mutate"} : Capture(p, op, r, v)
      PROVE  record' = record
  BY <1>3 DEF CreateInserted, CreateRefused, Acquire, Vanished, ExpiredOnRead,
     GetReturned, Conflict, Snapshot, ChangeInvalid, CommitVanished, CommitExpired,
     Purge, PurgeClosed, Cancelled, BeginPurge, CaptureMissed, Delete, Capture,
     storeVars
<1>4. Close \/ Tick => record' = record
  BY DEF Close, Tick, storeVars
<1>. QED
  BY <1>1, <1>2, <1>3, <1>4, BoundsAssumption DEF Next, Call, Continue

(* A removed run stays removed: no call that had captured it, however      *)
(* late, binds it again or writes to it.                                   *)
THEOREM RemovedRunsStayRemoved == Spec => DeadStaysDead
<1>1. ASSUME StoreInv, [Next]_vars, NEW e \in Entries, Dead(e)
      PROVE  Dead(e)' /\ record'[e] = record[e]
  <2>1. CASE Next
    <3>1. e \in allocated /\ ~Live(e) /\ ~Unborn(e)
      BY <1>1 DEF Dead
    <3>2. record'[e] = record[e]
      BY <1>1, <2>1, <3>1, RecordSteps
    <3>3. e \in allocated'
      BY <1>1, <2>1, <3>1, BindingSteps
    <3>4. ~Live(e)'
      BY <1>1, <2>1, <3>1, BindingSteps, NoneAssumption DEF Live
    <3>5. ~Unborn(e)'
      BY <1>1, <2>1, <3>1, BindingSteps DEF Unborn
    <3>. QED
      BY <3>2, <3>3, <3>4, <3>5 DEF Dead
  <2>2. CASE UNCHANGED vars
    BY <1>1, <2>2 DEF vars, Dead, Live, Unborn
  <2>. QED
    BY <1>1, <2>1, <2>2
<1>2. StoreInv /\ [Next]_vars =>
        [\A e \in Entries : Dead(e) => Dead(e)' /\ record'[e] = record[e]]_vars
  BY <1>1
<1>. QED
  BY <1>2, StoreInvariant, PTL DEF Spec, DeadStaysDead

(* No record is written once its deadline has passed.                      *)
THEOREM WritesRespectTheDeadline == Spec => NoLateWrite
<1>1. StoreInv /\ [Next]_vars =>
        [\A e \in allocated : record'[e] # record[e] => now < deadline[e]]_vars
  BY RecordSteps DEF StoreInv, TypeOK
<1>. QED
  BY <1>1, StoreInvariant, PTL DEF Spec, NoLateWrite

-----------------------------------------------------------------------------
(* The refinement.  Beyond StoreInv it rests on four facts about calls: a  *)
(* reading of the clock is never ahead of it, a closed store binds         *)
(* nothing, only get and mutate queue for a lock, and who creates a record *)
(* was asked to.                                                           *)
ReadingsArePast == \A p \in Procs : stamp[p] <= now

ClosedIsEmpty == closed => \A r \in Runs : entries[r] = None

WaitersAsk == \A p \in Procs : pc[p] \in InCall => req[p].op \in {"get", "mutate"}

CreatingAsk == \A p \in Procs : pc[p] = "creating" => req[p].op = "create"

CallsInv == ReadingsArePast /\ ClosedIsEmpty /\ WaitersAsk /\ CreatingAsk

(* The empty store satisfies them.                                         *)
LEMMA CallsInit == Init => CallsInv
BY DEF Init, CallsInv, ReadingsArePast, ClosedIsEmpty, WaitersAsk, CreatingAsk, InCall

(* Every step of store.py keeps them.                                      *)
LEMMA CallsNext == TypeOK /\ CallsInv /\ [Next]_vars => CallsInv'
<1> SUFFICES ASSUME TypeOK, CallsInv, [Next]_vars PROVE CallsInv'
  OBVIOUS
<1> USE DEF TypeOK, CallsInv, ReadingsArePast, ClosedIsEmpty, WaitersAsk, CreatingAsk, InCall, storeVars, callVars
<1>1. ASSUME NEW p \in Procs, NEW r \in Runs, BeginCreate(p, r) PROVE CallsInv'
  BY <1>1 DEF BeginCreate, Enter
<1>2. ASSUME NEW p \in Procs, NEW r \in Runs, NEW op \in {"get", "mutate"}, NEW v \in Nat,
             Capture(p, op, r, v)
      PROVE CallsInv'
  BY <1>2 DEF Capture, Enter
<1>3. ASSUME NEW p \in Procs, BeginPurge(p) PROVE CallsInv'
  BY <1>3 DEF BeginPurge, Enter
<1>4. ASSUME NEW p \in Procs, Acquire(p) \/ Snapshot(p) PROVE CallsInv'
  BY <1>4 DEF Acquire, Snapshot
<1>5. ASSUME NEW p \in Procs, NEW result, Leave(p, result), closed' = closed, now' = now,
             closed => \A r \in Runs : entries'[r] \in {entries[r], None}
      PROVE CallsInv'
  BY <1>5 DEF Leave
<1>6. ASSUME NEW p \in Procs,
             \/ CreateRefused(p) \/ Vanished(p) \/ GetReturned(p) \/ Conflict(p)
             \/ ChangeInvalid(p) \/ CommitVanished(p) \/ Commit(p)
             \/ ExpiredOnRead(p) \/ CommitExpired(p) \/ Purge(p) \/ PurgeClosed(p)
             \/ Cancelled(p) \/ CreateInserted(p)
             \/ \E r \in Runs : CaptureMissed(p, r) \/ Delete(p, r)
      PROVE CallsInv'
  <2>1. \E result : Leave(p, result)
    BY <1>6 DEF CreateRefused, Vanished, GetReturned, Conflict, ChangeInvalid,
       CommitVanished, Commit, ExpiredOnRead, CommitExpired, Purge,
       PurgeClosed, Cancelled, CaptureMissed, Delete, CreateInserted
  <2>2. /\ closed' = closed /\ now' = now
        /\ closed => \A r \in Runs : entries'[r] \in {entries[r], None}
    BY <1>6 DEF CreateRefused, Vanished, GetReturned, Conflict, ChangeInvalid,
       CommitVanished, Commit, ExpiredOnRead, CommitExpired, Purge,
       PurgeClosed, Cancelled, CaptureMissed, Delete, CreateInserted
  <2>. QED
    BY <1>5, <2>1, <2>2
<1>7. CASE Close \/ Tick
  BY <1>7 DEF Close, Tick
<1>8. CASE UNCHANGED vars
  BY <1>8 DEF vars
<1>. QED
  BY <1>1, <1>2, <1>3, <1>4, <1>6, <1>7, <1>8, BoundsAssumption DEF Next, Call, Continue

(* A call that leaves is answered, and nobody else's call is touched.      *)
LEMMA LeaveAnswers ==
  ASSUME TypeOK, NEW p \in Procs, NEW result, Leave(p, result)
  PROVE  Atomic!Answer(p, result)
BY DEF TypeOK, Leave, Atomic!Answer, Atomic!NoCall, Pending, InCall

(* What the atomic store sees of a caller.                                 *)
LEMMA Seen ==
  ASSUME NEW p \in Procs
  PROVE  /\ pc[p] \in {"idle", "purging"} => Pending(p) = Atomic!NoCall
         /\ pc[p] \in InCall \union {"creating"} =>
              /\ Pending(p).op = req[p].op /\ Pending(p).run = req[p].run
              /\ Pending(p).entry = held[p] /\ Pending(p).expected = req[p].expected
BY DEF Pending, InCall, Atomic!NoCall

(* The fine-grained store starts as the atomic one.                        *)
LEMMA AtomicInit == Init => Atomic!Init
BY DEF Init, Atomic!Init, Atomic!NoCall, Atomic!NewRecord, Atomic!Failed, Pending, InCall,
   NewRecord, Failed

(* Every step of store.py is one step of the atomic store, or none: taking *)
(* a lock and a snapshot are none, leaving a call is its effect.           *)
LEMMA AtomicStep ==
  ASSUME StoreInv, CallsInv, Next PROVE Atomic!Next \/ UNCHANGED Atomic!vars
<1> TypeOK
  BY DEF StoreInv
<1> USE DEF storeVars, callVars, Atomic!NewRecord, Atomic!Failed, Atomic!Returned, NewRecord, Failed, Returned
<1>1. ASSUME NEW p \in Procs, NEW r \in Runs, BeginCreate(p, r) PROVE Atomic!Next
  <2>1. PICK e \in Fresh :
         /\ allocated' = allocated \union {e}
         /\ record' = [record EXCEPT ![e] = NewRecord]
         /\ deadline' = [deadline EXCEPT ![e] = now + Ttl]
         /\ held' = [held EXCEPT ![p] = e]
    BY <1>1 DEF BeginCreate
  <2>2. [q \in Procs |-> Pending(q)]' = [[q \in Procs |-> Pending(q)] EXCEPT ![p] =
          [op |-> "create", run |-> r, entry |-> e, expected |-> 0]]
    BY <1>1, <2>1 DEF BeginCreate, Enter, TypeOK, Pending, InCall
  <2>3. Atomic!BeginCreate(p, r, e)
    BY <1>1, <2>1, <2>2, Seen DEF BeginCreate, Enter, Atomic!BeginCreate, Fresh
  <2>. QED
    BY <2>1, <2>3 DEF Atomic!Next, Fresh
<1>2. ASSUME NEW p \in Procs, NEW r \in Runs, NEW op \in {"get", "mutate"},
             NEW v \in 0 .. MaxVersion, Capture(p, op, r, v)
      PROVE Atomic!Next
  <2>1. [q \in Procs |-> Pending(q)]' = [[q \in Procs |-> Pending(q)] EXCEPT ![p] =
          [op |-> op, run |-> r, entry |-> entries[r], expected |-> v]]
    BY <1>2 DEF Capture, Enter, TypeOK, Pending, InCall
  <2>2. Atomic!Begin(p, op, r, v)
    BY <1>2, <2>1, Seen DEF Capture, Enter, Atomic!Begin
  <2>. QED
    BY <2>2 DEF Atomic!Next
<1>3. ASSUME NEW p \in Procs, BeginPurge(p) PROVE Atomic!Next
  <2>1. [q \in Procs |-> Pending(q)]' = [[q \in Procs |-> Pending(q)] EXCEPT ![p] = Atomic!NoCall]
    BY <1>3 DEF BeginPurge, Enter, TypeOK, Pending, InCall, Atomic!NoCall
  <2>2. Atomic!NoEffect(p)
    BY <1>3, <2>1 DEF BeginPurge, Enter, Atomic!NoEffect, Atomic!Answer
  <2>. QED
    BY <2>2 DEF Atomic!Next
<1>4. ASSUME NEW p \in Procs, Acquire(p) \/ Snapshot(p) PROVE UNCHANGED Atomic!vars
  <2>1. \A q \in Procs : Pending(q)' = Pending(q)
    BY <1>4 DEF Acquire, Snapshot, TypeOK, Pending, InCall
  <2>. QED
    BY <1>4, <2>1 DEF Acquire, Snapshot, Atomic!vars
<1>5. ASSUME NEW p \in Procs, CreateInserted(p) PROVE Atomic!Create(p)
  <2>1. pc[p] = "creating" /\ req[p].run \in Runs
    BY <1>5 DEF CreateInserted, TypeOK
  <2>2. Pending(p).op = "create" /\ Pending(p).run = req[p].run /\ Pending(p).entry = held[p]
    BY <2>1, Seen DEF CallsInv, CreatingAsk, InCall
  <2>3. entries[req[p].run] # None => ~(deadline[entries[req[p].run]] > now)
    BY <1>5, <2>1 DEF CreateInserted, MayBind, CallsInv, ReadingsArePast, TypeOK
  <2>4. Atomic!Answer(p, Returned(NewRecord))
    BY <1>5, LeaveAnswers DEF CreateInserted
  <2>. QED
    BY <1>5, <2>2, <2>3, <2>4 DEF CreateInserted, Atomic!Create, Atomic!Fresh
<1>6. ASSUME NEW p \in Procs,
             \/ CreateRefused(p) \/ ChangeInvalid(p) \/ PurgeClosed(p) \/ Cancelled(p)
      PROVE Atomic!NoEffect(p)
  <2>1. \E status \in {"invalid", "cancelled", "done"} : Leave(p, Failed(status))
    BY <1>6 DEF CreateRefused, ChangeInvalid, PurgeClosed, Cancelled
  <2>2. UNCHANGED <<entries, allocated, record, deadline, closed, now, acked>>
    BY <1>6 DEF CreateRefused, ChangeInvalid, PurgeClosed, Cancelled
  <2>. QED
    BY <2>1, <2>2, LeaveAnswers DEF Atomic!NoEffect
<1>7. ASSUME NEW p \in Procs, NEW r \in Runs, CaptureMissed(p, r) PROVE Atomic!Missed(p)
  BY <1>7, LeaveAnswers, Seen DEF CaptureMissed, Atomic!Missed, CallsInv, ClosedIsEmpty
<1>8. ASSUME NEW p \in Procs, NEW r \in Runs, Delete(p, r) PROVE Atomic!Delete(p, r)
  BY <1>8, LeaveAnswers, Seen DEF Delete, Atomic!Delete
<1>9. ASSUME NEW p \in Procs, pc[p] \in {"locked", "changing"}
      PROVE  /\ Pending(p).op = req[p].op /\ Pending(p).op \in {"get", "mutate"}
             /\ Pending(p).run = req[p].run /\ req[p].run \in Runs
             /\ Pending(p).entry = held[p] /\ held[p] \in Entries
             /\ Pending(p).expected = req[p].expected
             /\ StillBound(p) <=> Atomic!Bound(p)
             /\ Expired(p) <=> ~Atomic!Fresh(held[p])
  <2>1. held[p] \in Entries /\ req[p].run \in Runs /\ req[p].op \in {"get", "mutate"}
    BY <1>9 DEF TypeOK, InCall, CallsInv, WaitersAsk
  <2>2. closed => entries[req[p].run] # held[p]
    BY <2>1, NoneAssumption DEF CallsInv, ClosedIsEmpty
  <2>3. StillBound(p) <=> Atomic!Bound(p)
    BY <1>9, <2>2, Seen DEF StillBound, Atomic!Bound, InCall
  <2>4. Expired(p) <=> ~Atomic!Fresh(held[p])
    BY <2>1 DEF Expired, Atomic!Fresh, TypeOK
  <2>. QED
    BY <1>9, <2>1, <2>3, <2>4, Seen DEF InCall
<1>10. ASSUME NEW p \in Procs,
              Vanished(p) \/ ExpiredOnRead(p) \/ CommitVanished(p) \/ CommitExpired(p)
       PROVE Atomic!NotFound(p)
  <2>1. pc[p] \in {"locked", "changing"} /\ Leave(p, Failed("not_found"))
    BY <1>10 DEF Vanished, ExpiredOnRead, CommitVanished, CommitExpired
  <2>2. \/ ~StillBound(p) /\ UNCHANGED entries
        \/ StillBound(p) /\ Expired(p) /\ entries' = [entries EXCEPT ![req[p].run] = None]
    BY <1>10 DEF Vanished, ExpiredOnRead, CommitVanished, CommitExpired
  <2>3. UNCHANGED <<allocated, record, deadline, closed, now, acked>>
    BY <1>10 DEF Vanished, ExpiredOnRead, CommitVanished, CommitExpired
  <2>. QED
    BY <1>9, <2>1, <2>2, <2>3, LeaveAnswers DEF Atomic!NotFound
<1>11. ASSUME NEW p \in Procs, GetReturned(p) PROVE Atomic!Get(p)
  <2>1. pc[p] \in {"locked", "changing"} /\ Atomic!Answer(p, Returned(record[held[p]]))
    BY <1>11, LeaveAnswers DEF GetReturned
  <2>. QED
    BY <1>9, <1>11, <2>1 DEF GetReturned, Atomic!Get
<1>12. ASSUME NEW p \in Procs, Conflict(p) PROVE Atomic!Conflict(p)
  <2>1. pc[p] \in {"locked", "changing"} /\ Atomic!Answer(p, Failed("conflict"))
    BY <1>12, LeaveAnswers DEF Conflict
  <2>. QED
    BY <1>9, <1>12, <2>1 DEF Conflict, VersionMatches, Atomic!Conflict
<1>13. ASSUME NEW p \in Procs, Commit(p) PROVE Atomic!Mutate(p)
  <2>. DEFINE v == req[p].expected
              updated == [version |-> v + 1,
                          changes |-> record[held[p]].changes \union {[by |-> p, at |-> v]}]
  <2>1. pc[p] = "changing" /\ req[p].op = "mutate"
    BY <1>13 DEF Commit, StoreInv, SnapshotIsCurrent
  <2>2. record[held[p]].version = v /\ Applied(seen[p], p, v) = updated
    BY <2>1 DEF Applied, StoreInv, SnapshotIsCurrent
  <2>3. Atomic!Answer(p, Returned(updated))
    BY <1>13, <2>2, LeaveAnswers DEF Commit
  <2>4. Pending(p).op = "mutate" /\ Pending(p).entry = held[p] /\ Pending(p).expected = v
    BY <1>9, <2>1
  <2>5. Atomic!Bound(p) /\ Atomic!Fresh(held[p])
    BY <1>9, <1>13, <2>1 DEF Commit, CommitAllowed
  <2>6. /\ record' = [record EXCEPT ![held[p]] = updated]
        /\ acked' = acked \union {[entry |-> held[p], by |-> p, at |-> v]}
        /\ UNCHANGED <<entries, allocated, deadline, closed, now>>
    BY <1>13, <2>2 DEF Commit
  <2>. HIDE DEF v
  <2>. QED
    BY <2>2, <2>3, <2>4, <2>5, <2>6 DEF Atomic!Mutate
<1>14. ASSUME NEW p \in Procs, Purge(p) PROVE \E swept \in SUBSET Runs : Atomic!Purge(p, swept)
  <2>. DEFINE swept == {r \in Runs : PurgeDue(p, r)}
  <2>1. \A r \in swept : entries[r] # None /\ ~Atomic!Fresh(entries[r])
    BY DEF PurgeDue, Atomic!Fresh, CallsInv, ReadingsArePast, TypeOK
  <2>2. entries' = [r \in Runs |-> IF r \in swept THEN None ELSE entries[r]]
    BY <1>14 DEF Purge
  <2>3. Atomic!Answer(p, Failed("done"))
    BY <1>14, LeaveAnswers DEF Purge
  <2>4. Pending(p) = Atomic!NoCall
    BY <1>14, Seen DEF Purge
  <2>5. Atomic!Purge(p, swept)
    BY <1>14, <2>1, <2>2, <2>3, <2>4 DEF Purge, Atomic!Purge
  <2>. QED
    BY <2>5
<1>15. ASSUME UNCHANGED callVars PROVE UNCHANGED [p \in Procs |-> Pending(p)]
  BY <1>15 DEF Pending
<1>16. CASE Close
  BY <1>15, <1>16 DEF Close, Atomic!Close, Atomic!Next
<1>17. CASE Tick
  BY <1>15, <1>17 DEF Tick, Atomic!Tick, Atomic!Next
<1>. QED
  BY <1>1, <1>2, <1>3, <1>4, <1>5, <1>6, <1>7, <1>8, <1>10, <1>11, <1>12, <1>13, <1>14,
     <1>16, <1>17, BoundsAssumption
  DEF Next, Call, Continue, Atomic!Next

(* store.py implements the atomic store its callers rely on: whatever is   *)
(* interleaved between its awaits, each call takes effect in one step.     *)
THEOREM StoreIsAtomic == Spec => ImplementsAtomicStore
<1>1. Init => StoreInv /\ CallsInv
  BY InvInit, CallsInit
<1>2. StoreInv /\ CallsInv /\ [Next]_vars => (StoreInv /\ CallsInv)'
  BY InvNext, CallsNext DEF StoreInv
<1>3. StoreInv /\ CallsInv /\ [Next]_vars => [Atomic!Next]_(Atomic!vars)
  <2>1. UNCHANGED vars => UNCHANGED Atomic!vars
    BY DEF vars, Atomic!vars, Pending
  <2>. QED
    BY <2>1, AtomicStep
<1>. QED
  BY <1>1, <1>2, <1>3, AtomicInit, PTL DEF Spec, ImplementsAtomicStore, Atomic!Spec

-----------------------------------------------------------------------------
(* The policy engine and its revision gate.                                *)

(* Among finitely many finite sets one holds no other.                     *)
LEMMA SmallestSet ==
  ASSUME NEW S, NEW F \in SUBSET FiniteSubsetsOf(S), F # {}
  PROVE  \E T \in F : \A U \in F : U \subseteq T => U = T
<1>1. \A T \in F : T \subseteq S
  BY DEF FiniteSubsetsOf
<1>2. PICK T \in F : \A U \in F : <<U, T>> \notin StrictSubsetOrdering(S)
  <2>1. IsWellFoundedOn(StrictSubsetOrdering(S), FiniteSubsetsOf(S))
    BY FS_StrictSubsetOrderingWellFounded
  <2>. HIDE DEF StrictSubsetOrdering, FiniteSubsetsOf
  <2>. QED BY <2>1, WFMin
<1>. SUFFICES ASSUME NEW U \in F, U \subseteq T, U # T PROVE FALSE
  OBVIOUS
<1>3. <<U, T>> \in (SUBSET S) \X (SUBSET S)
  BY <1>1
<1>. QED BY <1>2, <1>3 DEF StrictSubsetOrdering

(* Natural numbers have a least one.                                       *)
LEMMA LeastNumber ==
  ASSUME NEW S \in SUBSET Nat, S # {}
  PROVE  \E m \in S : \A n \in S : m <= n
<1>. DEFINE R == {ss \in Nat \X Nat : ss[1] < ss[2]}
<1>1. IsWellFoundedOn(R, Nat)
  BY Zenon, NatLessThanWellFounded DEF OpToRel
<1>2. \A m, n \in Nat : <<n, m>> \in R <=> n < m
  OBVIOUS
<1>. HIDE DEF R
<1>3. PICK m \in S : \A n \in S : <<n, m>> \notin R
  BY <1>1, WFMin
<1>4. ASSUME NEW n \in S PROVE m <= n
  <2>1. ~(n < m) /\ m \in Nat /\ n \in Nat
    BY <1>2, <1>3
  <2>. QED BY <2>1
<1>. QED BY <1>4

(* Among finitely many of whom each is overridden by another there are     *)
(* some of whom each overrides another.                                    *)
LEMMA OverriddenInACircle ==
  ASSUME NEW S, IsFiniteSet(S), S # {}, NEW E,
         \A t \in S : \E r \in S : <<r, t>> \in E
  PROVE  \E T \in SUBSET S : T # {} /\ \A r \in T : \E t \in T : <<r, t>> \in E
<1>. DEFINE F == {T \in SUBSET S : T # {} /\ \A t \in T : \E r \in T : <<r, t>> \in E}
<1>1. F \in SUBSET FiniteSubsetsOf(S) /\ S \in F
  BY FS_Subset DEF FiniteSubsetsOf
<1>2. PICK T \in F : \A U \in F : U \subseteq T => U = T
  <2>. HIDE DEF F
  <2>. QED BY <1>1, SmallestSet
<1>3. \A r \in T : \E t \in T : <<r, t>> \in E
  <2>. SUFFICES ASSUME NEW r \in T, \A t \in T : <<r, t>> \notin E PROVE FALSE
    OBVIOUS
  <2>1. \A t \in T \ {r} : \E q \in T \ {r} : <<q, t>> \in E
    BY <1>2
  <2>2. CASE T \ {r} = {}
    <3>1. PICK q \in T : <<q, r>> \in E
      BY <1>2
    <3>. QED BY <2>2, <3>1
  <2>3. CASE T \ {r} # {}
    <3>1. T \ {r} \in F /\ T \ {r} \subseteq T /\ T \ {r} # T
      BY <1>2, <2>1, <2>3
    <3>. HIDE DEF F
    <3>. QED BY <1>2, <3>1
  <2>. QED BY <2>2, <2>3
<1>. QED BY <1>2, <1>3

(* The rules that apply to a scenario always leave one to decide: a set of *)
(* rules each of which another one overrides holds a circle, and a policy  *)
(* has none.                                                               *)
LEMMA GateDecides ==
  ASSUME NEW p, IsFiniteSet(DOMAIN p), Gate!Acyclic(p), NEW s, NEW d
  PROVE  LET r == Gate!Resolve(p, s, d) IN r.applicable # {} => r.values # {}
<1>. DEFINE A == Gate!Applicable(p, s, d)
            E == {e \in A \X A : <<d, e[2]>> \in p[e[1]].overrides}
<1>1. A \subseteq DOMAIN p /\ IsFiniteSet(A)
  BY FS_Subset DEF Gate!Applicable
<1>2. A # {} => A \ Gate!Overridden(p, s, d) # {}
  <2>. SUFFICES ASSUME A # {}, A \ Gate!Overridden(p, s, d) = {} PROVE FALSE
    OBVIOUS
  <2>1. \A t \in A : \E r \in A : <<r, t>> \in E
    BY DEF Gate!Overridden
  <2>2. PICK T \in SUBSET A : T # {} /\ \A r \in T : \E t \in T : <<r, t>> \in E
    <3>. HIDE DEF A, E
    <3>. QED BY <1>1, <2>1, OverriddenInACircle
  <2>3. \A r \in T : \E o \in p[r].overrides : o[2] \in T
    <3>. TAKE r \in T
    <3>1. PICK t \in T : <<r, t>> \in E
      BY <2>2
    <3>2. <<d, t>> \in p[r].overrides /\ <<d, t>>[2] = t
      BY <3>1
    <3>. QED BY <3>2
  <2>. QED BY <1>1, <2>2, <2>3 DEF Gate!Acyclic
<1>. HIDE DEF A, E
<1>. QED BY <1>2 DEF Gate!Resolve, A

(* Every gap and every conflict of a scenario is among the findings.       *)
LEMMA GapsAreFindings ==
  ASSUME NEW p, NEW s, NEW d \in Gate!Dimensions, Gate!Resolve(p, s, d).status \in {"GAP", "CONFLICT"}
  PROVE  \E f \in Gate!FindingsOf(p, s) : f.dimension = d
<1>1. ~Gate!Malformed(s)
  BY DEF Gate!Resolve
<1>2. CASE Gate!Resolve(p, s, d).status = "CONFLICT"
  <2>. DEFINE r == Gate!Resolve(p, s, d)
              f == Gate!Finding("conflict", d, r.applicable \ r.overridden, Gate!NoOrigin)
  <2>1. f \in Gate!FindingsOf(p, s)
    BY <1>1, <1>2 DEF Gate!FindingsOf
  <2>. QED BY <2>1 DEF Gate!Finding
<1>3. CASE Gate!Resolve(p, s, d).status = "GAP" /\ d \notin Gate!ReportedAsBreach(p, s)
  <2>. DEFINE f == Gate!Finding("structural_gap", d, Gate!RulesOf(p, d), Gate!NoOrigin)
  <2>1. f \in Gate!FindingsOf(p, s)
    BY <1>1, <1>3 DEF Gate!FindingsOf
  <2>. QED BY <2>1 DEF Gate!Finding
<1>4. CASE d \in Gate!ReportedAsBreach(p, s)
  <2>1. PICK a \in Gate!Breaches(p, s) : a.dimension = d
    BY <1>4 DEF Gate!ReportedAsBreach
  <2>. DEFINE f == Gate!Finding("intent_breach", a.dimension, {}, a.origin)
  <2>2. f \in Gate!FindingsOf(p, s)
    BY <1>1, <2>1 DEF Gate!FindingsOf
  <2>. QED BY <2>1, <2>2 DEF Gate!Finding
<1>. QED BY <1>2, <1>3, <1>4

(* What the new policy decides of a dimension is what the old one did when *)
(* the rules about it are the same and are overridden by the same.         *)
LEMMA OutsideStays ==
  ASSUME IsPolicy(policy), NEW op \in Gate!Operations, Gate!MayApply(op),
         NEW d \in Gate!Dimensions, d \notin Gate!Allowed(op)
  PROVE  /\ op.rule \in DOMAIN policy =>
              /\ d \in Gate!Supplies(Gate!Replacement(op)) <=> d \in Gate!Supplies(policy[op.rule])
              /\ Gate!Replacement(op).effects[d] = policy[op.rule].effects[d]
              /\ d \in Gate!Supplies(policy[op.rule]) =>
                   Gate!Replacement(op).when = policy[op.rule].when
              /\ \A t : <<d, t>> \in Gate!Replacement(op).overrides
                         <=> <<d, t>> \in policy[op.rule].overrides
         /\ op.rule \notin DOMAIN policy => d \notin Gate!Supplies(Gate!Replacement(op))
<1>. DEFINE n == Gate!Replacement(op)
            old == policy[op.rule]
<1>1. op.rule \in DOMAIN policy =>
        /\ old = [when |-> old.when, effects |-> old.effects, overrides |-> old.overrides,
                  revision |-> old.revision, origin |-> old.origin]
        /\ old.effects \in [Gate!Dimensions -> Gate!Values \cup {Gate!Unset}]
  BY DEF IsPolicy, IsRule
<1>2. CASE op.kind = "add_override"
  <2>1. op.rule \in DOMAIN policy /\ op.dimension \in Gate!Allowed(op)
    BY <1>2 DEF Gate!MayApply, Gate!MayOverride
  <2>2. /\ n.when = old.when /\ n.effects = old.effects
        /\ n.overrides = old.overrides \cup {<<op.dimension, op.target>>}
    BY <1>1, <1>2, <2>1 DEF Gate!Replacement
  <2>. HIDE DEF n, old
  <2>3. \A t : <<d, t>> \in n.overrides <=> <<d, t>> \in old.overrides
    BY <2>1, <2>2
  <2>. QED BY <2>1, <2>2, <2>3 DEF Gate!Supplies, n, old
<1>3. CASE op.kind = "add_rule"
  <2>1. op.rule \notin DOMAIN policy /\ Gate!Supplies(op.draft) \subseteq Gate!Allowed(op)
    BY <1>3 DEF Gate!MayApply, Gate!MayAdd
  <2>2. n.effects = op.draft.effects
    BY <1>3 DEF Gate!Replacement
  <2>. QED BY <2>1, <2>2 DEF Gate!Supplies
<1>4. CASE op.kind = "replace_rule"
  <2>1. op.rule \in DOMAIN policy /\ Gate!KeepsTheRest(op)
    BY <1>4 DEF Gate!MayApply, Gate!MayReplace
  <2>2. n.effects = op.draft.effects /\ n.when = op.draft.when /\ n.overrides = op.draft.overrides
    BY <1>4 DEF Gate!Replacement
  <2>3. n.effects[d] = old.effects[d]
    BY <2>1, <2>2 DEF Gate!KeepsTheRest
  <2>4. d \in Gate!Supplies(n) <=> d \in Gate!Supplies(old)
    BY <2>3 DEF Gate!Supplies
  <2>5. d \in Gate!Supplies(old) => n.when = old.when
    BY <2>1, <2>2 DEF Gate!KeepsTheRest
  <2>6. \A t : <<d, t>> \in n.overrides <=> <<d, t>> \in old.overrides
    <3>. TAKE t
    <3>1. {o \in old.overrides : o[1] \notin Gate!Allowed(op)}
            = {o \in n.overrides : o[1] \notin Gate!Allowed(op)}
      BY <2>1, <2>2 DEF Gate!KeepsTheRest
    <3>2. <<d, t>>[1] = d
      OBVIOUS
    <3>. HIDE DEF n, old
    <3>. QED BY <3>1, <3>2
  <2>. QED BY <2>1, <2>3, <2>4, <2>5, <2>6
<1>5. op.kind \in {"add_override", "add_rule", "replace_rule"}
  BY DEF Gate!MayApply
<1>. QED BY <1>2, <1>3, <1>4, <1>5

(* The proposal consists of operations on its findings, one for each rule.  *)
IsProposal(p) ==
  \E n \in 1..MaxOps : \E ops \in [1..n -> Gate!Operations] :
    p = [accepted |-> UNION {ops[i].findings : i \in 1..n}, ops |-> ops]

(* What applying a proposal makes of a policy, rule by rule.               *)
LEMMA PatchedRules ==
  ASSUME IsPolicy(policy), IsProposal(proposal), Gate!Applies(proposal)
  PROVE  LET q == Gate!Patched(proposal.ops)
             changed == Gate!Changed(proposal.ops)
         IN /\ DOMAIN q = DOMAIN policy \cup changed /\ IsFiniteSet(DOMAIN q)
            /\ \A r \in DOMAIN policy \ changed : q[r] = policy[r]
            /\ \A r \in changed : \E op \in Gate!Operations :
                 /\ Gate!MayApply(op) /\ op.rule = r /\ q[r] = Gate!Replacement(op)
                 /\ op.findings \subseteq proposal.accepted
<1>. DEFINE q == Gate!Patched(proposal.ops)
            changed == Gate!Changed(proposal.ops)
<1>0. PICK n \in 1..MaxOps : \E ops \in [1..n -> Gate!Operations] :
        proposal = [accepted |-> UNION {ops[i].findings : i \in 1..n}, ops |-> ops]
  BY DEF IsProposal
<1>1. PICK ops \in [1..n -> Gate!Operations] :
        proposal = [accepted |-> UNION {ops[i].findings : i \in 1..n}, ops |-> ops]
  BY <1>0
<1>2. proposal.ops = ops /\ DOMAIN ops = 1..n /\ \A i \in 1..n : ops[i] \in Gate!Operations
  BY <1>1
<1>3. changed = {ops[i].rule : i \in 1..n}
  BY <1>2 DEF Gate!Changed
<1>4. IsFiniteSet(changed)
  <2>. DEFINE f == [i \in 1..n |-> ops[i].rule]
  <2>1. IsFiniteSet(1..n)
    BY FS_Interval
  <2>2. f \in Surjection(1..n, changed)
    BY <1>3 DEF Surjection
  <2>. HIDE DEF changed, f
  <2>. QED BY <2>1, <2>2, FS_Surjection
<1>5. DOMAIN q = DOMAIN policy \cup changed /\ IsFiniteSet(DOMAIN q)
  <2>1. DOMAIN q = DOMAIN policy \cup changed
    BY DEF Gate!Patched
  <2>2. IsFiniteSet(DOMAIN policy)
    BY DEF IsPolicy
  <2>. HIDE DEF q, changed
  <2>. QED BY <1>4, <2>1, <2>2, FS_Union
<1>6. \A r \in DOMAIN policy \ changed : q[r] = policy[r]
  BY DEF Gate!Patched
<1>7. ASSUME NEW r \in changed
      PROVE  \E op \in Gate!Operations :
               /\ Gate!MayApply(op) /\ op.rule = r /\ q[r] = Gate!Replacement(op)
               /\ op.findings \subseteq proposal.accepted
  <2>. DEFINE i == CHOOSE i \in 1..n : ops[i].rule = r
  <2>1. i \in 1..n /\ ops[i].rule = r
    BY <1>3
  <2>2. q[r] = Gate!Replacement(ops[i])
    BY <1>2 DEF Gate!Patched
  <2>. HIDE DEF i
  <2>3. Gate!MayApply(ops[i])
    BY <1>2, <2>1 DEF Gate!Applies
  <2>4. ops[i].findings \subseteq proposal.accepted
    BY <1>1, <2>1
  <2>. QED BY <1>2, <2>1, <2>2, <2>3, <2>4
<1>. QED BY <1>5, <1>6, <1>7

(* What is applied decides every dimension of no accepted finding as before. *)
LEMMA RevisionStaysInside ==
  ASSUME IsPolicy(policy), IsProposal(proposal), Gate!Applies(proposal),
         NEW d \in Gate!Dimensions, d \notin {f.dimension : f \in proposal.accepted}, NEW s
  PROVE  Gate!Resolve(Gate!Patched(proposal.ops), s, d) = Gate!Resolve(policy, s, d)
<1>. DEFINE q == Gate!Patched(proposal.ops)
            changed == Gate!Changed(proposal.ops)
<1>1. \A r \in DOMAIN q :
        /\ r \in DOMAIN policy =>
             /\ d \in Gate!Supplies(q[r]) <=> d \in Gate!Supplies(policy[r])
             /\ q[r].effects[d] = policy[r].effects[d]
             /\ d \in Gate!Supplies(policy[r]) => q[r].when = policy[r].when
             /\ \A t : <<d, t>> \in q[r].overrides <=> <<d, t>> \in policy[r].overrides
        /\ r \notin DOMAIN policy => d \notin Gate!Supplies(q[r])
  <2>. TAKE r \in DOMAIN q
  <2>. USE PatchedRules
  <2>1. CASE r \notin changed
    <3>1. r \in DOMAIN policy /\ q[r] = policy[r]
      BY <2>1, PatchedRules
    <3>. HIDE DEF q, changed
    <3>. QED BY <3>1
  <2>2. CASE r \in changed
    <3>1. PICK op \in Gate!Operations :
            /\ Gate!MayApply(op) /\ op.rule = r /\ q[r] = Gate!Replacement(op)
            /\ op.findings \subseteq proposal.accepted
      BY <2>2, PatchedRules
    <3>2. d \notin Gate!Allowed(op)
      BY <3>1 DEF Gate!Allowed
    <3>. HIDE DEF q, changed
    <3>. QED BY <3>1, <3>2, OutsideStays
  <2>. QED BY <2>1, <2>2
<1>2. DOMAIN policy \subseteq DOMAIN q
  BY PatchedRules
<1>. HIDE DEF q
<1>3. Gate!Applicable(q, s, d) = Gate!Applicable(policy, s, d)
  <2>1. \A r : r \in Gate!Applicable(q, s, d) <=> r \in Gate!Applicable(policy, s, d)
    BY <1>1, <1>2 DEF Gate!Applicable
  <2>. QED BY <2>1
<1>4. Gate!Overridden(q, s, d) = Gate!Overridden(policy, s, d)
  <2>1. \A r \in Gate!Applicable(q, s, d) : r \in DOMAIN q /\ r \in DOMAIN policy
    BY <1>3 DEF Gate!Applicable
  <2>2. \A t \in Gate!Applicable(q, s, d), r \in Gate!Applicable(q, s, d) :
          <<d, t>> \in q[r].overrides <=> <<d, t>> \in policy[r].overrides
    BY <1>1, <2>1
  <2>. QED BY <1>3, <2>2 DEF Gate!Overridden
<1>5. {q[r].effects[d] : r \in Gate!Applicable(q, s, d) \ Gate!Overridden(q, s, d)}
        = {policy[r].effects[d] :
             r \in Gate!Applicable(policy, s, d) \ Gate!Overridden(policy, s, d)}
  <2>1. \A r \in Gate!Applicable(q, s, d) : q[r].effects[d] = policy[r].effects[d]
    BY <1>1, <1>3 DEF Gate!Applicable
  <2>. QED BY <1>3, <1>4, <2>1
<1>. DEFINE V(p) == {p[r].effects[d] : r \in Gate!Applicable(p, s, d) \ Gate!Overridden(p, s, d)}
            C == {c \in Clauses : /\ d \in c.dimensions
                                  /\ IF c.hinted THEN Gate!Holds(c.hint, Suite[s].facts)
                                     ELSE d \in Gate!RequiredIn(s)}
            Of(A, O, status, v) == [status |-> status, values |-> v, applicable |-> A,
                                    overridden |-> O, clauses |-> {}]
            R(A, O, v) ==
              IF Gate!Malformed(s) \/ C # {}
              THEN [status |-> IF Gate!Malformed(s) THEN "ERROR" ELSE "INCONCLUSIVE", values |-> {},
                    applicable |-> {}, overridden |-> {},
                    clauses |-> IF Gate!Malformed(s) THEN {} ELSE C]
              ELSE IF v = {}
              THEN Of(A, O, IF d \in Gate!RequiredIn(s) THEN "GAP" ELSE "NOT_APPLICABLE", {})
              ELSE Of(A, O, IF Gate!Cardinality(v) > 1 THEN "CONFLICT" ELSE "VALUE", v)
<1>6. /\ Gate!Resolve(q, s, d)
           = R(Gate!Applicable(q, s, d), Gate!Overridden(q, s, d), V(q))
      /\ Gate!Resolve(policy, s, d)
           = R(Gate!Applicable(policy, s, d), Gate!Overridden(policy, s, d), V(policy))
  BY Zenon DEF Gate!Resolve
<1>7. V(q) = V(policy)
  BY <1>5
<1>. HIDE DEF V, R
<1>8. Gate!Resolve(q, s, d) = Gate!Resolve(policy, s, d)
  BY <1>3, <1>4, <1>6, <1>7
<1>. QED BY <1>8 DEF q

(* An outcome whose dimensions are decided as before keeps its signature.  *)
LEMMA RestKeepsItsSignature ==
  ASSUME Gate!ValidPolicy(policy), NEW q, NEW changed,
         DOMAIN q = DOMAIN policy \cup changed,
         \A r \in DOMAIN policy \ changed : q[r] = policy[r],
         NEW r \in DOMAIN policy \ changed,
         \A o \in policy[r].overrides : o[2] \notin changed
  PROVE  Gate!Signature(q, r) = Gate!Signature(policy, r)
<1>1. q[r] = policy[r]
  OBVIOUS
<1>2. \A o \in policy[r].overrides : o[2] \in DOMAIN policy /\ q[o[2]] = policy[o[2]]
  BY DEF Gate!ValidPolicy
<1>. DEFINE over(p) == {<<o[1], Gate!Base(p[o[2]])>> : o \in p[r].overrides}
<1>3. over(q) = over(policy)
  BY <1>1, <1>2
<1>. DEFINE HowMany(p, x) ==
              Gate!Cardinality({o \in p[r].overrides : <<o[1], Gate!Base(p[o[2]])>> = x})
<1>4. \A x : HowMany(q, x) = HowMany(policy, x)
  <2>. TAKE x
  <2>1. {o \in q[r].overrides : <<o[1], Gate!Base(q[o[2]])>> = x}
          = {o \in policy[r].overrides : <<o[1], Gate!Base(policy[o[2]])>> = x}
    BY <1>1, <1>2
  <2>. QED BY <2>1
<1>5. Gate!Base(q[r]) = Gate!Base(policy[r])
  BY <1>1
<1>6. \A p : Gate!Signature(p, r) = <<Gate!Base(p[r]), [x \in over(p) |-> HowMany(p, x)]>>
  BY DEF Gate!Signature
<1>7. [x \in over(q) |-> HowMany(q, x)] = [x \in over(policy) |-> HowMany(policy, x)]
  <2>. HIDE DEF over, HowMany
  <2>. QED BY <1>3, <1>4
<1>. HIDE DEF over, HowMany
<1>. QED BY <1>5, <1>6, <1>7

(* A finding that is no finding of the revised policy is answered.         *)
LEMMA FixedAnswers ==
  ASSUME NEW f, Gate!Fixed(f), NEW s \in DOMAIN Suite, s \in Gate!Witnesses(policy, f),
         NEW g \in Gate!FindingsOf(revised, s), g.dimension = f.dimension
  PROVE  FALSE
<1>. DEFINE r == Gate!Resolve(revised, s, f.dimension)
<1>1. /\ r.status = "VALUE"
      /\ \A a \in Gate!Assertions(s) :
           a.dimension = f.dimension => Gate!Outcome(revised, s, a) = "PASS"
  BY DEF Gate!Fixed
<1>2. r.clauses = {}
  BY <1>1 DEF Gate!Resolve
<1>3. ~\E a \in Gate!Breaches(revised, s) : a.dimension = f.dimension
  BY <1>1 DEF Gate!Breaches
<1>. HIDE DEF r
<1>4. g.type # "intent_breach"
  BY <1>3 DEF Gate!FindingsOf, Gate!Finding
<1>5. g.type \notin {"structural_gap", "conflict"}
  BY <1>1 DEF Gate!FindingsOf, Gate!Finding, r
<1>6. g.type # "unsupported_clause"
  BY <1>2 DEF Gate!FindingsOf, Gate!Finding, r
<1>. QED BY <1>4, <1>5, <1>6 DEF Gate!FindingsOf, Gate!Finding

(* The gate's copy of Cardinality is that of FiniteSets.                   *)
LEMMA GateCounts ==
  ASSUME NEW S PROVE Gate!Cardinality(S) = Cardinality(S)
BY Zenon DEF Gate!Cardinality, Cardinality

(* What the gate holds on to: a proposal that was applied fitted the       *)
(* policy, and one that was accepted passed.                               *)
ProposalIsApplied ==
  IsProposal(proposal) /\ Gate!Applies(proposal) /\ revised = Gate!Patched(proposal.ops)

GateInvariant ==
  /\ IsPolicy(policy) /\ Gate!ValidPolicy(policy)
  /\ phase \in {"review", "proposed", "applied", "rejected", "accepted", "refused"}
  /\ phase = "proposed" => IsProposal(proposal)
  /\ phase \in {"applied", "accepted", "refused"} => ProposalIsApplied
  /\ phase = "accepted" => Gate!Passes

(* The invariant holds when a gate begins with a policy.                   *)
LEMMA GateBegins ==
  ASSUME NEW baselines \in SUBSET (Policies \cup Precedences), Gate!Begins(baselines)
  PROVE  GateInvariant
BY PoliciesAssumption DEF Gate!Begins, GateInvariant

(* A proposal that is drafted addresses findings of the policy.            *)
LEMMA ProposalStays ==
  ASSUME policy' = policy, proposal' = proposal, IsProposal(proposal)
  PROVE  IsProposal(proposal)'
BY DEF IsProposal, Gate!Operations, Gate!AddOverrides, Gate!AddRules, Gate!ReplaceRules, Gate!Chosen

(* An operation for a finding is one of the proposal that fits the policy. *)
LEMMA OperationsStay ==
  ASSUME policy' = policy, NEW CONSTANT op
  PROVE  /\ Gate!MayApply(op)' = Gate!MayApply(op)
         /\ Gate!Replacement(op)' = Gate!Replacement(op)
BY DEF Gate!MayApply, Gate!MayOverride, Gate!MayAdd, Gate!MayReplace, Gate!KeepsTheRest,
       Gate!KeepsEdges, Gate!Replacement, Gate!Targets, Gate!Patched

(* A finished patch keeps the invariant.                                   *)
LEMMA PatchStays ==
  ASSUME policy' = policy, NEW CONSTANT ops
  PROVE  Gate!Patched(ops)' = Gate!Patched(ops)
<1>1. \A op : Gate!Replacement(op)' = Gate!Replacement(op)
  BY OperationsStay
<1>. QED BY <1>1 DEF Gate!Patched

(* An application and a verdict keep the invariant.                        *)
LEMMA ApplicationStays ==
  ASSUME policy' = policy, proposal' = proposal, revised' = revised, ProposalIsApplied
  PROVE  ProposalIsApplied'
<1>1. IsProposal(proposal)'
  BY ProposalStays DEF ProposalIsApplied
<1>2. \A op : Gate!MayApply(op)' = Gate!MayApply(op)
  BY OperationsStay
<1>3. \A ops : Gate!Patched(ops)' = Gate!Patched(ops)
  BY PatchStays
<1>4. Gate!Applies(proposal)'
  BY <1>2, <1>3 DEF ProposalIsApplied, Gate!Applies
<1>. QED BY <1>1, <1>3, <1>4 DEF ProposalIsApplied

(* Every step of a gate keeps its invariant.                               *)
LEMMA GateGoesOn ==
  ASSUME GateInvariant, [Gate!Next]_(Gate!vars)
  PROVE  GateInvariant'
<1>1. CASE Gate!Propose
  <2>1. IsProposal(proposal)'
    <3>1. PICK n \in 1..MaxOps : \E ops \in [1..n -> Gate!Operations] :
            proposal' = [accepted |-> UNION {ops[i].findings : i \in 1..n}, ops |-> ops]
      BY <1>1 DEF Gate!Propose
    <3>2. Gate!Operations' = Gate!Operations
      BY <1>1 DEF Gate!Propose, Gate!Operations, Gate!AddOverrides, Gate!AddRules,
                  Gate!ReplaceRules, Gate!Chosen
    <3>. QED BY <3>1, <3>2 DEF IsProposal
  <2>. QED BY <1>1, <2>1 DEF GateInvariant, Gate!Propose
<1>2. CASE Gate!Apply
  <2>1. IsProposal(proposal)'
    BY <1>2, ProposalStays DEF Gate!Apply, GateInvariant
  <2>2. policy' = policy /\ proposal' = proposal /\ Gate!Applies(proposal)
        /\ revised' = Gate!Patched(proposal.ops)
    BY <1>2 DEF Gate!Apply
  <2>3. \A op : Gate!MayApply(op)' = Gate!MayApply(op)
    BY <2>2, OperationsStay
  <2>4. \A ops : Gate!Patched(ops)' = Gate!Patched(ops)
    BY <2>2, PatchStays
  <2>5. Gate!Applies(proposal)'
    BY <2>2, <2>3, <2>4 DEF Gate!Applies
  <2>6. ProposalIsApplied'
    BY <2>1, <2>2, <2>4, <2>5 DEF ProposalIsApplied
  <2>. QED BY <1>2, <2>6 DEF GateInvariant, Gate!Apply
<1>3. CASE Gate!Reject
  BY <1>3 DEF GateInvariant, Gate!Reject
<1>4. CASE Gate!Compare
  <2>1. ProposalIsApplied'
    BY <1>4, ApplicationStays DEF GateInvariant, Gate!Compare
  <2>2. phase' = "accepted" => Gate!Passes'
    BY <1>4 DEF Gate!Compare, Gate!Passes, Gate!Fixed, Gate!NothingWorseOutside, Gate!NewBad,
                Gate!WorseAssertions, Gate!WorseCompliance, Gate!Worse, Gate!Unrelated,
                Gate!TargetPairs, Gate!TargetAssertion
  <2>. QED BY <1>4, <2>1, <2>2 DEF GateInvariant, Gate!Compare
<1>5. CASE UNCHANGED Gate!vars
  <2>1. phase \in {"applied", "accepted", "refused"} => ProposalIsApplied'
    BY <1>5, ApplicationStays DEF GateInvariant, Gate!vars
  <2>2. phase = "proposed" => IsProposal(proposal)'
    BY <1>5, ProposalStays DEF GateInvariant, Gate!vars
  <2>3. phase = "accepted" => Gate!Passes'
    BY <1>5 DEF GateInvariant, Gate!vars, Gate!Passes, Gate!Fixed, Gate!NothingWorseOutside,
                Gate!NewBad, Gate!WorseAssertions, Gate!WorseCompliance, Gate!Worse,
                Gate!Unrelated, Gate!TargetPairs, Gate!TargetAssertion
  <2>. QED BY <1>5, <2>1, <2>2, <2>3 DEF GateInvariant, Gate!vars
<1>. QED BY <1>1, <1>2, <1>3, <1>4, <1>5 DEF Gate!Next

(* The policies a gate decides by: the baseline and the revised one. *)
LEMMA GateEvaluates ==
  ASSUME GateInvariant
  PROVE  Gate!EveryGapIsReported /\ Gate!PrecedenceDecides
<1>1. \A p \in Gate!Fresh : IsFiniteSet(DOMAIN p) /\ Gate!Acyclic(p)
  <2>1. CASE phase = "review"
    BY <2>1 DEF GateInvariant, Gate!Fresh, IsPolicy, Gate!ValidPolicy
  <2>2. CASE phase = "applied"
    <3>1. /\ IsPolicy(policy) /\ ProposalIsApplied
      BY <2>2 DEF GateInvariant
    <3>2. Gate!ValidPolicy(revised)
      BY <3>1 DEF ProposalIsApplied, Gate!Applies
    <3>3. IsFiniteSet(DOMAIN revised)
      BY <3>1, PatchedRules DEF ProposalIsApplied
    <3>. QED BY <2>2, <3>2, <3>3 DEF Gate!Fresh, Gate!ValidPolicy
  <2>. QED BY <2>1, <2>2 DEF Gate!Fresh
<1>2. Gate!PrecedenceDecides
  BY <1>1, GateDecides DEF Gate!PrecedenceDecides
<1>3. Gate!EveryGapIsReported
  BY GapsAreFindings DEF Gate!EveryGapIsReported
<1>. QED BY <1>2, <1>3

(* Findings are pairs of a scenario and a dimension, finitely many.        *)
LEMMA PairsAreFinite ==
  ASSUME NEW A, NEW B, IsFiniteSet(A), IsFiniteSet(B)
  PROVE  IsFiniteSet({<<a, b>> : a \in A, b \in B})
<1>1. IsFiniteSet(A \X B)
  BY Zenon, FS_Product
<1>2. {<<a, b>> : a \in A, b \in B} \subseteq A \X B
  OBVIOUS
<1>. QED BY ONLY <1>1, <1>2, FS_Subset

(* What the applier lets through stays within its findings, and what is    *)
(* accepted is better in these and worse in none.                          *)
LEMMA GateIsSafe ==
  ASSUME GateInvariant
  PROVE  /\ Gate!OtherDimensionsAreUntouched /\ Gate!ApplierAndGateAgree
         /\ Gate!AcceptedIsNoWorse /\ Gate!AcceptedAnswersItsTargets
<1>1. Gate!OtherDimensionsAreUntouched
  BY RevisionStaysInside DEF GateInvariant, ProposalIsApplied, Gate!OtherDimensionsAreUntouched
<1>2. Gate!ApplierAndGateAgree
  <2>. SUFFICES ASSUME phase = "applied", NEW r \in Gate!Unrelated,
                       \A o \in policy[r].overrides : o[2] \notin Gate!Changed(proposal.ops)
                PROVE  FALSE
    BY DEF Gate!ApplierAndGateAgree
  <2>1. /\ Gate!ValidPolicy(policy)
        /\ DOMAIN revised = DOMAIN policy \cup Gate!Changed(proposal.ops)
        /\ \A q \in DOMAIN policy \ Gate!Changed(proposal.ops) : revised[q] = policy[q]
    BY PatchedRules DEF GateInvariant, ProposalIsApplied
  <2>2. r \in DOMAIN policy \ Gate!Changed(proposal.ops)
    BY <2>1 DEF Gate!Unrelated
  <2>3. Gate!Signature(revised, r) = Gate!Signature(policy, r)
    BY <2>1, <2>2, RestKeepsItsSignature
  <2>. QED BY <2>1, <2>2, <2>3 DEF Gate!Unrelated
<1>3. Gate!AcceptedIsNoWorse
  <2>. SUFFICES ASSUME phase = "accepted" PROVE Gate!AcceptedIsNoWorse
    BY DEF Gate!AcceptedIsNoWorse
  <2>1. Gate!Passes
    BY DEF GateInvariant
  <2>2. ASSUME NEW b \in Gate!Bad
        PROVE  Gate!Cardinality({p \in Gate!Pairs : Gate!Resolve(revised, p[1], p[2]).status = b})
                 <= Gate!Cardinality({p \in Gate!Pairs :
                                      Gate!Resolve(policy, p[1], p[2]).status = b})
    <3>. DEFINE New == {p \in Gate!Pairs : Gate!Resolve(revised, p[1], p[2]).status = b}
                Old == {p \in Gate!Pairs : Gate!Resolve(policy, p[1], p[2]).status = b}
    <3>1. IsFiniteSet(Gate!Pairs)
      <4>1. IsFiniteSet(Gate!Dimensions)
        <5>1. IsFiniteSet({"eligibility"}) /\ Gate!Dimensions = {"eligibility"} \cup {"receipt_requirement"}
          BY FS_Singleton DEF Gate!Dimensions
        <5>. QED BY <5>1, FS_AddElement DEF Gate!Dimensions
      <4>2. IsFiniteSet(DOMAIN Suite)
        BY PoliciesAssumption
      <4>3. IsFiniteSet({<<s, d>> : s \in DOMAIN Suite, d \in Gate!Dimensions})
        BY <4>1, <4>2, PairsAreFinite
      <4>4. Gate!Pairs = {<<s, d>> : s \in DOMAIN Suite, d \in Gate!Dimensions}
        BY DEF Gate!Pairs
      <4>. QED BY ONLY <4>3, <4>4
    <3>2. New \subseteq Old
      BY <2>1 DEF Gate!Passes, Gate!NewBad
    <3>3. IsFiniteSet(Old)
      BY <3>1, FS_Subset
    <3>. HIDE DEF New, Old
    <3>4. Cardinality(New) <= Cardinality(Old)
      BY <3>2, <3>3, FS_Subset
    <3>. QED BY <3>4, GateCounts DEF New, Old
  <2>3. ASSUME NEW s \in DOMAIN Suite, NEW a \in Gate!Assertions(s),
               Suite[s].protected \/ Suite[s].holdout, Gate!Outcome(policy, s, a) = "PASS"
        PROVE  Gate!Outcome(revised, s, a) = "PASS"
    <3>. SUFFICES ASSUME Gate!Outcome(revised, s, a) # "PASS" PROVE FALSE
      OBVIOUS
    <3>1. <<s, a>> \in UNION {{t} \X Gate!Assertions(t) : t \in DOMAIN Suite}
      BY <2>3
    <3>2. <<s, a>> \in Gate!WorseAssertions
      BY <2>3, <3>1 DEF Gate!WorseAssertions
    <3>3. s \in Gate!Worse
      BY <3>2 DEF Gate!Worse
    <3>. QED BY <2>1, <2>3, <3>3 DEF Gate!Passes
  <2>. QED BY <2>2, <2>3 DEF Gate!AcceptedIsNoWorse
<1>4. Gate!AcceptedAnswersItsTargets
  BY FixedAnswers DEF GateInvariant, Gate!Passes, Gate!AcceptedAnswersItsTargets
<1>. QED BY <1>1, <1>2, <1>3, <1>4

-----------------------------------------------------------------------------
(* Sums over finite sets, and the claims of the Metric.                    *)

Some(s) == CHOOSE x \in s : TRUE
IsSum(g, w, S) ==
  g = [s \in SUBSET S |-> IF s = {} THEN 0 ELSE w[Some(s)] + g[s \ {Some(s)}]]
SumOf(w, S) == (CHOOSE g : IsSum(g, w, S))[S]

(* A chosen member is a member.                                            *)
LEMMA SomeIsOne ==
  ASSUME NEW s, s # {} PROVE Some(s) \in s
BY DEF Some

(* A set none of whose subsets is the smallest in a family has no member   *)
(* of the family below it.                                                 *)
LEMMA SmallestOf ==
  ASSUME NEW S, IsFiniteSet(S), NEW F \in SUBSET SUBSET S, F # {}
  PROVE  \E T \in F : IsFiniteSet(T) /\ \A U \in SUBSET T : U # T => U \notin F
<1>1. F \in SUBSET FiniteSubsetsOf(S)
  BY FS_Subset DEF FiniteSubsetsOf
<1>2. PICK T \in F : \A U \in F : U \subseteq T => U = T
  BY <1>1, SmallestSet
<1>. QED BY <1>2, FS_Subset

(* The recursive function that adds up the weights of a finite set and its *)
(* subsets has one value for each.                                         *)
LEMMA SumIsOne ==
  ASSUME NEW w, NEW S, NEW g, IsSum(g, w, S), NEW T, NEW h, IsSum(h, w, T),
         NEW u \in SUBSET (S \cap T), IsFiniteSet(u)
  PROVE  g[u] = h[u]
<1>. SUFFICES ASSUME g[u] # h[u] PROVE FALSE
  OBVIOUS
<1>. DEFINE F == {s \in SUBSET u : g[s] # h[s]}
<1>1. PICK s \in F : \A U \in SUBSET s : U # s => U \notin F
  <2>1. F # {} /\ F \in SUBSET SUBSET u
    OBVIOUS
  <2>. HIDE DEF F
  <2>. QED BY <2>1, SmallestOf
<1>2. s \in SUBSET S /\ s \in SUBSET T /\ g[s] # h[s]
  OBVIOUS
<1>3. CASE s = {}
  BY <1>2, <1>3 DEF IsSum
<1>4. CASE s # {}
  <2>. DEFINE t == s \ {Some(s)}
  <2>1. Some(s) \in s
    BY <1>4, SomeIsOne
  <2>2. t \in SUBSET s /\ t # s
    BY <2>1
  <2>3. g[t] = h[t]
    BY <1>1, <2>2
  <2>4. g[s] = w[Some(s)] + g[t] /\ h[s] = w[Some(s)] + h[t]
    BY <1>2, <1>4 DEF IsSum
  <2>. QED BY <1>2, <2>3, <2>4
<1>. QED BY <1>3, <1>4

(* There is such a function for every finite set.                          *)
LEMMA SumExists ==
  ASSUME NEW w, NEW S, IsFiniteSet(S)
  PROVE  \E g : IsSum(g, w, S)
<1>. SUFFICES ASSUME ~\E g : IsSum(g, w, S) PROVE FALSE
  OBVIOUS
<1>. DEFINE F == {T \in SUBSET S : ~\E g : IsSum(g, w, T)}
<1>1. PICK T \in F : IsFiniteSet(T) /\ \A U \in SUBSET T : U # T => U \notin F
  <2>1. F # {} /\ F \in SUBSET SUBSET S
    OBVIOUS
  <2>. HIDE DEF F
  <2>. QED BY <2>1, SmallestOf
<1>. DEFINE G(u) == CHOOSE g : IsSum(g, w, u)
<1>2. \A U \in SUBSET T : U # T => IsSum(G(U), w, U) /\ IsFiniteSet(U)
  <2>. TAKE U \in SUBSET T
  <2>1. U # T => \E g : IsSum(g, w, U)
    BY <1>1
  <2>2. IsFiniteSet(U)
    BY <1>1, FS_Subset
  <2>. QED BY <2>1, <2>2
<1>. HIDE DEF G
<1>. DEFINE h == [u \in SUBSET T |->
                    IF u = {} THEN 0 ELSE w[Some(u)] + G(u \ {Some(u)})[u \ {Some(u)}]]
<1>3. ASSUME NEW v \in SUBSET T, v # T PROVE h[v] = G(v)[v]
  <2>1. IsSum(G(v), w, v)
    BY <1>2, <1>3
  <2>2. CASE v = {}
    BY <2>1, <2>2 DEF IsSum
  <2>3. CASE v # {}
    <3>. DEFINE t == v \ {Some(v)}
    <3>1. Some(v) \in v
      BY <2>3, SomeIsOne
    <3>2. t \in SUBSET T /\ t # T /\ t \in SUBSET v
      BY <3>1
    <3>3. IsSum(G(t), w, t) /\ IsFiniteSet(t)
      BY <1>2, <3>2
    <3>4. G(v)[v] = w[Some(v)] + G(v)[t]
      BY <2>1, <2>3 DEF IsSum
    <3>5. h[v] = w[Some(v)] + G(t)[t]
      BY <2>3
    <3>6. t \in SUBSET (v \cap t)
      BY <3>2
    <3>. HIDE DEF t, h
    <3>7. G(v)[t] = G(t)[t]
      BY <2>1, <3>3, <3>6, SumIsOne
    <3>. QED BY <3>4, <3>5, <3>7
  <2>. QED BY <2>2, <2>3
<1>4. IsSum(h, w, T)
  <2>1. \A u \in SUBSET T : u # {} => h[u \ {Some(u)}] = G(u \ {Some(u)})[u \ {Some(u)}]
    <3>. TAKE u \in SUBSET T
    <3>. HAVE u # {}
    <3>1. u \ {Some(u)} \in SUBSET T /\ u \ {Some(u)} # T
      BY SomeIsOne
    <3>. HIDE DEF h
    <3>. QED BY <1>3, <3>1
  <2>2. \A u \in SUBSET T :
          h[u] = IF u = {} THEN 0 ELSE w[Some(u)] + h[u \ {Some(u)}]
    BY <2>1
  <2>3. h = [u \in SUBSET T |-> h[u]]
    OBVIOUS
  <2>. HIDE DEF h
  <2>4. h = [u \in SUBSET T |-> IF u = {} THEN 0 ELSE w[Some(u)] + h[u \ {Some(u)}]]
    BY <2>2, <2>3
  <2>. QED BY <2>4 DEF IsSum
<1>. QED BY <1>1, <1>4

(* The sum of a finite set is the value of any such function.              *)
LEMMA SumIs ==
  ASSUME NEW w, NEW S, IsFiniteSet(S), NEW g, IsSum(g, w, S)
  PROVE  g[S] = SumOf(w, S)
<1>1. IsSum(CHOOSE h : IsSum(h, w, S), w, S)
  BY SumExists
<1>2. S \in SUBSET (S \cap S)
  OBVIOUS
<1>. QED BY <1>1, <1>2, SumIsOne DEF SumOf

(* The sum of no members is 0, and that of others the weight of one and    *)
(* the sum of the rest.                                                    *)
LEMMA SumSteps ==
  ASSUME NEW w, NEW S, IsFiniteSet(S)
  PROVE  /\ S = {} => SumOf(w, S) = 0
         /\ S # {} => SumOf(w, S) = w[Some(S)] + SumOf(w, S \ {Some(S)})
<1>1. PICK g : IsSum(g, w, S)
  BY SumExists
<1>2. g[S] = SumOf(w, S)
  BY <1>1, SumIs
<1>3. S = {} => g[S] = 0
  BY <1>1 DEF IsSum
<1>4. ASSUME S # {} PROVE g[S] = w[Some(S)] + SumOf(w, S \ {Some(S)})
  <2>. DEFINE t == S \ {Some(S)}
  <2>1. g[S] = w[Some(S)] + g[t] /\ t \in SUBSET S /\ IsFiniteSet(t)
    BY <1>1, <1>4, FS_Subset DEF IsSum
  <2>2. PICK h : IsSum(h, w, t)
    BY <2>1, SumExists
  <2>. HIDE DEF t
  <2>3. g[t] = h[t]
    BY <1>1, <2>1, <2>2, SumIsOne
  <2>4. g[t] = SumOf(w, t)
    BY <2>1, <2>2, <2>3, SumIs
  <2>. QED BY <2>1, <2>4 DEF t
<1>. QED BY <1>2, <1>3, <1>4

(* A sum of integers is an integer.                                        *)
LEMMA SumIsInt ==
  ASSUME NEW S, IsFiniteSet(S), NEW w, \A x \in S : w[x] \in Int
  PROVE  SumOf(w, S) \in Int
<1>. SUFFICES ASSUME SumOf(w, S) \notin Int PROVE FALSE
  OBVIOUS
<1>. DEFINE F == {T \in SUBSET S : SumOf(w, T) \notin Int}
<1>1. PICK T \in F : IsFiniteSet(T) /\ \A U \in SUBSET T : U # T => U \notin F
  <2>1. F # {} /\ F \in SUBSET SUBSET S
    OBVIOUS
  <2>. HIDE DEF F
  <2>. QED BY <2>1, SmallestOf
<1>2. T # {}
  <2>1. T = {} => SumOf(w, T) = 0
    BY <1>1, SumSteps
  <2>. QED BY <1>1, <2>1
<1>. DEFINE t == T \ {Some(T)}
<1>3. Some(T) \in T /\ t \in SUBSET T /\ t # T
  BY <1>2, SomeIsOne
<1>4. SumOf(w, T) = w[Some(T)] + SumOf(w, t)
  BY <1>1, <1>2, SumSteps
<1>5. SumOf(w, t) \in Int /\ w[Some(T)] \in Int
  BY <1>1, <1>3
<1>. HIDE DEF t
<1>. QED BY <1>1, <1>4, <1>5

(* Any member may be the one that is taken away first.                     *)
LEMMA SumWithout ==
  ASSUME NEW S, IsFiniteSet(S), NEW w, \A x \in S : w[x] \in Int, NEW x \in S
  PROVE  SumOf(w, S) = SumOf(w, S \ {x}) + w[x]
<1>. SUFFICES ASSUME SumOf(w, S) # SumOf(w, S \ {x}) + w[x] PROVE FALSE
  OBVIOUS
<1>. DEFINE F == {T \in SUBSET S : \E y \in T : SumOf(w, T) # SumOf(w, T \ {y}) + w[y]}
<1>1. PICK T \in F : IsFiniteSet(T) /\ \A U \in SUBSET T : U # T => U \notin F
  <2>1. F # {} /\ F \in SUBSET SUBSET S
    OBVIOUS
  <2>. HIDE DEF F
  <2>. QED BY <2>1, SmallestOf
<1>2. PICK y \in T : SumOf(w, T) # SumOf(w, T \ {y}) + w[y]
  BY <1>1
<1>. DEFINE c == Some(T)
<1>3. c \in T /\ SumOf(w, T) = w[c] + SumOf(w, T \ {c})
  BY <1>1, <1>2, SumSteps, SomeIsOne
<1>4. \A U \in SUBSET T : SumOf(w, U) \in Int
  <2>. TAKE U \in SUBSET T
  <2>1. IsFiniteSet(U) /\ \A z \in U : w[z] \in Int
    BY <1>1, FS_Subset
  <2>. QED BY <2>1, SumIsInt
<1>5. w[c] \in Int /\ w[y] \in Int
  BY <1>3
<1>. HIDE DEF c
<1>6. CASE y = c
  BY <1>2, <1>3, <1>4, <1>5, <1>6
<1>7. CASE y # c
  <2>1. SumOf(w, T \ {c}) = SumOf(w, (T \ {c}) \ {y}) + w[y]
    <3>1. T \ {c} \in SUBSET T /\ T \ {c} # T /\ y \in T \ {c}
      BY <1>3, <1>7
    <3>. QED BY <1>1, <3>1
  <2>2. SumOf(w, T \ {y}) = SumOf(w, (T \ {y}) \ {c}) + w[c]
    <3>1. T \ {y} \in SUBSET T /\ T \ {y} # T /\ c \in T \ {y}
      BY <1>3, <1>7
    <3>. QED BY <1>1, <3>1
  <2>3. (T \ {c}) \ {y} = (T \ {y}) \ {c}
    OBVIOUS
  <2>. DEFINE a == SumOf(w, (T \ {y}) \ {c})
  <2>4. a \in Int
    BY <1>4
  <2>5. SumOf(w, T \ {c}) = a + w[y] /\ SumOf(w, T \ {y}) = a + w[c]
    BY <2>1, <2>2, <2>3
  <2>. HIDE DEF a
  <2>6. SumOf(w, T) = w[c] + (a + w[y])
    BY <1>3, <2>5
  <2>7. SumOf(w, T) = (a + w[c]) + w[y]
    BY <1>5, <2>4, <2>6
  <2>. QED BY <1>2, <2>5, <2>7
<1>. QED BY <1>6, <1>7

(* A sum of natural numbers is a natural number, and no less than a part   *)
(* of it.                                                                  *)
LEMMA SumIsNat ==
  ASSUME NEW S, IsFiniteSet(S), NEW w, \A x \in S : w[x] \in Nat
  PROVE  SumOf(w, S) \in Nat
<1>. SUFFICES ASSUME SumOf(w, S) \notin Nat PROVE FALSE
  OBVIOUS
<1>. DEFINE F == {T \in SUBSET S : SumOf(w, T) \notin Nat}
<1>1. PICK T \in F : IsFiniteSet(T) /\ \A U \in SUBSET T : U # T => U \notin F
  <2>1. F # {} /\ F \in SUBSET SUBSET S
    OBVIOUS
  <2>. HIDE DEF F
  <2>. QED BY <2>1, SmallestOf
<1>2. T # {}
  <2>1. T = {} => SumOf(w, T) = 0
    BY <1>1, SumSteps
  <2>. QED BY <1>1, <2>1
<1>. DEFINE t == T \ {Some(T)}
<1>3. Some(T) \in T /\ t \in SUBSET T /\ t # T
  BY <1>2, SomeIsOne
<1>4. SumOf(w, T) = w[Some(T)] + SumOf(w, t)
  BY <1>1, <1>2, SumSteps
<1>5. SumOf(w, t) \in Nat /\ w[Some(T)] \in Nat
  BY <1>1, <1>3
<1>. HIDE DEF t
<1>. QED BY <1>1, <1>4, <1>5

(* Two sums of the same weights are the same.                              *)
LEMMA SumOfSame ==
  ASSUME NEW S, IsFiniteSet(S), NEW w, NEW v, \A x \in S : w[x] = v[x]
  PROVE  SumOf(w, S) = SumOf(v, S)
<1>. SUFFICES ASSUME SumOf(w, S) # SumOf(v, S) PROVE FALSE
  OBVIOUS
<1>. DEFINE F == {T \in SUBSET S : SumOf(w, T) # SumOf(v, T)}
<1>1. PICK T \in F : IsFiniteSet(T) /\ \A U \in SUBSET T : U # T => U \notin F
  <2>1. F # {} /\ F \in SUBSET SUBSET S
    OBVIOUS
  <2>. HIDE DEF F
  <2>. QED BY <2>1, SmallestOf
<1>2. T # {}
  <2>1. T = {} => SumOf(w, T) = 0 /\ SumOf(v, T) = 0
    BY <1>1, SumSteps
  <2>. QED BY <1>1, <2>1
<1>. DEFINE t == T \ {Some(T)}
<1>3. Some(T) \in T /\ t \in SUBSET T /\ t # T
  BY <1>2, SomeIsOne
<1>4. SumOf(w, T) = w[Some(T)] + SumOf(w, t) /\ SumOf(v, T) = v[Some(T)] + SumOf(v, t)
  BY <1>1, <1>2, SumSteps
<1>5. SumOf(w, t) = SumOf(v, t) /\ w[Some(T)] = v[Some(T)]
  BY <1>1, <1>3
<1>. HIDE DEF t
<1>. QED BY <1>1, <1>4, <1>5

(* The maximum of finitely many integers is one of them and no less than   *)
(* any.                                                                    *)
LEMMA MaxIsOne ==
  ASSUME NEW S \in SUBSET Int, IsFiniteSet(S), S # {}
  PROVE  Claims!Max(S) \in S /\ \A x \in S : x <= Claims!Max(S)
<1>1. \E m \in S : \A y \in S : m >= y
  <2>. SUFFICES ASSUME ~\E m \in S : \A y \in S : m >= y PROVE FALSE
    OBVIOUS
  <2>. DEFINE F == {T \in SUBSET S : T # {} /\ ~\E m \in T : \A y \in T : m >= y}
  <2>1. PICK T \in F : \A U \in SUBSET T : U # T => U \notin F
    <3>1. F # {} /\ F \in SUBSET SUBSET S
      OBVIOUS
    <3>. HIDE DEF F
    <3>. QED BY <3>1, SmallestOf
  <2>2. PICK x \in T : TRUE
    OBVIOUS
  <2>3. T \subseteq Int
    OBVIOUS
  <2>4. T \ {x} # {}
    <3>. SUFFICES ASSUME T = {x} PROVE FALSE
      BY <2>2
    <3>1. \A y \in T : x >= y
      BY <2>3
    <3>. QED BY <2>1, <3>1
  <2>5. T \ {x} \in SUBSET T /\ T \ {x} # T
    OBVIOUS
  <2>6. PICK m \in T \ {x} : \A y \in T \ {x} : m >= y
    BY <2>1, <2>4, <2>5
  <2>7. CASE m >= x
    <3>1. \A y \in T : m >= y
      BY <2>6, <2>7
    <3>. QED BY <2>1, <2>6, <3>1
  <2>8. CASE ~(m >= x)
    <3>1. \A y \in T : x >= y
      BY <2>3, <2>6, <2>8
    <3>. QED BY <2>1, <3>1
  <2>. QED BY <2>7, <2>8
<1>2. Claims!Max(S) \in S /\ \A y \in S : Claims!Max(S) >= y
  BY Zenon, <1>1 DEF Claims!Max
<1>. QED BY <1>2

(* The total of a participant and a status is a sum over the claims that   *)
(* have both.                                                              *)
LEMMA TotalIsASum ==
  ASSUME NEW claims, NEW p, NEW st
  PROVE  LET S == {i \in ClaimIds : /\ claims[i] # NoClaim
                                    /\ claims[i].participant = p /\ claims[i].status = st}
         IN  /\ IsFiniteSet(S)
             /\ Claims!Total(claims, p, st) = SumOf([i \in ClaimIds |-> claims[i].amount], S)
<1>. DEFINE S == {i \in ClaimIds : /\ claims[i] # NoClaim
                                   /\ claims[i].participant = p /\ claims[i].status = st}
            w == [i \in ClaimIds |-> claims[i].amount]
<1>1. IsFiniteSet(S)
  BY ClaimsAssumption, FS_Subset
<1>. DEFINE B(i) == [s \in SUBSET S |->
                       IF s = {} THEN 0
                       ELSE LET x == CHOOSE x \in s : TRUE IN claims[x].amount + i[s \ {x}]]
            g == CHOOSE i : i = B(i)
<1>2. Claims!Total(claims, p, st) = g[S]
  BY DEF Claims!Total, Claims!MapThenSumSet, Claims!MapThenFoldSet
<1>3. \A i : IsSum(i, w, S) <=> i = B(i)
  <2>1. \A s \in SUBSET S : s # {} => w[Some(s)] = claims[Some(s)].amount
    BY SomeIsOne
  <2>. HIDE DEF w
  <2>2. \A i : [s \in SUBSET S |-> IF s = {} THEN 0 ELSE w[Some(s)] + i[s \ {Some(s)}]]
             = [s \in SUBSET S |->
                  IF s = {} THEN 0 ELSE claims[Some(s)].amount + i[s \ {Some(s)}]]
    BY <2>1
  <2>. QED BY <2>2 DEF IsSum, Some
<1>4. IsSum(g, w, S)
  <2>1. \E i : IsSum(i, w, S)
    BY <1>1, SumExists
  <2>. HIDE DEF w, S, B
  <2>2. \E i : i = B(i)
    BY <1>3, <2>1
  <2>3. g = B(g)
    BY Zenon, <2>2
  <2>. QED BY <1>3, <2>3
<1>5. g[S] = SumOf(w, S)
  <2>. HIDE DEF g, w, S
  <2>. QED BY <1>1, <1>4, SumIs
<1>. QED BY <1>1, <1>2, <1>5

ClaimStates == [ClaimIds -> Claims!Claim \cup {NoClaim}]

(* What a claim adds to the total of a participant and a status.           *)
Share(claims, i, p, st) ==
  IF claims[i] # NoClaim /\ claims[i].participant = p /\ claims[i].status = st
  THEN claims[i].amount ELSE 0

(* When one claim changes, a total changes by what the claim adds to it.   *)
LEMMA TotalMoves ==
  ASSUME NEW claims \in ClaimStates, NEW after \in ClaimStates, NEW i \in ClaimIds,
         \A j \in ClaimIds \ {i} : after[j] = claims[j], NEW p, NEW st
  PROVE  /\ Claims!Total(claims, p, st) \in Int
         /\ Claims!Total(after, p, st)
              = Claims!Total(claims, p, st) - Share(claims, i, p, st) + Share(after, i, p, st)
         /\ Share(claims, i, p, st) \in Int /\ Share(after, i, p, st) \in Int
<1>. DEFINE S(c) == {j \in ClaimIds : /\ c[j] # NoClaim
                                      /\ c[j].participant = p /\ c[j].status = st}
            w(c) == [j \in ClaimIds |-> c[j].amount]
<1>1. \A c \in ClaimStates : /\ IsFiniteSet(S(c)) /\ Claims!Total(c, p, st) = SumOf(w(c), S(c))
                             /\ \A j \in S(c) : w(c)[j] \in Int
  <2>. TAKE c \in ClaimStates
  <2>1. IsFiniteSet(S(c)) /\ Claims!Total(c, p, st) = SumOf(w(c), S(c))
    BY TotalIsASum
  <2>2. \A j \in S(c) : w(c)[j] \in Int
    BY ClaimsAssumption DEF ClaimStates, Claims!Claim
  <2>. QED BY <2>1, <2>2
<1>2. \A c \in ClaimStates :
        /\ IsFiniteSet(S(c) \ {i}) /\ SumOf(w(c), S(c) \ {i}) \in Int
        /\ Share(c, i, p, st) \in Int
        /\ SumOf(w(c), S(c)) = SumOf(w(c), S(c) \ {i}) + Share(c, i, p, st)
  <2>. TAKE c \in ClaimStates
  <2>1. i \in S(c) => Share(c, i, p, st) = w(c)[i]
    BY DEF Share
  <2>2. i \notin S(c) => Share(c, i, p, st) = 0 /\ S(c) \ {i} = S(c)
    BY DEF Share
  <2>3. IsFiniteSet(S(c)) /\ \A j \in S(c) : w(c)[j] \in Int
    BY <1>1
  <2>. HIDE DEF S, w
  <2>4. IsFiniteSet(S(c) \ {i}) /\ SumOf(w(c), S(c) \ {i}) \in Int
    <3>1. IsFiniteSet(S(c) \ {i}) /\ \A j \in S(c) \ {i} : w(c)[j] \in Int
      BY <2>3, FS_Subset
    <3>. QED BY <3>1, SumIsInt
  <2>5. CASE i \in S(c)
    BY <2>1, <2>3, <2>4, <2>5, SumWithout
  <2>6. CASE i \notin S(c)
    <3>1. SumOf(w(c), S(c)) = SumOf(w(c), S(c) \ {i})
      BY <2>2, <2>6
    <3>. QED BY <2>2, <2>4, <2>6, <3>1
  <2>. QED BY <2>4, <2>5, <2>6
<1>3. S(after) \ {i} = S(claims) \ {i}
      /\ \A j \in S(after) \ {i} : w(after)[j] = w(claims)[j]
  OBVIOUS
<1>. HIDE DEF S, w
<1>4. SumOf(w(after), S(after) \ {i}) = SumOf(w(claims), S(claims) \ {i})
  BY <1>2, <1>3, SumOfSame
<1>. QED BY <1>1, <1>2, <1>4

(* A total of positive amounts is a natural number.                        *)
LEMMA TotalIsNat ==
  ASSUME NEW claims \in ClaimStates,
         \A i \in ClaimIds : claims[i] # NoClaim => claims[i].amount > 0, NEW p, NEW st
  PROVE  Claims!Total(claims, p, st) \in Nat
<1>. DEFINE S == {j \in ClaimIds : /\ claims[j] # NoClaim
                                   /\ claims[j].participant = p /\ claims[j].status = st}
            w == [j \in ClaimIds |-> claims[j].amount]
<1>1. IsFiniteSet(S) /\ Claims!Total(claims, p, st) = SumOf(w, S)
  BY TotalIsASum
<1>2. \A j \in S : w[j] \in Nat
  <2>. TAKE j \in S
  <2>1. w[j] = claims[j].amount /\ claims[j] # NoClaim /\ claims[j] \in Claims!Claim \cup {NoClaim}
    BY DEF ClaimStates
  <2>2. claims[j].amount \in Int /\ claims[j].amount > 0
    BY <2>1, ClaimsAssumption DEF Claims!Claim
  <2>. QED BY <2>1, <2>2
<1>. HIDE DEF S, w
<1>. QED BY <1>1, <1>2, SumIsNat

(* Either of the two ways to guard a budget.                              *)
Guarded(r) == r.recheck \/ r.accounting = "paid_and_approved"
Reserved(claims, p, r) ==
  IF r.accounting = "paid_and_approved" THEN Claims!Total(claims, p, "approved") ELSE 0

Alive(claims, i) == claims[i] # NoClaim /\ claims[i].status # "cancelled"
AmountsArePositive(claims) == \A i \in ClaimIds : claims[i] # NoClaim => claims[i].amount > 0
OneIsAlive(claims) ==
  \A i, j \in ClaimIds :
    /\ Alive(claims, i) /\ Alive(claims, j)
    /\ claims[i].participant = claims[j].participant /\ claims[i].journey = claims[j].journey
    => i = j
WithinBudget(claims, r) ==
  \A p \in Participants : Claims!Total(claims, p, "paid") + Reserved(claims, p, r) <= r.allowance

CaseIsSound(s, r) ==
  /\ r \in Claims!MetricRules
  /\ s.claims \in ClaimStates /\ AmountsArePositive(s.claims)
  /\ \A i \in s.cancelled :
       i \in ClaimIds /\ s.claims[i] # NoClaim /\ s.claims[i].status = "cancelled"
  /\ s.paidCancelled = FALSE /\ s.maxPaid \in Int
  /\ r.scope = "journey" => OneIsAlive(s.claims)
  /\ Guarded(r) => s.maxPaid <= r.allowance /\ WithinBudget(s.claims, r)

(* A sound run has the properties of the claims.                           *)
LEMMA ClaimsAreKept ==
  ASSUME CaseIsSound(case, rules)
  PROVE  Claims!ClaimsAreSound /\ Claims!BudgetIsKept
<1>1. Claims!TypeOK
  BY DEF CaseIsSound, ClaimStates, Claims!TypeOK
<1>2. Claims!JourneyIsPaidOnce
  <2>. SUFFICES ASSUME rules.scope = "journey", NEW i \in Claims!Paid(case),
                       NEW j \in Claims!Paid(case), i # j,
                       case.claims[i].participant = case.claims[j].participant,
                       case.claims[i].journey = case.claims[j].journey
                PROVE  FALSE
    BY DEF Claims!JourneyIsPaidOnce, Claims!Violated
  <2>1. /\ i \in ClaimIds /\ Alive(case.claims, i)
        /\ j \in ClaimIds /\ Alive(case.claims, j)
    BY DEF Claims!Paid, Alive
  <2>. QED BY <2>1 DEF CaseIsSound, OneIsAlive
<1>3. Claims!CancelledIsNeverPaid
  BY DEF CaseIsSound, Claims!CancelledIsNeverPaid, Claims!Violated
<1>4. Claims!BudgetIsKept
  <2>1. rules.allowance \in Nat /\ case.maxPaid \in Int
    BY ClaimsAssumption DEF CaseIsSound, Claims!MetricRules
  <2>2. Guarded(rules) => ~(case.maxPaid > rules.allowance)
    BY <2>1 DEF CaseIsSound
  <2>. QED BY <2>2 DEF Claims!BudgetIsKept, Claims!Violated, Guarded
<1>. QED BY <1>1, <1>2, <1>3, <1>4 DEF Claims!ClaimsAreSound

(* A run without claims is sound.                                          *)
LEMMA ClaimsBegin ==
  ASSUME Claims!Init
  PROVE  CaseIsSound(case, rules)
<1>. DEFINE c == [i \in ClaimIds |-> NoClaim]
<1>1. c \in ClaimStates /\ \A i \in ClaimIds : c[i] = NoClaim
  BY DEF ClaimStates
<1>2. \A p, st : Claims!Total(c, p, st) = 0
  <2>. TAKE p, st
  <2>. DEFINE S == {i \in ClaimIds : /\ c[i] # NoClaim
                                     /\ c[i].participant = p /\ c[i].status = st}
              w == [i \in ClaimIds |-> c[i].amount]
  <2>1. S = {}
    OBVIOUS
  <2>. HIDE DEF c
  <2>2. IsFiniteSet(S) /\ Claims!Total(c, p, st) = SumOf(w, S)
    BY TotalIsASum
  <2>. HIDE DEF S, w
  <2>. QED BY <2>1, <2>2, SumSteps
<1>3. rules \in Claims!MetricRules /\ rules.allowance \in Nat
  BY ClaimsAssumption DEF Claims!Init, Claims!MetricRules
<1>4. /\ case.claims = c /\ case.cancelled = {} /\ case.paidCancelled = FALSE /\ case.maxPaid = 0
  BY DEF Claims!Init, Claims!EmptyCase
<1>. HIDE DEF c
<1>5. AmountsArePositive(c) /\ OneIsAlive(c) /\ WithinBudget(c, rules)
  BY <1>1, <1>2, <1>3 DEF AmountsArePositive, OneIsAlive, Alive, WithinBudget, Reserved
<1>. QED BY <1>1, <1>3, <1>4, <1>5 DEF CaseIsSound

(* The most that was paid stays within the allowance when every total      *)
(* does.                                                                   *)
LEMMA MostPaid ==
  ASSUME NEW claims \in ClaimStates, AmountsArePositive(claims), NEW m \in Int,
         NEW r \in Claims!MetricRules, Guarded(r) => m <= r.allowance /\ WithinBudget(claims, r)
  PROVE  LET most == Claims!Max({m} \cup {Claims!Total(claims, p, "paid") : p \in Participants})
         IN most \in Int /\ (Guarded(r) => most <= r.allowance)
<1>. DEFINE T == {Claims!Total(claims, p, "paid") : p \in Participants}
            most == Claims!Max({m} \cup T)
<1>1. \A p, st : Claims!Total(claims, p, st) \in Nat
  BY TotalIsNat DEF AmountsArePositive
<1>2. IsFiniteSet(T)
  <2>. DEFINE f == [p \in Participants |-> Claims!Total(claims, p, "paid")]
  <2>1. f \in Surjection(Participants, T)
    BY DEF Surjection
  <2>. HIDE DEF f, T
  <2>. QED BY <2>1, ClaimsAssumption, FS_Surjection
<1>3. most \in {m} \cup T /\ T \subseteq Int
  <2>1. T \subseteq Int
    BY <1>1
  <2>. HIDE DEF T
  <2>2. IsFiniteSet({m} \cup T)
    BY <1>2, FS_AddElement
  <2>. QED BY <2>1, <2>2, MaxIsOne
<1>4. ASSUME Guarded(r), NEW p \in Participants
      PROVE  Claims!Total(claims, p, "paid") <= r.allowance
  <2>1. r.allowance \in Nat
    BY ClaimsAssumption DEF Claims!MetricRules
  <2>2. Claims!Total(claims, p, "paid") \in Nat /\ Reserved(claims, p, r) \in Nat
    BY <1>1 DEF Reserved
  <2>3. Claims!Total(claims, p, "paid") + Reserved(claims, p, r) <= r.allowance
    BY <1>4 DEF WithinBudget
  <2>. QED BY <2>1, <2>2, <2>3
<1>. HIDE DEF most
<1>. QED BY <1>3, <1>4 DEF most

(* One accepted action changes one claim.                                  *)
LEMMA ClaimAfter ==
  ASSUME NEW s, NEW r, CaseIsSound(s, r), NEW a \in Claims!Action,
         Claims!Accepts(s.claims, a, r)
  PROVE  LET c == s.claims
             after == Claims!After(c, a)
         IN /\ after \in ClaimStates /\ a.id \in ClaimIds /\ AmountsArePositive(after)
            /\ \A j \in ClaimIds \ {a.id} : after[j] = c[j]
            /\ after[a.id] # NoClaim
            /\ \/ /\ a.act = "submit" /\ c[a.id] = NoClaim /\ after[a.id].status = "submitted"
                  /\ r.scope = "journey" => ~Claims!SameJourney(c, a)
                  /\ after[a.id].participant = a.participant /\ after[a.id].journey = a.journey
               \/ /\ a.act # "submit" /\ c[a.id] # NoClaim
                  /\ after[a.id].participant = c[a.id].participant
                  /\ after[a.id].journey = c[a.id].journey
                  /\ after[a.id].amount = c[a.id].amount
                  /\ \/ /\ a.act = "approve" /\ Claims!MayApprove(c, c[a.id], r)
                        /\ after[a.id].status = "approved"
                     \/ /\ a.act = "pay" /\ Claims!MayPay(c, c[a.id], r)
                        /\ after[a.id].status = "paid"
                     \/ /\ a.act = "cancel" /\ c[a.id].status \in {"submitted", "approved"}
                        /\ after[a.id].status = "cancelled"
<1>. DEFINE c == s.claims
            after == Claims!After(c, a)
            i == a.id
<1>1. c \in ClaimStates /\ i \in ClaimIds /\ AmountsArePositive(c)
  BY DEF CaseIsSound, Claims!Action, Claims!SubmitAction, Claims!OtherAction
<1>2. CASE a.act = "submit"
  <2>1. a \in Claims!SubmitAction
    BY <1>2 DEF Claims!Action, Claims!OtherAction
  <2>. DEFINE n == [participant |-> a.participant, journey |-> a.journey,
                    amount |-> a.amount, status |-> "submitted"]
  <2>2. n \in Claims!Claim /\ n # NoClaim
    BY <2>1, ClaimsAssumption DEF Claims!SubmitAction, Claims!Claim
  <2>3. after = [c EXCEPT ![i] = n]
    BY <1>2 DEF Claims!After
  <2>4. Claims!MaySubmit(c, a, r)
    BY <1>2 DEF Claims!Accepts
  <2>5. n.participant = a.participant /\ n.journey = a.journey /\ n.amount = a.amount
        /\ n.status = "submitted"
    OBVIOUS
  <2>. HIDE DEF n, c, after, i
  <2>6. after \in ClaimStates /\ after[i] = n /\ \A j \in ClaimIds \ {i} : after[j] = c[j]
    BY <1>1, <2>2, <2>3 DEF ClaimStates
  <2>7. n.amount > 0 /\ c[i] = NoClaim /\ (r.scope = "journey" => ~Claims!SameJourney(c, a))
    <3>1. a.amount \in Int
      BY <2>1, ClaimsAssumption DEF Claims!SubmitAction
    <3>. QED BY <2>4, <2>5, <3>1 DEF Claims!MaySubmit, i
  <2>8. AmountsArePositive(after)
    BY <1>1, <2>6, <2>7 DEF AmountsArePositive
  <2>. QED BY <1>1, <1>2, <2>2, <2>5, <2>6, <2>7, <2>8 DEF c, after, i
<1>3. CASE a.act # "submit"
  <2>. DEFINE new == Claims!StatusAfter(a.act)
              n == [c[i] EXCEPT !.status = new]
  <2>1. c[i] # NoClaim /\ a.act \in {"approve", "pay", "cancel"}
    BY <1>3 DEF Claims!Accepts
  <2>2. c[i] \in Claims!Claim
    BY <1>1, <2>1 DEF ClaimStates
  <2>3. /\ a.act = "approve" => new = "approved"
        /\ a.act = "pay" => new = "paid"
        /\ a.act = "cancel" => new = "cancelled"
    BY DEF Claims!StatusAfter
  <2>4. after = [c EXCEPT ![i] = n]
    BY <1>3 DEF Claims!After
  <2>5. /\ n.participant = c[i].participant /\ n.journey = c[i].journey
        /\ n.amount = c[i].amount /\ n.status = new
        /\ n \in Claims!Claim
    <3>1. new \in {"approved", "paid", "cancelled"}
      BY <2>1, <2>3
    <3>. HIDE DEF new, c, i
    <3>. QED BY <2>2, <3>1 DEF Claims!Claim
  <2>6. n # NoClaim
    BY <2>5, ClaimsAssumption
  <2>. HIDE DEF n, c, after, i, new
  <2>7. after \in ClaimStates /\ after[i] = n /\ \A j \in ClaimIds \ {i} : after[j] = c[j]
    BY <1>1, <2>4, <2>5 DEF ClaimStates
  <2>8. AmountsArePositive(after)
    BY <1>1, <2>1, <2>5, <2>7 DEF AmountsArePositive
  <2>9. \/ a.act = "approve" /\ Claims!MayApprove(c, c[i], r)
        \/ a.act = "pay" /\ Claims!MayPay(c, c[i], r)
        \/ a.act = "cancel" /\ c[i].status \in {"submitted", "approved"}
    BY <1>3 DEF Claims!Accepts, c, i
  <2>. QED BY <1>1, <1>3, <2>1, <2>3, <2>5, <2>6, <2>7, <2>8, <2>9 DEF c, after, i
<1>. QED BY <1>2, <1>3

(* An accepted action leaves what is paid and approved within the budget,  *)
(* because approving reserves the amount and paying only moves it.         *)
LEMMA BudgetAfter ==
  ASSUME NEW s, NEW r, CaseIsSound(s, r), NEW a \in Claims!Action,
         Claims!Accepts(s.claims, a, r), Guarded(r)
  PROVE  WithinBudget(Claims!After(s.claims, a), r)
<1>. DEFINE c == s.claims
            after == Claims!After(c, a)
            i == a.id
<1>1. c \in ClaimStates /\ after \in ClaimStates /\ i \in ClaimIds
      /\ \A j \in ClaimIds \ {i} : after[j] = c[j]
  BY ClaimAfter DEF CaseIsSound
<1>. SUFFICES ASSUME NEW p \in Participants
              PROVE  Claims!Total(after, p, "paid") + Reserved(after, p, r) <= r.allowance
  BY DEF WithinBudget
<1>. DEFINE P(d) == Claims!Total(d, p, "paid")
            A(d) == Claims!Total(d, p, "approved")
<1>2. /\ P(c) \in Int /\ P(after) = P(c) - Share(c, i, p, "paid") + Share(after, i, p, "paid")
      /\ Share(c, i, p, "paid") \in Int /\ Share(after, i, p, "paid") \in Int
      /\ A(c) \in Int
      /\ A(after) = A(c) - Share(c, i, p, "approved") + Share(after, i, p, "approved")
      /\ Share(c, i, p, "approved") \in Int /\ Share(after, i, p, "approved") \in Int
  <2>. HIDE DEF c, after, i
  <2>. QED BY <1>1, TotalMoves
<1>3. P(c) + Reserved(c, p, r) <= r.allowance /\ r.allowance \in Nat
  BY ClaimsAssumption DEF CaseIsSound, WithinBudget, Claims!MetricRules
<1>4. c[i] # NoClaim => c[i].amount \in Int /\ c[i].amount > 0
  BY <1>1, ClaimsAssumption DEF CaseIsSound, AmountsArePositive, ClaimStates, Claims!Claim
<1>5. /\ r.recheck \/ r.accounting = "paid_and_approved"
      /\ \A d : Reserved(d, p, r) = IF r.accounting = "paid_and_approved" THEN A(d) ELSE 0
  BY DEF Guarded, Reserved
<1>6. CASE a.act = "submit"
  <2>1. c[i] = NoClaim /\ after[i].status = "submitted"
    BY <1>6, ClaimAfter
  <2>2. /\ Share(c, i, p, "paid") = 0 /\ Share(after, i, p, "paid") = 0
        /\ Share(c, i, p, "approved") = 0 /\ Share(after, i, p, "approved") = 0
    BY <2>1 DEF Share
  <2>. HIDE DEF P, A, c, after, i
  <2>. QED BY <1>2, <1>3, <1>5, <2>2 DEF P
<1>7. CASE a.act = "approve"
  <2>1. /\ c[i] # NoClaim /\ after[i] # NoClaim /\ after[i].status = "approved"
        /\ after[i].participant = c[i].participant /\ after[i].amount = c[i].amount
        /\ Claims!MayApprove(c, c[i], r)
    BY <1>7, ClaimAfter
  <2>2. c[i].status = "submitted"
    BY <2>1 DEF Claims!MayApprove
  <2>3. /\ Share(c, i, p, "paid") = 0 /\ Share(after, i, p, "paid") = 0
        /\ Share(c, i, p, "approved") = 0
        /\ Share(after, i, p, "approved") = IF c[i].participant = p THEN c[i].amount ELSE 0
    BY <2>1, <2>2 DEF Share
  <2>4. c[i].participant = p => P(c) + Reserved(c, p, r) + c[i].amount <= r.allowance
    BY <2>1 DEF Claims!MayApprove, Reserved
  <2>5. Reserved(c, p, r) \in Int
    BY <1>2, <1>5
  <2>. HIDE DEF P, A, c, after, i
  <2>6. P(after) + Reserved(after, p, r) <= r.allowance
    BY <1>2, <1>3, <1>4, <1>5, <2>1, <2>3, <2>4, <2>5
  <2>. QED BY <2>6 DEF P
<1>8. CASE a.act = "pay"
  <2>1. /\ c[i] # NoClaim /\ after[i] # NoClaim /\ after[i].status = "paid"
        /\ after[i].participant = c[i].participant /\ after[i].amount = c[i].amount
        /\ Claims!MayPay(c, c[i], r)
    BY <1>8, ClaimAfter
  <2>2. c[i].status = "approved"
    BY <2>1 DEF Claims!MayPay
  <2>. DEFINE m == IF c[i].participant = p THEN c[i].amount ELSE 0
  <2>3. /\ Share(c, i, p, "paid") = 0 /\ Share(after, i, p, "paid") = m
        /\ Share(c, i, p, "approved") = m /\ Share(after, i, p, "approved") = 0
    BY <2>1, <2>2 DEF Share
  <2>4. c[i].participant = p /\ r.recheck => P(c) + c[i].amount <= r.allowance
    BY <2>1 DEF Claims!MayPay
  <2>. HIDE DEF P, A, c, after, i
  <2>5. P(after) + Reserved(after, p, r) <= r.allowance
    <3>1. CASE r.accounting = "paid_and_approved"
      <4>1. P(after) = P(c) + m /\ A(after) = A(c) - m /\ m \in Int
        BY <1>2, <1>4, <2>1, <2>3
      <4>. QED BY <1>2, <1>3, <1>5, <3>1, <4>1
    <3>2. CASE r.accounting # "paid_and_approved"
      <4>1. P(after) = P(c) + m /\ r.recheck
        BY <1>2, <1>4, <1>5, <2>1, <2>3, <3>2
      <4>2. Reserved(after, p, r) = 0 /\ Reserved(c, p, r) = 0
        BY <1>5, <3>2
      <4>. QED BY <1>2, <1>3, <1>4, <2>1, <2>4, <4>1, <4>2
    <3>. QED BY <3>1, <3>2
  <2>. QED BY <2>5 DEF P
<1>9. CASE a.act = "cancel"
  <2>1. /\ c[i] # NoClaim /\ after[i] # NoClaim /\ after[i].status = "cancelled"
        /\ c[i].status \in {"submitted", "approved"}
    BY <1>9, ClaimAfter
  <2>2. /\ Share(c, i, p, "paid") = 0 /\ Share(after, i, p, "paid") = 0
        /\ Share(c, i, p, "approved") >= 0 /\ Share(after, i, p, "approved") = 0
    BY <1>4, <2>1 DEF Share
  <2>. HIDE DEF P, A, c, after, i
  <2>3. P(after) + Reserved(after, p, r) <= r.allowance
    BY <1>2, <1>3, <1>5, <2>2
  <2>. QED BY <2>3 DEF P
<1>. QED BY <1>6, <1>7, <1>8, <1>9, ClaimAfter

(* An accepted or a refused action leaves a sound run.                     *)
LEMMA StepIsSound ==
  ASSUME NEW s, NEW r, CaseIsSound(s, r), NEW a \in Claims!Action
  PROVE  CaseIsSound(Claims!Step(s, a, r), r)
<1>. DEFINE ok == Claims!Accepts(s.claims, a, r)
            c == s.claims
            after == IF ok THEN Claims!After(c, a) ELSE c
            t == Claims!Step(s, a, r)
<1>1. /\ t.claims = after
      /\ t.cancelled = IF ok /\ a.act = "cancel" THEN s.cancelled \cup {a.id} ELSE s.cancelled
      /\ t.paidCancelled = (s.paidCancelled \/ (ok /\ a.act = "pay" /\ a.id \in s.cancelled))
      /\ t.maxPaid = Claims!Max({s.maxPaid} \cup
                                {Claims!Total(after, p, "paid") : p \in Participants})
  BY DEF Claims!Step
<1>2. after \in ClaimStates /\ AmountsArePositive(after) /\ s.maxPaid \in Int
  BY ClaimAfter DEF CaseIsSound
<1>3. Guarded(r) => s.maxPaid <= r.allowance /\ WithinBudget(after, r)
  BY BudgetAfter DEF CaseIsSound
<1>4. t.maxPaid \in Int /\ (Guarded(r) => t.maxPaid <= r.allowance)
  <2>1. r \in Claims!MetricRules
    BY DEF CaseIsSound
  <2>. HIDE DEF after, t
  <2>. QED BY <1>1, <1>2, <1>3, <2>1, MostPaid
<1>5. \A i \in t.cancelled :
        i \in ClaimIds /\ after[i] # NoClaim /\ after[i].status = "cancelled"
  <2>1. \A i \in s.cancelled : i \in ClaimIds /\ c[i] # NoClaim /\ c[i].status = "cancelled"
    BY DEF CaseIsSound
  <2>2. ok => \A i \in s.cancelled : i # a.id
    <3>. SUFFICES ASSUME ok, a.id \in s.cancelled PROVE FALSE
      OBVIOUS
    <3>1. c[a.id] # NoClaim /\ c[a.id].status = "cancelled"
      BY <2>1
    <3>. QED BY <3>1, ClaimAfter DEF Claims!MayApprove, Claims!MayPay
  <2>3. ok => \A i \in s.cancelled : after[i] = c[i]
    BY <2>1, <2>2, ClaimAfter
  <2>4. ok /\ a.act = "cancel" => a.id \in ClaimIds /\ after[a.id] # NoClaim
                                  /\ after[a.id].status = "cancelled"
    BY ClaimAfter
  <2>. HIDE DEF t
  <2>. QED BY <1>1, <2>1, <2>3, <2>4
<1>6. t.paidCancelled = FALSE
  <2>1. ok /\ a.act = "pay" => c[a.id].status = "approved"
    BY ClaimAfter DEF Claims!MayPay
  <2>. HIDE DEF t, ok
  <2>. QED BY <1>1, <2>1 DEF CaseIsSound
<1>7. ASSUME r.scope = "journey" PROVE OneIsAlive(after)
  <2>1. OneIsAlive(c)
    BY <1>7 DEF CaseIsSound
  <2>2. CASE ~ok
    BY <2>1, <2>2
  <2>3. CASE ok /\ a.act # "submit"
    <3>1. \A j \in ClaimIds : /\ Alive(after, j) => Alive(c, j)
                              /\ c[j] # NoClaim =>
                                   /\ after[j].participant = c[j].participant
                                   /\ after[j].journey = c[j].journey
      BY <2>3, ClaimAfter DEF Alive, Claims!MayApprove, Claims!MayPay
    <3>. HIDE DEF after, c
    <3>. QED BY <2>1, <3>1 DEF OneIsAlive, Alive
  <2>4. CASE ok /\ a.act = "submit"
    <3>1. /\ after[a.id].participant = a.participant /\ after[a.id].journey = a.journey
          /\ \A j \in ClaimIds \ {a.id} : after[j] = c[j]
          /\ ~Claims!SameJourney(c, a)
      BY <1>7, <2>4, ClaimAfter
    <3>2. \A j \in ClaimIds \ {a.id} :
            Alive(after, j) =>
              ~(after[j].participant = a.participant /\ after[j].journey = a.journey)
      BY <3>1 DEF Claims!SameJourney, Alive
    <3>. HIDE DEF after, c
    <3>. QED BY <2>1, <3>1, <3>2 DEF OneIsAlive, Alive
  <2>. QED BY <2>2, <2>3, <2>4
<1>. HIDE DEF t, after
<1>. QED BY <1>1, <1>2, <1>3, <1>4, <1>5, <1>6, <1>7 DEF CaseIsSound, t

(* Every step of the claims leaves a sound run.                            *)
LEMMA ClaimsGoOn ==
  ASSUME CaseIsSound(case, rules), [Claims!Next]_(Claims!vars)
  PROVE  CaseIsSound(case, rules)'
<1>1. CASE UNCHANGED Claims!vars
  BY <1>1 DEF Claims!vars
<1>2. CASE Claims!Next
  <2>1. \A i \in ClaimIds : \A act \in {"approve", "pay", "cancel"} :
          [act |-> act, id |-> i] \in Claims!Action
    BY DEF Claims!Action, Claims!OtherAction
  <2>2. \E a \in Claims!Action : case' = Claims!Step(case, a, rules)
    BY <1>2, <2>1 DEF Claims!Next, Claims!Submit, Claims!Approve, Claims!Pay, Claims!Cancel,
                     Claims!Action
  <2>3. rules' = rules
    BY <1>2 DEF Claims!Next
  <2>4. \A a \in Claims!Action : CaseIsSound(Claims!Step(case, a, rules), rules)
    BY StepIsSound
  <2>5. CaseIsSound(case', rules')
    BY <2>2, <2>3, <2>4
  <2>. QED BY <2>5
<1>. QED BY <1>1, <1>2

-----------------------------------------------------------------------------
(* The compilation of a policy.                                            *)

(* The compiler's copy of Cardinality is that of FiniteSets.               *)
LEMMA CompilerCounts ==
  ASSUME NEW S PROVE Compiler!Cardinality(S) = Cardinality(S)
BY Zenon DEF Compiler!Cardinality, Cardinality

(* A list of numbers in ascending order.                                   *)
Ascends(f, S) ==
  f \in [1..Cardinality(S) -> S] /\ \A i, j \in DOMAIN f : i < j => f[i] < f[j]

(* A finite set of numbers has such a list: its least member comes first.  *)
LEMMA ListExists ==
  ASSUME NEW S \in SUBSET Nat, IsFiniteSet(S)
  PROVE  \E f : Ascends(f, S)
<1>. SUFFICES ASSUME ~\E f : Ascends(f, S) PROVE FALSE
  OBVIOUS
<1>. DEFINE F == {T \in FiniteSubsetsOf(S) : ~\E f : Ascends(f, T)}
<1>1. PICK T \in F : \A U \in F : U \subseteq T => U = T
  <2>1. S \in F /\ F \in SUBSET FiniteSubsetsOf(S)
    BY DEF FiniteSubsetsOf
  <2>. HIDE DEF F
  <2>. QED BY <2>1, SmallestSet
<1>2. T \in SUBSET Nat /\ IsFiniteSet(T) /\ T \in SUBSET S /\ ~\E f : Ascends(f, T)
  BY DEF FiniteSubsetsOf
<1>3. T # {}
  <2>. SUFFICES ASSUME T = {} PROVE FALSE
    OBVIOUS
  <2>1. Cardinality({}) = 0
    BY FS_EmptySet
  <2>. DEFINE e == [i \in 1..0 |-> i]
  <2>2. e \in [1..0 -> {}] /\ \A i, j \in DOMAIN e : i < j => e[i] < e[j]
    OBVIOUS
  <2>3. Ascends(e, {})
    BY <2>1, <2>2 DEF Ascends
  <2>. QED BY <1>2, <2>3
<1>4. PICK m \in T : \A n \in T : m <= n
  BY <1>2, <1>3, LeastNumber
<1>. DEFINE U == T \ {m}
            c == Cardinality(U)
<1>5. IsFiniteSet(U) /\ Cardinality(T) = c + 1 /\ c \in Nat
  <2>1. IsFiniteSet(U) /\ Cardinality(U) = Cardinality(T) - 1
    BY <1>2, <1>4, FS_RemoveElement
  <2>2. Cardinality(T) \in Nat
    BY <1>2, FS_CardinalityType
  <2>3. Cardinality(U) \in Nat
    <3>. HIDE DEF U
    <3>. QED BY <2>1, FS_CardinalityType
  <2>. HIDE DEF U
  <2>. QED BY <2>1, <2>2, <2>3
<1>6. PICK f : Ascends(f, U)
  <2>1. U \in FiniteSubsetsOf(S) /\ U \subseteq T /\ U # T
    BY <1>2, <1>5 DEF FiniteSubsetsOf
  <2>. HIDE DEF U
  <2>. QED BY <1>1, <2>1
<1>7. \A n \in U : n \in T /\ m < n /\ n \in Nat
  BY <1>2, <1>4
<1>8. f \in [1..c -> U] /\ \A i, j \in 1..c : i < j => f[i] < f[j]
  <2>. HIDE DEF U
  <2>1. f \in [1..c -> U] /\ DOMAIN f = 1..c
    BY <1>6 DEF Ascends
  <2>. QED BY <1>6, <2>1 DEF Ascends
<1>. HIDE DEF U, c
<1>. DEFINE h == [i \in 1..(c + 1) |-> IF i = 1 THEN m ELSE f[i - 1]]
<1>9. \A i \in 1..(c + 1) : i # 1 => i - 1 \in 1..c /\ h[i] = f[i - 1] /\ f[i - 1] \in U
  BY <1>5, <1>8
<1>10. h \in [1..(c + 1) -> T] /\ DOMAIN h = 1..(c + 1) /\ (1 \in 1..(c + 1) => h[1] = m)
  BY <1>7, <1>9
<1>. HIDE DEF h
<1>11. ASSUME NEW i \in 1..(c + 1), NEW j \in 1..(c + 1), i < j PROVE h[i] < h[j]
  <2>1. j # 1 /\ j - 1 \in 1..c /\ h[j] = f[j - 1] /\ f[j - 1] \in U
    BY <1>5, <1>9, <1>11
  <2>2. CASE i = 1
    BY <1>7, <1>10, <2>1, <2>2
  <2>3. CASE i # 1
    <3>1. i - 1 \in 1..c /\ h[i] = f[i - 1] /\ i - 1 < j - 1
      BY <1>5, <1>9, <1>11, <2>3
    <3>. QED BY <1>8, <2>1, <3>1
  <2>. QED BY <2>2, <2>3
<1>12. Ascends(h, T)
  BY <1>5, <1>10, <1>11 DEF Ascends
<1>. QED BY <1>2, <1>12

(* The places of a finite set in ascending order are all of them, each     *)
(* once.                                                                   *)
LEMMA PlacesInOrder ==
  ASSUME NEW S \in SUBSET Nat, IsFiniteSet(S)
  PROVE  LET f == Compiler!Ascending(S)
         IN /\ Cardinality(S) \in Nat /\ f \in [1..Cardinality(S) -> S]
            /\ \A i, j \in 1..Cardinality(S) : i < j <=> f[i] < f[j]
            /\ \A x \in S : \E i \in 1..Cardinality(S) : f[i] = x
<1>. DEFINE f == Compiler!Ascending(S)
            c == Cardinality(S)
<1>1. c \in Nat
  BY FS_CardinalityType
<1>2. f \in [1..c -> S] /\ \A i, j \in DOMAIN f : i < j => f[i] < f[j]
  <2>1. \E h \in [1..c -> S] : \A i, j \in DOMAIN h : i < j => h[i] < h[j]
    BY ListExists DEF Ascends
  <2>2. f = CHOOSE h \in [1..c -> S] : \A i, j \in DOMAIN h : i < j => h[i] < h[j]
    BY CompilerCounts DEF Compiler!Ascending
  <2>. HIDE DEF f, c
  <2>. QED BY Zenon, <2>1, <2>2
<1>. HIDE DEF f
<1>3. ASSUME NEW i \in 1..c, NEW j \in 1..c PROVE i < j <=> f[i] < f[j]
  <2>1. f[i] \in Nat /\ f[j] \in Nat /\ DOMAIN f = 1..c
    BY <1>2
  <2>2. (i < j => f[i] < f[j]) /\ (j < i => f[j] < f[i])
    BY <1>2, <2>1
  <2>. QED BY <1>1, <2>1, <2>2
<1>4. \A i, j \in 1..c : f[i] = f[j] => i = j
  <2>. TAKE i \in 1..c, j \in 1..c
  <2>1. f[i] \in Nat /\ f[j] \in Nat
    BY <1>2
  <2>2. (i < j => f[i] < f[j]) /\ (j < i => f[j] < f[i])
    BY <1>3
  <2>. QED BY <1>1, <2>1, <2>2
<1>5. \A x \in S : \E i \in 1..c : f[i] = x
  <2>. DEFINE I == 1..c
  <2>1. IsFiniteSet(I) /\ Cardinality(I) = Cardinality(S)
    BY <1>1, FS_Interval
  <2>2. f \in Injection(I, S)
    BY <1>2, <1>4 DEF Injection, IsInjective
  <2>. HIDE DEF I
  <2>3. f \in Surjection(I, S)
    BY <2>1, <2>2, FS_Injection
  <2>. QED BY <2>3 DEF Surjection, I
<1>. QED BY <1>1, <1>2, <1>3, <1>5 DEF f

(* fewer than the suffixes that are tried.                                 *)
LEMMA NamedIsFresh ==
  ASSUME NEW taken, IsFiniteSet(taken), NEW reason, NEW i
  PROVE  LET name == Compiler!Named(reason, i, taken)
         IN name \notin taken /\ \E n \in Nat : name = <<reason, i, n>>
<1>. DEFINE c == Cardinality(taken)
            F == {n \in 1..(c + 1) : <<reason, i, n>> \notin taken}
<1>1. c \in Nat
  BY FS_CardinalityType
<1>2. F # {}
  <2>. SUFFICES ASSUME F = {} PROVE FALSE
    OBVIOUS
  <2>. DEFINE f == [n \in 1..(c + 1) |-> <<reason, i, n>>]
  <2>1. f \in Injection(1..(c + 1), taken)
    <3>1. f \in [1..(c + 1) -> taken]
      OBVIOUS
    <3>2. \A m, n \in 1..(c + 1) : f[m] = f[n] => m = n
      OBVIOUS
    <3>. HIDE DEF f, c
    <3>. QED BY <3>1, <3>2 DEF Injection, IsInjective
  <2>2. IsFiniteSet(1..(c + 1)) /\ Cardinality(1..(c + 1)) = c + 1
    BY <1>1, FS_Interval
  <2>. HIDE DEF f
  <2>3. Cardinality(1..(c + 1)) <= Cardinality(taken)
    BY <2>1, FS_Injection
  <2>. QED BY <1>1, <2>2, <2>3
<1>3. PICK m \in F : \A n \in F : m <= n
  <2>1. F \in SUBSET Nat
    BY <1>1
  <2>. HIDE DEF F
  <2>. QED BY <1>2, <2>1, LeastNumber
<1>4. /\ m \in 1..(c + 1) /\ <<reason, i, m>> \notin taken
      /\ \A k \in 1..(m - 1) : <<reason, i, k>> \in taken
  <2>1. m \in 1..(c + 1) /\ <<reason, i, m>> \notin taken
    OBVIOUS
  <2>2. ASSUME NEW k \in 1..(m - 1) PROVE <<reason, i, k>> \in taken
    <3>1. k \in 1..(c + 1) /\ ~(m <= k)
      BY <1>1, <2>1
    <3>. QED BY <1>3, <3>1
  <2>. QED BY <2>1, <2>2
<1>. DEFINE n == CHOOSE n \in 1..(c + 1) : /\ <<reason, i, n>> \notin taken
                                           /\ \A k \in 1..(n - 1) : <<reason, i, k>> \in taken
<1>5. n \in 1..(c + 1) /\ <<reason, i, n>> \notin taken
  <2>1. \E k \in 1..(c + 1) : /\ <<reason, i, k>> \notin taken
                              /\ \A l \in 1..(k - 1) : <<reason, i, l>> \in taken
    BY <1>4
  <2>. HIDE DEF c
  <2>. QED BY Zenon, <2>1
<1>6. Compiler!Named(reason, i, taken) = <<reason, i, n>>
  BY CompilerCounts DEF Compiler!Named
<1>. HIDE DEF n
<1>. QED BY <1>1, <1>5, <1>6

Reasons == {"invalid-citation", "unsupported-logic"}
Clause == [id : Reasons \X Nat \X Nat, of : Nat]
Ids(cs) == {cs[k].id : k \in DOMAIN cs}

Numbered(s, P) == \A i \in P : s[i].of \in Nat

(* The clauses new are cs and then one for each of the places P, in order. *)
Grown(new, cs, reason, s, P) ==
  LET m == Len(cs)
      n == Cardinality(P)
      f == Compiler!Ascending(P)
  IN /\ new \in Seq(Clause) /\ Len(new) = m + n /\ m \in Nat /\ n \in Nat
     /\ \A k \in 1..m : new[k] = cs[k]
     /\ \A k \in 1..n :
          /\ new[m + k].of = s[f[k]].of /\ new[m + k].id \notin Ids(cs)
          /\ \E j \in Nat : new[m + k].id = <<reason, f[k], j>>

(* The clauses of some places come after those there are, and have names   *)
(* that none of those has.                                                 *)
LEMMA ClausesGrow ==
  ASSUME NEW cs \in Seq(Clause), NEW reason \in Reasons, NEW s, NEW P \in SUBSET Nat, IsFiniteSet(P),
         Numbered(s, P)
  PROVE  Grown(Compiler!WithClauses(cs, reason, s, P), cs, reason, s, P)
<1>. DEFINE m == Len(cs)
            n == Cardinality(P)
            f == Compiler!Ascending(P)
            tail == [k \in 1..n |-> [id |-> Compiler!Named(reason, f[k], Ids(cs)), of |-> s[f[k]].of]]
            new == Compiler!WithClauses(cs, reason, s, P)
<1>1. n \in Nat /\ f \in [1..n -> P] /\ m \in Nat
  <2>1. n \in Nat /\ f \in [1..n -> P]
    <3>. HIDE DEF tail, new, m
    <3>. QED BY PlacesInOrder
  <2>. QED BY <2>1
<1>2. IsFiniteSet(Ids(cs))
  <2>. DEFINE g == [k \in DOMAIN cs |-> cs[k].id]
  <2>1. g \in Surjection(DOMAIN cs, Ids(cs))
    BY DEF Surjection, Ids
  <2>2. IsFiniteSet(DOMAIN cs)
    BY <1>1, FS_Interval
  <2>. HIDE DEF g
  <2>. QED BY <2>1, <2>2, FS_Surjection
<1>3. \A k \in 1..n : /\ Compiler!Named(reason, f[k], Ids(cs)) \notin Ids(cs)
                      /\ \E j \in Nat : Compiler!Named(reason, f[k], Ids(cs)) = <<reason, f[k], j>>
  BY <1>2, NamedIsFresh
<1>4. new = cs \o tail
  <2>1. DOMAIN f = 1..n
    BY <1>1
  <2>. QED BY <2>1 DEF Compiler!WithClauses, Ids
<1>5. tail \in Seq(Clause) /\ Len(tail) = n
  <2>1. \A k \in 1..n : [id |-> Compiler!Named(reason, f[k], Ids(cs)), of |-> s[f[k]].of] \in Clause
    <3>. TAKE k \in 1..n
    <3>1. f[k] \in P /\ f[k] \in Nat /\ s[f[k]].of \in Nat
      BY <1>1 DEF Numbered
    <3>2. PICK j \in Nat : Compiler!Named(reason, f[k], Ids(cs)) = <<reason, f[k], j>>
      BY <1>3
    <3>. QED BY <3>1, <3>2 DEF Clause
  <2>. QED BY <1>1, <2>1
<1>6. \A k \in 1..n : tail[k] = [id |-> Compiler!Named(reason, f[k], Ids(cs)), of |-> s[f[k]].of]
  OBVIOUS
<1>. HIDE DEF tail, f, n, m, new
<1>7. /\ new \in Seq(Clause) /\ Len(new) = m + n
      /\ \A k \in 1..m : new[k] = cs[k]
      /\ \A k \in 1..n : new[m + k] = tail[k]
  BY <1>1, <1>4, <1>5, ConcatProperties DEF m
<1>8. \A k \in 1..n : new[m + k].of = s[f[k]].of /\ new[m + k].id = Compiler!Named(reason, f[k], Ids(cs))
  <2>. TAKE k \in 1..n
  <2>1. new[m + k] = [id |-> Compiler!Named(reason, f[k], Ids(cs)), of |-> s[f[k]].of]
    BY <1>6, <1>7
  <2>. QED BY <2>1
<1>9. /\ new \in Seq(Clause) /\ Len(new) = m + n /\ m \in Nat /\ n \in Nat
      /\ \A k \in 1..m : new[k] = cs[k]
      /\ \A k \in 1..n :
           /\ new[m + k].of = s[f[k]].of /\ new[m + k].id \notin Ids(cs)
           /\ \E j \in Nat : new[m + k].id = <<reason, f[k], j>>
  BY <1>1, <1>3, <1>7, <1>8
<1>. QED BY <1>9 DEF f, n, m, new, Grown

TargetNames == ({"handle"} \X Nat) \cup ({"cite"} \X Cites) \cup ({"base"} \X Bodies)
Draft == [body : Bodies, cite : Cites, of : Nat,
          overrides : SUBSET [dim : Compiler!Dims, target : TargetNames]]

(* The rules N of a proposal are the drafts s at the places P and those of *)
(* the clauses cs, each once, and no two clauses share a name.             *)
Accounted(N, s, P, cs) ==
  /\ \A k, l \in DOMAIN cs : cs[k].id = cs[l].id => k = l
  /\ \A k, l \in DOMAIN cs : cs[k].of = cs[l].of /\ cs[k].of # 0 => k = l
  /\ \A i, j \in P : s[i].of = s[j].of => i = j
  /\ \A i \in P, k \in DOMAIN cs : cs[k].of # s[i].of
  /\ N = {s[i].of : i \in P} \cup ({cs[k].of : k \in DOMAIN cs} \ {0})

(* When the drafts of some places become clauses, every rule of the        *)
(* proposal is still accounted for, once, under a name of its own.         *)
LEMMA DropKeeps ==
  ASSUME NEW N \in SUBSET (Nat \ {0}), NEW s \in Seq(Draft), NEW P \in SUBSET DOMAIN s,
         NEW cs \in Seq(Clause), Accounted(N, s, P, cs), NEW Q \in SUBSET P,
         NEW reason \in Reasons
  PROVE  LET new == Compiler!WithClauses(cs, reason, s, Q)
         IN new \in Seq(Clause) /\ Accounted(N, s, P \ Q, new)
<1>. DEFINE new == Compiler!WithClauses(cs, reason, s, Q)
            m == Len(cs)
            n == Cardinality(Q)
            f == Compiler!Ascending(Q)
<1>1. Q \in SUBSET Nat /\ IsFiniteSet(Q) /\ Numbered(s, Q)
      /\ \A i \in P : s[i].of \in Nat
  <2>1. DOMAIN s = 1..Len(s) /\ Len(s) \in Nat
    OBVIOUS
  <2>2. IsFiniteSet(1..Len(s))
    BY <2>1, FS_Interval
  <2>3. IsFiniteSet(Q)
    BY <2>1, <2>2, FS_Subset
  <2>4. \A i \in P : s[i] \in Draft
    BY <2>1
  <2>5. \A i \in P : s[i].of \in Nat
    BY <2>4 DEF Draft
  <2>. QED BY <2>1, <2>3, <2>5 DEF Numbered
<1>2. /\ new \in Seq(Clause) /\ Len(new) = m + n /\ m \in Nat /\ n \in Nat
      /\ \A k \in 1..m : new[k] = cs[k]
      /\ \A k \in 1..n :
           /\ new[m + k].of = s[f[k]].of /\ new[m + k].id \notin Ids(cs)
           /\ \E j \in Nat : new[m + k].id = <<reason, f[k], j>>
  <2>1. Grown(new, cs, reason, s, Q)
    <3>. HIDE DEF m, n, f
    <3>. QED BY <1>1, ClausesGrow
  <2>. HIDE DEF new
  <2>. QED BY <2>1 DEF Grown
<1>3. /\ f \in [1..n -> Q] /\ (\A i, j \in 1..n : i < j <=> f[i] < f[j])
      /\ \A x \in Q : \E i \in 1..n : f[i] = x
  BY <1>1, PlacesInOrder
<1>. HIDE DEF new, m, n, f
<1>4. /\ DOMAIN new = 1..(m + n) /\ DOMAIN cs = 1..m
      /\ \A k \in 1..(m + n) : k \in 1..m \/ \E l \in 1..n : k = m + l
      /\ \A k \in 1..m : k \in 1..(m + n)
      /\ \A l \in 1..n : m + l \in 1..(m + n) /\ m + l \notin 1..m
  <2>1. DOMAIN new = 1..(m + n)
    BY <1>2
  <2>2. DOMAIN cs = 1..m
    BY DEF m
  <2>3. ASSUME NEW k \in 1..(m + n), k \notin 1..m PROVE \E l \in 1..n : k = m + l
    <3>1. k - m \in 1..n /\ k = m + (k - m)
      BY <1>2, <2>3
    <3>. QED BY <3>1
  <2>4. \A l \in 1..n : m + l \in 1..(m + n) /\ m + l \notin 1..m
    BY <1>2
  <2>5. \A k \in 1..m : k \in 1..(m + n)
    BY <1>2
  <2>. QED BY <2>1, <2>2, <2>3, <2>4, <2>5
<1>5. \A i, j \in 1..n : f[i] = f[j] => i = j
  <2>. TAKE i \in 1..n, j \in 1..n
  <2>1. f[i] \in Nat /\ f[j] \in Nat
    BY <1>1, <1>3
  <2>2. (i < j <=> f[i] < f[j]) /\ (j < i <=> f[j] < f[i])
    BY <1>3
  <2>. QED BY <1>2, <2>1, <2>2
<1>6. ASSUME NEW k \in DOMAIN new, NEW l \in DOMAIN new, new[k].id = new[l].id PROVE k = l
  <2>1. CASE k \in 1..m /\ l \in 1..m
    BY <1>2, <1>4, <1>6, <2>1 DEF Accounted
  <2>2. ASSUME NEW a \in 1..m, NEW b \in 1..n PROVE new[a].id # new[m + b].id
    <3>1. new[a] = cs[a] /\ a \in DOMAIN cs
      BY <1>2, <1>4
    <3>2. cs[a].id \in Ids(cs)
      BY <3>1 DEF Ids
    <3>. QED BY <1>2, <3>1, <3>2
  <2>3. ASSUME NEW a \in 1..n, NEW b \in 1..n, new[m + a].id = new[m + b].id PROVE a = b
    <3>1. PICK i \in Nat : new[m + a].id = <<reason, f[a], i>>
      BY <1>2
    <3>2. PICK j \in Nat : new[m + b].id = <<reason, f[b], j>>
      BY <1>2
    <3>3. f[a] = f[b]
      <4>1. <<reason, f[a], i>> = <<reason, f[b], j>>
        BY <2>3, <3>1, <3>2
      <4>. QED BY ONLY <4>1
    <3>. QED BY <1>5, <3>3
  <2>. QED BY <1>4, <1>6, <2>1, <2>2, <2>3
<1>7. \A b \in 1..n : f[b] \in Q /\ f[b] \in P /\ new[m + b].of = s[f[b]].of
  BY <1>2, <1>3
<1>8. ASSUME NEW k \in DOMAIN new, NEW l \in DOMAIN new, new[k].of = new[l].of, new[k].of # 0
      PROVE  k = l
  <2>1. CASE k \in 1..m /\ l \in 1..m
    BY <1>2, <1>4, <1>8, <2>1 DEF Accounted
  <2>2. ASSUME NEW a \in 1..m, NEW b \in 1..n PROVE new[a].of # new[m + b].of
    <3>1. new[a] = cs[a] /\ a \in DOMAIN cs
      BY <1>2, <1>4
    <3>. QED BY <1>7, <3>1 DEF Accounted
  <2>3. ASSUME NEW a \in 1..n, NEW b \in 1..n, new[m + a].of = new[m + b].of PROVE a = b
    <3>1. f[a] = f[b]
      BY <1>7, <2>3 DEF Accounted
    <3>. QED BY <1>5, <3>1
  <2>. QED BY <1>4, <1>8, <2>1, <2>2, <2>3
<1>9. ASSUME NEW i \in P \ Q, NEW k \in DOMAIN new PROVE new[k].of # s[i].of
  <2>1. CASE k \in 1..m
    BY <1>2, <1>4, <2>1 DEF Accounted
  <2>2. ASSUME NEW b \in 1..n PROVE new[m + b].of # s[i].of
    BY <1>7 DEF Accounted
  <2>. QED BY <1>4, <2>1, <2>2
<1>10. N = {s[i].of : i \in P \ Q} \cup ({new[k].of : k \in DOMAIN new} \ {0})
  <2>1. ASSUME NEW r \in N PROVE r \in {s[i].of : i \in P \ Q} \cup ({new[k].of : k \in DOMAIN new} \ {0})
    <3>1. CASE \E i \in P \ Q : r = s[i].of
      BY <3>1
    <3>2. CASE \E i \in Q : r = s[i].of
      <4>1. PICK i \in Q : r = s[i].of
        BY <3>2
      <4>2. PICK b \in 1..n : f[b] = i
        BY <1>3
      <4>3. m + b \in DOMAIN new /\ new[m + b].of = r
        BY <1>4, <1>7, <4>1, <4>2
      <4>. QED BY <4>3
    <3>3. CASE \E k \in DOMAIN cs : r = cs[k].of
      <4>1. PICK k \in 1..m : r = cs[k].of
        BY <1>4, <3>3
      <4>2. k \in DOMAIN new /\ new[k].of = r
        BY <1>2, <1>4, <4>1
      <4>. QED BY <4>2
    <3>. QED BY <3>1, <3>2, <3>3 DEF Accounted
  <2>2. ASSUME NEW i \in P PROVE s[i].of \in N
    BY DEF Accounted
  <2>3. ASSUME NEW k \in DOMAIN new, new[k].of # 0 PROVE new[k].of \in N
    <3>1. CASE k \in 1..m
      BY <1>2, <1>4, <2>3, <3>1 DEF Accounted
    <3>2. ASSUME NEW b \in 1..n PROVE new[m + b].of \in N
      BY <1>7, <2>2
    <3>. QED BY <1>4, <3>1, <3>2
  <2>. QED BY <2>1, <2>2, <2>3
<1>11. \A i, j \in P \ Q : s[i].of = s[j].of => i = j
  BY DEF Accounted
<1>12. Accounted(N, s, P \ Q, new)
  BY <1>6, <1>8, <1>9, <1>10, <1>11 DEF Accounted
<1>. QED BY <1>2, <1>12 DEF new

(* No places, no clauses.                                                  *)
LEMMA NoClausesAdded ==
  ASSUME NEW cs \in Seq(Clause), NEW reason \in Reasons, NEW s
  PROVE  Compiler!WithClauses(cs, reason, s, {}) = cs
<1>. DEFINE new == Compiler!WithClauses(cs, reason, s, {})
<1>1. IsFiniteSet({}) /\ Cardinality({}) = 0
  BY FS_EmptySet
<1>2. new \in Seq(Clause) /\ Len(new) = Len(cs) + 0 /\ \A k \in 1..Len(cs) : new[k] = cs[k]
  <2>1. Grown(new, cs, reason, s, {})
    BY <1>1, ClausesGrow DEF Numbered
  <2>. HIDE DEF new
  <2>. QED BY <1>1, <2>1 DEF Grown
<1>. HIDE DEF new
<1>3. new = cs
  BY <1>2
<1>. QED BY <1>3 DEF new

(* The rounds of Close, up to a number of them.                            *)
Rounds(n, after, s, P, cs) ==
  after = [k \in 0..n |-> IF k = 0 THEN [places |-> P, clauses |-> cs]
                          ELSE Compiler!Drop(s, after[k - 1])]

(* There are rounds for every number of them.                              *)
LEMMA RoundsExist ==
  ASSUME NEW s, NEW P, NEW cs, NEW n \in Nat
  PROVE  \E after : Rounds(n, after, s, P, cs)
<1>. SUFFICES ASSUME ~\E after : Rounds(n, after, s, P, cs) PROVE FALSE
  OBVIOUS
<1>. DEFINE F == {k \in Nat : ~\E after : Rounds(k, after, s, P, cs)}
<1>1. PICK m \in F : \A k \in F : m <= k
  <2>1. F \in SUBSET Nat /\ F # {}
    OBVIOUS
  <2>. HIDE DEF F
  <2>. QED BY <2>1, LeastNumber
<1>2. m \in Nat /\ ~\E after : Rounds(m, after, s, P, cs)
  OBVIOUS
<1>3. CASE m = 0
  <2>. DEFINE a == [k \in 0..0 |-> [places |-> P, clauses |-> cs]]
  <2>1. \A k \in 0..0 : k = 0
    OBVIOUS
  <2>2. Rounds(0, a, s, P, cs)
    BY <2>1 DEF Rounds
  <2>. QED BY <1>2, <1>3, <2>2
<1>4. CASE m # 0
  <2>1. m - 1 \in Nat /\ m - 1 \notin F
    <3>1. m - 1 \in Nat /\ ~(m <= m - 1)
      BY <1>2, <1>4
    <3>. HIDE DEF F
    <3>. QED BY <1>1, <3>1
  <2>2. PICK b : Rounds(m - 1, b, s, P, cs)
    BY <2>1
  <2>. DEFINE a == [k \in 0..m |-> IF k = m THEN Compiler!Drop(s, b[m - 1]) ELSE b[k]]
  <2>3. ASSUME NEW k \in 0..m
        PROVE  a[k] = IF k = 0 THEN [places |-> P, clauses |-> cs] ELSE Compiler!Drop(s, a[k - 1])
    <3>1. CASE k = m
      <4>1. a[k] = Compiler!Drop(s, b[m - 1]) /\ k - 1 \in 0..m /\ k - 1 # m /\ k # 0
        BY <1>2, <1>4, <3>1
      <4>2. a[k - 1] = b[m - 1]
        BY <3>1, <4>1
      <4>. QED BY <4>1, <4>2
    <3>2. CASE k # m
      <4>1. k \in 0..(m - 1) /\ a[k] = b[k]
        BY <1>2, <3>2
      <4>2. b[k] = IF k = 0 THEN [places |-> P, clauses |-> cs] ELSE Compiler!Drop(s, b[k - 1])
        BY <2>2, <4>1 DEF Rounds
      <4>3. k # 0 => k - 1 \in 0..m /\ k - 1 # m
        BY <1>2, <4>1
      <4>4. k # 0 => a[k - 1] = b[k - 1]
        BY <4>3
      <4>. QED BY <4>1, <4>2, <4>4
    <3>. QED BY <3>1, <3>2
  <2>4. a = [k \in 0..m |-> a[k]]
    OBVIOUS
  <2>. HIDE DEF a
  <2>5. a = [k \in 0..m |-> IF k = 0 THEN [places |-> P, clauses |-> cs]
                            ELSE Compiler!Drop(s, a[k - 1])]
    BY <2>3, <2>4
  <2>. QED BY <1>2, <2>5 DEF Rounds
<1>. QED BY <1>3, <1>4

(* What is left in the end is what the last round leaves.                  *)
LEMMA CloseHasRounds ==
  ASSUME NEW s, Len(s) \in Nat, NEW P, NEW cs
  PROVE  \E after : Rounds(Len(s), after, s, P, cs) /\ Compiler!Close(s, P, cs) = after[Len(s)]
<1>. DEFINE B(i) == [k \in 0..Len(s) |-> IF k = 0 THEN [places |-> P, clauses |-> cs]
                                        ELSE Compiler!Drop(s, i[k - 1])]
            g == CHOOSE i : i = B(i)
<1>1. Compiler!Close(s, P, cs) = g[Len(s)]
  BY DEF Compiler!Close
<1>2. \A i : Rounds(Len(s), i, s, P, cs) <=> i = B(i)
  BY DEF Rounds
<1>3. \E i : Rounds(Len(s), i, s, P, cs)
  BY RoundsExist
<1>. HIDE DEF B
<1>4. \E i : i = B(i)
  BY <1>2, <1>3
<1>5. g = B(g)
  BY Zenon, <1>4
<1>. HIDE DEF g
<1>. QED BY <1>1, <1>2, <1>5

(* What one round makes of the places P and the clauses cs. *)
Dropped(N, s, P, cs, y) ==
  LET Q == Compiler!Dangling(s, P)
  IN /\ y = [places |-> y.places, clauses |-> y.clauses]
     /\ Q \in SUBSET P /\ y.places = P \ Q /\ y.clauses \in Seq(Clause)
     /\ Accounted(N, s, y.places, y.clauses)
     /\ Q = {} => y.clauses = cs

(* One round keeps the account, and changes nothing when no override       *)
(* dangles.                                                                *)
LEMMA DropOnce ==
  ASSUME NEW N \in SUBSET (Nat \ {0}), NEW s \in Seq(Draft), NEW P \in SUBSET DOMAIN s,
         NEW cs \in Seq(Clause), Accounted(N, s, P, cs)
  PROVE  Dropped(N, s, P, cs, Compiler!Drop(s, [places |-> P, clauses |-> cs]))
<1>. DEFINE Q == Compiler!Dangling(s, P)
            why == "unsupported-logic"
            w == Compiler!WithClauses(cs, why, s, Q)
            y == Compiler!Drop(s, [places |-> P, clauses |-> cs])
<1>1. Q \in SUBSET P
  BY DEF Compiler!Dangling
<1>2. y = [places |-> P \ Q, clauses |-> w]
  BY DEF Compiler!Drop
<1>3. y.places = P \ Q /\ y.clauses = w
  BY <1>2
<1>6. why \in Reasons
  BY DEF Reasons
<1>. HIDE DEF Q, why
<1>4. w \in Seq(Clause) /\ Accounted(N, s, P \ Q, w)
  BY <1>1, <1>6, DropKeeps
<1>5. Q = {} => w = cs
  BY <1>6, NoClausesAdded
<1>. HIDE DEF w, y
<1>7. /\ y = [places |-> y.places, clauses |-> y.clauses]
      /\ Q \in SUBSET P /\ y.places = P \ Q /\ y.clauses \in Seq(Clause)
      /\ Accounted(N, s, y.places, y.clauses) /\ (Q = {} => y.clauses = cs)
  BY <1>1, <1>2, <1>3, <1>4, <1>5
<1>. QED BY <1>7 DEF Q, y, Dropped

(* What Close makes of the places P and the clauses cs. *)
Closed(N, s, P, cs, c) ==
  /\ c.places \in SUBSET P /\ c.clauses \in Seq(Clause)
  /\ Accounted(N, s, c.places, c.clauses) /\ Compiler!Dangling(s, c.places) = {}
  /\ Compiler!Dangling(s, P) = {} => c.places = P /\ c.clauses = cs

(* As many rounds as there are drafts are enough: a round that takes       *)
(* something away leaves fewer, and one that does not is the last.         *)
LEMMA CloseKeeps ==
  ASSUME NEW N \in SUBSET (Nat \ {0}), NEW s \in Seq(Draft), NEW P \in SUBSET DOMAIN s,
         NEW cs \in Seq(Clause), Accounted(N, s, P, cs)
  PROVE  Closed(N, s, P, cs, Compiler!Close(s, P, cs))
<1>. DEFINE m == Len(s)
<1>1. m \in Nat /\ DOMAIN s = 1..m
  OBVIOUS
<1>2. PICK after : Rounds(m, after, s, P, cs) /\ Compiler!Close(s, P, cs) = after[m]
  BY <1>1, CloseHasRounds
<1>3. /\ after[0] = [places |-> P, clauses |-> cs]
      /\ \A k \in 1..m : after[k] = Compiler!Drop(s, after[k - 1])
  <2>. DEFINE B == [k \in 0..m |-> IF k = 0 THEN [places |-> P, clauses |-> cs]
                                   ELSE Compiler!Drop(s, after[k - 1])]
  <2>1. after = B
    BY <1>2 DEF Rounds
  <2>. HIDE DEF m
  <2>2. \A k \in 0..m : B[k] = IF k = 0 THEN [places |-> P, clauses |-> cs]
                              ELSE Compiler!Drop(s, after[k - 1])
    OBVIOUS
  <2>. HIDE DEF B
  <2>3. \A k \in 0..m : after[k] = IF k = 0 THEN [places |-> P, clauses |-> cs]
                                  ELSE Compiler!Drop(s, after[k - 1])
    BY Zenon, <2>1, <2>2
  <2>4. 0 \in 0..m /\ \A k \in 1..m : k \in 0..m /\ k # 0
    BY <1>1
  <2>. QED BY Zenon, <2>3, <2>4
<1>. HIDE DEF m
<1>4. IsFiniteSet(P) /\ Cardinality(P) \in Nat /\ Cardinality(P) <= m
  <2>1. IsFiniteSet(1..m) /\ Cardinality(1..m) = m
    BY <1>1, FS_Interval
  <2>. QED BY <1>1, <2>1, FS_Subset, FS_CardinalityType
<1>. DEFINE D(x) == Compiler!Dangling(s, x.places)
            Good(k) == LET x == after[k]
                       IN /\ x = [places |-> x.places, clauses |-> x.clauses]
                          /\ x.places \in SUBSET P /\ x.clauses \in Seq(Clause)
                          /\ Accounted(N, s, x.places, x.clauses)
                          /\ D(x) = {} \/ Cardinality(x.places) <= m - k
                          /\ Compiler!Dangling(s, P) = {} => x = [places |-> P, clauses |-> cs]
<1>5. Good(0)
  BY <1>1, <1>3, <1>4
<1>6. ASSUME NEW k \in 1..m, Good(k - 1) PROVE Good(k)
  <2>. DEFINE x == after[k - 1]
              y == after[k]
  <2>1. /\ x = [places |-> x.places, clauses |-> x.clauses]
        /\ x.places \in SUBSET P /\ x.clauses \in Seq(Clause)
        /\ Accounted(N, s, x.places, x.clauses)
        /\ D(x) = {} \/ Cardinality(x.places) <= m - (k - 1)
        /\ Compiler!Dangling(s, P) = {} => x = [places |-> P, clauses |-> cs]
    BY <1>6
  <2>2. /\ y = [places |-> y.places, clauses |-> y.clauses]
        /\ D(x) \in SUBSET x.places /\ y.places = x.places \ D(x) /\ y.clauses \in Seq(Clause)
        /\ Accounted(N, s, y.places, y.clauses)
        /\ D(x) = {} => y.clauses = x.clauses
    <3>1. y = Compiler!Drop(s, [places |-> x.places, clauses |-> x.clauses])
      BY <1>3, <2>1
    <3>2. x.places \in SUBSET DOMAIN s
      BY <2>1
    <3>. DEFINE XP == x.places
                XC == x.clauses
    <3>3. XP \in SUBSET DOMAIN s /\ XC \in Seq(Clause) /\ Accounted(N, s, XP, XC)
          /\ y = Compiler!Drop(s, [places |-> XP, clauses |-> XC])
      BY <2>1, <3>1, <3>2
    <3>. HIDE DEF XP, XC, y
    <3>4. Dropped(N, s, XP, XC, y)
      BY <3>3, DropOnce
    <3>. QED BY <3>4 DEF XP, XC, Dropped
  <2>. DEFINE XP == x.places
              YP == y.places
              Q == D(x)
  <2>3. D(y) = {} \/ Cardinality(YP) <= m - k
    <3>1. CASE Q = {}
      <4>1. YP = XP
        BY <2>2, <3>1
      <4>. QED BY <3>1, <4>1
    <3>2. CASE Q # {}
      <4>1. YP \in SUBSET XP /\ YP # XP
        BY <2>2, <3>2
      <4>2. XP \in SUBSET P /\ Cardinality(XP) <= m - (k - 1)
        BY <2>1, <3>2
      <4>. HIDE DEF XP, YP, Q
      <4>3. IsFiniteSet(XP)
        BY <1>4, <4>2, FS_Subset
      <4>4. Cardinality(XP) \in Nat /\ Cardinality(YP) \in Nat /\ Cardinality(YP) <= Cardinality(XP)
            /\ Cardinality(YP) # Cardinality(XP)
        BY <4>1, <4>3, FS_Subset, FS_CardinalityType
      <4>5. Cardinality(YP) <= m - k
        BY <1>1, <4>2, <4>4
      <4>. QED BY <4>5
    <3>. QED BY <3>1, <3>2
  <2>4. Compiler!Dangling(s, P) = {} => y = [places |-> P, clauses |-> cs]
    <3>. SUFFICES ASSUME Compiler!Dangling(s, P) = {} PROVE y = [places |-> P, clauses |-> cs]
      OBVIOUS
    <3>1. x.places = P /\ x.clauses = cs
      BY <2>1
    <3>2. D(x) = {}
      BY <3>1
    <3>3. y.places = P /\ y.clauses = cs
      BY <2>2, <3>1, <3>2
    <3>. HIDE DEF x, y, D
    <3>. QED BY <2>2, <3>3
  <2>5. y.places \in SUBSET P
    BY <2>1, <2>2
  <2>. QED BY <2>2, <2>3, <2>4, <2>5
<1>. HIDE DEF Good
<1>7. \A k \in 0..m : Good(k)
  <2>. SUFFICES ASSUME NEW k \in 0..m, ~Good(k) PROVE FALSE
    OBVIOUS
  <2>. DEFINE F == {i \in 0..m : ~Good(i)}
  <2>1. PICK l \in F : \A i \in F : l <= i
    <3>1. F \in SUBSET Nat /\ F # {}
      BY <1>1
    <3>. HIDE DEF F
    <3>. QED BY <3>1, LeastNumber
  <2>2. l # 0 /\ l \in 1..m /\ l - 1 \in 0..m /\ ~(l <= l - 1)
    BY <1>1, <1>5
  <2>3. Good(l - 1)
    BY <2>1, <2>2
  <2>. QED BY <1>6, <2>2, <2>3
<1>8. Good(m)
  BY <1>1, <1>7
<1>9. D(after[m]) = {}
  <2>1. D(after[m]) = {} \/ Cardinality(after[m].places) <= 0
    BY <1>1, <1>8 DEF Good
  <2>2. IsFiniteSet(after[m].places)
    BY <1>4, <1>8, FS_Subset DEF Good
  <2>3. Cardinality(after[m].places) <= 0 => after[m].places = {}
    BY <2>2, FS_EmptySet, FS_CardinalityType
  <2>4. after[m].places = {} => D(after[m]) = {}
    BY DEF Compiler!Dangling
  <2>. QED BY <2>1, <2>3, <2>4
<1>. QED BY <1>2, <1>8, <1>9 DEF Good, Closed

(* A reference that resolves means one draft, about a dimension of both.   *)
LEMMA OneMatch ==
  ASSUME NEW s \in Seq(Draft), NEW wire \in BOOLEAN, Compiler!Resolves(s, wire),
         NEW i \in DOMAIN s, NEW e \in s[i].overrides
  PROVE  \E j \in DOMAIN s :
           /\ Compiler!Matches(e.target, s, wire) = {j}
           /\ e.dim \in s[i].body.dims /\ e.dim \in s[j].body.dims
           /\ j \in Compiler!Targets(s, wire, i)
<1>. DEFINE F == Compiler!Matches(e.target, s, wire)
<1>1. /\ Compiler!Cardinality(F) = 1
      /\ e.dim \in s[i].body.dims /\ \A t \in F : e.dim \in s[t].body.dims
  BY DEF Compiler!Resolves
<1>2. F \subseteq DOMAIN s
  BY DEF Compiler!Matches
<1>3. F \subseteq Compiler!Targets(s, wire, i)
  BY DEF Compiler!Targets
<1>. HIDE DEF F
<1>4. IsFiniteSet(F)
  <2>1. DOMAIN s = 1..Len(s) /\ Len(s) \in Nat
    OBVIOUS
  <2>2. IsFiniteSet(1..Len(s))
    BY <2>1, FS_Interval
  <2>. QED BY <1>2, <2>1, <2>2, FS_Subset
<1>5. PICK j : F = {j}
  BY <1>1, <1>4, CompilerCounts, FS_Singleton
<1>. QED BY <1>1, <1>2, <1>3, <1>5 DEF F

(* A rewriting keeps everything of the drafts but the names of what they   *)
(* override, which become meanings.                                        *)
LEMMA RewrittenIs ==
  ASSUME NEW s \in Seq(Draft), NEW wire \in BOOLEAN, Compiler!Resolves(s, wire)
  PROVE  LET t == Compiler!Rewritten(s, wire)
         IN /\ t \in Seq(Draft) /\ Len(t) = Len(s) /\ DOMAIN t = DOMAIN s
            /\ \A i \in DOMAIN s :
                 t[i].body = s[i].body /\ t[i].cite = s[i].cite /\ t[i].of = s[i].of
            /\ \A i \in DOMAIN s : \A e \in t[i].overrides : \E j \in DOMAIN s :
                 /\ j \in Compiler!Targets(s, wire, i) /\ e.target = <<"base", s[j].body>>
                 /\ e.dim \in s[i].body.dims /\ e.dim \in s[j].body.dims
<1>. DEFINE t == Compiler!Rewritten(s, wire)
            o(i) == {[dim |-> e.dim,
                      target |-> <<"base", s[CHOOSE k \in Compiler!Matches(e.target, s, wire) : TRUE].body>>] :
                       e \in s[i].overrides}
<1>1. DOMAIN s = 1..Len(s) /\ Len(s) \in Nat
  OBVIOUS
<1>2. t = [i \in DOMAIN s |-> [s[i] EXCEPT !.overrides = o(i)]]
  BY DEF Compiler!Rewritten
<1>3. ASSUME NEW i \in DOMAIN s, NEW e \in o(i)
      PROVE  \E j \in DOMAIN s :
                 /\ j \in Compiler!Targets(s, wire, i) /\ e.target = <<"base", s[j].body>>
                 /\ e.dim \in s[i].body.dims /\ e.dim \in s[j].body.dims
                 /\ e = [dim |-> e.dim, target |-> e.target]
  <2>1. PICK d \in s[i].overrides :
          e = [dim |-> d.dim,
               target |-> <<"base", s[CHOOSE k \in Compiler!Matches(d.target, s, wire) : TRUE].body>>]
    BY <1>3
  <2>2. PICK j \in DOMAIN s :
           /\ Compiler!Matches(d.target, s, wire) = {j}
           /\ d.dim \in s[i].body.dims /\ d.dim \in s[j].body.dims
           /\ j \in Compiler!Targets(s, wire, i)
    BY OneMatch
  <2>3. (CHOOSE k \in Compiler!Matches(d.target, s, wire) : TRUE) = j
    BY <2>2
  <2>4. e = [dim |-> d.dim, target |-> <<"base", s[j].body>>]
    BY <2>1, <2>3
  <2>5. e.dim = d.dim /\ e.target = <<"base", s[j].body>>
    BY <2>4
  <2>. QED BY <2>2, <2>4, <2>5
<1>. HIDE DEF o, t
<1>4. ASSUME NEW i \in DOMAIN s
      PROVE  /\ t[i] = [body |-> s[i].body, cite |-> s[i].cite, of |-> s[i].of, overrides |-> o(i)]
             /\ t[i] \in Draft
  <2>1. s[i] \in Draft
    OBVIOUS
  <2>2. t[i] = [body |-> s[i].body, cite |-> s[i].cite, of |-> s[i].of, overrides |-> o(i)]
    BY <1>2, <2>1 DEF Draft
  <2>3. o(i) \in SUBSET [dim : Compiler!Dims, target : TargetNames]
    <3>1. ASSUME NEW e \in o(i) PROVE e \in [dim : Compiler!Dims, target : TargetNames]
      <4>1. PICK j \in DOMAIN s :
                 /\ e.target = <<"base", s[j].body>> /\ e.dim \in s[j].body.dims
                 /\ e = [dim |-> e.dim, target |-> e.target]
        BY <1>3
      <4>2. s[j].body \in Bodies
        <5>1. s[j] \in Draft
          OBVIOUS
        <5>. QED BY <5>1 DEF Draft
      <4>3. e.dim \in Compiler!Dims
        BY <4>1, <4>2 DEF Compiler!Dims
      <4>4. e.target \in TargetNames
        BY <4>1, <4>2 DEF TargetNames
      <4>. QED BY <4>1, <4>3, <4>4
    <3>. QED BY <3>1
  <2>. QED BY <2>1, <2>2, <2>3 DEF Draft
<1>5. t \in Seq(Draft) /\ Len(t) = Len(s) /\ DOMAIN t = DOMAIN s
  <2>1. t \in [1..Len(s) -> Draft]
    BY <1>1, <1>2, <1>4
  <2>. QED BY <1>1, <2>1
<1>6. ASSUME NEW i \in DOMAIN s
      PROVE  /\ t[i].body = s[i].body /\ t[i].cite = s[i].cite
             /\ t[i].of = s[i].of /\ t[i].overrides = o(i)
  <2>1. t[i] = [body |-> s[i].body, cite |-> s[i].cite, of |-> s[i].of, overrides |-> o(i)]
    BY <1>4
  <2>. QED BY ONLY <2>1
<1>. QED BY <1>3, <1>5, <1>6 DEF t

(* The places P, each once, and the drafts t at these places. *)
Enumerates(g, n, P) ==
  /\ g \in [1..n -> P] /\ \A i, j \in 1..n : g[i] = g[j] => i = j
  /\ \A x \in P : \E i \in 1..n : g[i] = x
Picked(u, t, g, n) == u \in [1..n -> Draft] /\ \A k \in 1..n : u[k] = t[g[k]]

(* Listing what is left of the drafts keeps the account.                   *)
LEMMA ListKeeps ==
  ASSUME NEW N, NEW t \in Seq(Draft), NEW P \in SUBSET DOMAIN t, NEW cs, Accounted(N, t, P, cs),
         NEW n \in Nat, NEW g, Enumerates(g, n, P), NEW u, Picked(u, t, g, n)
  PROVE  u \in Seq(Draft) /\ Len(u) = n /\ DOMAIN u = 1..n /\ Accounted(N, u, 1..n, cs)
<1>0. /\ g \in [1..n -> P] /\ \A i, j \in 1..n : g[i] = g[j] => i = j
      /\ \A x \in P : \E i \in 1..n : g[i] = x
      /\ u \in [1..n -> Draft] /\ \A k \in 1..n : u[k] = t[g[k]]
  BY DEF Enumerates, Picked
<1>1. \A k \in 1..n : g[k] \in P /\ u[k] = t[g[k]] /\ u[k] \in Draft
  <2>. TAKE k \in 1..n
  <2>1. g[k] \in P /\ g[k] \in DOMAIN t
    BY <1>0
  <2>2. t[g[k]] \in Draft
    BY <2>1
  <2>. QED BY <1>0, <2>1, <2>2
<1>2. u \in Seq(Draft) /\ Len(u) = n /\ DOMAIN u = 1..n
  BY <1>0
<1>3. {u[i].of : i \in 1..n} = {t[i].of : i \in P}
  <2>1. \A i \in 1..n : \E j \in P : u[i].of = t[j].of
    BY <1>1
  <2>2. ASSUME NEW j \in P PROVE \E i \in 1..n : u[i].of = t[j].of
    <3>1. PICK i \in 1..n : g[i] = j
      BY <1>0
    <3>. QED BY <1>1, <3>1
  <2>. DEFINE A == {u[i].of : i \in 1..n}
              B == {t[i].of : i \in P}
  <2>3. ASSUME NEW x \in A PROVE x \in B
    <3>1. PICK i \in 1..n : x = u[i].of
      OBVIOUS
    <3>2. PICK j \in P : u[i].of = t[j].of
      BY <2>1
    <3>3. x = t[j].of
      BY <3>1, <3>2
    <3>. QED BY <3>3
  <2>4. ASSUME NEW x \in B PROVE x \in A
    <3>1. PICK j \in P : x = t[j].of
      OBVIOUS
    <3>2. PICK i \in 1..n : u[i].of = t[j].of
      BY <2>2
    <3>3. x = u[i].of
      BY <3>1, <3>2
    <3>. QED BY <3>3
  <2>. HIDE DEF A, B
  <2>5. A = B
    BY <2>3, <2>4
  <2>. QED BY <2>5 DEF A, B
<1>4. \A i, j \in 1..n : u[i].of = u[j].of => i = j
  BY <1>0, <1>1 DEF Accounted
<1>5. \A i \in 1..n, k \in DOMAIN cs : cs[k].of # u[i].of
  BY <1>0, <1>1 DEF Accounted
<1>6. Accounted(N, u, 1..n, cs)
  <2>1. N = {u[i].of : i \in 1..n} \cup ({cs[k].of : k \in DOMAIN cs} \ {0})
    BY <1>3 DEF Accounted
  <2>. QED BY <1>4, <1>5, <2>1 DEF Accounted
<1>. QED BY <1>2, <1>6

(* The places where the rules before and at them are few enough are as few. *)
LEMMA WithinIsShort ==
  ASSUME NEW n \in Nat, NEW C \in SUBSET (1..n), NEW max \in Nat
  PROVE  LET W == {i \in C : Compiler!Cardinality({j \in C : j <= i}) <= max}
         IN IsFiniteSet(W) /\ Cardinality(W) \in Nat /\ Cardinality(W) <= max
<1>. DEFINE K(i) == Compiler!Cardinality({j \in C : j <= i})
            W == {i \in C : K(i) <= max}
            c == Cardinality(W)
            f == Compiler!Ascending(W)
<1>1. IsFiniteSet(1..n)
  BY FS_Interval
<1>2. IsFiniteSet(C)
  BY <1>1, FS_Subset
<1>3. W \in SUBSET C /\ W \in SUBSET Nat
  <2>1. W \in SUBSET C
    BY Zenon
  <2>2. C \in SUBSET Nat
    OBVIOUS
  <2>. HIDE DEF W
  <2>. QED BY <2>1, <2>2
<1>4. IsFiniteSet(W)
  <2>. HIDE DEF W
  <2>. QED BY <1>2, <1>3, FS_Subset
<1>5. /\ c \in Nat /\ f \in [1..c -> W]
      /\ \A i, j \in 1..c : i < j <=> f[i] < f[j]
      /\ \A x \in W : \E i \in 1..c : f[i] = x
  <2>. HIDE DEF W
  <2>. QED BY <1>3, <1>4, PlacesInOrder
<1>6. CASE c = 0
  <2>. HIDE DEF W
  <2>1. IsFiniteSet(W) /\ Cardinality(W) \in Nat /\ Cardinality(W) <= max
    BY <1>4, <1>5, <1>6
  <2>. QED BY <2>1 DEF W
<1>7. CASE c # 0
  <2>. DEFINE m == f[c]
              B == {j \in C : j <= m}
  <2>1. m \in W /\ m \in Nat /\ c \in 1..c
    <3>1. c \in 1..c
      BY <1>5, <1>7
    <3>. HIDE DEF W, f, c
    <3>. QED BY <1>3, <1>5, <3>1
  <2>2. Compiler!Cardinality(B) <= max
    <3>. HIDE DEF m
    <3>. QED BY <2>1
  <2>3. \A x \in W : x \in C /\ x <= m
    <3>. TAKE x \in W
    <3>. HIDE DEF W, f, c
    <3>1. PICK i \in 1..c : f[i] = x
      BY <1>5
    <3>2. i = c \/ i < c
      BY <1>5
    <3>3. x \in Nat
      BY <1>3
    <3>. QED BY <1>3, <1>5, <2>1, <3>1, <3>2, <3>3
  <2>4. W \in SUBSET B
    <3>. HIDE DEF W, m
    <3>. QED BY <2>3
  <2>5. IsFiniteSet(B) /\ Cardinality(B) \in Nat
    <3>1. B \in SUBSET C
      OBVIOUS
    <3>. HIDE DEF B
    <3>. QED BY <1>2, <3>1, FS_Subset, FS_CardinalityType
  <2>. HIDE DEF W, B
  <2>6. Cardinality(W) <= Cardinality(B) /\ Cardinality(B) <= max
    BY <2>2, <2>4, <2>5, FS_Subset, CompilerCounts
  <2>7. Cardinality(W) <= max
    BY <1>5, <2>5, <2>6
  <2>. QED BY <1>4, <1>5, <2>7 DEF W
<1>. QED BY <1>6, <1>7

(* The places from 1 to n in ascending order are in their own order.       *)
LEMMA AllInOrder ==
  ASSUME NEW n \in Nat
  PROVE  Compiler!Ascending(1..n) = [k \in 1..n |-> k]
<1>. DEFINE S == 1..n
            f == Compiler!Ascending(S)
<1>1. IsFiniteSet(S) /\ Cardinality(S) = n /\ S \in SUBSET Nat
  BY FS_Interval
<1>2. /\ f \in [1..n -> 1..n] /\ \A i, j \in 1..n : i < j <=> f[i] < f[j]
      /\ \A x \in 1..n : \E i \in 1..n : f[i] = x
  <2>. HIDE DEF S
  <2>1. /\ f \in [1..n -> S] /\ \A i, j \in 1..n : i < j <=> f[i] < f[j]
        /\ \A x \in S : \E i \in 1..n : f[i] = x
    BY <1>1, PlacesInOrder
  <2>. QED BY <2>1 DEF S
<1>. HIDE DEF f
<1>3. \A k \in 1..n : f[k] = k
  <2>. SUFFICES ASSUME NEW x \in 1..n, f[x] # x PROVE FALSE
    OBVIOUS
  <2>. DEFINE F == {i \in 1..n : f[i] # i}
  <2>1. PICK k \in F : \A i \in F : k <= i
    <3>1. F \in SUBSET Nat /\ F # {}
      OBVIOUS
    <3>. HIDE DEF F
    <3>. QED BY <3>1, LeastNumber
  <2>2. k \in 1..n /\ f[k] # k /\ \A i \in 1..n : i < k => f[i] = i
    BY <2>1
  <2>3. f[k] \in 1..n /\ ~(f[k] < k)
    BY <1>2, <2>2
  <2>4. PICK i \in 1..n : f[i] = k
    BY <1>2, <2>2
  <2>5. ~(i < k) /\ i # k /\ ~(k < i)
    BY <1>2, <2>2, <2>3, <2>4
  <2>. QED BY <2>5
<1>. QED BY <1>2, <1>3 DEF f

(* The overrides of these drafts are all of one of them. *)
Standing(s) == \A k \in DOMAIN s : \A e \in s[k].overrides :
                 \E j \in DOMAIN s : e.target = <<"base", s[j].body>>
Cited(s) == \A k \in DOMAIN s : s[k].body.cited

(* The drafts u are some of the drafts t, which are as many as the drafts s. *)
Among(g, u, s, t) ==
  /\ g \in [DOMAIN u -> DOMAIN s] /\ \A i, j \in DOMAIN u : g[i] = g[j] => i = j
  /\ \A k \in DOMAIN u : u[k] = t[g[k]]

(* What validation makes of the drafts s. *)
Settled(N, s, u, cs) ==
  /\ u \in Seq(Draft) /\ cs \in Seq(Clause) /\ Accounted(N, u, DOMAIN u, cs)
  /\ Len(u) <= MaxRules /\ Cited(u) /\ Standing(u)
  /\ \E g : Among(g, u, s, Compiler!Rewritten(s, FALSE))

(* What validation leaves is accounted for, cited, within the limit and    *)
(* free of dangling overrides.                                             *)
LEMMA ValidatedStands ==
  ASSUME NEW N \in SUBSET (Nat \ {0}), NEW s \in Seq(Draft), clauses \in Seq(Clause),
         Accounted(N, s, DOMAIN s, clauses), Compiler!Resolves(s, FALSE)
  PROVE  Settled(N, s, Compiler!Validated(s).drafts, Compiler!Validated(s).clauses)
<1>. DEFINE t == Compiler!Rewritten(s, FALSE)
            v == Compiler!Validated(s)
            cited == {i \in DOMAIN t : t[i].body.cited}
            within == {i \in cited : Compiler!Cardinality({j \in cited : j <= i}) <= MaxRules}
            first == Compiler!WithClauses(clauses, "invalid-citation", t, DOMAIN t \ cited)
            second == Compiler!WithClauses(first, "unsupported-logic", t, cited \ within)
            ended == Compiler!Close(t, within, second)
            kept == Compiler!Ascending(ended.places)
            u == v.drafts
<1>1. v = [drafts |-> [k \in DOMAIN kept |-> t[kept[k]]], clauses |-> ended.clauses]
  BY Zenon DEF Compiler!Validated
<1>21. /\ v.drafts = [k \in DOMAIN kept |-> t[kept[k]]] /\ v.clauses = ended.clauses
  <2>. HIDE DEF v, kept, t, ended
  <2>. QED BY <1>1
<1>2. /\ t \in Seq(Draft) /\ Len(t) = Len(s) /\ DOMAIN t = DOMAIN s
      /\ \A i \in DOMAIN s :
           t[i].body = s[i].body /\ t[i].cite = s[i].cite /\ t[i].of = s[i].of
  <2>1. FALSE \in BOOLEAN
    OBVIOUS
  <2>. HIDE DEF v, cited, within, first, second, ended, kept, u
  <2>. QED BY <2>1, RewrittenIs
<1>3. cited \in SUBSET DOMAIN t /\ (\A i \in cited : t[i].body.cited)
  <2>. HIDE DEF t
  <2>. QED BY Zenon
<1>4. within \in SUBSET cited
  <2>. HIDE DEF cited, t
  <2>. QED BY Zenon
<1>5. DOMAIN t = 1..Len(t) /\ Len(t) \in Nat
  <2>. HIDE DEF t
  <2>. QED BY <1>2
<1>6. IsFiniteSet(within) /\ Cardinality(within) \in Nat /\ Cardinality(within) <= MaxRules
  <2>1. cited \in SUBSET (1..Len(t))
    BY <1>3, <1>5
  <2>. HIDE DEF cited, t
  <2>. QED BY <1>5, <2>1, WithinIsShort, DraftsAssumption
<1>. HIDE DEF v, t, cited, within
<1>7. Accounted(N, t, DOMAIN t, clauses)
  BY <1>2 DEF Accounted
<1>. DEFINE why1 == "invalid-citation"
            why2 == "unsupported-logic"
<1>8. why1 \in Reasons /\ why2 \in Reasons
  BY DEF Reasons
<1>. HIDE DEF why1, why2
<1>9. first \in Seq(Clause) /\ Accounted(N, t, cited, first)
  <2>. DEFINE Q == DOMAIN t \ cited
  <2>1. Q \in SUBSET DOMAIN t /\ DOMAIN t \ Q = cited /\ DOMAIN t \in SUBSET DOMAIN t
    BY <1>3
  <2>. HIDE DEF Q
  <2>2. LET w == Compiler!WithClauses(clauses, why1, t, Q)
        IN w \in Seq(Clause) /\ Accounted(N, t, DOMAIN t \ Q, w)
    BY <1>2, <1>7, <1>8, <2>1, DropKeeps
  <2>3. first = Compiler!WithClauses(clauses, why1, t, Q)
    BY DEF Q, why1
  <2>. HIDE DEF first
  <2>. QED BY <2>1, <2>2, <2>3
<1>. HIDE DEF first
<1>10. second \in Seq(Clause) /\ Accounted(N, t, within, second)
  <2>. DEFINE Q == cited \ within
  <2>1. Q \in SUBSET cited /\ cited \ Q = within
    BY <1>4
  <2>. HIDE DEF Q
  <2>2. LET w == Compiler!WithClauses(first, why2, t, Q)
        IN w \in Seq(Clause) /\ Accounted(N, t, cited \ Q, w)
    BY <1>2, <1>3, <1>8, <1>9, <2>1, DropKeeps
  <2>3. second = Compiler!WithClauses(first, why2, t, Q)
    BY DEF Q, why2
  <2>. HIDE DEF second
  <2>. QED BY <2>1, <2>2, <2>3
<1>. HIDE DEF second
<1>. DEFINE C == ended.places
            K == ended.clauses
<1>11. /\ C \in SUBSET within /\ K \in Seq(Clause) /\ Accounted(N, t, C, K)
       /\ Compiler!Dangling(t, C) = {}
  <2>1. within \in SUBSET DOMAIN t
    BY <1>3, <1>4
  <2>2. Closed(N, t, within, second, ended)
    BY <1>2, <1>10, <2>1, CloseKeeps
  <2>. HIDE DEF ended
  <2>. QED BY <2>2 DEF Closed
<1>. DEFINE n == Cardinality(C)
<1>. HIDE DEF ended
<1>12. C \in SUBSET Nat /\ C \in SUBSET DOMAIN t /\ IsFiniteSet(C) /\ n \in Nat /\ n <= MaxRules
  <2>. HIDE DEF C
  <2>1. C \in SUBSET DOMAIN t /\ C \in SUBSET Nat
    BY <1>3, <1>4, <1>5, <1>11
  <2>2. IsFiniteSet(C) /\ n \in Nat /\ n <= Cardinality(within)
    BY <1>6, <1>11, FS_Subset, FS_CardinalityType
  <2>3. n <= MaxRules
    BY <1>6, <2>2, DraftsAssumption
  <2>. QED BY <2>1, <2>2, <2>3
<1>13. /\ kept \in [1..n -> C] /\ \A i, j \in 1..n : i < j <=> kept[i] < kept[j]
       /\ \A x \in C : \E i \in 1..n : kept[i] = x
  <2>1. kept = Compiler!Ascending(C)
    OBVIOUS
  <2>. HIDE DEF C, kept
  <2>2. /\ Compiler!Ascending(C) \in [1..n -> C]
        /\ \A i, j \in 1..n : i < j <=> Compiler!Ascending(C)[i] < Compiler!Ascending(C)[j]
        /\ \A x \in C : \E i \in 1..n : Compiler!Ascending(C)[i] = x
    BY <1>12, PlacesInOrder
  <2>. QED BY <2>1, <2>2
<1>. HIDE DEF C, K, kept, n
<1>14. \A i, j \in 1..n : kept[i] = kept[j] => i = j
  <2>. TAKE i \in 1..n, j \in 1..n
  <2>1. kept[i] \in Nat /\ kept[j] \in Nat
    BY <1>12, <1>13
  <2>. QED BY <1>12, <1>13, <2>1
<1>15. u = [k \in 1..n |-> t[kept[k]]]
  BY <1>13, <1>21
<1>16. u \in Seq(Draft) /\ Len(u) = n /\ DOMAIN u = 1..n /\ Accounted(N, u, 1..n, K)
  <2>1. u \in [1..n -> Draft] /\ \A k \in 1..n : u[k] = t[kept[k]]
    <3>2. \A j \in DOMAIN t : t[j] \in Draft
      BY <1>2, <1>5
    <3>3. \A k \in 1..n : kept[k] \in DOMAIN t
      BY <1>12, <1>13
    <3>1. \A k \in 1..n : kept[k] \in DOMAIN t /\ t[kept[k]] \in Draft
      BY <3>2, <3>3
    <3>. HIDE DEF u
    <3>. QED BY <1>15, <3>1
  <2>. HIDE DEF u
  <2>2. /\ t \in Seq(Draft) /\ C \in SUBSET DOMAIN t /\ n \in Nat /\ Accounted(N, t, C, K)
    BY <1>2, <1>11, <1>12
  <2>3. Enumerates(kept, n, C) /\ Picked(u, t, kept, n)
    BY <1>13, <1>14, <2>1 DEF Enumerates, Picked
  <2>. QED BY <2>2, <2>3, ListKeeps
<1>17. \A k \in 1..n : u[k] = t[kept[k]] /\ kept[k] \in C /\ kept[k] \in DOMAIN s
  BY <1>2, <1>12, <1>13, <1>15
<1>. HIDE DEF u
<1>18. \A k \in 1..n : u[k].body.cited
  <2>. TAKE k \in 1..n
  <2>1. kept[k] \in cited /\ u[k] = t[kept[k]]
    BY <1>4, <1>11, <1>17
  <2>2. t[kept[k]].body.cited
    BY <1>3, <2>1
  <2>. QED BY Zenon, <2>1, <2>2
<1>19. ASSUME NEW k \in 1..n, NEW e \in u[k].overrides
       PROVE  \E j \in 1..n : e.target = <<"base", u[j].body>>
  <2>1. kept[k] \in C /\ e \in t[kept[k]].overrides
    BY <1>17
  <2>2. e.target \in {<<"base", t[i].body>> : i \in C}
    BY <1>11, <2>1 DEF Compiler!Dangling
  <2>3. PICK i \in C : e.target = <<"base", t[i].body>>
    BY <2>2
  <2>4. PICK j \in 1..n : kept[j] = i
    BY <1>13
  <2>. QED BY <1>17, <2>3, <2>4
<1>20. kept \in [1..n -> DOMAIN s]
  BY <1>13, <1>17
<1>22. v.clauses = K
  BY <1>21 DEF K
<1>. QED
  <2>1. Len(u) <= MaxRules
    BY <1>12, <1>16
  <2>2. Among(kept, u, s, t)
    BY <1>14, <1>16, <1>17, <1>20 DEF Among
  <2>3. Cited(u) /\ Standing(u)
    BY <1>16, <1>18, <1>19 DEF Cited, Standing
  <2>4. u \in Seq(Draft) /\ v.clauses \in Seq(Clause) /\ Accounted(N, u, DOMAIN u, v.clauses)
    BY <1>11, <1>16, <1>22
  <2>. QED BY <2>1, <2>2, <2>3, <2>4 DEF Settled, u, v, t

Distinct(s) == \A i, j \in DOMAIN s : s[i].body = s[j].body => i = j

(* When meanings differ, a meaning names one draft: a citation is no       *)
(* meaning.                                                                *)
LEMMA StandingMatch ==
  ASSUME NEW u \in Seq(Draft), Distinct(u), NEW l \in DOMAIN u
  PROVE  Compiler!Matches(<<"base", u[l].body>>, u, FALSE) = {l}
<1>. DEFINE F == Compiler!Matches(<<"base", u[l].body>>, u, FALSE)
<1>1. F = {i \in DOMAIN u : <<"base", u[l].body>> \in {<<"cite", u[i].cite>>, <<"base", u[i].body>>}}
  BY DEF Compiler!Matches
<1>2. ASSUME NEW i \in DOMAIN u,
             <<"base", u[l].body>> \in {<<"cite", u[i].cite>>, <<"base", u[i].body>>}
      PROVE  i = l
  <2>1. <<"base", u[l].body>> # <<"cite", u[i].cite>>
    OBVIOUS
  <2>2. <<"base", u[l].body>> = <<"base", u[i].body>>
    BY <1>2, <2>1
  <2>3. u[l].body = u[i].body
    BY ONLY <2>2
  <2>. QED BY <2>3 DEF Distinct
<1>3. l \in F
  BY <1>1
<1>4. \A i \in F : i = l
  BY <1>1, <1>2
<1>. HIDE DEF F
<1>5. F = {l}
  BY <1>3, <1>4
<1>. QED BY <1>5 DEF F

(* When meanings differ, what is left of drafts that resolve resolves: a   *)
(* circle among them would be one among all.                               *)
LEMMA ResolvesAgain ==
  ASSUME NEW s \in Seq(Draft), Compiler!Resolves(s, FALSE), Distinct(s),
         NEW u \in Seq(Draft), NEW g, Among(g, u, s, Compiler!Rewritten(s, FALSE)), Standing(u)
  PROVE  Distinct(u) /\ Compiler!Resolves(u, FALSE)
<1>. DEFINE t == Compiler!Rewritten(s, FALSE)
<1>1. /\ \A i \in DOMAIN s : t[i].body = s[i].body
      /\ \A i \in DOMAIN s : \A e \in t[i].overrides : \E j \in DOMAIN s :
                 /\ j \in Compiler!Targets(s, FALSE, i) /\ e.target = <<"base", s[j].body>>
                 /\ e.dim \in s[i].body.dims /\ e.dim \in s[j].body.dims
  <2>1. FALSE \in BOOLEAN
    OBVIOUS
  <2>. QED BY <2>1, RewrittenIs
<1>2. /\ g \in [DOMAIN u -> DOMAIN s] /\ \A i, j \in DOMAIN u : g[i] = g[j] => i = j
      /\ \A k \in DOMAIN u : u[k] = t[g[k]]
  BY DEF Among
<1>. HIDE DEF t
<1>3. \A k \in DOMAIN u : g[k] \in DOMAIN s /\ u[k].body = s[g[k]].body
                          /\ u[k].overrides = t[g[k]].overrides
  BY <1>1, <1>2
<1>4. Distinct(u)
  BY <1>2, <1>3 DEF Distinct
<1>5. ASSUME NEW k \in DOMAIN u, NEW e \in u[k].overrides
      PROVE  \E l \in DOMAIN u :
               /\ Compiler!Matches(e.target, u, FALSE) = {l}
               /\ e.dim \in u[k].body.dims /\ e.dim \in u[l].body.dims
               /\ g[l] \in Compiler!Targets(s, FALSE, g[k])
  <2>1. PICK j \in DOMAIN s :
                 /\ j \in Compiler!Targets(s, FALSE, g[k]) /\ e.target = <<"base", s[j].body>>
                 /\ e.dim \in s[g[k]].body.dims /\ e.dim \in s[j].body.dims
    <3>1. g[k] \in DOMAIN s /\ e \in t[g[k]].overrides
      BY <1>3
    <3>. QED BY <1>1, <3>1
  <2>2. PICK l \in DOMAIN u : e.target = <<"base", u[l].body>>
    BY DEF Standing
  <2>3. s[j].body = s[g[l]].body
    <3>1. <<"base", s[j].body>> = <<"base", u[l].body>>
      BY <2>1, <2>2
    <3>2. s[j].body = u[l].body
      BY ONLY <3>1
    <3>. QED BY <1>3, <3>2
  <2>4. j = g[l]
    BY <1>3, <2>3 DEF Distinct
  <2>5. Compiler!Matches(e.target, u, FALSE) = {l}
    BY <1>4, <2>2, StandingMatch
  <2>. QED BY <1>3, <2>1, <2>4, <2>5
<1>6. ASSUME NEW k \in DOMAIN u, NEW e \in u[k].overrides
      PROVE  LET found == Compiler!Matches(e.target, u, FALSE)
             IN /\ Compiler!Cardinality(found) = 1
                /\ e.dim \in u[k].body.dims /\ \A l \in found : e.dim \in u[l].body.dims
  <2>1. PICK l \in DOMAIN u :
               /\ Compiler!Matches(e.target, u, FALSE) = {l}
               /\ e.dim \in u[k].body.dims /\ e.dim \in u[l].body.dims
    BY <1>5
  <2>2. Cardinality({l}) = 1
    BY FS_Singleton
  <2>3. Compiler!Cardinality({l}) = 1
    BY <2>2, CompilerCounts
  <2>. QED BY <2>1, <2>3
<1>7. ~\E C \in (SUBSET DOMAIN u) \ {{}} : \A i \in C : Compiler!Targets(u, FALSE, i) \cap C # {}
  <2>. SUFFICES ASSUME NEW C \in (SUBSET DOMAIN u) \ {{}},
                       \A i \in C : Compiler!Targets(u, FALSE, i) \cap C # {}
                PROVE  FALSE
    OBVIOUS
  <2>. DEFINE D == {g[i] : i \in C}
  <2>1. D \in (SUBSET DOMAIN s) \ {{}}
    <3>1. PICK i \in C : TRUE
      OBVIOUS
    <3>2. g[i] \in D
      OBVIOUS
    <3>3. \A d \in D : d \in DOMAIN s
      BY <1>3
    <3>. HIDE DEF D
    <3>. QED BY <3>2, <3>3
  <2>2. ASSUME NEW d \in D PROVE Compiler!Targets(s, FALSE, d) \cap D # {}
    <3>1. PICK i \in C : d = g[i]
      OBVIOUS
    <3>2. PICK m \in C : m \in Compiler!Targets(u, FALSE, i)
      OBVIOUS
    <3>3. PICK e \in u[i].overrides : m \in Compiler!Matches(e.target, u, FALSE)
      BY <3>2 DEF Compiler!Targets
    <3>4. PICK l \in DOMAIN u : /\ Compiler!Matches(e.target, u, FALSE) = {l}
                                /\ g[l] \in Compiler!Targets(s, FALSE, g[i])
      <4>1. i \in DOMAIN u
        OBVIOUS
      <4>. QED BY <1>5, <4>1
    <3>5. m = l
      BY <3>3, <3>4
    <3>6. g[m] \in D /\ g[m] \in Compiler!Targets(s, FALSE, d)
      BY <3>1, <3>4, <3>5
    <3>. QED BY <3>6
  <2>. HIDE DEF D
  <2>. QED BY <2>1, <2>2 DEF Compiler!Resolves
<1>. QED BY <1>4, <1>6, <1>7 DEF Compiler!Resolves

(* A second rewriting changes nothing.                                     *)
LEMMA RewrittenAgain ==
  ASSUME NEW u \in Seq(Draft), Distinct(u), Standing(u)
  PROVE  Compiler!Rewritten(u, FALSE) = u
<1>. DEFINE r(e) == [dim |-> e.dim, target |-> <<"base",
                      u[CHOOSE k \in Compiler!Matches(e.target, u, FALSE) : TRUE].body>>]
            o(i) == {r(e) : e \in u[i].overrides}
<1>1. Compiler!Rewritten(u, FALSE) = [i \in DOMAIN u |-> [u[i] EXCEPT !.overrides = o(i)]]
  BY DEF Compiler!Rewritten
<1>2. ASSUME NEW i \in DOMAIN u, NEW e \in u[i].overrides PROVE r(e) = e
  <2>1. PICK l \in DOMAIN u : e.target = <<"base", u[l].body>>
    BY DEF Standing
  <2>2. Compiler!Matches(e.target, u, FALSE) = {l}
    BY <2>1, StandingMatch
  <2>3. (CHOOSE k \in Compiler!Matches(e.target, u, FALSE) : TRUE) = l
    BY <2>2
  <2>4. e = [dim |-> e.dim, target |-> e.target]
    <3>1. u[i] \in Draft
      OBVIOUS
    <3>2. e \in [dim : Compiler!Dims, target : TargetNames]
      BY <3>1 DEF Draft
    <3>. QED BY <3>2
  <2>. QED BY <2>1, <2>3, <2>4
<1>. HIDE DEF r
<1>3. ASSUME NEW i \in DOMAIN u PROVE [u[i] EXCEPT !.overrides = o(i)] = u[i]
  <2>1. o(i) = u[i].overrides
    BY <1>2
  <2>2. u[i] \in Draft
    OBVIOUS
  <2>. HIDE DEF o
  <2>. QED BY <2>1, <2>2 DEF Draft
<1>. HIDE DEF o
<1>4. Compiler!Rewritten(u, FALSE) = [i \in DOMAIN u |-> u[i]]
  BY <1>1, <1>3
<1>5. u = [i \in DOMAIN u |-> u[i]]
  OBVIOUS
<1>. QED BY <1>4, <1>5

(* A second validation changes nothing.                                    *)
LEMMA NothingLeftToDo ==
  ASSUME NEW N \in SUBSET (Nat \ {0}), NEW u \in Seq(Draft), clauses \in Seq(Clause),
         Accounted(N, u, DOMAIN u, clauses), Distinct(u), Standing(u),
         Len(u) <= MaxRules, \A k \in DOMAIN u : u[k].body.cited
  PROVE  Compiler!Validated(u) = [drafts |-> u, clauses |-> clauses]
<1>. DEFINE t == Compiler!Rewritten(u, FALSE)
            n == Len(u)
            cited == {i \in DOMAIN t : t[i].body.cited}
            within == {i \in cited : Compiler!Cardinality({j \in cited : j <= i}) <= MaxRules}
            first == Compiler!WithClauses(clauses, "invalid-citation", t, DOMAIN t \ cited)
            second == Compiler!WithClauses(first, "unsupported-logic", t, cited \ within)
            ended == Compiler!Close(t, within, second)
            kept == Compiler!Ascending(ended.places)
<1>1. Compiler!Validated(u) = [drafts |-> [k \in DOMAIN kept |-> t[kept[k]]], clauses |-> ended.clauses]
  BY Zenon DEF Compiler!Validated
<1>2. t = u
  BY RewrittenAgain
<1>3. DOMAIN u = 1..n /\ n \in Nat /\ n <= MaxRules
  OBVIOUS
<1>4. cited = 1..n
  <2>1. cited = {i \in DOMAIN u : u[i].body.cited}
    BY <1>2
  <2>2. \A i \in DOMAIN u : u[i].body.cited
    OBVIOUS
  <2>3. cited = DOMAIN u
    <3>. HIDE DEF cited
    <3>. QED BY Zenon, <2>1, <2>2
  <2>. QED BY <1>3, <2>3
<1>. HIDE DEF t, cited, n
<1>5. within = 1..n
  <2>1. ASSUME NEW i \in 1..n PROVE Compiler!Cardinality({j \in cited : j <= i}) <= MaxRules
    <3>. DEFINE B == {j \in cited : j <= i}
    <3>. DEFINE I == 1..n
    <3>1. B \in SUBSET I
      BY <1>4
    <3>2. IsFiniteSet(I) /\ Cardinality(I) = n
      BY <1>3, FS_Interval
    <3>. HIDE DEF B, I
    <3>3. IsFiniteSet(B) /\ Cardinality(B) <= n /\ Cardinality(B) \in Nat
      <4>1. IsFiniteSet(B) /\ Cardinality(B) <= Cardinality(I)
        BY <3>1, <3>2, FS_Subset
      <4>. QED BY <3>2, <4>1, FS_CardinalityType
    <3>4. Cardinality(B) <= MaxRules
      BY <1>3, <3>3, DraftsAssumption
    <3>. QED BY <3>4, CompilerCounts DEF B
  <2>. DEFINE K(i) == Compiler!Cardinality({j \in cited : j <= i})
  <2>2. within = {i \in cited : K(i) <= MaxRules} /\ \A i \in 1..n : K(i) <= MaxRules
    BY <2>1
  <2>. HIDE DEF K, within
  <2>. QED BY <1>4, <2>2
<1>. HIDE DEF within
<1>6. first = clauses
  <2>1. DOMAIN t \ cited = {}
    BY <1>2, <1>3, <1>4
  <2>2. "invalid-citation" \in Reasons
    BY DEF Reasons
  <2>3. Compiler!WithClauses(clauses, "invalid-citation", t, {}) = clauses
    BY <2>2, NoClausesAdded
  <2>. QED BY <2>1, <2>3
<1>. HIDE DEF first
<1>7. second = clauses
  <2>1. cited \ within = {}
    BY <1>4, <1>5
  <2>2. "unsupported-logic" \in Reasons
    BY DEF Reasons
  <2>3. Compiler!WithClauses(clauses, "unsupported-logic", t, {}) = clauses
    BY <2>2, NoClausesAdded
  <2>. QED BY <1>6, <2>1, <2>3
<1>. HIDE DEF second
<1>8. ended.places = 1..n /\ ended.clauses = clauses
  <2>1. Compiler!Dangling(u, DOMAIN u) = {}
    BY DEF Compiler!Dangling, Standing
  <2>2. DOMAIN u \in SUBSET DOMAIN u
    OBVIOUS
  <2>3. LET c == Compiler!Close(u, DOMAIN u, clauses)
        IN c.places = DOMAIN u /\ c.clauses = clauses
    <3>. DEFINE I == DOMAIN u
    <3>1. I \in SUBSET DOMAIN u /\ Accounted(N, u, I, clauses) /\ Compiler!Dangling(u, I) = {}
      BY <2>1
    <3>. HIDE DEF I
    <3>2. Closed(N, u, I, clauses, Compiler!Close(u, I, clauses))
      BY <3>1, CloseKeeps
    <3>3. LET c == Compiler!Close(u, I, clauses) IN c.places = I /\ c.clauses = clauses
      BY <3>1, <3>2 DEF Closed
    <3>. QED BY <3>3 DEF I
  <2>4. ended = Compiler!Close(u, DOMAIN u, clauses)
    BY <1>2, <1>3, <1>5, <1>7
  <2>. HIDE DEF ended
  <2>. QED BY <1>3, <2>3, <2>4
<1>. HIDE DEF ended
<1>10. kept = [k \in 1..n |-> k]
  BY <1>3, <1>8, AllInOrder
<1>. HIDE DEF kept
<1>11. [k \in DOMAIN kept |-> t[kept[k]]] = u
  <2>1. DOMAIN kept = 1..n /\ \A k \in 1..n : kept[k] = k
    BY <1>10
  <2>2. [k \in DOMAIN kept |-> t[kept[k]]] = [k \in DOMAIN u |-> u[k]]
    BY <1>2, <1>3, <2>1
  <2>3. u = [k \in DOMAIN u |-> u[k]]
    OBVIOUS
  <2>. QED BY <2>2, <2>3
<1>. QED BY <1>1, <1>8, <1>11

RuleOf(s, i) ==
  [id |-> Compiler!Signature(s[i]), of |-> s[i].of, dims |-> s[i].body.dims,
   overrides |->
     {[dim |-> e.dim,
       target |-> Compiler!Signature(s[CHOOSE t \in Compiler!Matches(e.target, s, FALSE) : TRUE])] :
      e \in s[i].overrides}]
SignedApart(s) ==
  \A i, j \in DOMAIN s : Compiler!Signature(s[i]) = Compiler!Signature(s[j]) => i = j

Proposal == [body : Bodies, cite : Cites, overrides : SUBSET [dim : Compiler!Dims, target : TargetNames]]

(* An override of a compiled rule names the identifier of the rule that it *)
(* resolves to.                                                            *)
LEMMA RuleIs ==
  ASSUME NEW s \in Seq(Draft), Compiler!Resolves(s, FALSE), NEW i \in DOMAIN s
  PROVE  /\ RuleOf(s, i).id = Compiler!Signature(s[i]) /\ RuleOf(s, i).of = s[i].of
         /\ RuleOf(s, i).dims = s[i].body.dims
         /\ \A f \in RuleOf(s, i).overrides : \E j \in DOMAIN s :
              /\ f.target = Compiler!Signature(s[j]) /\ f.dim \in s[j].body.dims
              /\ j \in Compiler!Targets(s, FALSE, i)
<1>. DEFINE r(e) == [dim |-> e.dim, target |-> Compiler!Signature(s[CHOOSE t \in
                       Compiler!Matches(e.target, s, FALSE) : TRUE])]
            o == {r(e) : e \in s[i].overrides}
<1>1. RuleOf(s, i) = [id |-> Compiler!Signature(s[i]), of |-> s[i].of, dims |-> s[i].body.dims,
                      overrides |-> o]
  BY DEF RuleOf
<1>2. ASSUME NEW e \in s[i].overrides
      PROVE  \E j \in DOMAIN s :
              /\ r(e).target = Compiler!Signature(s[j]) /\ r(e).dim \in s[j].body.dims
              /\ j \in Compiler!Targets(s, FALSE, i)
  <2>0. FALSE \in BOOLEAN
    OBVIOUS
  <2>1. PICK j \in DOMAIN s :
           /\ Compiler!Matches(e.target, s, FALSE) = {j}
           /\ e.dim \in s[j].body.dims /\ j \in Compiler!Targets(s, FALSE, i)
    BY <2>0, OneMatch
  <2>2. (CHOOSE t \in Compiler!Matches(e.target, s, FALSE) : TRUE) = j
    BY <2>1
  <2>3. r(e) = [dim |-> e.dim, target |-> Compiler!Signature(s[j])]
    BY <2>2
  <2>4. r(e).dim = e.dim /\ r(e).target = Compiler!Signature(s[j])
    <3>. HIDE DEF r
    <3>. QED BY <2>3
  <2>. QED BY <2>1, <2>4
<1>. HIDE DEF r
<1>3. \A f \in o : \E j \in DOMAIN s :
              /\ f.target = Compiler!Signature(s[j]) /\ f.dim \in s[j].body.dims
              /\ j \in Compiler!Targets(s, FALSE, i)
  BY <1>2
<1>. HIDE DEF o
<1>4. /\ RuleOf(s, i).id = Compiler!Signature(s[i]) /\ RuleOf(s, i).of = s[i].of
      /\ RuleOf(s, i).dims = s[i].body.dims /\ RuleOf(s, i).overrides = o
  BY <1>1
<1>. QED BY <1>3, <1>4

(* Drafts that resolve, with identifiers that differ, compile to a valid   *)
(* policy of as many rules.                                                *)
LEMMA PolicyIsValid ==
  ASSUME drafts \in Seq(Draft), Compiler!Resolves(drafts, FALSE), SignedApart(drafts),
         Len(drafts) <= MaxRules, rules = {RuleOf(drafts, i) : i \in DOMAIN drafts}
  PROVE  Compiler!ValidRuleSet /\ {r.of : r \in rules} = {drafts[i].of : i \in DOMAIN drafts}
<1>. DEFINE R(i) == RuleOf(drafts, i)
            I == DOMAIN drafts
            S(i) == Compiler!Signature(drafts[i])
<1>0. I = 1..Len(drafts) /\ Len(drafts) \in Nat
  OBVIOUS
<1>1. \A i \in I : /\ R(i).id = S(i) /\ R(i).of = drafts[i].of /\ R(i).dims = drafts[i].body.dims
                   /\ \A f \in R(i).overrides : \E j \in I :
                        /\ f.target = S(j) /\ f.dim \in drafts[j].body.dims
                        /\ j \in Compiler!Targets(drafts, FALSE, i)
  BY RuleIs
<1>2. \A i, j \in I : S(i) = S(j) => i = j
  BY DEF SignedApart
<1>3. rules = {R(i) : i \in I}
  OBVIOUS
<1>4. ~\E C \in (SUBSET I) \ {{}} : \A i \in C : Compiler!Targets(drafts, FALSE, i) \cap C # {}
  BY DEF Compiler!Resolves
<1>. HIDE DEF R, I, S
<1>5. {r.of : r \in rules} = {drafts[i].of : i \in I}
  <2>1. \A r \in rules : \E i \in I : r.of = drafts[i].of
    BY <1>1, <1>3
  <2>2. \A i \in I : \E r \in rules : r.of = drafts[i].of
    BY <1>1, <1>3
  <2>3. ASSUME NEW x \in {r.of : r \in rules} PROVE x \in {drafts[i].of : i \in I}
    <3>1. PICK r \in rules : x = r.of
      OBVIOUS
    <3>2. PICK i \in I : r.of = drafts[i].of
      BY <2>1
    <3>. QED BY <3>1, <3>2
  <2>4. ASSUME NEW x \in {drafts[i].of : i \in I} PROVE x \in {r.of : r \in rules}
    <3>1. PICK i \in I : x = drafts[i].of
      OBVIOUS
    <3>2. PICK r \in rules : r.of = drafts[i].of
      BY <2>2
    <3>. QED BY <3>1, <3>2
  <2>. QED BY <2>3, <2>4
<1>6. IsFiniteSet(rules) /\ Cardinality(rules) <= MaxRules
  <2>. DEFINE f == [i \in I |-> R(i)]
  <2>1. f \in Surjection(I, rules)
    <3>1. f \in [I -> rules] /\ \A r \in rules : \E i \in I : f[i] = r
      BY <1>3
    <3>. QED BY <3>1 DEF Surjection
  <2>2. IsFiniteSet(I) /\ Cardinality(I) = Len(drafts)
    BY <1>0, FS_Interval
  <2>. HIDE DEF f
  <2>3. IsFiniteSet(rules) /\ Cardinality(rules) <= Cardinality(I)
    BY <2>1, <2>2, FS_Surjection
  <2>4. Cardinality(rules) \in Nat
    BY <2>3, FS_CardinalityType
  <2>. QED BY <1>0, <2>2, <2>3, <2>4, DraftsAssumption
<1>7. Cardinality({r.id : r \in rules}) = Cardinality(rules)
  <2>. DEFINE A == {r.id : r \in rules}
              f == [r \in rules |-> r.id]
  <2>1. \A r, q \in rules : r.id = q.id => r = q
    <3>. SUFFICES ASSUME NEW r \in rules, NEW q \in rules, r.id = q.id PROVE r = q
      OBVIOUS
    <3>1. PICK i \in I : r = R(i)
      BY <1>3
    <3>2. PICK j \in I : q = R(j)
      BY <1>3
    <3>3. S(i) = S(j)
      BY <1>1, <3>1, <3>2
    <3>. QED BY <1>2, <3>1, <3>2, <3>3
  <2>2. f \in [rules -> A] /\ \A x \in A : \E r \in rules : f[r] = x
    OBVIOUS
  <2>3. f \in Surjection(rules, A)
    BY <2>2 DEF Surjection
  <2>4. f \in Injection(rules, A)
    BY <2>1, <2>2 DEF Injection, IsInjective
  <2>. HIDE DEF f, A
  <2>5. Cardinality(A) = Cardinality(rules)
    BY <1>6, <2>3, <2>4, FS_Surjection
  <2>. QED BY <2>5 DEF A
<1>8. \A r \in rules : \A e \in r.overrides : \E t \in rules : t.id = e.target /\ e.dim \in t.dims
  <2>. SUFFICES ASSUME NEW r \in rules, NEW e \in r.overrides
                PROVE  \E t \in rules : t.id = e.target /\ e.dim \in t.dims
    OBVIOUS
  <2>1. PICK i \in I : r = R(i)
    BY <1>3
  <2>2. PICK j \in I : e.target = S(j) /\ e.dim \in drafts[j].body.dims
    BY <1>1, <2>1
  <2>3. R(j) \in rules /\ R(j).id = e.target /\ e.dim \in R(j).dims
    BY <1>1, <1>3, <2>2
  <2>. QED BY <2>3
<1>9. ~\E C \in (SUBSET rules) \ {{}} : \A r \in C : \E e \in r.overrides, t \in C : t.id = e.target
  <2>. SUFFICES ASSUME NEW C \in (SUBSET rules) \ {{}},
                       \A r \in C : \E e \in r.overrides, t \in C : t.id = e.target
                PROVE  FALSE
    OBVIOUS
  <2>. DEFINE D == {i \in I : R(i) \in C}
  <2>1. D \in (SUBSET I) \ {{}}
    <3>1. PICK r \in C : TRUE
      OBVIOUS
    <3>2. PICK i \in I : r = R(i)
      BY <1>3
    <3>3. i \in D
      BY <3>2
    <3>. QED BY <3>3
  <2>2. ASSUME NEW i \in D PROVE Compiler!Targets(drafts, FALSE, i) \cap D # {}
    <3>1. i \in I /\ R(i) \in C
      OBVIOUS
    <3>2. PICK e \in R(i).overrides, t \in C : t.id = e.target
      BY <3>1
    <3>3. PICK j \in I : e.target = S(j) /\ j \in Compiler!Targets(drafts, FALSE, i)
      BY <1>1, <3>1
    <3>4. PICK k \in I : t = R(k)
      BY <1>3
    <3>5. k = j
      <4>1. S(k) = S(j)
        BY <1>1, <3>2, <3>3, <3>4
      <4>. QED BY <1>2, <4>1
    <3>6. j \in D
      BY <3>4, <3>5
    <3>. QED BY <3>3, <3>6
  <2>. HIDE DEF D
  <2>. QED BY <1>4, <2>1, <2>2
<1>10. Compiler!ValidRuleSet
  <2>1. Compiler!Cardinality({r.id : r \in rules}) = Cardinality({r.id : r \in rules})
        /\ Compiler!Cardinality(rules) = Cardinality(rules)
    BY CompilerCounts
  <2>. QED BY <1>6, <1>7, <1>8, <1>9, <2>1 DEF Compiler!ValidRuleSet
<1>. QED BY <1>5, <1>10 DEF I

(* The account in numbers: the drafts and the clauses of rules are as many *)
(* as the rules of the proposal.                                           *)
LEMMA NothingIsLost ==
  ASSUME proposed \in Seq(Proposal), drafts \in Seq(Draft), clauses \in Seq(Clause),
         Accounted(DOMAIN proposed, drafts, DOMAIN drafts, clauses)
  PROVE  /\ {drafts[i].of : i \in DOMAIN drafts} \cup ({clauses[k].of : k \in DOMAIN clauses} \ {0})
              = DOMAIN proposed
         /\ Compiler!Cardinality({clauses[k].id : k \in DOMAIN clauses}) = Len(clauses)
         /\ Len(drafts) + Compiler!Cardinality({k \in DOMAIN clauses : clauses[k].of # 0})
              = Len(proposed)
<1>. DEFINE I == DOMAIN drafts
            K == DOMAIN clauses
            A == {drafts[i].of : i \in I}
            L == {k \in K : clauses[k].of # 0}
            B == {clauses[k].of : k \in L}
            Called == {clauses[k].id : k \in K}
<1>1. DOMAIN proposed = A \cup ({clauses[k].of : k \in K} \ {0})
  BY DEF Accounted
<1>2. {clauses[k].of : k \in K} \ {0} = B
  OBVIOUS
<1>3. IsFiniteSet(I) /\ Cardinality(I) = Len(drafts) /\ IsFiniteSet(K) /\ Cardinality(K) = Len(clauses)
      /\ IsFiniteSet(DOMAIN proposed) /\ Cardinality(DOMAIN proposed) = Len(proposed)
  <2>1. /\ I = 1..Len(drafts) /\ Len(drafts) \in Nat
        /\ K = 1..Len(clauses) /\ Len(clauses) \in Nat
        /\ DOMAIN proposed = 1..Len(proposed) /\ Len(proposed) \in Nat
    OBVIOUS
  <2>2. \A n \in Nat : IsFiniteSet(1..n) /\ Cardinality(1..n) = n
    BY FS_Interval
  <2>. HIDE DEF I, K
  <2>3. IsFiniteSet(I) /\ Cardinality(I) = Len(drafts)
    BY <2>1, <2>2
  <2>4. IsFiniteSet(K) /\ Cardinality(K) = Len(clauses)
    BY <2>1, <2>2
  <2>5. IsFiniteSet(DOMAIN proposed) /\ Cardinality(DOMAIN proposed) = Len(proposed)
    BY <2>1, <2>2
  <2>. QED BY <2>3, <2>4, <2>5
<1>4. Cardinality(Called) = Cardinality(K)
  <2>. DEFINE f == [k \in K |-> clauses[k].id]
  <2>1. f \in [K -> Called] /\ (\A x \in Called : \E k \in K : f[k] = x)
        /\ \A k, l \in K : f[k] = f[l] => k = l
    BY DEF Accounted
  <2>. HIDE DEF f, Called, K
  <2>2. f \in Surjection(K, Called) /\ f \in Injection(K, Called)
    BY <2>1 DEF Surjection, Injection, IsInjective
  <2>. QED BY <1>3, <2>2, FS_Surjection
<1>5. Cardinality(A) = Cardinality(I) /\ IsFiniteSet(A)
  <2>. DEFINE f == [i \in I |-> drafts[i].of]
  <2>1. f \in [I -> A] /\ (\A x \in A : \E i \in I : f[i] = x)
        /\ \A i, j \in I : f[i] = f[j] => i = j
    BY DEF Accounted
  <2>. HIDE DEF f, A, I
  <2>2. f \in Surjection(I, A) /\ f \in Injection(I, A)
    BY <2>1 DEF Surjection, Injection, IsInjective
  <2>. QED BY <1>3, <2>2, FS_Surjection
<1>6. IsFiniteSet(L)
  <2>1. L \in SUBSET K
    OBVIOUS
  <2>. HIDE DEF L, K
  <2>. QED BY <1>3, <2>1, FS_Subset
<1>7. Cardinality(B) = Cardinality(L) /\ IsFiniteSet(B)
  <2>. DEFINE f == [k \in L |-> clauses[k].of]
  <2>1. f \in [L -> B] /\ (\A x \in B : \E k \in L : f[k] = x)
        /\ \A k, l \in L : f[k] = f[l] => k = l
    BY DEF Accounted
  <2>. HIDE DEF f, B, L
  <2>2. f \in Surjection(L, B) /\ f \in Injection(L, B)
    BY <2>1 DEF Surjection, Injection, IsInjective
  <2>. QED BY <1>6, <2>2, FS_Surjection
<1>8. A \cap B = {}
  BY DEF Accounted
<1>9. Len(drafts) + Cardinality(L) = Len(proposed)
  <2>1. DOMAIN proposed = A \cup B
    BY <1>1, <1>2
  <2>. HIDE DEF A, B, I, K, L
  <2>2. Cardinality(A \cup B) = Cardinality(A) + Cardinality(B) - Cardinality(A \cap B)
    BY <1>5, <1>7, FS_Union
  <2>3. Cardinality(A \cap B) = 0
    BY <1>8, FS_EmptySet
  <2>4. Cardinality(A) \in Nat /\ Cardinality(B) \in Nat
    BY <1>5, <1>7, FS_CardinalityType
  <2>. QED BY <1>3, <1>5, <1>7, <2>1, <2>2, <2>3, <2>4
<1>10. Compiler!Cardinality(Called) = Cardinality(Called) /\ Compiler!Cardinality(L) = Cardinality(L)
  BY CompilerCounts
<1>. HIDE DEF L
<1>11. DOMAIN proposed = A \cup ({clauses[k].of : k \in K} \ {0})
       /\ Compiler!Cardinality(Called) = Len(clauses)
       /\ Len(drafts) + Compiler!Cardinality(L) = Len(proposed)
  <2>. HIDE DEF Called, A, I, K
  <2>. QED BY <1>1, <1>3, <1>4, <1>9, <1>10
<1>. QED BY <1>11 DEF L

Stages == {"wire", "public", "extracted", "validated", "compiled", "refused"}
Checked ==
  /\ Standing(drafts) /\ Len(drafts) <= MaxRules
  /\ \A i \in DOMAIN drafts : drafts[i].body.cited
  /\ Distinct(proposed) => Compiler!Resolves(drafts, FALSE)
CompilerInvariant ==
  /\ stage \in Stages
  /\ proposed \in Seq(Proposal) /\ drafts \in Seq(Draft) /\ clauses \in Seq(Clause)
  /\ Accounted(DOMAIN proposed, drafts, DOMAIN drafts, clauses)
  /\ \A i \in DOMAIN drafts : drafts[i].body = proposed[drafts[i].of].body
  /\ stage \in {"validated", "compiled"} => Checked
  /\ stage = "compiled" =>
       /\ Compiler!Resolves(drafts, FALSE) /\ SignedApart(drafts)
       /\ rules = {RuleOf(drafts, i) : i \in DOMAIN drafts}

(* The drafts of a proposal without two rules of one meaning differ in     *)
(* meaning.                                                                *)
LEMMA DraftsDiffer ==
  ASSUME Distinct(proposed), Accounted(DOMAIN proposed, drafts, DOMAIN drafts, clauses),
         \A i \in DOMAIN drafts : drafts[i].body = proposed[drafts[i].of].body
  PROVE  Distinct(drafts)
<1>1. \A i \in DOMAIN drafts : drafts[i].of \in DOMAIN proposed
  BY DEF Accounted
<1>. QED BY <1>1 DEF Accounted, Distinct

(* The account holds of a new proposal.                                    *)
LEMMA CompilerBegins == Compiler!Init => CompilerInvariant
<1>. SUFFICES ASSUME Compiler!Init PROVE CompilerInvariant
  OBVIOUS
<1>1. PICK n \in 1..MaxDrafts :
        proposed \in [1..n -> {r \in Compiler!Proposals(path) : Compiler!WellFormed(r)}]
  BY DEF Compiler!Init
<1>2. n \in Nat /\ DOMAIN proposed = 1..n /\ MaxDrafts \in Nat
  BY <1>1, DraftsAssumption
<1>3. ASSUME NEW r \in Compiler!Proposals(path) PROVE r \in Proposal
  <2>0. path \in {"model", "caller"}
    BY DEF Compiler!Init
  <2>1. \A x \in Compiler!Names(path) : x \in TargetNames
    <3>1. \A h \in Compiler!Handles : h \in Nat
      BY <1>2 DEF Compiler!Handles
    <3>. QED BY <2>0, <3>1 DEF Compiler!Names, TargetNames
  <2>2. PICK b \in Bodies, c \in Cites, o \in Compiler!Edges(path) :
          r = [body |-> b, cite |-> c, overrides |-> o]
    BY DEF Compiler!Proposals
  <2>3. o \in SUBSET [dim : Compiler!Dims, target : TargetNames]
    BY <2>1, <2>2 DEF Compiler!Edges
  <2>. QED BY <2>2, <2>3 DEF Proposal
<1>4. \A i \in 1..n : proposed[i] \in Proposal
  BY <1>1, <1>3
<1>5. proposed \in Seq(Proposal)
  BY <1>1, <1>2, <1>4
<1>6. drafts = [i \in 1..n |-> [body |-> proposed[i].body, cite |-> proposed[i].cite,
                                overrides |-> proposed[i].overrides, of |-> i]]
  BY <1>2 DEF Compiler!Init
<1>7. ASSUME NEW i \in 1..n PROVE drafts[i] \in Draft /\ drafts[i].of = i /\ drafts[i].body = proposed[i].body
  <2>1. drafts[i] = [body |-> proposed[i].body, cite |-> proposed[i].cite,
                     overrides |-> proposed[i].overrides, of |-> i]
    BY <1>6
  <2>2. proposed[i] \in Proposal /\ i \in Nat
    BY <1>2, <1>4
  <2>. QED BY <2>1, <2>2 DEF Draft, Proposal
<1>8. drafts \in Seq(Draft) /\ DOMAIN drafts = 1..n
  <2>1. drafts \in [1..n -> Draft]
    BY <1>6, <1>7
  <2>. QED BY <1>2, <2>1
<1>9. clauses \in Seq(Clause) /\ \A k \in DOMAIN clauses : k = 1 /\ clauses[k].of = 0
  <2>. DEFINE c == [id |-> <<"unsupported-logic", MaxDrafts, 1>>, of |-> 0]
  <2>0. c \in Clause /\ c.of = 0
    BY <1>2 DEF Clause, Reasons
  <2>. HIDE DEF c
  <2>1. clauses = <<>> \/ clauses = <<c>>
    BY DEF Compiler!Init, c
  <2>2. <<c>> \in Seq(Clause) /\ DOMAIN <<c>> = 1..1 /\ <<c>>[1] = c
    BY <2>0
  <2>3. <<>> \in Seq(Clause) /\ DOMAIN <<>> = {}
    OBVIOUS
  <2>4. CASE clauses = <<>>
    BY <2>3, <2>4
  <2>5. CASE clauses = <<c>>
    <3>1. clauses \in Seq(Clause) /\ DOMAIN clauses = 1..1 /\ clauses[1] = c
      BY <2>2, <2>5
    <3>. QED BY <2>0, <3>1
  <2>. QED BY <2>1, <2>4, <2>5
<1>10. Accounted(DOMAIN proposed, drafts, DOMAIN drafts, clauses)
  <2>1. {drafts[i].of : i \in 1..n} = 1..n
    BY <1>7
  <2>2. \A k, l \in DOMAIN clauses : k = l
    BY <1>9
  <2>3. {clauses[k].of : k \in DOMAIN clauses} \ {0} = {}
    BY <1>9
  <2>4. \A i \in 1..n, k \in DOMAIN clauses : clauses[k].of # drafts[i].of
    BY <1>7, <1>9
  <2>5. \A i, j \in 1..n : drafts[i].of = drafts[j].of => i = j
    BY <1>7
  <2>. QED BY <1>2, <1>8, <2>1, <2>2, <2>3, <2>4, <2>5 DEF Accounted
<1>11. stage \in Stages \ {"validated", "compiled"}
  BY DEF Compiler!Init, Stages
<1>. QED BY <1>5, <1>7, <1>8, <1>9, <1>10, <1>11 DEF CompilerInvariant

(* What a rewriting or a validation leaves of the drafts. *)
LEMMA StillAccounted ==
  ASSUME CompilerInvariant, NEW u \in Seq(Draft), NEW cs \in Seq(Clause),
         Accounted(DOMAIN proposed, u, DOMAIN u, cs), NEW g,
         g \in [DOMAIN u -> DOMAIN drafts],
         \A k \in DOMAIN u : u[k].body = drafts[g[k]].body /\ u[k].of = drafts[g[k]].of
  PROVE  \A k \in DOMAIN u : u[k].body = proposed[u[k].of].body
BY DEF CompilerInvariant

(* Resolving the handles of a model keeps the account.                     *)
LEMMA ExpansionGoesOn ==
  ASSUME CompilerInvariant, Compiler!Expand
  PROVE  CompilerInvariant'
<1>1. /\ proposed \in Seq(Proposal) /\ drafts \in Seq(Draft) /\ clauses \in Seq(Clause)
      /\ Accounted(DOMAIN proposed, drafts, DOMAIN drafts, clauses)
      /\ \A i \in DOMAIN drafts : drafts[i].body = proposed[drafts[i].of].body
  BY DEF CompilerInvariant
<1>2. UNCHANGED <<proposed, clauses>> /\ stage' \in {"extracted", "refused"}
  BY DEF Compiler!Expand
<1>3. /\ drafts' \in Seq(Draft) /\ Accounted(DOMAIN proposed, drafts', DOMAIN drafts', clauses)
      /\ \A i \in DOMAIN drafts' : drafts'[i].body = proposed[drafts'[i].of].body
  <2>1. CASE drafts' = drafts
    BY <1>1, <2>1
  <2>2. CASE Compiler!Resolves(drafts, TRUE) /\ drafts' = Compiler!Rewritten(drafts, TRUE)
    <3>0. TRUE \in BOOLEAN
      OBVIOUS
    <3>1. /\ drafts' \in Seq(Draft) /\ DOMAIN drafts' = DOMAIN drafts
          /\ \A i \in DOMAIN drafts : drafts'[i].body = drafts[i].body /\ drafts'[i].of = drafts[i].of
      BY <1>1, <2>2, <3>0, RewrittenIs
    <3>2. Accounted(DOMAIN proposed, drafts', DOMAIN drafts', clauses)
      BY <1>1, <3>1 DEF Accounted
    <3>. QED BY <1>1, <3>1, <3>2
  <2>. QED BY <2>1, <2>2 DEF Compiler!Expand
<1>. QED BY <1>1, <1>2, <1>3 DEF CompilerInvariant, Stages

(* A validation keeps the account, and leaves drafts that were checked.    *)
LEMMA ValidationGoesOn ==
  ASSUME CompilerInvariant, Compiler!Validate
  PROVE  CompilerInvariant'
<1>1. /\ proposed \in Seq(Proposal) /\ drafts \in Seq(Draft) /\ clauses \in Seq(Clause)
      /\ Accounted(DOMAIN proposed, drafts, DOMAIN drafts, clauses)
      /\ \A i \in DOMAIN drafts : drafts[i].body = proposed[drafts[i].of].body
  BY DEF CompilerInvariant
<1>2. CASE ~Compiler!Resolves(drafts, FALSE)
  <2>1. UNCHANGED <<proposed, drafts, clauses>> /\ stage' = "refused"
    BY <1>2 DEF Compiler!Validate
  <2>. QED BY <1>1, <2>1 DEF CompilerInvariant, Stages
<1>3. CASE Compiler!Resolves(drafts, FALSE)
  <2>. DEFINE t == Compiler!Rewritten(drafts, FALSE)
              v == Compiler!Validated(drafts)
              N == DOMAIN proposed
  <2>1. /\ proposed' = proposed /\ drafts' = v.drafts /\ clauses' = v.clauses
        /\ stage' \in {"public", "validated"}
    BY <1>3 DEF Compiler!Validate
  <2>2. N \in SUBSET (Nat \ {0}) /\ Accounted(N, drafts, DOMAIN drafts, clauses)
    BY <1>1
  <2>3. /\ drafts' \in Seq(Draft) /\ clauses' \in Seq(Clause)
        /\ Accounted(N, drafts', DOMAIN drafts', clauses')
        /\ Len(drafts') <= MaxRules /\ (\A k \in DOMAIN drafts' : drafts'[k].body.cited)
        /\ Standing(drafts') /\ \E g : Among(g, drafts', drafts, t)
    <3>. HIDE DEF N
    <3>1. Settled(N, drafts, v.drafts, v.clauses)
      BY <1>1, <1>3, <2>2, ValidatedStands
    <3>. HIDE DEF v
    <3>. QED BY <2>1, <3>1 DEF Cited, Settled
  <2>4. PICK g : Among(g, drafts', drafts, t)
    BY <2>3
  <2>5. \A i \in DOMAIN drafts : t[i].body = drafts[i].body /\ t[i].of = drafts[i].of
    <3>1. FALSE \in BOOLEAN
      OBVIOUS
    <3>. QED BY <1>1, <1>3, <3>1, RewrittenIs
  <2>. HIDE DEF v
  <2>6. \A k \in DOMAIN drafts' : drafts'[k].body = proposed[drafts'[k].of].body
    <3>. HIDE DEF t
    <3>. QED BY <1>1, <2>4, <2>5 DEF Among
  <2>7. Distinct(proposed) => Compiler!Resolves(drafts', FALSE)
    <3>. SUFFICES ASSUME Distinct(proposed) PROVE Compiler!Resolves(drafts', FALSE)
      OBVIOUS
    <3>1. Distinct(drafts)
      BY <1>1, DraftsDiffer
    <3>. QED BY <1>1, <1>3, <2>3, <2>4, <3>1, ResolvesAgain
  <2>8. Checked'
    <3>1. Distinct(proposed)' <=> Distinct(proposed)
      BY <2>1
    <3>2. Compiler!Resolves(drafts, FALSE)' <=> Compiler!Resolves(drafts', FALSE)
      BY DEF Compiler!Resolves
    <3>3. Standing(drafts)' <=> Standing(drafts')
      BY DEF Standing
    <3>. QED BY <2>3, <2>7, <3>1, <3>2, <3>3 DEF Checked
  <2>. QED BY <1>1, <2>1, <2>3, <2>6, <2>8 DEF CompilerInvariant, Stages
<1>. QED BY <1>2, <1>3

(* A compilation keeps the account, and compiles the drafts.               *)
LEMMA CompilationGoesOn ==
  ASSUME CompilerInvariant, Compiler!Compile
  PROVE  CompilerInvariant'
<1>1. UNCHANGED <<proposed, drafts, clauses>> /\ stage' \in {"compiled", "refused"} /\ Checked
  BY DEF Compiler!Compile, CompilerInvariant
<1>2. Checked'
  BY <1>1 DEF Checked
<1>3. stage' = "compiled" =>
        /\ Compiler!Resolves(drafts, FALSE) /\ SignedApart(drafts)
        /\ rules' = {RuleOf(drafts, i) : i \in DOMAIN drafts}
  <2>. SUFFICES ASSUME stage' = "compiled"
                PROVE  /\ Compiler!Resolves(drafts, FALSE) /\ SignedApart(drafts)
                       /\ rules' = {RuleOf(drafts, i) : i \in DOMAIN drafts}
    OBVIOUS
  <2>. QED BY DEF Compiler!Compile, SignedApart, RuleOf
<1>. QED BY <1>1, <1>2, <1>3 DEF CompilerInvariant, Stages

(* Every step of the compiler keeps its invariant.                         *)
LEMMA CompilerGoesOn == CompilerInvariant /\ [Compiler!Next]_(Compiler!vars) => CompilerInvariant'
<1>. SUFFICES ASSUME CompilerInvariant, [Compiler!Next]_(Compiler!vars) PROVE CompilerInvariant'
  OBVIOUS
<1>1. CASE UNCHANGED Compiler!vars
  BY <1>1 DEF Compiler!vars, CompilerInvariant, Checked
<1>. QED BY <1>1, ExpansionGoesOn, ValidationGoesOn, CompilationGoesOn DEF Compiler!Next

(* No rule is lost, what is compiled is valid, and a second validation     *)
(* finds nothing to do.                                                    *)
LEMMA CompilerKeepsDrafts == CompilerInvariant => Compiler!TypeOK /\ Compiler!DraftsAreKept
<1>. SUFFICES ASSUME CompilerInvariant PROVE Compiler!TypeOK /\ Compiler!DraftsAreKept
  OBVIOUS
<1>1. /\ proposed \in Seq(Proposal) /\ drafts \in Seq(Draft) /\ clauses \in Seq(Clause)
      /\ Accounted(DOMAIN proposed, drafts, DOMAIN drafts, clauses)
      /\ \A i \in DOMAIN drafts : drafts[i].body = proposed[drafts[i].of].body
  BY DEF CompilerInvariant
<1>2. Compiler!TypeOK
  <2>1. {drafts[i].of : i \in DOMAIN drafts} \subseteq DOMAIN proposed
    BY <1>1 DEF Accounted
  <2>. QED BY <2>1 DEF CompilerInvariant, Stages, Compiler!TypeOK
<1>3. /\ {drafts[i].of : i \in DOMAIN drafts} \cup ({clauses[k].of : k \in DOMAIN clauses} \ {0})
           = DOMAIN proposed
      /\ Compiler!Cardinality({clauses[k].id : k \in DOMAIN clauses}) = Len(clauses)
      /\ Len(drafts) + Compiler!Cardinality({k \in DOMAIN clauses : clauses[k].of # 0})
           = Len(proposed)
  BY <1>1, NothingIsLost
<1>4. stage = "compiled" => /\ Compiler!ValidRuleSet
                            /\ {r.of : r \in rules} = {drafts[i].of : i \in DOMAIN drafts}
  <2>. SUFFICES ASSUME stage = "compiled"
                PROVE  /\ Compiler!ValidRuleSet
                       /\ {r.of : r \in rules} = {drafts[i].of : i \in DOMAIN drafts}
    OBVIOUS
  <2>1. /\ Compiler!Resolves(drafts, FALSE) /\ SignedApart(drafts) /\ Len(drafts) <= MaxRules
        /\ rules = {RuleOf(drafts, i) : i \in DOMAIN drafts}
    BY DEF CompilerInvariant, Checked
  <2>. QED BY <1>1, <2>1, PolicyIsValid
<1>5. stage = "validated" =>
        \/ \E i, j \in DOMAIN proposed : i # j /\ proposed[i].body = proposed[j].body
        \/ /\ Compiler!Resolves(drafts, FALSE)
           /\ Compiler!Validated(drafts) = [drafts |-> drafts, clauses |-> clauses]
  <2>. SUFFICES ASSUME stage = "validated", Distinct(proposed)
                PROVE  /\ Compiler!Resolves(drafts, FALSE)
                       /\ Compiler!Validated(drafts) = [drafts |-> drafts, clauses |-> clauses]
    BY DEF Distinct
  <2>1. Checked
    BY DEF CompilerInvariant
  <2>2. Distinct(drafts)
    BY <1>1, DraftsDiffer
  <2>. DEFINE N == DOMAIN proposed
  <2>3. N \in SUBSET (Nat \ {0}) /\ Accounted(N, drafts, DOMAIN drafts, clauses)
    BY <1>1
  <2>. HIDE DEF N
  <2>4. Compiler!Validated(drafts) = [drafts |-> drafts, clauses |-> clauses]
    BY <1>1, <2>1, <2>2, <2>3, NothingLeftToDo DEF Checked
  <2>. QED BY <2>1, <2>4 DEF Checked
<1>. HIDE DEF CompilerInvariant
<1>. QED BY <1>2, <1>3, <1>4, <1>5 DEF Compiler!DraftsAreKept

-----------------------------------------------------------------------------
(* The rule engines.                                                       *)

RulesInvariant ==
  /\ chosen \in {"gate", "precedence"} => GateInvariant
  /\ chosen = "claims" => CaseIsSound(case, rules)
  /\ chosen = "drafts" => CompilerInvariant

(* Each part of the rule engines keeps the invariant of its own            *)
(* (service.py, extraction.py, compiler.py, engine.py, applier.py).        *)
THEOREM RulesInvariantHolds == AllSpec => []RulesInvariant
<1>1. AllInit => RulesInvariant
  <2>. SUFFICES ASSUME AllInit PROVE RulesInvariant
    OBVIOUS
  <2>1. chosen \in {"gate", "precedence"} => GateInvariant
    BY GateBegins DEF AllInit, Gate!Init
  <2>2. chosen = "claims" => CaseIsSound(case, rules)
    BY ClaimsBegin DEF AllInit
  <2>3. chosen = "drafts" => CompilerInvariant
    BY CompilerBegins DEF AllInit
  <2>. QED BY <2>1, <2>2, <2>3 DEF RulesInvariant
<1>2. GateInvariant /\ [Gate!Next]_(Gate!vars) => GateInvariant'
  BY GateGoesOn
<1>3. CaseIsSound(case, rules) /\ [Claims!Next]_(Claims!vars) => CaseIsSound(case, rules)'
  BY ClaimsGoOn
<1>4. CompilerInvariant /\ [Compiler!Next]_(Compiler!vars) => CompilerInvariant'
  BY CompilerGoesOn
<1>5. ASSUME RulesInvariant, [AllNext]_allVars PROVE RulesInvariant'
  <2>1. CASE chosen = "gate" /\ Gate!Next /\ UNCHANGED chosen
    <3>1. GateInvariant'
      BY <1>2, <1>5, <2>1 DEF RulesInvariant
    <3>. QED BY <2>1, <3>1 DEF RulesInvariant
  <2>2. CASE chosen = "claims" /\ Claims!Next /\ UNCHANGED chosen
    <3>1. CaseIsSound(case, rules)'
      BY <1>3, <1>5, <2>2 DEF RulesInvariant
    <3>. QED BY <2>2, <3>1 DEF RulesInvariant
  <2>3. CASE chosen = "drafts" /\ Compiler!Next /\ UNCHANGED chosen
    <3>1. CompilerInvariant'
      BY <1>4, <1>5, <2>3 DEF RulesInvariant
    <3>. QED BY <2>3, <3>1 DEF RulesInvariant
  <2>4. CASE UNCHANGED allVars
    <3>1. /\ UNCHANGED Gate!vars /\ UNCHANGED Claims!vars /\ UNCHANGED Compiler!vars
          /\ UNCHANGED chosen
      BY <2>4 DEF allVars, policyVars, draftVars, Gate!vars, Claims!vars, Compiler!vars
    <3>2. (GateInvariant => GateInvariant') /\ (CompilerInvariant => CompilerInvariant')
          /\ (CaseIsSound(case, rules) => CaseIsSound(case, rules)')
      BY <1>2, <1>3, <1>4, <3>1
    <3>. QED BY <1>5, <3>1, <3>2 DEF RulesInvariant
  <2>5. CASE chosen \in {"templates", "texts"} /\ UNCHANGED chosen
    BY <2>5 DEF RulesInvariant
  <2>. QED BY <1>5, <2>1, <2>2, <2>3, <2>4, <2>5 DEF AllNext, Part
<1>. QED BY <1>1, <1>5, PTL DEF AllSpec

(* The claims of a run stay within the policy and its budget, for any      *)
(* participants, journeys, amounts and allowances (service.py).            *)
THEOREM ClaimsStaySound == AllSpec => []ClaimsAreSound
<1>1. RulesInvariant => ClaimsAreSound
  BY ClaimsAreKept DEF RulesInvariant, ClaimsAreSound
<1>. QED BY <1>1, RulesInvariantHolds, PTL

(* No rule of a proposal is lost without an error, and what compiles is    *)
(* valid, for any rules, citations and limit (extraction.py, compiler.py). *)
THEOREM DraftsStayKept == AllSpec => []DraftsAreKept
<1>1. RulesInvariant => DraftsAreKept
  BY CompilerKeepsDrafts DEF RulesInvariant, DraftsAreKept
<1>. QED BY <1>1, RulesInvariantHolds, PTL

(* Rules that apply always leave one to decide, and no gap or conflict is  *)
(* missing from the findings, for any suite and policies (resolution.py,   *)
(* findings.py).                                                           *)
THEOREM EvaluationStaysComplete == AllSpec => []EvaluationIsComplete
<1>1. RulesInvariant => EvaluationIsComplete
  BY GateEvaluates DEF RulesInvariant, EvaluationIsComplete
<1>. QED BY <1>1, RulesInvariantHolds, PTL

(* What is applied stays within its findings and what is accepted makes    *)
(* nothing worse, for any suite, policies and proposals (applier.py,       *)
(* regression.py).                                                         *)
THEOREM RevisionStaysSafe == AllSpec => []RevisionIsSafe
<1>1. RulesInvariant => RevisionIsSafe
  BY GateIsSafe DEF RulesInvariant, RevisionIsSafe
<1>. QED BY <1>1, RulesInvariantHolds, PTL
=============================================================================
