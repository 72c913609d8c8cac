------------------------------ MODULE RunStore ------------------------------
(***************************************************************************)
(* backend/app/workflow/store.py: the in-memory store of private runs.     *)
(*                                                                         *)
(* A run id is bound to an _Entry object that holds the stored record, a   *)
(* monotonic deadline and a per-run asyncio.Lock.  A block under           *)
(* _entries_lock contains no await, so each such block is one action.      *)
(* Everywhere else an await is a point where any other call may run: a     *)
(* call captures the entry, queues for its lock, re-reads the record, and  *)
(* commits, while delete, purge_expired and aclose never wait for the      *)
(* per-run lock and may pull the entry away in between.                    *)
(*                                                                         *)
(* Entry objects have an identity: after delete a new entry may be bound   *)
(* to the same run id, and a call that captured the old one must notice.   *)
(***************************************************************************)
EXTENDS Naturals, FiniteSets

CONSTANTS
  Runs,        \* run ids
  Procs,       \* concurrent callers of the store
  Entries,     \* identities of _Entry objects; each create makes one
  None,        \* no entry, no holder of a lock, no run
  Ttl,         \* ttl_seconds, in clock ticks
  MaxTime,     \* bound: last tick of the monotonic clock
  MaxVersion   \* bound: expected versions that callers use are below it

ASSUME NoneAssumption == None \notin Entries \union Procs \union Runs
ASSUME TtlAssumption == Ttl \in Nat \ {0}
ASSUME BoundsAssumption == MaxTime \in Nat /\ MaxVersion \in Nat

VARIABLES
  entries,     \* _entries: run id -> the entry object bound to it, or None
  allocated,   \* entry objects created so far
  record,      \* _Entry.record
  deadline,    \* _Entry.deadline
  lock,        \* _Entry.lock: the caller that holds it, or None
  closed,      \* _closed
  now,         \* the monotonic clock
  pc,          \* where each caller stands inside its call
  req,         \* the arguments of each caller's call
  held,        \* the entry object a call created or captured
  seen,        \* `current` in mutate: the snapshot the change is applied to
  stamp,       \* a monotonic reading taken before _entries_lock was entered
  answer,      \* what each idle caller's last call returned or raised
  acked        \* history: the mutations that returned normally

storeVars == <<entries, allocated, record, deadline, closed>>
callVars == <<pc, req, held, seen, stamp, answer>>
vars == <<entries, allocated, record, deadline, lock, closed, now,
          pc, req, held, seen, stamp, answer, acked>>

-----------------------------------------------------------------------------
(* The stored record, abstracted to its version and to the set of changes  *)
(* applied to it; a change is named by its caller and the version it was   *)
(* computed for.                                                           *)

Change == [by : Procs, at : Nat]
Records == [version : Nat, changes : SUBSET Change]

NewRecord == [version |-> 0, changes |-> {}]

Applied(rec, p, v) ==
  [version |-> rec.version + 1,
   changes |-> rec.changes \union {[by |-> p, at |-> v]}]

Requests ==
  [op : {"get", "mutate", "create", "purge", "none"},
   run : Runs \union {None}, expected : Nat]

NoRequest == [op |-> "none", run |-> None, expected |-> 0]

Failures == {"none", "not_found", "conflict", "invalid", "cancelled", "done"}
Answers == [status : Failures \union {"ok"}, value : Records]

Failed(status) == [status |-> status, value |-> NewRecord]
Returned(rec) == [status |-> "ok", value |-> rec]

Fresh == Entries \ allocated

Live(e) == \E r \in Runs : entries[r] = e
Unborn(e) == \E p \in Procs : pc[p] = "creating" /\ held[p] = e
Dead(e) == e \in allocated /\ ~Live(e) /\ ~Unborn(e)

Init ==
  /\ entries = [r \in Runs |-> None]
  /\ allocated = {}
  /\ record = [e \in Entries |-> NewRecord]
  /\ deadline = [e \in Entries |-> 0]
  /\ lock = [e \in Entries |-> None]
  /\ closed = FALSE
  /\ now = 0
  /\ pc = [p \in Procs |-> "idle"]
  /\ req = [p \in Procs |-> NoRequest]
  /\ held = [p \in Procs |-> None]
  /\ seen = [p \in Procs |-> NewRecord]
  /\ stamp = [p \in Procs |-> 0]
  /\ answer = [p \in Procs |-> Failed("none")]
  /\ acked = {}

-----------------------------------------------------------------------------
(* Leaving a call: the caller is idle again and forgets what it captured.  *)

Leave(p, result) ==
  /\ pc' = [pc EXCEPT ![p] = "idle"]
  /\ answer' = [answer EXCEPT ![p] = result]
  /\ held' = [held EXCEPT ![p] = None]
  /\ seen' = [seen EXCEPT ![p] = NewRecord]
  /\ stamp' = [stamp EXCEPT ![p] = 0]
  /\ req' = [req EXCEPT ![p] = NoRequest]

Enter(p, step, request) ==
  /\ pc' = [pc EXCEPT ![p] = step]
  /\ req' = [req EXCEPT ![p] = request]
  /\ answer' = [answer EXCEPT ![p] = Failed("none")]
  /\ UNCHANGED seen

(* Faulty variant: a call that leaves without releasing its per-run lock. *)
KeepLock(p) == UNCHANGED lock

Release(p) == lock' = [lock EXCEPT ![held[p]] = None]

(* create: the clock is read and the entry object is made before           *)
(* _entries_lock is entered, so the deadline and the "still live" test use *)
(* a reading that may be old by then.                                      *)

BeginCreate(p, r) ==
  /\ pc[p] = "idle"
  /\ \E e \in Fresh :
       /\ allocated' = allocated \union {e}
       /\ record' = [record EXCEPT ![e] = NewRecord]
       /\ deadline' = [deadline EXCEPT ![e] = now + Ttl]
       /\ held' = [held EXCEPT ![p] = e]
  /\ Enter(p, "creating", [op |-> "create", run |-> r, expected |-> 0])
  /\ stamp' = [stamp EXCEPT ![p] = now]
  /\ UNCHANGED <<entries, lock, closed, now, acked>>

(* Faulty variant: create without the test for a live entry.             *)
MayAlwaysBind(p) == TRUE

MayBind(p) ==
  LET current == entries[req[p].run]
  IN  current # None => deadline[current] <= stamp[p]

CreateInserted(p) ==
  /\ pc[p] = "creating"
  /\ ~closed
  /\ MayBind(p)
  /\ entries' = [entries EXCEPT ![req[p].run] = held[p]]
  /\ Leave(p, Returned(NewRecord))
  /\ UNCHANGED <<allocated, record, deadline, lock, closed, now, acked>>

CreateRefused(p) ==
  /\ pc[p] = "creating"
  /\ closed \/ ~MayBind(p)
  /\ Leave(p, Failed("invalid"))
  /\ UNCHANGED <<storeVars, lock, now, acked>>

-----------------------------------------------------------------------------
(* get and mutate: capture the entry, queue for its lock, re-read.         *)

Capture(p, op, r, v) ==
  /\ pc[p] = "idle"
  /\ ~closed
  /\ entries[r] # None
  /\ held' = [held EXCEPT ![p] = entries[r]]
  /\ Enter(p, "waiting", [op |-> op, run |-> r, expected |-> v])
  /\ UNCHANGED <<storeVars, lock, now, stamp, acked>>

CaptureMissed(p, r) ==
  /\ pc[p] = "idle"
  /\ closed \/ entries[r] = None
  /\ Leave(p, Failed("not_found"))
  /\ UNCHANGED <<storeVars, lock, now, acked>>

(* Faulty variant: the per-run lock taken without waiting for its holder. *)
AcquireHeld(p) ==
  /\ pc[p] = "waiting"
  /\ lock' = [lock EXCEPT ![held[p]] = p]
  /\ pc' = [pc EXCEPT ![p] = "locked"]
  /\ UNCHANGED <<storeVars, now, req, held, seen, stamp, answer, acked>>

Acquire(p) ==
  /\ pc[p] = "waiting"
  /\ lock[held[p]] = None
  /\ lock' = [lock EXCEPT ![held[p]] = p]
  /\ pc' = [pc EXCEPT ![p] = "locked"]
  /\ UNCHANGED <<storeVars, now, req, held, seen, stamp, answer, acked>>

(* Faulty variant: the entry looked up by run id, not by identity.       *)
AnyEntryBound(p) == ~closed /\ entries[req[p].run] # None
(* Faulty variant: mutate without its version test.                      *)
AnyVersionMatches(p) == TRUE

StillBound(p) == ~closed /\ entries[req[p].run] = held[p]
Expired(p) == deadline[held[p]] <= now
VersionMatches(p) == record[held[p]].version = req[p].expected

(* _current_record finds the captured entry gone.                          *)
Vanished(p) ==
  /\ pc[p] = "locked"
  /\ ~StillBound(p)
  /\ Release(p)
  /\ Leave(p, Failed("not_found"))
  /\ UNCHANGED <<storeVars, now, acked>>

(* _current_record finds the deadline reached and unbinds the run itself.  *)
ExpiredOnRead(p) ==
  /\ pc[p] = "locked"
  /\ StillBound(p)
  /\ Expired(p)
  /\ entries' = [entries EXCEPT ![req[p].run] = None]
  /\ Release(p)
  /\ Leave(p, Failed("not_found"))
  /\ UNCHANGED <<allocated, record, deadline, closed, now, acked>>

GetReturned(p) ==
  /\ pc[p] = "locked"
  /\ req[p].op = "get"
  /\ StillBound(p)
  /\ ~Expired(p)
  /\ Release(p)
  /\ Leave(p, Returned(record[held[p]]))
  /\ UNCHANGED <<storeVars, now, acked>>

Conflict(p) ==
  /\ pc[p] = "locked"
  /\ req[p].op = "mutate"
  /\ StillBound(p)
  /\ ~Expired(p)
  /\ ~VersionMatches(p)
  /\ Release(p)
  /\ Leave(p, Failed("conflict"))
  /\ UNCHANGED <<storeVars, now, acked>>

(* The versions agree: `change` is applied to an independent snapshot.     *)
Snapshot(p) ==
  /\ pc[p] = "locked"
  /\ req[p].op = "mutate"
  /\ StillBound(p)
  /\ ~Expired(p)
  /\ VersionMatches(p)
  /\ seen' = [seen EXCEPT ![p] = record[held[p]]]
  /\ pc' = [pc EXCEPT ![p] = "changing"]
  /\ UNCHANGED <<storeVars, lock, now, req, held, stamp, answer, acked>>

-----------------------------------------------------------------------------
(* The second half of mutate, after `change` has been evaluated.           *)

ChangeInvalid(p) ==
  /\ pc[p] = "changing"
  /\ Release(p)
  /\ Leave(p, Failed("invalid"))
  /\ UNCHANGED <<storeVars, now, acked>>

CommitVanished(p) ==
  /\ pc[p] = "changing"
  /\ ~StillBound(p)
  /\ Release(p)
  /\ Leave(p, Failed("not_found"))
  /\ UNCHANGED <<storeVars, now, acked>>

CommitExpired(p) ==
  /\ pc[p] = "changing"
  /\ StillBound(p)
  /\ Expired(p)
  /\ entries' = [entries EXCEPT ![req[p].run] = None]
  /\ Release(p)
  /\ Leave(p, Failed("not_found"))
  /\ UNCHANGED <<allocated, record, deadline, closed, now, acked>>

(* Faulty variant: the deadline not read again at the commit.            *)
CommitAllowedLate(p) == StillBound(p)
CommitAllowed(p) == StillBound(p) /\ ~Expired(p)

Commit(p) ==
  LET updated == Applied(seen[p], p, req[p].expected)
  IN  /\ pc[p] = "changing"
      /\ CommitAllowed(p)
      /\ record' = [record EXCEPT ![held[p]] = updated]
      /\ acked' = acked \union
           {[entry |-> held[p], by |-> p, at |-> req[p].expected]}
      /\ Release(p)
      /\ Leave(p, Returned(updated))
      /\ UNCHANGED <<entries, allocated, deadline, closed, now>>

-----------------------------------------------------------------------------
(* Removal.  None of these waits for a per-run lock.                       *)

Delete(p, r) ==
  /\ pc[p] = "idle"
  /\ ~closed
  /\ entries[r] # None
  /\ entries' = [entries EXCEPT ![r] = None]
  /\ Leave(p, Failed("done"))
  /\ UNCHANGED <<allocated, record, deadline, lock, closed, now, acked>>

(* The sweep passes purge_expired a clock reading taken by the caller.     *)
BeginPurge(p) ==
  /\ pc[p] = "idle"
  /\ Enter(p, "purging", [op |-> "purge", run |-> None, expected |-> 0])
  /\ stamp' = [stamp EXCEPT ![p] = now]
  /\ UNCHANGED <<storeVars, lock, now, held, acked>>

PurgeDue(p, r) == entries[r] # None /\ deadline[entries[r]] <= stamp[p]

Purge(p) ==
  /\ pc[p] = "purging"
  /\ ~closed
  /\ entries' = [r \in Runs |-> IF PurgeDue(p, r) THEN None ELSE entries[r]]
  /\ Leave(p, Failed("done"))
  /\ UNCHANGED <<allocated, record, deadline, lock, closed, now, acked>>

PurgeClosed(p) ==
  /\ pc[p] = "purging"
  /\ closed
  /\ Leave(p, Failed("done"))
  /\ UNCHANGED <<storeVars, lock, now, acked>>

(* The caller's task is cancelled at an await; `async with` lets go of the *)
(* per-run lock on the way out.                                            *)
Cancelled(p) ==
  /\ pc[p] # "idle"
  /\ lock' = [e \in Entries |-> IF lock[e] = p THEN None ELSE lock[e]]
  /\ Leave(p, Failed("cancelled"))
  /\ UNCHANGED <<storeVars, now, acked>>

Close ==
  /\ ~closed
  /\ closed' = TRUE
  /\ entries' = [r \in Runs |-> None]
  /\ UNCHANGED <<allocated, record, deadline, lock, now, callVars, acked>>

Tick ==
  /\ now < MaxTime
  /\ now' = now + 1
  /\ UNCHANGED <<storeVars, lock, callVars, acked>>

-----------------------------------------------------------------------------

(* The steps a caller takes on its own once its call has begun.            *)
Continue(p) ==
  \/ CreateInserted(p)
  \/ CreateRefused(p)
  \/ Vanished(p)
  \/ ExpiredOnRead(p)
  \/ GetReturned(p)
  \/ Conflict(p)
  \/ Snapshot(p)
  \/ ChangeInvalid(p)
  \/ CommitVanished(p)
  \/ CommitExpired(p)
  \/ Commit(p)
  \/ Purge(p)
  \/ PurgeClosed(p)

(* A call begins; delete is over in the same step.                         *)
Call(p) ==
  \/ \E r \in Runs :
       \/ BeginCreate(p, r)
       \/ Capture(p, "get", r, 0)
       \/ \E v \in 0 .. MaxVersion - 1 : Capture(p, "mutate", r, v)
       \/ CaptureMissed(p, r)
       \/ Delete(p, r)
  \/ BeginPurge(p)

Next ==
  \/ \E p \in Procs : Call(p) \/ Acquire(p) \/ Continue(p) \/ Cancelled(p)
  \/ Close
  \/ Tick

Spec == Init /\ [][Next]_vars

(* The event loop keeps running a ready coroutine, and asyncio.Lock wakes  *)
(* its waiters in order; nobody is obliged to start another call.          *)
Fairness ==
  /\ \A p \in Procs : WF_vars(Continue(p))
  /\ \A p \in Procs : SF_vars(Acquire(p))

FairSpec == Spec /\ Fairness
-----------------------------------------------------------------------------
(* Properties.                                                             *)

InCall == {"waiting", "locked", "changing"}

(* Types of the store's and the callers' variables; a call past its first  *)
(* step has an entry object and a run id at hand.                          *)
TypeOK ==
  /\ entries \in [Runs -> Entries \union {None}]
  /\ allocated \in SUBSET Entries
  /\ record \in [Entries -> Records]
  /\ deadline \in [Entries -> Nat]
  /\ lock \in [Entries -> Procs \union {None}]
  /\ closed \in BOOLEAN
  /\ now \in Nat
  /\ pc \in [Procs -> {"idle", "creating", "purging"} \union InCall]
  /\ req \in [Procs -> Requests]
  /\ held \in [Procs -> Entries \union {None}]
  /\ seen \in [Procs -> Records]
  /\ stamp \in [Procs -> Nat]
  /\ answer \in [Procs -> Answers]
  /\ acked \in SUBSET [entry : Entries, by : Procs, at : Nat]
  /\ \A p \in Procs :
       pc[p] \in InCall \union {"creating"} =>
         held[p] \in Entries /\ req[p].run \in Runs

(* mutate is a compare-and-swap: of the calls that carry the same expected *)
(* version of the same entry at most one returns normally, although each   *)
(* read the version before it wrote.                                       *)
OneWinnerPerVersion ==
  \A a, b \in acked : a.entry = b.entry /\ a.at = b.at => a = b

(* No update is lost: every change whose mutate returned is still in the   *)
(* record, nothing else is, and the version counts them.                   *)
NoLostUpdate ==
  \A e \in Entries :
    /\ record[e].changes =
         {[by |-> a.by, at |-> a.at] : a \in {b \in acked : b.entry = e}}
    /\ \A v \in 0 .. MaxVersion :
         v < record[e].version <=> \E c \in record[e].changes : c.at = v

(* The inductive invariant behind them: past Acquire a call owns its       *)
(* entry's lock, so the snapshot it computes from is still the record.     *)
HoldersOwnTheLock ==
  \A p \in Procs : pc[p] \in {"locked", "changing"} => lock[held[p]] = p

SnapshotIsCurrent ==
  \A p \in Procs : pc[p] = "changing" =>
    /\ req[p].op = "mutate"
    /\ seen[p] = record[held[p]]
    /\ seen[p].version = req[p].expected

OnlyAllocatedInUse ==
  /\ \A p \in Procs :
       pc[p] \in InCall \union {"creating"} => held[p] \in allocated
  /\ \A a \in acked : a.entry \in allocated
  /\ \A r \in Runs : entries[r] \in allocated \union {None}

AckedBelowVersion ==
  \A a \in acked : a.at < record[a.entry].version

StoreInv ==
  /\ TypeOK
  /\ HoldersOwnTheLock
  /\ SnapshotIsCurrent
  /\ OnlyAllocatedInUse
  /\ AckedBelowVersion
  /\ OneWinnerPerVersion
  /\ NoLostUpdate

(* An entry object removed by delete, expiry, purge or aclose never comes  *)
(* back and is never written again, whatever calls had captured it.        *)
DeadStaysDead ==
  [][\A e \in Entries : Dead(e) => Dead(e)' /\ record'[e] = record[e]]_vars

(* A record is written only before its deadline, also when `change` was    *)
(* begun earlier and the deadline passed meanwhile.                        *)
NoLateWrite ==
  [][\A e \in allocated : record'[e] # record[e] => now < deadline[e]]_vars

(* Every call returns: no caller waits for a per-run lock for ever, even   *)
(* if the holder is cancelled or the run is deleted under it.              *)
EveryCallReturns == \A p \in Procs : pc[p] # "idle" ~> pc[p] = "idle"

(* The fine-grained store implements the atomic one: locks and snapshots   *)
(* disappear, and a call is pending while it holds a captured entry.       *)
Pending(p) ==
  IF pc[p] \in InCall \union {"creating"}
    THEN [op |-> req[p].op, run |-> req[p].run,
          entry |-> held[p], expected |-> req[p].expected]
    ELSE [op |-> "none", run |-> None, entry |-> None, expected |-> 0]

Atomic == INSTANCE AtomicRunStore
  WITH pending <- [p \in Procs |-> Pending(p)]

ImplementsAtomicStore == Atomic!Spec
=============================================================================
