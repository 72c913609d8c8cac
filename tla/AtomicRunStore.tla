--------------------------- MODULE AtomicRunStore ---------------------------
(***************************************************************************)
(* What store.py promises its callers, with no per-run locks and no        *)
(* snapshots: between its start and its answer every call takes effect in  *)
(* one step.  A get or mutate is tied, from its start, to the incarnation  *)
(* of the run that was bound then; it never touches a later one.           *)
(***************************************************************************)
EXTENDS Naturals

CONSTANTS Runs, Procs, Entries, None, Ttl, MaxVersion

VARIABLES
  entries,     \* the incarnation each run id is bound to, or None
  allocated,   \* the incarnations made so far
  record,      \* the record of each incarnation
  deadline,    \* when each incarnation expires
  closed,
  now,
  pending,     \* the create, get or mutate each caller has under way
  answer,      \* what each idle caller's last call returned
  acked        \* history: the mutations that returned normally

vars == <<entries, allocated, record, deadline, closed, now,
          pending, answer, acked>>

NoCall == [op |-> "none", run |-> None, entry |-> None, expected |-> 0]
NewRecord == [version |-> 0, changes |-> {}]
Failed(status) == [status |-> status, value |-> NewRecord]
Returned(rec) == [status |-> "ok", value |-> rec]

Init ==
  /\ entries = [r \in Runs |-> None]
  /\ allocated = {}
  /\ record = [e \in Entries |-> NewRecord]
  /\ deadline = [e \in Entries |-> 0]
  /\ closed = FALSE
  /\ now = 0
  /\ pending = [p \in Procs |-> NoCall]
  /\ answer = [p \in Procs |-> Failed("none")]
  /\ acked = {}

Answer(p, result) ==
  /\ pending' = [pending EXCEPT ![p] = NoCall]
  /\ answer' = [answer EXCEPT ![p] = result]

Bound(p) == entries[pending[p].run] = pending[p].entry
Fresh(e) == deadline[e] > now

Begin(p, op, r, v) ==
  /\ pending[p] = NoCall
  /\ entries[r] # None
  /\ pending' = [pending EXCEPT ![p] =
       [op |-> op, run |-> r, entry |-> entries[r], expected |-> v]]
  /\ answer' = [answer EXCEPT ![p] = Failed("none")]
  /\ UNCHANGED <<entries, allocated, record, deadline, closed, now, acked>>

Get(p) ==
  /\ pending[p].op = "get"
  /\ Bound(p)
  /\ Fresh(pending[p].entry)
  /\ Answer(p, Returned(record[pending[p].entry]))
  /\ UNCHANGED <<entries, allocated, record, deadline, closed, now, acked>>

(* Compare and swap, in one step.                                          *)
Mutate(p) ==
  LET e == pending[p].entry
      v == pending[p].expected
      updated == [version |-> v + 1,
                  changes |-> record[e].changes \union {[by |-> p, at |-> v]}]
  IN  /\ pending[p].op = "mutate"
      /\ Bound(p)
      /\ Fresh(e)
      /\ record[e].version = v
      /\ record' = [record EXCEPT ![e] = updated]
      /\ acked' = acked \union {[entry |-> e, by |-> p, at |-> v]}
      /\ Answer(p, Returned(updated))
      /\ UNCHANGED <<entries, allocated, deadline, closed, now>>

Conflict(p) ==
  /\ pending[p].op = "mutate"
  /\ Bound(p)
  /\ Fresh(pending[p].entry)
  /\ record[pending[p].entry].version # pending[p].expected
  /\ Answer(p, Failed("conflict"))
  /\ UNCHANGED <<entries, allocated, record, deadline, closed, now, acked>>

(* The captured incarnation has been removed, or its time is up and it is  *)
(* removed now.                                                            *)
NotFound(p) ==
  /\ pending[p].op \in {"get", "mutate"}
  /\ \/ ~Bound(p) /\ UNCHANGED entries
     \/ /\ Bound(p)
        /\ ~Fresh(pending[p].entry)
        /\ entries' = [entries EXCEPT ![pending[p].run] = None]
  /\ Answer(p, Failed("not_found"))
  /\ UNCHANGED <<allocated, record, deadline, closed, now, acked>>

(* A call that leaves without any effect on the runs.                      *)
NoEffect(p) ==
  /\ \E status \in {"none", "invalid", "cancelled", "done"} : Answer(p, Failed(status))
  /\ UNCHANGED <<entries, allocated, record, deadline, closed, now, acked>>

Missed(p) ==
  /\ pending[p] = NoCall
  /\ \E r \in Runs : entries[r] = None
  /\ Answer(p, Failed("not_found"))
  /\ UNCHANGED <<entries, allocated, record, deadline, closed, now, acked>>

(* A create makes its incarnation, expiring Ttl from now, before it binds  *)
(* the run id to it.                                                       *)
BeginCreate(p, r, e) ==
  /\ pending[p] = NoCall
  /\ e \notin allocated
  /\ allocated' = allocated \union {e}
  /\ record' = [record EXCEPT ![e] = NewRecord]
  /\ deadline' = [deadline EXCEPT ![e] = now + Ttl]
  /\ pending' = [pending EXCEPT ![p] =
       [op |-> "create", run |-> r, entry |-> e, expected |-> 0]]
  /\ answer' = [answer EXCEPT ![p] = Failed("none")]
  /\ UNCHANGED <<entries, closed, now, acked>>

(* Binding a run id never pushes out a run whose time is not up.           *)
Create(p) ==
  LET r == pending[p].run
  IN  /\ pending[p].op = "create"
      /\ ~closed
      /\ entries[r] # None => ~Fresh(entries[r])
      /\ entries' = [entries EXCEPT ![r] = pending[p].entry]
      /\ Answer(p, Returned(NewRecord))
      /\ UNCHANGED <<allocated, record, deadline, closed, now, acked>>

Delete(p, r) ==
  /\ pending[p] = NoCall
  /\ entries[r] # None
  /\ entries' = [entries EXCEPT ![r] = None]
  /\ Answer(p, Failed("done"))
  /\ UNCHANGED <<allocated, record, deadline, closed, now, acked>>

(* Only runs whose time is up are swept.                                   *)
Purge(p, swept) ==
  /\ pending[p] = NoCall
  /\ \A r \in swept : entries[r] # None /\ ~Fresh(entries[r])
  /\ entries' = [r \in Runs |-> IF r \in swept THEN None ELSE entries[r]]
  /\ Answer(p, Failed("done"))
  /\ UNCHANGED <<allocated, record, deadline, closed, now, acked>>

Close ==
  /\ ~closed
  /\ closed' = TRUE
  /\ entries' = [r \in Runs |-> None]
  /\ UNCHANGED <<allocated, record, deadline, now, pending, answer, acked>>

Tick ==
  /\ now' = now + 1
  /\ UNCHANGED <<entries, allocated, record, deadline, closed,
                 pending, answer, acked>>

Next ==
  \/ \E p \in Procs :
       \/ \E r \in Runs, op \in {"get", "mutate"}, v \in 0 .. MaxVersion :
            Begin(p, op, r, v)
       \/ Get(p)
       \/ Mutate(p)
       \/ Conflict(p)
       \/ NotFound(p)
       \/ NoEffect(p)
       \/ Missed(p)
       \/ \E r \in Runs, e \in Entries : BeginCreate(p, r, e)
       \/ Create(p)
       \/ \E r \in Runs : Delete(p, r)
       \/ \E swept \in SUBSET Runs : Purge(p, swept)
  \/ Close
  \/ Tick

Spec == Init /\ [][Next]_vars
=============================================================================
