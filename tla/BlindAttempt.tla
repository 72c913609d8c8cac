---------------------------- MODULE BlindAttempt ----------------------------
(***************************************************************************)
(* The one recorded run of a blind candidate (scripts/record_blind_run.py) *)
(* and the check that binds it (scripts/blind_evidence.py): an exclusive   *)
(* reservation in the Git directory, an execution guarded against changes  *)
(* of what was frozen, a record and an audit kept in custody, their        *)
(* publication as a pair of hard links, and its rollback.  Recorders run   *)
(* side by side, for one candidate or several, to one output or several;   *)
(* they crash, storage fails before or after a step took effect, the       *)
(* working tree is edited and restored, others write to the outputs.       *)
(***************************************************************************)
EXTENDS FiniteSets

CONSTANTS Recorders, Candidates, Outputs,
          Contended,     \* the outputs that others write to as well
          Aims,          \* what the recorders are started for: [Recorders -> Aim] to try
          Other, None

VARIABLES
  aim,           \* the candidate and the output that a recorder was started for
  approved,      \* human approval of the sealed candidates is in the tree
  tree,          \* "tagged": clean, as tagged and with the frozen runtime; or "edited"
  pc,            \* where a recorder is
  record,        \* the stage of the record it holds: "none", "partial", "complete"
  error,         \* error_code: "none", "changed", "incomplete", "failed"
  ran,           \* the recorders whose executor was called
  reservation,   \* per candidate: None, or [by, status]
  custody,       \* per candidate: the raw record and the audit, None or a file
  raw, audit     \* per output: the canonical record and its metadata, None or a file
vars == <<aim, approved, tree, pc, record, error, ran, reservation, custody, raw, audit>>

files == <<reservation, custody, raw, audit>>
world == <<aim, approved, tree>>

Files == [by : Recorders \cup {Other}, record : {"none", "partial", "complete"},
          error : {"none", "changed", "incomplete", "failed", "publication"}]
Foreign == [by |-> Other, record |-> "none", error |-> "failed"]
Statuses ==
  {"reserved", "publishing", "recorded", "invalidated", "failed", "publication_failed"}
Reservations == [by : Recorders, status : Statuses]

Aim        == [candidate : Candidates, output : Outputs]
Mine(r)    == aim[r].candidate
Target(r)  == aim[r].output
FileOf(r)  == [by |-> r, record |-> record[r], error |-> error[r]]
Unpublished(r) == [FileOf(r) EXCEPT !.error = "publication"]
Status(e)  == CASE e = "none" -> "recorded" [] e = "changed" -> "invalidated" [] OTHER -> "failed"
Goto(r, l) == pc' = [pc EXCEPT ![r] = l]
Fail(r, e) == error' = [error EXCEPT ![r] = e] /\ Goto(r, "custody")
(* `git_snapshot`: clean, at the annotated tag, of the same bytes. *)
Frozen     == tree = "tagged"
Reservation(r, status) == [by |-> r, status |-> status]
Reserved(r, status) == reservation' = [reservation EXCEPT ![Mine(r)] = Reservation(r, status)]

(* What a name of nothing or of nobody may not be.                          *)
Distinct ==
  /\ None \notin Files /\ None \notin Reservations /\ Other \notin Recorders
  /\ Aims \subseteq [Recorders -> Aim]

Init ==
  /\ aim \in Aims /\ approved \in BOOLEAN /\ tree = "tagged"
  /\ pc = [r \in Recorders |-> "begin"] /\ record = [r \in Recorders |-> "none"]
  /\ error = [r \in Recorders |-> "none"] /\ ran = {}
  /\ reservation = [c \in Candidates |-> None]
  /\ custody = [c \in Candidates |-> [raw |-> None, audit |-> None]]
  /\ raw = [o \in Outputs |-> None] /\ audit = [o \in Outputs |-> None]

-----------------------------------------------------------------------------
(* The rest of the world: a reviewer approves, the tree is edited or        *)
(* restored, somebody writes one of the canonical names.                    *)
Approve == ~approved /\ approved' = TRUE /\ UNCHANGED <<aim, tree, pc, record, error, ran, files>>

Edit ==
  /\ tree' = IF tree = "tagged" THEN "edited" ELSE "tagged"
  /\ UNCHANGED <<aim, approved, pc, record, error, ran, files>>

WriteElsewhere(o) ==
  /\ \E r \in Recorders : Target(r) = o        \* at other names it would show nothing
  /\ \/ raw[o] = None /\ raw' = [raw EXCEPT ![o] = Foreign] /\ UNCHANGED audit
     \/ audit[o] = None /\ audit' = [audit EXCEPT ![o] = Foreign] /\ UNCHANGED raw
  /\ UNCHANGED <<world, pc, record, error, ran, reservation, custody>>

(* The names must be free before anything is read. *)
Begin(r) ==
  /\ pc[r] = "begin"
  /\ Goto(r, IF raw[Target(r)] = None /\ audit[Target(r)] = None
             THEN "preflight" ELSE "refused")
  /\ UNCHANGED <<world, record, error, ran, files>>

(* `_preflight` and the first snapshot: an approved candidate, and a clean  *)
(* tree at an annotated tag that holds the same bytes.                      *)
Preflight(r) ==
  /\ pc[r] = "preflight"
  /\ Goto(r, IF approved /\ Frozen THEN "reserve" ELSE "refused")
  /\ UNCHANGED <<world, record, error, ran, files>>

(* Faulty variant: the reservation replaces one of a failed attempt. *)
ReserveAgain(r) ==
  /\ pc[r] = "reserve"
  /\ IF reservation[Mine(r)] # None /\ reservation[Mine(r)].status # "failed"
     THEN Goto(r, "refused") /\ UNCHANGED reservation
     ELSE Reserved(r, "reserved") /\ Goto(r, "guard")
  /\ UNCHANGED <<world, record, error, ran, custody, raw, audit>>

(* `_reserve`: the file is created exclusively; when writing it fails the   *)
(* attempt is consumed all the same.                                        *)
Reserve(r) ==
  /\ pc[r] = "reserve"
  /\ IF reservation[Mine(r)] # None THEN Goto(r, "refused") /\ UNCHANGED reservation
     ELSE Reserved(r, "reserved") /\ \E l \in {"guard", "ended"} : Goto(r, l)
  /\ UNCHANGED <<world, record, error, ran, custody, raw, audit>>

-----------------------------------------------------------------------------
(* The guard before the executor is called; the snapshot itself may fail.   *)
Guard(r) ==
  /\ pc[r] = "guard"
  /\ \/ Frozen /\ Goto(r, "execute") /\ ran' = ran \cup {r} /\ UNCHANGED error
     \/ ~Frozen /\ Fail(r, "changed") /\ UNCHANGED ran
     \/ Fail(r, "failed") /\ UNCHANGED ran
  /\ UNCHANGED <<world, record, files>>

(* `execute_live`, up to the next guard: the container cannot be built, the *)
(* run is created, a stage or a reviewed command finishes it, a guard       *)
(* around a model call fails its stage, a guard or a command at a gate      *)
(* interrupts, and so does cleaning up, also after a complete run.          *)
Execute(r) ==
  /\ pc[r] = "execute"
  /\ \/ record[r] = "none" /\ record' = [record EXCEPT ![r] = "partial"] /\ UNCHANGED <<pc, error>>
     \/ /\ record[r] = "partial" /\ Frozen
        /\ record' = [record EXCEPT ![r] = "complete"] /\ Goto(r, "check") /\ UNCHANGED error
     \/ record[r] = "partial" /\ Goto(r, "check") /\ UNCHANGED <<record, error>>
     \/ /\ \E last \in IF record[r] = "partial" THEN {"partial", "complete"} ELSE {"none"} :
             record' = [record EXCEPT ![r] = last]
        /\ Fail(r, "failed")
  /\ UNCHANGED <<world, ran, files>>

(* After the run: the last guard, the record's envelopes, manifest and      *)
(* source text, and a final stage.                                          *)
Check(r) ==
  /\ pc[r] = "check"
  /\ \/ ~Frozen /\ Fail(r, "changed")
     \/ Fail(r, "failed")
     \/ Frozen /\ record[r] # "complete" /\ Fail(r, "incomplete")
     \/ Frozen /\ record[r] = "complete" /\ Goto(r, "custody") /\ UNCHANGED error
  /\ UNCHANGED <<world, record, ran, files>>

-----------------------------------------------------------------------------
(* A step of the publication takes effect and goes on, takes effect and     *)
(* fails all the same, or fails.                                            *)
Step(r, from, to, Effect, unchanged) ==
  /\ pc[r] = from
  /\ \/ Effect /\ \E l \in {to, "rollback"} : Goto(r, l)
     \/ UNCHANGED unchanged /\ Goto(r, "rollback")
  /\ UNCHANGED <<world, record, error, ran>>

(* The raw record and the audit become durable in custody, exclusively. *)
KeepRecord(r) ==
  /\ \/ /\ record[r] # "none"
        /\ Step(r, "custody", "audit",
                custody' = [custody EXCEPT ![Mine(r)].raw = FileOf(r)], custody)
     \/ /\ pc[r] = "custody" /\ record[r] = "none" /\ Goto(r, "audit")
        /\ UNCHANGED <<world, record, error, ran, custody>>
  /\ UNCHANGED <<reservation, raw, audit>>

KeepAudit(r) ==
  /\ Step(r, "audit", "announce",
          custody' = [custody EXCEPT ![Mine(r)].audit = FileOf(r)], custody)
  /\ UNCHANGED <<reservation, raw, audit>>

Announce(r) ==
  /\ Step(r, "announce", IF record[r] = "none" THEN "link audit" ELSE "link raw",
          Reserved(r, "publishing"), reservation)
  /\ UNCHANGED <<custody, raw, audit>>

(* `_publish`: a hard link to the file in custody, never over another file; *)
(* a link just made counts even when the directory cannot be synchronized.  *)
LinkRaw(r) ==
  /\ LET o == Target(r)
     IN IF raw[o] # None THEN Step(r, "link raw", "rollback", UNCHANGED raw, raw)
        ELSE Step(r, "link raw", "link audit", raw' = [raw EXCEPT ![o] = custody[Mine(r)].raw], raw)
  /\ UNCHANGED <<reservation, custody, audit>>

LinkAudit(r) ==
  /\ LET o == Target(r)
     IN IF audit[o] # None THEN Step(r, "link audit", "rollback", UNCHANGED audit, audit)
        ELSE Step(r, "link audit", "settle", audit' = [audit EXCEPT ![o] = custody[Mine(r)].audit], audit)
  /\ UNCHANGED <<reservation, custody, raw>>

(* The status becomes final last. *)
Settle(r) ==
  /\ Step(r, "settle", "succeeded", Reserved(r, Status(error[r])), reservation)
  /\ UNCHANGED <<custody, raw, audit>>

(* Faulty variant: whatever stands at the canonical names is removed. *)
RollbackAll(r) ==
  /\ pc[r] = "rollback"
  /\ raw' = [raw EXCEPT ![Target(r)] = None]
  /\ audit' = [audit EXCEPT ![Target(r)] = None]
  /\ Goto(r, "note") /\ UNCHANGED <<world, record, error, ran, reservation, custody>>

(* `_remove_owned_link`, for each of the two names: only a link to the file *)
(* in custody is removed; a failure is passed over.                         *)
Rollback(r) ==
  /\ pc[r] = "rollback"
  /\ LET o == Target(r)
         Ours(f) == f # None /\ f.by = r
     IN \E removed \in SUBSET {"raw", "audit"} :
          /\ raw' = IF "raw" \in removed /\ Ours(raw[o]) THEN [raw EXCEPT ![o] = None] ELSE raw
          /\ audit' = IF "audit" \in removed /\ Ours(audit[o]) THEN [audit EXCEPT ![o] = None] ELSE audit
  /\ Goto(r, "note")
  /\ UNCHANGED <<world, record, error, ran, reservation, custody>>

(* The audit in custody and the reservation name the failure, if they can   *)
(* be written; the attempt stays consumed.                                  *)
Note(r) ==
  /\ pc[r] = "note"
  /\ \E noted \in SUBSET {"audit", "reservation"} :
       /\ custody' = IF "audit" \in noted
                     THEN [custody EXCEPT ![Mine(r)].audit = Unpublished(r)]
                     ELSE custody
       /\ IF "reservation" \in noted THEN Reserved(r, "publication_failed")
          ELSE UNCHANGED reservation
  /\ Goto(r, "ended")
  /\ UNCHANGED <<world, record, error, ran, raw, audit>>

Crash(r) ==
  /\ pc[r] \notin {"begin", "refused", "ended", "succeeded"} /\ Goto(r, "ended")
  /\ UNCHANGED <<world, record, error, ran, files>>

Records(r) ==
  \/ Begin(r) \/ Preflight(r) \/ Reserve(r) \/ Guard(r) \/ Execute(r) \/ Check(r)
  \/ KeepRecord(r) \/ KeepAudit(r) \/ Announce(r) \/ LinkRaw(r) \/ LinkAudit(r) \/ Settle(r)
  \/ Rollback(r) \/ Note(r) \/ Crash(r)

Next == Approve \/ Edit \/ (\E o \in Contended : WriteElsewhere(o)) \/ (\E r \in Recorders : Records(r))

Spec == Init /\ [][Next]_vars

-----------------------------------------------------------------------------
TypeOK ==
  /\ approved \in BOOLEAN /\ tree \in {"tagged", "edited"}
  /\ record \in [Recorders -> {"none", "partial", "complete"}]
  /\ \A o \in Outputs : raw[o] \in Files \cup {None} /\ audit[o] \in Files \cup {None}
  /\ \A c \in Candidates : {custody[c].raw, custody[c].audit} \subseteq Files \cup {None}

(* Nobody gets a second try: a candidate is executed at most once, whatever *)
(* became of the first attempt and wherever the second would write.         *)
OneExecution ==
  \A r, s \in ran : Mine(r) = Mine(s) => r = s

(* What is exposed is in custody, and was there before it was exposed       *)
(* ("Both first-attempt files are durable before exposing").                *)
ExposedIsKept ==
  \A o \in Outputs :
    /\ raw[o] # None /\ raw[o].by # Other =>
         custody[Mine(raw[o].by)].raw = raw[o] /\ custody[Mine(raw[o].by)].audit # None
    /\ audit[o] # None /\ audit[o].by # Other => custody[Mine(audit[o].by)].audit # None

(* `bind_first_run` accepts a record and its metadata when they agree and   *)
(* no error is noted.                                                       *)
Binds(o) ==
  /\ raw[o] # None /\ audit[o] # None
  /\ audit[o].error = "none" /\ audit[o].by = raw[o].by /\ audit[o].record = raw[o].record

(* A pair that binds is the complete record of the only execution of an     *)
(* approved candidate, also when publication was interrupted, rolled back   *)
(* or mixed with that of another recorder.                                  *)
BoundIsFirst ==
  \A o \in Outputs : Binds(o) =>
    LET r == raw[o].by
    IN /\ approved /\ r \in ran /\ raw[o].record = "complete"
       /\ reservation[Mine(r)].by = r

(* Who was told that the run is recorded finds both files, whatever others  *)
(* do at the same names.                                                    *)
RecordedIsThere ==
  \A r \in Recorders : pc[r] = "succeeded" =>
    /\ reservation[Mine(r)] = Reservation(r, Status(error[r]))
    /\ audit[Target(r)] = FileOf(r)
    /\ record[r] # "none" => raw[Target(r)] = FileOf(r)

(* Nothing at a canonical name is ever replaced, and only the recorder that *)
(* put it there removes it; a reservation is never given back.              *)
Replaces ==
  /\ \A o \in Outputs :
       /\ raw[o] # None /\ raw'[o] # raw[o] => raw'[o] = None /\ pc[raw[o].by] = "rollback"
       /\ audit[o] # None /\ audit'[o] # audit[o] =>
            audit'[o] = None /\ pc[audit[o].by] = "rollback"
  /\ \A c \in Candidates : reservation[c] # None =>
       reservation'[c] # None /\ reservation'[c].by = reservation[c].by
NothingIsReplaced == [][Replaces]_vars
=============================================================================
