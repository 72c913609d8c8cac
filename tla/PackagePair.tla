----------------------------- MODULE PackagePair -----------------------------
(***************************************************************************)
(* The submission archive and its manifest (scripts/package_submission.py) *)
(* from a tree that may be edited meanwhile: members are hashed, archived  *)
(* and compared, and the two files replace those of an earlier run, with   *)
(* backups and a rollback.  Every step may fail; the packager may die.     *)
(* One packager runs at a time.                                            *)
(***************************************************************************)
EXTENDS Naturals, FiniteSets

CONSTANTS Members,      \* the candidate files
          Contents,     \* what a file may hold; Committed is in the tagged commit
          Committed,
          MaxRuns,      \* bound: runs of the packager
          MaxEdits      \* bound: changes of the working tree

VARIABLES
  tree,         \* [Members -> Contents]
  runs, edits,
  pc,           \* where the packager is
  hashes,       \* the members as they were inspected
  staged,       \* the temporary files: {} or a file, for "archive" and "manifest"
  output,       \* the canonical files
  backup,       \* the files that were there before
  published,    \* the canonical files that this run put there
  paired        \* history: there has been a pair at the canonical names
vars == <<tree, runs, edits, pc, hashes, staged, output, backup, published, paired>>

Kinds   == {"archive", "manifest"}
Holds   == [Members -> Contents]
Clean   == \A m \in Members : tree[m] = Committed
Nothing == [k \in Kinds |-> {}]

Init ==
  /\ tree = [m \in Members |-> Committed] /\ runs = 0 /\ edits = 0 /\ pc = "idle"
  /\ hashes = tree /\ staged = Nothing /\ backup = Nothing /\ published = {}
  /\ \E old \in {{}, {tree}} : output = [k \in Kinds |-> old] /\ paired = (old # {})

Edit ==
  /\ edits < MaxEdits /\ edits' = edits + 1
  /\ \E m \in Members, c \in Contents : tree[m] # c /\ tree' = [tree EXCEPT ![m] = c]
  /\ UNCHANGED <<runs, pc, hashes, staged, output, backup, published, paired>>

-----------------------------------------------------------------------------
(* `_preflight`: the tagged commit is checked out and clean; then each      *)
(* member is read and hashed.                                               *)
Preflight ==
  /\ pc = "idle" /\ runs < MaxRuns /\ Clean
  /\ runs' = runs + 1 /\ pc' = "inspect" /\ staged' = Nothing /\ backup' = Nothing
  /\ published' = {}
  /\ UNCHANGED <<tree, edits, hashes, output, paired>>

Inspect ==
  /\ pc = "inspect" /\ hashes' = tree /\ pc' = "write"
  /\ UNCHANGED <<tree, runs, edits, staged, output, backup, published, paired>>

(* `_write_archive` reads the members again, now or after an edit. *)
WriteArchive ==
  /\ pc = "write" /\ staged' = [staged EXCEPT !["archive"] = {tree}] /\ pc' = "verify"
  /\ UNCHANGED <<tree, runs, edits, hashes, output, backup, published, paired>>

(* Faulty variant: the archive is not compared with what was inspected. *)
VerifyNothing ==
  /\ pc = "verify"
  /\ staged' = [staged EXCEPT !["manifest"] = {hashes}] /\ pc' = "keep archive"
  /\ UNCHANGED <<tree, runs, edits, hashes, output, backup, published, paired>>

(* `_verify_archive`, then the manifest is staged; a mismatch or a failure  *)
(* removes the temporary files.                                             *)
VerifyArchive ==
  /\ pc = "verify"
  /\ \/ /\ staged["archive"] = {hashes}
        /\ staged' = [staged EXCEPT !["manifest"] = {hashes}] /\ pc' = "keep archive"
     \/ staged' = Nothing /\ pc' = "idle"
  /\ UNCHANGED <<tree, runs, edits, hashes, output, backup, published, paired>>

(* Faulty variant: what stands at a name is removed. *)
RemoveOld(k, from, to) ==
  /\ pc = from
  /\ \/ pc' = to /\ output' = [output EXCEPT ![k] = {}]
     \/ pc' = "rollback" /\ UNCHANGED output
  /\ UNCHANGED <<tree, runs, edits, hashes, staged, backup, published, paired>>

(* `_publish_pair`: what stands at a name is moved aside ... *)
Keep(k, from, to) ==
  /\ pc = from
  /\ \/ output[k] = {} /\ pc' = to /\ UNCHANGED <<output, backup>>
     \/ /\ output[k] # {} /\ pc' = to
        /\ backup' = [backup EXCEPT ![k] = output[k]] /\ output' = [output EXCEPT ![k] = {}]
     \/ pc' = "rollback" /\ UNCHANGED <<output, backup>>
  /\ UNCHANGED <<tree, runs, edits, hashes, staged, published, paired>>

(* ... then the new files are moved in, archive first ... *)
Replace(k, from, to) ==
  /\ pc = from
  /\ \/ /\ pc' = to /\ output' = [output EXCEPT ![k] = staged[k]]
        /\ staged' = [staged EXCEPT ![k] = {}] /\ published' = published \cup {k}
     \/ pc' = "rollback" /\ UNCHANGED <<output, staged, published>>
  /\ UNCHANGED <<tree, runs, edits, hashes, backup, paired>>

(* ... and the backups are removed; one that cannot be is reported. *)
DropBackups ==
  /\ pc = "drop" /\ paired' = TRUE
  /\ \E left \in {Nothing, backup, [backup EXCEPT !["archive"] = {}]} :
       backup' = left /\ pc' = IF left = Nothing THEN "idle" ELSE "incomplete"
  /\ UNCHANGED <<tree, runs, edits, hashes, staged, output, published>>

(* The rollback removes what was published and puts the backups back; a     *)
(* step of it may fail, which the caller is told ("rollback was             *)
(* incomplete").                                                            *)
Rollback ==
  /\ pc = "rollback"
  /\ \E removed \in SUBSET published, restored \in SUBSET {k \in Kinds : backup[k] # {}} :
       /\ output' = [k \in Kinds |-> IF k \in restored THEN backup[k]
                                     ELSE IF k \in removed THEN {} ELSE output[k]]
       /\ backup' = [k \in Kinds |-> IF k \in restored THEN {} ELSE backup[k]]
       /\ pc' = IF removed = published /\ backup' = Nothing THEN "idle" ELSE "incomplete"
  /\ staged' = Nothing
  /\ UNCHANGED <<tree, runs, edits, hashes, published, paired>>

(* The process dies; what it leaves is for a person to clean up. *)
Crash ==
  /\ pc \notin {"idle", "incomplete", "dead"} /\ pc' = "dead"
  /\ UNCHANGED <<tree, runs, edits, hashes, staged, output, backup, published, paired>>

Publish ==
  \/ Keep("archive", "keep archive", "keep manifest")
  \/ Keep("manifest", "keep manifest", "replace archive")
  \/ Replace("archive", "replace archive", "replace manifest")
  \/ Replace("manifest", "replace manifest", "drop")

Next == Edit \/ Preflight \/ Inspect \/ WriteArchive \/ VerifyArchive \/ Publish
          \/ DropBackups \/ Rollback \/ Crash

Spec == Init /\ [][Next]_vars

-----------------------------------------------------------------------------
TypeOK ==
  /\ tree \in Holds /\ hashes \in Holds /\ published \subseteq Kinds
  /\ \A k \in Kinds : staged[k] \cup output[k] \cup backup[k] \subseteq Holds

(* Who is not told of a failure finds a pair: both files or neither, and    *)
(* the manifest lists what the archive holds.                               *)
PairIsOne == pc = "idle" => output["archive"] = output["manifest"]

(* An archive with its manifest is never lost once there was one: at every  *)
(* moment, also after a crash or an incomplete rollback, both files of one  *)
(* run are at the canonical names or beside them.                           *)
PairIsSomewhere ==
  paired => \E a \in output["archive"] \cup backup["archive"] :
              a \in output["manifest"] \cup backup["manifest"]
=============================================================================
