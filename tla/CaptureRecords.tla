---------------------------- MODULE CaptureRecords ----------------------------
(***************************************************************************)
(* What the Sandbox makes of the native rows of a simulation               *)
(* (v2/sandbox/capture.py, translation.py, and english() of language.py):  *)
(* rows are parsed one by one, put into an order in which a reply follows  *)
(* what it replies to, and shown in English, each message on its own and   *)
(* before a deadline.                                                      *)
(***************************************************************************)
EXTENDS Naturals, Sequences, FiniteSets, SequencesExt

CONSTANTS NativeRows,  \* rows that a simulation may deliver
          MaxRows,     \* bound: rows delivered
          Count        \* the number of personas

VARIABLES
  rows,      \* the rows delivered, posts before comments
  at,        \* the next row to parse
  seen,      \* rows by source identifier
  pending,   \* sequence of the parsed records that are not placed yet
  placed,    \* the sequence of [record, parent]
  shown,     \* what is displayed for each of them
  notes,
  pc         \* "parse", "order", "project", "done"
vars == <<rows, at, seen, pending, placed, shown, notes, pc>>

None  == <<>>       \* no target
Waits == "waits"    \* not shown yet

(* A row: identifier <<kind, number>>, author, target of a reply or repost, *)
(* the speaker's own words ("" when there are none), simulation step.       *)
Init ==
  /\ rows \in UNION {[1..n -> NativeRows] : n \in 0..MaxRows}
  /\ \A i, j \in DOMAIN rows : i < j => ~(rows[i].id[1] = "comment" /\ rows[j].id[1] = "post")
  /\ at = 1 /\ seen = {} /\ pending = <<>> /\ placed = <<>> /\ shown = <<>>
  /\ notes = {} /\ pc = "parse"

-----------------------------------------------------------------------------
(* `parse_records`, one row: the first delivery of an identifier counts,    *)
(* whatever becomes of it; a speaker outside the roster is left out, and so *)
(* is a repost without words of its own, silently; without words nothing    *)
(* else is a message.                                                       *)
Known(row)  == row.author \in 0..(Count - 1)
Bare(row)   == row.id[1] = "post" /\ row.parent # None /\ row.text = ""
Speaks(row) == Known(row) /\ ~Bare(row) /\ row.text # ""

Parse ==
  /\ pc = "parse" /\ at <= Len(rows)
  /\ LET row == rows[at]
         same == {r \in seen : r.id = row.id}
     IN IF same # {}
        THEN /\ notes' = notes \cup (IF row \in same THEN {} ELSE {"duplicate_id_conflict"})
             /\ UNCHANGED <<seen, pending>>
        ELSE /\ seen' = seen \cup {row}
             /\ pending' = IF Speaks(row) THEN Append(pending, row) ELSE pending
             /\ notes' = notes \cup
                  (IF ~Known(row) THEN {"unknown_speaker"}
                   ELSE IF ~Bare(row) /\ row.text = "" THEN {"malformed_record"} ELSE {})
  /\ at' = at + 1 /\ UNCHANGED <<rows, placed, shown, pc>>

Parsed == pc = "parse" /\ at > Len(rows) /\ pc' = "order"
            /\ UNCHANGED <<rows, at, seen, pending, placed, shown, notes>>

-----------------------------------------------------------------------------
Identities(s) == {s[i].id : i \in DOMAIN s}
Emitted == {placed[i].record.id : i \in DOMAIN placed}

(* The order within one round: by step, then by source identifier.          *)
KindRank(kind) == IF kind = "post" THEN 1 ELSE 0
Before(r, s) ==
  \/ r.step < s.step
  \/ r.step = s.step /\ KindRank(r.id[1]) < KindRank(s.id[1])
  \/ r.step = s.step /\ r.id[1] = s.id[1] /\ r.id[2] < s.id[2]

(* The members of a finite set of numbers, and of one of records, in order. *)
Ascending(S) ==
  CHOOSE f \in [1..Cardinality(S) -> S] : \A i, j \in DOMAIN f : i < j => f[i] < f[j]
Sorted(S) ==
  CHOOSE f \in [1..Cardinality(S) -> S] : \A i, j \in DOMAIN f : i < j => Before(f[i], f[j])

(* Faulty variant: a round may also take what replies to its own members.  *)
EligibleAtOnce ==
  {r \in ToSet(pending) : r.parent = None \/ r.parent \in Emitted \cup Identities(pending)}

(* The records that wait for nobody. *)
Eligible ==
  {r \in ToSet(pending) : r.parent = None \/ r.parent \in Emitted
                            \/ r.parent \notin Identities(pending)}

(* `parse_records`, one round of the order: all who wait for nobody, or     *)
(* else the first, whose link is given up.                                  *)
Round ==
  /\ pc = "order" /\ pending # <<>>
  /\ LET chosen == IF Eligible # {} THEN Eligible ELSE {Head(pending)}
         linked(r) == IF r.parent \in Emitted THEN r.parent ELSE None
         turn == Sorted(chosen)
         rest == Ascending({i \in DOMAIN pending : pending[i] \notin chosen})
     IN /\ placed' = placed \o
             [k \in DOMAIN turn |-> [record |-> turn[k], parent |-> linked(turn[k])]]
        /\ pending' = [k \in DOMAIN rest |-> pending[rest[k]]]
        /\ notes' = notes \cup (IF Eligible = {} THEN {"cyclic_replies"} ELSE {}) \cup
             {"unresolved_reply" : r \in {r \in chosen : r.parent # None /\ linked(r) = None}}
  /\ UNCHANGED <<rows, at, seen, shown, pc>>

Ordered ==
  /\ pc = "order" /\ pending = <<>> /\ pc' = "project"
  /\ shown' = [i \in DOMAIN placed |-> Waits]
  /\ UNCHANGED <<rows, at, seen, pending, placed, notes>>

-----------------------------------------------------------------------------
(* A text's language decides what the provider may answer: "english",       *)
(* "latin" (foreign, in Latin letters), "script" (in other letters).        *)
Answers ==
  [copied : BOOLEAN, claimsEnglish : BOOLEAN, latin : BOOLEAN, numerals : BOOLEAN,
   reviewed : BOOLEAN]

(* Faulty variant: a translation's numerals are not compared. *)
CheckedScript(text, a) ==
  IF a.copied THEN text # "script" /\ a.claimsEnglish
  ELSE a.latin /\ ~a.claimsEnglish

(* `checked_projection`: letters, an honest claim, and the same numerals;   *)
(* claimsEnglish stands for translated = false with language English.       *)
Checked(text, a) ==
  IF a.copied THEN text # "script" /\ a.claimsEnglish
  ELSE a.latin /\ ~a.claimsEnglish /\ a.numerals

(* `english`: the checks, and a review of what was translated.              *)
English(text, a) == Checked(text, a) /\ (a.copied \/ a.reviewed)

(* `display`: the provider answers, fails or is late, or the deadline of    *)
(* the whole projection has passed.                                         *)
Display(i) ==
  /\ pc = "project" /\ shown[i] = Waits
  /\ \/ \E a \in Answers :
          LET text == placed[i].record.text
          IN shown' = [shown EXCEPT ![i] =
               IF ~English(text, a) THEN "unavailable"
               ELSE IF a.copied THEN "original"
               ELSE IF a.numerals THEN "translated" ELSE "changed"]
     \/ shown' = [shown EXCEPT ![i] = "unavailable"]
  /\ notes' = notes \cup (IF shown'[i] = "unavailable" THEN {"translation_unavailable"} ELSE {})
  /\ UNCHANGED <<rows, at, seen, pending, placed, pc>>

Deadline ==
  /\ pc = "project" /\ \E i \in DOMAIN shown : shown[i] = Waits
  /\ shown' = [i \in DOMAIN shown |-> IF shown[i] = Waits THEN "unavailable" ELSE shown[i]]
  /\ notes' = notes \cup {"translation_unavailable"}
  /\ UNCHANGED <<rows, at, seen, pending, placed, pc>>

Authors == {r \in 0..(Count - 1) :
              \E i, j \in DOMAIN placed :
                /\ placed[i].parent = placed[j].record.id
                /\ placed[i].record.author = r /\ placed[j].record.author # r}

(* `project_capture`, the end: who never answered another is counted.       *)
Assemble ==
  /\ pc = "project" /\ \A i \in DOMAIN shown : shown[i] # Waits
  /\ notes' = notes \cup
       (IF Count > 1 /\ Cardinality(Authors) < Count THEN {"interaction_coverage"} ELSE {})
  /\ pc' = "done" /\ UNCHANGED <<rows, at, seen, pending, placed, shown>>

Client == Parse \/ Parsed \/ Round \/ Ordered \/ Deadline \/ Assemble
Next   == Client \/ (\E i \in DOMAIN shown : Display(i))

(* The service's own steps and its deadline; no provider has to answer.     *)
Spec == Init /\ [][Next]_vars /\ WF_vars(Client)

-----------------------------------------------------------------------------
TypeOK ==
  /\ seen \subseteq NativeRows /\ ToSet(pending) \subseteq seen
  /\ \A i \in DOMAIN placed : placed[i].record \in seen
  /\ \A i \in DOMAIN shown : shown[i] \in {Waits, "original", "translated", "changed", "unavailable"}

(* The records that a record's chain of replies runs through: those in       *)
(* every set that holds what it replies to and what its members reply to.   *)
Messages == {placed[i].record : i \in DOMAIN placed}
Message(id) == {m \in Messages : m.id = id}
Chain(r) ==
  {m \in Messages : \A S \in SUBSET Messages :
     Message(r.parent) \subseteq S /\ (\A s \in S : Message(s.parent) \subseteq S) => m \in S}
OnCycle(r) == r \in Chain(r)

(* What is captured is what was said: every speaker's words once, in an     *)
(* order in which a reply follows what it replies to, with no link that is  *)
(* not in the source, and none lost except to a message that does not exist *)
(* or through a circle of replies, of which there is a note.                *)
CaptureIsFaithful ==
  pc \in {"project", "done"} =>
    /\ Emitted = {r.id : r \in {r \in seen : Speaks(r)}} /\ Cardinality(Emitted) = Len(placed)
    /\ \A i \in DOMAIN placed :
         LET r == placed[i].record  p == placed[i].parent
         IN /\ p # None => p = r.parent /\ \E j \in 1..(i - 1) : placed[j].record.id = p
            /\ p = None /\ r.parent # None =>
                 /\ "unresolved_reply" \in notes
                 /\ \/ Message(r.parent) = {}
                    \/ "cyclic_replies" \in notes
                         /\ \E m \in {r} \cup Chain(r) : OnCycle(m)

(* What is shown is the original, in Latin letters, if the provider vouched *)
(* that it is English; a translation if it was reviewed and kept every      *)
(* numeral; and a marker with a note otherwise.                             *)
ShownIsEnglish ==
  \A i \in DOMAIN shown :
    /\ shown[i] = "original" => placed[i].record.text # "script"
    /\ shown[i] # "changed"
    /\ shown[i] = "unavailable" => "translation_unavailable" \in notes
=============================================================================
