--------------------------- MODULE SubmissionClaims ---------------------------
(***************************************************************************)
(* The gate that a submission passes (scripts/verify_submission.py): deck, *)
(* video, evidence, claim sources and the candidate directory are checked, *)
(* errors are collected, and the submission passes when there is none.     *)
(* Its authors change it in between and try again.                         *)
(***************************************************************************)
EXTENDS Integers, Sequences, FiniteSets, FiniteSetsExt

CONSTANTS Kinds,        \* [metric keys -> {"rate", "count", "cost"}]
          Artifacts, Sources, Script,   \* Script is the final script's source
          Ratios,       \* pairs of numerator and denominator that authors write
          MaxBytes,     \* MAX_PACKAGE_BYTES
          MaxEdits      \* bound: changes of a consistent submission

VARIABLES sub, edits, phase, errors
vars == <<sub, edits, phase, errors>>

Keys        == DOMAIN Kinds
NA          == -1                         \* "not_applicable"
Provenances == {"live", "cached", "draft"}
Allowed     == {"live", "cached"}
Texts       == Sources \cup {"deck"}

-----------------------------------------------------------------------------
(* Faulty variant: the fraction is not padded to two digits. *)
PercentUnpadded(points) ==
  [unit |-> "%", whole |-> points \div 100,
   fraction |-> LET d == points % 100
                IN IF d = 0 THEN <<>> ELSE IF d < 10 THEN <<d>>
                   ELSE IF d % 10 = 0 THEN <<d \div 10>> ELSE <<d \div 10, d % 10>>]

(* `_percent_display`: basis points as a percentage without trailing zeros. *)
PercentDisplay(points) ==
  [unit |-> "%", whole |-> points \div 100,
   fraction |-> LET d == points % 100
                IN IF d = 0 THEN <<>>
                   ELSE IF d % 10 = 0 THEN <<d \div 10>> ELSE <<d \div 10, d % 10>>]

Plain(n) == [unit |-> "", whole |-> n, fraction |-> <<>>]
Cost(n)  == [unit |-> "$", whole |-> n \div 100, fraction |-> <<(n % 100) \div 10, n % 10>>]
Missing  == [unit |-> "N/A", whole |-> 0, fraction |-> <<>>]
Unknown  == [unit |-> "none", whole |-> 0, fraction |-> <<>>]

Rounded(num, den) == (num * 10000 + den \div 2) \div den

(* `_validate_arithmetic`: what the metric shows, Unknown after an error. *)
Arithmetic(key, m) ==
  IF m.num < 0 /\ m.num # NA THEN Unknown
  ELSE IF m.num = NA /\ m.den = NA /\ m.points = NA THEN Missing
  ELSE IF m.num # NA /\ m.den # NA /\ m.points # NA
       THEN IF Kinds[key] = "rate" /\ m.den > 0 /\ m.num <= m.den
                 /\ m.points = Rounded(m.num, m.den)
            THEN PercentDisplay(m.points) ELSE Unknown
  ELSE IF m.num # NA /\ m.den = NA /\ m.points = NA /\ Kinds[key] # "rate"
       THEN IF Kinds[key] = "cost" THEN Cost(m.num) ELSE Plain(m.num)
  ELSE Unknown

-----------------------------------------------------------------------------
(* `_safe_file` of a deck, a video or an evidence file: "safe" or not. *)
FileErrors == {"file" : f \in {f \in DOMAIN sub.files : sub.files[f] # "safe"}}

(* `_inspect_deck` and `_inspect_video`: what the tools answer is in range. *)
DeckErrors  == {"deck" : x \in {x \in {sub.pages} : x \notin 1..10}}
VideoErrors == {"video" : x \in {x \in {sub.seconds} : x \notin 1..300}}

(* Faulty variant: every artifact that is listed is taken for verified. *)
ListedArtifacts == Artifacts

(* `_validate_evidence`, the artifacts: in the package and of that hash. *)
ValidArtifacts ==
  {a \in Artifacts : sub.artifacts[a].file = "safe" /\ sub.artifacts[a].hash = sub.artifacts[a].content}

(* `_validate_provenance` and `_compare_provenance`: an unsuitable          *)
(* provenance is an error and still the one to be compared with.            *)
ProvenanceErrors(value) == {"provenance" : x \in {x \in {value} : x \notin Allowed}}
CompareErrors(value) ==
  ProvenanceErrors(value) \cup {"provenance differs" : x \in {x \in {value} : x # sub.provenance}}

(* `_validate_evidence`, one metric. *)
MetricErrors(key) ==
  LET m == sub.metrics[key]  shown == Arithmetic(key, m)
  IN IF m.status # "verified" THEN {"unverified"}
     ELSE {"frozen" : x \in {x \in {m.frozen} : x # sub.frozen}} \cup
          {"artifact" : x \in {x \in {m.artifact} : x \notin ValidArtifacts}} \cup
          CompareErrors(m.provenance) \cup
          (IF shown = Unknown THEN {"arithmetic"}
           ELSE {"display" : x \in {x \in {m.display} : x # shown}})

(* `_validate_evidence`, the whole. *)
EvidenceErrors ==
  {"status" : x \in {x \in {sub.status} : x # "final"}} \cup
  ProvenanceErrors(sub.provenance) \cup
  {"artifact" : a \in Artifacts \ ValidArtifacts} \cup
  (UNION {MetricErrors(k) : k \in Keys}) \cup
  (UNION {CompareErrors(sub.sources[s].provenance) : s \in sub.declared}) \cup
  {"script" : x \in {x \in {Script} : x \notin sub.declared}}

(* The metrics and the claim sources that claims are compared with. *)
Validated == {k \in Keys : sub.metrics[k].status = "verified"}

(* Faulty variant: a claim is compared with the metric's display only. *)
ClaimDisplayErrors(claim, of) ==
  IF claim.key \notin Validated THEN {"no metric"}
  ELSE {"claim display" : x \in {x \in {claim.display} : x # sub.metrics[claim.key].display}}

(* `_validate_claims`, one claim of a text; `of` is the set of the text's   *)
(* own provenance.                                                          *)
ClaimErrors(claim, of) ==
  IF claim.key \notin Validated THEN {"no metric"}
  ELSE LET m == sub.metrics[claim.key]
       IN {"claim display" : x \in {x \in {claim.display} : x # m.display}} \cup
          {"claim provenance" : x \in {x \in {m.provenance} \cup of : x # claim.provenance}}

(* `_validate_claims`: the claims, and what is loose in a text: a           *)
(* placeholder, a marker of another form, a number that nothing binds.      *)
TextErrors(t) ==
  LET of == IF t = "deck" THEN {sub.provenance}
            ELSE IF t \in sub.declared THEN {sub.sources[t].provenance} ELSE {}
  IN (UNION {ClaimErrors(c, of) : c \in sub.texts[t].claims}) \cup sub.texts[t].loose

(* `verify_submission`: the texts are the deck, what evidence declares and  *)
(* what the caller names; the latter must be declared as well.              *)
ClaimsErrors ==
  (UNION {TextErrors(t) : t \in {"deck"} \cup sub.declared \cup sub.given}) \cup
  {"undeclared" : s \in sub.given \ sub.declared}

-----------------------------------------------------------------------------
(* `enumerate_candidate_files`: directories are walked from the root;       *)
(* what is private or a link is an error, what is excluded is passed over,  *)
(* in that order for a directory; a link that is an excluded file passes.   *)
DirectoryFate(part) ==
  CASE "private" \in part -> "error" [] "link" \in part -> "error"
    [] "excluded" \in part -> "skip" [] OTHER -> "keep"
FileFate(part) ==
  CASE "private" \in part -> "error" [] "excluded" \in part -> "skip"
    [] "link" \in part -> "error" [] OTHER -> "keep"

Fate(path) ==
  LET fates == [i \in DOMAIN path |-> IF i = Len(path) THEN FileFate(path[i])
                                      ELSE DirectoryFate(path[i])]
      first == {i \in DOMAIN path : fates[i] # "keep" /\ \A j \in 1..(i - 1) : fates[j] = "keep"}
  IN IF first = {} THEN "keep" ELSE CHOOSE f \in {fates[i] : i \in first} : TRUE

Candidates == {f \in sub.tree : Fate(f.path) = "keep"}

(* `_validate_candidate_files` *)
BytesOf(S) == MapThenSumSet(LAMBDA f : f.bytes, S)

TreeErrors ==
  {"prohibited" : f \in {f \in sub.tree : Fate(f.path) = "error"}} \cup
  {"duplicate" : p \in {p \in Candidates \X Candidates : p[1] # p[2] /\ p[1].name = p[2].name}} \cup
  {"size" : x \in {x \in {BytesOf(Candidates)} : x >= MaxBytes}}

-----------------------------------------------------------------------------
(* A submission that its authors have put together in order, and what they  *)
(* may get wrong.                                                           *)
RateOf(r) == [num |-> r[1], den |-> r[2], points |-> Rounded(r[1], r[2])]
Metric(key, provenance) ==
  [status |-> "verified", frozen |-> "f", artifact |-> CHOOSE a \in Artifacts : TRUE,
   provenance |-> provenance, num |-> 3, den |-> NA, points |-> NA,
   display |-> IF Kinds[key] = "cost" THEN Cost(3) ELSE Plain(3)]
Rate(m, r) ==
  LET q == RateOf(r)
  IN [m EXCEPT !.num = q.num, !.den = q.den, !.points = q.points,
               !.display = PercentDisplay(q.points)]

Ordered(r, provenance) ==
  LET metrics == [k \in Keys |-> IF Kinds[k] = "rate" THEN Rate(Metric(k, provenance), r)
                                 ELSE Metric(k, provenance)]
      text == [claims |-> {[key |-> k, display |-> metrics[k].display,
                            provenance |-> provenance] : k \in Keys},
               loose |-> {}]
  IN [status |-> "final", frozen |-> "f", provenance |-> provenance,
      files |-> [f \in {"deck", "video", "evidence"} |-> "safe"], pages |-> 10, seconds |-> 300,
      artifacts |-> [a \in Artifacts |-> [file |-> "safe", hash |-> "h", content |-> "h"]],
      metrics |-> metrics, sources |-> [s \in Sources |-> [provenance |-> provenance]],
      declared |-> Sources, given |-> {}, texts |-> [t \in Texts |-> text],
      tree |-> {[path |-> <<{}, {}>>, name |-> "deck", bytes |-> 1]}]

Init ==
  /\ \E r \in Ratios, p \in Allowed : sub = Ordered(r, p)
  /\ edits = 0 /\ phase = "open" /\ errors = {}

Displays(key) ==
  {Cost(3), Plain(3), Missing} \cup {PercentDisplay(Rounded(r[1], r[2])) : r \in Ratios}

(* Everything about a metric or a claim may come from another draft. *)
EditMetric ==
  \E k \in Keys : \E m \in
      {[sub.metrics[k] EXCEPT !.status = "pending"], [sub.metrics[k] EXCEPT !.frozen = "g"],
       [sub.metrics[k] EXCEPT !.num = NA, !.den = NA, !.points = NA],
       [sub.metrics[k] EXCEPT !.points = @ + 1]} \cup
      {[sub.metrics[k] EXCEPT !.provenance = p] : p \in Provenances} \cup
      {[sub.metrics[k] EXCEPT !.artifact = a] : a \in Artifacts} \cup
      {[sub.metrics[k] EXCEPT !.num = r[1], !.den = r[2]] : r \in Ratios} \cup
      {Rate(sub.metrics[k], r) : r \in Ratios} \cup
      {[sub.metrics[k] EXCEPT !.display = d] : d \in Displays(k)} :
    sub' = [sub EXCEPT !.metrics[k] = m]

EditText ==
  \E t \in Texts : \E x \in
      {[claims |-> {[c EXCEPT !.display = d] : c \in sub.texts[t].claims},
        loose |-> {}] : d \in Displays(CHOOSE k \in Keys : TRUE)} \cup
      {[claims |-> {[c EXCEPT !.provenance = p] : c \in sub.texts[t].claims},
        loose |-> {}] : p \in Provenances} \cup
      {[claims |-> {}, loose |-> l] : l \in {{}, {"placeholder"}, {"marker"}, {"number"}}} :
    sub' = [sub EXCEPT !.texts[t] = x]

EditRest ==
  \/ \E p \in Provenances : sub' = [sub EXCEPT !.provenance = p]
  \/ sub' = [sub EXCEPT !.status = "draft"]
  \/ \E a \in Artifacts, f \in {"safe", "unsafe"}, c \in {"h", "i"} :
       sub' = [sub EXCEPT !.artifacts[a] = [@ EXCEPT !.file = f, !.content = c]]
  \/ \E s \in Sources : \/ sub' = [sub EXCEPT !.declared = @ \ {s}]
                        \/ sub' = [sub EXCEPT !.given = @ \cup {s}]
                        \/ \E p \in Provenances : sub' = [sub EXCEPT !.sources[s].provenance = p]
  \/ \E f \in {"deck", "video", "evidence"} : sub' = [sub EXCEPT !.files[f] = "unsafe"]
  \/ sub' = [sub EXCEPT !.pages = 11] \/ sub' = [sub EXCEPT !.seconds = 301]
  \/ \E d, f \in SUBSET {"private", "link", "excluded"},
        file \in {[name |-> "deck", bytes |-> 1], [name |-> "notes", bytes |-> MaxBytes - 1]} :
       /\ d = {} \/ f \in {{}, {"private"}}
       /\ sub' = [sub EXCEPT !.tree =
                   @ \cup {[path |-> <<d, f>>, name |-> file.name, bytes |-> file.bytes]}]

Edit ==
  /\ phase = "open" /\ edits < MaxEdits /\ edits' = edits + 1
  /\ EditMetric \/ EditText \/ EditRest
  /\ UNCHANGED <<phase, errors>>

(* `verify_submission` *)
Verify ==
  /\ phase = "open"
  /\ errors' = FileErrors \cup DeckErrors \cup VideoErrors \cup EvidenceErrors \cup ClaimsErrors \cup TreeErrors
  /\ phase' = IF errors' = {} THEN "passed" ELSE "failed"
  /\ UNCHANGED <<sub, edits>>

Next == Edit \/ Verify

Spec == Init /\ [][Next]_vars

-----------------------------------------------------------------------------
(* What a reader of the submission takes a claim for: the number shown.     *)
Reading(d) ==
  d.whole * 100 + (IF Len(d.fraction) > 0 THEN d.fraction[1] * 10 ELSE 0)
                + (IF Len(d.fraction) > 1 THEN d.fraction[2] ELSE 0)

(* A text that anybody shows, of a submission that passed, claims what was  *)
(* measured: the ratio to the nearest basis point, of a metric on the same  *)
(* frozen state, taken from an artifact whose hash was verified, all of one *)
(* provenance; and nothing private is among the files to be packaged.       *)
PassedIsTrue ==
  phase = "passed" =>
    /\ \A t \in {"deck"} \cup sub.given \cup sub.declared : \A c \in sub.texts[t].claims :
         LET m == sub.metrics[c.key]  a == sub.artifacts[m.artifact]
         IN /\ m.status = "verified" /\ m.frozen = sub.frozen
            /\ a.hash = a.content /\ a.file = "safe"
            /\ sub.provenance = c.provenance /\ c.provenance \in Allowed
            /\ m.num = NA => c.display = Missing
            /\ m.num # NA /\ Kinds[c.key] = "rate" =>
                 2 * (Reading(c.display) * m.den - 10000 * m.num) \in (-m.den)..m.den
            /\ m.num # NA /\ Kinds[c.key] # "rate" =>
                 m.num = Reading(c.display) \div (IF Kinds[c.key] = "cost" THEN 1 ELSE 100)
    /\ Script \in sub.declared
    /\ \A f \in Candidates : \A i \in DOMAIN f.path : {"private", "link"} \cap f.path[i] = {}
=============================================================================
