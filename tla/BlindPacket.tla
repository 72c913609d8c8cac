----------------------------- MODULE BlindPacket -----------------------------
(***************************************************************************)
(* The sealed members of a blind benchmark, from their two seals           *)
(* (scripts/seal_blind_benchmark.py,                                       *)
(* scripts/validate_and_seal_blind_contracts.py) to their revelation       *)
(* (features/evaluation/gold_assessment.py).  Members name each other by   *)
(* hash; a hash is modelled by what is hashed.  A packet is a mixture of   *)
(* members of consistent editions: somebody changed a text, a contract or  *)
(* a rule and did not regenerate everything that depends on it.            *)
(***************************************************************************)
CONSTANTS Editions,     \* records: text, contract, rules, engine, gold, defects, confirmed
          EngineNow     \* the engine version of the program that reveals

VARIABLES
  packet,      \* the members, as they are on disk
  policy,      \* the source text that the first seal commits to
  ids,         \* the defect identifiers it commits to
  seal,        \* the ledger of the second seal: {} or {ledger}
  phase        \* "author", "sealed", "altered", "refused", "revealed", "rejected"
vars == <<packet, policy, ids, seal, phase>>

Names == {"source-labels", "canonical-policy-ir", "confirmed-contract", "frozen-suite",
          "expected-effects", "defect-manifest", "corrected-semantics"}

(* The members that a run of the authors' tools on one edition gives. *)
SourceOf(e)    == [text |-> e.text, document |-> e.text, spans |-> e.text, labels |-> e.rules]
PolicyOf(e)    == [document |-> e.text, spans |-> e.text, rules |-> e.rules,
                   confirmed |-> e.confirmed]
ContractOf(e)  == e.contract
SuiteOf(e)     == [document |-> e.text, contract |-> ContractOf(e), rules |-> e.rules,
                   engine |-> e.engine, gold |-> e.gold]
ReportOf(e)    == [policy |-> PolicyOf(e), contract |-> ContractOf(e), suite |-> SuiteOf(e),
                   engine |-> e.engine]
ManifestOf(e)  == [document |-> e.text, spans |-> e.text, contract |-> ContractOf(e),
                   engine |-> e.engine, gold |-> e.gold, defects |-> e.defects]
CorrectedOf(e) == [document |-> e.text, baseline |-> PolicyOf(e)]

Member(name, e) ==
  CASE name = "source-labels"       -> SourceOf(e)
    [] name = "canonical-policy-ir" -> PolicyOf(e)
    [] name = "confirmed-contract"  -> ContractOf(e)
    [] name = "frozen-suite"        -> SuiteOf(e)
    [] name = "expected-effects"    -> ReportOf(e)
    [] name = "defect-manifest"     -> ManifestOf(e)
    [] name = "corrected-semantics" -> CorrectedOf(e)

Consistent(e) == [name \in Names |-> Member(name, e)]
Mixture(e, f, changed) == [name \in Names |-> Member(name, IF name \in changed THEN f ELSE e)]

-----------------------------------------------------------------------------
(* Faulty variant: the expected effects are taken for those of the members. *)
LinksWithoutReport(p, text, sealedIds) ==
  LET source == p["source-labels"]      baseline == p["canonical-policy-ir"]
      contract == p["confirmed-contract"]  suite == p["frozen-suite"]
      manifest == p["defect-manifest"]  corrected == p["corrected-semantics"]
  IN /\ source.text = text /\ source.document = text /\ source.spans = source.text
     /\ baseline.confirmed /\ baseline.spans = source.text
     /\ {baseline.document, suite.document, manifest.document, corrected.document} = {text}
     /\ source.labels = baseline.rules /\ manifest.defects = sealedIds
     /\ suite.contract = contract /\ manifest.contract = contract
     /\ suite.rules = baseline.rules /\ corrected.baseline = baseline
     /\ suite.engine = manifest.engine /\ manifest.gold = suite.gold
     /\ manifest.spans = source.text

(* `_validate_links`: every member is anchored in the others, and all of   *)
(* them in the source text and the defect identifiers of the first seal.   *)
Links(p, text, sealedIds) ==
  LET source == p["source-labels"]      baseline == p["canonical-policy-ir"]
      contract == p["confirmed-contract"]  suite == p["frozen-suite"]
      report == p["expected-effects"]   manifest == p["defect-manifest"]
      corrected == p["corrected-semantics"]
  IN /\ source.text = text /\ source.document = text /\ source.spans = source.text
     /\ baseline.confirmed /\ baseline.spans = source.text
     /\ {baseline.document, suite.document, manifest.document, corrected.document} = {text}
     /\ source.labels = baseline.rules /\ manifest.defects = sealedIds
     /\ suite.contract = contract /\ manifest.contract = contract
     /\ suite.rules = baseline.rules /\ corrected.baseline = baseline
     /\ report.policy = baseline /\ report.contract = contract /\ report.suite = suite
     /\ {suite.engine, manifest.engine, report.engine} = {suite.engine}
     /\ manifest.gold = suite.gold /\ manifest.spans = source.text

(* `validate_revealed_benchmark`: the sealed hashes, the anchors once more, *)
(* the engine of today and at least one gold case.                          *)
Reveals(p, ledger) ==
  LET source == p["source-labels"]      baseline == p["canonical-policy-ir"]
      contract == p["confirmed-contract"]  suite == p["frozen-suite"]
      report == p["expected-effects"]   manifest == p["defect-manifest"]
      corrected == p["corrected-semantics"]
  IN /\ ledger.hashes = p
     /\ source.document = source.text /\ source.spans = source.text
     /\ baseline.document = source.document /\ baseline.spans = source.text
     /\ baseline.confirmed
     /\ {baseline.document, suite.document, manifest.document, corrected.document}
          = {ledger.policy}
     /\ suite.contract = contract /\ manifest.contract = contract
     /\ suite.rules = baseline.rules
     /\ report.policy = baseline /\ corrected.baseline = baseline
     /\ report.contract = contract /\ report.suite = suite
     /\ {manifest.engine, suite.engine, report.engine} = {EngineNow}
     /\ ledger.ids = manifest.defects /\ source.labels = baseline.rules
     /\ manifest.gold # {} /\ manifest.gold \subseteq suite.gold
     /\ manifest.spans = source.text

-----------------------------------------------------------------------------
(* The first seal (`create_seal_ledger`) takes hashes that it is given and  *)
(* never opens the archive.                                                 *)
Init ==
  /\ \E e, f \in Editions, changed \in SUBSET Names :
       /\ packet = Mixture(e, f, changed)
       /\ policy = e.text /\ ids \in {e.defects, f.defects}
  /\ seal = {} /\ phase = "author"

(* `validate_and_seal_blind_contracts`: a refusal creates no ledger. *)
SealContracts ==
  /\ phase = "author"
  /\ IF Links(packet, policy, ids)
     THEN seal' = {[hashes |-> packet, policy |-> policy, ids |-> ids]} /\ phase' = "sealed"
     ELSE phase' = "refused" /\ UNCHANGED seal
  /\ UNCHANGED <<packet, policy, ids>>

(* After the seal, some members are regenerated from another edition. *)
Regenerate ==
  /\ phase = "sealed"
  /\ \E f \in Editions, changed \in (SUBSET Names) \ {{}} :
       packet' = [name \in Names |-> IF name \in changed THEN Member(name, f) ELSE packet[name]]
  /\ phase' = "altered" /\ UNCHANGED <<policy, ids, seal>>

Reveal ==
  /\ phase \in {"sealed", "altered"}
  /\ phase' = IF \A ledger \in seal : Reveals(packet, ledger) THEN "revealed" ELSE "rejected"
  /\ UNCHANGED <<packet, policy, ids, seal>>

Next == SealContracts \/ Regenerate \/ Reveal

Spec == Init /\ [][Next]_vars

-----------------------------------------------------------------------------
TypeOK ==
  /\ phase \in {"author", "sealed", "altered", "refused", "revealed", "rejected"}
  /\ DOMAIN packet = Names
  /\ phase \in {"author", "refused"} <=> seal = {}

(* The anchors are enough: what is sealed is the work of one edition, whose *)
(* text and defects are those of the first seal, however it was put         *)
(* together.                                                                *)
SealedIsOneEdition ==
  \A ledger \in seal :
    LET p == ledger.hashes
        e == [text |-> p["source-labels"].text, contract |-> p["confirmed-contract"],
              rules |-> p["canonical-policy-ir"].rules, engine |-> p["frozen-suite"].engine,
              gold |-> p["frozen-suite"].gold, defects |-> p["defect-manifest"].defects,
              confirmed |-> p["canonical-policy-ir"].confirmed]
    IN p = Consistent(e) /\ ledger.policy = e.text /\ ledger.ids = e.defects /\ e.confirmed

(* What is revealed is what was sealed, and what was sealed can be revealed *)
(* if nothing was touched, the engine is the same and there is a gold case. *)
RevealedIsSealed ==
  \A ledger \in seal :
    /\ phase = "revealed" => packet = ledger.hashes
    /\ phase = "rejected" /\ packet = ledger.hashes =>
         \/ packet["frozen-suite"].engine # EngineNow
         \/ packet["defect-manifest"].gold = {}
=============================================================================
