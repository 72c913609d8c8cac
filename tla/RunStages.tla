------------------------------ MODULE RunStages ------------------------------
(***************************************************************************)
(* backend/app/workflow/state_machine.py: the stages of a run, the legal   *)
(* edges between them, and the commands a client is told it may send.      *)
(***************************************************************************)

Transitions ==
  [queued                         |-> {"ingesting", "failed"},
   ingesting                      |-> {"extracting", "failed"},
   extracting                     |-> {"awaiting_contract", "failed"},
   awaiting_contract              |-> {"generating_initial_tests",
                                       "contract_rejected", "failed"},
   generating_initial_tests       |-> {"provisional_execution", "failed"},
   provisional_execution          |-> {"targeting_coverage", "freezing_suite",
                                       "coverage_limit_exceeded", "failed"},
   targeting_coverage             |-> {"freezing_suite",
                                       "coverage_limit_exceeded", "failed"},
   freezing_suite                 |-> {"baseline_execution", "failed"},
   baseline_execution             |-> {"analyzing", "failed"},
   analyzing                      |-> {"awaiting_finding_review",
                                       "completed_no_findings", "failed"},
   awaiting_finding_review        |-> {"drafting_revision",
                                       "completed_no_revision", "failed"},
   drafting_revision              |-> {"awaiting_revision_confirmation", "failed"},
   awaiting_revision_confirmation |-> {"applying_revision",
                                       "revision_rejected", "failed"},
   applying_revision              |-> {"retesting", "failed"},
   retesting                      |-> {"complete", "failed"},
   complete                       |-> {},
   completed_no_findings          |-> {},
   completed_no_revision          |-> {},
   contract_rejected              |-> {},
   revision_rejected              |-> {},
   coverage_limit_exceeded        |-> {},
   failed                         |-> {}]

Stages == DOMAIN Transitions

(* The stages a person decides, the stages nothing leaves, and the stages  *)
(* the server works through on its own.                                    *)
Gates == {"awaiting_contract", "awaiting_finding_review",
          "awaiting_revision_confirmation"}
Terminal == {s \in Stages : Transitions[s] = {}}
Automatic == Stages \ (Gates \union Terminal)

Legal(from, to) == to \in Transitions[from]

(* allowed_actions: what RunView tells the client it may do.               *)
AllowedActions(stage) ==
  CASE stage = "awaiting_contract" -> {"confirm_contract", "delete_run"}
    [] stage = "awaiting_finding_review" -> {"select_findings", "delete_run"}
    [] stage = "awaiting_revision_confirmation" -> {"confirm_revision", "delete_run"}
    [] OTHER -> {"delete_run"}
=============================================================================
