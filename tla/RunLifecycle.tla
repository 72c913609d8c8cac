---------------------------- MODULE RunLifecycle ----------------------------
(***************************************************************************)
(* What the coordinator promises of each run, seen from outside: the       *)
(* server works, a person decides, the server works on.  No jobs, no       *)
(* versions, no requests.  Work that was accepted is finished, one way or  *)
(* another, unless the run is removed; and a removed run never returns.    *)
(***************************************************************************)

CONSTANT Runs

VARIABLE phase   \* per run

Working == {"compiling", "testing", "drafting", "retesting"}
Deciding == {"contract", "review", "revision"}
Phases == {"unborn", "ended", "gone"} \union Working \union Deciding

Init == phase = [r \in Runs |-> "unborn"]

Go(r, from, to) ==
  /\ phase[r] = from
  /\ phase' = [phase EXCEPT ![r] = to]

(* A cached run is born finished.                                          *)
Create(r) == Go(r, "unborn", "compiling") \/ Go(r, "unborn", "ended")

Finish(r) ==
  \/ Go(r, "compiling", "contract")
  \/ Go(r, "testing", "review")
  \/ Go(r, "drafting", "revision")
  \/ \E w \in Working : Go(r, w, "ended")

(* A decision starts the next work or ends the run, and is taken once.     *)
Decide(r) ==
  \/ Go(r, "contract", "testing")
  \/ Go(r, "review", "drafting")
  \/ Go(r, "revision", "retesting")
  \/ \E d \in Deciding : Go(r, d, "ended")

Remove(r) == \E p \in Phases \ {"unborn", "gone"} : Go(r, p, "gone")

Work(r) == Finish(r) \/ Remove(r)

Next == \E r \in Runs : Create(r) \/ Finish(r) \/ Decide(r) \/ Remove(r)

(* Work in progress ends.                                                  *)
Spec ==
  /\ Init
  /\ [][Next]_phase
  /\ \A r \in Runs : WF_phase(phase[r] \in Working /\ Work(r))
=============================================================================
