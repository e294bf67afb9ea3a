--------------------------- MODULE ExperimentLog ---------------------------
(***************************************************************************)
(* What a fault-injection campaign promises to whoever reads its result    *)
(* directory: every faulty version is executed alone, and a version whose  *)
(* directory exists keeps that verdict for ever.  execute_tests.sh refines *)
(* this specification (Campaign.tla, RefinesLog).                          *)
(***************************************************************************)
CONSTANT Fault          \* identifiers of the faulty versions

VARIABLE status         \* what the result directory says of each version

vars == <<status>>

Status == {"waiting", "running", "done"}

TypeOK == status \in [Fault -> Status]

\* A campaign may start over a result directory filled by earlier ones.
Init == status \in [Fault -> {"waiting", "done"}]

Start(f) ==
  /\ status[f] = "waiting"
  /\ \A g \in Fault : status[g] # "running"
  /\ status' = [status EXCEPT ![f] = "running"]

Finish(f) ==
  /\ status[f] = "running"
  /\ status' = [status EXCEPT ![f] = "done"]

\* The campaign is stopped in the middle of an experiment.
Abort(f) ==
  /\ status[f] = "running"
  /\ status' = [status EXCEPT ![f] = "waiting"]

Next == \E f \in Fault : Start(f) \/ Finish(f) \/ Abort(f)

Spec == Init /\ [][Next]_vars
============================================================================
