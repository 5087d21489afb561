--------------------------- MODULE PlanExecution ----------------------------
(***************************************************************************)
(* What the controller promises about one plan at a time: every node gets  *)
(* one verdict, after the verdicts of the nodes it depends on; a node with *)
(* a dependency that was not applied is skipped; the run ends when every   *)
(* node has its verdict, with an error exactly when a node failed.  A run  *)
(* may be cut off at any time, and others may follow.                      *)
(***************************************************************************)
CONSTANTS Node, Dependencies

VARIABLES status, outcome

vars == <<status, outcome>>

Verdict == {"applied", "failed", "skipped"}

TypeOK ==
  /\ status \in [Node -> Verdict \cup {"pending"}]
  /\ outcome \in {"stopped", "running", "ok", "error"}

Init ==
  /\ status = [n \in Node |-> "pending"]
  /\ outcome = "stopped"

Start ==
  /\ outcome # "running"
  /\ outcome' = "running"
  /\ status' = [n \in Node |-> "pending"]

Settle(n, verdict) ==
  /\ outcome = "running"
  /\ status[n] = "pending"
  /\ \A d \in Dependencies[n] : status[d] # "pending"
  /\ verdict \in {"applied", "failed"} => \A d \in Dependencies[n] : status[d] = "applied"
  /\ status' = [status EXCEPT ![n] = verdict]
  /\ UNCHANGED outcome

Finish ==
  /\ outcome = "running"
  /\ \A n \in Node : status[n] # "pending"
  /\ outcome' = IF \E n \in Node : status[n] = "failed" THEN "error" ELSE "ok"
  /\ UNCHANGED status

Stop ==
  /\ outcome' = "stopped"
  /\ UNCHANGED status

Next ==
  \/ Start
  \/ \E n \in Node, verdict \in Verdict : Settle(n, verdict)
  \/ Finish
  \/ Stop

Spec == Init /\ [][Next]_vars
=============================================================================
