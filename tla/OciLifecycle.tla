---------------------------- MODULE OciLifecycle ----------------------------
(***************************************************************************)
(* What the OCI commands promise about one container ID: the status that   *)
(* "oci state" shows, and the only ways it may change.  "none" is a        *)
(* container that does not exist.                                          *)
(***************************************************************************)

VARIABLE status

Statuses == {"none", "creating", "created", "running", "paused", "stopped"}

Init == status = "none"

Create  == status = "none" /\ status' = "creating"
Created == status = "creating" /\ status' = "created"
Abort   == status = "creating" /\ status' = "none"
Start   == status = "created" /\ status' = "running"
Pause   == status = "running" /\ status' = "paused"
Resume  == status = "paused" /\ status' = "running"
Stop    == status \in {"creating", "created", "running", "paused"} /\ status' = "stopped"
Delete  == status \in {"created", "stopped"} /\ status' = "none"

Next == Create \/ Created \/ Abort \/ Start \/ Pause \/ Resume \/ Stop \/ Delete

Spec == Init /\ [][Next]_status

=============================================================================
