------------------------------ MODULE MCMaster ------------------------------
(* Instances of Master for TLC. *)
EXTENDS Master

\* A container that fails and one that is killed.
MCExitStatuses == {Exited(3), Signaled(9)}

=============================================================================
