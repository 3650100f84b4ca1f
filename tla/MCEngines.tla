------------------------------ MODULE MCEngines -----------------------------
(***************************************************************************)
(* What the engines do while a container runs, for TLC: the OCI engine     *)
(* with three commands that start, pause, resume and kill (OciEngine) and  *)
(* with two that also delete (a second instance), the commands that mount  *)
(* and unmount a bundle (OciBundle), and process 1 of a container          *)
(* (AppInit).  A behaviour belongs to one part: the variables of OciEngine *)
(* rest in an initial state in those of the others, which lie over the     *)
(* same variables v1, v2, ...                                              *)
(***************************************************************************)
EXTENDS OciEngine

VARIABLES part, v1, v2, v3, v4, v5, v6, v7, v8, v9, v10, v11, v12, v13, v14

De == INSTANCE OciEngine WITH
        Masters <- {"m1"}, Clients <- {"c1", "c2"}, None <- "none",
        Ops <- {"start", "kill", "killwait", "delete"},
        MayFail <- TRUE, MayTimeout <- TRUE, Early <- TRUE,
        file <- v1, sock <- v2, eng <- v3, cli <- v4

Bu == INSTANCE OciBundle WITH
        MaxCommands <- 4,
        dirs <- v1, stack <- v2, bind <- v3, cmd <- v4, before <- v5, result <- v6,
        count <- v7, others <- v8

Ai == INSTANCE AppInit WITH
        Fuse <- {"f1"}, Orphans <- {"o1"}, MaxSignals <- 1,
        cfg <- v1, pc <- v2, todo <- v3, proc <- v4, status <- v5, told <- v6,
        wait <- v7, errChan <- v8, statusChan <- v9, pend <- v10, signals <- v11,
        sent <- v12, dropped <- v13, exit <- v14

from9 == <<v9, v10, v11, v12, v13, v14>>
from5 == <<v5, v6, v7, v8, from9>>
other == <<v1, v2, v3, v4, from5>>
all == <<part, other, vars>>

\* The variables a smaller part does not use.
From9 == v9 = 0 /\ v10 = 0 /\ v11 = 0 /\ v12 = 0 /\ v13 = 0 /\ v14 = 0
From5 == v5 = 0 /\ v6 = 0 /\ v7 = 0 /\ v8 = 0 /\ From9
From1 == v1 = 0 /\ v2 = 0 /\ v3 = 0 /\ v4 = 0 /\ From5

MCInit ==
    /\ Init
    /\ \/ part = "oci" /\ From1
       \/ part = "delete" /\ De!Init /\ From5
       \/ part = "bundle" /\ Bu!Init /\ From9
       \/ part = "appinit" /\ Ai!Init

MCNext ==
    \/ part = "oci" /\ Next /\ UNCHANGED <<part, other>>
    \/ part = "delete" /\ De!Next /\ UNCHANGED <<part, vars, from5>>
    \/ part = "bundle" /\ Bu!Next /\ UNCHANGED <<part, vars, from9>>
    \/ part = "appinit" /\ Ai!Next /\ UNCHANGED <<part, vars>>

\* The fairness of the parts' own specifications.
deVars == De!vars
aiVars == Ai!vars

MCFairness ==
    /\ WF_deVars(part = "delete" /\ De!Create("m1"))
    /\ WF_deVars(part = "delete" /\ De!Start("m1"))
    /\ WF_deVars(part = "delete" /\ De!Control("m1"))
    /\ WF_deVars(part = "delete" /\ De!MonitorContainer("m1"))
    /\ WF_deVars(part = "delete" /\ De!Main("m1"))
    /\ WF_deVars(part = "delete" /\ De!Proc("m1"))
    /\ WF_deVars(part = "delete" /\ De!EndsSignalled("m1"))
    /\ \A c \in {"c1", "c2"} : WF_deVars(part = "delete" /\ De!Command(c))
    /\ WF_aiVars(part = "appinit" /\ Ai!Begins)
    /\ WF_aiVars(part = "appinit" /\ Ai!LoopSignal)
    /\ WF_aiVars(part = "appinit" /\ Ai!Reap)
    /\ WF_aiVars(part = "appinit" /\ Ai!StopFuse)
    /\ WF_aiVars(part = "appinit" /\ Ai!SendStatus)
    /\ SF_aiVars(part = "appinit" /\ Ai!LoopErr)
    /\ WF_aiVars(part = "appinit" /\ Ai!Wait)
    /\ \A s \in {"CHLD", "TERM", "URG"} : WF_aiVars(part = "appinit" /\ Ai!Relay(s))
    /\ \A p \in Ai!Procs : WF_aiVars(part = "appinit" /\ Ai!EndsTold(p))

MCSpec == MCInit /\ [][MCNext]_all /\ MCFairness

-----------------------------------------------------------------------------
(* Properties: those of the parts, in the behaviours of the part.               *)
(* ReportsAreTrue and Lifecycle are OciEngine's own.                            *)

\* A container that was deleted has no file (cleanup_linux.go, oci_delete_linux.go).
DeletedStaysGone == part = "delete" => De!DeletedIsGone

\* What "oci mount" and "oci umount" report of a bundle is so (oci/sif.go).
BundleIsAsReported == part = "bundle" => Bu!BundleIsAsReported

\* Process 1 of the container ends like the command it ran (process_linux.go:259-334).
EndsLikeCommand == part = "appinit" => Ai!EndsLikeCommand

\* A command of the OCI engine ends, and has its effect (the first client's, as they
\* are alike); process 1 notices the end of the command and of other processes.
EndsAreNoticed ==
    \A k \in 1..2 :
        (\/ part = "delete" /\ De!UnderWay("c1", k)
         \/ part = "appinit" /\ Ai!Unnoticed(k))
        ~>
        (\/ part = "delete" /\ De!Effected("c1", k)
         \/ part = "appinit" /\ Ai!Noticed(k))

=============================================================================
