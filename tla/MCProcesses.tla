---------------------------- MODULE MCProcesses -----------------------------
(***************************************************************************)
(* The processes of a container, for TLC: "instance stop" (InstanceStop),  *)
(* the starter's chain of processes (Starter), the FUSE programs that      *)
(* mount images (ImageDriver), the registry of instances (Instance) and    *)
(* the commands that share a container (ShareNS).  A behaviour belongs to  *)
(* one part: that part's variables move, and InstanceStop's rest in an     *)
(* initial state in those of the others, which lie over the same variables *)
(* v1, v2, ...                                                             *)
(***************************************************************************)
EXTENDS InstanceStop

VARIABLES part, v1, v2, v3, v4, v5, v6, v7, v8, v9, v10, v11, v12, v13, v14

other == <<v1, v2, v3, v4, v5, v6, v7, v8, v9, v10, v11, v12, v13, v14>>
all == <<part, other, vars>>

\* An ordinary user with a starter that is setuid root and with one that is not,
\* and every configuration that the starter can be given: an instance is created,
\* not joined.
St == INSTANCE Starter WITH
        Hosts <- {[suid |-> b, root |-> FALSE, credChange |-> b] : b \in BOOLEAN},
        Configs <- {c \in [instance : BOOLEAN, joinOnly : BOOLEAN, hybrid : BOOLEAN,
                           propagate : BOOLEAN, pidns : BOOLEAN,
                           userns : {"none", "enter", "create"}] :
                      ~(c.instance /\ c.joinOnly)},
        MaxKills <- 2,
        host <- v1, cfg <- v2, pc <- v3, st <- v4, toChild <- v5, toMain <- v6,
        sigchld <- v7, pdeath <- v8, mapped <- v9, shared <- v10, joined <- v11,
        rpcOpen <- v12, detached <- v13, kills <- v14

Dr == INSTANCE ImageDriver WITH
        Drivers <- 2, MaxFails <- 2,
        WaitForMount <- v1, pc <- v2, cur <- v3, process <- v4, failing <- v5, cmd <- v6,
        output <- v7, had <- v8, mountErr <- v9, stopped <- v10, early <- v11,
        result <- v12, fails <- v13, panicked <- v14

In == INSTANCE Instance WITH
        Masters <- {"m1", "m2"}, Listers <- {"l1", "l2"}, MaxFaults <- 1,
        file <- v1, inodes <- v2, at <- v3, get <- v4, seen <- v5, mine <- v6,
        faults <- v7, overlap <- v8, stale <- v9

Sh == INSTANCE ShareNS WITH
        Procs <- {"p1", "p2", "p3"}, None <- "none", MaxFails <- 1,
        at <- v1, path <- v2, inodes <- v3, marked <- v4, ino <- v5, lk <- v6,
        excl <- v7, instance <- v8, joined <- v9, fails <- v10, overlap <- v11

Quiet == Init /\ container = [i \in Instances |-> "idle"]

\* The variables a smaller part does not use.
Upper == v12 = 0 /\ v13 = 0 /\ v14 = 0
Middle == v10 = 0 /\ v11 = 0
Lower == /\ v1 = 0 /\ v2 = 0 /\ v3 = 0 /\ v4 = 0 /\ v5 = 0 /\ v6 = 0 /\ v7 = 0 /\ v8 = 0
         /\ v9 = 0

MCInit ==
    \/ part = "stop" /\ Init /\ Lower /\ Middle /\ Upper
    \/ part = "starter" /\ Quiet /\ St!Init
    \/ part = "driver" /\ Quiet /\ Dr!Init
    \/ part = "registry" /\ Quiet /\ In!Init /\ Middle /\ Upper
    \/ part = "sharens" /\ Quiet /\ Sh!Init /\ Upper

MCNext ==
    \/ part = "stop" /\ Next /\ UNCHANGED <<part, other>>
    \/ part = "starter" /\ St!Next /\ UNCHANGED <<part, vars>>
    \/ part = "driver" /\ Dr!Next /\ UNCHANGED <<part, vars>>
    \/ part = "registry" /\ In!Next /\ UNCHANGED <<part, vars, v10, v11, v12, v13, v14>>
    \/ part = "sharens" /\ Sh!Next /\ UNCHANGED <<part, vars, v12, v13, v14>>

\* The fairness of the parts' own specifications.
stVars == St!vars
drVars == Dr!vars
inVars == In!vars
shVars == Sh!vars

MCFairness ==
    /\ WF_vars(part = "stop" /\ Receive)
    /\ WF_vars(part = "stop" /\ Expire)
    /\ WF_vars(part = "stop" /\ ForceKill)
    /\ WF_vars(part = "stop" /\ Tick)
    /\ \A i \in Instances : /\ WF_vars(part = "stop" /\ Killer(i))
                            /\ WF_vars(part = "stop" /\ MasterExit(i))
    /\ WF_stVars(part = "starter" /\ St!StageOne)
    /\ WF_stVars(part = "starter" /\ St!MainC)
    /\ WF_stVars(part = "starter" /\ St!ChildC)
    /\ WF_stVars(part = "starter" /\ St!ParentEnds)
    /\ WF_stVars(part = "starter" /\ St!GoCreated)
    /\ WF_stVars(part = "starter" /\ St!GoReap)
    /\ WF_stVars(part = "starter" /\ St!RpcEnds)
    /\ WF_drVars(part = "driver" /\ Dr!All)
    /\ WF_drVars(part = "driver" /\ Dr!Forward)
    /\ WF_drVars(part = "driver" /\ Dr!Create)
    /\ WF_drVars(part = "driver" /\ Dr!CreateFailed)
    /\ WF_drVars(part = "driver" /\ Dr!Clean)
    /\ \A i \in Dr!D : /\ WF_drVars(part = "driver" /\ Dr!Mounts(i))
                       /\ WF_drVars(part = "driver" /\ Dr!Watch(i))
                       /\ WF_drVars(part = "driver" /\ Dr!WatchSend(i))
    /\ \A g \in Dr!Goroutines : WF_drVars(part = "driver" /\ Dr!WaitInstance(g))
    /\ \A p \in In!Procs : WF_inVars(part = "registry" /\ In!List(p))
    /\ \A l \in {"l1", "l2"} : WF_inVars(part = "registry" /\ In!RunList(l))
    /\ \A m \in {"m1", "m2"} : WF_inVars(part = "registry" /\ In!OwnStep(m))
    /\ \A p \in {"p1", "p2", "p3"} : WF_shVars(part = "sharens" /\ Sh!Step(p))

MCSpec == MCInit /\ [][MCNext]_all /\ MCFairness

-----------------------------------------------------------------------------
(* Properties: those of the parts, in the behaviours of the part.  StopEffective *)
(* and GraceBounded are InstanceStop's own.                                      *)

\* The starter's processes stay in step, report success only when it is earned and
\* leave two processes (starter.c:1108-1135, 1468-1507, 1598-1664).
ChainIsSound == part = "starter" => St!ChainIsSound

\* No goroutine waits for the driver of another, and a container runs on mounts that
\* are there (imagedriver.go:393-453, 545-553), unless the container is killed while
\* they are being mounted.
DriversAreSafe == part = "driver" => Dr!DriversAreSafe

\* A running instance is listed and an ended one is not (instance_linux.go:149-194).
RegistryIsTrue == part = "registry" => In!RegistryIsTrue

\* Commands with --sharens use one container, which stays while they use it
\* (actions.go:396-438, cleanup_linux.go:50).
ContainerIsShared == part = "sharens" => Sh!ContainerIsShared

\* Every wait ends: "instance stop" returns with all its instances gone, the failure
\* of one of the starter's processes ends the others, the cleanup of the FUSE programs
\* of a creation that returned ends with none left (cleanup_linux.go:152-245), the file of a killed master is
\* collected (m1's, as the two masters are alike) and the commands with --sharens all
\* end.
WaitsEnd ==
    (\/ part \in {"stop", "sharens"}
     \/ part = "driver" /\ Dr!Ending
     \/ part = "starter" /\ St!OneFailed
     \/ part = "registry" /\ In!Ghost("m1"))
    ~>
    (\/ part = "stop" /\ main = "returned" /\ \A i \in Instances : ~master[i]
     \/ part = "driver" /\ Dr!Released
     \/ part = "sharens" /\ Sh!NobodyWaits
     \/ part = "starter" /\ St!OthersEnded
     \/ part = "registry" /\ ~In!Ghost("m1"))

=============================================================================
