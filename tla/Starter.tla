------------------------------ MODULE Starter -------------------------------
(***************************************************************************)
(* The starter binary from its constructor to the end of the container     *)
(* (cmd/starter/c/starter.c, cmd/starter/main_linux.go).                   *)
(*                                                                         *)
(* The process that is executed ("main") runs stage 1 in a child, becomes  *)
(* the master and clones the container process ("child"), which clones the *)
(* RPC server ("rpc").  For an instance, main is itself a child of the     *)
(* process the user waits for ("parent").  main and child synchronise with *)
(* single bytes on master_socket; all bytes are alike.                     *)
(***************************************************************************)
EXTENDS Integers

CONSTANTS
    Hosts,      \* how the starter is installed and who runs it
    Configs,    \* what stage 1 may write into the shared configuration
    MaxKills    \* bound: processes killed from outside

Procs == {"stage1", "parent", "main", "child", "rpc"}
Running == -1
Fatal == 255        \* fatalf, sylog.Fatalf
Killed == 137       \* SIGKILL
Pipe == 141         \* SIGPIPE: a write to a socket nobody reads
Statuses == {Running, 0, Fatal, Killed, Pipe}

VARIABLES
    host,       \* the one of Hosts that this is
    cfg,        \* the shared configuration, NoConfig before stage 1 ends
    pc,         \* where each process is
    st,         \* its exit status
    toChild, toMain,    \* bytes in each direction of master_socket
    sigchld,    \* SIGCHLD is pending for main (it is blocked until Go runs)
    pdeath,     \* processes that asked for SIGKILL when their parent dies
    mapped,     \* the user namespace has its mappings
    shared,     \* the shared mount namespace exists
    joined,     \* main is in the shared mount namespace
    rpcOpen,    \* main's end of the RPC socket is open
    detached,   \* main has sent SIGUSR1
    kills

vars == <<host, cfg, pc, st, toChild, toMain, sigchld, pdeath, mapped, shared, joined,
          rpcOpen, detached, kills>>

Suid == host.suid               \* the starter is setuid root
Root == host.root               \* the user is root
CredChange == host.credChange   \* apply_privileges changes the user ID of stage 2

NoConfig == [userns |-> "unset"]

MainPC == {"stage1", "instance", "setup", "map", "event", "join", "release", "wait", "go"}
ChildPC == {"map", "pdeath", "namespaces", "joinwait", "mount", "rpcwait", "privs",
            "pdeath2", "go"}

\* Types: no more than two bytes are ever on the way in one direction.
TypeOK ==
    /\ host \in Hosts
    /\ cfg \in Configs \cup {NoConfig}
    /\ pc \in [stage1 : {"none", "run", "dead"}, parent : {"none", "wait", "dead"},
               main : MainPC \cup {"dead"}, child : ChildPC \cup {"none", "dead"},
               rpc : {"none", "serve", "dead"}]
    /\ st \in [Procs -> Statuses]
    /\ toChild \in 0..2 /\ toMain \in 0..2
    /\ sigchld \in BOOLEAN
    /\ pdeath \subseteq {"stage1", "child", "rpc"}
    /\ {mapped, shared, joined, rpcOpen, detached} \subseteq BOOLEAN
    /\ kills \in 0..MaxKills

Init ==
    /\ host \in Hosts
    /\ cfg = NoConfig
    /\ pc = [stage1 |-> "run", parent |-> "none", main |-> "stage1",
             child |-> "none", rpc |-> "none"]
    /\ st = [p \in Procs |-> Running]
    /\ toChild = 0 /\ toMain = 0
    /\ sigchld = FALSE
    /\ pdeath = {"stage1"}
    /\ mapped = FALSE /\ shared = FALSE /\ joined = FALSE
    /\ rpcOpen = TRUE
    /\ detached = FALSE
    /\ kills = 0

Exists(p) == pc[p] \notin {"none", "dead"}
Goto(p, l) == pc' = [pc EXCEPT ![p] = l]
Propagate == cfg.propagate /\ cfg.userns # "enter"

\* The process the user's shell waits for.
Front == IF pc.parent = "none" THEN "main" ELSE "parent"

\* Processes the kernel kills with p: those with a parent death signal and,
\* when p is process 1 of a PID namespace, the rest of it.
Victims(p) ==
    LET ofMain == IF p = "main" THEN pdeath \cap {"stage1", "child"} ELSE {}
        dying == {p} \cup ofMain
        ofChild == IF "child" \in dying /\ ("rpc" \in pdeath \/ cfg.pidns)
                   THEN {"rpc"} ELSE {}
    IN {q \in ofMain \cup ofChild : Exists(q)}

\* p ends with status s.
Die(p, s) ==
    /\ pc' = [q \in Procs |-> IF q = p \/ q \in Victims(p) THEN "dead" ELSE pc[q]]
    /\ st' = [q \in Procs |-> IF q = p THEN s
                              ELSE IF q \in Victims(p) THEN Killed ELSE st[q]]
    /\ sigchld' = (sigchld \/ "child" \in {p} \cup Victims(p))

\* wait_child(q, noreturn) of a child that failed: p ends the same way.
DieLike(p, q) == Die(p, st[q])

Sync == <<toChild, toMain>>
Names == <<mapped, shared, joined>>
Rest == <<rpcOpen, detached, kills>>

-----------------------------------------------------------------------------
(***************************************************************************)
(* Stage 1 and the instance parent.                                        *)
(***************************************************************************)
StageOne ==
    /\ pc.stage1 = "run"
    /\ \E c \in Configs : cfg' = c
    /\ Die("stage1", 0)
    /\ UNCHANGED <<host, Sync, pdeath, Names, Rest>>

\* wait_child("stage 1"), then the file descriptors and the signal mask.
MainStage1 ==
    /\ pc.main = "stage1" /\ pc.stage1 = "dead"
    /\ IF st["stage1"] = 0
       THEN Goto("main", "instance") /\ UNCHANGED <<st, sigchld>>
       ELSE DieLike("main", "stage1")
    /\ UNCHANGED <<host, cfg, Sync, pdeath, Names, Rest>>

\* For an instance the process forks: the child goes on as main, the original
\* waits for it or for SIGUSR1.
MainInstance ==
    /\ pc.main = "instance"
    /\ pc' = [pc EXCEPT !.main = "setup", !.parent = IF cfg.instance THEN "wait" ELSE "none"]
    /\ UNCHANGED <<host, cfg, st, Sync, sigchld, pdeath, Names, Rest>>

\* do_exit or wait_child("instance"): whatever comes first.
ParentEnds ==
    /\ pc.parent = "wait"
    /\ \/ detached /\ Die("parent", 0)
       \/ pc.main = "dead" /\ DieLike("parent", "main")
    /\ UNCHANGED <<host, cfg, Sync, pdeath, Names, Rest>>

-----------------------------------------------------------------------------
(***************************************************************************)
(* main until it runs Go as the master.                                    *)
(***************************************************************************)
\* Combinations that init refuses: no user namespace and no privileges, or the
\* setuid workflow with a user namespace.
Refused ==
    \/ cfg.userns = "none" /\ ~Suid /\ ~Root
    \/ cfg.userns # "none" /\ Suid /\ ~cfg.hybrid

\* Sockets, user_namespace_init, pid_namespace_init and the clone.
MainClone ==
    /\ pc.main = "setup"
    /\ IF Refused
       THEN Die("main", Fatal)
       ELSE /\ pc' = [pc EXCEPT
                        !.main = IF cfg.userns = "create" THEN "map" ELSE "event",
                        !.child = IF cfg.userns = "create" THEN "map" ELSE "pdeath"]
            /\ UNCHANGED <<st, sigchld>>
    /\ UNCHANGED <<host, cfg, Sync, pdeath, Names, Rest>>

\* send_event(master_socket[0]): SIGPIPE if the child is gone.
MainSend(l) ==
    IF Exists("child")
    THEN toChild' = toChild + 1 /\ Goto("main", l) /\ UNCHANGED <<st, sigchld>>
    ELSE Die("main", Pipe) /\ UNCHANGED toChild

\* Write the user namespace mappings and tell the child.
MainMap ==
    /\ pc.main = "map"
    /\ mapped' = TRUE
    /\ MainSend("event")
    /\ UNCHANGED <<host, cfg, toMain, pdeath, shared, joined, Rest>>

\* Mutant: main keeps the child's end of the socket open, and never sees its end.
MainEventBlocks ==
    /\ pc.main = "event"
    /\ toMain > 0
    /\ toMain' = toMain - 1
    /\ Goto("main", IF Propagate THEN "join" ELSE "release")
    /\ UNCHANGED <<st, sigchld>>
    /\ UNCHANGED <<host, cfg, toChild, pdeath, Names, Rest>>

\* The child has its namespaces, or it exited before saying so.
MainEvent ==
    /\ pc.main = "event"
    /\ \/ /\ toMain > 0
          /\ toMain' = toMain - 1
          /\ Goto("main", IF Propagate THEN "join" ELSE "release")
          /\ UNCHANGED <<st, sigchld>>
       \/ /\ toMain = 0 /\ pc.child = "dead"
          /\ DieLike("main", "child")
          /\ UNCHANGED toMain
    /\ UNCHANGED <<host, cfg, toChild, pdeath, Names, Rest>>

\* Join the shared mount namespace of a child that is still there.
MainJoin ==
    /\ pc.main = "join" /\ Exists("child")
    /\ joined' = TRUE
    /\ MainSend("release")
    /\ UNCHANGED <<host, cfg, toMain, pdeath, mapped, shared, Rest>>

\* Joining an instance: only wait.  Otherwise continue in Go.
MainRelease ==
    /\ pc.main = "release"
    /\ Goto("main", IF cfg.joinOnly THEN "wait" ELSE "go")
    /\ UNCHANGED <<host, cfg, st, Sync, sigchld, pdeath, Names, Rest>>

MainWait ==
    /\ pc.main = "wait" /\ pc.child = "dead"
    /\ DieLike("main", "child")
    /\ UNCHANGED <<host, cfg, Sync, pdeath, Names, Rest>>

-----------------------------------------------------------------------------
(***************************************************************************)
(* The child until it runs Go as stage 2.                                  *)
(***************************************************************************)
ChildRead(l) ==
    \/ /\ toChild > 0
       /\ toChild' = toChild - 1
       /\ Goto("child", l)
       /\ UNCHANGED <<st, sigchld>>
    \/ /\ toChild = 0 /\ pc.main = "dead"
       /\ Die("child", Fatal)
       /\ UNCHANGED toChild

\* Mutant: the mappings are not waited for.
ChildMapNoWait ==
    /\ pc.child = "map"
    /\ Goto("child", "pdeath")
    /\ UNCHANGED <<host, cfg, st, Sync, sigchld, pdeath, Names, Rest>>

ChildMap ==
    /\ pc.child = "map"
    /\ ChildRead("pdeath")
    /\ UNCHANGED <<host, cfg, toMain, pdeath, Names, Rest>>

ChildDeathSignal ==
    /\ pc.child = "pdeath"
    /\ pdeath' = pdeath \cup {"child"}
    /\ Goto("child", "namespaces")
    /\ UNCHANGED <<host, cfg, st, Sync, sigchld, Names, Rest>>

\* The other namespaces, the shared mount namespace if asked for, and an event
\* to main.
ChildNamespaces ==
    /\ pc.child = "namespaces"
    /\ shared' = (shared \/ Propagate)
    /\ IF pc.main # "dead"
       THEN /\ toMain' = toMain + 1
            /\ Goto("child", IF Propagate THEN "joinwait" ELSE "mount")
            /\ UNCHANGED <<st, sigchld>>
       ELSE Die("child", Pipe) /\ UNCHANGED toMain
    /\ UNCHANGED <<host, cfg, toChild, pdeath, mapped, joined, Rest>>

ChildJoinWait ==
    /\ pc.child = "joinwait"
    /\ ChildRead("mount")
    /\ UNCHANGED <<host, cfg, toMain, pdeath, Names, Rest>>

\* mount_namespace_init and the clone of the RPC server, which asks for a death
\* signal only in set_rpc_privileges (setuid).
ChildMount ==
    /\ pc.child = "mount"
    /\ IF cfg.joinOnly
       THEN Goto("child", "privs") /\ UNCHANGED pdeath
       ELSE /\ pc' = [pc EXCEPT !.child = "rpcwait", !.rpc = "serve"]
            /\ pdeath' = IF Suid /\ cfg.userns = "none" THEN pdeath \cup {"rpc"} ELSE pdeath
    /\ UNCHANGED <<host, cfg, st, Sync, sigchld, Names, Rest>>

\* wait_child("rpc server").
ChildRpcWait ==
    /\ pc.child = "rpcwait" /\ pc.rpc = "dead"
    /\ IF st["rpc"] = 0
       THEN Goto("child", "privs") /\ UNCHANGED <<st, sigchld>>
       ELSE DieLike("child", "rpc")
    /\ UNCHANGED <<host, cfg, Sync, pdeath, Names, Rest>>

\* apply_privileges: a change of user ID clears the death signal ...
ChildPrivileges ==
    /\ pc.child = "privs"
    /\ pdeath' = IF CredChange THEN pdeath \ {"child"} ELSE pdeath
    /\ Goto("child", "pdeath2")
    /\ UNCHANGED <<host, cfg, st, Sync, sigchld, Names, Rest>>

\* ... and so it is asked for again before Go runs.
ChildDeathSignal2 ==
    /\ pc.child = "pdeath2"
    /\ pdeath' = pdeath \cup {"child"}
    /\ Goto("child", "go")
    /\ UNCHANGED <<host, cfg, st, Sync, sigchld, Names, Rest>>

-----------------------------------------------------------------------------
(***************************************************************************)
(* The Go half, as far as the C half meets it (see Master for the rest).   *)
(***************************************************************************)
\* createContainer has finished and closes the RPC connection.
GoCreated ==
    /\ pc.main = "go" /\ rpcOpen
    /\ rpcOpen' = FALSE
    /\ UNCHANGED <<host, cfg, pc, st, Sync, sigchld, pdeath, Names, detached, kills>>

\* PostStartProcess of an instance, once stage 2 has closed the socket.
GoDetach ==
    /\ pc.main = "go" /\ cfg.instance /\ ~detached
    /\ pc.child \in {"go", "dead"} /\ ~Exists("rpc")
    /\ detached' = TRUE
    /\ UNCHANGED <<host, cfg, pc, st, Sync, sigchld, pdeath, Names, rpcOpen, kills>>

\* MonitorContainer reaps the child.
GoReap ==
    /\ pc.main = "go" /\ sigchld /\ pc.child = "dead"
    /\ DieLike("main", "child")
    /\ UNCHANGED <<host, cfg, Sync, pdeath, Names, Rest>>

\* ServeRPCRequests returns when main has closed its end.
RpcEnds ==
    /\ pc.rpc = "serve" /\ (~rpcOpen \/ pc.main = "dead")
    /\ Die("rpc", 0)
    /\ UNCHANGED <<host, cfg, Sync, pdeath, Names, Rest>>

\* The container process ends by itself, well or badly.
GoContainerEnds ==
    /\ pc.child = "go"
    /\ \E s \in {0, Fatal} : Die("child", s)
    /\ UNCHANGED <<host, cfg, Sync, pdeath, Names, Rest>>

-----------------------------------------------------------------------------
\* Where a process may call fatalf or sylog.Fatalf.  Joining is the one step of
\* main that fails for sure when the child is gone.
MayFail(p) ==
    \/ p \in {"stage1", "rpc"} /\ Exists(p)
    \/ p = "main" /\ pc.main \in {"instance", "setup", "map", "join", "release", "go"}
    \/ p = "child" /\ pc.child \in ChildPC \ {"joinwait", "go"}

Fails(p) ==
    /\ MayFail(p)
    /\ Die(p, Fatal)
    /\ UNCHANGED <<host, cfg, Sync, pdeath, Names, Rest>>

MainJoinFails ==
    /\ pc.main = "join" /\ ~Exists("child")
    /\ Die("main", Fatal)
    /\ UNCHANGED <<host, cfg, Sync, pdeath, Names, Rest>>

\* SIGKILL from outside.
Kill(p) ==
    /\ Exists(p) /\ kills < MaxKills
    /\ kills' = kills + 1
    /\ Die(p, Killed)
    /\ UNCHANGED <<host, cfg, Sync, pdeath, Names, rpcOpen, detached>>

MainC ==
    \/ MainStage1 \/ MainInstance \/ MainClone \/ MainMap \/ MainEvent
    \/ MainJoin \/ MainJoinFails \/ MainRelease \/ MainWait

ChildC ==
    \/ ChildMap \/ ChildDeathSignal \/ ChildNamespaces \/ ChildJoinWait
    \/ ChildMount \/ ChildRpcWait \/ ChildPrivileges \/ ChildDeathSignal2

Next ==
    \/ StageOne \/ MainC \/ ChildC \/ ParentEnds
    \/ GoCreated \/ GoDetach \/ GoReap \/ RpcEnds \/ GoContainerEnds
    \/ \E p \in Procs : Fails(p) \/ Kill(p)

Spec == Init /\ [][Next]_vars

\* Processes run.  The container need not end and nothing need fail.
Fairness ==
    /\ WF_vars(StageOne)
    /\ WF_vars(MainC)
    /\ WF_vars(ChildC)
    /\ WF_vars(ParentEnds)
    /\ WF_vars(GoCreated)
    /\ WF_vars(GoReap)
    /\ WF_vars(RpcEnds)

FairSpec == Spec /\ Fairness

-----------------------------------------------------------------------------
(***************************************************************************)
(* Properties.                                                             *)
(***************************************************************************)

\* The two halves stay in step.  Namespaces are entered in order: the child touches
\* nothing before its user namespace is mapped, main joins a shared mount namespace
\* that exists, and the child leaves that namespace for its own only when main is in
\* it (starter.c:1468-1507 and 1598-1664).  And the events of the C half are all
\* consumed before Go reads the same socket: startContainer takes any byte but "f"
\* for data (master_linux.go:107).
InStep ==
    /\ (cfg.userns = "create" /\ pc.child \in ChildPC \ {"map"}) => mapped
    /\ joined => shared
    /\ (pc.child \in {"mount", "rpcwait", "privs", "pdeath2", "go"} /\ Propagate) => joined
    /\ pc.main \in {"wait", "go"} => toMain = 0
    /\ pc.child \in {"mount", "rpcwait", "privs", "pdeath2", "go"} => toChild = 0

\* The status the user sees is 0 only if the container process ended with 0 or
\* the instance was detached, whichever process failed and in whatever order
\* the others noticed (wait_child, starter.c:1108-1135).
SuccessIsEarned ==
    (pc[Front] = "dead" /\ st[Front] = 0) => detached \/ st["child"] = 0

\* "At the end only two processes will be left: a container process in the
\* prepared environment and a master process which monitors container's state
\* outside of it" (starter.c:1246-1247).  Where apply_privileges changes the user
\* ID the kernel forgets the death signal, and a master that ends before it is
\* asked for again (starter.c:1552) leaves the container process alone.
TwoProcessesLeft ==
    pc.child = "go" =>
        ~Exists("stage1") /\ ~Exists("rpc") /\ (Exists("main") \/ CredChange)

\* What the chain of processes promises while it is built: the three above.
ChainIsSound == TypeOK /\ InStep /\ SuccessIsEarned /\ TwoProcessesLeft

\* When any process of the chain has failed, no process is left waiting for it:
\* every wait_event sees the end of the socket and every death is noticed.  Only a
\* container process that lost its death signal (see TwoProcessesLeft) runs on.
OneFailed == \E p \in Procs \ {"parent"} : st[p] \notin {Running, 0}
OthersEnded == \A p \in Procs : Exists(p) => p = "child" /\ pc.child = "go" /\ CredChange
AllEnd == OneFailed ~> OthersEnded

=============================================================================
