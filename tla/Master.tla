------------------------------- MODULE Master -------------------------------
(***************************************************************************)
(* The master process of a container: the Go half of the starter           *)
(* (internal/app/starter/master_linux.go) running the apptainer engine's   *)
(* CreateContainer, PostStartProcess, MonitorContainer and                 *)
(* CleanupContainer.                                                       *)
(*                                                                         *)
(* Four goroutines share the process: createContainer, startContainer, the *)
(* monitor and main.  They meet in fatalChan (capacity 1); whoever sends   *)
(* first decides how the container ends.  Around them are the container    *)
(* process (stage 2), the kernel and Go runtime delivering signals, and,   *)
(* for an instance, the C parent that waits for SIGUSR1.                   *)
(***************************************************************************)
EXTENDS Integers, Sequences

CONSTANTS
    IsInstance,         \* EngineConfig.GetInstance() (without --sharens)
    SignalPropagation,  \* EngineConfig.GetSignalPropagation()
    Resources,          \* which of AllResources this container asks for
    ExitStatuses,       \* wait statuses the container process can end with
    SigCap,             \* capacity of the signals channel (2 in the code)
    MaxSignals          \* bound: signals sent to the master from outside

AllResources == {"mounts", "network", "cgroup"}

\* A syscall.WaitStatus: exited with a code or killed by a signal.
Exited(c) == [kind |-> "exited", code |-> c]
Signaled(s) == [kind |-> "signaled", code |-> s]
WaitStatus == [kind : {"exited"}, code : 0..255] \cup [kind : {"signaled"}, code : 1..64]
NoStatus == [kind |-> "none", code |-> 0]

ASSUME MasterAssumption ==
    /\ IsInstance \in BOOLEAN
    /\ SignalPropagation \in BOOLEAN
    /\ Resources \subseteq AllResources
    /\ ExitStatuses \subseteq WaitStatus
    /\ SigCap \in Nat \ {0}
    /\ MaxSignals \in Nat

Signals == {"SIGCHLD", "SIGURG", "SIGTERM", "SIGTSTP"}
Errors == {"create", "start", "monitor"}
Running == -1           \* exit code of a process that has not exited

VARIABLES
    pc,         \* control state of each goroutine
    cont,       \* the container process
    wstatus,    \* the status it ended with, once it is dead
    sock,       \* what the master reads on the master socket
    rpc,        \* the RPC connection is open
    pend,       \* signals the runtime has recorded and not relayed yet
    signals,    \* the channel given to signal.Notify
    sent,       \* signals sent from outside so far
    fatalChan,  \* the one slot of fatalChan: "empty", "nil" or an error
    result,     \* the error MonitorContainer returned ("nil" if none)
    status,     \* the status variable shared by main and the monitor
    fatal,      \* what main received from fatalChan
    held,       \* resources that exist on the host
    known,      \* resources the engine's global variables refer to
    failed,     \* history: resources whose release failed and was logged
    settled,    \* history: creation had succeeded when main received fatal
    file,       \* the instance file on disk
    recorded,   \* history: the instance file was once complete
    exit,       \* exit code of the master
    usr1,       \* SIGUSR1 is pending for the parent
    parent      \* exit code of the parent

vars == <<pc, cont, wstatus, sock, rpc, pend, signals, sent, fatalChan, result,
          status, fatal, held, known, failed, settled, file, recorded, exit, usr1, parent>>

CreatePC == {"open", "prepare", "mount", "network", "cgroup", "manager",
             "close", "fail", "done"}
StartPC == {"open", "read", "post", "truncate", "write", "detach",
            "fail", "done"}
MonitorPC == {"load", "wait", "send", "done"}
MainPC == {"recv", "umount", "delnet", "destroy", "instGet", "instDelete",
           "finish", "exited"}

\* The types of all the variables: the signals channel never holds more than
\* its capacity, and an exit code is Running or a byte.
TypeOK ==
    /\ pc \in [create : CreatePC, start : StartPC,
               monitor : MonitorPC, main : MainPC]
    /\ cont \in {"created", "stage2", "running", "zombie", "gone"}
    /\ wstatus \in ExitStatuses \cup {NoStatus}
    /\ sock \in {"open", "f", "eof"}
    /\ rpc \in BOOLEAN
    /\ pend \subseteq Signals
    /\ signals \in Seq(Signals) /\ Len(signals) <= SigCap
    /\ sent \in 0..MaxSignals
    /\ fatalChan \in Errors \cup {"empty", "nil"}
    /\ result \in {"nil", "monitor"}
    /\ status \in WaitStatus
    /\ fatal \in Errors \cup {"none", "nil"}
    /\ held \subseteq AllResources
    /\ known \subseteq AllResources
    /\ failed \subseteq AllResources
    /\ settled \in BOOLEAN
    /\ file \in {"absent", "partial", "written"}
    /\ recorded \in BOOLEAN
    /\ exit \in Running..255
    /\ usr1 \in BOOLEAN
    /\ parent \in Running..255

\* 128+s for a signal (Master raises the same signal on itself), else the code.
ExitCode(st) == IF st.kind = "signaled" THEN 128 + st.code ELSE st.code

Init ==
    /\ pc = [create |-> "open", start |-> "open", monitor |-> "load", main |-> "recv"]
    /\ cont = "created"
    /\ wstatus = NoStatus
    /\ sock = "open"
    /\ rpc = TRUE
    /\ pend = {}
    /\ signals = <<>>
    /\ sent = 0
    /\ fatalChan = "empty"
    /\ result = "nil"
    /\ status = Exited(0)       \* Go's zero WaitStatus reads as exit code 0
    /\ fatal = "none"
    /\ held = {}
    /\ known = {}
    /\ failed = {}
    /\ settled = FALSE
    /\ file = "absent"
    /\ recorded = FALSE
    /\ exit = Running
    /\ usr1 = FALSE
    /\ parent = Running

Alive == exit = Running
Goto(g, l) == pc' = [pc EXCEPT ![g] = l]

(***************************************************************************)
(* A send on fatalChan blocks until the slot is free.                      *)
(***************************************************************************)
SendFatal(g, e) ==
    /\ fatalChan = "empty"
    /\ fatalChan' = e
    /\ Goto(g, "done")
    /\ UNCHANGED <<cont, wstatus, sock, rpc, pend, signals, sent, result, status,
                   fatal, held, known, failed, settled, file, recorded, exit, usr1, parent>>

-----------------------------------------------------------------------------
(***************************************************************************)
(* createContainer.                                                        *)
(***************************************************************************)
CreateUnchanged ==
    UNCHANGED <<cont, wstatus, sock, pend, signals, sent, fatalChan, result,
                status, fatal, failed, settled, file, recorded, exit, usr1, parent>>

\* The RPC socket becomes a connection, or createContainer gives up.
CreateOpen ==
    /\ Alive /\ pc.create = "open"
    /\ \E l \in {"prepare", "fail"} : Goto("create", l)
    /\ UNCHANGED <<rpc, held, known>>
    /\ CreateUnchanged

\* create() sets imageDriver, umountPoints and networkSetup before it mounts.
CreatePrepare ==
    /\ Alive /\ pc.create = "prepare"
    /\ \/ /\ known' = known \cup (Resources \cap {"mounts", "network"})
          /\ Goto("create", "mount")
       \/ Goto("create", "fail") /\ UNCHANGED known
    /\ UNCHANGED <<rpc, held>>
    /\ CreateUnchanged

\* One step of create() that acquires a resource.  A failing step may leave
\* the resource behind: mounts made before the failing one, a CNI network that
\* was added in part, a cgroup that was applied when UpdateFromSpec failed.
\* The step may also succeed after stage 2 died: without a PID namespace the
\* RPC server outlives it.
Acquire(at, r, next) ==
    /\ Alive /\ pc.create = at
    /\ \/ held' = held \cup ({r} \cap Resources) /\ Goto("create", next)
       \/ /\ \E got \in SUBSET ({r} \cap Resources) : held' = held \cup got
          /\ Goto("create", "fail")
    /\ UNCHANGED <<rpc, known>>
    /\ CreateUnchanged

CreateMount == Acquire("mount", "mounts", "network")

CreateNetwork == Acquire("network", "network", "cgroup")

CreateCgroup == Acquire("cgroup", "cgroup", "manager")

\* Mutant: cgroupsManager is shadowed by a local of create().
CreateManagerShadowed ==
    /\ Alive /\ pc.create = "manager"
    /\ Goto("create", "close")
    /\ UNCHANGED <<rpc, held, known>>
    /\ CreateUnchanged

\* NewManagerWithJSON returned without error: cgroupsManager is assigned.
CreateManager ==
    /\ Alive /\ pc.create = "manager"
    /\ known' = known \cup ({"cgroup"} \cap Resources)
    /\ Goto("create", "close")
    /\ UNCHANGED <<rpc, held>>
    /\ CreateUnchanged

\* chdir and the FUSE drivers may still fail; then the connection is closed
\* and the RPC server exits.
CreateClose ==
    /\ Alive /\ pc.create = "close"
    /\ \/ rpc' = FALSE /\ Goto("create", "done")
       \/ Goto("create", "fail") /\ UNCHANGED rpc
    /\ UNCHANGED <<held, known>>
    /\ CreateUnchanged

CreateFail ==
    /\ Alive /\ pc.create = "fail"
    /\ SendFatal("create", "create")

CreateContainer ==
    \/ CreateOpen \/ CreatePrepare \/ CreateMount \/ CreateNetwork
    \/ CreateCgroup \/ CreateManager \/ CreateClose \/ CreateFail

-----------------------------------------------------------------------------
(***************************************************************************)
(* startContainer and PostStartProcess.                                    *)
(***************************************************************************)
StartUnchanged ==
    UNCHANGED <<cont, wstatus, sock, rpc, pend, signals, sent, fatalChan, result,
                status, fatal, held, known, failed, settled, exit, parent>>

StartOpen ==
    /\ Alive /\ pc.start = "open"
    /\ \E l \in {"read", "fail"} : Goto("start", l)
    /\ UNCHANGED <<file, recorded, usr1>>
    /\ StartUnchanged

\* Mutant: the byte read from the master socket is not looked at.
StartReadAny ==
    /\ Alive /\ pc.start = "read" /\ sock # "open"
    /\ Goto("start", "post")
    /\ UNCHANGED <<file, recorded, usr1>>
    /\ StartUnchanged

\* 'f' means StartProcess failed in stage 2: the status will come from the
\* monitor.  EOF means that stage 2 closed the socket: it executed the
\* container process, or it died.  The read has no other error (line 109): this end
\* never writes, so that the other is never closed on bytes it did not read.
StartRead ==
    /\ Alive /\ pc.start = "read" /\ sock # "open"
    /\ Goto("start", IF sock = "f" THEN "done" ELSE "post")
    /\ UNCHANGED <<file, recorded, usr1>>
    /\ StartUnchanged

\* PostStartProcess up to file.Update: plugins, instance.Add, log paths, IP.
StartPost ==
    /\ Alive /\ pc.start = "post"
    /\ \/ Goto("start", IF IsInstance THEN "truncate" ELSE "done")
       \/ Goto("start", "fail")
    /\ UNCHANGED <<file, recorded, usr1>>
    /\ StartUnchanged

\* Mutant: the parent is released before the file is written.
StartTruncateAfterDetach ==
    /\ Alive /\ pc.start = "truncate"
    /\ usr1' = TRUE
    /\ file' = "partial" /\ Goto("start", "write")
    /\ UNCHANGED recorded
    /\ StartUnchanged

\* file.Update opens the file with O_CREATE|O_TRUNC ...
StartTruncate ==
    /\ Alive /\ pc.start = "truncate"
    /\ \/ file' = "partial" /\ Goto("start", "write")
       \/ UNCHANGED file /\ Goto("start", "fail")
    /\ UNCHANGED <<recorded, usr1>>
    /\ StartUnchanged

\* ... and writes it, into an unlinked file if Delete came in between.  A short
\* write is an error, and so is a failing Sync after a complete one.
StartWrite ==
    /\ Alive /\ pc.start = "write"
    /\ \/ /\ file' = IF file = "partial" THEN "written" ELSE file
          /\ recorded' = (recorded \/ file = "partial")
          /\ \E l \in {"detach", "fail"} : Goto("start", l)
       \/ UNCHANGED <<file, recorded>> /\ Goto("start", "fail")
    /\ UNCHANGED usr1
    /\ StartUnchanged

\* SIGUSR1 to the parent; kill fails when the parent is gone and the master
\* was given to init.
StartDetach ==
    /\ Alive /\ pc.start = "detach"
    /\ \/ usr1' = TRUE /\ Goto("start", "done")
       \/ UNCHANGED usr1 /\ Goto("start", "fail")
    /\ UNCHANGED <<file, recorded>>
    /\ StartUnchanged

StartFail ==
    /\ Alive /\ pc.start = "fail"
    /\ SendFatal("start", "start")

StartContainer ==
    \/ StartOpen \/ StartRead \/ StartPost \/ StartTruncate
    \/ StartWrite \/ StartDetach \/ StartFail

-----------------------------------------------------------------------------
(***************************************************************************)
(* The monitor goroutine: MonitorContainer and its send on fatalChan.      *)
(***************************************************************************)
MonitorUnchanged ==
    UNCHANGED <<wstatus, sock, rpc, sent, fatalChan, fatal, held, known, failed, settled,
                file, recorded, exit, usr1, parent>>

\* plugin.LoadCallbacks, before the first receive from signals.
MonitorLoad ==
    /\ Alive /\ pc.monitor = "load"
    /\ \/ Goto("monitor", "wait") /\ UNCHANGED result
       \/ Goto("monitor", "send") /\ result' = "monitor"
    /\ UNCHANGED <<cont, pend, signals, status>>
    /\ MonitorUnchanged

\* Mutant: the pid wait4 returns is not compared with the container's.
MonitorChildUnchecked ==
    /\ Alive /\ pc.monitor = "wait"
    /\ signals # <<>> /\ Head(signals) = "SIGCHLD"
    /\ signals' = Tail(signals)
    /\ status' = IF cont = "zombie" THEN wstatus ELSE status
    /\ cont' = IF cont = "zombie" THEN "gone" ELSE cont
    /\ result' = "nil"
    /\ Goto("monitor", "send")
    /\ UNCHANGED pend
    /\ MonitorUnchanged

\* SIGCHLD: wait4(pid, WNOHANG) reaps the container if it is dead.  It has no error
\* (lines 49-50): the container is a child of the master, and reaped only here.
MonitorChild ==
    /\ Alive /\ pc.monitor = "wait"
    /\ signals # <<>> /\ Head(signals) = "SIGCHLD"
    /\ signals' = Tail(signals)
    /\ IF cont = "zombie"
       THEN /\ status' = wstatus
            /\ cont' = "gone"
            /\ result' = "nil"
            /\ Goto("monitor", "send")
       ELSE UNCHANGED <<status, cont, result, pc>>
    /\ UNCHANGED pend
    /\ MonitorUnchanged

\* SIGURG comes from the Go scheduler and is ignored.
MonitorIgnore ==
    /\ Alive /\ pc.monitor = "wait"
    /\ signals # <<>> /\ Head(signals) = "SIGURG"
    /\ signals' = Tail(signals)
    /\ UNCHANGED <<pc, cont, pend, result, status>>
    /\ MonitorUnchanged

\* Any other signal is propagated if the engine asks for it.  A propagated
\* SIGTSTP stops the container, which is a SIGCHLD too; the SIGSTOP the master
\* then sends to itself, which a process always may, only delays it.
MonitorPropagate ==
    /\ Alive /\ pc.monitor = "wait"
    /\ signals # <<>> /\ Head(signals) \notin {"SIGCHLD", "SIGURG"}
    /\ signals' = Tail(signals)
    /\ \/ /\ pend' = IF SignalPropagation /\ Head(signals) = "SIGTSTP" /\ cont # "zombie"
                     THEN pend \cup {"SIGCHLD"} ELSE pend
          /\ UNCHANGED <<pc, result>>
       \/ /\ SignalPropagation        \* kill failed: "interrupted by signal"
          /\ result' = "monitor"
          /\ Goto("monitor", "send")
          /\ UNCHANGED pend
    /\ UNCHANGED <<cont, status>>
    /\ MonitorUnchanged

\* Mutant: only an error is sent on fatalChan.
MonitorSendErrors ==
    /\ Alive /\ pc.monitor = "send" /\ result # "nil"
    /\ SendFatal("monitor", result)

MonitorSend ==
    /\ Alive /\ pc.monitor = "send"
    /\ SendFatal("monitor", result)

MonitorContainer ==
    \/ MonitorLoad \/ MonitorChild \/ MonitorIgnore \/ MonitorPropagate \/ MonitorSend

-----------------------------------------------------------------------------
(***************************************************************************)
(* Master itself: receive from fatalChan, CleanupContainer, exit.          *)
(***************************************************************************)
MainUnchanged ==
    UNCHANGED <<wstatus, sock, rpc, pend, signals, sent, result, status, known,
                recorded, usr1, parent>>

MainRecv ==
    /\ Alive /\ pc.main = "recv" /\ fatalChan # "empty"
    /\ fatal' = fatalChan
    /\ fatalChan' = "empty"
    /\ settled' = (pc.create = "done" /\ ~rpc)
    /\ Goto("main", "umount")
    /\ UNCHANGED <<cont, held, failed, file, exit>>
    /\ MainUnchanged

\* One step of CleanupContainer that releases a resource the globals know; an
\* error is logged and the cleanup goes on.
Release(at, r, next) ==
    /\ Alive /\ pc.main = at
    /\ \/ held' = held \ ({r} \cap known) /\ UNCHANGED failed
       \/ /\ r \in known
          /\ failed' = failed \cup {r}
          /\ UNCHANGED held
    /\ Goto("main", next)
    /\ UNCHANGED <<cont, fatalChan, fatal, settled, file, exit>>
    /\ MainUnchanged

MainUmount == Release("umount", "mounts", "delnet")

MainDelNetworks == Release("delnet", "network", "destroy")

MainDestroyCgroup ==
    Release("destroy", "cgroup", IF IsInstance THEN "instGet" ELSE "finish")

\* instance.Get: an absent or half-written file is an error and ends the cleanup.
MainInstanceGet ==
    /\ Alive /\ pc.main = "instGet"
    /\ Goto("main", IF file = "written" THEN "instDelete" ELSE "finish")
    /\ UNCHANGED <<cont, fatalChan, fatal, settled, held, failed, file, exit>>
    /\ MainUnchanged

MainInstanceDelete ==
    /\ Alive /\ pc.main = "instDelete"
    /\ file' = "absent"
    /\ Goto("main", "finish")
    /\ UNCHANGED <<cont, fatalChan, fatal, settled, held, failed, exit>>
    /\ MainUnchanged

\* sylog.Fatalf exits with 255.  The parent death signal takes a container that
\* is still there with the master.
MainFinish ==
    /\ Alive /\ pc.main = "finish"
    /\ exit' = IF fatal # "nil" THEN 255 ELSE ExitCode(status)
    /\ cont' = "gone"
    /\ Goto("main", "exited")
    /\ UNCHANGED <<fatalChan, fatal, settled, held, failed, file>>
    /\ MainUnchanged

Main ==
    \/ MainRecv \/ MainUmount \/ MainDelNetworks \/ MainDestroyCgroup
    \/ MainInstanceGet \/ MainInstanceDelete \/ MainFinish

-----------------------------------------------------------------------------
(***************************************************************************)
(* The container process, the signals and the parent.                      *)
(***************************************************************************)
EnvUnchanged ==
    UNCHANGED <<pc, rpc, fatalChan, result, status, fatal, held, known, failed, settled,
                file, recorded, exit, usr1>>

\* Stage 2 waits for the RPC server to exit before it goes on.
ContainerStage2 ==
    /\ Alive /\ cont = "created" /\ ~rpc
    /\ cont' = "stage2"
    /\ UNCHANGED <<wstatus, sock, pend, signals, sent, parent>>
    /\ EnvUnchanged

\* StartProcess executes the container process, or closes the socket as shim.
ContainerExec ==
    /\ Alive /\ cont = "stage2" /\ sock = "open"
    /\ cont' = "running"
    /\ sock' = "eof"
    /\ UNCHANGED <<wstatus, pend, signals, sent, parent>>
    /\ EnvUnchanged

\* StartProcess fails: StageTwo writes "f"; it exits next (ContainerDies).
ContainerStartFails ==
    /\ Alive /\ cont = "stage2" /\ sock = "open"
    /\ sock' = "f"
    /\ UNCHANGED <<cont, wstatus, pend, signals, sent, parent>>
    /\ EnvUnchanged

\* The container process ends, in any phase; the kernel posts SIGCHLD.
ContainerDies ==
    /\ Alive /\ cont \in {"created", "stage2", "running"}
    /\ \E st \in ExitStatuses : wstatus' = st
    /\ cont' = "zombie"
    /\ pend' = pend \cup {"SIGCHLD"}
    /\ UNCHANGED <<sock, signals, sent, parent>>
    /\ EnvUnchanged

\* The last copy of stage 2's end of the socket is closed (the RPC server holds
\* one as well).
SocketEOF ==
    /\ Alive /\ cont \in {"zombie", "gone"} /\ sock = "open"
    /\ sock' = "eof"
    /\ UNCHANGED <<cont, wstatus, pend, signals, sent, parent>>
    /\ EnvUnchanged

\* A signal arrives; like the kernel and the runtime, pend keeps one of a kind.
SendSignal(s) ==
    /\ Alive /\ s # "SIGCHLD" /\ s \notin pend /\ sent < MaxSignals
    /\ pend' = pend \cup {s}
    /\ sent' = sent + 1
    /\ UNCHANGED <<cont, wstatus, sock, signals, parent>>
    /\ EnvUnchanged

\* signal.Notify's relay never blocks: a signal that finds the channel full is
\* dropped.
Relay(s) ==
    /\ Alive /\ s \in pend
    /\ pend' = pend \ {s}
    /\ signals' = IF Len(signals) < SigCap THEN Append(signals, s) ELSE signals
    /\ UNCHANGED <<cont, wstatus, sock, sent, parent>>
    /\ EnvUnchanged

\* do_exit, the handler of SIGUSR1 in the parent of an instance's master.
ParentDetach ==
    /\ IsInstance /\ parent = Running /\ usr1
    /\ parent' = 0
    /\ UNCHANGED <<cont, wstatus, sock, pend, signals, sent>>
    /\ EnvUnchanged

\* wait_child("instance"): the parent ends the way the master did.
ParentReap ==
    /\ IsInstance /\ parent = Running /\ ~usr1 /\ ~Alive
    /\ parent' = exit
    /\ UNCHANGED <<cont, wstatus, sock, pend, signals, sent>>
    /\ EnvUnchanged

Container == ContainerStage2 \/ ContainerExec \/ ContainerStartFails \/ ContainerDies

Environment ==
    \/ Container \/ SocketEOF
    \/ \E s \in Signals : SendSignal(s) \/ Relay(s)
    \/ ParentDetach \/ ParentReap

Next ==
    CreateContainer \/ StartContainer \/ MonitorContainer \/ Main \/ Environment

Spec == Init /\ [][Next]_vars

\* Goroutines are scheduled, the runtime relays what it recorded, the kernel
\* closes a dead process's files, the parent handles its signal and its child.
\* Nothing obliges the container to end or anyone to send a signal.
Fairness ==
    /\ WF_vars(CreateContainer)
    /\ WF_vars(StartContainer)
    /\ WF_vars(MonitorContainer)
    /\ WF_vars(Main)
    /\ WF_vars(SocketEOF)
    /\ \A s \in Signals : WF_vars(Relay(s))
    /\ WF_vars(ParentDetach \/ ParentReap)

FairSpec == Spec /\ Fairness

-----------------------------------------------------------------------------
(***************************************************************************)
(* Properties.                                                             *)
(***************************************************************************)

\* When Master ends without a fatal error (master_linux.go:156-180), its exit
\* code is that of the container process, and that process really ended: the
\* status variable shared with the monitor goroutine is never read before it is
\* written, whatever the other goroutines did.
ExitFaithful ==
    (~Alive /\ fatal = "nil") =>
        wstatus \in ExitStatuses /\ exit = ExitCode(wstatus)

\* The command that started an instance (the C parent) reports success only if
\* the instance file was complete on disk first, or if the master itself ended
\* with 0: SIGUSR1 is sent after file.Update (process_linux.go:442-452).
ParentTruth ==
    parent = 0 => recorded \/ exit = 0

\* An instance whose StartProcess failed in stage 2 is never recorded: the byte
\* "f" keeps startContainer from calling PostStartProcess (stage_linux.go:55-61).
FailedStartUnrecorded ==
    sock = "f" => file = "absent" /\ ~recorded /\ ~usr1

\* If creation had returned without error by the time main was woken, then
\* CleanupContainer leaves no mount, network or cgroup of the container behind
\* other than those whose release failed, whichever goroutine woke main.
SettledReleased ==
    (~Alive /\ settled) => held \subseteq failed

\* The end of the container process, and every error that a goroutine reports,
\* ends the master and is reported to the waiting parent: MonitorContainer "will block until the container exists"
\* (monitor_linux.go:21-22), not longer.  This is so while fewer signals were
\* sent to the master than its channel holds: a SIGCHLD that finds the channel
\* full is dropped and never repeated (master_linux.go:135).
EndReported ==
    (cont = "zombie" \/ fatalChan # "empty") ~>
        \/ ~Alive /\ (IsInstance => parent # Running)
        \/ sent >= SigCap

=============================================================================
