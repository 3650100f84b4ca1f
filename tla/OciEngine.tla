----------------------------- MODULE OciEngine ------------------------------
(***************************************************************************)
(* The OCI engine and its commands, for one container ID.                  *)
(*                                                                         *)
(* A master (internal/pkg/runtime/engine/oci, run by starter's Master) has *)
(* the goroutines create, start, control and monitor besides its main one. *)
(* It shares the state file and the control socket of the container with   *)
(* other processes: the commands oci start, kill, delete, pause, resume,   *)
(* and the masters of other oci create commands for the same ID.           *)
(***************************************************************************)
EXTENDS Sequences, Naturals

CONSTANTS
    Masters,    \* oci create commands for this container ID
    Clients,    \* other oci commands
    None,       \* no master, no client
    Ops,        \* the operations that the clients choose from
    Early,      \* commands may come before oci create has returned
    MayFail,    \* the creation of a container may fail
    MayTimeout  \* the time-out of a kill may pass before the container ends

ASSUME OciAssumption ==
    /\ None \notin Masters \cup Clients
    /\ Ops \subseteq {"start", "kill", "killwait", "delete", "pause", "resume"}
    /\ Early \in BOOLEAN /\ MayFail \in BOOLEAN /\ MayTimeout \in BOOLEAN

VARIABLES
    file,   \* the state file: who wrote it, status and exit code
    sock,   \* the master that listens on the control socket's path
    eng,    \* each master
    cli     \* each command

vars == <<file, sock, eng, cli>>

Statuses == {"none", "creating", "created", "running", "paused", "stopped"}
Files == [owner : Masters \cup {None}, status : Statuses, exit : {"none", "process", "fatal"}]
Absent == [owner |-> None, status |-> "none", exit |-> "none"]

\* A master: the places of its goroutines; mem, the status in its memory, and the
\* exit code that goes with it; its container process, pending signal and cgroup;
\* who holds the lock of EngineConfig in updateState, and the status before;
\* statusChan; the started flag and start channel; the paths of its
\* sockets are set; fatalChan; the connections.
Engines == [create : {"add", "write", "setup", "done", "failed"},
            start : {"read", "sockets", "created", "hooks", "await", "exec", "post", "done"},
            control : {"none", "accept", "decode", "start", "wait", "pause", "paused",
                       "resume", "thaw", "close", "done"},
            monitor : {"wait", "done"},
            main : {"idle", "wait", "clean", "delete", "stop", "sockets", "exit", "exited"},
            mem : Statuses, exit : {"none", "process", "fatal"}, fatalErr : BOOLEAN,
            proc : {"init", "ready", "go", "running", "failed", "dead"},
            signal : {"none", "term", "kill"}, frozen : BOOLEAN,
            lock : {"free", "create", "start", "control", "main"}, old : Statuses,
            statusChan : {"empty", "full", "nil"},
            started : BOOLEAN, startChan : BOOLEAN, sockets : BOOLEAN,
            fatal : {<<>>, <<"nil">>, <<"err">>}, backlog : Seq(Clients), cur : Clients \cup {None}]

Commands == [op : Ops \cup {"none"},
             pc : {"idle", "dial", "signal", "wait", "check", "reread", "remove", "done"},
             view : Files, conn : {"none", "open", "closed", "eof"},
             result : {"none", "ok", "error"}]

TypeOK ==
    /\ file \in Files /\ sock \in Masters \cup {None}
    /\ eng \in [Masters -> Engines]
    /\ cli \in [Clients -> Commands]

Init ==
    /\ file = Absent /\ sock = None
    /\ eng = [m \in Masters |->
         [create |-> "add", start |-> "read", control |-> "none", monitor |-> "wait",
          main |-> "idle", mem |-> "none", exit |-> "none", fatalErr |-> FALSE,
          proc |-> "init", signal |-> "none", frozen |-> FALSE, lock |-> "free",
          old |-> "none", statusChan |-> "empty", started |-> FALSE, startChan |-> FALSE,
          sockets |-> FALSE,
          fatal |-> <<>>, backlog |-> <<>>, cur |-> None]]
    /\ cli = [c \in Clients |->
         [op |-> "none", pc |-> "idle", view |-> Absent, conn |-> "none", result |-> "none"]]

Alive(m) == eng[m].main \notin {"idle", "exited"}
Ended(m) == eng[m].proc \in {"failed", "dead"}

\* A send to fatalChan: one slot, and one receive by the main goroutine.
Send(e, v) == IF e.fatal = <<>> THEN <<v>> ELSE e.fatal

-----------------------------------------------------------------------------
(***************************************************************************)
(* updateState, called by goroutine g of master m: the lock, instance.Get  *)
(* and the new status in memory; then the write of the file and the status *)
(* channel.  A container that is stopped stays stopped.                    *)
(***************************************************************************)

\* Mutant: nothing is looked at but the file.
UpdateStateAlways(m, g, status, pcOk, pcErr) ==
    /\ Alive(m) /\ eng[m].lock = "free"
    /\ eng' = [eng EXCEPT ![m] =
         IF file = Absent THEN pcErr
         ELSE [eng[m] EXCEPT !.lock = g, !.old = eng[m].mem, !.mem = status]]
    /\ UNCHANGED <<file, sock, cli>>

UpdateState(m, g, status, pcOk, pcErr) ==
    /\ Alive(m) /\ eng[m].lock = "free"
    /\ eng' = [eng EXCEPT ![m] =
         IF file = Absent THEN pcErr
         ELSE IF eng[m].mem = "stopped" THEN pcOk
         ELSE [eng[m] EXCEPT !.lock = g, !.old = eng[m].mem, !.mem = status]]
    /\ UNCHANGED <<file, sock, cli>>

Signals(e) ==
    e.statusChan # "nil" /\ e.old = "created" /\ e.mem \in {"running", "stopped"}

UpdateWrite(m, g, pcOk) ==
    /\ Alive(m) /\ eng[m].lock = g
    /\ file' = [owner |-> m, status |-> eng[m].mem, exit |-> eng[m].exit]
    /\ eng' = [eng EXCEPT ![m] =
         [pcOk EXCEPT !.lock = "free",
                      !.statusChan = IF Signals(eng[m]) THEN "full" ELSE @]]
    /\ UNCHANGED <<sock, cli>>

-----------------------------------------------------------------------------
(***************************************************************************)
(* The create goroutine.                                                   *)
(***************************************************************************)

\* OciCreate: the ID is free, and the starter is run.
OciCreate(m) ==
    /\ eng[m].main = "idle" /\ file = Absent
    /\ eng' = [eng EXCEPT ![m].main = "wait"]
    /\ UNCHANGED <<file, sock, cli>>

\* createState: instance.Add refuses a name that is on file ...
CreateAdd(m) ==
    /\ Alive(m) /\ eng[m].create = "add" /\ eng[m].lock = "free"
    /\ eng' = [eng EXCEPT ![m] =
         IF file # Absent
         THEN [@ EXCEPT !.create = "failed", !.fatal = Send(eng[m], "err")]
         ELSE [@ EXCEPT !.create = "write", !.mem = "creating", !.lock = "create"]]
    /\ UNCHANGED <<file, sock, cli>>

\* ... and the file is written, whatever is there by now.
CreateWrite(m) ==
    /\ Alive(m) /\ eng[m].create = "write"
    /\ file' = [owner |-> m, status |-> "creating", exit |-> "none"]
    /\ eng' = [eng EXCEPT ![m].create = "setup", ![m].lock = "free"]
    /\ UNCHANGED <<sock, cli>>

\* The rest of CreateContainer: mounts, devices, cgroups, chroot.
CreateSetup(m) ==
    /\ Alive(m) /\ eng[m].create = "setup"
    /\ \/ eng' = [eng EXCEPT ![m].create = "done"]
       \/ /\ MayFail
          /\ eng' = [eng EXCEPT ![m].create = "failed", ![m].fatal = Send(eng[m], "err")]
    /\ UNCHANGED <<file, sock, cli>>

Create(m) == CreateAdd(m) \/ CreateWrite(m) \/ CreateSetup(m)

-----------------------------------------------------------------------------
(***************************************************************************)
(* The container process: StartProcess of stage 2.                         *)
(***************************************************************************)

\* It says that it is ready and blocks; the start byte lets it go on to exec.
ProcSteps(m) ==
    /\ Alive(m) /\ ~eng[m].frozen
    /\ \/ /\ eng[m].proc = "init" /\ eng[m].create = "done"
          /\ eng' = [eng EXCEPT ![m].proc = "ready"]
       \/ /\ eng[m].proc = "go"
          /\ eng' = [eng EXCEPT ![m].proc = "running"]
    /\ UNCHANGED <<file, sock, cli>>

\* StartProcess returns an error, which the master is told with the byte 'f'.
ProcFails(m) ==
    /\ Alive(m) /\ MayFail
    /\ \/ eng[m].proc = "go"
       \/ eng[m].proc = "init" /\ eng[m].create = "done"
    /\ eng' = [eng EXCEPT ![m].proc = "failed"]
    /\ UNCHANGED <<file, sock, cli>>

\* A container exits, or a signal ends the process.
ProcEnds(m) ==
    /\ Alive(m) /\ ~eng[m].frozen /\ ~Ended(m)
    /\ eng[m].proc = "running" \/ eng[m].signal # "none"
    /\ eng' = [eng EXCEPT ![m].proc = "dead"]
    /\ UNCHANGED <<file, sock, cli>>

-----------------------------------------------------------------------------
(***************************************************************************)
(* The start goroutine: PreStartProcess and PostStartProcess.              *)
(***************************************************************************)

StartRead(m) ==
    /\ Alive(m) /\ eng[m].start = "read"
    /\ \/ /\ eng[m].proc = "ready"
          /\ eng' = [eng EXCEPT ![m].start = "sockets"]
       \/ /\ Ended(m)
          /\ eng' = [eng EXCEPT ![m].start = "done"]
    /\ UNCHANGED <<file, sock, cli>>

PreStartProcess(m) ==
    /\ Alive(m) /\ eng[m].start = "sockets"
    /\ IF file = Absent \/ sock # None
       THEN /\ eng' = [eng EXCEPT ![m].start = "done", ![m].fatal = Send(eng[m], "err"),
                                  ![m].sockets = file # Absent]
            /\ UNCHANGED sock
       ELSE /\ eng' = [eng EXCEPT ![m].start = "created", ![m].sockets = TRUE]
            /\ sock' = m
    /\ UNCHANGED <<file, cli>>

StartCreated(m) ==
    LET e == eng[m]
        ok == [e EXCEPT !.start = "hooks", !.control = "accept"]
    IN  \/ /\ e.start = "created"
           /\ UpdateState(m, "start", "created", ok,
                          [e EXCEPT !.start = "done", !.fatal = Send(e, "err")])
        \/ /\ e.start = "created"
           /\ UpdateWrite(m, "start", ok)

\* The hooks, and the signal that lets oci create return.
StartHooks(m) ==
    /\ Alive(m) /\ eng[m].start = "hooks"
    /\ \/ eng' = [eng EXCEPT ![m].start = "await"]
       \/ /\ MayFail
          /\ eng' = [eng EXCEPT ![m].start = "done", ![m].fatal = Send(eng[m], "err")]
    /\ UNCHANGED <<file, sock, cli>>

StartAwait(m) ==
    /\ Alive(m) /\ eng[m].start = "await" /\ eng[m].startChan
    /\ eng' = [eng EXCEPT ![m].start = "exec", ![m].startChan = FALSE]
    /\ UNCHANGED <<file, sock, cli>>

\* The socket is closed by the exec, or by the end of the process.
StartExec(m) ==
    /\ Alive(m) /\ eng[m].start = "exec"
    /\ eng[m].proc \in {"running", "dead", "failed"}
    /\ eng' = [eng EXCEPT ![m].start = IF eng[m].proc = "failed" THEN "done" ELSE "post"]
    /\ UNCHANGED <<file, sock, cli>>

PostStartProcess(m) ==
    LET e == eng[m]
        ok == [e EXCEPT !.start = "done"]
    IN  \/ /\ e.start = "post"
           /\ UpdateState(m, "start", "running", ok, [ok EXCEPT !.fatal = Send(e, "err")])
        \/ /\ e.start = "post"
           /\ UpdateWrite(m, "start", ok)

Start(m) ==
    \/ StartRead(m) \/ PreStartProcess(m) \/ StartCreated(m) \/ StartHooks(m)
    \/ StartAwait(m) \/ StartExec(m) \/ PostStartProcess(m)

-----------------------------------------------------------------------------
(***************************************************************************)
(* The control goroutine: handleControl serves one connection at a time.   *)
(***************************************************************************)

ControlAccept(m) ==
    /\ Alive(m) /\ eng[m].control = "accept" /\ eng[m].backlog # <<>>
    /\ eng' = [eng EXCEPT ![m].control = "decode", ![m].cur = Head(eng[m].backlog),
                          ![m].backlog = Tail(@)]
    /\ UNCHANGED <<file, sock, cli>>

\* Mutant: a connection is closed if there is no message on it.
ControlDecodeSkips(m) ==
    LET c == cli[eng[m].cur] IN
    /\ Alive(m) /\ eng[m].control = "decode"
    /\ eng' = [eng EXCEPT ![m].control = IF c.op \in {"start", "pause", "resume"} THEN c.op
                                         ELSE "close"]
    /\ UNCHANGED <<file, sock, cli>>

\* Decode blocks until the command has sent its message; a connection that is
\* closed without one is an error, and fatal.
ControlDecode(m) ==
    LET c == cli[eng[m].cur] IN
    /\ Alive(m) /\ eng[m].control = "decode"
    /\ \/ /\ c.op \in {"start", "pause", "resume"}
          /\ eng' = [eng EXCEPT ![m].control = c.op]
       \/ /\ c.op \notin {"start", "pause", "resume"} /\ c.conn = "closed"
          /\ eng' = [eng EXCEPT ![m].control = "done", ![m].fatal = Send(eng[m], "err")]
    /\ UNCHANGED <<file, sock, cli>>

\* The first start: the byte that the process waits for, then the start event.
ControlStart(m) ==
    LET e == eng[m] IN
    /\ Alive(m) /\ e.control = "start"
    /\ eng' = [eng EXCEPT ![m] =
         IF e.started THEN [e EXCEPT !.control = "close"]
         ELSE IF Ended(m) \/ e.start = "done"
         THEN [e EXCEPT !.started = TRUE, !.control = "done", !.fatal = Send(e, "err")]
         ELSE [e EXCEPT !.started = TRUE, !.control = "wait", !.startChan = TRUE,
                        !.proc = "go"]]
    /\ UNCHANGED <<file, sock, cli>>

\* Mutant: the start is acknowledged before the status is updated.
WaitStatusUpdateNot(m) ==
    /\ Alive(m) /\ eng[m].control = "wait"
    /\ eng' = [eng EXCEPT ![m].control = "close"]
    /\ UNCHANGED <<file, sock, cli>>

WaitStatusUpdate(m) ==
    /\ Alive(m) /\ eng[m].control = "wait" /\ eng[m].statusChan = "full"
    /\ eng' = [eng EXCEPT ![m].control = "close", ![m].statusChan = "nil"]
    /\ UNCHANGED <<file, sock, cli>>

\* Pause: the freezer, which is gone once the cleanup has begun; then the status.
ControlPause(m) ==
    LET e == eng[m] IN
    \/ /\ Alive(m) /\ e.control = "pause"
       /\ eng' = [eng EXCEPT ![m] =
            IF e.main \in {"wait", "clean"} THEN [e EXCEPT !.control = "paused", !.frozen = TRUE]
            ELSE [e EXCEPT !.control = "done", !.fatal = Send(e, "err")]]
       /\ UNCHANGED <<file, sock, cli>>
    \/ /\ e.control = "paused"
       /\ UpdateState(m, "control", "paused", [e EXCEPT !.control = "close"],
                      [e EXCEPT !.control = "done", !.fatal = Send(e, "err")])
    \/ /\ e.control = "paused"
       /\ UpdateWrite(m, "control", [e EXCEPT !.control = "close"])

\* Resume: the status, then the freezer.
ControlResume(m) ==
    LET e == eng[m] IN
    \/ /\ e.control = "resume"
       /\ UpdateState(m, "control", "running", [e EXCEPT !.control = "thaw"],
                      [e EXCEPT !.control = "done", !.fatal = Send(e, "err")])
    \/ /\ e.control = "resume"
       /\ UpdateWrite(m, "control", [e EXCEPT !.control = "thaw"])
    \/ /\ Alive(m) /\ e.control = "thaw"
       /\ eng' = [eng EXCEPT ![m] =
            IF e.main \in {"wait", "clean"} THEN [e EXCEPT !.control = "close", !.frozen = FALSE]
            ELSE [e EXCEPT !.control = "done", !.fatal = Send(e, "err")]]
       /\ UNCHANGED <<file, sock, cli>>

\* The end of the connection is the acknowledgement.
ControlClose(m) ==
    /\ Alive(m) /\ eng[m].control = "close"
    /\ eng' = [eng EXCEPT ![m].control = "accept", ![m].cur = None]
    /\ cli' = [cli EXCEPT ![eng[m].cur].conn = "eof"]
    /\ UNCHANGED <<file, sock>>

Control(m) ==
    \/ ControlAccept(m) \/ ControlDecode(m) \/ ControlStart(m) \/ WaitStatusUpdate(m)
    \/ ControlPause(m) \/ ControlResume(m) \/ ControlClose(m)

-----------------------------------------------------------------------------
(***************************************************************************)
(* The monitor and the main goroutine: MonitorContainer, CleanupContainer. *)
(***************************************************************************)

MonitorContainer(m) ==
    /\ Alive(m) /\ eng[m].monitor = "wait" /\ Ended(m)
    /\ eng' = [eng EXCEPT ![m].monitor = "done", ![m].fatal = Send(eng[m], "nil")]
    /\ UNCHANGED <<file, sock, cli>>

MainFatal(m) ==
    /\ eng[m].main = "wait" /\ eng[m].fatal # <<>>
    /\ eng' = [eng EXCEPT ![m].main = "clean", ![m].fatalErr = Head(eng[m].fatal) = "err",
                          ![m].fatal = <<>>]
    /\ UNCHANGED <<file, sock, cli>>

\* Cgroups.Destroy; the status in memory is read without the lock.
CleanupContainer(m) ==
    /\ eng[m].main = "clean"
    /\ eng' = [eng EXCEPT ![m].frozen = FALSE,
                          ![m].main = IF eng[m].mem = "creating" THEN "delete" ELSE "stop",
                          ![m].exit = IF eng[m].mem = "creating" THEN @
                                      ELSE IF eng[m].fatalErr THEN "fatal" ELSE "process"]
    /\ UNCHANGED <<file, sock, cli>>

CleanupDelete(m) ==
    /\ eng[m].main = "delete"
    /\ file' = Absent /\ sock' = None
    /\ eng' = [eng EXCEPT ![m].main = "exit"]
    /\ UNCHANGED cli

CleanupStop(m) ==
    LET e == eng[m] IN
    \/ /\ e.main = "stop"
       /\ UpdateState(m, "main", "stopped", [e EXCEPT !.main = "sockets"], [e EXCEPT !.main = "exit"])
    \/ /\ e.main = "stop"
       /\ UpdateWrite(m, "main", [e EXCEPT !.main = "sockets"])

CleanupSockets(m) ==
    /\ eng[m].main = "sockets"
    /\ sock' = IF eng[m].sockets THEN None ELSE sock
    /\ eng' = [eng EXCEPT ![m].main = "exit"]
    /\ UNCHANGED <<file, cli>>

\* Mutant: the commands are left waiting.
MainExitLeaks(m) ==
    /\ eng[m].main = "exit"
    /\ eng' = [eng EXCEPT ![m].main = "exited", ![m].proc = "dead"]
    /\ UNCHANGED <<file, sock, cli>>

\* The master exits; its connections end, and its container is killed with it.
MainExit(m) ==
    LET ends(c) == c = eng[m].cur \/ \E i \in DOMAIN eng[m].backlog : eng[m].backlog[i] = c IN
    /\ eng[m].main = "exit"
    /\ eng' = [eng EXCEPT ![m].main = "exited", ![m].proc = "dead", ![m].backlog = <<>>,
                          ![m].cur = None]
    /\ cli' = [c \in Clients |->
                 IF ends(c) /\ cli[c].conn = "open" THEN [cli[c] EXCEPT !.conn = "eof"] ELSE cli[c]]
    /\ UNCHANGED <<file, sock>>

Main(m) ==
    \/ MainFatal(m) \/ CleanupContainer(m) \/ CleanupDelete(m) \/ CleanupStop(m)
    \/ CleanupSockets(m) \/ MainExit(m)

-----------------------------------------------------------------------------
(***************************************************************************)
(* The commands.                                                           *)
(***************************************************************************)

Done(c, r) == [cli[c] EXCEPT !.pc = "done", !.result = r, !.conn = IF @ = "open" THEN "closed" ELSE @]

\* The statuses on which an operation goes on; delete refuses one only.
Allows(op, status) ==
    \/ op = "start" /\ status = "created"
    \/ op \in {"kill", "killwait"} /\ status \in {"created", "running"}
    \/ op = "pause" /\ status = "running"
    \/ op = "resume" /\ status = "paused"
    \/ op = "delete" /\ status # "running"

Created == \E m \in Masters : eng[m].start \in {"await", "exec", "post", "done"}

\* getState and the check of the status.
Begin(c, op) ==
    /\ cli[c].pc = "idle" /\ (Early \/ Created)
    /\ cli' = [cli EXCEPT ![c] =
         IF file = Absent \/ ~Allows(op, file.status)
         THEN [Done(c, "error") EXCEPT !.op = op]
         ELSE [@ EXCEPT !.op = op, !.view = file,
                        !.pc = IF op = "kill" THEN "signal"
                               ELSE IF op = "delete" /\ file.status # "created" THEN "remove"
                               ELSE "dial"]]
    /\ UNCHANGED <<file, sock, eng>>

\* A connection to the control socket; the message is sent at once if there is one.
Dial(c) ==
    /\ cli[c].pc = "dial"
    /\ IF sock = None \/ eng[sock].main = "exited"
       THEN cli' = [cli EXCEPT ![c] = Done(c, "error")] /\ UNCHANGED eng
       ELSE /\ eng' = [eng EXCEPT ![sock].backlog = Append(@, c)]
            /\ cli' = [cli EXCEPT ![c].conn = "open",
                 ![c].pc = IF cli[c].op \in {"killwait", "delete"} THEN "signal" ELSE "wait"]
    /\ UNCHANGED <<file, sock>>

\* syscall.Kill fails once the monitor has waited for the process.
Gone(c) == LET m == cli[c].view.owner IN eng[m].monitor = "done" \/ eng[m].main = "exited"

Kill(c, s) ==
    eng' = [eng EXCEPT ![cli[c].view.owner].signal = IF @ = "kill" THEN @ ELSE s]

Signal(c) ==
    /\ cli[c].pc = "signal"
    /\ IF Gone(c) THEN cli' = [cli EXCEPT ![c] = Done(c, "error")] /\ UNCHANGED eng
       ELSE /\ Kill(c, "term")
            /\ IF cli[c].op = "kill" THEN cli' = [cli EXCEPT ![c] = Done(c, "ok")]
               ELSE cli' = [cli EXCEPT ![c].pc = "wait"]
    /\ UNCHANGED <<file, sock>>

\* The runtime closes the connection: the acknowledgement.
Acknowledged(c) ==
    /\ cli[c].pc = "wait" /\ cli[c].conn = "eof"
    /\ cli' = [cli EXCEPT ![c] =
         IF cli[c].op \in {"start", "killwait"} THEN Done(c, "ok")
         ELSE IF cli[c].op \in {"pause", "resume"} THEN [@ EXCEPT !.pc = "check"]
         ELSE [@ EXCEPT !.pc = "reread"]]
    /\ UNCHANGED <<file, sock, eng>>

\* OciPauseResume looks whether the status is the one it asked for.
Check(c) ==
    /\ cli[c].pc = "check"
    /\ cli' = [cli EXCEPT ![c] =
         Done(c, IF file.status = (IF cli[c].op = "pause" THEN "paused" ELSE "running")
                 THEN "ok" ELSE "error")]
    /\ UNCHANGED <<file, sock, eng>>

\* The time-out of a kill: SIGKILL, and the connection is closed.
Timeout(c) ==
    /\ MayTimeout /\ cli[c].pc = "wait" /\ cli[c].conn = "open"
    /\ cli[c].op \in {"killwait", "delete"}
    /\ IF Gone(c) THEN cli' = [cli EXCEPT ![c] = Done(c, "error")] /\ UNCHANGED eng
       ELSE /\ Kill(c, "kill")
            /\ cli' = [cli EXCEPT ![c] =
                 IF cli[c].op = "killwait" THEN Done(c, "ok")
                 ELSE [@ EXCEPT !.conn = "closed", !.pc = "reread"]]
    /\ UNCHANGED <<file, sock>>

\* OciDelete: the hooks of the configuration read again, then the files.
Reread(c) ==
    /\ cli[c].pc = "reread"
    /\ cli' = [cli EXCEPT ![c] = IF file = Absent THEN Done(c, "error") ELSE [@ EXCEPT !.pc = "remove"]]
    /\ UNCHANGED <<file, sock, eng>>

Remove(c) ==
    /\ cli[c].pc = "remove"
    /\ cli' = [cli EXCEPT ![c] = Done(c, IF file = Absent THEN "error" ELSE "ok")]
    /\ file' = Absent
    /\ sock' = IF file = Absent THEN sock ELSE None
    /\ UNCHANGED eng

Command(c) ==
    \/ Dial(c) \/ Signal(c) \/ Acknowledged(c) \/ Check(c) \/ Timeout(c) \/ Reread(c) \/ Remove(c)

-----------------------------------------------------------------------------
\* The OS and Go schedule every process and goroutine; a signalled process ends.
Proc(m) == ProcSteps(m) \/ ProcFails(m)

Next ==
    \/ \E m \in Masters : \/ OciCreate(m) \/ Create(m) \/ Proc(m) \/ ProcEnds(m) \/ Start(m)
                          \/ Control(m) \/ MonitorContainer(m) \/ Main(m)
    \/ \E c \in Clients : Command(c) \/ \E op \in Ops : Begin(c, op)

Spec == Init /\ [][Next]_vars

\* A process that was sent a signal ends.
EndsSignalled(m) == eng[m].signal # "none" /\ ProcEnds(m)

FairSpec ==
    /\ Spec
    /\ \A m \in Masters : /\ WF_vars(Create(m)) /\ WF_vars(Start(m)) /\ WF_vars(Control(m))
                          /\ WF_vars(MonitorContainer(m)) /\ WF_vars(Main(m)) /\ WF_vars(Proc(m))
                          /\ WF_vars(EndsSignalled(m))
    /\ \A c \in Clients : WF_vars(Command(c))

-----------------------------------------------------------------------------
(***************************************************************************)
(* Properties.                                                             *)
(***************************************************************************)

Abstract == INSTANCE OciLifecycle WITH status <- file.status

\* The status on file changes only as the OCI lifecycle allows: it never goes back,
\* and a container that is stopped is never running again (create_linux.go:416).
Lifecycle == Abstract!Spec

\* An oci start that returned without error leaves a container that is no longer
\* created: the acknowledgement comes after the status (process_linux.go:457-461).  The
\* end of the connection is all that the command waits for (oci_start_linux.go:54-60),
\* so that the start of a container that failed or was killed meanwhile returns without
\* error as well, once the container is stopped.
StartIsAcknowledged ==
    \A c \in Clients : (cli[c].op = "start" /\ cli[c].result = "ok")
                         => file.status \notin {"creating", "created"}

\* What the state file shows is so: a container that is shown as paused is frozen
\* or has ended, until its master cleans up (process_linux.go:489-497), and one that is
\* shown as stopped with the status of its process has ended, and has an exit code
\* (cleanup_linux.go:67-87).
StatusIsTrue ==
    /\ file.status = "paused" =>
          LET e == eng[file.owner] IN e.frozen \/ Ended(file.owner) \/ e.main # "wait"
    /\ file.status = "stopped" =>
          /\ file.exit # "none"
          /\ file.exit = "process" => Ended(file.owner)

\* What the commands and the file say of the container is so: the two above.
ReportsAreTrue == TypeOK /\ StartIsAcknowledged /\ StatusIsTrue

\* "the state of the container must be created or stopped" (oci_delete_linux.go:31):
\* the files of a container that is paused are not deleted.
DeleteSparesPaused ==
    [][file.status = "paused" => file'.status # "none"]_vars

\* Delete deletes "resources that were created for container" (docs/content.go:1043):
\* once the delete of a created or stopped container has succeeded there is no file,
\* though the master has its own cleanup.  A delete that did not wait for the master,
\* because its kill timed out, may be undone by the master's last update
\* (create_linux.go:420).
DeletedIsGone ==
    \A c \in Clients :
        (/\ cli[c].op = "delete" /\ cli[c].result = "ok" /\ cli[c].conn # "closed"
         /\ cli[c].view.status \in {"created", "stopped"}) => file = Absent

\* What a command has begun, and that it is done: itself (k = 1), and the end of the
\* container it killed (k = 2).
UnderWay(c, k) == \/ k = 1 /\ cli[c].pc # "idle"
                  \/ k = 2 /\ cli[c].op = "kill" /\ cli[c].result = "ok"
Effected(c, k) == \/ k = 1 /\ cli[c].pc = "done"
                  \/ k = 2 /\ file.status \in {"stopped", "none"}

\* Every command that has begun ends, also one whose kill times out, and a container
\* that was sent a signal by oci kill is stopped or gone in the end.
CommandsTakeEffect ==
    \A c \in Clients, k \in 1..2 : UnderWay(c, k) ~> Effected(c, k)

=============================================================================
