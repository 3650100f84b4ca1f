---------------------------- MODULE ImageDriver -----------------------------
(***************************************************************************)
(* The FUSE image driver in the master (internal/pkg/image/driver), the    *)
(* loop of create() that waits for the mounts, and umount() of the cleanup *)
(* that stops the drivers.                                                 *)
(*                                                                         *)
(* Goroutines: AllG is system.MountAll, which mounts the drivers in turn;  *)
(* FwdG forwards the driver's error to create(), which is CreateG; MainG   *)
(* is main, which waits for an error or for the end of the container and   *)
(* then runs CleanupContainer, while the others may still be at work; and  *)
(* one watcher per driver process.  waitInstance is run by whoever sees a  *)
(* driver process end.                                                     *)
(***************************************************************************)
EXTENDS Integers

CONSTANTS
    Drivers,    \* number of driver processes that the mounts need
    MaxFails    \* bound: driver processes that exit or hang by themselves

D == 1..Drivers
AllG == 0     \* the goroutines; a watcher has its driver's number
MainG == -1
FwdG == -2
CreateG == -3
Goroutines == {AllG, MainG} \cup D

VARIABLES
    WaitForMount, \* Mount waits for the mount point: the unprivileged workflow
    pc,         \* of each goroutine, of the forwarder and of create()
    cur,        \* the driver that MountAll mounts and that umount stops
    process,    \* a driver process: "none", "mounting", "mounted", "ended"
    failing,    \* it ends with an error message
    cmd,        \* instance.cmd is not nil
    output,     \* the value of instance.stdout.err is in its channel
    had,        \* waitInstance: the cmd it took was not nil
    mountErr,   \* mountErrCh: "empty", "error" or "closed"
    stopped,    \* d.stopped; instanceCh is closed with it
    result,     \* of create(): "none", "ok" (driverMountErr is closed) or "error"
    early,      \* the cleanup began while create() had not returned
    fails,
    panicked    \* the master has died of a panic

vars == <<WaitForMount, pc, cur, process, failing, cmd, output, had, mountErr, stopped, result, early,
          fails, panicked>>

Places ==
    {"none", "start", "announce", "poll", "exit", "take", "clear", "receive", "reap", "report",
     "failed", "waitid", "select", "send", "selectNil", "sendNil", "loop", "close", "wait",
     "clean", "umount", "stop", "done"}

TypeOK ==
    /\ WaitForMount \in BOOLEAN
    /\ pc \in [Goroutines \cup {FwdG, CreateG} -> Places]
    /\ cur \in [{AllG, MainG} -> 0..Drivers]
    /\ process \in [D -> {"none", "mounting", "mounted", "ended"}]
    /\ failing \subseteq D
    /\ cmd \in [D -> BOOLEAN] /\ output \in [D -> BOOLEAN]
    /\ had \in [Goroutines -> BOOLEAN]
    /\ mountErr \in {"empty", "error", "closed"}
    /\ stopped \in BOOLEAN /\ panicked \in BOOLEAN
    /\ result \in {"none", "ok", "error"} /\ early \in BOOLEAN
    /\ fails \in 0..MaxFails

Init ==
    /\ WaitForMount \in BOOLEAN
    /\ pc = [g \in Goroutines \cup {FwdG, CreateG} |->
               CASE g = AllG -> "start" [] g = MainG -> "wait" [] g = FwdG -> "receive"
                 [] g = CreateG -> "loop" [] OTHER -> "none"]
    /\ cur = [g \in {AllG, MainG} |-> 1]
    /\ process = [i \in D |-> "none"]
    /\ failing = {}
    /\ cmd = [i \in D |-> FALSE] /\ output = [i \in D |-> FALSE]
    /\ had = [g \in Goroutines |-> FALSE]
    /\ mountErr = "empty" /\ stopped = FALSE
    /\ result = "none" /\ early = FALSE
    /\ fails = 0 /\ panicked = FALSE

\* Main's exit ends them all.
At(g, l) == ~panicked /\ pc[MainG] # "done" /\ pc[g] = l
Goto(g, l) == pc' = [pc EXCEPT ![g] = l]

\* The driver a goroutine is about.
Of(g) == IF g \in D THEN g ELSE cur[g]

Panics ==
    /\ panicked' = TRUE
    /\ UNCHANGED <<pc, cur, process, failing, cmd, output, had, mountErr, stopped, result,
                   early, fails, WaitForMount>>

-----------------------------------------------------------------------------
\* The process of a driver: it mounts, and it ends when it is unmounted or fails.
Mounts(i) ==
    /\ ~panicked /\ process[i] = "mounting"
    /\ process' = [process EXCEPT ![i] = "mounted"]
    /\ UNCHANGED <<pc, cur, failing, cmd, output, had, mountErr, stopped, result, early,
                   fails, panicked, WaitForMount>>

Fails(i) ==
    /\ ~panicked /\ process[i] \in {"mounting", "mounted"} /\ fails < MaxFails
    /\ fails' = fails + 1
    /\ process' = [process EXCEPT ![i] = "ended"]
    /\ failing' = failing \cup {i}
    /\ output' = [output EXCEPT ![i] = TRUE]
    /\ UNCHANGED <<pc, cur, cmd, had, mountErr, stopped, result, early, panicked, WaitForMount>>

\* The pipes of a process that ends are closed, and their readers send their result.
Ends(i) ==
    /\ process' = [process EXCEPT ![i] = "ended"]
    /\ output' = [output EXCEPT ![i] = output[i] \/ process[i] # "ended"]

-----------------------------------------------------------------------------
\* Mount: cmd.Start, the instance is added to the feature's ...
MountStart ==
    /\ At(AllG, "start")
    /\ process' = [process EXCEPT ![cur[AllG]] = "mounting"]
    /\ cmd' = [cmd EXCEPT ![cur[AllG]] = TRUE]
    /\ Goto(AllG, "announce")
    /\ UNCHANGED <<cur, failing, output, had, mountErr, stopped, result, early, fails, panicked, WaitForMount>>

\* ... and sent to checkStopped, which starts its watcher.
MountAnnounce ==
    /\ At(AllG, "announce")
    /\ IF stopped
       THEN Panics
       ELSE /\ pc' = [pc EXCEPT ![AllG] = "poll", ![cur[AllG]] = "waitid"]
            /\ UNCHANGED <<cur, process, failing, cmd, output, had, mountErr, stopped, result,
                           early, fails, panicked, WaitForMount>>

\* The mount point appears in mountinfo; the next driver, or MountAll is done.
MountSeen ==
    /\ At(AllG, "poll") /\ (WaitForMount => process[cur[AllG]] = "mounted")
    /\ IF cur[AllG] = Drivers
       THEN Goto(AllG, "report") /\ UNCHANGED cur
       ELSE Goto(AllG, "start") /\ cur' = [cur EXCEPT ![AllG] = @ + 1]
    /\ UNCHANGED <<process, failing, cmd, output, had, mountErr, stopped, result, early, fails,
                   panicked, WaitForMount>>

\* 10 seconds have passed: f.stop(target, true), if there still is a cmd.
MountTimeout ==
    /\ WaitForMount /\ At(AllG, "poll") /\ process[cur[AllG]] # "mounted"
    /\ process[cur[AllG]] = "ended" \/ fails < MaxFails
    /\ fails' = IF process[cur[AllG]] = "ended" THEN fails ELSE fails + 1
    /\ IF cmd[cur[AllG]]
       THEN Goto(AllG, "exit") /\ Ends(cur[AllG])
       ELSE Goto(AllG, "failed") /\ UNCHANGED <<process, output>>
    /\ UNCHANGED <<cur, failing, cmd, had, mountErr, stopped, result, early, panicked, WaitForMount>>

\* Another mount of MountAll fails.
MountOther ==
    /\ At(AllG, "start")
    /\ Goto(AllG, "failed")
    /\ UNCHANGED <<cur, process, failing, cmd, output, had, mountErr, stopped, result, early,
                   fails, panicked, WaitForMount>>

All == MountStart \/ MountAnnounce \/ MountSeen \/ MountTimeout \/ MountOther

-----------------------------------------------------------------------------
\* stop: Waitid returns when the process has ended, by itself or killed after the
\* time-outs.
StopWait(g) ==
    /\ At(g, "exit")
    /\ Ends(Of(g))
    /\ Goto(g, "take")
    /\ UNCHANGED <<cur, failing, cmd, had, mountErr, stopped, result, early, fails, panicked, WaitForMount>>

\* waitInstance: cmd := instance.cmd; then instance.cmd = nil, with no lock ...
WaitTake(g) ==
    /\ At(g, "take")
    /\ had' = [had EXCEPT ![g] = cmd[Of(g)]]
    /\ Goto(g, "clear")
    /\ UNCHANGED <<cur, process, failing, cmd, output, mountErr, stopped, result, early, fails,
                   panicked, WaitForMount>>

WaitClear(g) ==
    /\ At(g, "clear")
    /\ cmd' = [cmd EXCEPT ![Of(g)] = FALSE]
    /\ Goto(g, "receive")
    /\ UNCHANGED <<cur, process, failing, output, had, mountErr, stopped, result, early, fails,
                   panicked, WaitForMount>>

\* ... a receive of the one value of its output channel ...
WaitReceive(g) ==
    /\ At(g, "receive") /\ output[Of(g)]
    /\ output' = [output EXCEPT ![Of(g)] = FALSE]
    /\ Goto(g, "reap")
    /\ UNCHANGED <<cur, process, failing, cmd, had, mountErr, stopped, result, early, fails, panicked, WaitForMount>>

\* ... and cmd.Wait, which panics on a nil cmd.  Then each caller goes on.
WaitReap(g) ==
    /\ At(g, "reap")
    /\ IF ~had[g] THEN Panics
       ELSE /\ Goto(g, CASE g = AllG -> "failed" [] g = MainG -> "umount"
                         [] OTHER -> IF g \in failing THEN "send" ELSE "done")
            /\ cur' = IF g = MainG THEN [cur EXCEPT ![MainG] = @ - 1] ELSE cur
            /\ UNCHANGED <<process, failing, cmd, output, had, mountErr, stopped, result, early,
                           fails, panicked, WaitForMount>>

WaitInstance(g) == StopWait(g) \/ WaitTake(g) \/ WaitClear(g) \/ WaitReceive(g) \/ WaitReap(g)

\* Mutant: the watcher reports the end of a driver that was stopped.
WatchReports(i) ==
    /\ At(i, "waitid") /\ process[i] = "ended"
    /\ Goto(i, IF stopped THEN "send" ELSE "take")
    /\ UNCHANGED <<cur, process, failing, cmd, output, had, mountErr, stopped, result, early,
                   fails, panicked, WaitForMount>>

\* The goroutine of checkStopped: Waitid, and d.stopped.Load.
Watch(i) ==
    /\ At(i, "waitid") /\ process[i] = "ended"
    /\ Goto(i, IF stopped THEN "done" ELSE "take")
    /\ UNCHANGED <<cur, process, failing, cmd, output, had, mountErr, stopped, result, early,
                   fails, panicked, WaitForMount>>

\* mountErrCh has one slot.
WatchSend(i) ==
    /\ At(i, "send")
    /\ IF mountErr = "closed" THEN Panics
       ELSE /\ mountErr = "empty" /\ mountErr' = "error"
            /\ Goto(i, "done")
            /\ UNCHANGED <<cur, process, failing, cmd, output, had, stopped, result, early, fails,
                           panicked, WaitForMount>>

-----------------------------------------------------------------------------
\* The forwarder: MountErr returns an error, or nil when the driver is stopped ...
ForwardReceive ==
    /\ At(FwdG, "receive") /\ mountErr # "empty"
    /\ Goto(FwdG, IF mountErr = "error" THEN "select" ELSE "selectNil")
    /\ mountErr' = IF mountErr = "error" THEN "empty" ELSE mountErr
    /\ UNCHANGED <<cur, process, failing, cmd, output, had, stopped, result, early, fails, panicked, WaitForMount>>

\* ... a closed driverMountErr ends it, else it sends; the send blocks, and panics
\* if the channel is closed meanwhile.
ForwardSelect ==
    /\ At(FwdG, "select") \/ At(FwdG, "selectNil")
    /\ Goto(FwdG, CASE result = "ok" -> "done" [] pc[FwdG] = "select" -> "send"
                    [] OTHER -> "sendNil")
    /\ UNCHANGED <<cur, process, failing, cmd, output, had, mountErr, stopped, result, early,
                   fails, panicked, WaitForMount>>

ForwardPanic ==
    /\ At(FwdG, "send") \/ At(FwdG, "sendNil")
    /\ result = "ok"
    /\ Panics

Forward == ForwardReceive \/ ForwardSelect \/ ForwardPanic

\* create(): the select of the mount loop.  An error returns, no error goes round.
CreateDriverErr ==
    /\ At(CreateG, "loop") /\ pc[FwdG] \in {"send", "sendNil"}
    /\ pc' = [pc EXCEPT ![CreateG] = IF pc[FwdG] = "send" THEN "done" ELSE @,
                        ![FwdG] = "done"]
    /\ result' = IF pc[FwdG] = "send" THEN "error" ELSE result
    /\ UNCHANGED <<cur, process, failing, cmd, output, had, mountErr, stopped, early, fails, panicked, WaitForMount>>

CreateMountAll ==
    /\ At(CreateG, "loop") /\ pc[AllG] \in {"report", "failed"}
    /\ pc' = [pc EXCEPT ![AllG] = "done",
                        ![CreateG] = IF pc[AllG] = "failed" THEN "done" ELSE "close"]
    /\ result' = IF pc[AllG] = "failed" THEN "error" ELSE result
    /\ UNCHANGED <<cur, process, failing, cmd, output, had, mountErr, stopped, early, fails, panicked, WaitForMount>>

CreateClose ==
    /\ At(CreateG, "close")
    /\ result' = "ok"
    /\ Goto(CreateG, "done")
    /\ UNCHANGED <<cur, process, failing, cmd, output, had, mountErr, stopped, early, fails, panicked, WaitForMount>>

Create == CreateDriverErr \/ CreateMountAll \/ CreateClose

-----------------------------------------------------------------------------
\* main: fatal := <-fatalChan, from createContainer ...
CreateFailed ==
    /\ At(MainG, "wait") /\ result = "error"
    /\ Goto(MainG, "clean")
    /\ UNCHANGED <<cur, process, failing, cmd, output, had, mountErr, stopped, result, early,
                   fails, panicked, WaitForMount>>

\* ... or from MonitorContainer: the container ends, or is killed while create() is
\* still at work on it.
ContainerEnds ==
    /\ At(MainG, "wait")
    /\ Goto(MainG, "clean")
    /\ early' = (result = "none")
    /\ UNCHANGED <<cur, process, failing, cmd, output, had, mountErr, stopped, result, fails,
                   panicked, WaitForMount>>

\* umount(): Stop("") first ...
CleanStop ==
    /\ At(MainG, "clean")
    /\ stopped' = TRUE /\ mountErr' = "closed"
    /\ cur' = [cur EXCEPT ![MainG] = Drivers]
    /\ Goto(MainG, "umount")
    /\ UNCHANGED <<process, failing, cmd, output, had, result, early, fails, panicked, WaitForMount>>

\* ... then, last mount first, an unmount, on which the driver process ends, ...
CleanUmount ==
    /\ At(MainG, "umount")
    /\ IF cur[MainG] = 0
       THEN Goto(MainG, "done") /\ UNCHANGED <<process, output>>
       ELSE /\ Goto(MainG, "stop")
            /\ IF process[cur[MainG]] = "mounted" THEN Ends(cur[MainG])
               ELSE UNCHANGED <<process, output>>
    /\ UNCHANGED <<cur, failing, cmd, had, mountErr, stopped, result, early, fails, panicked, WaitForMount>>

\* The instance has its own target: until a Mount of a file descriptor returns, it has
\* that of the file descriptor.
Targeted(i) == WaitForMount \/ ~(cur[AllG] = i /\ pc[AllG] \in {"announce", "poll"})

\* ... and Stop(target), if there is an instance with a cmd.
CleanStopDriver ==
    /\ At(MainG, "stop")
    /\ IF cmd[cur[MainG]] /\ Targeted(cur[MainG])
       THEN Goto(MainG, "exit") /\ UNCHANGED cur
       ELSE Goto(MainG, "umount") /\ cur' = [cur EXCEPT ![MainG] = @ - 1]
    /\ UNCHANGED <<process, failing, cmd, output, had, mountErr, stopped, result, early, fails,
                   panicked, WaitForMount>>

Clean == CleanStop \/ CleanUmount \/ CleanStopDriver

Next ==
    \/ \E i \in D : Mounts(i) \/ Fails(i) \/ Watch(i) \/ WatchSend(i)
    \/ \E g \in Goroutines : WaitInstance(g)
    \/ All \/ Forward \/ Create \/ CreateFailed \/ ContainerEnds \/ Clean

Spec == Init /\ [][Next]_vars

\* Goroutines run on unless they block, and a driver process mounts unless it fails.
FairSpec ==
    /\ Spec
    /\ WF_vars(All) /\ WF_vars(Forward) /\ WF_vars(Create)
    /\ WF_vars(CreateFailed) /\ WF_vars(Clean)
    /\ \A i \in D : WF_vars(Mounts(i)) /\ WF_vars(Watch(i)) /\ WF_vars(WatchSend(i))
    /\ \A g \in Goroutines : WF_vars(WaitInstance(g))

-----------------------------------------------------------------------------
(***************************************************************************)
(* Properties.                                                             *)
(***************************************************************************)

\* The goroutines do not get in each other's way: a driver process is waited for by
\* one of them, as a second would block on its output for ever or call Wait on a nil
\* command (imagedriver.go:545-553), and the master does not die on a closed channel
\* (container_linux.go:303-330).  This and the next hold while drivers neither exit
\* nor hang by themselves; when one does, its watcher and the stop after the mount
\* time-out both wait for it.  They do not hold either when the container is killed
\* while create() is still mounting: the cleanup then closes the channel on which the
\* next Mount announces its driver, and waits for a driver whose Mount is waiting.
SharedSafely ==
    fails = 0 /\ ~early =>
        /\ \A g, h \in Goroutines :
             (pc[g] \in {"take", "clear", "receive"} /\ pc[h] \in {"take", "clear", "receive"}
                /\ Of(g) = Of(h)) => g = h
        /\ ~panicked

\* "waitTimeout is time to wait until terminate signal and again to wait until
\* force kill signal" (imagedriver.go:512-513): stopping a driver takes a bounded
\* time, so that the container's cleanup ends, and then every driver process was
\* waited for and none is left, at whatever point the creation was given up
\* (cleanup_linux.go:152-245).
Ending == result = "error" \/ pc[MainG] # "wait"
Released ==
    \/ /\ pc[MainG] = "done"
       /\ \A i \in D : process[i] \in {"none", "ended"} /\ ~cmd[i]
    \/ fails > 0 \/ early
CleanupReleases == Ending ~> Released

\* A container is started only on mounts that are there, whatever drivers fail and
\* whenever the cleanup begins (imagedriver.go:393-453).
MountedBeforeRun ==
    (WaitForMount /\ result = "ok") => \A i \in D : process[i] \notin {"none", "mounting"}

\* The drivers serve the containers that use them, and only those: the above.
DriversAreSafe == TypeOK /\ SharedSafely /\ MountedBeforeRun

=============================================================================
