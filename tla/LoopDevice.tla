----------------------------- MODULE LoopDevice -----------------------------
(***************************************************************************)
(* The search for a loop device (pkg/util/loop/loop.go), as the RPC server *)
(* of each container runs it for mountImage: several containers start and  *)
(* end on one host.  A device is what the kernel keeps for /dev/loopN; who *)
(* has it open follows from where each process is in the code.  The open   *)
(* and close at the head of openLoopDev, which only tests that the device  *)
(* is there, is one step.                                                  *)
(***************************************************************************)
EXTENDS Integers, FiniteSets

CONSTANTS
    Procs,          \* the RPC servers of the containers
    MaxLoopDevices,
    Views,          \* what a container mounts: [file, offset, ro]
    Hosts,          \* the nodes /dev/loopN that a host may start with
    sleepRetries,   \* retries of the status before a flush (5 in the code)
    None, Foreign,  \* no file; the file of a device that has no node here
    MaxRuns,        \* bound: containers that a process starts in turn
    MaxCrashes,     \* bound: processes that are killed
    MayFail         \* system calls may fail for reasons of their own

Devices == 0 .. MaxLoopDevices - 1

\* A node is there; or the kernel has no such device yet; or the device is in use
\* on the host and has no node here.
Nodes == [Devices -> {"present", "absent", "hidden"}]

ASSUME LoopAssumption ==
    /\ MaxLoopDevices \in Nat /\ sleepRetries \in Nat /\ MaxRuns \in Nat /\ MaxCrashes \in Nat
    /\ Views # {} /\ Hosts \subseteq Nodes
    /\ \A v \in Views : v.file \notin {None, Foreign} /\ v.ro \in BOOLEAN
    /\ None \notin Procs

VARIABLES
    Shared,     \* "shared loop devices" of apptainer.conf
    device,     \* the kernel's state of each device
    node,       \* /dev/loopN
    lock,       \* who has the exclusive lock on /dev/loopN
    pc, cur,    \* of each process: where it is, and the device it looks at
    want,       \* the view that it mounts
    retry,      \* retryCount of setLoopStatus
    runs, crashes,
    candidates  \* history: devices that had p's view all through p's search, and
                \* that p could open, lock and read

vars == <<Shared, device, node, lock, pc, cur, want, retry, runs, crashes, candidates>>

AnyView == CHOOSE v \in Views : TRUE
Free == [file |-> None, offset |-> 0, ro |-> FALSE, auto |-> FALSE]

\* Where a process has the lock's descriptor of its device open, and where
\* the one for the device itself; a mount keeps the device open as well.
Locking == {"shareLock", "status", "match", "differ", "attachLock"}
Setting == {"setFd", "setStatus", "clear", "release"}
HasOpen == {"status", "match", "differ", "mount", "mounted"} \cup Setting
Opening(p, d) ==
    /\ cur[p] = d
    /\ pc[p] \in HasOpen \cup Locking

Openers(d) == {p \in Procs : Opening(p, d)}

TypeOK ==
    /\ Shared \in BOOLEAN
    /\ device \in [Devices -> [file : {v.file : v \in Views} \cup {None, Foreign},
                               offset : {0} \cup {v.offset : v \in Views},
                               ro : BOOLEAN, auto : BOOLEAN]]
    /\ node \in Nodes
    /\ lock \in [Devices -> Procs \cup {None}]
    /\ pc \in [Procs -> {"idle", "share", "attach", "noDevice", "noOpen", "failed"}
                          \cup HasOpen \cup Locking]
    /\ cur \in [Procs -> 0 .. MaxLoopDevices]
    /\ want \in [Procs -> Views]
    /\ retry \in [Procs -> 0 .. sleepRetries + 2]
    /\ runs \in [Procs -> 0 .. MaxRuns] /\ crashes \in 0 .. MaxCrashes
    /\ candidates \in [Procs -> SUBSET Devices]

Init ==
    /\ Shared \in BOOLEAN
    /\ node \in Hosts
    /\ device = [d \in Devices |-> IF node[d] = "hidden" THEN [Free EXCEPT !.file = Foreign] ELSE Free]
    /\ lock = [d \in Devices |-> None]
    /\ pc = [p \in Procs |-> "idle"] /\ cur = [p \in Procs |-> 0]
    /\ want = [p \in Procs |-> AnyView]
    /\ retry = [p \in Procs |-> 0]
    /\ runs = [p \in Procs |-> 0] /\ crashes = 0
    /\ candidates = [p \in Procs |-> {}]

\* The view that a device gives, and the test of shareLoop.
Gives(d, v) ==
    /\ device[d].file = v.file
    /\ device[d].offset = v.offset
    /\ device[d].ro = v.ro

Goto(p, l) == pc' = [pc EXCEPT ![p] = l]
NextDevice(p) == cur' = [cur EXCEPT ![p] = @ + 1]

\* p closes all that it has open of d: the kernel clears a device marked
\* autoclear when nobody else has it open.
Closed(p, d) ==
    IF device[d].auto /\ Openers(d) \ {p} = {} THEN [device EXCEPT ![d] = Free] ELSE device

\* The count of setLoopStatus starts at zero each time.
NoRetry(p) == retry' = [retry EXCEPT ![p] = 0]

Unlocked(p) == [d \in Devices |-> IF lock[d] = p THEN None ELSE lock[d]]

-----------------------------------------------------------------------------
\* mountImage asks the RPC server for a device.
LoopDevice(p, v) ==
    /\ pc[p] = "idle" /\ runs[p] < MaxRuns
    /\ want' = [want EXCEPT ![p] = v]
    /\ runs' = [runs EXCEPT ![p] = @ + 1]
    /\ cur' = [cur EXCEPT ![p] = 0]
    /\ Goto(p, IF Shared THEN "share" ELSE "attach")
    /\ UNCHANGED <<device, node, lock, retry, crashes, Shared>>

\* Mutant: the device is looked at without its lock.
ShareOpenNoLock(p) ==
    /\ pc[p] = "share" /\ cur[p] \in Devices
    /\ IF node[cur[p]] = "present"
       THEN Goto(p, "status") /\ UNCHANGED cur
       ELSE NextDevice(p) /\ UNCHANGED pc
    /\ UNCHANGED <<device, node, lock, want, retry, runs, crashes, Shared>>

\* shareLoop: every device that can be opened, without creating one.
ShareOpen(p) ==
    /\ pc[p] = "share" /\ cur[p] \in Devices
    /\ IF node[cur[p]] = "present"
       THEN Goto(p, "shareLock") /\ UNCHANGED cur
       ELSE NextDevice(p) /\ UNCHANGED pc
    /\ UNCHANGED <<device, node, lock, want, retry, runs, crashes, Shared>>

\* flock waits for the holder of the lock; then the device is opened.
TakeLock(p) ==
    /\ pc[p] \in {"shareLock", "attachLock"} /\ lock[cur[p]] = None
    /\ lock' = [lock EXCEPT ![cur[p]] = p]
    /\ Goto(p, IF pc[p] = "shareLock" THEN "status" ELSE "setFd")
    /\ UNCHANGED <<device, node, cur, want, retry, runs, crashes, Shared>>

\* GetStatusFromFd; the lock is released before the status is compared.
ShareStatus(p) ==
    /\ pc[p] = "status"
    /\ Goto(p, IF Gives(cur[p], want[p]) THEN "match" ELSE "differ")
    /\ lock' = Unlocked(p)
    /\ UNCHANGED <<device, node, cur, want, retry, runs, crashes, Shared>>

\* A match keeps its descriptor, so that the device stays until the mount.
ShareFound(p) ==
    /\ pc[p] = "match"
    /\ Goto(p, "mount")
    /\ UNCHANGED <<device, node, lock, cur, want, retry, runs, crashes, Shared>>

ShareNext(p) ==
    /\ pc[p] = "differ"
    /\ device' = Closed(p, cur[p])
    /\ NextDevice(p)
    /\ Goto(p, "share")
    /\ UNCHANGED <<node, lock, want, retry, runs, crashes, Shared>>

\* openLoopDev fails, at the device or at its lock: the search goes on with
\* the next device.
ShareSkips(p) ==
    /\ MayFail /\ cur[p] \in Devices
    /\ \/ pc[p] = "share" /\ UNCHANGED device
       \/ pc[p] = "shareLock" /\ device' = Closed(p, cur[p])
    /\ NextDevice(p)
    /\ Goto(p, "share")
    /\ UNCHANGED <<node, lock, want, retry, runs, crashes, Shared>>

\* So it does when the status of the device cannot be read.
ShareUnread(p) ==
    /\ MayFail /\ pc[p] = "status"
    /\ Goto(p, "differ")
    /\ lock' = Unlocked(p)
    /\ UNCHANGED <<device, node, cur, want, retry, runs, crashes, Shared>>

ShareNone(p) ==
    /\ pc[p] = "share" /\ cur[p] = MaxLoopDevices
    /\ cur' = [cur EXCEPT ![p] = 0]
    /\ Goto(p, "attach")
    /\ UNCHANGED <<device, node, lock, want, retry, runs, crashes, Shared>>

-----------------------------------------------------------------------------
\* attachLoop: openLoopDev with the create function.  A device that is in
\* the kernel but has no node is removed and added again, which the kernel
\* refuses while it is in use: the create function then reports success and
\* the open that follows fails.  Where it falls back to mknod, the device
\* that is in use gets its node.  os.IsNotExist does not look into a wrapped
\* error, so every failure to open ends the search.
AttachOpen(p) ==
    /\ pc[p] = "attach" /\ cur[p] \in Devices
    /\ \/ /\ node' = [node EXCEPT ![cur[p]] = "present"]
          /\ Goto(p, IF Shared THEN "attachLock" ELSE "setFd")
       \/ /\ node[cur[p]] = "hidden" /\ device[cur[p]].file # None
          /\ Goto(p, "noOpen")
          /\ UNCHANGED node
       \/ /\ MayFail
          /\ Goto(p, "noOpen")
          /\ UNCHANGED node
    /\ UNCHANGED <<device, lock, cur, want, retry, runs, crashes, Shared>>

\* The lock of the device, or its open after the lock, fails.
AttachLockFails(p) ==
    /\ MayFail /\ pc[p] = "attachLock"
    /\ device' = Closed(p, cur[p])
    /\ Goto(p, "noOpen")
    /\ UNCHANGED <<node, lock, cur, want, retry, runs, crashes, Shared>>

\* A device that is taken, or that refuses the file for another reason, is
\* closed and the next one is tried.
SetFd(p) ==
    /\ pc[p] = "setFd"
    /\ \/ /\ device[cur[p]].file = None
          /\ device' = [device EXCEPT ![cur[p]] = [file |-> want[p].file, offset |-> 0,
                                                  ro |-> want[p].ro, auto |-> FALSE]]
          /\ Goto(p, "setStatus")
          /\ UNCHANGED <<lock, cur>>
       \/ /\ device[cur[p]].file # None \/ MayFail
          /\ device' = Closed(p, cur[p])
          /\ lock' = Unlocked(p)
          /\ NextDevice(p)
          /\ Goto(p, "attach")
    /\ UNCHANGED <<node, want, retry, runs, crashes, Shared>>

\* The lock is released once the status is set.
SetStatus(p) ==
    /\ pc[p] = "setStatus"
    /\ device' = [device EXCEPT ![cur[p]].offset = want[p].offset, ![cur[p]].auto = TRUE]
    /\ lock' = Unlocked(p)
    /\ Goto(p, "mount") /\ NoRetry(p)
    /\ UNCHANGED <<node, cur, want, runs, crashes, Shared>>

\* EAGAIN: retryFn sleeps, flushes at the sixth time, sleeps once more and
\* then gives up.
SetStatusAgain(p) ==
    /\ pc[p] = "setStatus" /\ MayFail
    /\ IF retry[p] < sleepRetries + 2
       THEN retry' = [retry EXCEPT ![p] = @ + 1] /\ UNCHANGED pc
       ELSE Goto(p, "clear") /\ NoRetry(p)
    /\ UNCHANGED <<device, node, lock, cur, want, runs, crashes, Shared>>

\* Another error of the status, of close-on-exec, or of the flush.
SetStatusFails(p) ==
    /\ pc[p] = "setStatus" /\ MayFail
    /\ Goto(p, "clear") /\ NoRetry(p)
    /\ UNCHANGED <<device, node, lock, cur, want, runs, crashes, Shared>>

\* releaseDevice: LOOP_CLR_FD only marks the device autoclear while
\* somebody else (or the lock's own descriptor) has it open.
ClearFd(p) ==
    /\ pc[p] = "clear"
    /\ device' = IF Shared \/ Openers(cur[p]) # {p}
                 THEN [device EXCEPT ![cur[p]].auto = TRUE]
                 ELSE [device EXCEPT ![cur[p]] = Free]
    /\ Goto(p, "release")
    /\ UNCHANGED <<node, lock, cur, want, retry, runs, crashes, Shared>>

ReleaseDevice(p) ==
    /\ pc[p] = "release"
    /\ device' = Closed(p, cur[p])
    /\ lock' = Unlocked(p)
    /\ Goto(p, "failed")
    /\ UNCHANGED <<node, cur, want, retry, runs, crashes, Shared>>

AttachNone(p) ==
    /\ pc[p] = "attach" /\ cur[p] = MaxLoopDevices
    /\ Goto(p, "noDevice")
    /\ UNCHANGED <<device, node, lock, cur, want, retry, runs, crashes, Shared>>

-----------------------------------------------------------------------------
\* The rest of mountImage mounts /dev/loopN by its number.
MountImage(p) ==
    /\ pc[p] = "mount"
    /\ Goto(p, "mounted")
    /\ UNCHANGED <<device, node, lock, cur, want, retry, runs, crashes, Shared>>

MountImageFails(p) ==
    /\ pc[p] = "mount" /\ MayFail
    /\ device' = Closed(p, cur[p])
    /\ Goto(p, "failed")
    /\ UNCHANGED <<node, lock, cur, want, retry, runs, crashes, Shared>>

\* p is gone; the next container has an RPC server of its own.
Gone(p) ==
    /\ lock' = Unlocked(p)
    /\ Goto(p, "idle") /\ NoRetry(p)
    /\ cur' = [cur EXCEPT ![p] = 0] /\ want' = [want EXCEPT ![p] = AnyView]

\* The container ends, its mount namespace and the RPC server with it.
Ends(p) ==
    /\ \/ pc[p] = "mounted" /\ device' = Closed(p, cur[p])
       \/ pc[p] \in {"noDevice", "noOpen", "failed"} /\ UNCHANGED device
    /\ Gone(p)
    /\ UNCHANGED <<node, runs, crashes, Shared>>

\* The processes of the container are killed anywhere.
Crash(p) ==
    /\ pc[p] \notin {"idle", "mounted"} /\ crashes < MaxCrashes
    /\ crashes' = crashes + 1
    /\ device' = IF \E d \in Devices : Opening(p, d) THEN Closed(p, cur[p]) ELSE device
    /\ Gone(p)
    /\ UNCHANGED <<node, runs, Shared>>

Step(p) ==
    \/ \E v \in Views : LoopDevice(p, v)
    \/ ShareOpen(p) \/ TakeLock(p) \/ ShareStatus(p) \/ ShareFound(p) \/ ShareNext(p)
    \/ ShareNone(p) \/ AttachOpen(p) \/ AttachLockFails(p) \/ SetFd(p) \/ SetStatus(p)
    \/ SetStatusAgain(p) \/ SetStatusFails(p) \/ ClearFd(p) \/ ReleaseDevice(p) \/ AttachNone(p)
    \/ MountImage(p) \/ MountImageFails(p) \/ Ends(p)

\* p passes a device that it could not look at.
Skips(p) == ShareSkips(p) \/ ShareUnread(p)

\* A device stays a candidate of a process while some container has it
\* mounted with the view of that process, until it could not look at it.
MountedAs(d, v) == Gives(d, v) /\ \E q \in Procs : pc[q] = "mounted" /\ cur[q] = d

Remember(p, passed) ==
    candidates' = [q \in Procs |->
        LET now == {d \in Devices : MountedAs(d, want[q])'}
        IN  IF pc[q] = "idle" /\ pc'[q] # "idle" THEN now
            ELSE {d \in candidates[q] \cap now : q = p => d \notin passed}]

Moves(p) == (Step(p) /\ Remember(p, {})) \/ (Skips(p) /\ Remember(p, {cur[p]}))

Next == \E p \in Procs : Moves(p) \/ (Crash(p) /\ Remember(p, {}))

Spec == Init /\ [][Next]_vars

-----------------------------------------------------------------------------
\* A container is only ever given, by the number that the search returned,
\* a device with its own file, offset and mode: nothing that other
\* processes do between the check of shareLoop (or the status of attachLoop)
\* and the mount, or during the mount, changes what it sees.
MountsItsImage ==
    \A p \in Procs : pc[p] \in {"mount", "mounted"} => Gives(cur[p], want[p])

\* A device that is bound and that no process has open has lost its owner
\* between LOOP_SET_FD and the status that marks it autoclear: there is at
\* most one per killed process, whatever fails and whoever else looks.
OrphansAreCrashes ==
    Cardinality({d \in Devices : device[d].file \notin {None, Foreign} /\ Openers(d) = {}}) <= crashes

\* With shared devices, a container whose image is mounted by another one
\* all through its search takes that device and binds no second one, unless
\* it could not open it, lock it or read its status.
SharesMounted ==
    Shared => \A p \in Procs : pc[p] = "setFd" => candidates[p] = {}

\* A container mounts its own image from a device that is given back: the above.
LoopsAreTheirs == TypeOK /\ MountsItsImage /\ OrphansAreCrashes /\ SharesMounted

Searching(p) == pc[p] \in {"share", "attach"}
Answered(p) == pc[p] \in {"idle", "mounted"}

\* Each process that asked for a device gets an answer, though it waits for
\* the locks of others.
SearchEnds == \A p \in Procs : Searching(p) ~> Answered(p)

GoesOn(p) == Moves(p) /\ ~Answered(p)
TakesLock(p) == TakeLock(p) /\ Remember(p, {})

\* The kernel wakes the waiters of a lock in turn.  Nothing makes a
\* container end.
FairSpec ==
    /\ Spec
    /\ \A p \in Procs :
         /\ WF_vars(GoesOn(p))
         /\ SF_vars(TakesLock(p))
=============================================================================
