------------------------------ MODULE ShareNS -------------------------------
(***************************************************************************)
(* --sharens: the commands of one parent share one container.  The first   *)
(* to lock a file in /dev/shm starts it, the others join it; the first one *)
(* waits for them before it tears it down (shareNSLaunch in                *)
(* cmd/internal/cli/actions.go, PostStartProcess and CleanupContainer of   *)
(* the engine).  Locks are open-file-description locks: they belong to the *)
(* inode that was opened, which the path may no longer name.               *)
(***************************************************************************)
EXTENDS Integers, FiniteSets

CONSTANTS
    Procs,      \* the commands with --sharens of one parent
    None,
    MaxFails    \* bound: first commands that fail to create their container

VARIABLES
    at,         \* the step each command is at
    path,       \* the inode of the lock file; 0 if there is none
    inodes,     \* inodes used so far
    marked,     \* inodes that hold the byte a successful first command writes
    ino,        \* the inode a command has opened
    lk,         \* the lock it holds on it
    excl,       \* it created the file: O_EXCL
    instance,   \* whose instance file there is
    joined,     \* whose container a command has joined
    fails,
    overlap     \* history: a lock file was created while an earlier one was in use

vars == <<at, path, inodes, marked, ino, lk, excl, instance, joined, fails, overlap>>

TypeOK ==
    /\ at \in [Procs -> {"open", "reopen", "lock", "rlock", "get", "join", "joined", "launch",
                         "create", "record", "release", "up", "lockw", "close", "unlink",
                         "teardown", "delete", "done", "failed"}]
    /\ path \in 0..inodes /\ inodes \in Nat
    /\ marked \subseteq 1..inodes
    /\ ino \in [Procs -> 0..inodes]
    /\ lk \in [Procs -> {"none", "read", "write"}]
    /\ \A p, q \in Procs : (p # q /\ lk[p] = "write" /\ lk[q] # "none") => ino[p] # ino[q]
    /\ excl \in [Procs -> BOOLEAN]
    /\ instance \in Procs \cup {None}
    /\ joined \in [Procs -> Procs \cup {None}]
    /\ fails \in 0..MaxFails
    /\ overlap \in BOOLEAN

Init ==
    /\ at = [p \in Procs |-> "open"]
    /\ path = 0 /\ inodes = 0 /\ marked = {}
    /\ ino = [p \in Procs |-> 0]
    /\ lk = [p \in Procs |-> "none"]
    /\ excl = [p \in Procs |-> FALSE]
    /\ instance = None
    /\ joined = [p \in Procs |-> None]
    /\ fails = 0
    /\ overlap = FALSE

Goto(p, l) == at' = [at EXCEPT ![p] = l]

\* A lock of this kind can be had on the inode that p has open.
Free(p, kind) ==
    \A q \in Procs \ {p} :
        ino[q] = ino[p] => IF kind = "write" THEN lk[q] = "none" ELSE lk[q] # "write"

\* The process ends and its descriptors are closed.
Exit(p, l) == Goto(p, l) /\ lk' = [lk EXCEPT ![p] = "none"]

\* Where a command has no lock file open yet, or has ended.
Outside == {"open", "reopen", "done", "failed"}

-----------------------------------------------------------------------------
\* O_CREAT|O_EXCL ...
Open(p) ==
    /\ at[p] = "open"
    /\ overlap' = (overlap \/ (path = 0 /\ \E q \in Procs : at[q] \notin Outside))
    /\ IF path = 0
       THEN /\ path' = inodes + 1 /\ inodes' = inodes + 1
            /\ ino' = [ino EXCEPT ![p] = inodes + 1]
            /\ excl' = [excl EXCEPT ![p] = TRUE]
            /\ Goto(p, "lock")
       ELSE Goto(p, "reopen") /\ UNCHANGED <<path, inodes, ino, excl>>
    /\ UNCHANGED <<marked, lk, instance, joined, fails>>

\* ... and a second open if the file exists, which fails if it is gone by then.
Reopen(p) ==
    /\ at[p] = "reopen"
    /\ IF path = 0 THEN Goto(p, "failed") /\ UNCHANGED ino
       ELSE Goto(p, "lock") /\ ino' = [ino EXCEPT ![p] = path]
    /\ UNCHANGED <<path, inodes, marked, lk, excl, instance, joined, fails, overlap>>

\* Mutant: whoever created the file is the first, whoever has the lock.
LockExcl(p) ==
    /\ at[p] = "lock"
    /\ lk' = [lk EXCEPT ![p] = IF Free(p, "write") THEN "write" ELSE @]
    /\ Goto(p, IF excl[p] \/ (Free(p, "write") /\ ino[p] \notin marked)
               THEN "launch" ELSE "rlock")
    /\ UNCHANGED <<path, inodes, marked, ino, excl, instance, joined, fails, overlap>>

\* br.Lock: the first is who gets the lock, of a file without the byte.
Lock(p) ==
    /\ at[p] = "lock"
    /\ IF Free(p, "write")
       THEN /\ lk' = [lk EXCEPT ![p] = "write"]
            /\ Goto(p, IF ~excl[p] /\ ino[p] \in marked THEN "rlock" ELSE "launch")
       ELSE Goto(p, "rlock") /\ UNCHANGED lk
    /\ UNCHANGED <<path, inodes, marked, ino, excl, instance, joined, fails, overlap>>

\* br.RLockw blocks; it converts a write lock of this process.
RLock(p) ==
    /\ at[p] = "rlock" /\ Free(p, "read")
    /\ lk' = [lk EXCEPT ![p] = "read"]
    /\ Goto(p, "get")
    /\ UNCHANGED <<path, inodes, marked, ino, excl, instance, joined, fails, overlap>>

\* instance.Get: "first process with --sharens has already exited".
GetInstance(p) ==
    /\ at[p] = "get"
    /\ IF instance = None THEN Exit(p, "failed") ELSE Goto(p, "join") /\ UNCHANGED lk
    /\ UNCHANGED <<path, inodes, marked, ino, excl, instance, joined, fails, overlap>>

\* Joining instance://: prepareInstanceJoinConfig gets the instance again and needs
\* its container process alive.
Join(p) ==
    /\ at[p] = "join"
    /\ IF instance # None /\ at[instance] \in {"release", "up"}
       THEN joined' = [joined EXCEPT ![p] = instance] /\ Goto(p, "joined") /\ UNCHANGED lk
       ELSE Exit(p, "failed") /\ UNCHANGED joined
    /\ UNCHANGED <<path, inodes, marked, ino, excl, instance, fails, overlap>>

JoinedEnds(p) ==
    /\ at[p] = "joined"
    /\ Exit(p, "done")
    /\ UNCHANGED <<path, inodes, marked, ino, excl, instance, joined, fails, overlap>>

-----------------------------------------------------------------------------
\* The first: (*Launcher).Exec refuses a name that is on file.  The lock file stays.
Launch(p) ==
    /\ at[p] = "launch"
    /\ IF instance = None THEN Goto(p, "create") /\ UNCHANGED lk ELSE Exit(p, "failed")
    /\ UNCHANGED <<path, inodes, marked, ino, excl, instance, joined, fails, overlap>>

Create(p) ==
    /\ at[p] = "create"
    /\ \/ Goto(p, "record") /\ UNCHANGED fails
       \/ fails < MaxFails /\ fails' = fails + 1 /\ Goto(p, "lockw")
    /\ UNCHANGED <<path, inodes, marked, ino, lk, excl, instance, joined, overlap>>

\* PostStartProcess: instance.Add and Update ...
Record(p) ==
    /\ at[p] = "record"
    /\ IF instance = None THEN instance' = p /\ Goto(p, "release")
                          ELSE UNCHANGED instance /\ Goto(p, "lockw")
    /\ UNCHANGED <<path, inodes, marked, ino, lk, excl, joined, fails, overlap>>

\* ... then one byte into the lock file, and Unlock.
Release(p) ==
    /\ at[p] = "release"
    /\ marked' = marked \cup {ino[p]}
    /\ lk' = [lk EXCEPT ![p] = "none"]
    /\ Goto(p, "up")
    /\ UNCHANGED <<path, inodes, ino, excl, instance, joined, fails, overlap>>

\* Its container process ends, and CleanupContainer runs.
Ends(p) ==
    /\ at[p] = "up"
    /\ Goto(p, "lockw")
    /\ UNCHANGED <<path, inodes, marked, ino, lk, excl, instance, joined, fails, overlap>>

\* "wait all other processes first": br.Lockw.
LockW(p) ==
    /\ at[p] = "lockw" /\ Free(p, "write")
    /\ lk' = [lk EXCEPT ![p] = "write"]
    /\ Goto(p, "close")
    /\ UNCHANGED <<path, inodes, marked, ino, excl, instance, joined, fails, overlap>>

\* The path of the descriptor is read, and the descriptor closed.  The path of an
\* inode that was unlinked is not a path.
Close(p) ==
    /\ at[p] = "close"
    /\ Exit(p, IF path = ino[p] THEN "unlink" ELSE "teardown")
    /\ UNCHANGED <<path, inodes, marked, ino, excl, instance, joined, fails, overlap>>

Unlink(p) ==
    /\ at[p] = "unlink"
    /\ path' = 0
    /\ Goto(p, "teardown")
    /\ UNCHANGED <<inodes, marked, ino, lk, excl, instance, joined, fails, overlap>>

\* stopFuseDrivers, umount, the temporary image, network, cgroup.
Teardown(p) ==
    /\ at[p] = "teardown"
    /\ Goto(p, "delete")
    /\ UNCHANGED <<path, inodes, marked, ino, lk, excl, instance, joined, fails, overlap>>

\* instance.Get and Delete, by name.
Delete(p) ==
    /\ at[p] = "delete"
    /\ instance' = None
    /\ Goto(p, "done")
    /\ UNCHANGED <<path, inodes, marked, ino, lk, excl, joined, fails, overlap>>

Step(p) ==
    \/ Open(p) \/ Reopen(p) \/ Lock(p) \/ RLock(p) \/ GetInstance(p) \/ Join(p)
    \/ JoinedEnds(p) \/ Launch(p) \/ Create(p) \/ Record(p) \/ Release(p) \/ Ends(p)
    \/ LockW(p) \/ Close(p) \/ Unlink(p) \/ Teardown(p) \/ Delete(p)

Next == \E p \in Procs : Step(p)

Spec == Init /\ [][Next]_vars

\* Every process runs on unless it waits for a lock, and containers end.
FairSpec == Spec /\ \A p \in Procs : WF_vars(Step(p))

-----------------------------------------------------------------------------
(***************************************************************************)
(* Properties.                                                             *)
(***************************************************************************)

\* The locks belong to inodes and the instance to a name (actions.go:396-438): the
\* next two hold until a lock file is created while commands of an unlinked one are
\* still under way, and the first until a first command fails to create its
\* container, whose cleanup deletes by name as well.

\* At most one command of the parent has a container of its own: "multiple
\* apptainer instances created by the same parent using the same image in the
\* same user namespace" (CHANGELOG.md:662-664).  Its file stays until its own command
\* deletes it, so that the commands that wait for it find it.
OneContainerOnFile ==
    ~overlap /\ fails = 0 =>
        /\ Cardinality({p \in Procs : at[p] \in {"create", "record", "release", "up"}}) <= 1
        /\ \A p \in Procs : at[p] = "up" => instance = p

\* "wait all other processes first" (cleanup_linux.go:50): the first command does
\* not take the mounts from under a command that has joined it.
JoinedIsHeld ==
    ~overlap => \A p \in Procs : at[p] = "joined" => at[joined[p]] \notin {"delete", "done"}

\* The commands share one container, and keep it: the two above.
ContainerIsShared == TypeOK /\ OneContainerOnFile /\ JoinedIsHeld

\* No command waits for ever: not the others for a first one that failed, not the
\* first one for the others.
NobodyWaits == \A p \in Procs : at[p] \in {"done", "failed"}
AllEnd == <>NobodyWaits

=============================================================================
