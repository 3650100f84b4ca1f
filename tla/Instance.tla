------------------------------ MODULE Instance ------------------------------
(***************************************************************************)
(* The registry of instances: one file per name, written by the master     *)
(* that runs the instance and read by every command that names one         *)
(* (internal/pkg/instance/instance_linux.go).  The model has one name.     *)
(*                                                                         *)
(* There is no lock.  instance.Get is List: it opens and decodes the file, *)
(* asks whether the recorded master is alive, and removes the directory if *)
(* it is not; another process can act between any two of these.            *)
(***************************************************************************)
EXTENDS Integers

CONSTANTS
    Masters,    \* "instance start" commands, each with the master it becomes
    Listers,    \* processes running "instance list"
    MaxFaults   \* bound: masters killed, and writes of the file that fail

NoFile == [ino |-> 0, owner |-> "none"]
Partial == "partial"    \* the content of a file that is truncated, not written

VARIABLES
    file,       \* the instance file: an inode and whose data it holds
    inodes,     \* inodes used so far
    at,         \* the phase of each process
    get,        \* where it is in instance.List, when its phase calls it
    seen,       \* the content it has decoded
    mine,       \* the inode a master has opened for its data
    faults,
    overlap,    \* history: two starts of the name were under way at once
    stale       \* history: a list deleted another file than the one it had read

vars == <<file, inodes, at, get, seen, mine, faults, overlap, stale>>

Procs == Masters \cup Listers
Calling == {"launch", "add", "clean", "list"}
Starting == {"launch", "create", "add", "open", "write"}
Contents == Masters \cup {Partial, "none"}

TypeOK ==
    /\ file \in [ino : 1..inodes, owner : Masters \cup {Partial}] \cup {NoFile}
    /\ inodes \in Nat
    /\ at \in [Procs -> Calling \cup Starting \cup {"idle", "up", "delete", "dead", "failed"}]
    /\ get \in [Procs -> {"read", "check", "ghost"}]
    /\ seen \in [Procs -> Contents]
    /\ mine \in [Masters -> 0..inodes]
    /\ faults \in 0..MaxFaults
    /\ overlap \in BOOLEAN /\ stale \in BOOLEAN

Init ==
    /\ file = NoFile
    /\ inodes = 0
    /\ at = [p \in Procs |-> "idle"]
    /\ get = [p \in Procs |-> "read"]
    /\ seen = [p \in Procs |-> "none"]
    /\ mine = [m \in Masters |-> 0]
    /\ faults = 0
    /\ overlap = FALSE /\ stale = FALSE

\* Kill(PPid, 0) and the command line: the recorded process is still a master.
\* It is from the moment the starter runs until the master has exited.
Alive(m) == at[m] \in {"create", "add", "open", "write", "up", "clean", "delete"}

\* The start command has not returned: it waits for SIGUSR1, or for the end of a
\* master that failed.
Busy(m) ==
    at[m] \in Starting \/ (at[m] \in {"clean", "delete"} /\ mine[m] = 0)

Goto(p, l) == at' = [at EXCEPT ![p] = l] /\ get' = [get EXCEPT ![p] = "read"]

-----------------------------------------------------------------------------
(***************************************************************************)
(* instance.List for the name, called in the phases Calling.               *)
(***************************************************************************)
\* Open and decode; a truncated file does not decode.
ListRead(p) ==
    /\ at[p] \in Calling /\ get[p] = "read"
    /\ seen' = [seen EXCEPT ![p] = file.owner]
    /\ get' = [get EXCEPT ![p] = "check"]
    /\ UNCHANGED <<file, inodes, at, mine, faults, overlap, stale>>

\* What each caller does with the result.  Only a nil error means "found": an
\* undecodable file reads as no instance to the launcher and to Add.
Return(p, found) ==
    CASE at[p] = "launch" -> Goto(p, IF found THEN "failed" ELSE "create")
      [] at[p] = "add"    -> Goto(p, IF found THEN "clean" ELSE "open")
      [] at[p] = "clean"  -> Goto(p, IF found THEN "delete" ELSE "dead")
      [] at[p] = "list"   -> Goto(p, "idle")

\* Mutant: isExited reports a live instance as exited.
ListCheckExited(p) ==
    /\ at[p] \in Calling /\ get[p] = "check"
    /\ IF seen[p] \in Masters
       THEN get' = [get EXCEPT ![p] = "ghost"] /\ UNCHANGED at
       ELSE Return(p, FALSE)
    /\ UNCHANGED <<file, inodes, seen, mine, faults, overlap, stale>>

\* isExited, for a file that was decoded.
ListCheck(p) ==
    /\ at[p] \in Calling /\ get[p] = "check"
    /\ IF seen[p] \in Masters /\ ~Alive(seen[p])
       THEN get' = [get EXCEPT ![p] = "ghost"] /\ UNCHANGED at
       ELSE Return(p, seen[p] \in Masters)
    /\ UNCHANGED <<file, inodes, seen, mine, faults, overlap, stale>>

\* "delete ghost apptainer instance files": by path, whatever is there now.
ListGhost(p) ==
    /\ at[p] \in Calling /\ get[p] = "ghost"
    /\ file' = NoFile
    /\ stale' = (stale \/ file.owner # seen[p])
    /\ Return(p, FALSE)
    /\ UNCHANGED <<inodes, seen, mine, faults, overlap>>

List(p) == ListRead(p) \/ ListCheck(p) \/ ListGhost(p)

-----------------------------------------------------------------------------
\* "instance list" is run.
RunList(l) ==
    /\ at[l] = "idle"
    /\ Goto(l, "list")
    /\ UNCHANGED <<file, inodes, seen, mine, faults, overlap, stale>>

\* "instance start" is run; the launcher calls Get.
Launch(m) ==
    /\ at[m] = "idle"
    /\ overlap' = (overlap \/ \E n \in Masters : Busy(n))
    /\ Goto(m, "launch")
    /\ UNCHANGED <<file, inodes, seen, mine, faults, stale>>

\* The container is created and started, or the master cleans up.
Create(m) ==
    /\ at[m] = "create"
    /\ \E l \in {"add", "clean"} : Goto(m, l)
    /\ UNCHANGED <<file, inodes, seen, mine, faults, overlap, stale>>

\* file.Update: O_CREATE|O_TRUNC on the path ...
Open(m) ==
    /\ at[m] = "open"
    /\ \/ /\ LET i == IF file = NoFile THEN inodes + 1 ELSE file.ino
             IN /\ file' = [ino |-> i, owner |-> Partial]
                /\ inodes' = IF file = NoFile THEN i ELSE inodes
                /\ mine' = [mine EXCEPT ![m] = i]
          /\ Goto(m, "write")
       \/ Goto(m, "clean") /\ UNCHANGED <<file, inodes, mine>>
    /\ UNCHANGED <<seen, faults, overlap, stale>>

\* ... and the data, into the inode that was opened; then SIGUSR1 and the start
\* command returns.
Write(m) ==
    /\ at[m] = "write"
    /\ file' = IF file.ino = mine[m] THEN [file EXCEPT !.owner = m] ELSE file
    /\ Goto(m, "up")
    /\ UNCHANGED <<inodes, seen, mine, faults, overlap, stale>>

\* The write fails, or the Sync after it: the start is fatal.
WriteFails(m) ==
    /\ at[m] = "write" /\ faults < MaxFaults
    /\ faults' = faults + 1
    /\ \/ UNCHANGED file
       \/ file.ino = mine[m] /\ file' = [file EXCEPT !.owner = m]
    /\ mine' = [mine EXCEPT ![m] = 0]
    /\ Goto(m, "clean")
    /\ UNCHANGED <<inodes, seen, overlap, stale>>

\* The container ends; CleanupContainer calls Get.
End(m) ==
    /\ at[m] = "up"
    /\ Goto(m, "clean")
    /\ UNCHANGED <<file, inodes, seen, mine, faults, overlap, stale>>

\* file.Delete of CleanupContainer, by path, and the master exits.
Delete(m) ==
    /\ at[m] = "delete"
    /\ file' = NoFile
    /\ Goto(m, "dead")
    /\ UNCHANGED <<inodes, seen, mine, faults, overlap, stale>>

\* A master is killed.
Crash(m) ==
    /\ Alive(m) /\ faults < MaxFaults
    /\ faults' = faults + 1
    /\ Goto(m, "dead")
    /\ UNCHANGED <<file, inodes, seen, mine, overlap, stale>>

MasterStep(m) ==
    \/ Launch(m) \/ Create(m) \/ Open(m) \/ Write(m) \/ WriteFails(m)
    \/ End(m) \/ Delete(m) \/ Crash(m)

Next ==
    \/ \E m \in Masters : MasterStep(m)
    \/ \E l \in Listers : RunList(l)
    \/ \E p \in Procs : List(p)

Spec == Init /\ [][Next]_vars

\* The steps of a master that wait for nobody.
OwnStep(m) == Create(m) \/ Open(m) \/ Write(m) \/ Delete(m)

\* A command that runs makes progress, and somebody lists instances now and then.
FairSpec ==
    /\ Spec
    /\ \A p \in Procs : WF_vars(List(p))
    /\ \A l \in Listers : WF_vars(RunList(l))
    /\ \A m \in Masters : WF_vars(OwnStep(m))

-----------------------------------------------------------------------------
(***************************************************************************)
(* Properties.                                                             *)
(***************************************************************************)

\* An instance whose start command has returned is on file until its master
\* cleans up: "The instance list command allows you to view the Apptainer
\* container instances that are currently running in the background"
\* (docs/content.go:547-549).  Two things alone can take its file away, since
\* nothing is locked: a start of the same name at the same time
\* (instance_linux.go:149) and a list that deletes the ghost of an earlier
\* instance by path when the new file is already there (instance_linux.go:192).
LiveIsListed ==
    ~overlap /\ ~stale => \A m \in Masters : at[m] = "up" => file.owner = m

\* When every master has gone, each by its own cleanup, no file is left, in
\* whatever order starts, failed starts and "instance list" interleaved.
EndedUnlisted ==
    (faults = 0 /\ ~overlap /\ \A m \in Masters : at[m] \in {"idle", "failed", "dead"}) =>
        file = NoFile

\* The registry says what runs: the two above.
RegistryIsTrue == TypeOK /\ LiveIsListed /\ EndedUnlisted

\* A dead master has a complete file.
Ghost(m) == file.owner = m /\ at[m] = "dead"

\* The file of a killed master is collected by the next commands that look for
\* instances, once it was complete (instance_linux.go:190-194).  A file that was
\* truncated and not written does not decode and is not collected.
GhostCollected == \A m \in Masters : Ghost(m) ~> ~Ghost(m)

=============================================================================
