---------------------------- MODULE MasterProofs ----------------------------
(***************************************************************************)
(* Proofs about Master, for every capacity of the signals channel, every   *)
(* number of signals, every set of resources and of exit statuses.         *)
(***************************************************************************)
EXTENDS Master, TLAPS

\* What the master knows once the monitor has reaped the container.
Reported == cont = "gone" /\ wstatus \in ExitStatuses /\ status = wstatus

\* The exit code: a nil on fatalChan is the word of a monitor that has reaped
\* the container.
ExitInv ==
    /\ cont = "zombie" => wstatus \in ExitStatuses
    /\ (pc.monitor = "send" /\ result = "nil") => Reported
    /\ pc.monitor \in {"load", "wait"} => result = "nil"
    /\ fatalChan = "nil" => Reported
    /\ fatal = "nil" => Reported
    /\ ~Alive => exit = IF fatal # "nil" THEN 255 ELSE ExitCode(status)

\* The instance file: written once, by startContainer, after stage 2 closed the
\* socket without the byte "f".
FileInv ==
    /\ pc.start \in {"open", "read", "post", "truncate"} =>
           file = "absent" /\ ~recorded /\ ~usr1
    /\ pc.start = "write" => file = "partial" /\ ~recorded /\ ~usr1
    /\ pc.start = "detach" => recorded
    /\ file = "written" => recorded
    /\ pc.main = "instDelete" => recorded
    /\ usr1 => recorded
    /\ sock # "eof" =>
           /\ pc.start \in {"open", "read", "fail", "done"}
           /\ file = "absent" /\ ~recorded /\ ~usr1
    /\ parent = 0 => recorded \/ exit = 0

\* The resources: what exists was asked for, the globals refer to all of it once
\* creation has returned, and the cleanup has dealt with what it has passed.
Dealt(r) == r \in held => r \in failed

ResourceInv ==
    /\ held \subseteq Resources
    /\ pc.create \in {"mount", "network", "cgroup", "manager"} =>
           Resources \cap {"mounts", "network"} \subseteq known
    /\ pc.create = "close" \/ ~rpc => Resources \subseteq known
    /\ ~rpc => pc.create = "done"
    /\ settled => ~rpc
    /\ settled /\ pc.main \notin {"recv", "umount"} => Dealt("mounts")
    /\ settled /\ pc.main \notin {"recv", "umount", "delnet"} => Dealt("network")
    /\ settled /\ pc.main \notin {"recv", "umount", "delnet", "destroy"} =>
           Dealt("cgroup")
    /\ ~Alive <=> pc.main = "exited"

Inv == TypeOK /\ ExitInv /\ FileInv /\ ResourceInv

-----------------------------------------------------------------------------
\* An exit code is a byte, and so never Running.
LEMMA ExitCodeRange ==
    ASSUME NEW st \in WaitStatus PROVE ExitCode(st) \in 0..255
<1>1. CASE st \in [kind : {"exited"}, code : 0..255]
    BY <1>1 DEF ExitCode
<1>2. CASE st \in [kind : {"signaled"}, code : 1..64]
    BY <1>2 DEF ExitCode
<1> QED
    BY <1>1, <1>2 DEF WaitStatus

\* Init establishes the invariant: nothing has happened yet.
LEMMA InitInv == Init => Inv
<1> SUFFICES ASSUME Init PROVE Inv
    OBVIOUS
<1>1. TypeOK
  <2>1. status \in WaitStatus
    BY DEF Init, Exited, WaitStatus
  <2>2. signals \in Seq(Signals) /\ Len(signals) <= SigCap
    BY MasterAssumption DEF Init
  <2>3. pc \in [create : CreatePC, start : StartPC,
               monitor : MonitorPC, main : MainPC]
    BY DEF Init, CreatePC, StartPC, MonitorPC, MainPC
  <2>4. exit \in Running..255 /\ parent \in Running..255
    BY DEF Init, Running
  <2>5. /\ rpc \in BOOLEAN /\ settled \in BOOLEAN
        /\ recorded \in BOOLEAN /\ usr1 \in BOOLEAN
    BY Zenon DEF Init
  <2>6. sent \in 0..MaxSignals
    BY MasterAssumption DEF Init
  <2> QED
    BY <2>1, <2>2, <2>3, <2>4, <2>5, <2>6 DEF Init, TypeOK
<1>2. ExitInv /\ FileInv /\ ResourceInv
    BY DEF Init, ExitInv, FileInv, ResourceInv, Dealt, Alive, Running
<1> QED
    BY <1>1, <1>2 DEF Inv

\* Steps of createContainer: the RPC connection and the resources.
LEMMA CreateInv == Inv /\ CreateContainer => Inv'
<1> SUFFICES ASSUME Inv, CreateContainer PROVE Inv'
    OBVIOUS
<1> USE MasterAssumption DEF Alive, Running
<1>1. CASE CreateOpen
  <2>1. TypeOK'
    BY <1>1 DEF Inv, TypeOK, CreateOpen, CreateUnchanged, Goto, CreatePC,
        AllResources
  <2>2. ExitInv'
    BY <1>1 DEF Inv, TypeOK, CreateOpen, CreateUnchanged, Goto, ExitInv,
        Reported
  <2>3. FileInv'
    BY <1>1 DEF Inv, TypeOK, CreateOpen, CreateUnchanged, Goto, FileInv
  <2>4. ResourceInv'
    BY <1>1 DEF Inv, TypeOK, CreateOpen, CreateUnchanged, Goto, ResourceInv,
        Dealt, AllResources
  <2> QED
    BY <2>1, <2>2, <2>3, <2>4 DEF Inv
<1>2. CASE CreatePrepare
  <2>1. TypeOK'
    <3>1. pc' \in [create : CreatePC, start : StartPC,
                   monitor : MonitorPC, main : MainPC]
        BY <1>2 DEF Inv, TypeOK, CreatePrepare, Goto, CreatePC
    <3>2. known' \subseteq AllResources
        BY <1>2 DEF Inv, TypeOK, CreatePrepare
    <3> QED
        BY <1>2, <3>1, <3>2 DEF Inv, TypeOK, CreatePrepare, CreateUnchanged
  <2>2. ExitInv'
    BY <1>2 DEF Inv, TypeOK, CreatePrepare, CreateUnchanged, Goto, ExitInv,
        Reported
  <2>3. FileInv'
    BY <1>2 DEF Inv, TypeOK, CreatePrepare, CreateUnchanged, Goto, FileInv
  <2>4. ResourceInv'
    BY <1>2 DEF Inv, TypeOK, CreatePrepare, CreateUnchanged, Goto, ResourceInv,
        Dealt, AllResources
  <2> QED
    BY <2>1, <2>2, <2>3, <2>4 DEF Inv
<1>3. CASE CreateMount
  <2>1. TypeOK'
    <3>1. pc' \in [create : CreatePC, start : StartPC,
                   monitor : MonitorPC, main : MainPC]
        BY <1>3 DEF Inv, TypeOK, CreateMount, Acquire, Goto, CreatePC
    <3>2. held' \subseteq AllResources
        BY Zenon, <1>3 DEF Inv, TypeOK, CreateMount, Acquire
    <3> QED
        BY <1>3, <3>1, <3>2 DEF Inv, TypeOK, CreateMount, Acquire,
            CreateUnchanged
  <2>2. ExitInv'
    BY <1>3 DEF Inv, TypeOK, CreateMount, Acquire, CreateUnchanged, Goto,
        ExitInv, Reported
  <2>3. FileInv'
    BY <1>3 DEF Inv, TypeOK, CreateMount, Acquire, CreateUnchanged, Goto,
        FileInv
  <2>4. ResourceInv'
    <3>1. held' \subseteq Resources
        BY Zenon, <1>3 DEF Inv, ResourceInv, CreateMount, Acquire
    <3>2. rpc /\ ~settled
        BY <1>3 DEF Inv, ResourceInv, CreateMount, Acquire
    <3>3. pc'.create \in {"network", "fail"} /\ pc'.main = pc.main
        BY <1>3 DEF Inv, TypeOK, CreateMount, Acquire, Goto
    <3>4. UNCHANGED <<rpc, known, settled, exit>>
        BY <1>3 DEF CreateMount, Acquire, CreateUnchanged
    <3> QED
        BY <1>3, <3>1, <3>2, <3>3, <3>4 DEF Inv, ResourceInv, CreateMount, Acquire, Alive
  <2> QED
    BY <2>1, <2>2, <2>3, <2>4 DEF Inv
<1>4. CASE CreateNetwork
  <2>1. TypeOK'
    <3>1. pc' \in [create : CreatePC, start : StartPC,
                   monitor : MonitorPC, main : MainPC]
        BY <1>4 DEF Inv, TypeOK, CreateNetwork, Acquire, Goto, CreatePC
    <3>2. held' \subseteq AllResources
        BY Zenon, <1>4 DEF Inv, TypeOK, CreateNetwork, Acquire
    <3> QED
        BY <1>4, <3>1, <3>2 DEF Inv, TypeOK, CreateNetwork, Acquire,
            CreateUnchanged
  <2>2. ExitInv'
    BY <1>4 DEF Inv, TypeOK, CreateNetwork, Acquire, CreateUnchanged, Goto,
        ExitInv, Reported
  <2>3. FileInv'
    BY <1>4 DEF Inv, TypeOK, CreateNetwork, Acquire, CreateUnchanged, Goto,
        FileInv
  <2>4. ResourceInv'
    <3>1. held' \subseteq Resources
        BY Zenon, <1>4 DEF Inv, ResourceInv, CreateNetwork, Acquire
    <3>2. rpc /\ ~settled
        BY <1>4 DEF Inv, ResourceInv, CreateNetwork, Acquire
    <3>3. pc'.create \in {"cgroup", "fail"} /\ pc'.main = pc.main
        BY <1>4 DEF Inv, TypeOK, CreateNetwork, Acquire, Goto
    <3>4. UNCHANGED <<rpc, known, settled, exit>>
        BY <1>4 DEF CreateNetwork, Acquire, CreateUnchanged
    <3> QED
        BY <1>4, <3>1, <3>2, <3>3, <3>4 DEF Inv, ResourceInv, CreateNetwork, Acquire, Alive
  <2> QED
    BY <2>1, <2>2, <2>3, <2>4 DEF Inv
<1>5. CASE CreateCgroup
  <2>1. TypeOK'
    <3>1. pc' \in [create : CreatePC, start : StartPC,
                   monitor : MonitorPC, main : MainPC]
        BY <1>5 DEF Inv, TypeOK, CreateCgroup, Acquire, Goto, CreatePC
    <3>2. held' \subseteq AllResources
        BY Zenon, <1>5 DEF Inv, TypeOK, CreateCgroup, Acquire
    <3> QED
        BY <1>5, <3>1, <3>2 DEF Inv, TypeOK, CreateCgroup, Acquire,
            CreateUnchanged
  <2>2. ExitInv'
    BY <1>5 DEF Inv, TypeOK, CreateCgroup, Acquire, CreateUnchanged, Goto,
        ExitInv, Reported
  <2>3. FileInv'
    BY <1>5 DEF Inv, TypeOK, CreateCgroup, Acquire, CreateUnchanged, Goto,
        FileInv
  <2>4. ResourceInv'
    <3>1. held' \subseteq Resources
        BY Zenon, <1>5 DEF Inv, ResourceInv, CreateCgroup, Acquire
    <3>2. rpc /\ ~settled
        BY <1>5 DEF Inv, ResourceInv, CreateCgroup, Acquire
    <3>3. pc'.create \in {"manager", "fail"} /\ pc'.main = pc.main
        BY <1>5 DEF Inv, TypeOK, CreateCgroup, Acquire, Goto
    <3>4. UNCHANGED <<rpc, known, settled, exit>>
        BY <1>5 DEF CreateCgroup, Acquire, CreateUnchanged
    <3> QED
        BY <1>5, <3>1, <3>2, <3>3, <3>4 DEF Inv, ResourceInv, CreateCgroup, Acquire, Alive
  <2> QED
    BY <2>1, <2>2, <2>3, <2>4 DEF Inv
<1>6. CASE CreateManager
  <2>1. TypeOK'
    BY <1>6 DEF Inv, TypeOK, CreateManager, CreateUnchanged, Goto, CreatePC,
        AllResources
  <2>2. ExitInv'
    BY <1>6 DEF Inv, TypeOK, CreateManager, CreateUnchanged, Goto, ExitInv,
        Reported
  <2>3. FileInv'
    BY <1>6 DEF Inv, TypeOK, CreateManager, CreateUnchanged, Goto, FileInv
  <2>4. ResourceInv'
    BY <1>6 DEF Inv, TypeOK, CreateManager, CreateUnchanged, Goto, ResourceInv,
        Dealt, AllResources
  <2> QED
    BY <2>1, <2>2, <2>3, <2>4 DEF Inv
<1>7. CASE CreateClose
  <2>1. TypeOK'
    <3>1. pc' \in [create : CreatePC, start : StartPC,
                   monitor : MonitorPC, main : MainPC]
        BY <1>7 DEF Inv, TypeOK, CreateClose, Goto, CreatePC
    <3>2. rpc' \in BOOLEAN
        BY Zenon, <1>7 DEF Inv, TypeOK, CreateClose
    <3> QED
        BY <1>7, <3>1, <3>2 DEF Inv, TypeOK, CreateClose, CreateUnchanged
  <2>2. ExitInv'
    BY <1>7 DEF Inv, TypeOK, CreateClose, CreateUnchanged, Goto, ExitInv,
        Reported
  <2>3. FileInv'
    BY <1>7 DEF Inv, TypeOK, CreateClose, CreateUnchanged, Goto, FileInv
  <2>4. ResourceInv'
    BY <1>7 DEF Inv, TypeOK, CreateClose, CreateUnchanged, Goto, ResourceInv,
        Dealt, AllResources
  <2> QED
    BY <2>1, <2>2, <2>3, <2>4 DEF Inv
<1>8. CASE CreateFail
  <2>1. TypeOK'
    BY <1>8 DEF Inv, TypeOK, CreateFail, SendFatal, Goto, CreatePC,
        AllResources, Errors
  <2>2. ExitInv'
    BY <1>8 DEF Inv, TypeOK, CreateFail, SendFatal, Goto, ExitInv, Reported
  <2>3. FileInv'
    BY <1>8 DEF Inv, TypeOK, CreateFail, SendFatal, Goto, FileInv
  <2>4. ResourceInv'
    BY <1>8 DEF Inv, TypeOK, CreateFail, SendFatal, Goto, ResourceInv, Dealt,
        AllResources
  <2> QED
    BY <2>1, <2>2, <2>3, <2>4 DEF Inv
<1> QED
    BY <1>1, <1>2, <1>3, <1>4, <1>5, <1>6, <1>7, <1>8 DEF CreateContainer

\* Steps of startContainer: the instance file and SIGUSR1.
LEMMA StartInv == Inv /\ StartContainer => Inv'
<1> SUFFICES ASSUME Inv, StartContainer PROVE Inv'
    OBVIOUS
<1> USE MasterAssumption DEF Alive, Running
<1>1. CASE StartOpen
  <2>1. TypeOK'
    BY <1>1 DEF Inv, TypeOK, StartOpen, StartUnchanged, Goto, StartPC
  <2>2. ExitInv'
    BY <1>1 DEF Inv, TypeOK, StartOpen, StartUnchanged, Goto, ExitInv, Reported
  <2>3. FileInv'
    BY <1>1 DEF Inv, TypeOK, StartOpen, StartUnchanged, Goto, FileInv
  <2>4. ResourceInv'
    BY <1>1 DEF Inv, TypeOK, StartOpen, StartUnchanged, Goto, ResourceInv,
        Dealt, AllResources
  <2> QED
    BY <2>1, <2>2, <2>3, <2>4 DEF Inv
<1>2. CASE StartRead
  <2>1. TypeOK'
    BY <1>2 DEF Inv, TypeOK, StartRead, StartUnchanged, Goto, StartPC
  <2>2. ExitInv'
    BY <1>2 DEF Inv, TypeOK, StartRead, StartUnchanged, Goto, ExitInv, Reported
  <2>3. FileInv'
    BY <1>2 DEF Inv, TypeOK, StartRead, StartUnchanged, Goto, FileInv
  <2>4. ResourceInv'
    BY <1>2 DEF Inv, TypeOK, StartRead, StartUnchanged, Goto, ResourceInv,
        Dealt, AllResources
  <2> QED
    BY <2>1, <2>2, <2>3, <2>4 DEF Inv
<1>3. CASE StartPost
  <2>1. TypeOK'
    BY <1>3 DEF Inv, TypeOK, StartPost, StartUnchanged, Goto, StartPC
  <2>2. ExitInv'
    BY <1>3 DEF Inv, TypeOK, StartPost, StartUnchanged, Goto, ExitInv, Reported
  <2>3. FileInv'
    BY <1>3 DEF Inv, TypeOK, StartPost, StartUnchanged, Goto, FileInv
  <2>4. ResourceInv'
    BY <1>3 DEF Inv, TypeOK, StartPost, StartUnchanged, Goto, ResourceInv,
        Dealt, AllResources
  <2> QED
    BY <2>1, <2>2, <2>3, <2>4 DEF Inv
<1>4. CASE StartTruncate
  <2>1. TypeOK'
    BY <1>4 DEF Inv, TypeOK, StartTruncate, StartUnchanged, Goto, StartPC
  <2>2. ExitInv'
    BY <1>4 DEF Inv, TypeOK, StartTruncate, StartUnchanged, Goto, ExitInv,
        Reported
  <2>3. FileInv'
    BY <1>4 DEF Inv, TypeOK, StartTruncate, StartUnchanged, Goto, FileInv
  <2>4. ResourceInv'
    BY <1>4 DEF Inv, TypeOK, StartTruncate, StartUnchanged, Goto, ResourceInv,
        Dealt, AllResources
  <2> QED
    BY <2>1, <2>2, <2>3, <2>4 DEF Inv
<1>5. CASE StartWrite
  <2>1. TypeOK'
    <3>1. pc' \in [create : CreatePC, start : StartPC,
                   monitor : MonitorPC, main : MainPC]
        BY <1>5 DEF Inv, TypeOK, StartWrite, Goto, StartPC
    <3>2. file' \in {"absent", "partial", "written"}
        BY <1>5 DEF Inv, TypeOK, StartWrite
    <3>3. recorded' \in BOOLEAN
        BY Zenon, <1>5 DEF Inv, TypeOK, StartWrite
    <3> QED
        BY <1>5, <3>1, <3>2, <3>3 DEF Inv, TypeOK, StartWrite, StartUnchanged
  <2>2. ExitInv'
    BY <1>5 DEF Inv, TypeOK, StartWrite, StartUnchanged, Goto, ExitInv,
        Reported
  <2>3. FileInv'
    <3>1. pc.start = "write" /\ file = "partial" /\ ~usr1 /\ sock = "eof"
        BY <1>5 DEF Inv, FileInv, StartWrite
    <3>2. pc'.start \in {"detach", "fail"} /\ pc'.main = pc.main
        BY <1>5 DEF Inv, TypeOK, StartWrite, Goto
    <3>3. (pc'.start = "detach" \/ file' = "written" \/ recorded) => recorded'
        BY Zenon, <1>5, <3>1 DEF Inv, TypeOK, StartWrite, Goto
    <3>4. UNCHANGED <<usr1, sock, parent, exit>>
        BY <1>5 DEF StartWrite, StartUnchanged
    <3> QED
        BY <3>1, <3>2, <3>3, <3>4 DEF Inv, FileInv
  <2>4. ResourceInv'
    BY <1>5 DEF Inv, TypeOK, StartWrite, StartUnchanged, Goto, ResourceInv,
        Dealt, AllResources
  <2> QED
    BY <2>1, <2>2, <2>3, <2>4 DEF Inv
<1>6. CASE StartDetach
  <2>1. TypeOK'
    <3>1. pc' \in [create : CreatePC, start : StartPC,
                   monitor : MonitorPC, main : MainPC]
        BY <1>6 DEF Inv, TypeOK, StartDetach, Goto, StartPC
    <3>2. usr1' \in BOOLEAN
        BY Zenon, <1>6 DEF Inv, TypeOK, StartDetach
    <3> QED
        BY <1>6, <3>1, <3>2 DEF Inv, TypeOK, StartDetach, StartUnchanged
  <2>2. ExitInv'
    BY <1>6 DEF Inv, TypeOK, StartDetach, StartUnchanged, Goto, ExitInv,
        Reported
  <2>3. FileInv'
    BY <1>6 DEF Inv, TypeOK, StartDetach, StartUnchanged, Goto, FileInv
  <2>4. ResourceInv'
    BY <1>6 DEF Inv, TypeOK, StartDetach, StartUnchanged, Goto, ResourceInv,
        Dealt, AllResources
  <2> QED
    BY <2>1, <2>2, <2>3, <2>4 DEF Inv
<1>7. CASE StartFail
  <2>1. TypeOK'
    BY <1>7 DEF Inv, TypeOK, StartFail, SendFatal, Goto, StartPC, Errors
  <2>2. ExitInv'
    BY <1>7 DEF Inv, TypeOK, StartFail, SendFatal, Goto, ExitInv, Reported
  <2>3. FileInv'
    BY <1>7 DEF Inv, TypeOK, StartFail, SendFatal, Goto, FileInv
  <2>4. ResourceInv'
    BY <1>7 DEF Inv, TypeOK, StartFail, SendFatal, Goto, ResourceInv, Dealt,
        AllResources
  <2> QED
    BY <2>1, <2>2, <2>3, <2>4 DEF Inv
<1> QED
    BY <1>1, <1>2, <1>3, <1>4, <1>5, <1>6, <1>7 DEF StartContainer

\* Steps of the monitor goroutine: the status of the container.
LEMMA MonitorInv == Inv /\ MonitorContainer => Inv'
<1> SUFFICES ASSUME Inv, MonitorContainer PROVE Inv'
    OBVIOUS
<1> USE MasterAssumption DEF Alive, Running
<1>1. CASE MonitorLoad
  <2>1. TypeOK'
    BY <1>1 DEF Inv, TypeOK, MonitorLoad, MonitorUnchanged, Goto, MonitorPC
  <2>2. ExitInv'
    <3>1. CASE Goto("monitor", "wait") /\ UNCHANGED result
        BY <1>1, <3>1 DEF Inv, TypeOK, MonitorLoad, MonitorUnchanged, Goto, ExitInv, Reported
    <3>2. CASE Goto("monitor", "send") /\ result' = "monitor"
        BY <1>1, <3>2 DEF Inv, TypeOK, MonitorLoad, MonitorUnchanged, Goto, ExitInv, Reported
    <3> QED
        BY <1>1, <3>1, <3>2 DEF MonitorLoad
  <2>3. FileInv'
    BY <1>1 DEF Inv, TypeOK, MonitorLoad, MonitorUnchanged, Goto, FileInv
  <2>4. ResourceInv'
    BY <1>1 DEF Inv, TypeOK, MonitorLoad, MonitorUnchanged, Goto, ResourceInv,
        Dealt, AllResources
  <2> QED
    BY <2>1, <2>2, <2>3, <2>4 DEF Inv
<1>2. CASE MonitorChild
  <2>1. TypeOK'
    <3>1. pc' \in [create : CreatePC, start : StartPC,
                   monitor : MonitorPC, main : MainPC]
        BY <1>2 DEF Inv, TypeOK, MonitorChild, Goto, MonitorPC
    <3>2. signals' \in Seq(Signals) /\ Len(signals') <= SigCap
        BY <1>2 DEF Inv, TypeOK, MonitorChild
    <3>3. /\ status' \in WaitStatus
          /\ cont' \in {"created", "stage2", "running", "zombie", "gone"}
          /\ result' \in {"nil", "monitor"}
        BY <1>2 DEF Inv, TypeOK, MonitorChild, ExitInv
    <3> QED
        BY <1>2, <3>1, <3>2, <3>3 DEF Inv, TypeOK, MonitorChild,
            MonitorUnchanged
  <2>2. ExitInv'
    BY <1>2 DEF Inv, TypeOK, MonitorChild, MonitorUnchanged, Goto, ExitInv,
        Reported
  <2>3. FileInv'
    BY <1>2 DEF Inv, TypeOK, MonitorChild, MonitorUnchanged, Goto, FileInv
  <2>4. ResourceInv'
    BY <1>2 DEF Inv, TypeOK, MonitorChild, MonitorUnchanged, Goto, ResourceInv,
        Dealt, AllResources
  <2> QED
    BY <2>1, <2>2, <2>3, <2>4 DEF Inv
<1>3. CASE MonitorIgnore
  <2>1. TypeOK'
    BY <1>3 DEF Inv, TypeOK, MonitorIgnore, MonitorUnchanged, Goto, MonitorPC
  <2>2. ExitInv'
    BY <1>3 DEF Inv, TypeOK, MonitorIgnore, MonitorUnchanged, Goto, ExitInv,
        Reported
  <2>3. FileInv'
    BY <1>3 DEF Inv, TypeOK, MonitorIgnore, MonitorUnchanged, Goto, FileInv
  <2>4. ResourceInv'
    BY <1>3 DEF Inv, TypeOK, MonitorIgnore, MonitorUnchanged, Goto,
        ResourceInv, Dealt, AllResources
  <2> QED
    BY <2>1, <2>2, <2>3, <2>4 DEF Inv
<1>4. CASE MonitorPropagate
  <2>1. TypeOK'
    <3>1. pc' \in [create : CreatePC, start : StartPC,
                   monitor : MonitorPC, main : MainPC]
        BY <1>4 DEF Inv, TypeOK, MonitorPropagate, Goto, MonitorPC
    <3>2. signals' \in Seq(Signals) /\ Len(signals') <= SigCap
        BY <1>4 DEF Inv, TypeOK, MonitorPropagate
    <3>3. pend' \subseteq Signals /\ result' \in {"nil", "monitor"}
        BY Zenon, <1>4 DEF Inv, TypeOK, MonitorPropagate, Signals
    <3> QED
        BY <1>4, <3>1, <3>2, <3>3 DEF Inv, TypeOK, MonitorPropagate,
            MonitorUnchanged
  <2>2. ExitInv'
    BY <1>4 DEF Inv, TypeOK, MonitorPropagate, MonitorUnchanged, Goto, ExitInv,
        Reported
  <2>3. FileInv'
    BY <1>4 DEF Inv, TypeOK, MonitorPropagate, MonitorUnchanged, Goto, FileInv
  <2>4. ResourceInv'
    BY <1>4 DEF Inv, TypeOK, MonitorPropagate, MonitorUnchanged, Goto,
        ResourceInv, Dealt, AllResources
  <2> QED
    BY <2>1, <2>2, <2>3, <2>4 DEF Inv
<1>5. CASE MonitorSend
  <2>1. TypeOK'
    BY <1>5 DEF Inv, TypeOK, MonitorSend, SendFatal, Goto, MonitorPC, Errors
  <2>2. ExitInv'
    BY <1>5 DEF Inv, TypeOK, MonitorSend, SendFatal, Goto, ExitInv, Reported
  <2>3. FileInv'
    BY <1>5 DEF Inv, TypeOK, MonitorSend, SendFatal, Goto, FileInv
  <2>4. ResourceInv'
    BY <1>5 DEF Inv, TypeOK, MonitorSend, SendFatal, Goto, ResourceInv, Dealt,
        AllResources
  <2> QED
    BY <2>1, <2>2, <2>3, <2>4 DEF Inv
<1> QED
    BY <1>1, <1>2, <1>3, <1>4, <1>5 DEF MonitorContainer

\* Steps of main: fatalChan, CleanupContainer and the exit.
LEMMA MainInv == Inv /\ Main => Inv'
<1> SUFFICES ASSUME Inv, Main PROVE Inv'
    OBVIOUS
<1> USE MasterAssumption DEF Alive, Running
<1>1. CASE MainRecv
  <2>1. TypeOK'
    BY <1>1 DEF Inv, TypeOK, MainRecv, MainUnchanged, Goto, MainPC, Errors
  <2>2. ExitInv'
    BY <1>1 DEF Inv, TypeOK, MainRecv, MainUnchanged, Goto, ExitInv, Reported
  <2>3. FileInv'
    BY <1>1 DEF Inv, TypeOK, MainRecv, MainUnchanged, Goto, FileInv
  <2>4. ResourceInv'
    BY <1>1 DEF Inv, TypeOK, MainRecv, MainUnchanged, Goto, ResourceInv, Dealt,
        AllResources
  <2> QED
    BY <2>1, <2>2, <2>3, <2>4 DEF Inv
<1>2. CASE MainUmount
  <2>1. TypeOK'
    <3>1. pc' \in [create : CreatePC, start : StartPC,
                   monitor : MonitorPC, main : MainPC]
        BY <1>2 DEF Inv, TypeOK, MainUmount, Release, Goto, MainPC
    <3>2. held' \subseteq AllResources /\ failed' \subseteq AllResources
        BY <1>2 DEF Inv, TypeOK, MainUmount, Release
    <3> QED
        BY <1>2, <3>1, <3>2 DEF Inv, TypeOK, MainUmount, Release, MainUnchanged
  <2>2. ExitInv'
    BY <1>2 DEF Inv, TypeOK, MainUmount, Release, MainUnchanged, Goto, ExitInv,
        Reported
  <2>3. FileInv'
    BY <1>2 DEF Inv, TypeOK, MainUmount, Release, MainUnchanged, Goto, FileInv
  <2>4. ResourceInv'
    <3>1. held' \subseteq held
        BY <1>2 DEF MainUmount, Release
    <3>2. settled => "mounts" \in known \/ "mounts" \notin held
        BY DEF Inv, ResourceInv
    <3>3. settled => ("mounts" \in held' => "mounts" \in failed')
        BY <1>2, <3>2 DEF MainUmount, Release
    <3> QED
        BY <1>2, <3>1, <3>3 DEF Inv, TypeOK, MainUmount, Release, MainUnchanged,
           Goto, ResourceInv, Dealt
  <2> QED
    BY <2>1, <2>2, <2>3, <2>4 DEF Inv
<1>3. CASE MainDelNetworks
  <2>1. TypeOK'
    <3>1. pc' \in [create : CreatePC, start : StartPC,
                   monitor : MonitorPC, main : MainPC]
        BY <1>3 DEF Inv, TypeOK, MainDelNetworks, Release, Goto, MainPC
    <3>2. held' \subseteq AllResources /\ failed' \subseteq AllResources
        BY <1>3 DEF Inv, TypeOK, MainDelNetworks, Release
    <3> QED
        BY <1>3, <3>1, <3>2 DEF Inv, TypeOK, MainDelNetworks, Release,
            MainUnchanged
  <2>2. ExitInv'
    BY <1>3 DEF Inv, TypeOK, MainDelNetworks, Release, MainUnchanged, Goto,
        ExitInv, Reported
  <2>3. FileInv'
    BY <1>3 DEF Inv, TypeOK, MainDelNetworks, Release, MainUnchanged, Goto,
        FileInv
  <2>4. ResourceInv'
    <3>1. held' \subseteq held
        BY <1>3 DEF MainDelNetworks, Release
    <3>2. settled => "network" \in known \/ "network" \notin held
        BY DEF Inv, ResourceInv
    <3>3. settled => ("network" \in held' => "network" \in failed')
        BY <1>3, <3>2 DEF MainDelNetworks, Release
    <3> QED
        BY <1>3, <3>1, <3>3 DEF Inv, TypeOK, MainDelNetworks, Release,
           MainUnchanged, Goto, ResourceInv, Dealt
  <2> QED
    BY <2>1, <2>2, <2>3, <2>4 DEF Inv
<1>4. CASE MainDestroyCgroup
  <2>1. TypeOK'
    <3>1. pc' \in [create : CreatePC, start : StartPC,
                   monitor : MonitorPC, main : MainPC]
        BY <1>4 DEF Inv, TypeOK, MainDestroyCgroup, Release, Goto, MainPC
    <3>2. held' \subseteq AllResources /\ failed' \subseteq AllResources
        BY <1>4 DEF Inv, TypeOK, MainDestroyCgroup, Release
    <3> QED
        BY <1>4, <3>1, <3>2 DEF Inv, TypeOK, MainDestroyCgroup, Release,
            MainUnchanged
  <2>2. ExitInv'
    BY <1>4 DEF Inv, TypeOK, MainDestroyCgroup, Release, MainUnchanged, Goto,
        ExitInv, Reported
  <2>3. FileInv'
    BY <1>4 DEF Inv, TypeOK, MainDestroyCgroup, Release, MainUnchanged, Goto,
        FileInv
  <2>4. ResourceInv'
    <3>1. held' \subseteq held
        BY <1>4 DEF MainDestroyCgroup, Release
    <3>2. settled => "cgroup" \in known \/ "cgroup" \notin held
        BY DEF Inv, ResourceInv
    <3>3. settled => ("cgroup" \in held' => "cgroup" \in failed')
        BY <1>4, <3>2 DEF MainDestroyCgroup, Release
    <3> QED
        BY <1>4, <3>1, <3>3 DEF Inv, TypeOK, MainDestroyCgroup, Release,
           MainUnchanged, Goto, ResourceInv, Dealt
  <2> QED
    BY <2>1, <2>2, <2>3, <2>4 DEF Inv
<1>5. CASE MainInstanceGet
  <2>1. TypeOK'
    BY <1>5 DEF Inv, TypeOK, MainInstanceGet, MainUnchanged, Goto, MainPC
  <2>2. ExitInv'
    BY <1>5 DEF Inv, TypeOK, MainInstanceGet, MainUnchanged, Goto, ExitInv,
        Reported
  <2>3. FileInv'
    BY <1>5 DEF Inv, TypeOK, MainInstanceGet, MainUnchanged, Goto, FileInv
  <2>4. ResourceInv'
    BY <1>5 DEF Inv, TypeOK, MainInstanceGet, MainUnchanged, Goto, ResourceInv,
        Dealt, AllResources
  <2> QED
    BY <2>1, <2>2, <2>3, <2>4 DEF Inv
<1>6. CASE MainInstanceDelete
  <2>1. TypeOK'
    BY <1>6 DEF Inv, TypeOK, MainInstanceDelete, MainUnchanged, Goto, MainPC
  <2>2. ExitInv'
    BY <1>6 DEF Inv, TypeOK, MainInstanceDelete, MainUnchanged, Goto, ExitInv,
        Reported
  <2>3. FileInv'
    BY <1>6 DEF Inv, TypeOK, MainInstanceDelete, MainUnchanged, Goto, FileInv
  <2>4. ResourceInv'
    BY <1>6 DEF Inv, TypeOK, MainInstanceDelete, MainUnchanged, Goto,
        ResourceInv, Dealt, AllResources
  <2> QED
    BY <2>1, <2>2, <2>3, <2>4 DEF Inv
<1>7. CASE MainFinish
  <2>0. exit' \in 0..255
    <3>1. ExitCode(status) \in 0..255
        BY ExitCodeRange DEF Inv, TypeOK
    <3> QED
        BY <1>7, <3>1 DEF MainFinish
  <2>1. TypeOK'
    <3>1. pc' \in [create : CreatePC, start : StartPC,
                   monitor : MonitorPC, main : MainPC]
        BY <1>7 DEF Inv, TypeOK, MainFinish, Goto, MainPC
    <3> QED
        BY <1>7, <2>0, <3>1 DEF Inv, TypeOK, MainFinish, MainUnchanged
  <2>2. ExitInv'
    BY <1>7 DEF Inv, TypeOK, MainFinish, MainUnchanged, Goto, ExitInv, Reported
  <2>3. FileInv'
    BY <1>7 DEF Inv, TypeOK, MainFinish, MainUnchanged, Goto, FileInv
  <2>4. ResourceInv'
    <3>0. exit' # Running
        BY <2>0
    <3>1. pc'.main = "exited" /\ pc'.create = pc.create
        BY <1>7 DEF Inv, TypeOK, MainFinish, Goto
    <3>2. pc.main = "finish"
        BY <1>7 DEF MainFinish
    <3> QED
        BY <1>7, <3>0, <3>1, <3>2
        DEF Inv, MainFinish, MainUnchanged, ResourceInv, Dealt
  <2> QED
    BY <2>1, <2>2, <2>3, <2>4 DEF Inv
<1> QED
    BY <1>1, <1>2, <1>3, <1>4, <1>5, <1>6, <1>7 DEF Main

\* Steps of the container, the signals and the parent.
LEMMA EnvironmentInv == Inv /\ Environment => Inv'
<1> SUFFICES ASSUME Inv, Environment PROVE Inv'
    OBVIOUS
<1> USE MasterAssumption DEF Alive, Running
<1>1. CASE ContainerStage2
  <2>1. TypeOK'
    BY <1>1 DEF Inv, TypeOK, ContainerStage2, EnvUnchanged
  <2>2. ExitInv'
    BY <1>1 DEF Inv, TypeOK, ContainerStage2, EnvUnchanged, ExitInv, Reported
  <2>3. FileInv'
    BY <1>1 DEF Inv, TypeOK, ContainerStage2, EnvUnchanged, FileInv
  <2>4. ResourceInv'
    BY <1>1 DEF Inv, TypeOK, ContainerStage2, EnvUnchanged, ResourceInv, Dealt
  <2> QED
    BY <2>1, <2>2, <2>3, <2>4 DEF Inv
<1>2. CASE ContainerExec
  <2>1. TypeOK'
    BY <1>2 DEF Inv, TypeOK, ContainerExec, EnvUnchanged
  <2>2. ExitInv'
    BY <1>2 DEF Inv, TypeOK, ContainerExec, EnvUnchanged, ExitInv, Reported
  <2>3. FileInv'
    BY <1>2 DEF Inv, TypeOK, ContainerExec, EnvUnchanged, FileInv
  <2>4. ResourceInv'
    BY <1>2 DEF Inv, TypeOK, ContainerExec, EnvUnchanged, ResourceInv, Dealt
  <2> QED
    BY <2>1, <2>2, <2>3, <2>4 DEF Inv
<1>3. CASE ContainerStartFails
  <2>1. TypeOK'
    BY <1>3 DEF Inv, TypeOK, ContainerStartFails, EnvUnchanged
  <2>2. ExitInv'
    BY <1>3 DEF Inv, TypeOK, ContainerStartFails, EnvUnchanged, ExitInv, Reported
  <2>3. FileInv'
    BY <1>3 DEF Inv, TypeOK, ContainerStartFails, EnvUnchanged, FileInv
  <2>4. ResourceInv'
    BY <1>3 DEF Inv, TypeOK, ContainerStartFails, EnvUnchanged, ResourceInv, Dealt
  <2> QED
    BY <2>1, <2>2, <2>3, <2>4 DEF Inv
<1>4. CASE ContainerDies
  <2>1. TypeOK'
    BY <1>4 DEF Inv, TypeOK, ContainerDies, EnvUnchanged, Signals
  <2>2. ExitInv'
    BY <1>4 DEF Inv, TypeOK, ContainerDies, EnvUnchanged, ExitInv, Reported
  <2>3. FileInv'
    BY <1>4 DEF Inv, TypeOK, ContainerDies, EnvUnchanged, FileInv
  <2>4. ResourceInv'
    BY <1>4 DEF Inv, TypeOK, ContainerDies, EnvUnchanged, ResourceInv, Dealt
  <2> QED
    BY <2>1, <2>2, <2>3, <2>4 DEF Inv
<1>5. CASE SocketEOF
  <2>1. TypeOK'
    BY <1>5 DEF Inv, TypeOK, SocketEOF, EnvUnchanged
  <2>2. ExitInv'
    BY <1>5 DEF Inv, TypeOK, SocketEOF, EnvUnchanged, ExitInv, Reported
  <2>3. FileInv'
    BY <1>5 DEF Inv, TypeOK, SocketEOF, EnvUnchanged, FileInv
  <2>4. ResourceInv'
    BY <1>5 DEF Inv, TypeOK, SocketEOF, EnvUnchanged, ResourceInv, Dealt
  <2> QED
    BY <2>1, <2>2, <2>3, <2>4 DEF Inv
<1>6. ASSUME NEW s \in Signals, SendSignal(s) PROVE Inv'
  <2>1. TypeOK'
    BY <1>6 DEF Inv, TypeOK, SendSignal, EnvUnchanged
  <2>2. ExitInv'
    BY <1>6 DEF Inv, TypeOK, SendSignal, EnvUnchanged, ExitInv, Reported
  <2>3. FileInv'
    BY <1>6 DEF Inv, TypeOK, SendSignal, EnvUnchanged, FileInv
  <2>4. ResourceInv'
    BY <1>6 DEF Inv, TypeOK, SendSignal, EnvUnchanged, ResourceInv, Dealt
  <2> QED
    BY <2>1, <2>2, <2>3, <2>4 DEF Inv
<1>7. ASSUME NEW s \in Signals, Relay(s) PROVE Inv'
  <2>1. TypeOK'
    BY <1>7 DEF Inv, TypeOK, Relay, EnvUnchanged
  <2>2. ExitInv'
    BY <1>7 DEF Inv, TypeOK, Relay, EnvUnchanged, ExitInv, Reported
  <2>3. FileInv'
    BY <1>7 DEF Inv, TypeOK, Relay, EnvUnchanged, FileInv
  <2>4. ResourceInv'
    BY <1>7 DEF Inv, TypeOK, Relay, EnvUnchanged, ResourceInv, Dealt
  <2> QED
    BY <2>1, <2>2, <2>3, <2>4 DEF Inv
<1>8. CASE ParentDetach
  <2>1. TypeOK'
    BY <1>8 DEF Inv, TypeOK, ParentDetach, EnvUnchanged
  <2>2. ExitInv'
    BY <1>8 DEF Inv, TypeOK, ParentDetach, EnvUnchanged, ExitInv, Reported
  <2>3. FileInv'
    BY <1>8 DEF Inv, TypeOK, ParentDetach, EnvUnchanged, FileInv
  <2>4. ResourceInv'
    BY <1>8 DEF Inv, TypeOK, ParentDetach, EnvUnchanged, ResourceInv, Dealt
  <2> QED
    BY <2>1, <2>2, <2>3, <2>4 DEF Inv
<1>9. CASE ParentReap
  <2>1. TypeOK'
    BY <1>9 DEF Inv, TypeOK, ParentReap, EnvUnchanged
  <2>2. ExitInv'
    BY <1>9 DEF Inv, TypeOK, ParentReap, EnvUnchanged, ExitInv, Reported
  <2>3. FileInv'
    BY <1>9 DEF Inv, TypeOK, ParentReap, EnvUnchanged, FileInv
  <2>4. ResourceInv'
    BY <1>9 DEF Inv, TypeOK, ParentReap, EnvUnchanged, ResourceInv, Dealt
  <2> QED
    BY <2>1, <2>2, <2>3, <2>4 DEF Inv
<1> QED
    BY <1>1, <1>2, <1>3, <1>4, <1>5, <1>6, <1>7, <1>8, <1>9
    DEF Environment, Container

\* Inv is an inductive invariant of Master.
THEOREM Invariance == Spec => []Inv
<1>1. Inv /\ [Next]_vars => Inv'
  <2> SUFFICES ASSUME Inv, [Next]_vars PROVE Inv'
    OBVIOUS
  <2>1. CASE UNCHANGED vars
    BY <2>1 DEF vars, Inv, TypeOK, ExitInv, Reported, FileInv, ResourceInv,
       Dealt, Alive
  <2> QED
    BY <2>1, CreateInv, StartInv, MonitorInv, MainInv, EnvironmentInv
    DEF Next
<1> QED
    BY InitInv, <1>1, PTL DEF Spec

-----------------------------------------------------------------------------
\* The variables of Master keep their types: in particular the signals channel
\* never holds more than SigCap signals and every exit code is a byte.
THEOREM TypeCorrect == Spec => []TypeOK
<1>1. Inv => TypeOK
    BY DEF Inv
<1> QED
    BY <1>1, Invariance, PTL

\* A master that ends without a fatal error ends with the status of a container
\* process that has ended (master_linux.go:150-180).
THEOREM ExitIsFaithful == Spec => []ExitFaithful
<1>1. Inv => ExitFaithful
    BY DEF Inv, ExitInv, Reported, ExitFaithful
<1> QED
    BY <1>1, Invariance, PTL

\* The parent reports success only for an instance that is on disk or a master
\* that ended with 0 (process_linux.go:442-452).
THEOREM ParentTellsTruth == Spec => []ParentTruth
<1>1. Inv => ParentTruth
    BY DEF Inv, FileInv, ParentTruth
<1> QED
    BY <1>1, Invariance, PTL

\* A start that failed in stage 2 leaves no instance file (stage_linux.go:55-61).
THEOREM FailedStartIsUnrecorded == Spec => []FailedStartUnrecorded
<1>1. Inv => FailedStartUnrecorded
    BY DEF Inv, FileInv, FailedStartUnrecorded
<1> QED
    BY <1>1, Invariance, PTL

\* Cleanup after a finished creation releases every resource or reports why not
\* (cleanup_linux.go:46-150).
THEOREM SettledIsReleased == Spec => []SettledReleased
<1>1. Inv => SettledReleased
    BY MasterAssumption DEF Inv, ResourceInv, Dealt, SettledReleased, AllResources
<1> QED
    BY <1>1, Invariance, PTL

=============================================================================
