---------------------------- MODULE NetworkProofs ---------------------------
(***************************************************************************)
(* Proofs about Network: for any containers and any requests, a container  *)
(* leaves no network set up behind but what its ADD sets up once its       *)
(* cleanup runs, and two users never map the same host port.               *)
(*                                                                         *)
(* The invariant relates the networks that have something set up with how  *)
(* far create() and the cleanup of the container are, and with the sockets *)
(* it holds.  A failed ADD leaves a part of its own network behind, so     *)
(* what is set up is bounded by the networks of the container, not by the  *)
(* index of the ADD; the DEL of the cleanup has removed what is below its  *)
(* own, but for what came late.                                            *)
(*                                                                         *)
(* Then the image drivers, which the same master starts and stops, over    *)
(* variables of their own.                                                 *)
(***************************************************************************)
EXTENDS Network, TLAPS

\* The host ports that can be asked for.
Ports == UNION {Mapped(r) : r \in Requests}

TypeOK ==
    /\ req \in [Containers -> Requests]
    /\ creating \in [Containers -> {"prepare", "ports", "add", "undo", "failed", "created", "gone"}]
    /\ ending \in [Containers -> {"wait", "del", "exit", "ended"}]
    /\ setup \subseteq Containers /\ delFailed \subseteq Containers
    /\ adding \in [Containers -> Nat] /\ deleting \in [Containers -> Nat]
    /\ late \in [Containers -> SUBSET Nat] /\ ifs \in [Containers -> SUBSET Nat]
    /\ socks \in [Containers -> SUBSET Ports]

\* What is set up is of the container's networks, and of those that the DEL has not
\* reached, or came late; it is removed by a cleanup that has a Setup to do it with.
Releasing(c) ==
    /\ ifs[c] \subseteq 1 .. Len(Networks(req[c]))
    /\ creating[c] \in {"prepare", "ports"} => ifs[c] = {}
    /\ creating[c] \in {"prepare", "ports", "add"} => adding[c] > 0
    /\ creating[c] \in {"ports", "add", "undo"} \/ ifs[c] # {} => c \in setup
    /\ ending[c] \in {"wait", "del"} => deleting[c] > 0
    /\ ending[c] = "wait" => deleting[c] = 1
    /\ ending[c] = "del" => \A i \in ifs[c] : deleting[c] <= i \/ i \in late[c]
    /\ ending[c] \in {"exit", "ended"} /\ c \notin delFailed => ifs[c] \subseteq late[c]

\* A container that may map ports, and has something set up or is about to, holds the
\* sockets of all of its ports, and create() is over once they are closed.
Protecting(c) ==
    /\ Protects(req[c]) /\ ending[c] # "ended" /\ (creating[c] = "add" \/ ifs[c] # {})
          => socks[c] = Mapped(req[c])
    /\ ending[c] = "ended" => creating[c] = "gone"

\* The sockets on a port are of one user.
OneUser ==
    \A c, d \in Containers : \A p \in socks[c] \cap socks[d] : req[c].user = req[d].user

Inv ==
    /\ TypeOK
    /\ \A c \in Containers : Releasing(c) /\ Protecting(c)
    /\ OneUser

\* A step of the master of one container.
Step(c) ==
    \/ prepareNetworkSetup(c) \/ SetPortProtection(c)
    \/ AddNetwork(c) \/ AddDone(c) \/ UndoNetwork(c)
    \/ CleanupContainer(c) \/ DelNetwork(c) \/ Exit(c)

-----------------------------------------------------------------------------
\* Every container starts with nothing set up and no socket.
LEMMA InitInv == ASSUME Init PROVE Inv
<1>1. TypeOK
  BY DEF Init, TypeOK
<1>2. \A c \in Containers : Releasing(c) /\ Protecting(c)
  BY DEF Init, Releasing, Protecting
<1>3. OneUser
  BY DEF Init, OneUser
<1>. QED
  BY <1>1, <1>2, <1>3 DEF Inv

\* A step of one container leaves the others as they are.
LEMMA Frame ==
    ASSUME NEW c \in Containers, Step(c), TypeOK, NEW d \in Containers, d # c
    PROVE  /\ creating'[d] = creating[d] /\ ending'[d] = ending[d]
           /\ adding'[d] = adding[d] /\ deleting'[d] = deleting[d]
           /\ late'[d] = late[d] /\ ifs'[d] = ifs[d] /\ socks'[d] = socks[d]
           /\ d \in setup' <=> d \in setup
           /\ d \in delFailed' <=> d \in delFailed
           /\ req' = req
<1> USE DEF TypeOK, Create, End, Up, command
<1>1. CASE prepareNetworkSetup(c)
  BY <1>1 DEF prepareNetworkSetup
<1>2. CASE SetPortProtection(c)
  BY <1>2 DEF SetPortProtection
<1>3. CASE AddNetwork(c)
  BY <1>3 DEF AddNetwork
<1>4. CASE AddDone(c)
  BY <1>4 DEF AddDone
<1>5. CASE UndoNetwork(c)
  BY <1>5 DEF UndoNetwork
<1>6. CASE CleanupContainer(c)
  BY <1>6 DEF CleanupContainer
<1>7. CASE DelNetwork(c)
  BY <1>7 DEF DelNetwork
<1>8. CASE Exit(c)
  BY <1>8 DEF Exit
<1>. QED
  BY <1>1, <1>2, <1>3, <1>4, <1>5, <1>6, <1>7, <1>8 DEF Step

\* The step of a container keeps the types.
LEMMA Types ==
    ASSUME NEW c \in Containers, Step(c), TypeOK, Releasing(c)
    PROVE  TypeOK'
<1> USE DEF TypeOK, Create, End, Up, command
<1>1. CASE prepareNetworkSetup(c)
  BY <1>1 DEF prepareNetworkSetup
<1>2. CASE SetPortProtection(c)
  <2>1. Mapped(req[c]) \subseteq Ports
    BY DEF Ports
  <2>2. PICK l \in {"add", "failed"} : creating' = [creating EXCEPT ![c] = l]
    BY <1>2 DEF SetPortProtection
  <2>3. socks' \in [Containers -> SUBSET Ports]
    BY <1>2, <2>1 DEF SetPortProtection
  <2>. QED
    BY Zenon, <1>2, <2>2, <2>3 DEF SetPortProtection
<1>3. CASE AddNetwork(c)
  <2>1. adding[c] \in Nat /\ adding[c] - 1 \in Nat
    BY <1>3 DEF AddNetwork, Releasing
  <2>2. PICK part \in {{}, {adding[c]}} : Up(c, part)
    BY Zenon, <1>3 DEF AddNetwork
  <2>3. ifs' \in [Containers -> SUBSET Nat] /\ late' \in [Containers -> SUBSET Nat]
    BY <2>1, <2>2
  <2>4. \/ adding' = [adding EXCEPT ![c] = adding[c] + 1]
        \/ adding' = [adding EXCEPT ![c] = adding[c] - 1]
    BY Zenon, <1>3 DEF AddNetwork
  <2>5. adding' \in [Containers -> Nat]
    BY <2>1, <2>4
  <2>6. creating' \in [Containers -> {"prepare", "ports", "add", "undo", "failed", "created", "gone"}]
    BY Zenon, <1>3 DEF AddNetwork
  <2>. QED
    BY <1>3, <2>3, <2>5, <2>6 DEF AddNetwork
<1>4. CASE AddDone(c)
  BY <1>4 DEF AddDone
<1>5. CASE UndoNetwork(c)
  BY <1>5 DEF UndoNetwork
<1>6. CASE CleanupContainer(c)
  BY <1>6 DEF CleanupContainer
<1>7. CASE DelNetwork(c)
  <2>1. ending' \in [Containers -> {"wait", "del", "exit", "ended"}] /\ delFailed' \subseteq Containers
    BY <1>7 DEF DelNetwork
  <2>2. deleting' = deleting \/ deleting' = [deleting EXCEPT ![c] = deleting[c] + 1]
    BY Zenon, <1>7 DEF DelNetwork
  <2>3. ifs' = ifs \/ ifs' = [ifs EXCEPT ![c] = ifs[c] \ {deleting[c]}]
    BY Zenon, <1>7 DEF DelNetwork
  <2>4. deleting' \in [Containers -> Nat] /\ ifs' \in [Containers -> SUBSET Nat]
    BY <2>2, <2>3
  <2>. QED
    BY <1>7, <2>1, <2>4 DEF DelNetwork
<1>8. CASE Exit(c)
  BY <1>8 DEF Exit
<1>. QED
  BY <1>1, <1>2, <1>3, <1>4, <1>5, <1>6, <1>7, <1>8 DEF Step

\* It keeps what is set up within reach of the cleanup.
LEMMA Releases ==
    ASSUME NEW c \in Containers, Step(c), TypeOK, Releasing(c), Protecting(c)
    PROVE  Releasing(c)'
<1> USE NetworkAssumption DEF TypeOK, Create, End, Up, command, Releasing, Protecting
<1>0. Len(Networks(req[c])) \in Nat
  BY DEF TypeOK
<1>1. CASE prepareNetworkSetup(c)
  BY <1>0, <1>1 DEF prepareNetworkSetup
<1>2. CASE SetPortProtection(c)
  BY <1>0, <1>2 DEF SetPortProtection
<1>3. CASE AddNetwork(c)
  BY <1>0, <1>3 DEF AddNetwork
<1>4. CASE AddDone(c)
  BY <1>0, <1>4 DEF AddDone
<1>5. CASE UndoNetwork(c)
  BY <1>0, <1>5 DEF UndoNetwork
<1>6. CASE CleanupContainer(c)
  BY <1>0, <1>6 DEF CleanupContainer
<1>7. CASE DelNetwork(c)
  BY <1>0, <1>7 DEF DelNetwork
<1>8. CASE Exit(c)
  BY <1>0, <1>8 DEF Exit
<1>. QED
  BY <1>1, <1>2, <1>3, <1>4, <1>5, <1>6, <1>7, <1>8 DEF Step

\* It keeps the sockets for as long as there is something set up.
LEMMA Protected ==
    ASSUME NEW c \in Containers, Step(c), TypeOK, Releasing(c), Protecting(c)
    PROVE  Protecting(c)'
<1> USE DEF TypeOK, Create, End, Up, command, Releasing, Protecting
<1>1. CASE prepareNetworkSetup(c)
  BY <1>1 DEF prepareNetworkSetup
<1>2. CASE SetPortProtection(c)
  BY <1>2 DEF SetPortProtection
<1>3. CASE AddNetwork(c)
  BY <1>3 DEF AddNetwork
<1>4. CASE AddDone(c)
  BY <1>4 DEF AddDone
<1>5. CASE UndoNetwork(c)
  BY <1>5 DEF UndoNetwork
<1>6. CASE CleanupContainer(c)
  BY <1>6 DEF CleanupContainer
<1>7. CASE DelNetwork(c)
  BY <1>7 DEF DelNetwork
<1>8. CASE Exit(c)
  BY <1>8 DEF Exit
<1>. QED
  BY <1>1, <1>2, <1>3, <1>4, <1>5, <1>6, <1>7, <1>8 DEF Step

\* A socket is bound only on a port that no other user has bound.
LEMMA OneUserKept ==
    ASSUME NEW c \in Containers, Step(c), TypeOK, OneUser
    PROVE  OneUser'
<1>1. ASSUME NEW p \in socks'[c]
      PROVE  p \in socks[c] \/ \A d \in Containers \ {c} : p \in socks[d] => req[d].user = req[c].user
  <2>1. CASE SetPortProtection(c)
    BY <1>1, <2>1 DEF SetPortProtection, Bindable, TypeOK
  <2>2. CASE Exit(c)
    BY <1>1, <2>2 DEF Exit, TypeOK
  <2>3. CASE socks' = socks
    BY <1>1, <2>3
  <2>. QED
    BY <2>1, <2>2, <2>3 DEF Step, prepareNetworkSetup, AddNetwork, AddDone, UndoNetwork,
        CleanupContainer, DelNetwork
<1>2. ASSUME NEW d \in Containers, d # c PROVE socks'[d] = socks[d]
  BY <1>2, Frame
<1>3. req' = req
  BY DEF Step, prepareNetworkSetup, SetPortProtection, AddNetwork, AddDone, UndoNetwork,
        CleanupContainer, DelNetwork, Exit
<1>4. ASSUME NEW a \in Containers, NEW b \in Containers, NEW p \in socks'[a] \cap socks'[b]
      PROVE  req[a].user = req[b].user
  <2>1. CASE a # c /\ b # c
    BY <1>2, <1>4, <2>1 DEF OneUser
  <2>2. CASE a = c /\ b # c
    BY <1>1, <1>2, <1>4, <2>2 DEF OneUser
  <2>3. CASE a # c /\ b = c
    BY <1>1, <1>2, <1>4, <2>3 DEF OneUser
  <2>. QED
    BY <2>1, <2>2, <2>3
<1>. QED
  BY <1>3, <1>4 DEF OneUser

\* Every step keeps the invariant.
LEMMA NextInv == ASSUME Inv, [Next]_vars PROVE Inv'
<1>1. CASE UNCHANGED vars
  BY <1>1 DEF vars, command, Inv, TypeOK, Releasing, Protecting, OneUser
<1>2. ASSUME NEW c \in Containers, Step(c) PROVE Inv'
  <2>1. TypeOK' /\ OneUser'
    BY <1>2, Types, OneUserKept DEF Inv
  <2>2. Releasing(c)' /\ Protecting(c)'
    BY <1>2, Releases, Protected DEF Inv
  <2>3. ASSUME NEW d \in Containers, d # c PROVE Releasing(d)' /\ Protecting(d)'
    <3>1. Releasing(d) /\ Protecting(d) /\ TypeOK
      BY DEF Inv
    <3>. QED
      BY <1>2, <2>3, <3>1, Frame DEF Releasing, Protecting
  <2>. QED
    BY <2>1, <2>2, <2>3 DEF Inv
<1>. QED
  BY <1>1, <1>2 DEF Next, Step

\* For any containers and requests: a container that ended left nothing set up, wherever
\* its ADD failed or timed out and whenever the cleanup began, but for what its ADD set up
\* after that, and unless a plugin failed in the DEL (network_linux.go:459-496,
\* cleanup_linux.go:110-127).
THEOREM NetworksAreReleased == Spec => []NetworksReleased
<1>1. Inv => NetworksReleased
  BY DEF Inv, Releasing, NetworksReleased
<1>. QED
  BY <1>1, InitInv, NextInv, PTL DEF Spec

\* For any containers and requests: two unprivileged users never have the same host port
\* mapped, as long as neither left a mapping behind, with a failed DEL or an ADD that its
\* own cleanup overtook (network_linux.go:391-441).
THEOREM PortsStaySeparate == Spec => []PortsAreSeparate
<1>1. Inv => PortsAreSeparate
  <2>. SUFFICES ASSUME Inv, NEW c \in Containers, NEW d \in Containers,
                       req[c].user # req[d].user, Protects(req[c]), Protects(req[d]),
                       ifs[c] # {}, ifs[d] # {}, ~Left(c), ~Left(d)
                PROVE  Mapped(req[c]) \cap Mapped(req[d]) = {}
    BY DEF PortsAreSeparate
  <2>1. ending[c] # "ended" /\ ending[d] # "ended"
    BY DEF Inv, Releasing, Left
  <2>2. socks[c] = Mapped(req[c]) /\ socks[d] = Mapped(req[d])
    BY <2>1 DEF Inv, Protecting
  <2>. QED
    BY <2>2 DEF Inv, OneUser
<1>. QED
  BY <1>1, InitInv, NextInv, PTL DEF Spec

-----------------------------------------------------------------------------
(***************************************************************************)
(* The image drivers of the master, for any number of driver processes and *)
(* of failures: module ImageDriver over variables of its own.              *)
(***************************************************************************)
CONSTANTS Drivers, MaxFails
VARIABLES WaitForMount, pc, cur, process, failing, cmd, output, had, mountErr, driversStopped,
          result, early, fails, panicked

Driver == INSTANCE ImageDriver WITH stopped <- driversStopped

DriverConstants == Drivers \in Nat \ {0} /\ MaxFails \in Nat

\* Where the cleanup is once the drivers were told to stop, and where it is about the
\* driver cur[MainG].
Stopping == {"umount", "stop", "exit", "take", "clear", "receive", "reap", "done"}
StopsOne == Stopping \ {"umount", "done"}

\* Each goroutine's part of its program, and the driver it is about.
WhereInv ==
    /\ pc[Driver!MainG] \in {"wait", "clean"} \cup Stopping
    /\ pc[Driver!CreateG] \in {"loop", "close", "done"}
    /\ pc[Driver!MainG] = "wait" => ~early
    /\ cur[Driver!AllG] >= 1
    /\ pc[Driver!MainG] \in StopsOne => cur[Driver!MainG] >= 1

\* What MountAll has mounted stays mounted until its process ends, and create() goes on
\* only when MountAll is done.
MountedInv ==
    /\ WaitForMount =>
         /\ \A i \in Driver!D : i < cur[Driver!AllG] => process[i] \in {"mounted", "ended"}
         /\ pc[Driver!AllG] = "report" \/ pc[Driver!CreateG] = "close" \/ result = "ok" =>
               \A i \in Driver!D : process[i] \in {"mounted", "ended"}
    /\ pc[Driver!CreateG] = "close" \/ result = "ok" => pc[Driver!AllG] = "done"

\* While no driver fails and the container is not killed early, MountAll is done before
\* create() leaves its loop and create() before the cleanup begins, the drivers end only
\* once they were told to stop, no watcher waits for one, and nothing is sent to create()
\* after it closed the channel.
CalmInv ==
    /\ ~panicked /\ failing = {}
    /\ pc[Driver!AllG] \in {"start", "announce", "poll", "report", "failed", "done"}
    /\ pc[Driver!CreateG] # "loop" => pc[Driver!AllG] = "done"
    /\ result # "none" => pc[Driver!CreateG] = "done"
    /\ pc[Driver!MainG] # "wait" => result # "none"
    /\ pc[Driver!FwdG] \in {"receive", "selectNil", "sendNil", "done"}
    /\ pc[Driver!FwdG] = "selectNil" => driversStopped
    /\ pc[Driver!FwdG] = "sendNil" => result = "error"
    /\ mountErr # "error" /\ (mountErr = "closed" => driversStopped)
    /\ driversStopped <=> pc[Driver!MainG] \in Stopping
    /\ \A i \in Driver!D : process[i] = "ended" => driversStopped
    /\ \A i \in Driver!D : pc[i] \in {"none", "waitid", "done"}
    /\ pc[Driver!MainG] \in {"exit", "take"} => cmd[cur[Driver!MainG]]
    /\ pc[Driver!MainG] \in {"clear", "receive", "reap"} => had[Driver!MainG]

DriverInv == Driver!TypeOK /\ WhereInv /\ MountedInv /\ (fails = 0 /\ ~early => CalmInv)

\* The goroutines start with no driver running.
LEMMA DriverStarts ==
    ASSUME DriverConstants, Driver!Init
    PROVE  DriverInv
<1> USE DEF Driver!Init, DriverConstants, Driver!D, Driver!Goroutines, Driver!AllG,
            Driver!MainG, Driver!FwdG, Driver!CreateG
<1>1. Driver!TypeOK
  <2>1. pc \in [Driver!Goroutines \cup {Driver!FwdG, Driver!CreateG} ->
                 {"start", "wait", "receive", "loop", "none"}]
    BY DEF Driver!TypeOK
  <2>2. cur \in [{Driver!AllG, Driver!MainG} -> 0..Drivers] /\ fails \in 0..MaxFails
    OBVIOUS
  <2>3. /\ process \in [Driver!D -> {"none", "mounting", "mounted", "ended"}]
        /\ cmd \in [Driver!D -> BOOLEAN] /\ output \in [Driver!D -> BOOLEAN]
        /\ had \in [Driver!Goroutines -> BOOLEAN]
    OBVIOUS
  <2>4. /\ WaitForMount \in BOOLEAN /\ failing \subseteq Driver!D
        /\ driversStopped \in BOOLEAN /\ panicked \in BOOLEAN
        /\ mountErr = "empty" /\ result = "none" /\ early \in BOOLEAN
    BY Zenon
  <2> HIDE DEF Driver!Init
  <2> QED
    BY <2>1, <2>2, <2>3, <2>4 DEF Driver!TypeOK, Driver!Places
<1>2. WhereInv /\ MountedInv /\ CalmInv
    BY DEF WhereInv, MountedInv, CalmInv, Stopping, StopsOne
<1> QED
    BY <1>1, <1>2 DEF DriverInv

\* A driver process, and its watcher.
LEMMA DriverProcesses ==
    ASSUME DriverConstants, DriverInv, NEW i \in Driver!D,
           Driver!Mounts(i) \/ Driver!Fails(i) \/ Driver!Watch(i) \/ Driver!WatchSend(i)
    PROVE  DriverInv'
<1> USE DEF Driver!At, Driver!Goto, DriverConstants, DriverInv, Driver!D, Driver!Goroutines,
            Driver!AllG, Driver!MainG, Driver!FwdG, Driver!CreateG, Stopping, StopsOne
<1>1. CASE Driver!Mounts(i)
  <2> USE <1>1 DEF Driver!Mounts
  <2>1. Driver!TypeOK'
    BY DEF Driver!TypeOK, WhereInv, Driver!Places
  <2>2. WhereInv'
    BY DEF Driver!TypeOK, WhereInv
  <2>3. MountedInv'
    BY DEF Driver!TypeOK, WhereInv, MountedInv
  <2>4. fails' = 0 /\ ~early' => CalmInv'
    BY DEF Driver!TypeOK, WhereInv, CalmInv
  <2> QED
    BY <2>1, <2>2, <2>3, <2>4
<1>2. CASE Driver!Fails(i)
  <2> USE <1>2 DEF Driver!Fails
  <2>1. Driver!TypeOK'
    <3>1. fails' \in 0..MaxFails /\ failing' \subseteq Driver!D
      BY DEF Driver!TypeOK
    <3>2. process' \in [Driver!D -> {"none", "mounting", "mounted", "ended"}]
      BY DEF Driver!TypeOK
    <3> QED
      BY Zenon, <3>1, <3>2 DEF Driver!TypeOK
  <2>2. WhereInv'
    BY DEF Driver!TypeOK, WhereInv
  <2>3. MountedInv'
    BY DEF Driver!TypeOK, WhereInv, MountedInv
  <2>4. fails' = 0 /\ ~early' => CalmInv'
    <3>1. fails' # 0
      BY DEF Driver!TypeOK
    <3> QED
      BY <3>1
  <2> QED
    BY <2>1, <2>2, <2>3, <2>4
<1>3. CASE Driver!Watch(i)
  <2> USE <1>3 DEF Driver!Watch
  <2>1. Driver!TypeOK'
    BY DEF Driver!TypeOK, WhereInv, Driver!Places
  <2>2. WhereInv'
    BY DEF Driver!TypeOK, WhereInv
  <2>3. MountedInv'
    BY DEF Driver!TypeOK, WhereInv, MountedInv
  <2>4. fails' = 0 /\ ~early' => CalmInv'
    BY DEF Driver!TypeOK, WhereInv, CalmInv
  <2> QED
    BY <2>1, <2>2, <2>3, <2>4
<1>4. CASE Driver!WatchSend(i)
  <2> USE <1>4 DEF Driver!WatchSend, Driver!Panics
  <2>1. Driver!TypeOK'
    BY Zenon DEF Driver!TypeOK, WhereInv, Driver!Places
  <2>2. WhereInv'
    BY DEF Driver!TypeOK, WhereInv
  <2>3. MountedInv'
    BY DEF Driver!TypeOK, WhereInv, MountedInv
  <2>4. fails' = 0 /\ ~early' => CalmInv'
    BY Zenon DEF Driver!TypeOK, WhereInv, CalmInv
  <2> QED
    BY <2>1, <2>2, <2>3, <2>4
<1> QED
    BY <1>1, <1>2, <1>3, <1>4

\* MountAll.
LEMMA DriverMountAll ==
    ASSUME DriverConstants, DriverInv, Driver!All
    PROVE  DriverInv'
<1> USE DEF Driver!At, Driver!Goto, DriverConstants, DriverInv, Driver!D, Driver!Goroutines,
            Driver!AllG, Driver!MainG, Driver!FwdG, Driver!CreateG, Stopping, StopsOne
<1>1. CASE Driver!MountStart
  <2> USE <1>1 DEF Driver!MountStart
  <2>1. Driver!TypeOK'
    BY DEF Driver!TypeOK, WhereInv, Driver!Places
  <2>2. WhereInv'
    BY DEF Driver!TypeOK, WhereInv
  <2>3. MountedInv'
    BY DEF Driver!TypeOK, WhereInv, MountedInv
  <2>4. fails' = 0 /\ ~early' => CalmInv'
    BY DEF Driver!TypeOK, WhereInv, CalmInv
  <2> QED
    BY <2>1, <2>2, <2>3, <2>4
<1>2. CASE Driver!MountAnnounce
  <2> USE <1>2 DEF Driver!MountAnnounce
  <2>1. CASE driversStopped
    <3>1. ~(fails = 0 /\ ~early)
      BY <2>1 DEF CalmInv
    <3> QED
      BY Zenon, <2>1, <3>1 DEF Driver!Panics, Driver!TypeOK, WhereInv, MountedInv
  <2>2. CASE ~driversStopped
    <3>1. pc' = [pc EXCEPT ![0] = "poll", ![cur[0]] = "waitid"] /\ cur[0] \in 1..Drivers
      BY <2>2 DEF Driver!TypeOK, WhereInv
    <3>2. Driver!TypeOK'
      BY Zenon, <2>2, <3>1 DEF Driver!TypeOK, Driver!Places
    <3>3. WhereInv'
      BY <2>2, <3>1 DEF Driver!TypeOK, WhereInv
    <3>4. MountedInv'
      BY <2>2, <3>1 DEF Driver!TypeOK, WhereInv, MountedInv
    <3>5. ASSUME CalmInv PROVE CalmInv'
      <4>1. /\ pc'[0] = "poll" /\ pc'[-1] = pc[-1] /\ pc'[-2] = pc[-2] /\ pc'[-3] = pc[-3]
        BY <3>1 DEF Driver!TypeOK
      <4>2. ASSUME NEW i \in 1..Drivers PROVE pc'[i] = "waitid" \/ pc'[i] = pc[i]
        BY <3>1 DEF Driver!TypeOK
      <4> QED
        BY <2>2, <3>5, <4>1, <4>2 DEF CalmInv
    <3> QED
      BY <2>2, <3>2, <3>3, <3>4, <3>5
  <2> QED
    BY <2>1, <2>2
<1>3. CASE Driver!MountSeen
  <2> USE <1>3 DEF Driver!MountSeen
  <2>1. Driver!TypeOK'
    <3>1. pc' \in [Driver!Goroutines \cup {Driver!FwdG, Driver!CreateG} -> Driver!Places]
      <4>1. PICK l \in {"report", "start"} : pc' = [pc EXCEPT ![0] = l]
        BY Zenon
      <4> QED
        BY Zenon, <4>1 DEF Driver!TypeOK, Driver!Places
    <3>2. cur' \in [{Driver!AllG, Driver!MainG} -> 0..Drivers]
      BY DEF Driver!TypeOK, WhereInv
    <3> QED
      BY <3>1, <3>2 DEF Driver!TypeOK
  <2>2. WhereInv'
    BY DEF Driver!TypeOK, WhereInv
  <2>3. MountedInv'
    BY DEF Driver!TypeOK, WhereInv, MountedInv
  <2>4. fails' = 0 /\ ~early' => CalmInv'
    BY Zenon DEF Driver!TypeOK, WhereInv, CalmInv
  <2> QED
    BY <2>1, <2>2, <2>3, <2>4
<1>4. CASE Driver!MountTimeout
  <2> USE <1>4 DEF Driver!MountTimeout, Driver!Ends
  <2>1. cur[0] \in 1..Drivers /\ fails' \in 0..MaxFails
    BY DEF Driver!TypeOK, WhereInv
  <2>2. Driver!TypeOK'
    <3>1. CASE cmd[cur[0]]
      BY Zenon, <2>1, <3>1 DEF Driver!TypeOK, Driver!Places
    <3>2. CASE ~cmd[cur[0]]
      <4>1. pc' \in [Driver!Goroutines \cup {Driver!FwdG, Driver!CreateG} -> Driver!Places]
        BY <3>2 DEF Driver!TypeOK, Driver!Places
      <4> QED
        BY <2>1, <3>2, <4>1 DEF Driver!TypeOK
    <3> QED
      BY <3>1, <3>2
  <2>3. WhereInv'
    BY DEF Driver!TypeOK, WhereInv
  <2>4. MountedInv'
    BY DEF Driver!TypeOK, WhereInv, MountedInv
  <2>5. fails' = 0 /\ ~early' => CalmInv'
    <3>1. CASE process[cur[0]] = "ended"
      <4>1. ASSUME CalmInv PROVE FALSE
        BY <2>1, <3>1, <4>1 DEF CalmInv, Driver!TypeOK, WhereInv
      <4> QED
        BY <3>1, <4>1
    <3>2. CASE process[cur[0]] # "ended"
      BY <3>2 DEF Driver!TypeOK
    <3> QED
      BY <3>1, <3>2
  <2> QED
    BY <2>2, <2>3, <2>4, <2>5
<1>5. CASE Driver!MountOther
  <2> USE <1>5 DEF Driver!MountOther
  <2>1. Driver!TypeOK'
    BY DEF Driver!TypeOK, WhereInv, Driver!Places
  <2>2. WhereInv'
    BY DEF Driver!TypeOK, WhereInv
  <2>3. MountedInv'
    BY DEF Driver!TypeOK, WhereInv, MountedInv
  <2>4. fails' = 0 /\ ~early' => CalmInv'
    BY DEF Driver!TypeOK, WhereInv, CalmInv
  <2> QED
    BY <2>1, <2>2, <2>3, <2>4
<1> QED
    BY <1>1, <1>2, <1>3, <1>4, <1>5 DEF Driver!All

\* waitInstance, in whichever goroutine.
LEMMA DriverWaits ==
    ASSUME DriverConstants, DriverInv, NEW g \in Driver!Goroutines,
           Driver!WaitInstance(g)
    PROVE  DriverInv'
<1> USE DEF Driver!At, Driver!Goto, DriverConstants, DriverInv, Driver!D, Driver!Goroutines,
            Driver!AllG, Driver!MainG, Driver!FwdG, Driver!CreateG, Stopping, StopsOne
<1>0. ASSUME CalmInv, pc[g] \in {"exit", "take", "clear", "receive", "reap"} PROVE g = Driver!MainG
  BY <1>0 DEF CalmInv
<1>1. CASE Driver!StopWait(g)
  <2> USE <1>1 DEF Driver!StopWait, Driver!Ends, Driver!Of
  <2>1. Driver!TypeOK'
    <3>1. pc' \in [Driver!Goroutines \cup {Driver!FwdG, Driver!CreateG} -> Driver!Places]
      BY DEF Driver!TypeOK, Driver!Places
    <3>2. /\ process' \in [Driver!D -> {"none", "mounting", "mounted", "ended"}]
          /\ output' \in [Driver!D -> BOOLEAN]
      BY Zenon DEF Driver!TypeOK
    <3> QED
      BY <3>1, <3>2 DEF Driver!TypeOK
  <2>2. WhereInv'
    BY DEF Driver!TypeOK, WhereInv
  <2>3. MountedInv'
    BY DEF Driver!TypeOK, WhereInv, MountedInv
  <2>4. fails' = 0 /\ ~early' => CalmInv'
    BY Zenon DEF Driver!TypeOK, WhereInv, CalmInv
  <2> QED
    BY <2>1, <2>2, <2>3, <2>4
<1>2. CASE Driver!WaitTake(g)
  <2> USE <1>2 DEF Driver!WaitTake, Driver!Of
  <2>1. Driver!TypeOK'
    <3>1. pc' \in [Driver!Goroutines \cup {Driver!FwdG, Driver!CreateG} -> Driver!Places]
      BY DEF Driver!TypeOK, Driver!Places
    <3>2. Driver!Of(g) \in Driver!D
      BY DEF Driver!TypeOK, WhereInv
    <3>3. had' \in [Driver!Goroutines -> BOOLEAN]
      BY <3>2 DEF Driver!TypeOK
    <3> QED
      BY <3>1, <3>3 DEF Driver!TypeOK
  <2>2. WhereInv'
    BY DEF Driver!TypeOK, WhereInv
  <2>3. MountedInv'
    BY DEF Driver!TypeOK, WhereInv, MountedInv
  <2>4. fails' = 0 /\ ~early' => CalmInv'
    BY Zenon DEF Driver!TypeOK, WhereInv, CalmInv
  <2> QED
    BY <2>1, <2>2, <2>3, <2>4
<1>3. CASE Driver!WaitClear(g)
  <2> USE <1>3 DEF Driver!WaitClear, Driver!Of
  <2>1. Driver!TypeOK'
    BY DEF Driver!TypeOK, WhereInv, Driver!Places
  <2>2. WhereInv'
    BY DEF Driver!TypeOK, WhereInv
  <2>3. MountedInv'
    BY DEF Driver!TypeOK, WhereInv, MountedInv
  <2>4. fails' = 0 /\ ~early' => CalmInv'
    BY Zenon DEF Driver!TypeOK, WhereInv, CalmInv
  <2> QED
    BY <2>1, <2>2, <2>3, <2>4
<1>4. CASE Driver!WaitReceive(g)
  <2> USE <1>4 DEF Driver!WaitReceive, Driver!Of
  <2>1. Driver!TypeOK'
    BY DEF Driver!TypeOK, WhereInv, Driver!Places
  <2>2. WhereInv'
    BY DEF Driver!TypeOK, WhereInv
  <2>3. MountedInv'
    BY DEF Driver!TypeOK, WhereInv, MountedInv
  <2>4. fails' = 0 /\ ~early' => CalmInv'
    <3>1. ASSUME CalmInv PROVE CalmInv'
      <4>1. g = -1
        BY <1>0, <3>1
      <4>2. pc' = [pc EXCEPT ![-1] = "reap"] /\ had[-1]
        BY <3>1, <4>1 DEF CalmInv
      <4> QED
        <5>1. /\ pc'[0] = pc[0] /\ pc'[-2] = pc[-2] /\ pc'[-3] = pc[-3]
              /\ pc'[-1] = "reap" /\ \A i \in 1..Drivers : pc'[i] = pc[i]
          BY <4>2 DEF Driver!TypeOK
        <5> QED
          BY <3>1, <4>1, <4>2, <5>1 DEF CalmInv
    <3> QED
      BY <3>1
  <2> QED
    BY <2>1, <2>2, <2>3, <2>4
<1>5. CASE Driver!WaitReap(g)
  <2> USE <1>5 DEF Driver!WaitReap
  <2>1. CASE ~had[g]
    <3>1. ASSUME CalmInv PROVE FALSE
      BY <1>0, <2>1, <3>1 DEF CalmInv
    <3>2. Driver!TypeOK' /\ WhereInv' /\ MountedInv'
      <4>1. Driver!TypeOK'
        BY Zenon, <2>1 DEF Driver!Panics, Driver!TypeOK
      <4>2. WhereInv' /\ MountedInv'
        BY <2>1 DEF Driver!Panics, WhereInv, MountedInv
      <4> QED
        BY <4>1, <4>2
    <3> QED
      BY <2>1, <3>1, <3>2 DEF Driver!Panics
  <2>2. CASE had[g] /\ g = 0
    <3>1. pc' = [pc EXCEPT ![0] = "failed"] /\ cur' = cur
      BY <2>2
    <3>2. ASSUME CalmInv PROVE FALSE
      BY <1>0, <2>2, <3>2
    <3>3. Driver!TypeOK'
      BY <2>2, <3>1 DEF Driver!TypeOK, Driver!Places
    <3>4. WhereInv' /\ MountedInv'
      BY <2>2, <3>1 DEF Driver!TypeOK, WhereInv, MountedInv
    <3> QED
      BY <2>2, <3>2, <3>3, <3>4
  <2>3. CASE had[g] /\ g = -1
    <3>1. pc' = [pc EXCEPT ![-1] = "umount"] /\ cur' = [cur EXCEPT ![-1] = cur[-1] - 1]
      BY <2>3
    <3>2. cur[-1] - 1 \in 0..Drivers
      BY <2>3 DEF Driver!TypeOK, WhereInv
    <3>3. Driver!TypeOK'
      BY <2>3, <3>1, <3>2 DEF Driver!TypeOK, Driver!Places
    <3>4. WhereInv'
      BY <2>3, <3>1, <3>2 DEF Driver!TypeOK, WhereInv
    <3>5. MountedInv'
      BY <2>3, <3>1, <3>2 DEF Driver!TypeOK, WhereInv, MountedInv
    <3>6. fails' = 0 /\ ~early' => CalmInv'
      BY <2>3, <3>1, <3>2 DEF Driver!TypeOK, WhereInv, CalmInv
    <3> QED
      BY <3>3, <3>4, <3>5, <3>6
  <2>4. CASE had[g] /\ g \in 1..Drivers
    <3>1. PICK l \in {"send", "done"} : pc' = [pc EXCEPT ![g] = l]
      BY <2>4
    <3>2. cur' = cur
      BY <2>4
    <3>3. Driver!TypeOK' /\ WhereInv'
      BY <2>4, <3>1, <3>2 DEF Driver!TypeOK, WhereInv, Driver!Places
    <3>4. MountedInv' /\ (fails' = 0 /\ ~early' => CalmInv')
      BY <2>4, <3>1, <3>2 DEF Driver!TypeOK, WhereInv, MountedInv, CalmInv
    <3> QED
      BY <2>4, <3>3, <3>4
  <2> QED
    BY <2>1, <2>2, <2>3, <2>4
<1> QED
    BY <1>1, <1>2, <1>3, <1>4, <1>5 DEF Driver!WaitInstance

\* The forwarder.
LEMMA DriverForward ==
    ASSUME DriverConstants, DriverInv, Driver!Forward
    PROVE  DriverInv'
<1> USE DEF Driver!At, Driver!Goto, DriverConstants, DriverInv, Driver!D, Driver!Goroutines,
            Driver!AllG, Driver!MainG, Driver!FwdG, Driver!CreateG, Stopping, StopsOne
<1>1. CASE Driver!ForwardReceive
  <2>0. PICK l \in {"select", "selectNil"} :
          pc' = [pc EXCEPT ![-2] = l] /\ (l = "select" => mountErr = "error")
    BY Zenon, <1>1 DEF Driver!ForwardReceive
  <2>1. /\ pc'[0] = pc[0] /\ pc'[-1] = pc[-1] /\ pc'[-3] = pc[-3]
        /\ pc'[-2] = l /\ \A i \in 1..Drivers : pc'[i] = pc[i]
    <3>1. pc \in [{0, -1} \cup 1..Drivers \cup {-2, -3} -> Driver!Places] /\ Drivers \in Nat
      BY Zenon DEF Driver!TypeOK
    <3>2. CASE l = "select"
      <4>1. pc' = [pc EXCEPT ![-2] = "select"]
        BY Zenon, <2>0, <3>2
      <4> QED
        BY <3>1, <3>2, <4>1
    <3>3. CASE l = "selectNil"
      <4>1. pc' = [pc EXCEPT ![-2] = "selectNil"]
        BY Zenon, <2>0, <3>3
      <4> QED
        BY <3>1, <3>3, <4>1
    <3> QED
      BY <3>2, <3>3
  <2>2. Driver!TypeOK'
    <3>1. pc' \in [Driver!Goroutines \cup {Driver!FwdG, Driver!CreateG} -> Driver!Places]
      BY <2>0 DEF Driver!TypeOK, Driver!Places
    <3>2. mountErr' \in {"empty", "error", "closed"}
      BY Zenon, <1>1 DEF Driver!ForwardReceive, Driver!TypeOK
    <3> QED
      BY Zenon, <1>1, <3>1, <3>2 DEF Driver!ForwardReceive, Driver!TypeOK
  <2>3. /\ cur' = cur /\ process' = process /\ failing' = failing /\ cmd' = cmd /\ had' = had
        /\ driversStopped' = driversStopped /\ result' = result /\ early' = early
        /\ fails' = fails /\ panicked' = panicked /\ WaitForMount' = WaitForMount
    BY Zenon, <1>1 DEF Driver!ForwardReceive
  <2>4. WhereInv' /\ MountedInv'
    <3>1. WhereInv /\ MountedInv
      BY Zenon
    <3> QED
      BY ONLY <2>1, <2>3, <3>1 DEF WhereInv, MountedInv, Stopping, StopsOne, Driver!D, Driver!AllG,
          Driver!MainG, Driver!CreateG
  <2>5. ASSUME CalmInv PROVE CalmInv'
    <3>1. l = "selectNil" /\ mountErr' = mountErr /\ driversStopped
      BY Zenon, <1>1, <2>0, <2>5 DEF CalmInv, Driver!TypeOK, Driver!ForwardReceive
    <3> QED
      BY ONLY <2>1, <2>3, <2>5, <3>1 DEF CalmInv, Stopping, Driver!D, Driver!AllG, Driver!MainG,
          Driver!FwdG, Driver!CreateG
  <2> QED
    BY ONLY <2>2, <2>3, <2>4, <2>5, DriverInv DEF DriverInv
<1>2. CASE Driver!ForwardSelect
  <2> USE <1>2 DEF Driver!ForwardSelect
  <2>1. Driver!TypeOK'
    BY DEF Driver!TypeOK, WhereInv, Driver!Places
  <2>2. WhereInv'
    BY DEF Driver!TypeOK, WhereInv
  <2>3. MountedInv'
    BY DEF Driver!TypeOK, WhereInv, MountedInv
  <2>4. fails' = 0 /\ ~early' => CalmInv'
    BY DEF Driver!TypeOK, WhereInv, CalmInv
  <2> QED
    BY <2>1, <2>2, <2>3, <2>4
<1>3. CASE Driver!ForwardPanic
  <2> USE <1>3 DEF Driver!ForwardPanic, Driver!Panics
  <2>1. Driver!TypeOK'
    BY DEF Driver!TypeOK, WhereInv, Driver!Places
  <2>2. WhereInv'
    BY DEF Driver!TypeOK, WhereInv
  <2>3. MountedInv'
    BY DEF Driver!TypeOK, WhereInv, MountedInv
  <2>4. fails' = 0 /\ ~early' => CalmInv'
    BY DEF Driver!TypeOK, WhereInv, CalmInv
  <2> QED
    BY <2>1, <2>2, <2>3, <2>4
<1> QED
    BY <1>1, <1>2, <1>3 DEF Driver!Forward

\* create().
LEMMA DriverCreate ==
    ASSUME DriverConstants, DriverInv, Driver!Create
    PROVE  DriverInv'
<1> USE DEF Driver!At, Driver!Goto, DriverConstants, DriverInv, Driver!D, Driver!Goroutines,
            Driver!AllG, Driver!MainG, Driver!FwdG, Driver!CreateG, Stopping, StopsOne
<1>1. CASE Driver!CreateDriverErr
  <2> USE <1>1 DEF Driver!CreateDriverErr
  <2>1. Driver!TypeOK'
    BY Zenon DEF Driver!TypeOK, WhereInv, Driver!Places
  <2>2. WhereInv'
    BY DEF Driver!TypeOK, WhereInv
  <2>3. MountedInv'
    BY DEF Driver!TypeOK, WhereInv, MountedInv
  <2>4. fails' = 0 /\ ~early' => CalmInv'
    BY DEF Driver!TypeOK, WhereInv, CalmInv
  <2> QED
    BY <2>1, <2>2, <2>3, <2>4
<1>2. CASE Driver!CreateMountAll
  <2> USE <1>2 DEF Driver!CreateMountAll
  <2>1. Driver!TypeOK'
    BY Zenon DEF Driver!TypeOK, WhereInv, Driver!Places
  <2>2. WhereInv'
    BY DEF Driver!TypeOK, WhereInv
  <2>3. MountedInv'
    BY DEF Driver!TypeOK, WhereInv, MountedInv
  <2>4. fails' = 0 /\ ~early' => CalmInv'
    BY Zenon DEF Driver!TypeOK, WhereInv, CalmInv
  <2> QED
    BY <2>1, <2>2, <2>3, <2>4
<1>3. CASE Driver!CreateClose
  <2> USE <1>3 DEF Driver!CreateClose
  <2>1. Driver!TypeOK'
    BY DEF Driver!TypeOK, WhereInv, Driver!Places
  <2>2. WhereInv'
    BY DEF Driver!TypeOK, WhereInv
  <2>3. MountedInv'
    BY DEF Driver!TypeOK, WhereInv, MountedInv
  <2>4. fails' = 0 /\ ~early' => CalmInv'
    BY DEF Driver!TypeOK, WhereInv, CalmInv
  <2> QED
    BY <2>1, <2>2, <2>3, <2>4
<1> QED
    BY <1>1, <1>2, <1>3 DEF Driver!Create

\* main, and the cleanup.
LEMMA DriverClean ==
    ASSUME DriverConstants, DriverInv, Driver!CreateFailed \/ Driver!ContainerEnds \/ Driver!Clean
    PROVE  DriverInv'
<1> USE DEF Driver!At, Driver!Goto, DriverConstants, DriverInv, Driver!D, Driver!Goroutines,
            Driver!AllG, Driver!MainG, Driver!FwdG, Driver!CreateG, Stopping, StopsOne
<1>1. CASE Driver!CleanStop
  <2> USE <1>1 DEF Driver!CleanStop
  <2>1. Driver!TypeOK'
    <3>1. pc' \in [Driver!Goroutines \cup {Driver!FwdG, Driver!CreateG} -> Driver!Places]
      BY DEF Driver!TypeOK, Driver!Places
    <3>2. cur' \in [{Driver!AllG, Driver!MainG} -> 0..Drivers]
      BY DEF Driver!TypeOK
    <3> QED
      BY <3>1, <3>2 DEF Driver!TypeOK
  <2>2. WhereInv'
    BY DEF Driver!TypeOK, WhereInv
  <2>3. MountedInv'
    BY DEF Driver!TypeOK, WhereInv, MountedInv
  <2>4. fails' = 0 /\ ~early' => CalmInv'
    BY DEF Driver!TypeOK, WhereInv, CalmInv
  <2> QED
    BY <2>1, <2>2, <2>3, <2>4
<1>2. CASE Driver!CleanUmount
  <2> USE <1>2 DEF Driver!CleanUmount, Driver!Ends
  <2>1. Driver!TypeOK'
    BY Zenon DEF Driver!TypeOK, WhereInv, Driver!Places
  <2>2. WhereInv'
    BY DEF Driver!TypeOK, WhereInv
  <2>3. MountedInv'
    BY Zenon DEF Driver!TypeOK, WhereInv, MountedInv
  <2>4. fails' = 0 /\ ~early' => CalmInv'
    BY Zenon DEF Driver!TypeOK, WhereInv, CalmInv
  <2> QED
    BY <2>1, <2>2, <2>3, <2>4
<1>3. CASE Driver!CleanStopDriver
  <2> USE <1>3 DEF Driver!CleanStopDriver, Driver!Targeted
  <2>1. Driver!TypeOK'
    <3>1. pc' \in [Driver!Goroutines \cup {Driver!FwdG, Driver!CreateG} -> Driver!Places]
      BY DEF Driver!TypeOK, Driver!Places
    <3>2. cur' \in [{Driver!AllG, Driver!MainG} -> 0..Drivers]
      BY DEF Driver!TypeOK, WhereInv
    <3> QED
      BY <3>1, <3>2 DEF Driver!TypeOK
  <2>2. WhereInv'
    BY DEF Driver!TypeOK, WhereInv
  <2>3. MountedInv'
    BY DEF Driver!TypeOK, WhereInv, MountedInv
  <2>4. fails' = 0 /\ ~early' => CalmInv'
    BY Zenon DEF Driver!TypeOK, WhereInv, CalmInv
  <2> QED
    BY <2>1, <2>2, <2>3, <2>4
<1>4. CASE Driver!CreateFailed
  <2> USE <1>4 DEF Driver!CreateFailed
  <2>1. Driver!TypeOK'
    BY DEF Driver!TypeOK, WhereInv, Driver!Places
  <2>2. WhereInv'
    BY DEF Driver!TypeOK, WhereInv
  <2>3. MountedInv'
    BY SMTT(20) DEF Driver!TypeOK, WhereInv, MountedInv
  <2>4. fails' = 0 /\ ~early' => CalmInv'
    BY DEF Driver!TypeOK, WhereInv, CalmInv
  <2> QED
    BY <2>1, <2>2, <2>3, <2>4
<1>5. CASE Driver!ContainerEnds
  <2> USE <1>5 DEF Driver!ContainerEnds
  <2>1. Driver!TypeOK'
    BY SMTT(20) DEF Driver!TypeOK, WhereInv, Driver!Places
  <2>2. WhereInv'
    BY DEF Driver!TypeOK, WhereInv
  <2>3. MountedInv'
    BY SMTT(20) DEF Driver!TypeOK, WhereInv, MountedInv
  <2>4. fails' = 0 /\ ~early' => CalmInv'
    BY Zenon DEF Driver!TypeOK, WhereInv, CalmInv
  <2> QED
    BY <2>1, <2>2, <2>3, <2>4
<1> QED
    BY <1>1, <1>2, <1>3, <1>4, <1>5 DEF Driver!Clean

\* While no driver fails and the container is not killed before create() returned, two
\* goroutines never wait for the same driver process, and the master does not die; and
\* whatever fails, a container runs only on mounts that are
\* there (imagedriver.go:393-453, 544-556; container_linux.go:303-332).
THEOREM DriversSafe ==
    ASSUME DriverConstants
    PROVE  Driver!Spec => []Driver!DriversAreSafe
<1>1. Driver!Init => DriverInv
    BY DriverStarts
<1>2. ASSUME DriverInv, [Driver!Next]_(Driver!vars) PROVE DriverInv'
  <2>1. CASE UNCHANGED Driver!vars
    <3>1. Driver!TypeOK'
      BY Zenon, <1>2, <2>1 DEF Driver!vars, DriverInv, Driver!TypeOK
    <3>2. WhereInv' /\ MountedInv'
      BY SMTT(20), <1>2, <2>1 DEF Driver!vars, DriverInv, WhereInv, MountedInv
    <3>3. fails' = 0 /\ ~early' => CalmInv'
      BY <1>2, <2>1 DEF Driver!vars, DriverInv, CalmInv
    <3> QED
      BY <3>1, <3>2, <3>3 DEF DriverInv
  <2> QED
    BY <1>2, <2>1, DriverProcesses, DriverMountAll, DriverWaits, DriverForward,
        DriverCreate, DriverClean
    DEF Driver!Next
<1>3. DriverInv => Driver!DriversAreSafe
  <2> SUFFICES ASSUME DriverInv PROVE Driver!DriversAreSafe
    BY SMTT(20)
  <2>1. Driver!SharedSafely
    BY DEF DriverInv, CalmInv, Driver!SharedSafely, Driver!Goroutines, Driver!AllG
  <2>2. Driver!MountedBeforeRun
    BY DEF DriverInv, MountedInv, Driver!MountedBeforeRun
  <2> QED
    BY <2>1, <2>2 DEF DriverInv, Driver!DriversAreSafe
<1> QED
    BY <1>1, <1>2, <1>3, PTL DEF Driver!Spec

=============================================================================
