-------------------------- MODULE LoopDeviceProofs --------------------------
(***************************************************************************)
(* The search for a loop device (LoopDevice), for every number of          *)
(* processes, devices, views, runs and crashes, with and without shared    *)
(* devices and whatever system calls fail.                                 *)
(*                                                                         *)
(* The argument: a process has open the device that it looks at (AtDevice) *)
(* and, with shared devices, holds its lock from the open until the status *)
(* is read or set (LocksHeld).  While a device is bound and its status not *)
(* set yet, nobody else has it as the device to mount: without sharing     *)
(* because a bound device is not bound again, with sharing because the     *)
(* status is read under the lock (ViewsKept).  A device marked autoclear   *)
(* has an opener (AutoIsOpen), so that one that is bound and not open was  *)
(* lost by a process killed before the mark, and there are no more of      *)
(* those than crashes (LostAreCrashes).  A device that is mounted all      *)
(* through the search of a process, and that it could look at, is not      *)
(* behind it (CandidatesAhead).                                            *)
(***************************************************************************)
EXTENDS LoopDevice, FiniteSetTheorems, TLAPS

Opens == HasOpen \cup Locking
Owning == {"setStatus", "clear"}
Showing == {"match", "mount", "mounted"}
Sharing == {"share", "shareLock", "status", "match", "differ"}
Attaching == {"attach", "attachLock", "setFd"}

\* A device that a process has open is there.
AtDevice ==
    \A p \in Procs :
        pc[p] \in Opens => cur[p] \in Devices /\ node[cur[p]] = "present"

\* With "shared loop devices" the lock is held while the status is read (shareLoop)
\* and from before the device is bound until its status is set or it is released
\* (attachLoop); without it there is no lock and nothing is shared.
LocksHeld ==
    \A p \in Procs :
        /\ Shared /\ pc[p] \in {"status"} \cup Setting => lock[cur[p]] = p
        /\ ~Shared => pc[p] \notin Sharing \cup {"attachLock"}

\* The device of a process that has found or bound one gives its view, and one whose
\* status is still to be set is nobody else's.
ViewsKept ==
    \A p \in Procs :
        /\ pc[p] \in Showing => Gives(cur[p], want[p])
        /\ pc[p] = "setStatus" =>
              /\ device[cur[p]].file = want[p].file
              /\ device[cur[p]].ro = want[p].ro
              /\ \A q \in Procs \ {p} :
                    cur[q] = cur[p] => pc[q] \notin Showing \cup {"setStatus"}

AutoIsOpen ==
    \A d \in Devices : device[d].auto => \E p \in Procs : Opening(p, d)

\* The devices that are bound, not marked and without the process that bound them.
Lost ==
    {d \in Devices : /\ device[d].file \notin {None, Foreign}
                     /\ ~device[d].auto
                     /\ \A p \in Procs : cur[p] = d => pc[p] \notin Owning}

LostAreCrashes == Cardinality(Lost) <= crashes

\* The candidates of a process are mounted as it wants, and its search has not
\* passed them.
CandidatesAhead ==
    \A p \in Procs :
        /\ \A d \in candidates[p] : MountedAs(d, want[p])
        /\ Shared /\ pc[p] \in {"share", "shareLock", "status"}
              => \A d \in candidates[p] : cur[p] <= d
        /\ Shared /\ pc[p] = "differ" => \A d \in candidates[p] : cur[p] < d
        /\ Shared /\ pc[p] \in Attaching => candidates[p] = {}

Inv ==
    /\ TypeOK /\ AtDevice /\ LocksHeld /\ ViewsKept /\ AutoIsOpen /\ LostAreCrashes
    /\ CandidatesAhead

\* What a device holds: whose file, from which offset, and its modes.
Record ==
    [file : {v.file : v \in Views} \cup {None, Foreign},
     offset : {0} \cup {v.offset : v \in Views},
     ro : BOOLEAN, auto : BOOLEAN]

\* Where a process can be.
Places ==
    {"idle", "share", "attach", "noDevice", "noOpen", "failed"} \cup HasOpen \cup Locking

\* The types of the devices and of where the processes are, and those of the counters.
Typed ==
    /\ pc \in [Procs -> Places] /\ cur \in [Procs -> 0 .. MaxLoopDevices]
    /\ want \in [Procs -> Views] /\ device \in [Devices -> Record]
    /\ lock \in [Devices -> Procs \cup {None}] /\ node \in Nodes

Counted ==
    /\ Shared \in BOOLEAN
    /\ retry \in [Procs -> 0 .. sleepRetries + 2]
    /\ runs \in [Procs -> 0 .. MaxRuns] /\ crashes \in 0 .. MaxCrashes

-----------------------------------------------------------------------------
\* The parts of the invariant.
LEMMA Parts ==
    ASSUME Inv
    PROVE  /\ Typed /\ Counted /\ AtDevice /\ LocksHeld /\ ViewsKept
           /\ AutoIsOpen /\ CandidatesAhead
  BY DEF Inv, TypeOK, Typed, Counted, Places, Record

\* What closing a device changes: it is cleared if it is marked and nobody else has it
\* open.
LEMMA Closing ==
    ASSUME NEW p \in Procs, NEW d \in Devices, device \in [Devices -> Record]
    PROVE  /\ Closed(p, d) \in [Devices -> Record]
           /\ \A e \in Devices :
                 \/ Closed(p, d)[e] = device[e]
                 \/ /\ e = d /\ device[e].auto /\ Closed(p, d)[e] = Free
                    /\ \A q \in Procs \ {p} : ~Opening(q, e)
           /\ Closed(p, d)[d].auto => \E q \in Procs \ {p} : Opening(q, d)
<1>1. Free \in Record
  BY DEF Free, Record
<1>2. ~Free.auto
  BY DEF Free
<1>. QED
  BY <1>1, <1>2 DEF Closed, Openers

\* The fields of a device's record keep their types.
LEMMA FieldTypes ==
    ASSUME NEW r \in Record
    PROVE  /\ [r EXCEPT !.auto = TRUE] \in Record
           /\ \A v \in Views : [r EXCEPT !.offset = v.offset] \in Record
  BY Zenon DEF Record

\* Closing a device takes from no other process what it has open.
LEMMA OpenStays ==
    ASSUME Inv, NEW p \in Procs, NEW d \in Devices, NEW q \in Procs \ {p}, pc[q] \in Opens
    PROVE  Closed(p, d)[cur[q]] = device[cur[q]]
<1>1. device \in [Devices -> Record]
  BY Parts DEF Typed
<1>2. cur[q] \in Devices /\ Opening(q, cur[q])
  BY Parts DEF AtDevice, Opening, Opens
<1>. QED
  BY <1>1, <1>2, Closing

\* A step of one process leaves where the others are alone.
LEMMA Others ==
    ASSUME Inv, NEW p \in Procs, Step(p) \/ Skips(p) \/ Crash(p)
    PROVE  /\ pc' \in [Procs -> Places] /\ Shared' = Shared
           /\ \A q \in Procs \ {p} : pc'[q] = pc[q] /\ cur'[q] = cur[q] /\ want'[q] = want[q]
<1>. USE Parts DEF Typed, Goto, Places, HasOpen, Locking, Setting
<1>1. ASSUME NEW v \in Views, LoopDevice(p, v)
      PROVE  /\ pc' \in [Procs -> Places] /\ Shared' = Shared
             /\ \A q \in Procs \ {p} :
                   pc'[q] = pc[q] /\ cur'[q] = cur[q] /\ want'[q] = want[q]
  BY <1>1 DEF LoopDevice
<1>2. CASE ShareOpen(p)
  BY <1>2 DEF ShareOpen, NextDevice
<1>3. CASE TakeLock(p)
  BY <1>3 DEF TakeLock
<1>4. CASE ShareStatus(p)
  BY <1>4 DEF ShareStatus, Unlocked
<1>5. CASE ShareFound(p)
  BY <1>5 DEF ShareFound
<1>6. CASE ShareNext(p)
  BY <1>6 DEF ShareNext, NextDevice
<1>7. CASE ShareNone(p)
  BY <1>7 DEF ShareNone
<1>8. CASE AttachOpen(p)
  BY <1>8 DEF AttachOpen
<1>9. CASE SetFd(p)
  BY <1>9 DEF SetFd, Unlocked, NextDevice
<1>10. CASE SetStatus(p)
  BY <1>10 DEF SetStatus, Unlocked, NoRetry
<1>11. CASE SetStatusAgain(p)
  BY <1>11 DEF SetStatusAgain, NoRetry
<1>12. CASE SetStatusFails(p)
  BY <1>12 DEF SetStatusFails, NoRetry
<1>13. CASE ClearFd(p)
  BY <1>13 DEF ClearFd
<1>14. CASE ReleaseDevice(p)
  BY <1>14 DEF ReleaseDevice, Unlocked
<1>15. CASE AttachNone(p)
  BY <1>15 DEF AttachNone
<1>16. CASE MountImage(p)
  BY <1>16 DEF MountImage
<1>17. CASE MountImageFails(p)
  BY <1>17 DEF MountImageFails
<1>18. CASE Ends(p)
  BY <1>18 DEF Ends, Gone, Unlocked, NoRetry
<1>19. CASE Crash(p)
  BY <1>19 DEF Crash, Gone, Unlocked, NoRetry
<1>20. CASE ShareSkips(p)
  BY <1>20 DEF ShareSkips, NextDevice
<1>21. CASE ShareUnread(p)
  BY <1>21 DEF ShareUnread, Unlocked
<1>22. CASE AttachLockFails(p)
  BY <1>22 DEF AttachLockFails
<1>. QED
  BY <1>1, <1>2, <1>3, <1>4, <1>5, <1>6, <1>7, <1>8, <1>9, <1>10, <1>11, <1>12, <1>13, <1>14,
     <1>15, <1>16, <1>17, <1>18, <1>19, <1>20, <1>21, <1>22 DEF Step, Skips

\* Types are kept by every step: the index stays within the devices, since a device is
\* passed only while it is one of them.
LEMMA TypedKept ==
    ASSUME Inv, NEW p \in Procs, Step(p) \/ Skips(p) \/ Crash(p)
    PROVE  Typed'
<1>i. Typed /\ Counted /\ AtDevice /\ LocksHeld /\ ViewsKept
  BY Parts
<1>d. pc' \in [Procs -> Places]
  BY Others
<1>v. AnyView \in Views
  BY LoopAssumption DEF AnyView
<1>1. ASSUME NEW v \in Views, LoopDevice(p, v)
      PROVE  Typed'
  BY <1>1, <1>i, <1>d, LoopAssumption DEF LoopDevice, Typed
<1>2. CASE ShareOpen(p)
  <2>4. cur' \in [Procs -> 0 .. MaxLoopDevices]
    <3>1. cur[p] \in Devices
      BY <1>2, <1>i DEF ShareOpen, AtDevice, Opens, HasOpen, Locking, Setting
    <3>2. cur[p] + 1 \in 0 .. MaxLoopDevices
      BY <3>1, LoopAssumption DEF Devices
    <3>. QED
      BY <1>2, <1>i, <3>2 DEF ShareOpen, NextDevice, Typed
  <2>. QED
    BY <1>2, <1>i, <1>d, <2>4 DEF ShareOpen, Typed
<1>3. CASE TakeLock(p)
  BY <1>3, <1>i, <1>d DEF TakeLock, Typed, AtDevice, Opens, Locking
<1>4. CASE ShareStatus(p)
  BY <1>4, <1>i, <1>d DEF ShareStatus, Unlocked, Typed
<1>5. CASE ShareFound(p)
  BY <1>5, <1>i, <1>d DEF ShareFound, Typed
<1>6. CASE ShareNext(p)
  <2>1. device' = device \/ (cur[p] \in Devices /\ device' = Closed(p, cur[p]))
    BY <1>6, <1>i DEF ShareNext, AtDevice, Opens, HasOpen, Locking, Setting
  <2>3. device' \in [Devices -> Record]
    BY <1>i, <2>1, Closing DEF Typed
  <2>4. cur' \in [Procs -> 0 .. MaxLoopDevices]
    <3>1. cur[p] \in Devices
      BY <1>6, <1>i DEF ShareNext, AtDevice, Opens, HasOpen, Locking, Setting
    <3>2. cur[p] + 1 \in 0 .. MaxLoopDevices
      BY <3>1, LoopAssumption DEF Devices
    <3>. QED
      BY <1>6, <1>i, <3>2 DEF ShareNext, NextDevice, Typed
  <2>. QED
    BY <1>6, <1>i, <1>d, <2>3, <2>4 DEF ShareNext, Typed
<1>7. CASE ShareNone(p)
  BY <1>7, <1>i, <1>d, LoopAssumption DEF ShareNone, Typed
<1>8. CASE AttachOpen(p)
  BY <1>8, <1>i, <1>d DEF AttachOpen, Typed, Nodes
<1>9. CASE SetFd(p)
  <2>1. cur[p] \in Devices /\ want[p] \in Views
    BY <1>9, <1>i DEF SetFd, Typed, AtDevice, Opens, HasOpen, Locking, Setting
  <2>2. [file |-> want[p].file, offset |-> 0, ro |-> want[p].ro, auto |-> FALSE] \in Record
    BY <2>1, LoopAssumption DEF Record
  <2>3. device' \in [Devices -> Record]
    <3>1. Closed(p, cur[p]) \in [Devices -> Record]
      BY <1>i, <2>1, Closing DEF Typed
    <3>. QED
      BY Zenon, <1>9, <1>i, <2>1, <2>2, <3>1 DEF SetFd, Typed
  <2>4. cur' \in [Procs -> 0 .. MaxLoopDevices]
    <3>1. cur[p] \in Devices
      BY <1>9, <1>i DEF SetFd, AtDevice, Opens, HasOpen, Locking, Setting
    <3>2. cur[p] + 1 \in 0 .. MaxLoopDevices
      BY <3>1, LoopAssumption DEF Devices
    <3>. QED
      BY <1>9, <1>i, <3>2 DEF SetFd, NextDevice, Typed
  <2>. QED
    BY <1>9, <1>i, <1>d, <2>3, <2>4 DEF SetFd, Unlocked, Typed
<1>10. CASE SetStatus(p)
  <2>1. cur[p] \in Devices /\ want[p] \in Views /\ device[cur[p]] \in Record
    BY <1>10, <1>i DEF SetStatus, Typed, AtDevice, Opens, HasOpen, Locking, Setting
  <2>2. [device[cur[p]] EXCEPT !.offset = want[p].offset, !.auto = TRUE] \in Record
    BY Zenon, <2>1, FieldTypes
  <2>3. device' \in [Devices -> Record]
    BY <1>10, <1>i, <2>1, <2>2 DEF SetStatus, Typed
  <2>. QED
    BY <1>10, <1>i, <1>d, <2>3 DEF SetStatus, Unlocked, Typed
<1>11. CASE SetStatusAgain(p)
  BY <1>11, <1>i, <1>d DEF SetStatusAgain, Typed
<1>12. CASE SetStatusFails(p)
  BY <1>12, <1>i, <1>d DEF SetStatusFails, Typed
<1>13. CASE ClearFd(p)
  <2>1. cur[p] \in Devices /\ device[cur[p]] \in Record
    BY <1>13, <1>i DEF ClearFd, Typed, AtDevice, Opens, HasOpen, Locking, Setting
  <2>2. Free \in Record /\ [device[cur[p]] EXCEPT !.auto = TRUE] \in Record
    <3>1. Free \in Record
      BY DEF Free, Record
    <3>. QED
      BY <2>1, <3>1, FieldTypes
  <2>3. device' \in [Devices -> Record]
    BY <1>13, <1>i, <2>1, <2>2 DEF ClearFd, Typed
  <2>. QED
    BY <1>13, <1>i, <1>d, <2>3 DEF ClearFd, Typed
<1>14. CASE ReleaseDevice(p)
  <2>1. device' = device \/ (cur[p] \in Devices /\ device' = Closed(p, cur[p]))
    BY <1>14, <1>i DEF ReleaseDevice, AtDevice, Opens, HasOpen, Locking, Setting
  <2>3. device' \in [Devices -> Record]
    BY <1>i, <2>1, Closing DEF Typed
  <2>. QED
    BY <1>14, <1>i, <1>d, <2>3 DEF ReleaseDevice, Unlocked, Typed
<1>15. CASE AttachNone(p)
  BY <1>15, <1>i, <1>d DEF AttachNone, Typed
<1>16. CASE MountImage(p)
  BY <1>16, <1>i, <1>d DEF MountImage, Typed
<1>17. CASE MountImageFails(p)
  <2>1. device' = device \/ (cur[p] \in Devices /\ device' = Closed(p, cur[p]))
    BY <1>17, <1>i DEF MountImageFails, AtDevice, Opens, HasOpen, Locking, Setting
  <2>3. device' \in [Devices -> Record]
    BY <1>i, <2>1, Closing DEF Typed
  <2>. QED
    BY <1>17, <1>i, <1>d, <2>3 DEF MountImageFails, Typed
<1>18. CASE Ends(p)
  <2>1. device' = device \/ (cur[p] \in Devices /\ device' = Closed(p, cur[p]))
    BY <1>18, <1>i DEF Ends, AtDevice, Opens, HasOpen, Locking, Setting
  <2>3. device' \in [Devices -> Record]
    BY <1>i, <2>1, Closing DEF Typed
  <2>. QED
    BY <1>18, <1>i, <1>d, <1>v, <2>3, LoopAssumption DEF Ends, Gone, Unlocked, Typed
<1>19. CASE Crash(p)
  <2>1. device' = device \/ (cur[p] \in Devices /\ device' = Closed(p, cur[p]))
    BY <1>19, <1>i DEF Crash, AtDevice, Opens, HasOpen, Locking, Setting, Opening
  <2>3. device' \in [Devices -> Record]
    BY <1>i, <2>1, Closing DEF Typed
  <2>. QED
    BY <1>19, <1>i, <1>d, <1>v, <2>3, LoopAssumption DEF Crash, Gone, Unlocked, Typed
<1>20. CASE ShareSkips(p)
  <2>1. device' = device \/ (cur[p] \in Devices /\ device' = Closed(p, cur[p]))
    BY <1>20, <1>i DEF ShareSkips, AtDevice, Opens, HasOpen, Locking, Setting
  <2>3. device' \in [Devices -> Record]
    BY <1>i, <2>1, Closing DEF Typed
  <2>4. cur' \in [Procs -> 0 .. MaxLoopDevices]
    <3>1. cur[p] \in Devices
      BY <1>20 DEF ShareSkips
    <3>2. cur[p] + 1 \in 0 .. MaxLoopDevices
      BY <3>1, LoopAssumption DEF Devices
    <3>. QED
      BY <1>20, <1>i, <3>2 DEF ShareSkips, NextDevice, Typed
  <2>. QED
    BY <1>20, <1>i, <1>d, <2>3, <2>4 DEF ShareSkips, Typed
<1>21. CASE ShareUnread(p)
  BY <1>21, <1>i, <1>d DEF ShareUnread, Unlocked, Typed
<1>22. CASE AttachLockFails(p)
  <2>1. device' = device \/ (cur[p] \in Devices /\ device' = Closed(p, cur[p]))
    BY <1>22, <1>i DEF AttachLockFails, AtDevice, Opens, HasOpen, Locking, Setting
  <2>3. device' \in [Devices -> Record]
    BY <1>i, <2>1, Closing DEF Typed
  <2>. QED
    BY <1>22, <1>i, <1>d, <2>3 DEF AttachLockFails, Typed
<1>. QED
  BY <1>1, <1>2, <1>3, <1>4, <1>5, <1>6, <1>7, <1>8, <1>9, <1>10, <1>11, <1>12, <1>13, <1>14,
     <1>15, <1>16, <1>17, <1>18, <1>19, <1>20, <1>21, <1>22 DEF Step, Skips

\* The counters stay within their bounds.
LEMMA CountedKept ==
    ASSUME Inv, NEW p \in Procs, Step(p) \/ Skips(p) \/ Crash(p)
    PROVE  Counted'
<1>i. Typed /\ Counted /\ AtDevice /\ LocksHeld /\ ViewsKept
  BY Parts
<1>1. ASSUME NEW v \in Views, LoopDevice(p, v)
      PROVE  Counted'
  BY <1>1, <1>i, LoopAssumption DEF LoopDevice, Counted
<1>2. CASE ShareOpen(p)
  BY <1>2, <1>i, LoopAssumption DEF ShareOpen, Counted
<1>3. CASE TakeLock(p)
  BY <1>3, <1>i, LoopAssumption DEF TakeLock, Counted
<1>4. CASE ShareStatus(p)
  BY <1>4, <1>i, LoopAssumption DEF ShareStatus, Counted
<1>5. CASE ShareFound(p)
  BY <1>5, <1>i, LoopAssumption DEF ShareFound, Counted
<1>6. CASE ShareNext(p)
  BY <1>6, <1>i, LoopAssumption DEF ShareNext, Counted
<1>7. CASE ShareNone(p)
  BY <1>7, <1>i, LoopAssumption DEF ShareNone, Counted
<1>8. CASE AttachOpen(p)
  BY <1>8, <1>i, LoopAssumption DEF AttachOpen, Counted
<1>9. CASE SetFd(p)
  BY <1>9, <1>i, LoopAssumption DEF SetFd, Counted
<1>10. CASE SetStatus(p)
  BY <1>10, <1>i, LoopAssumption DEF SetStatus, NoRetry, Counted
<1>11. CASE SetStatusAgain(p)
  BY <1>11, <1>i, LoopAssumption DEF SetStatusAgain, NoRetry, Counted
<1>12. CASE SetStatusFails(p)
  BY <1>12, <1>i, LoopAssumption DEF SetStatusFails, NoRetry, Counted
<1>13. CASE ClearFd(p)
  BY <1>13, <1>i, LoopAssumption DEF ClearFd, Counted
<1>14. CASE ReleaseDevice(p)
  BY <1>14, <1>i, LoopAssumption DEF ReleaseDevice, Counted
<1>15. CASE AttachNone(p)
  BY <1>15, <1>i, LoopAssumption DEF AttachNone, Counted
<1>16. CASE MountImage(p)
  BY <1>16, <1>i, LoopAssumption DEF MountImage, Counted
<1>17. CASE MountImageFails(p)
  BY <1>17, <1>i, LoopAssumption DEF MountImageFails, Counted
<1>18. CASE Ends(p)
  BY <1>18, <1>i, LoopAssumption DEF Ends, Gone, NoRetry, Counted
<1>19. CASE Crash(p)
  BY <1>19, <1>i, LoopAssumption DEF Crash, Gone, NoRetry, Counted
<1>20. CASE ShareSkips(p)
  BY <1>20, <1>i, LoopAssumption DEF ShareSkips, Counted
<1>21. CASE ShareUnread(p)
  BY <1>21, <1>i, LoopAssumption DEF ShareUnread, Counted
<1>22. CASE AttachLockFails(p)
  BY <1>22, <1>i, LoopAssumption DEF AttachLockFails, Counted
<1>. QED
  BY <1>1, <1>2, <1>3, <1>4, <1>5, <1>6, <1>7, <1>8, <1>9, <1>10, <1>11, <1>12, <1>13, <1>14,
     <1>15, <1>16, <1>17, <1>18, <1>19, <1>20, <1>21, <1>22 DEF Step, Skips

\* Whatever a process opens is there, and /dev/loopN does not go away.
LEMMA AtKept ==
    ASSUME Inv, NEW p \in Procs, Step(p) \/ Skips(p) \/ Crash(p)
    PROVE  AtDevice'
<1>i. Typed /\ Counted /\ AtDevice /\ LocksHeld /\ ViewsKept
  BY Parts
<1>o. \A q \in Procs \ {p} : pc'[q] = pc[q] /\ cur'[q] = cur[q]
  BY Others
<1>1. ASSUME NEW v \in Views, LoopDevice(p, v)
      PROVE  AtDevice'
  BY <1>1, <1>i, <1>o DEF LoopDevice, Goto, Typed, Nodes, AtDevice, Opens, HasOpen, Locking,
     Setting
<1>2. CASE ShareOpen(p)
  BY <1>2, <1>i, <1>o DEF ShareOpen, Goto, NextDevice, Typed, Nodes, AtDevice, Opens,
     HasOpen, Locking, Setting
<1>3. CASE TakeLock(p)
  BY <1>3, <1>i, <1>o DEF TakeLock, Goto, Typed, Nodes, AtDevice, Opens, HasOpen, Locking,
     Setting
<1>4. CASE ShareStatus(p)
  BY <1>4, <1>i, <1>o DEF ShareStatus, Goto, Typed, Nodes, AtDevice, Opens, HasOpen, Locking,
     Setting
<1>5. CASE ShareFound(p)
  BY <1>5, <1>i, <1>o DEF ShareFound, Goto, Typed, Nodes, AtDevice, Opens, HasOpen, Locking,
     Setting
<1>6. CASE ShareNext(p)
  BY <1>6, <1>i, <1>o DEF ShareNext, Goto, NextDevice, Typed, Nodes, AtDevice, Opens,
     HasOpen, Locking, Setting
<1>7. CASE ShareNone(p)
  BY <1>7, <1>i, <1>o DEF ShareNone, Goto, Typed, Nodes, AtDevice, Opens, HasOpen, Locking,
     Setting
<1>8. CASE AttachOpen(p)
  BY <1>8, <1>i, <1>o DEF AttachOpen, Goto, Typed, Nodes, AtDevice, Opens, HasOpen, Locking,
     Setting
<1>9. CASE SetFd(p)
  BY <1>9, <1>i, <1>o DEF SetFd, Goto, NextDevice, Typed, Nodes, AtDevice, Opens, HasOpen,
     Locking, Setting
<1>10. CASE SetStatus(p)
  BY <1>10, <1>i, <1>o DEF SetStatus, Goto, Typed, Nodes, AtDevice, Opens, HasOpen, Locking,
     Setting
<1>11. CASE SetStatusAgain(p)
  BY <1>11, <1>i, <1>o DEF SetStatusAgain, Goto, Typed, Nodes, AtDevice, Opens, HasOpen,
     Locking, Setting
<1>12. CASE SetStatusFails(p)
  BY <1>12, <1>i, <1>o DEF SetStatusFails, Goto, Typed, Nodes, AtDevice, Opens, HasOpen,
     Locking, Setting
<1>13. CASE ClearFd(p)
  BY <1>13, <1>i, <1>o DEF ClearFd, Goto, Typed, Nodes, AtDevice, Opens, HasOpen, Locking,
     Setting
<1>14. CASE ReleaseDevice(p)
  BY <1>14, <1>i, <1>o DEF ReleaseDevice, Goto, Typed, Nodes, AtDevice, Opens, HasOpen,
     Locking, Setting
<1>15. CASE AttachNone(p)
  BY <1>15, <1>i, <1>o DEF AttachNone, Goto, Typed, Nodes, AtDevice, Opens, HasOpen, Locking,
     Setting
<1>16. CASE MountImage(p)
  BY <1>16, <1>i, <1>o DEF MountImage, Goto, Typed, Nodes, AtDevice, Opens, HasOpen, Locking,
     Setting
<1>17. CASE MountImageFails(p)
  BY <1>17, <1>i, <1>o DEF MountImageFails, Goto, Typed, Nodes, AtDevice, Opens, HasOpen,
     Locking, Setting
<1>18. CASE Ends(p)
  BY <1>18, <1>i, <1>o DEF Ends, Goto, Gone, Typed, Nodes, AtDevice, Opens, HasOpen, Locking,
     Setting
<1>19. CASE Crash(p)
  BY <1>19, <1>i, <1>o DEF Crash, Goto, Gone, Typed, Nodes, AtDevice, Opens, HasOpen,
     Locking, Setting
<1>20. CASE ShareSkips(p)
  BY <1>20, <1>i, <1>o DEF ShareSkips, Goto, NextDevice, Typed, Nodes, AtDevice, Opens,
     HasOpen, Locking, Setting
<1>21. CASE ShareUnread(p)
  BY <1>21, <1>i, <1>o DEF ShareUnread, Goto, Typed, Nodes, AtDevice, Opens, HasOpen, Locking,
     Setting
<1>22. CASE AttachLockFails(p)
  BY <1>22, <1>i, <1>o DEF AttachLockFails, Goto, Typed, Nodes, AtDevice, Opens, HasOpen,
     Locking, Setting
<1>. QED
  BY <1>1, <1>2, <1>3, <1>4, <1>5, <1>6, <1>7, <1>8, <1>9, <1>10, <1>11, <1>12, <1>13, <1>14,
     <1>15, <1>16, <1>17, <1>18, <1>19, <1>20, <1>21, <1>22 DEF Step, Skips

\* Nobody takes a lock that is held, and a process gives up its own only.
LEMMA LocksKept ==
    ASSUME Inv, NEW p \in Procs, Step(p) \/ Skips(p) \/ Crash(p)
    PROVE  LocksHeld'
<1>i. Typed /\ Counted /\ AtDevice /\ LocksHeld /\ ViewsKept
  BY Parts
<1>o. Shared' = Shared /\ \A q \in Procs \ {p} : pc'[q] = pc[q] /\ cur'[q] = cur[q]
  BY Others
<1>1. ASSUME NEW v \in Views, LoopDevice(p, v)
      PROVE  LocksHeld'
  BY <1>1, <1>i, <1>o DEF LoopDevice, Goto, Typed, AtDevice, LocksHeld, Opens, HasOpen,
     Locking, Setting, Sharing
<1>2. CASE ShareOpen(p)
  BY <1>2, <1>i, <1>o DEF ShareOpen, Goto, NextDevice, Typed, AtDevice, LocksHeld, Opens,
     HasOpen, Locking, Setting, Sharing
<1>3. CASE TakeLock(p)
  BY <1>3, <1>i, <1>o, LoopAssumption DEF TakeLock, Goto, Typed, AtDevice, LocksHeld, Opens,
     HasOpen, Locking, Setting, Sharing
<1>4. CASE ShareStatus(p)
  BY <1>4, <1>i, <1>o DEF ShareStatus, Goto, Unlocked, Typed, AtDevice, LocksHeld, Opens,
     HasOpen, Locking, Setting, Sharing
<1>5. CASE ShareFound(p)
  BY <1>5, <1>i, <1>o DEF ShareFound, Goto, Typed, AtDevice, LocksHeld, Opens, HasOpen,
     Locking, Setting, Sharing
<1>6. CASE ShareNext(p)
  BY <1>6, <1>i, <1>o DEF ShareNext, Goto, NextDevice, Typed, AtDevice, LocksHeld, Opens,
     HasOpen, Locking, Setting, Sharing
<1>7. CASE ShareNone(p)
  BY <1>7, <1>i, <1>o DEF ShareNone, Goto, Typed, AtDevice, LocksHeld, Opens, HasOpen,
     Locking, Setting, Sharing
<1>8. CASE AttachOpen(p)
  BY <1>8, <1>i, <1>o DEF AttachOpen, Goto, Typed, AtDevice, LocksHeld, Opens, HasOpen,
     Locking, Setting, Sharing
<1>9. CASE SetFd(p)
  BY <1>9, <1>i, <1>o, LoopAssumption DEF SetFd, Goto, Unlocked, NextDevice, Typed, AtDevice,
     LocksHeld, Opens, HasOpen, Locking, Setting, Sharing
<1>10. CASE SetStatus(p)
  BY <1>10, <1>i, <1>o DEF SetStatus, Goto, Unlocked, Typed, AtDevice, LocksHeld, Opens,
     HasOpen, Locking, Setting, Sharing
<1>11. CASE SetStatusAgain(p)
  BY <1>11, <1>i, <1>o DEF SetStatusAgain, Goto, Typed, AtDevice, LocksHeld, Opens, HasOpen,
     Locking, Setting, Sharing
<1>12. CASE SetStatusFails(p)
  BY <1>12, <1>i, <1>o DEF SetStatusFails, Goto, Typed, AtDevice, LocksHeld, Opens, HasOpen,
     Locking, Setting, Sharing
<1>13. CASE ClearFd(p)
  BY <1>13, <1>i, <1>o DEF ClearFd, Goto, Typed, AtDevice, LocksHeld, Opens, HasOpen,
     Locking, Setting, Sharing
<1>14. CASE ReleaseDevice(p)
  BY <1>14, <1>i, <1>o DEF ReleaseDevice, Goto, Unlocked, Typed, AtDevice, LocksHeld, Opens,
     HasOpen, Locking, Setting, Sharing
<1>15. CASE AttachNone(p)
  BY <1>15, <1>i, <1>o DEF AttachNone, Goto, Typed, AtDevice, LocksHeld, Opens, HasOpen,
     Locking, Setting, Sharing
<1>16. CASE MountImage(p)
  BY <1>16, <1>i, <1>o DEF MountImage, Goto, Typed, AtDevice, LocksHeld, Opens, HasOpen,
     Locking, Setting, Sharing
<1>17. CASE MountImageFails(p)
  BY <1>17, <1>i, <1>o DEF MountImageFails, Goto, Typed, AtDevice, LocksHeld, Opens, HasOpen,
     Locking, Setting, Sharing
<1>18. CASE Ends(p)
  BY <1>18, <1>i, <1>o DEF Ends, Goto, Gone, Unlocked, Typed, AtDevice, LocksHeld, Opens,
     HasOpen, Locking, Setting, Sharing
<1>19. CASE Crash(p)
  BY <1>19, <1>i, <1>o DEF Crash, Goto, Gone, Unlocked, Typed, AtDevice, LocksHeld, Opens,
     HasOpen, Locking, Setting, Sharing
<1>20. CASE ShareSkips(p)
  BY <1>20, <1>i, <1>o DEF ShareSkips, Goto, NextDevice, Typed, AtDevice, LocksHeld, Opens,
     HasOpen, Locking, Setting, Sharing
<1>21. CASE ShareUnread(p)
  BY <1>21, <1>i, <1>o DEF ShareUnread, Goto, Unlocked, Typed, AtDevice, LocksHeld, Opens,
     HasOpen, Locking, Setting, Sharing
<1>22. CASE AttachLockFails(p)
  BY <1>22, <1>i, <1>o DEF AttachLockFails, Goto, Typed, AtDevice, LocksHeld, Opens, HasOpen,
     Locking, Setting, Sharing
<1>. QED
  BY <1>1, <1>2, <1>3, <1>4, <1>5, <1>6, <1>7, <1>8, <1>9, <1>10, <1>11, <1>12, <1>13, <1>14,
     <1>15, <1>16, <1>17, <1>18, <1>19, <1>20, <1>21, <1>22 DEF Step, Skips

\* A step after which a process has nothing found or bound, and that leaves what the
\* others have open alone.
LEMMA Leaves ==
    ASSUME Inv, NEW p \in Procs, Step(p) \/ Skips(p) \/ Crash(p),
           pc'[p] \notin Showing \cup {"setStatus"},
           \A q \in Procs \ {p} : pc[q] \in Opens => device'[cur[q]] = device[cur[q]]
    PROVE  ViewsKept'
  BY Others, Parts DEF ViewsKept, Gives, Showing, Opens, HasOpen, Setting

\* A step that changes no device, after which a process still has, or has not, found
\* or bound one.
LEMMA Stays ==
    ASSUME Inv, NEW p \in Procs, Step(p) \/ Skips(p) \/ Crash(p), device' = device,
           \/ pc'[p] \notin Showing \cup {"setStatus"}
           \/ /\ pc[p] \in Showing \cup {"setStatus"} /\ cur'[p] = cur[p] /\ want'[p] = want[p]
              /\ pc'[p] = pc[p] \/ (pc[p] \in Showing /\ pc'[p] \in Showing)
    PROVE  ViewsKept'
  BY Others, Parts DEF ViewsKept, Gives, Showing

\* Nobody changes a device that another one has found or bound.
LEMMA ViewsAreKept ==
    ASSUME Inv, NEW p \in Procs, Step(p) \/ Skips(p) \/ Crash(p)
    PROVE  ViewsKept'
<1>i. Typed /\ Counted /\ AtDevice /\ LocksHeld /\ ViewsKept
  BY Parts
<1>1. ASSUME NEW v \in Views, LoopDevice(p, v)
      PROVE  ViewsKept'
  <2>1. device' = device
    BY <1>1 DEF LoopDevice
  <2>2. \/ pc'[p] \notin Showing \cup {"setStatus"}
        \/ pc[p] \in Showing /\ pc'[p] \in Showing /\ cur' = cur /\ want' = want
    BY <1>1, <1>i DEF LoopDevice, Goto, Typed, Showing
  <2>. QED
    BY <2>1, <2>2, Stays
<1>2. CASE ShareOpen(p)
  <2>1. device' = device
    BY <1>2 DEF ShareOpen
  <2>2. \/ pc'[p] \notin Showing \cup {"setStatus"}
        \/ pc[p] \in Showing /\ pc'[p] \in Showing /\ cur' = cur /\ want' = want
    BY <1>2, <1>i DEF ShareOpen, Goto, Typed, Showing
  <2>. QED
    BY SMTT(20), <2>1, <2>2, Stays
<1>3. CASE TakeLock(p)
  <2>1. device' = device
    BY <1>3 DEF TakeLock
  <2>2. \/ pc'[p] \notin Showing \cup {"setStatus"}
        \/ pc[p] \in Showing /\ pc'[p] \in Showing /\ cur' = cur /\ want' = want
    BY SMTT(20), <1>3, <1>i DEF TakeLock, Goto, Typed, Showing
  <2>. QED
    BY <2>1, <2>2, Stays
<1>4. CASE ShareStatus(p)
  <2>1. device' = device /\ cur' = cur /\ want' = want /\ pc[p] = "status"
    BY <1>4 DEF ShareStatus
  <2>2. pc'[p] = "differ" \/ (pc'[p] = "match" /\ Gives(cur[p], want[p]))
    BY <1>4, <1>i DEF ShareStatus, Goto, Typed
  <2>3. \A q \in Procs \ {p} : pc[q] = "setStatus" => cur[q] # cur[p]
    BY <1>i, <2>1 DEF LocksHeld, Setting, Sharing
  <2>. QED
    BY SMTT(20), <1>i, <2>1, <2>2, <2>3, Others DEF ViewsKept, Gives, Showing
<1>5. CASE ShareFound(p)
  <2>1. device' = device
    BY <1>5 DEF ShareFound
  <2>2. \/ pc'[p] \notin Showing \cup {"setStatus"}
        \/ pc[p] \in Showing /\ pc'[p] \in Showing /\ cur' = cur /\ want' = want
    BY <1>5, <1>i DEF ShareFound, Goto, Typed, Showing
  <2>. QED
    BY <2>1, <2>2, Stays
<1>6. CASE ShareNext(p)
  <2>1. device' = device \/ (cur[p] \in Devices /\ device' = Closed(p, cur[p]))
    BY <1>6, <1>i DEF ShareNext, AtDevice, Opens, HasOpen, Locking, Setting
  <2>2. \A q \in Procs \ {p} : pc[q] \in Opens => device'[cur[q]] = device[cur[q]]
    BY <2>1, OpenStays
  <2>3. pc'[p] \notin Showing \cup {"setStatus"}
    BY <1>6, <1>i DEF ShareNext, Goto, Typed, Showing
  <2>. QED
    BY <2>2, <2>3, Leaves
<1>7. CASE ShareNone(p)
  <2>1. device' = device
    BY <1>7 DEF ShareNone
  <2>2. \/ pc'[p] \notin Showing \cup {"setStatus"}
        \/ pc[p] \in Showing /\ pc'[p] \in Showing /\ cur' = cur /\ want' = want
    BY <1>7, <1>i DEF ShareNone, Goto, Typed, Showing
  <2>. QED
    BY <2>1, <2>2, Stays
<1>8. CASE AttachOpen(p)
  <2>1. device' = device
    BY <1>8 DEF AttachOpen
  <2>2. \/ pc'[p] \notin Showing \cup {"setStatus"}
        \/ pc[p] \in Showing /\ pc'[p] \in Showing /\ cur' = cur /\ want' = want
    BY <1>8, <1>i DEF AttachOpen, Goto, Typed, Showing
  <2>. QED
    BY <2>1, <2>2, Stays
<1>9. CASE SetFd(p)
  <2>0. cur[p] \in Devices /\ want[p] \in Views
    BY <1>9, <1>i DEF SetFd, Typed, AtDevice, Opens, HasOpen, Locking, Setting
  <2>1. ASSUME device[cur[p]].file = None, Goto(p, "setStatus"), cur' = cur,
               device' = [device EXCEPT ![cur[p]] = [file |-> want[p].file, offset |-> 0,
                                                    ro |-> want[p].ro, auto |-> FALSE]]
        PROVE  ViewsKept'
    <3>1. device' = [device EXCEPT ![cur[p]] = [file |-> want[p].file, offset |-> 0,
                                                ro |-> want[p].ro, auto |-> FALSE]]
      BY Zenon, <2>1
    <3>2. pc'[p] = "setStatus" /\ cur' = cur /\ want' = want
      BY <1>9, <1>i, <2>1 DEF SetFd, Goto, Typed
    <3>3. \A q \in Procs \ {p} : cur[q] = cur[p] => pc[q] \notin Showing \cup {"setStatus"}
      BY SMTT(20), <1>i, <2>0, <2>1, LoopAssumption DEF ViewsKept, Gives, Typed
    <3>4. \A q \in Procs \ {p} : pc'[q] = pc[q]
      BY Others
    <3>5. \A q \in Procs \ {p} : pc[q] \in Showing \cup {"setStatus"}
                                    => device'[cur[q]] = device[cur[q]]
      BY <1>i, <3>1, <3>3 DEF Typed, AtDevice, Opens, HasOpen, Locking, Setting, Showing
    <3>6. device'[cur[p]].file = want[p].file /\ device'[cur[p]].ro = want[p].ro
      BY <1>i, <2>0, <3>1 DEF Typed
    <3>. QED
      BY <1>i, <3>2, <3>3, <3>4, <3>5, <3>6 DEF ViewsKept, Gives, Showing
  <2>2. ASSUME device' = Closed(p, cur[p]), Goto(p, "attach")
        PROVE  ViewsKept'
    <3>1. device' = Closed(p, cur[p]) /\ pc'[p] = "attach"
      BY <1>i, <2>2 DEF Goto, Typed
    <3>2. \A q \in Procs \ {p} : pc[q] \in Opens => device'[cur[q]] = device[cur[q]]
      BY <2>0, <3>1, OpenStays
    <3>3. pc'[p] \notin Showing \cup {"setStatus"}
      BY SMTT(20), <3>1 DEF Showing
    <3>. QED
      BY <3>2, <3>3, Leaves
  <2>. QED
    BY Zenon, <1>9, <2>1, <2>2 DEF SetFd
<1>10. CASE SetStatus(p)
  <2>1. cur[p] \in Devices /\ device[cur[p]] \in Record /\ pc[p] = "setStatus"
    BY <1>10, <1>i DEF SetStatus, Typed, AtDevice, Opens, HasOpen, Locking, Setting
  <2>2. pc'[p] = "mount" /\ cur' = cur /\ want' = want
    BY SMTT(20), <1>10, <1>i DEF SetStatus, Goto, Typed
  <2>3. \A q \in Procs \ {p} : pc[q] \in Showing \cup {"setStatus"} => cur[q] # cur[p]
    BY <1>i, <2>1 DEF ViewsKept
  <2>4. \A d \in Devices : d # cur[p] => device'[d] = device[d]
    BY <1>10, <1>i, <2>1 DEF SetStatus, Typed
  <2>5. /\ device'[cur[p]].offset = want[p].offset
        /\ device'[cur[p]].file = device[cur[p]].file /\ device'[cur[p]].ro = device[cur[p]].ro
    BY <1>10, <1>i, <2>1 DEF SetStatus, Typed, Record
  <2>6. \A q \in Procs : pc[q] \in Showing \cup {"setStatus"} => cur[q] \in Devices
    BY SMTT(20), <1>i DEF AtDevice, Opens, HasOpen, Locking, Setting, Showing
  <2>7. Gives(cur[p], want[p])'
    BY SMTT(20), <1>i, <2>1, <2>2, <2>5 DEF ViewsKept, Gives
  <2>8. \A q \in Procs \ {p} : pc'[q] = pc[q] /\ cur'[q] = cur[q] /\ want'[q] = want[q]
    BY Others
  <2>9. \A q \in Procs \ {p} : pc[q] \in Showing \cup {"setStatus"}
                                 => device'[cur[q]] = device[cur[q]]
    BY SMTT(20), <2>3, <2>4, <2>6
  <2>10. ASSUME NEW q \in Procs \ {p}
         PROVE  /\ pc[q] \in Showing => Gives(cur[q], want[q])'
                /\ pc[q] = "setStatus" => /\ device'[cur[q]].file = want[q].file
                                          /\ device'[cur[q]].ro = want[q].ro
    BY <1>i, <2>8, <2>9 DEF ViewsKept, Gives
  <2>11. \A q \in Procs \ {p} : pc[q] = "setStatus" =>
             \A r \in Procs \ {q} : cur[r] = cur[q] => pc'[r] \notin Showing \cup {"setStatus"}
    BY <1>i, <2>1, <2>3, <2>8 DEF ViewsKept
  <2>. QED
    BY <2>2, <2>7, <2>8, <2>10, <2>11 DEF ViewsKept
<1>11. CASE SetStatusAgain(p)
  <2>1. device' = device /\ cur' = cur /\ want' = want /\ pc[p] = "setStatus"
    BY <1>11 DEF SetStatusAgain
  <2>2. pc'[p] = "clear" \/ pc'[p] = pc[p]
    BY <1>11, <1>i DEF SetStatusAgain, Goto, Typed
  <2>. QED
    BY <2>1, <2>2, Stays DEF Showing
<1>12. CASE SetStatusFails(p)
  <2>1. device' = device /\ cur' = cur /\ want' = want /\ pc[p] = "setStatus"
    BY <1>12 DEF SetStatusFails
  <2>2. pc'[p] = "clear" \/ pc'[p] = pc[p]
    BY SMTT(20), <1>12, <1>i DEF SetStatusFails, Goto, Typed
  <2>. QED
    BY <2>1, <2>2, Stays DEF Showing
<1>13. CASE ClearFd(p)
  <2>1. \A q \in Procs \ {p} : pc[q] \in Opens =>
           /\ device'[cur[q]].file = device[cur[q]].file
           /\ device'[cur[q]].offset = device[cur[q]].offset
           /\ device'[cur[q]].ro = device[cur[q]].ro
    <3>1. SUFFICES ASSUME NEW q \in Procs \ {p}, pc[q] \in Opens
                   PROVE  /\ device'[cur[q]].file = device[cur[q]].file
                          /\ device'[cur[q]].offset = device[cur[q]].offset
                          /\ device'[cur[q]].ro = device[cur[q]].ro
      OBVIOUS
    <3>2. cur[q] \in Devices /\ device[cur[q]] \in Record /\ cur[p] \in Devices
      BY <1>13, <1>i, <3>1 DEF ClearFd, Typed, AtDevice, Opens, HasOpen, Locking, Setting
    <3>3. CASE cur[q] # cur[p]
      BY <1>13, <1>i, <3>2, <3>3 DEF ClearFd, Typed
    <3>4. CASE cur[q] = cur[p]
      <4>1. q \in Openers(cur[p])
        BY <3>1, <3>4 DEF Openers, Opening, Opens
      <4>2. device' = [device EXCEPT ![cur[p]].auto = TRUE]
        BY <1>13, <4>1 DEF ClearFd
      <4>. QED
        BY <1>i, <3>2, <3>4, <4>2 DEF Typed, Record
    <3>. QED
      BY SMTT(20), <3>3, <3>4
  <2>2. pc'[p] = "release"
    BY <1>13, <1>i DEF ClearFd, Goto, Typed
  <2>. QED
    BY SMTT(20), <1>i, <2>1, <2>2, Others DEF ViewsKept, Gives, Showing, Opens, HasOpen,
       Setting
<1>14. CASE ReleaseDevice(p)
  <2>1. device' = device \/ (cur[p] \in Devices /\ device' = Closed(p, cur[p]))
    BY <1>14, <1>i DEF ReleaseDevice, AtDevice, Opens, HasOpen, Locking, Setting
  <2>2. \A q \in Procs \ {p} : pc[q] \in Opens => device'[cur[q]] = device[cur[q]]
    BY <2>1, OpenStays
  <2>3. pc'[p] \notin Showing \cup {"setStatus"}
    BY <1>14, <1>i DEF ReleaseDevice, Goto, Typed, Showing
  <2>. QED
    BY <2>2, <2>3, Leaves
<1>15. CASE AttachNone(p)
  <2>1. device' = device
    BY <1>15 DEF AttachNone
  <2>2. \/ pc'[p] \notin Showing \cup {"setStatus"}
        \/ pc[p] \in Showing /\ pc'[p] \in Showing /\ cur' = cur /\ want' = want
    BY <1>15, <1>i DEF AttachNone, Goto, Typed, Showing
  <2>. QED
    BY <2>1, <2>2, Stays
<1>16. CASE MountImage(p)
  <2>1. device' = device
    BY <1>16 DEF MountImage
  <2>2. \/ pc'[p] \notin Showing \cup {"setStatus"}
        \/ pc[p] \in Showing /\ pc'[p] \in Showing /\ cur' = cur /\ want' = want
    BY <1>16, <1>i DEF MountImage, Goto, Typed, Showing
  <2>. QED
    BY <2>1, <2>2, Stays
<1>17. CASE MountImageFails(p)
  <2>1. device' = device \/ (cur[p] \in Devices /\ device' = Closed(p, cur[p]))
    BY <1>17, <1>i DEF MountImageFails, AtDevice, Opens, HasOpen, Locking, Setting
  <2>2. \A q \in Procs \ {p} : pc[q] \in Opens => device'[cur[q]] = device[cur[q]]
    BY <2>1, OpenStays
  <2>3. pc'[p] \notin Showing \cup {"setStatus"}
    BY <1>17, <1>i DEF MountImageFails, Goto, Typed, Showing
  <2>. QED
    BY <2>2, <2>3, Leaves
<1>18. CASE Ends(p)
  <2>1. device' = device \/ (cur[p] \in Devices /\ device' = Closed(p, cur[p]))
    BY <1>18, <1>i DEF Ends, AtDevice, Opens, HasOpen, Locking, Setting
  <2>2. \A q \in Procs \ {p} : pc[q] \in Opens => device'[cur[q]] = device[cur[q]]
    BY <2>1, OpenStays
  <2>3. pc'[p] \notin Showing \cup {"setStatus"}
    BY <1>18, <1>i DEF Ends, Goto, Gone, Typed, Showing
  <2>. QED
    BY <2>2, <2>3, Leaves
<1>19. CASE Crash(p)
  <2>1. device' = device \/ (cur[p] \in Devices /\ device' = Closed(p, cur[p]))
    BY <1>19, <1>i DEF Crash, AtDevice, Opens, HasOpen, Locking, Setting, Opening
  <2>2. \A q \in Procs \ {p} : pc[q] \in Opens => device'[cur[q]] = device[cur[q]]
    BY <2>1, OpenStays
  <2>3. pc'[p] \notin Showing \cup {"setStatus"}
    BY <1>19, <1>i DEF Crash, Goto, Gone, Typed, Showing
  <2>. QED
    BY <2>2, <2>3, Leaves
<1>20. CASE ShareSkips(p)
  <2>1. device' = device \/ (cur[p] \in Devices /\ device' = Closed(p, cur[p]))
    BY <1>20, <1>i DEF ShareSkips, AtDevice, Opens, HasOpen, Locking, Setting
  <2>2. \A q \in Procs \ {p} : pc[q] \in Opens => device'[cur[q]] = device[cur[q]]
    BY <2>1, OpenStays
  <2>3. pc'[p] \notin Showing \cup {"setStatus"}
    BY <1>20, <1>i DEF ShareSkips, Goto, Typed, Showing
  <2>. QED
    BY <2>2, <2>3, Leaves
<1>21. CASE ShareUnread(p)
  <2>1. device' = device
    BY <1>21 DEF ShareUnread
  <2>2. \/ pc'[p] \notin Showing \cup {"setStatus"}
        \/ pc[p] \in Showing /\ pc'[p] \in Showing /\ cur' = cur /\ want' = want
    BY <1>21, <1>i DEF ShareUnread, Goto, Typed, Showing
  <2>. QED
    BY <2>1, <2>2, Stays
<1>22. CASE AttachLockFails(p)
  <2>1. device' = device \/ (cur[p] \in Devices /\ device' = Closed(p, cur[p]))
    BY <1>22, <1>i DEF AttachLockFails, AtDevice, Opens, HasOpen, Locking, Setting
  <2>2. \A q \in Procs \ {p} : pc[q] \in Opens => device'[cur[q]] = device[cur[q]]
    BY <2>1, OpenStays
  <2>3. pc'[p] \notin Showing \cup {"setStatus"}
    BY <1>22, <1>i DEF AttachLockFails, Goto, Typed, Showing
  <2>. QED
    BY <2>2, <2>3, Leaves
<1>. QED
  BY <1>1, <1>2, <1>3, <1>4, <1>5, <1>6, <1>7, <1>8, <1>9, <1>10, <1>11, <1>12, <1>13, <1>14,
     <1>15, <1>16, <1>17, <1>18, <1>19, <1>20, <1>21, <1>22 DEF Step, Skips

\* A device that is still marked when a process has closed its own is open to another.
LEMMA CloseMarked ==
    ASSUME Inv, NEW p \in Procs, cur[p] \in Devices, NEW d \in Devices,
           Closed(p, cur[p])[d].auto
    PROVE  \E q \in Procs \ {p} : Opening(q, d)
<1>1. device \in [Devices -> Record]
  BY Parts DEF Typed
<1>2. CASE d = cur[p]
  BY <1>1, <1>2, Closing
<1>3. CASE d # cur[p]
  <2>1. Closed(p, cur[p])[d] = device[d]
    BY <1>1, <1>3, Closing
  <2>2. PICK q \in Procs : Opening(q, d)
    BY <2>1, Parts DEF AutoIsOpen
  <2>3. q # p
    BY <1>3, <2>2 DEF Opening
  <2>. QED
    BY <2>2, <2>3
<1>. QED
  BY <1>2, <1>3

\* A device that a process has closed is as it was, or free.
LEMMA CloseFrees ==
    ASSUME Inv, NEW p \in Procs, cur[p] \in Devices, NEW d \in Devices
    PROVE  Closed(p, cur[p])[d] = device[d] \/ Closed(p, cur[p])[d].file = None
<1>1. device \in [Devices -> Record]
  BY Parts DEF Typed
<1>2. Free.file = None
  BY DEF Free
<1>. QED
  BY <1>1, <1>2, Closing

\* After a step, a device that is marked is open: to the process that took it or to
\* another.
LEMMA MarkedStays ==
    ASSUME Inv, NEW p \in Procs, Step(p) \/ Skips(p) \/ Crash(p), NEW d \in Devices,
           device'[d].auto
    PROVE  Opening(p, d)' \/ \E q \in Procs \ {p} : Opening(q, d)
<1>i. Typed /\ Counted /\ AtDevice /\ LocksHeld /\ ViewsKept
  BY Parts
<1>a. device[d].auto => \E q \in Procs : Opening(q, d)
  BY Parts DEF AutoIsOpen
<1>1. ASSUME NEW v \in Views, LoopDevice(p, v)
      PROVE  Opening(p, d)' \/ \E q \in Procs \ {p} : Opening(q, d)
  <2>1. device' = device
    BY <1>1 DEF LoopDevice
  <2>2. Opening(p, d) => Opening(p, d)'
    BY <1>1, <1>i DEF LoopDevice, Goto, Typed, Opening, HasOpen, Locking, Setting
  <2>. QED
    BY <1>a, <2>1, <2>2
<1>2. CASE ShareOpen(p)
  <2>1. device' = device
    BY <1>2 DEF ShareOpen
  <2>2. Opening(p, d) => Opening(p, d)'
    BY <1>2, <1>i DEF ShareOpen, Goto, Typed, Opening, HasOpen, Locking, Setting
  <2>. QED
    BY <1>a, <2>1, <2>2
<1>3. CASE TakeLock(p)
  <2>1. device' = device
    BY <1>3 DEF TakeLock
  <2>2. Opening(p, d) => Opening(p, d)'
    BY <1>3, <1>i DEF TakeLock, Goto, Typed, Opening, HasOpen, Locking, Setting
  <2>. QED
    BY <1>a, <2>1, <2>2
<1>4. CASE ShareStatus(p)
  <2>1. device' = device
    BY <1>4 DEF ShareStatus
  <2>2. Opening(p, d) => Opening(p, d)'
    BY <1>4, <1>i DEF ShareStatus, Goto, Typed, Opening, HasOpen, Locking, Setting
  <2>. QED
    BY <1>a, <2>1, <2>2
<1>5. CASE ShareFound(p)
  <2>1. device' = device
    BY <1>5 DEF ShareFound
  <2>2. Opening(p, d) => Opening(p, d)'
    BY <1>5, <1>i DEF ShareFound, Goto, Typed, Opening, HasOpen, Locking, Setting
  <2>. QED
    BY <1>a, <2>1, <2>2
<1>6. CASE ShareNext(p)
  <2>1. device' = Closed(p, cur[p]) /\ cur[p] \in Devices
    BY <1>6, <1>i DEF ShareNext, AtDevice, Opens, HasOpen, Locking, Setting
  <2>. QED
    BY <2>1, CloseMarked
<1>7. CASE ShareNone(p)
  <2>1. device' = device
    BY <1>7 DEF ShareNone
  <2>2. Opening(p, d) => Opening(p, d)'
    BY <1>7, <1>i DEF ShareNone, Goto, Typed, Opening, HasOpen, Locking, Setting
  <2>. QED
    BY <1>a, <2>1, <2>2
<1>8. CASE AttachOpen(p)
  <2>1. device' = device
    BY <1>8 DEF AttachOpen
  <2>2. Opening(p, d) => Opening(p, d)'
    BY SMTT(20), <1>8, <1>i DEF AttachOpen, Goto, Typed, Opening, HasOpen, Locking, Setting
  <2>. QED
    BY <1>a, <2>1, <2>2
<1>9. CASE SetFd(p)
  <2>1. cur[p] \in Devices /\ pc[p] = "setFd"
    BY <1>9, <1>i DEF SetFd, AtDevice, Opens, HasOpen, Locking, Setting
  <2>2. CASE device' = Closed(p, cur[p])
    BY <2>1, <2>2, CloseMarked
  <2>3. CASE device' = [device EXCEPT ![cur[p]] = [file |-> want[p].file, offset |-> 0,
                                                   ro |-> want[p].ro, auto |-> FALSE]]
    <3>1. d # cur[p] => device'[d] = device[d]
      BY <1>i, <2>3 DEF Typed
    <3>2. d = cur[p] => ~device'[d].auto
      BY <1>i, <2>1, <2>3 DEF Typed
    <3>. QED
      BY <1>a, <3>1, <3>2 DEF Opening
  <2>. QED
    BY Zenon, <1>9, <2>2, <2>3 DEF SetFd
<1>10. CASE SetStatus(p)
  <2>1. cur[p] \in Devices /\ cur' = cur /\ pc'[p] \in HasOpen
    BY <1>10, <1>i DEF SetStatus, Goto, Typed, AtDevice, Opens, HasOpen, Locking, Setting
  <2>2. CASE d = cur[p]
    BY <2>1, <2>2 DEF Opening
  <2>3. CASE d # cur[p]
    <3>1. device'[d] = device[d]
      BY <1>10, <1>i, <2>3 DEF SetStatus, Typed
    <3>. QED
      BY <1>a, <2>3, <3>1 DEF Opening
  <2>. QED
    BY <2>2, <2>3
<1>11. CASE SetStatusAgain(p)
  <2>1. device' = device
    BY <1>11 DEF SetStatusAgain
  <2>2. Opening(p, d) => Opening(p, d)'
    BY <1>11, <1>i DEF SetStatusAgain, Goto, Typed, Opening, HasOpen, Locking, Setting
  <2>. QED
    BY <1>a, <2>1, <2>2
<1>12. CASE SetStatusFails(p)
  <2>1. device' = device
    BY <1>12 DEF SetStatusFails
  <2>2. Opening(p, d) => Opening(p, d)'
    BY <1>12, <1>i DEF SetStatusFails, Goto, Typed, Opening, HasOpen, Locking, Setting
  <2>. QED
    BY <1>a, <2>1, <2>2
<1>13. CASE ClearFd(p)
  <2>1. cur[p] \in Devices /\ cur' = cur /\ pc'[p] \in HasOpen
    BY <1>13, <1>i DEF ClearFd, Goto, Typed, AtDevice, Opens, HasOpen, Locking, Setting
  <2>2. CASE d = cur[p]
    BY <2>1, <2>2 DEF Opening
  <2>3. CASE d # cur[p]
    <3>1. device'[d] = device[d]
      BY <1>13, <1>i, <2>3 DEF ClearFd, Typed
    <3>. QED
      BY <1>a, <2>3, <3>1 DEF Opening
  <2>. QED
    BY <2>2, <2>3
<1>14. CASE ReleaseDevice(p)
  <2>1. device' = Closed(p, cur[p]) /\ cur[p] \in Devices
    BY <1>14, <1>i DEF ReleaseDevice, AtDevice, Opens, HasOpen, Locking, Setting
  <2>. QED
    BY <2>1, CloseMarked
<1>15. CASE AttachNone(p)
  <2>1. device' = device
    BY <1>15 DEF AttachNone
  <2>2. Opening(p, d) => Opening(p, d)'
    BY <1>15, <1>i DEF AttachNone, Goto, Typed, Opening, HasOpen, Locking, Setting
  <2>. QED
    BY <1>a, <2>1, <2>2
<1>16. CASE MountImage(p)
  <2>1. device' = device
    BY <1>16 DEF MountImage
  <2>2. Opening(p, d) => Opening(p, d)'
    BY <1>16, <1>i DEF MountImage, Goto, Typed, Opening, HasOpen, Locking, Setting
  <2>. QED
    BY <1>a, <2>1, <2>2
<1>17. CASE MountImageFails(p)
  <2>1. device' = Closed(p, cur[p]) /\ cur[p] \in Devices
    BY SMTT(20), <1>17, <1>i DEF MountImageFails, AtDevice, Opens, HasOpen, Locking, Setting
  <2>. QED
    BY <2>1, CloseMarked
<1>18. CASE Ends(p)
  <2>1. CASE device' = Closed(p, cur[p]) /\ cur[p] \in Devices
    BY <2>1, CloseMarked
  <2>2. CASE device' = device /\ ~Opening(p, d)
    BY <1>a, <2>2
  <2>. QED
    BY SMTT(20), <1>18, <1>i, <2>1, <2>2 DEF Ends, Opening, AtDevice, Opens, HasOpen,
       Locking, Setting
<1>19. CASE Crash(p)
  <2>1. CASE device' = Closed(p, cur[p]) /\ cur[p] \in Devices
    BY <2>1, CloseMarked
  <2>2. CASE device' = device /\ ~Opening(p, d)
    BY <1>a, <2>2
  <2>. QED
    BY Zenon, <1>19, <1>i, <2>1, <2>2 DEF Crash, Opening, AtDevice, Opens, HasOpen, Locking,
       Setting
<1>20. CASE ShareSkips(p)
  <2>1. CASE device' = Closed(p, cur[p]) /\ cur[p] \in Devices
    BY <2>1, CloseMarked
  <2>2. CASE device' = device /\ ~Opening(p, d)
    BY <1>a, <2>2
  <2>. QED
    BY Zenon, <1>20, <2>1, <2>2 DEF ShareSkips, Opening, HasOpen, Locking, Setting
<1>21. CASE ShareUnread(p)
  <2>1. device' = device
    BY <1>21 DEF ShareUnread
  <2>2. Opening(p, d) => Opening(p, d)'
    BY <1>21, <1>i DEF ShareUnread, Goto, Typed, Opening, HasOpen, Locking, Setting
  <2>. QED
    BY <1>a, <2>1, <2>2
<1>22. CASE AttachLockFails(p)
  <2>1. device' = Closed(p, cur[p]) /\ cur[p] \in Devices
    BY SMTT(20), <1>22, <1>i DEF AttachLockFails, AtDevice, Opens, HasOpen, Locking, Setting
  <2>. QED
    BY <2>1, CloseMarked
<1>. QED
  BY <1>1, <1>2, <1>3, <1>4, <1>5, <1>6, <1>7, <1>8, <1>9, <1>10, <1>11, <1>12, <1>13, <1>14,
     <1>15, <1>16, <1>17, <1>18, <1>19, <1>20, <1>21, <1>22 DEF Step, Skips

\* A marked device stays open, or is cleared by its last closer.
LEMMA AutoKept ==
    ASSUME Inv, NEW p \in Procs, Step(p) \/ Skips(p) \/ Crash(p)
    PROVE  AutoIsOpen'
<1>1. SUFFICES ASSUME NEW d \in Devices, device'[d].auto
               PROVE  \E q \in Procs : Opening(q, d)'
  BY DEF AutoIsOpen
<1>2. \A q \in Procs \ {p} : Opening(q, d) => Opening(q, d)'
  BY SMTT(20), Others DEF Opening
<1>. QED
  BY <1>1, <1>2, MarkedStays

\* A step loses no device, unless its process is killed, and then one.
LEMMA LostStep ==
    ASSUME Inv, NEW p \in Procs, Step(p) \/ Skips(p) \/ Crash(p), NEW d \in Devices, d \in Lost'
    PROVE  d \in Lost \/ (Crash(p) /\ d = cur[p])
<1>i. Typed /\ Counted /\ AtDevice /\ LocksHeld /\ ViewsKept
  BY Parts
<1>l. /\ device'[d].file \notin {None, Foreign} /\ ~device'[d].auto
      /\ \A q \in Procs : cur'[q] = d => pc'[q] \notin Owning
  BY DEF Lost
<1>o. \A q \in Procs \ {p} : pc'[q] = pc[q] /\ cur'[q] = cur[q]
  BY Others
<1>1. ASSUME NEW v \in Views, LoopDevice(p, v)
      PROVE  d \in Lost \/ (Crash(p) /\ d = cur[p])
  <2>1. device' = device
    BY <1>1 DEF LoopDevice
  <2>2. cur[p] = d => pc[p] \notin Owning \/ (cur'[p] = d /\ pc'[p] \in Owning)
    BY <1>1, <1>i DEF LoopDevice, Goto, Typed, Owning
  <2>. QED
    BY <1>l, <1>o, <2>1, <2>2 DEF Lost
<1>2. CASE ShareOpen(p)
  <2>1. device' = device
    BY <1>2 DEF ShareOpen
  <2>2. cur[p] = d => pc[p] \notin Owning \/ (cur'[p] = d /\ pc'[p] \in Owning)
    BY <1>2, <1>i DEF ShareOpen, Goto, Typed, Owning
  <2>. QED
    BY <1>l, <1>o, <2>1, <2>2 DEF Lost
<1>3. CASE TakeLock(p)
  <2>1. device' = device
    BY <1>3 DEF TakeLock
  <2>2. cur[p] = d => pc[p] \notin Owning \/ (cur'[p] = d /\ pc'[p] \in Owning)
    BY SMTT(20), <1>3, <1>i DEF TakeLock, Goto, Typed, Owning
  <2>. QED
    BY <1>l, <1>o, <2>1, <2>2 DEF Lost
<1>4. CASE ShareStatus(p)
  <2>1. device' = device
    BY <1>4 DEF ShareStatus
  <2>2. cur[p] = d => pc[p] \notin Owning \/ (cur'[p] = d /\ pc'[p] \in Owning)
    BY <1>4, <1>i DEF ShareStatus, Goto, Typed, Owning
  <2>. QED
    BY <1>l, <1>o, <2>1, <2>2 DEF Lost
<1>5. CASE ShareFound(p)
  <2>1. device' = device
    BY <1>5 DEF ShareFound
  <2>2. cur[p] = d => pc[p] \notin Owning \/ (cur'[p] = d /\ pc'[p] \in Owning)
    BY SMTT(20), <1>5, <1>i DEF ShareFound, Goto, Typed, Owning
  <2>. QED
    BY <1>l, <1>o, <2>1, <2>2 DEF Lost
<1>6. CASE ShareNext(p)
  <2>1. /\ pc[p] \notin Owning
        /\ device' = device \/ (cur[p] \in Devices /\ device' = Closed(p, cur[p]))
    BY SMTT(20), <1>6, <1>i DEF ShareNext, AtDevice, Opens, HasOpen, Locking, Setting, Owning
  <2>2. device'[d] = device[d]
    BY <1>l, <2>1, CloseFrees
  <2>. QED
    BY <1>l, <1>o, <2>1, <2>2 DEF Lost
<1>7. CASE ShareNone(p)
  <2>1. device' = device
    BY <1>7 DEF ShareNone
  <2>2. cur[p] = d => pc[p] \notin Owning \/ (cur'[p] = d /\ pc'[p] \in Owning)
    BY SMTT(20), <1>7, <1>i DEF ShareNone, Goto, Typed, Owning
  <2>. QED
    BY <1>l, <1>o, <2>1, <2>2 DEF Lost
<1>8. CASE AttachOpen(p)
  <2>1. device' = device
    BY <1>8 DEF AttachOpen
  <2>2. cur[p] = d => pc[p] \notin Owning \/ (cur'[p] = d /\ pc'[p] \in Owning)
    BY SMTT(20), <1>8, <1>i DEF AttachOpen, Goto, Typed, Owning
  <2>. QED
    BY <1>l, <1>o, <2>1, <2>2 DEF Lost
<1>9. CASE SetFd(p)
  <2>1. cur[p] \in Devices /\ pc[p] \notin Owning
    BY <1>9, <1>i DEF SetFd, AtDevice, Opens, HasOpen, Locking, Setting, Owning
  <2>2. CASE device' = Closed(p, cur[p])
    <3>1. device'[d] = device[d]
      BY <1>l, <2>1, <2>2, CloseFrees
    <3>. QED
      BY SMTT(20), <1>l, <1>o, <2>1, <3>1 DEF Lost
  <2>3. ASSUME Goto(p, "setStatus"), cur' = cur,
               device' = [device EXCEPT ![cur[p]] = [file |-> want[p].file, offset |-> 0,
                                                    ro |-> want[p].ro, auto |-> FALSE]]
        PROVE  d \in Lost
    <3>1. pc'[p] = "setStatus" /\ cur' = cur
      BY <1>i, <2>3 DEF Goto, Typed
    <3>2. d # cur[p]
      BY <1>l, <3>1 DEF Owning
    <3>3. device'[d] = device[d]
      BY <1>i, <2>3, <3>2 DEF Typed
    <3>4. \A q \in Procs : cur[q] = d => pc[q] \notin Owning
      BY SMTT(20), <1>l, <1>o, <2>1
    <3>. QED
      BY <1>l, <3>3, <3>4 DEF Lost
  <2>. QED
    BY Zenon, <1>9, <2>2, <2>3 DEF SetFd
<1>10. CASE SetStatus(p)
  <2>1. cur[p] \in Devices /\ device[cur[p]] \in Record
    BY <1>10, <1>i DEF SetStatus, Typed, AtDevice, Opens, HasOpen, Locking, Setting
  <2>2. d # cur[p]
    BY <1>10, <1>i, <1>l, <2>1 DEF SetStatus, Typed, Record
  <2>3. device'[d] = device[d]
    BY <1>10, <1>i, <2>2 DEF SetStatus, Typed
  <2>. QED
    BY <1>l, <1>o, <2>2, <2>3 DEF Lost
<1>11. CASE SetStatusAgain(p)
  <2>1. device' = device
    BY <1>11 DEF SetStatusAgain
  <2>2. cur[p] = d => pc[p] \notin Owning \/ (cur'[p] = d /\ pc'[p] \in Owning)
    BY <1>11, <1>i DEF SetStatusAgain, Goto, Typed, Owning
  <2>. QED
    BY <1>l, <1>o, <2>1, <2>2 DEF Lost
<1>12. CASE SetStatusFails(p)
  <2>1. device' = device
    BY <1>12 DEF SetStatusFails
  <2>2. cur[p] = d => pc[p] \notin Owning \/ (cur'[p] = d /\ pc'[p] \in Owning)
    BY <1>12, <1>i DEF SetStatusFails, Goto, Typed, Owning
  <2>. QED
    BY <1>l, <1>o, <2>1, <2>2 DEF Lost
<1>13. CASE ClearFd(p)
  <2>1. cur[p] \in Devices /\ device[cur[p]] \in Record
    BY <1>13, <1>i DEF ClearFd, Typed, AtDevice, Opens, HasOpen, Locking, Setting
  <2>2. d # cur[p]
    BY <1>13, <1>i, <1>l, <2>1 DEF ClearFd, Typed, Record, Free
  <2>3. device'[d] = device[d]
    BY SMTT(20), <1>13, <1>i, <2>2 DEF ClearFd, Typed
  <2>. QED
    BY <1>l, <1>o, <2>2, <2>3 DEF Lost
<1>14. CASE ReleaseDevice(p)
  <2>1. /\ pc[p] \notin Owning
        /\ device' = device \/ (cur[p] \in Devices /\ device' = Closed(p, cur[p]))
    BY SMTT(20), <1>14, <1>i DEF ReleaseDevice, AtDevice, Opens, HasOpen, Locking, Setting,
       Owning
  <2>2. device'[d] = device[d]
    BY <1>l, <2>1, CloseFrees
  <2>. QED
    BY <1>l, <1>o, <2>1, <2>2 DEF Lost
<1>15. CASE AttachNone(p)
  <2>1. device' = device
    BY Zenon, <1>15 DEF AttachNone
  <2>2. cur[p] = d => pc[p] \notin Owning \/ (cur'[p] = d /\ pc'[p] \in Owning)
    BY <1>15, <1>i DEF AttachNone, Goto, Typed, Owning
  <2>. QED
    BY <1>l, <1>o, <2>1, <2>2 DEF Lost
<1>16. CASE MountImage(p)
  <2>1. device' = device
    BY <1>16 DEF MountImage
  <2>2. cur[p] = d => pc[p] \notin Owning \/ (cur'[p] = d /\ pc'[p] \in Owning)
    BY SMTT(20), <1>16, <1>i DEF MountImage, Goto, Typed, Owning
  <2>. QED
    BY <1>l, <1>o, <2>1, <2>2 DEF Lost
<1>17. CASE MountImageFails(p)
  <2>1. /\ pc[p] \notin Owning
        /\ device' = device \/ (cur[p] \in Devices /\ device' = Closed(p, cur[p]))
    BY <1>17, <1>i DEF MountImageFails, AtDevice, Opens, HasOpen, Locking, Setting, Owning
  <2>2. device'[d] = device[d]
    BY <1>l, <2>1, CloseFrees
  <2>. QED
    BY <1>l, <1>o, <2>1, <2>2 DEF Lost
<1>18. CASE Ends(p)
  <2>1. /\ pc[p] \notin Owning
        /\ device' = device \/ (cur[p] \in Devices /\ device' = Closed(p, cur[p]))
    BY <1>18, <1>i DEF Ends, AtDevice, Opens, HasOpen, Locking, Setting, Owning
  <2>2. device'[d] = device[d]
    BY <1>l, <2>1, CloseFrees
  <2>. QED
    BY <1>l, <1>o, <2>1, <2>2 DEF Lost
<1>19. CASE Crash(p)
  <2>1. device' = device \/ (cur[p] \in Devices /\ device' = Closed(p, cur[p]))
    BY <1>19, <1>i DEF Crash, Opening, AtDevice, Opens, HasOpen, Locking, Setting
  <2>2. device'[d] = device[d]
    BY <1>l, <2>1, CloseFrees
  <2>. QED
    BY SMTT(20), <1>19, <1>l, <1>o, <2>2 DEF Lost
<1>20. CASE ShareSkips(p)
  <2>1. /\ pc[p] \notin Owning
        /\ device' = device \/ (cur[p] \in Devices /\ device' = Closed(p, cur[p]))
    BY SMTT(20), <1>20, <1>i DEF ShareSkips, AtDevice, Opens, HasOpen, Locking, Setting, Owning
  <2>2. device'[d] = device[d]
    BY <1>l, <2>1, CloseFrees
  <2>. QED
    BY <1>l, <1>o, <2>1, <2>2 DEF Lost
<1>21. CASE ShareUnread(p)
  <2>1. device' = device
    BY <1>21 DEF ShareUnread
  <2>2. cur[p] = d => pc[p] \notin Owning \/ (cur'[p] = d /\ pc'[p] \in Owning)
    BY <1>21, <1>i DEF ShareUnread, Goto, Typed, Owning
  <2>. QED
    BY <1>l, <1>o, <2>1, <2>2 DEF Lost
<1>22. CASE AttachLockFails(p)
  <2>1. /\ pc[p] \notin Owning
        /\ device' = device \/ (cur[p] \in Devices /\ device' = Closed(p, cur[p]))
    BY <1>22, <1>i DEF AttachLockFails, AtDevice, Opens, HasOpen, Locking, Setting, Owning
  <2>2. device'[d] = device[d]
    BY <1>l, <2>1, CloseFrees
  <2>. QED
    BY <1>l, <1>o, <2>1, <2>2 DEF Lost
<1>. QED
  BY <1>1, <1>2, <1>3, <1>4, <1>5, <1>6, <1>7, <1>8, <1>9, <1>10, <1>11, <1>12, <1>13, <1>14,
     <1>15, <1>16, <1>17, <1>18, <1>19, <1>20, <1>21, <1>22 DEF Step, Skips

\* There are no more lost devices than crashes after any step.
LEMMA LostKept ==
    ASSUME Inv, NEW p \in Procs, Step(p) \/ Skips(p) \/ Crash(p)
    PROVE  LostAreCrashes'
<1>1. IsFiniteSet(Devices)
  BY FS_Interval, LoopAssumption DEF Devices
<1>2. Lost \subseteq Devices /\ Lost' \subseteq Devices
  BY DEF Lost
<1>3. IsFiniteSet(Lost) /\ IsFiniteSet(Lost') /\ Cardinality(Lost) \in Nat
      /\ Cardinality(Lost') \in Nat
  BY <1>1, <1>2, FS_Subset, FS_CardinalityType
<1>4. crashes \in Nat /\ Cardinality(Lost) <= crashes
  BY Parts, LoopAssumption DEF Inv, Counted, LostAreCrashes
<1>5. CASE Crash(p)
  <2>1. Lost' \subseteq Lost \cup {cur[p]}
    BY <1>2, LostStep
  <2>2. /\ IsFiniteSet(Lost \cup {cur[p]})
        /\ Cardinality(Lost \cup {cur[p]}) <= Cardinality(Lost) + 1
    <3>1. Cardinality(Lost \cup {cur[p]})
            = IF cur[p] \in Lost THEN Cardinality(Lost) ELSE Cardinality(Lost) + 1
      BY Zenon, <1>3, FS_AddElement
    <3>2. IsFiniteSet(Lost \cup {cur[p]})
      BY Zenon, <1>3, FS_AddElement
    <3>. QED
      BY <1>3, <3>1, <3>2
  <2>3. /\ Cardinality(Lost') <= Cardinality(Lost \cup {cur[p]})
        /\ Cardinality(Lost \cup {cur[p]}) \in Nat
    BY SMTT(20), <2>1, <2>2, FS_Subset, FS_CardinalityType
  <2>4. crashes' = crashes + 1
    BY Zenon, <1>5 DEF Crash
  <2>. QED
    BY <1>3, <1>4, <2>2, <2>3, <2>4 DEF LostAreCrashes
<1>6. CASE ~Crash(p)
  <2>1. Lost' \subseteq Lost
    BY <1>2, <1>6, LostStep
  <2>2. Cardinality(Lost') <= Cardinality(Lost)
    BY <1>3, <2>1, FS_Subset
  <2>3. crashes' = crashes
    BY <1>6 DEF Step, LoopDevice, ShareOpen, TakeLock, ShareStatus, ShareFound, ShareNext,
               ShareNone, AttachOpen, SetFd, SetStatus, SetStatusAgain, SetStatusFails, ClearFd,
               ReleaseDevice, AttachNone, MountImage, MountImageFails, Ends, Skips,
               ShareSkips, ShareUnread, AttachLockFails
  <2>. QED
    BY <1>3, <1>4, <2>2, <2>3 DEF LostAreCrashes
<1>. QED
  BY <1>5, <1>6

\* What Remember keeps of the candidates of a process.
LEMMA Remembered ==
    ASSUME Inv, NEW p, NEW passed, Remember(p, passed), NEW q \in Procs
    PROVE  /\ candidates'[q] \subseteq Devices
           /\ \A d \in candidates'[q] : MountedAs(d, want[q])'
           /\ candidates'[q] \subseteq candidates[q] \/ (pc[q] = "idle" /\ pc'[q] # "idle")
           /\ q = p /\ pc[q] # "idle" => candidates'[q] \cap passed = {}
  BY DEF Remember

\* What of the search of a process says where its candidates are.
Ahead(p) ==
    /\ Shared /\ pc[p] \in {"share", "shareLock", "status"}
          => \A d \in candidates[p] : cur[p] <= d
    /\ Shared /\ pc[p] = "differ" => \A d \in candidates[p] : cur[p] < d
    /\ Shared /\ pc[p] \in Attaching => candidates[p] = {}

\* The search of a process does not pass a device that is mounted as it wants.
LEMMA SearchKept ==
    ASSUME Inv, NEW p \in Procs, Step(p) \/ Crash(p), Remember(p, {})
    PROVE  Ahead(p)'
<1>i. Typed
  BY Parts
<1>a. /\ candidates'[p] \subseteq Devices
      /\ candidates'[p] \subseteq candidates[p] \/ (pc[p] = "idle" /\ pc'[p] # "idle")
  BY Zenon, Remembered
<1>b. Ahead(p) /\ candidates[p] \subseteq Devices /\ cur[p] \in Nat
  <2>1. candidates \in [Procs -> SUBSET Devices]
    BY DEF Inv, TypeOK
  <2>2. Ahead(p)
    BY Parts DEF CandidatesAhead, Ahead
  <2>. QED
    BY <1>i, <2>1, <2>2 DEF Typed
<1>c. \A d \in candidates[p] : node[d] = "present" /\ Gives(d, want[p])
  BY Parts DEF CandidatesAhead, MountedAs, AtDevice, Opens, HasOpen
<1>d. Devices \subseteq Int /\ \A d \in Devices : 0 <= d /\ d < MaxLoopDevices
  BY LoopAssumption DEF Devices
<1>e. Shared' = Shared
  BY Others
<1>f. candidates[p] \subseteq Devices /\ cur[p] \in Nat
  BY <1>b
<1>1. ASSUME NEW v \in Views, LoopDevice(p, v)
      PROVE  Ahead(p)'
  <2>1. pc[p] = "idle"
    BY SMTT(20), <1>1 DEF LoopDevice
  <2>2. cur'[p] = 0 /\ pc'[p] \in {"share", "attach"} /\ (Shared => pc'[p] = "share")
    BY Zenon, <1>1, <1>c, <1>i DEF LoopDevice, Goto, Typed
  <2>. QED
    BY Zenon, <1>a, <1>b, <1>d, <1>e, <2>1, <2>2 DEF Ahead, Attaching
<1>2. CASE ShareOpen(p)
  <2>1. pc[p] = "share"
    BY <1>2 DEF ShareOpen
  <2>2. \/ pc'[p] = "shareLock" /\ cur'[p] = cur[p]
        \/ (pc'[p] = "share" /\ cur'[p] = cur[p] + 1 /\ cur[p] \notin candidates[p])
    BY ZenonT(20), <1>2, <1>c, <1>i DEF ShareOpen, NextDevice, Goto, Typed
  <2>3. Shared /\ cur[p] \notin candidates[p] => \A d \in candidates[p] : cur[p] + 1 <= d
    <3>1. SUFFICES ASSUME Shared, cur[p] \notin candidates[p], NEW d \in candidates[p]
                   PROVE  cur[p] + 1 <= d
      OBVIOUS
    <3>2. cur[p] <= d
      BY <1>b, <2>1, <3>1 DEF Ahead
    <3>3. d \in Int /\ d < MaxLoopDevices
      BY Zenon, <1>d, <1>f
    <3>. QED
      BY <1>f, <3>1, <3>2, <3>3
  <2>. QED
    BY <1>a, <1>b, <1>e, <2>1, <2>2, <2>3 DEF Ahead, Attaching
<1>3. CASE TakeLock(p)
  <2>1. pc[p] \in {"shareLock", "attachLock"}
    BY SMTT(20), <1>3 DEF TakeLock
  <2>2. /\ cur'[p] = cur[p]
        /\ (pc[p] = "shareLock" => pc'[p] = "status") /\ (pc[p] = "attachLock" => pc'[p] = "setFd")
    BY Zenon, <1>3, <1>c, <1>i DEF TakeLock, Goto, Typed
  <2>. QED
    BY <1>a, <1>b, <1>d, <1>e, <2>1, <2>2 DEF Ahead, Attaching
<1>4. CASE ShareStatus(p)
  <2>1. pc[p] = "status"
    BY <1>4 DEF ShareStatus
  <2>2. /\ cur'[p] = cur[p]
        /\ (pc'[p] = "match" \/ (pc'[p] = "differ" /\ cur[p] \notin candidates[p]))
    BY ZenonT(20), <1>4, <1>c, <1>i DEF ShareStatus, Goto, Typed
  <2>3. Shared /\ cur[p] \notin candidates[p] => \A d \in candidates[p] : cur[p] < d
    <3>1. SUFFICES ASSUME Shared, cur[p] \notin candidates[p], NEW d \in candidates[p]
                   PROVE  cur[p] < d
      BY SMTT(20)
    <3>2. cur[p] <= d
      BY <1>b, <2>1, <3>1 DEF Ahead
    <3>3. d \in Int /\ d < MaxLoopDevices
      BY Zenon, <1>d, <1>f
    <3>. QED
      BY <1>f, <3>1, <3>2, <3>3
  <2>4. candidates'[p] \subseteq candidates[p]
    BY Zenon, <1>a, <2>1
  <2>. QED
    BY <1>e, <2>2, <2>3, <2>4 DEF Ahead, Attaching
<1>5. CASE ShareFound(p)
  <2>1. pc'[p] \notin {"share", "shareLock", "status", "differ"}
    BY <1>5, <1>i DEF ShareFound, Goto, Typed
  <2>2. pc'[p] \in Attaching => pc[p] \in Attaching
    BY SMTT(20), <1>5, <1>i DEF ShareFound, Goto, Typed, Attaching
  <2>. QED
    BY <1>a, <1>b, <1>e, <2>1, <2>2 DEF Ahead, Attaching
<1>6. CASE ShareNext(p)
  <2>1. pc[p] = "differ"
    BY <1>6 DEF ShareNext
  <2>2. cur'[p] = cur[p] + 1 /\ pc'[p] = "share"
    BY Zenon, <1>6, <1>c, <1>i DEF ShareNext, NextDevice, Goto, Typed
  <2>3. Shared => \A d \in candidates[p] : cur[p] + 1 <= d
    <3>1. SUFFICES ASSUME Shared, NEW d \in candidates[p]
                   PROVE  cur[p] + 1 <= d
      OBVIOUS
    <3>2. cur[p] < d
      BY SMTT(20), <1>b, <2>1, <3>1 DEF Ahead
    <3>3. d \in Int /\ d < MaxLoopDevices
      BY Zenon, <1>d, <1>f
    <3>. QED
      BY <1>f, <3>1, <3>2, <3>3
  <2>. QED
    BY Zenon, <1>a, <1>b, <1>e, <2>1, <2>2, <2>3 DEF Ahead, Attaching
<1>7. CASE ShareNone(p)
  <2>1. pc[p] = "share"
    BY SMTT(20), <1>7 DEF ShareNone
  <2>2. cur[p] = MaxLoopDevices /\ pc'[p] = "attach"
    BY Zenon, <1>7, <1>c, <1>i DEF ShareNone, Goto, Typed
  <2>3. Shared => candidates[p] = {}
    <3>1. SUFFICES ASSUME Shared, NEW d \in candidates[p]
                   PROVE  FALSE
      OBVIOUS
    <3>2. cur[p] <= d
      BY <1>b, <2>1, <3>1 DEF Ahead
    <3>3. d \in Int /\ d < MaxLoopDevices
      BY Zenon, <1>d, <1>f
    <3>4. cur[p] = MaxLoopDevices
      BY <2>2
    <3>. QED
      BY <1>f, <3>2, <3>3, <3>4
  <2>. QED
    BY <1>a, <1>b, <1>e, <2>1, <2>2, <2>3 DEF Ahead, Attaching
<1>8. CASE AttachOpen(p)
  <2>1. pc'[p] \notin {"share", "shareLock", "status", "differ"}
    BY <1>8, <1>i DEF AttachOpen, Goto, Typed
  <2>2. pc'[p] \in Attaching => pc[p] \in Attaching
    BY <1>8, <1>i DEF AttachOpen, Goto, Typed, Attaching
  <2>. QED
    BY <1>a, <1>b, <1>e, <2>1, <2>2 DEF Ahead, Attaching
<1>9. CASE SetFd(p)
  <2>1. pc'[p] \notin {"share", "shareLock", "status", "differ"}
    BY <1>9, <1>i DEF SetFd, NextDevice, Goto, Typed
  <2>2. pc'[p] \in Attaching => pc[p] \in Attaching
    BY <1>9, <1>i DEF SetFd, NextDevice, Goto, Typed, Attaching
  <2>. QED
    BY <1>a, <1>b, <1>e, <2>1, <2>2 DEF Ahead, Attaching
<1>10. CASE SetStatus(p)
  <2>1. pc'[p] \notin {"share", "shareLock", "status", "differ"}
    BY <1>10, <1>i DEF SetStatus, Goto, Typed
  <2>2. pc'[p] \in Attaching => pc[p] \in Attaching
    BY <1>10, <1>i DEF SetStatus, Goto, Typed, Attaching
  <2>. QED
    BY <1>a, <1>b, <1>e, <2>1, <2>2 DEF Ahead, Attaching
<1>11. CASE SetStatusAgain(p)
  <2>1. pc'[p] \notin {"share", "shareLock", "status", "differ"}
    BY <1>11, <1>i DEF SetStatusAgain, Goto, Typed
  <2>2. pc'[p] \in Attaching => pc[p] \in Attaching
    BY <1>11, <1>i DEF SetStatusAgain, Goto, Typed, Attaching
  <2>. QED
    BY <1>a, <1>b, <1>e, <2>1, <2>2 DEF Ahead, Attaching
<1>12. CASE SetStatusFails(p)
  <2>1. pc'[p] \notin {"share", "shareLock", "status", "differ"}
    BY <1>12, <1>i DEF SetStatusFails, Goto, Typed
  <2>2. pc'[p] \in Attaching => pc[p] \in Attaching
    BY <1>12, <1>i DEF SetStatusFails, Goto, Typed, Attaching
  <2>. QED
    BY <1>a, <1>b, <1>e, <2>1, <2>2 DEF Ahead, Attaching
<1>13. CASE ClearFd(p)
  <2>1. pc'[p] \notin {"share", "shareLock", "status", "differ"}
    BY <1>13, <1>i DEF ClearFd, Goto, Typed
  <2>2. pc'[p] \in Attaching => pc[p] \in Attaching
    BY <1>13, <1>i DEF ClearFd, Goto, Typed, Attaching
  <2>. QED
    BY <1>a, <1>b, <1>e, <2>1, <2>2 DEF Ahead, Attaching
<1>14. CASE ReleaseDevice(p)
  <2>1. pc'[p] \notin {"share", "shareLock", "status", "differ"}
    BY <1>14, <1>i DEF ReleaseDevice, Goto, Typed
  <2>2. pc'[p] \in Attaching => pc[p] \in Attaching
    BY <1>14, <1>i DEF ReleaseDevice, Goto, Typed, Attaching
  <2>. QED
    BY <1>a, <1>b, <1>e, <2>1, <2>2 DEF Ahead, Attaching
<1>15. CASE AttachNone(p)
  <2>1. pc'[p] \notin {"share", "shareLock", "status", "differ"}
    BY <1>15, <1>i DEF AttachNone, Goto, Typed
  <2>2. pc'[p] \in Attaching => pc[p] \in Attaching
    BY <1>15, <1>i DEF AttachNone, Goto, Typed, Attaching
  <2>. QED
    BY <1>a, <1>b, <1>e, <2>1, <2>2 DEF Ahead, Attaching
<1>16. CASE MountImage(p)
  <2>1. pc'[p] \notin {"share", "shareLock", "status", "differ"}
    BY <1>16, <1>i DEF MountImage, Goto, Typed
  <2>2. pc'[p] \in Attaching => pc[p] \in Attaching
    BY <1>16, <1>i DEF MountImage, Goto, Typed, Attaching
  <2>. QED
    BY <1>a, <1>b, <1>e, <2>1, <2>2 DEF Ahead, Attaching
<1>17. CASE MountImageFails(p)
  <2>1. pc'[p] \notin {"share", "shareLock", "status", "differ"}
    BY <1>17, <1>i DEF MountImageFails, Goto, Typed
  <2>2. pc'[p] \in Attaching => pc[p] \in Attaching
    BY <1>17, <1>i DEF MountImageFails, Goto, Typed, Attaching
  <2>. QED
    BY <1>a, <1>b, <1>e, <2>1, <2>2 DEF Ahead, Attaching
<1>18. CASE Ends(p)
  <2>1. pc'[p] \notin {"share", "shareLock", "status", "differ"}
    BY <1>18, <1>i DEF Ends, Gone, Goto, Typed
  <2>2. pc'[p] \in Attaching => pc[p] \in Attaching
    BY <1>18, <1>i DEF Ends, Gone, Goto, Typed, Attaching
  <2>. QED
    BY <1>a, <1>b, <1>e, <2>1, <2>2 DEF Ahead, Attaching
<1>19. CASE Crash(p)
  <2>1. pc'[p] \notin {"share", "shareLock", "status", "differ"}
    BY <1>19, <1>i DEF Crash, Gone, Goto, Typed
  <2>2. pc'[p] \in Attaching => pc[p] \in Attaching
    BY SMTT(20), <1>19, <1>i DEF Crash, Gone, Goto, Typed, Attaching
  <2>. QED
    BY <1>a, <1>b, <1>e, <2>1, <2>2 DEF Ahead, Attaching
<1>20. CASE AttachLockFails(p)
  <2>1. pc'[p] \notin {"share", "shareLock", "status", "differ"}
    BY <1>20, <1>i DEF AttachLockFails, Goto, Typed
  <2>2. pc'[p] \in Attaching => pc[p] \in Attaching
    BY <1>20, <1>i DEF AttachLockFails, Goto, Typed, Attaching
  <2>. QED
    BY <1>a, <1>b, <1>e, <2>1, <2>2 DEF Ahead, Attaching
<1>. QED
  BY <1>1, <1>2, <1>3, <1>4, <1>5, <1>6, <1>7, <1>8, <1>9, <1>10, <1>11, <1>12, <1>13, <1>14,
     <1>15, <1>16, <1>17, <1>18, <1>19, <1>20 DEF Step

\* Nor does one that passes a device that it could not look at: the device is no
\* candidate any more.
LEMMA SkipKept ==
    ASSUME Inv, NEW p \in Procs, Skips(p), Remember(p, {cur[p]})
    PROVE  Ahead(p)'
<1>i. Typed
  BY Parts
<1>s. pc[p] \in {"share", "shareLock", "status"}
  BY DEF Skips, ShareSkips, ShareUnread
<1>a. candidates'[p] \subseteq candidates[p] /\ cur[p] \notin candidates'[p]
  BY Zenon, <1>s, Remembered
<1>b. /\ Shared => \A d \in candidates[p] : cur[p] <= d
      /\ candidates[p] \subseteq Int /\ cur[p] \in Int
  <2>1. candidates[p] \subseteq Devices /\ Devices \subseteq Int
    BY DEF Inv, TypeOK, Devices
  <2>2. Shared => \A d \in candidates[p] : cur[p] <= d
    BY <1>s, Parts DEF CandidatesAhead
  <2>3. cur[p] \in Int
    BY <1>i DEF Typed
  <2>. QED
    BY Zenon, <2>1, <2>2, <2>3
<1>c. Shared => \A d \in candidates'[p] : d \in Int /\ cur[p] < d
  BY <1>a, <1>b
<1>d. \/ pc'[p] = "differ" /\ cur'[p] = cur[p]
      \/ pc'[p] = "share" /\ cur'[p] = cur[p] + 1
  BY <1>i DEF Skips, ShareSkips, ShareUnread, NextDevice, Goto, Typed
<1>e. Shared' = Shared
  BY Others
<1>. QED
  BY <1>b, <1>c, <1>d, <1>e DEF Ahead, Attaching

\* The candidates stay ahead of every search.
LEMMA AheadKept ==
    ASSUME Inv, NEW p \in Procs, NEW passed, Remember(p, passed),
           \/ (Step(p) \/ Crash(p)) /\ passed = {}
           \/ Skips(p) /\ passed = {cur[p]}
    PROVE  CandidatesAhead'
<1>1. \A q \in Procs : \A d \in candidates'[q] : MountedAs(d, want[q])'
  BY Zenon, Remembered
<1>2. ASSUME NEW q \in Procs \ {p}
      PROVE  Ahead(q)'
  <2>1. Ahead(q)
    BY Parts DEF CandidatesAhead, Ahead
  <2>2. pc'[q] = pc[q] /\ cur'[q] = cur[q] /\ Shared' = Shared
    BY Others
  <2>3. candidates'[q] \subseteq candidates[q]
    BY Zenon, <2>2, Remembered
  <2>. QED
    BY SMTT(20), <2>1, <2>2, <2>3 DEF Ahead
<1>3. Ahead(p)'
  BY Zenon, SearchKept, SkipKept
<1>. QED
  BY <1>1, <1>2, <1>3 DEF CandidatesAhead, Ahead

-----------------------------------------------------------------------------
\* The first state: nothing bound but the devices of others.
LEMMA InitInv == ASSUME Init PROVE Inv
<1>1. AnyView \in Views
  BY LoopAssumption DEF AnyView
<1>2. node \in Nodes
  BY LoopAssumption DEF Init
<1>3. /\ device \in [Devices -> Record]
      /\ \A d \in Devices : ~device[d].auto /\ device[d].file \in {None, Foreign}
  BY ZenonT(20) DEF Init, Free, Record
<1>4. TypeOK
  BY <1>1, <1>2, <1>3, LoopAssumption DEF Init, TypeOK, Record
<1>5. Lost = {}
  BY <1>3 DEF Lost
<1>6. LostAreCrashes
  BY <1>5, FS_EmptySet DEF LostAreCrashes, Init
<1>7. AutoIsOpen
  BY <1>3 DEF AutoIsOpen
<1>8. AtDevice /\ LocksHeld /\ ViewsKept
  BY DEF Init, AtDevice, LocksHeld, ViewsKept, Opens, HasOpen, Locking, Setting, Showing,
     Sharing
<1>9. CandidatesAhead
  BY DEF Init, CandidatesAhead, Attaching
<1>. QED
  BY <1>4, <1>6, <1>7, <1>8, <1>9 DEF Inv

\* Every step of every process keeps the invariant.
LEMMA NextInv == ASSUME Inv, [Next]_vars PROVE Inv'
<1>1. CASE UNCHANGED vars
  <2>1. /\ Shared' = Shared /\ device' = device /\ node' = node /\ lock' = lock
        /\ pc' = pc /\ cur' = cur /\ want' = want /\ retry' = retry /\ runs' = runs
        /\ crashes' = crashes /\ candidates' = candidates
    BY SMTT(20), <1>1 DEF vars
  <2>2. TypeOK'
    BY SMTT(20), <2>1 DEF Inv, TypeOK
  <2>3. AtDevice'
    BY <2>1, Parts DEF AtDevice
  <2>4. LocksHeld'
    BY Zenon, <2>1, Parts DEF LocksHeld
  <2>5. ViewsKept' /\ AutoIsOpen'
    BY Zenon, <2>1, Parts DEF ViewsKept, Gives, AutoIsOpen, Opening
  <2>6. LostAreCrashes'
    BY Zenon, <2>1 DEF Inv, LostAreCrashes, Lost
  <2>7. CandidatesAhead'
    BY Zenon, <2>1, Parts DEF CandidatesAhead, MountedAs, Gives
  <2>. QED
    BY <2>2, <2>3, <2>4, <2>5, <2>6, <2>7 DEF Inv
<1>2. ASSUME NEW p \in Procs, NEW passed, Remember(p, passed),
             \/ (Step(p) \/ Crash(p)) /\ passed = {}
             \/ Skips(p) /\ passed = {cur[p]}
      PROVE  Inv'
  <2>1. candidates' \in [Procs -> SUBSET Devices]
    BY <1>2 DEF Remember
  <2>2. Typed' /\ Counted'
    BY SMTT(20), <1>2, TypedKept, CountedKept
  <2>3. TypeOK'
    BY <2>1, <2>2 DEF TypeOK, Typed, Counted, Places, Record
  <2>. QED
    BY <1>2, <2>3, AtKept, LocksKept, ViewsAreKept, AutoKept, LostKept, AheadKept DEF Inv
<1>. QED
  BY Zenon, <1>1, <1>2 DEF Next, Moves

\* What the invariant says of the properties: a device that is bound and open to nobody
\* is lost.
LEMMA InvLoops == ASSUME Inv PROVE LoopsAreTheirs
<1>1. MountsItsImage
  BY Parts DEF ViewsKept, Showing, MountsItsImage
<1>2. OrphansAreCrashes
  <2>. DEFINE O == {d \in Devices : device[d].file \notin {None, Foreign} /\ Openers(d) = {}}
  <2>1. O \subseteq Lost
    BY Parts DEF AutoIsOpen, Openers, Opening, Lost, Owning, HasOpen, Setting
  <2>2. IsFiniteSet(Lost)
    <3>1. IsFiniteSet(Devices)
      BY FS_Interval, LoopAssumption DEF Devices
    <3>2. Lost \subseteq Devices
      BY DEF Lost
    <3>. QED
      BY <3>1, <3>2, FS_Subset
  <2>3. /\ Cardinality(O) <= Cardinality(Lost)
        /\ Cardinality(O) \in Nat /\ Cardinality(Lost) \in Nat
    <3>. HIDE DEF O
    <3>. QED
      BY <2>1, <2>2, FS_Subset, FS_CardinalityType
  <2>4. Cardinality(O) <= crashes
    <3>. HIDE DEF O
    <3>. QED
      BY <2>3, Parts, LoopAssumption DEF Inv, LostAreCrashes, Counted
  <2>. QED
    BY <2>4 DEF OrphansAreCrashes
<1>3. SharesMounted
  BY Parts DEF CandidatesAhead, Attaching, SharesMounted
<1>. QED
  BY SMTT(20), <1>1, <1>2, <1>3 DEF Inv, LoopsAreTheirs

\* A container mounts its own image, at its own offset and in its own mode, from the
\* device that the search gave it, a killed process loses one device at most, and with
\* shared devices an image that is mounted all through the search gets no second one,
\* unless the search could not open, lock or read the device that has it (shareLoop,
\* attachLoop and releaseDevice, pkg/util/loop/loop.go), whatever other processes do
\* in between.
THEOREM LoopsTheirs == Spec => []LoopsAreTheirs
<1>1. Init => Inv
  BY InitInv
<1>2. Inv /\ [Next]_vars => Inv'
  BY NextInv
<1>3. Inv => LoopsAreTheirs
  BY InvLoops
<1>. QED
  BY <1>1, <1>2, <1>3, PTL DEF Spec

=============================================================================
