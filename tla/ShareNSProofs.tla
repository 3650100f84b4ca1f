--------------------------- MODULE ShareNSProofs ----------------------------
(***************************************************************************)
(* The commands that share one container (ShareNS), for every number of    *)
(* commands and of failing first commands.                                 *)
(*                                                                         *)
(* The argument: until a lock file is created beside one in use, all the   *)
(* commands under way have the same inode open (OneLockFile), so that the  *)
(* locks, which belong to inodes, exclude what the protocol means them to  *)
(* exclude.  A command that makes a container holds the write lock from    *)
(* its launch until its instance file is written (LocksAreKept), no other  *)
(* can be doing the same, and nobody records an instance in between: the   *)
(* file is absent when it is written, and is its own until it deletes it   *)
(* (FileIsItsOwn).  A command that has joined holds the read lock, and the *)
(* one it has joined cannot get past the lock that it waits for before it  *)
(* tears the container down (JoinedWaitsFor).                              *)
(*                                                                         *)
(* Then the chain of processes of the starter, that each of these commands *)
(* runs, over variables of its own.                                        *)
(***************************************************************************)
EXTENDS ShareNS, FiniteSetTheorems, TLAPS

Launching == {"launch", "create", "record", "release"}
Recorded == {"release", "up", "lockw", "close", "unlink", "teardown", "delete"}

\* Until a lock file is created while another is in use, the commands under way
\* have the last inode open, and the path names no other.
OneLockFile ==
    ~overlap => /\ path \in {0, inodes}
                /\ \A p \in Procs : at[p] \notin Outside => ino[p] = inodes

\* The lock of a command at every step of shareNSLaunch, PostStartProcess and
\* CleanupContainer that says which.
LocksAreKept ==
    \A p \in Procs :
        /\ at[p] \in Outside \cup {"lock", "up", "unlink", "teardown", "delete"}
              => lk[p] = "none"
        /\ at[p] \in Launching \cup {"close"} => lk[p] = "write"
        /\ at[p] \in {"get", "join", "joined"} => lk[p] = "read"
        /\ at[p] \notin {"open", "reopen", "failed"} => ino[p] # 0

\* The instance file is absent until the command that makes the container writes
\* it, and names that command until it deletes it.
FileIsItsOwn ==
    ~overlap /\ fails = 0 =>
        \A p \in Procs : /\ at[p] \in {"create", "record"} => instance = None
                         /\ at[p] \in Recorded => instance = p

\* Whoever a command has joined runs its container, or waits for the commands that
\* have joined it before it goes on to tear it down.
JoinedWaitsFor ==
    ~overlap => \A p \in Procs :
        at[p] = "joined" => joined[p] \in Procs /\ at[joined[p]] \in {"up", "lockw"}

Inv == TypeOK /\ OneLockFile /\ LocksAreKept /\ FileIsItsOwn /\ JoinedWaitsFor

-----------------------------------------------------------------------------
\* The first state: no lock file, no instance, nobody under way.
LEMMA InitInv == ASSUME MaxFails \in Nat, Init PROVE Inv
<1>1. overlap \in BOOLEAN /\ excl \in [Procs -> BOOLEAN]
  BY ZenonT(20) DEF Init
<1>2. TypeOK
  BY <1>1 DEF Init, TypeOK
<1>. QED
  BY <1>2 DEF Init, Inv, OneLockFile, LocksAreKept, FileIsItsOwn, JoinedWaitsFor, Outside,
              Launching, Recorded

\* Every step of every command keeps the invariant.
LEMMA NextInv ==
    ASSUME MaxFails \in Nat, None \notin Procs, Inv, [Next]_vars
    PROVE  Inv'
<1>. USE DEF Inv
<1>1. CASE UNCHANGED vars
  BY <1>1 DEF vars, TypeOK, OneLockFile, LocksAreKept, FileIsItsOwn, JoinedWaitsFor
<1>2. ASSUME NEW p \in Procs, Step(p)
      PROVE  Inv'
  <2>1. CASE Open(p)
    <3>1. TypeOK'
      <4>1. path' \in 0..inodes' /\ inodes' \in Nat /\ inodes <= inodes'
        BY <2>1 DEF Open, TypeOK
      <4>2. ino' = IF path = 0 THEN [ino EXCEPT ![p] = inodes'] ELSE ino
        BY <2>1 DEF Open
      <4>3. ino' \in [Procs -> 0..inodes']
        BY <4>1, <4>2 DEF TypeOK
      <4>7. excl' \in [Procs -> BOOLEAN]
        BY Zenon, <2>1 DEF Open, TypeOK
      <4>4. marked' \subseteq 1..inodes'
        BY <2>1, <4>1 DEF Open, TypeOK
      <4>5. lk[p] = "none"
        BY <2>1 DEF Open, LocksAreKept, Outside
      <4>6. overlap' \in BOOLEAN
        BY <2>1 DEF Open, TypeOK
      <4>. QED
        BY <2>1, <4>1, <4>2, <4>3, <4>4, <4>5, <4>6, <4>7 DEF Open, Goto, TypeOK
    <3>2. OneLockFile'
      BY Zenon, <2>1 DEF Open, Goto, TypeOK, OneLockFile, Outside
    <3>3. LocksAreKept'
      BY <2>1 DEF Open, Goto, TypeOK, LocksAreKept, Outside, Launching
    <3>4. FileIsItsOwn'
      BY <2>1 DEF Open, Goto, TypeOK, OneLockFile, LocksAreKept, FileIsItsOwn, Outside,
         Launching,
                    Recorded
    <3>5. JoinedWaitsFor'
      BY <2>1 DEF Open, Goto, TypeOK, OneLockFile, LocksAreKept, JoinedWaitsFor, Outside,
         Launching
    <3>. QED
      BY <3>1, <3>2, <3>3, <3>4, <3>5
  <2>2. CASE Lock(p)
    <3>1. TypeOK'
      BY <2>2 DEF Lock, Goto, Free, TypeOK
    <3>2. OneLockFile'
      BY <2>2 DEF Lock, Goto, Free, TypeOK, OneLockFile, Outside
    <3>3. LocksAreKept'
      BY <2>2 DEF Lock, Goto, Free, TypeOK, LocksAreKept, Outside, Launching
    <3>4. FileIsItsOwn'
      BY <2>2 DEF Lock, Goto, Free, TypeOK, OneLockFile, LocksAreKept, FileIsItsOwn, Outside,
         Launching,
                    Recorded
    <3>5. JoinedWaitsFor'
      BY <2>2 DEF Lock, Goto, Free, TypeOK, OneLockFile, LocksAreKept, JoinedWaitsFor, Outside,
         Launching
    <3>. QED
      BY <3>1, <3>2, <3>3, <3>4, <3>5
  <2>3. CASE RLock(p)
    <3>1. TypeOK'
      BY <2>3 DEF RLock, Goto, Free, TypeOK
    <3>2. OneLockFile'
      BY <2>3 DEF RLock, Goto, Free, TypeOK, OneLockFile, Outside
    <3>3. LocksAreKept'
      BY <2>3 DEF RLock, Goto, Free, TypeOK, LocksAreKept, Outside, Launching
    <3>4. FileIsItsOwn'
      BY <2>3 DEF RLock, Goto, Free, TypeOK, OneLockFile, LocksAreKept, FileIsItsOwn, Outside,
         Launching,
                    Recorded
    <3>5. JoinedWaitsFor'
      BY <2>3 DEF RLock, Goto, Free, TypeOK, OneLockFile, LocksAreKept, JoinedWaitsFor, Outside,
         Launching
    <3>. QED
      BY <3>1, <3>2, <3>3, <3>4, <3>5
  <2>4. CASE GetInstance(p)
    <3>1. TypeOK'
      BY <2>4 DEF GetInstance, Goto, Exit, TypeOK
    <3>2. OneLockFile'
      BY <2>4 DEF GetInstance, Goto, Exit, TypeOK, OneLockFile, Outside
    <3>3. LocksAreKept'
      BY <2>4 DEF GetInstance, Goto, Exit, TypeOK, LocksAreKept, Outside, Launching
    <3>4. FileIsItsOwn'
      BY <2>4 DEF GetInstance, Goto, Exit, TypeOK, OneLockFile, LocksAreKept, FileIsItsOwn,
         Outside, Launching,
                    Recorded
    <3>5. JoinedWaitsFor'
      BY <2>4 DEF GetInstance, Goto, Exit, TypeOK, OneLockFile, LocksAreKept, JoinedWaitsFor,
         Outside, Launching
    <3>. QED
      BY <3>1, <3>2, <3>3, <3>4, <3>5
  <2>5. CASE Join(p)
    <3>1. TypeOK'
      BY <2>5 DEF Join, Goto, Exit, TypeOK
    <3>2. OneLockFile'
      BY <2>5 DEF Join, Goto, Exit, TypeOK, OneLockFile, Outside
    <3>3. LocksAreKept'
      BY <2>5 DEF Join, Goto, Exit, TypeOK, LocksAreKept, Outside, Launching
    <3>4. FileIsItsOwn'
      BY <2>5 DEF Join, Goto, Exit, TypeOK, OneLockFile, LocksAreKept, FileIsItsOwn, Outside,
         Launching,
                    Recorded
    <3>5. JoinedWaitsFor'
      BY <2>5 DEF Join, Goto, Exit, TypeOK, OneLockFile, LocksAreKept, JoinedWaitsFor, Outside,
         Launching
    <3>. QED
      BY <3>1, <3>2, <3>3, <3>4, <3>5
  <2>6. CASE JoinedEnds(p)
    <3>1. TypeOK'
      BY <2>6 DEF JoinedEnds, Goto, Exit, TypeOK
    <3>2. OneLockFile'
      BY <2>6 DEF JoinedEnds, Goto, Exit, TypeOK, OneLockFile, Outside
    <3>3. LocksAreKept'
      BY <2>6 DEF JoinedEnds, Goto, Exit, TypeOK, LocksAreKept, Outside, Launching
    <3>4. FileIsItsOwn'
      BY <2>6 DEF JoinedEnds, Goto, Exit, TypeOK, OneLockFile, LocksAreKept, FileIsItsOwn,
         Outside, Launching,
                    Recorded
    <3>5. JoinedWaitsFor'
      BY <2>6 DEF JoinedEnds, Goto, Exit, TypeOK, OneLockFile, LocksAreKept, JoinedWaitsFor,
         Outside, Launching
    <3>. QED
      BY <3>1, <3>2, <3>3, <3>4, <3>5
  <2>7. CASE Launch(p)
    <3>1. TypeOK'
      BY <2>7 DEF Launch, Goto, Exit, TypeOK
    <3>2. OneLockFile'
      BY <2>7 DEF Launch, Goto, Exit, TypeOK, OneLockFile, Outside
    <3>3. LocksAreKept'
      BY <2>7 DEF Launch, Goto, Exit, TypeOK, LocksAreKept, Outside, Launching
    <3>4. FileIsItsOwn'
      BY <2>7 DEF Launch, Goto, Exit, TypeOK, OneLockFile, LocksAreKept, FileIsItsOwn, Outside,
         Launching,
                    Recorded
    <3>5. JoinedWaitsFor'
      BY <2>7 DEF Launch, Goto, Exit, TypeOK, OneLockFile, LocksAreKept, JoinedWaitsFor,
         Outside, Launching
    <3>. QED
      BY <3>1, <3>2, <3>3, <3>4, <3>5
  <2>8. CASE Create(p)
    <3>1. TypeOK'
      BY <2>8 DEF Create, Goto, TypeOK
    <3>2. OneLockFile'
      BY <2>8 DEF Create, Goto, TypeOK, OneLockFile, Outside
    <3>3. LocksAreKept'
      BY <2>8 DEF Create, Goto, TypeOK, LocksAreKept, Outside, Launching
    <3>4. FileIsItsOwn'
      BY <2>8 DEF Create, Goto, TypeOK, OneLockFile, LocksAreKept, FileIsItsOwn, Outside,
         Launching,
                    Recorded
    <3>5. JoinedWaitsFor'
      BY <2>8 DEF Create, Goto, TypeOK, OneLockFile, LocksAreKept, JoinedWaitsFor, Outside,
         Launching
    <3>. QED
      BY <3>1, <3>2, <3>3, <3>4, <3>5
  <2>9. CASE Record(p)
    <3>1. TypeOK'
      BY <2>9 DEF Record, Goto, TypeOK
    <3>2. OneLockFile'
      BY <2>9 DEF Record, Goto, TypeOK, OneLockFile, Outside
    <3>3. LocksAreKept'
      BY <2>9 DEF Record, Goto, TypeOK, LocksAreKept, Outside, Launching
    <3>4. FileIsItsOwn'
      BY <2>9 DEF Record, Goto, TypeOK, OneLockFile, LocksAreKept, FileIsItsOwn, Outside,
         Launching,
                    Recorded
    <3>5. JoinedWaitsFor'
      BY <2>9 DEF Record, Goto, TypeOK, OneLockFile, LocksAreKept, JoinedWaitsFor, Outside,
         Launching
    <3>. QED
      BY <3>1, <3>2, <3>3, <3>4, <3>5
  <2>10. CASE Release(p)
    <3>1. TypeOK'
      <4>1. ino[p] \in 1..inodes
        BY <2>10 DEF Release, TypeOK, LocksAreKept
      <4>2. marked' \subseteq 1..inodes'
        BY Zenon, <2>10, <4>1 DEF Release, TypeOK
      <4>. QED
        BY <2>10, <4>2 DEF Release, Goto, TypeOK
    <3>2. OneLockFile'
      BY <2>10 DEF Release, Goto, TypeOK, OneLockFile, Outside
    <3>3. LocksAreKept'
      BY <2>10 DEF Release, Goto, TypeOK, LocksAreKept, Outside, Launching
    <3>4. FileIsItsOwn'
      BY <2>10 DEF Release, Goto, TypeOK, OneLockFile, LocksAreKept, FileIsItsOwn, Outside,
         Launching,
                    Recorded
    <3>5. JoinedWaitsFor'
      BY <2>10 DEF Release, Goto, TypeOK, OneLockFile, LocksAreKept, JoinedWaitsFor, Outside,
         Launching
    <3>. QED
      BY <3>1, <3>2, <3>3, <3>4, <3>5
  <2>11. CASE Ends(p)
    <3>1. TypeOK'
      BY <2>11 DEF Ends, Goto, TypeOK
    <3>2. OneLockFile'
      BY <2>11 DEF Ends, Goto, TypeOK, OneLockFile, Outside
    <3>3. LocksAreKept'
      BY <2>11 DEF Ends, Goto, TypeOK, LocksAreKept, Outside, Launching
    <3>4. FileIsItsOwn'
      BY <2>11 DEF Ends, Goto, TypeOK, OneLockFile, LocksAreKept, FileIsItsOwn, Outside,
         Launching,
                    Recorded
    <3>5. JoinedWaitsFor'
      BY <2>11 DEF Ends, Goto, TypeOK, OneLockFile, LocksAreKept, JoinedWaitsFor, Outside,
         Launching
    <3>. QED
      BY <3>1, <3>2, <3>3, <3>4, <3>5
  <2>12. CASE LockW(p)
    <3>1. TypeOK'
      BY <2>12 DEF LockW, Goto, Free, TypeOK
    <3>2. OneLockFile'
      BY <2>12 DEF LockW, Goto, Free, TypeOK, OneLockFile, Outside
    <3>3. LocksAreKept'
      BY <2>12 DEF LockW, Goto, Free, TypeOK, LocksAreKept, Outside, Launching
    <3>4. FileIsItsOwn'
      BY <2>12 DEF LockW, Goto, Free, TypeOK, OneLockFile, LocksAreKept, FileIsItsOwn, Outside,
         Launching,
                    Recorded
    <3>5. JoinedWaitsFor'
      BY <2>12 DEF LockW, Goto, Free, TypeOK, OneLockFile, LocksAreKept, JoinedWaitsFor,
         Outside, Launching
    <3>. QED
      BY <3>1, <3>2, <3>3, <3>4, <3>5
  <2>13. CASE Close(p)
    <3>1. TypeOK'
      BY <2>13 DEF Close, Goto, Exit, TypeOK
    <3>2. OneLockFile'
      BY <2>13 DEF Close, Goto, Exit, TypeOK, OneLockFile, Outside
    <3>3. LocksAreKept'
      BY <2>13 DEF Close, Goto, Exit, TypeOK, LocksAreKept, Outside, Launching
    <3>4. FileIsItsOwn'
      BY <2>13 DEF Close, Goto, Exit, TypeOK, OneLockFile, LocksAreKept, FileIsItsOwn, Outside,
         Launching,
                    Recorded
    <3>5. JoinedWaitsFor'
      BY <2>13 DEF Close, Goto, Exit, TypeOK, OneLockFile, LocksAreKept, JoinedWaitsFor,
         Outside, Launching
    <3>. QED
      BY <3>1, <3>2, <3>3, <3>4, <3>5
  <2>14. CASE Unlink(p)
    <3>1. TypeOK'
      BY <2>14 DEF Unlink, Goto, TypeOK
    <3>2. OneLockFile'
      BY <2>14 DEF Unlink, Goto, TypeOK, OneLockFile, Outside
    <3>3. LocksAreKept'
      BY <2>14 DEF Unlink, Goto, TypeOK, LocksAreKept, Outside, Launching
    <3>4. FileIsItsOwn'
      BY <2>14 DEF Unlink, Goto, TypeOK, OneLockFile, LocksAreKept, FileIsItsOwn, Outside,
         Launching,
                    Recorded
    <3>5. JoinedWaitsFor'
      BY <2>14 DEF Unlink, Goto, TypeOK, OneLockFile, LocksAreKept, JoinedWaitsFor, Outside,
         Launching
    <3>. QED
      BY <3>1, <3>2, <3>3, <3>4, <3>5
  <2>15. CASE Teardown(p)
    <3>1. TypeOK'
      BY <2>15 DEF Teardown, Goto, TypeOK
    <3>2. OneLockFile'
      BY <2>15 DEF Teardown, Goto, TypeOK, OneLockFile, Outside
    <3>3. LocksAreKept'
      BY <2>15 DEF Teardown, Goto, TypeOK, LocksAreKept, Outside, Launching
    <3>4. FileIsItsOwn'
      BY <2>15 DEF Teardown, Goto, TypeOK, OneLockFile, LocksAreKept, FileIsItsOwn, Outside,
         Launching,
                    Recorded
    <3>5. JoinedWaitsFor'
      BY <2>15 DEF Teardown, Goto, TypeOK, OneLockFile, LocksAreKept, JoinedWaitsFor, Outside,
         Launching
    <3>. QED
      BY <3>1, <3>2, <3>3, <3>4, <3>5
  <2>16. CASE Delete(p)
    <3>1. TypeOK'
      BY <2>16 DEF Delete, Goto, TypeOK
    <3>2. OneLockFile'
      BY <2>16 DEF Delete, Goto, TypeOK, OneLockFile, Outside
    <3>3. LocksAreKept'
      BY <2>16 DEF Delete, Goto, TypeOK, LocksAreKept, Outside, Launching
    <3>4. FileIsItsOwn'
      BY <2>16 DEF Delete, Goto, TypeOK, OneLockFile, LocksAreKept, FileIsItsOwn, Outside,
         Launching,
                    Recorded
    <3>5. JoinedWaitsFor'
      BY <2>16 DEF Delete, Goto, TypeOK, OneLockFile, LocksAreKept, JoinedWaitsFor, Outside,
         Launching
    <3>. QED
      BY <3>1, <3>2, <3>3, <3>4, <3>5
  <2>17. CASE Reopen(p)
    <3>1. TypeOK'
      BY <2>17 DEF Reopen, Goto, TypeOK, LocksAreKept, Outside
    <3>2. OneLockFile'
      BY <2>17 DEF Reopen, Goto, TypeOK, OneLockFile, Outside
    <3>3. LocksAreKept'
      BY <2>17 DEF Reopen, Goto, TypeOK, LocksAreKept, Outside, Launching
    <3>4. FileIsItsOwn'
      BY <2>17 DEF Reopen, Goto, TypeOK, OneLockFile, LocksAreKept, FileIsItsOwn, Outside,
         Launching,
                    Recorded
    <3>5. JoinedWaitsFor'
      BY <2>17 DEF Reopen, Goto, TypeOK, OneLockFile, LocksAreKept, JoinedWaitsFor, Outside,
         Launching
    <3>. QED
      BY <3>1, <3>2, <3>3, <3>4, <3>5
  <2>. QED
    BY <1>2, <2>1, <2>2, <2>3, <2>4, <2>5, <2>6, <2>7, <2>8, <2>9, <2>10, <2>11, <2>12,
       <2>13, <2>14, <2>15, <2>16, <2>17 DEF Step
<1>. QED
  BY <1>1, <1>2 DEF Next

\* What the invariant says of the two properties: two commands with containers of
\* their own would both hold the write lock, or the file would be both's.
LEMMA InvShared ==
    ASSUME None \notin Procs, Inv
    PROVE  ContainerIsShared
<1>1. OneContainerOnFile
  <2>. SUFFICES ASSUME ~overlap, fails = 0
                PROVE  /\ Cardinality({p \in Procs : at[p] \in {"create", "record", "release", "up"}})
                             <= 1
                       /\ \A p \in Procs : at[p] = "up" => instance = p
    BY DEF OneContainerOnFile
  <2>. DEFINE S == {p \in Procs : at[p] \in {"create", "record", "release", "up"}}
  <2>1. \A p, q \in S : p = q
    BY DEF Inv, TypeOK, OneLockFile, LocksAreKept, FileIsItsOwn, Outside, Launching, Recorded
  <2>2. Cardinality(S) <= 1
    <3>1. CASE S = {}
      BY <3>1, FS_EmptySet
    <3>2. CASE S # {}
      <4>1. PICK p : p \in S
        BY <3>2
      <4>2. S = {p}
        BY <2>1, <4>1
      <4>. HIDE DEF S
      <4>. QED
        BY <4>2, FS_Singleton
    <3>. QED
      BY <3>1, <3>2
  <2>. QED
    BY <2>2 DEF Inv, FileIsItsOwn, Recorded
<1>2. JoinedIsHeld
  BY DEF Inv, JoinedWaitsFor, JoinedIsHeld
<1>. QED
  BY <1>1, <1>2 DEF Inv, ContainerIsShared

\* Commands of one parent with --sharens, however many, have one container between
\* them, whose file stays until its own command deletes it, and the command that
\* started it does not take it from under one that has joined it
\* (shareNSLaunch, actions.go:396-438; CleanupContainer, cleanup_linux.go:50), until
\* a lock file is created beside one that is in use.
THEOREM ContainerShared ==
    ASSUME MaxFails \in Nat, None \notin Procs
    PROVE  Spec => []ContainerIsShared
<1>1. Init => Inv
  BY InitInv
<1>2. Inv /\ [Next]_vars => Inv'
  BY NextInv
<1>3. Inv => ContainerIsShared
  BY InvShared
<1>. QED
  BY <1>1, <1>2, <1>3, PTL DEF Spec

-----------------------------------------------------------------------------
(***************************************************************************)
(* The starter's chain of processes, for any installation, configuration   *)
(* and number of kills: module Starter over variables of its own.          *)
(***************************************************************************)
CONSTANTS Hosts, Configs, MaxKills
VARIABLES host, cfg, pc, st, toChild, toMain, sigchld, pdeath, mapped, shared, nsJoined,
          rpcOpen, detached, kills

Chain == INSTANCE Starter WITH joined <- nsJoined

ChainConstants ==
    /\ Hosts \subseteq [suid : BOOLEAN, root : BOOLEAN, credChange : BOOLEAN]
    /\ Configs \subseteq [instance : BOOLEAN, joinOnly : BOOLEAN, hybrid : BOOLEAN,
                          propagate : BOOLEAN, pidns : BOOLEAN,
                          userns : {"none", "enter", "create"}]
    /\ MaxKills \in Nat

\* main before it has a child, and after its part of the start; the child once it may
\* have the RPC server.
Early == {"stage1", "instance", "setup"}
Late == {"release", "wait", "go"}
Past == {"mount", "rpcwait", "privs", "pdeath2", "go"}

Steps == Chain!MainPC \cup Chain!ChildPC \cup {"none", "run", "wait", "serve", "dead"}

ChainTypes ==
    /\ host \in Hosts
    /\ cfg \in Configs \cup {Chain!NoConfig}
    /\ pc \in [Chain!Procs -> Steps]
    /\ pc["stage1"] \in {"none", "run", "dead"} /\ pc["parent"] \in {"none", "wait", "dead"}
    /\ pc["main"] \in Chain!MainPC \cup {"dead"}
    /\ pc["child"] \in Chain!ChildPC \cup {"none", "dead"}
    /\ pc["rpc"] \in {"none", "serve", "dead"}
    /\ st \in [Chain!Procs -> Chain!Statuses]
    /\ toChild \in 0..1 /\ toMain \in 0..1
    /\ sigchld \in BOOLEAN
    /\ pdeath \subseteq {"stage1", "child", "rpc"}
    /\ mapped \in BOOLEAN /\ shared \in BOOLEAN /\ nsJoined \in BOOLEAN
    /\ rpcOpen \in BOOLEAN /\ detached \in BOOLEAN
    /\ kills \in 0..MaxKills

\* A status of 0 is passed on from the container process to main and its parent.
StatusInv ==
    /\ st["child"] = 0 => pc["child"] = "dead"
    /\ st["stage1"] = 0 => cfg \in Configs
    /\ st["main"] = 0 => st["child"] = 0
    /\ st["parent"] = 0 => detached \/ st["child"] = 0

\* The order in which the processes come to be.
BornInv ==
    /\ pc["main"] \notin {"stage1", "dead"} => pc["stage1"] = "dead" /\ cfg \in Configs
    /\ pc["main"] \in Early => pc["child"] = "none"
    /\ pc["child"] = "none" => pc["main"] \in Early \cup {"dead"} /\ toChild = 0 /\ toMain = 0
    /\ pc["child"] # "none" => pc["stage1"] = "dead" /\ cfg \in Configs
    /\ pc["child"] \in {"none", "map", "pdeath", "namespaces", "joinwait", "mount"}
          => pc["rpc"] = "none"
    /\ pc["child"] \in {"privs", "pdeath2", "go"} => pc["rpc"] # "serve"

\* The bytes of the socket, by where the child is.
ChildSync ==
    /\ pc["child"] = "map" =>
          /\ cfg.userns = "create" /\ pc["main"] \in {"map", "event", "dead"}
          /\ toMain = 0 /\ (toChild = 1 => mapped)
    /\ pc["child"] \in {"pdeath", "namespaces"} =>
          toChild = 0 /\ toMain = 0 /\ pc["main"] \in {"event", "dead"}
    /\ pc["child"] = "joinwait" =>
          /\ Chain!Propagate /\ pc["main"] \in {"event", "join", "dead"} \cup Late
          /\ pc["main"] \in {"event", "join"} => toChild = 0
          /\ toChild = 1 => nsJoined
    /\ pc["child"] \in Past =>
          /\ toChild = 0 /\ pc["main"] \in {"event", "dead"} \cup Late
          /\ Chain!Propagate => nsJoined /\ pc["main"] # "event"
    /\ cfg.userns = "create" /\ pc["child"] \in Chain!ChildPC \ {"map"} => mapped
\* ... and by where main is.
MainSync ==
    /\ pc["main"] = "map" => toChild = 0 /\ pc["child"] \in {"map", "dead"}
    /\ pc["main"] = "join" => Chain!Propagate /\ shared /\ pc["child"] \in {"joinwait", "dead"}
    /\ pc["main"] \in {"join"} \cup Late => toMain = 0
    /\ toMain = 1 /\ Chain!Propagate => shared
    /\ nsJoined => shared

\* The death signal is asked for before main is told of the namespaces, and kept where
\* the user ID stays.
DeathInv ==
    ~Chain!CredChange =>
        /\ pc["child"] \in {"namespaces", "joinwait"} \cup Past => "child" \in pdeath
        /\ pc["child"] \in {"joinwait"} \cup Past => pc["main"] # "dead"

ChainInv == ChainTypes /\ StatusInv /\ BornInv /\ ChildSync /\ MainSync /\ DeathInv

\* What the end of a process changes.
LEMMA DieFacts ==
    ASSUME ChainTypes, NEW p \in Chain!Procs, NEW s \in Chain!Statuses, Chain!Exists(p),
           Chain!Die(p, s)
    PROVE  /\ pc' \in [Chain!Procs -> Steps] /\ st' \in [Chain!Procs -> Chain!Statuses]
           /\ sigchld' \in BOOLEAN
           /\ pc'[p] = "dead" /\ st'[p] = s
           /\ \A q \in Chain!Procs :
                /\ pc'[q] \in {pc[q], "dead"}
                /\ pc[q] = "none" => pc'[q] = "none"
                /\ ~Chain!Exists(q) => st'[q] = st[q]
                /\ q # p => st'[q] \in {st[q], Chain!Killed}
           /\ p # "main" => pc'["main"] = pc["main"] /\ st'["main"] = st["main"]
           /\ p # "parent" => pc'["parent"] = pc["parent"] /\ st'["parent"] = st["parent"]
           /\ p = "main" /\ "child" \in pdeath /\ Chain!Exists("child") => pc'["child"] = "dead"
<1> USE DEF ChainTypes, Chain!Die, Chain!Exists, Chain!Procs, Chain!Statuses, Chain!Killed,
            Steps, Chain!MainPC, Chain!ChildPC
<1> DEFINE V == Chain!Victims(p)
<1>1. /\ V \subseteq {"stage1", "child", "rpc"} /\ \A q \in V : Chain!Exists(q)
      /\ p = "main" /\ "child" \in pdeath /\ Chain!Exists("child") => "child" \in V
    BY DEF Chain!Victims
<1> HIDE DEF V
<1>2. /\ pc' = [q \in Chain!Procs |-> IF q = p \/ q \in V THEN "dead" ELSE pc[q]]
      /\ st' = [q \in Chain!Procs |-> IF q = p THEN s ELSE IF q \in V THEN 137 ELSE st[q]]
      /\ sigchld' = (sigchld \/ "child" \in {p} \cup V)
    BY DEF V
<1>3. sigchld' \in BOOLEAN
    BY <1>2, Zenon
<1>4. pc' \in [Chain!Procs -> Steps] /\ st' \in [Chain!Procs -> Chain!Statuses]
    BY <1>2
<1>5. pc'[p] = "dead" /\ st'[p] = s
    BY <1>2
<1>6. ASSUME NEW q \in Chain!Procs
      PROVE  /\ pc'[q] \in {pc[q], "dead"}
             /\ pc[q] = "none" => pc'[q] = "none"
             /\ ~Chain!Exists(q) => st'[q] = st[q]
             /\ q # p => st'[q] \in {st[q], 137}
    BY <1>1, <1>2
<1>7. /\ p # "main" => pc'["main"] = pc["main"] /\ st'["main"] = st["main"]
      /\ p # "parent" => pc'["parent"] = pc["parent"] /\ st'["parent"] = st["parent"]
    BY <1>1, <1>2
<1>8. p = "main" /\ "child" \in pdeath /\ Chain!Exists("child") => pc'["child"] = "dead"
    BY <1>1, <1>2
<1> QED
    BY <1>3, <1>4, <1>5, <1>6, <1>7, <1>8

\* The end of a process, by itself, by a signal or with another.
LEMMA ChainDies ==
    ASSUME ChainConstants, ChainInv, NEW p \in Chain!Procs, NEW s \in Chain!Statuses,
           Chain!Exists(p), Chain!Die(p, s),
           p = "stage1" => s # 0,
           p = "main" /\ s = 0 => st["child"] = 0,
           p = "parent" /\ s = 0 => detached \/ st["child"] = 0,
           UNCHANGED <<host, cfg, toChild, toMain, pdeath, nsJoined, rpcOpen, detached>>,
           mapped' \in BOOLEAN, mapped => mapped', shared' \in BOOLEAN, shared => shared',
           kills' \in 0..MaxKills
    PROVE  ChainInv'
<1> USE DEF ChainInv
<1>1. /\ pc' \in [Chain!Procs -> Steps] /\ st' \in [Chain!Procs -> Chain!Statuses]
      /\ sigchld' \in BOOLEAN
      /\ pc'[p] = "dead" /\ st'[p] = s
      /\ p # "main" => pc'["main"] = pc["main"] /\ st'["main"] = st["main"]
      /\ p # "parent" => pc'["parent"] = pc["parent"] /\ st'["parent"] = st["parent"]
      /\ p = "main" /\ "child" \in pdeath /\ Chain!Exists("child") => pc'["child"] = "dead"
    BY DieFacts
<1>2. \A q \in Chain!Procs :
         /\ pc'[q] \in {pc[q], "dead"}
         /\ pc[q] = "none" => pc'[q] = "none"
         /\ ~Chain!Exists(q) => st'[q] = st[q]
         /\ q # p => st'[q] \in {st[q], Chain!Killed}
    BY DieFacts
<1>3. /\ pc'["stage1"] \in {pc["stage1"], "dead"} /\ pc'["main"] \in {pc["main"], "dead"}
      /\ pc'["child"] \in {pc["child"], "dead"} /\ pc'["rpc"] \in {pc["rpc"], "dead"}
      /\ pc'["parent"] \in {pc["parent"], "dead"}
      /\ pc["child"] = "none" => pc'["child"] = "none"
      /\ pc["rpc"] = "none" => pc'["rpc"] = "none"
    BY <1>2 DEF Chain!Procs
<1>4. ChainTypes'
    BY <1>1, <1>3 DEF ChainTypes
<1>5. StatusInv'
  <2>1. st["child"] = 0 => st'["child"] = 0 /\ p # "child"
    BY <1>2 DEF StatusInv, Chain!Procs, Chain!Exists
  <2>2. st'["child"] = 0 => pc'["child"] = "dead"
    BY <1>1, <1>2, <1>3 DEF StatusInv, Chain!Procs, Chain!Killed
  <2>3. st'["stage1"] = 0 => cfg' \in Configs'
    BY <1>1, <1>2 DEF StatusInv, Chain!Procs, Chain!Killed
  <2> QED
    BY <1>1, <2>1, <2>2, <2>3 DEF StatusInv
<1>6. BornInv'
    BY <1>1, <1>3 DEF BornInv, ChainTypes, Early, Chain!ChildPC, Chain!MainPC, Chain!Exists
<1>7. ChildSync'
    BY <1>3 DEF ChildSync, Chain!Propagate, Past, Late, Chain!ChildPC
<1>8. MainSync'
    BY <1>3 DEF MainSync, Chain!Propagate, Late
<1>9. DeathInv'
    BY <1>1, <1>3 DEF DeathInv, Chain!CredChange, Past, Chain!Exists
<1> QED
    BY <1>4, <1>5, <1>6, <1>7, <1>8, <1>9

\* Stage 1 ends well: the configuration is there.
LEMMA ChainStageOne ==
    ASSUME ChainConstants, ChainInv, Chain!StageOne
    PROVE  ChainInv'
<1> USE DEF ChainInv, Chain!StageOne, Chain!Sync, Chain!Names, Chain!Rest
<1>1. /\ Chain!Exists("stage1") /\ cfg' \in Configs /\ pc["main"] \in {"stage1", "dead"}
      /\ pc["child"] = "none" /\ pc["rpc"] = "none"
    BY DEF Chain!Exists, BornInv, ChainTypes
<1>2. pc' = [pc EXCEPT !["stage1"] = "dead"] /\ st' = [st EXCEPT !["stage1"] = 0]
    BY Zenon, <1>1 DEF Chain!Die, Chain!Victims, Chain!Procs, ChainTypes
<1>3. sigchld' \in BOOLEAN
    BY <1>1, DieFacts DEF Chain!Procs, Chain!Statuses
<1>4. ChainTypes'
    BY <1>1, <1>2, <1>3 DEF ChainTypes, Chain!Procs, Chain!Statuses, Steps
<1>5. StatusInv' /\ BornInv'
    BY <1>1, <1>2 DEF StatusInv, BornInv, ChainTypes, Chain!Procs, Early
<1>6. ChildSync' /\ MainSync' /\ DeathInv'
    BY <1>1, <1>2
    DEF ChildSync, MainSync, DeathInv, BornInv, ChainTypes, Chain!Procs, Past, Late,
        Chain!ChildPC, Chain!CredChange
<1> QED
    BY <1>4, <1>5, <1>6

\* main forks the parent of an instance.
LEMMA ChainMainInstance ==
    ASSUME ChainConstants, ChainInv, Chain!MainInstance
    PROVE  ChainInv'
<1> USE DEF ChainInv, Chain!MainInstance, Chain!Goto, Chain!Sync, Chain!Names, Chain!Rest,
            Chain!Procs, Chain!Propagate, Chain!CredChange, Chain!MainPC, Chain!ChildPC,
            Early, Late, Past, Steps
<1>1. ChainTypes'
    BY Zenon DEF ChainTypes, BornInv, ChildSync, MainSync
<1>2. StatusInv'
    BY DEF ChainTypes, StatusInv, BornInv
<1>3. BornInv'
    BY DEF ChainTypes, BornInv, ChildSync, MainSync, StatusInv
<1>4. ChildSync'
    BY DEF ChainTypes, BornInv, ChildSync, MainSync
<1>5. MainSync'
    BY DEF ChainTypes, BornInv, ChildSync, MainSync
<1>6. DeathInv'
    BY DEF ChainTypes, BornInv, ChildSync, MainSync, DeathInv
<1> QED
    BY <1>1, <1>2, <1>3, <1>4, <1>5, <1>6

\* main lets Go go on, once its own part is done.
LEMMA ChainMainRelease ==
    ASSUME ChainConstants, ChainInv, Chain!MainRelease
    PROVE  ChainInv'
<1> USE DEF ChainInv, Chain!MainRelease, Chain!Goto, Chain!Sync, Chain!Names, Chain!Rest,
            Chain!Procs, Chain!Propagate, Chain!CredChange, Chain!MainPC, Chain!ChildPC,
            Early, Late, Past, Steps
<1>1. ChainTypes'
    BY DEF ChainTypes, BornInv, ChildSync, MainSync
<1>2. StatusInv'
    BY DEF ChainTypes, StatusInv, BornInv
<1>3. BornInv'
    BY DEF ChainTypes, BornInv, ChildSync, MainSync, StatusInv
<1>4. ChildSync'
    BY DEF ChainTypes, BornInv, ChildSync, MainSync
<1>5. MainSync'
    BY DEF ChainTypes, BornInv, ChildSync, MainSync
<1>6. DeathInv'
    BY DEF ChainTypes, BornInv, ChildSync, MainSync, DeathInv
<1> QED
    BY <1>1, <1>2, <1>3, <1>4, <1>5, <1>6

\* The child asks to be killed when main dies.
LEMMA ChainChildDeathSignal ==
    ASSUME ChainConstants, ChainInv, Chain!ChildDeathSignal
    PROVE  ChainInv'
<1> USE DEF ChainInv, Chain!ChildDeathSignal, Chain!Goto, Chain!Sync, Chain!Names,
            Chain!Rest, Chain!Procs, Chain!Propagate, Chain!CredChange, Chain!MainPC,
            Chain!ChildPC, Early, Late, Past, Steps
<1>1. ChainTypes'
    BY DEF ChainTypes, BornInv, ChildSync, MainSync
<1>2. StatusInv'
    BY DEF ChainTypes, StatusInv, BornInv
<1>3. BornInv'
    BY DEF ChainTypes, BornInv, ChildSync, MainSync, StatusInv
<1>4. ChildSync'
    BY DEF ChainTypes, BornInv, ChildSync, MainSync
<1>5. MainSync'
    BY DEF ChainTypes, BornInv, ChildSync, MainSync
<1>6. DeathInv'
    BY DEF ChainTypes, BornInv, ChildSync, MainSync, DeathInv
<1> QED
    BY <1>1, <1>2, <1>3, <1>4, <1>5, <1>6

\* The child sets its privileges.
LEMMA ChainChildPrivileges ==
    ASSUME ChainConstants, ChainInv, Chain!ChildPrivileges
    PROVE  ChainInv'
<1> USE DEF ChainInv, Chain!ChildPrivileges, Chain!Goto, Chain!Sync, Chain!Names,
            Chain!Rest, Chain!Procs, Chain!Propagate, Chain!CredChange, Chain!MainPC,
            Chain!ChildPC, Early, Late, Past, Steps
<1>1. ChainTypes'
    BY DEF ChainTypes, BornInv, ChildSync, MainSync
<1>2. StatusInv'
    BY DEF ChainTypes, StatusInv, BornInv
<1>3. BornInv'
    BY DEF ChainTypes, BornInv, ChildSync, MainSync, StatusInv
<1>4. ChildSync'
    BY DEF ChainTypes, BornInv, ChildSync, MainSync
<1>5. MainSync'
    BY DEF ChainTypes, BornInv, ChildSync, MainSync
<1>6. DeathInv'
    BY DEF ChainTypes, BornInv, ChildSync, MainSync, DeathInv
<1> QED
    BY <1>1, <1>2, <1>3, <1>4, <1>5, <1>6

\* ... and asks for the death signal again, which a change of user ID has cleared.
LEMMA ChainChildDeathSignal2 ==
    ASSUME ChainConstants, ChainInv, Chain!ChildDeathSignal2
    PROVE  ChainInv'
<1> USE DEF ChainInv, Chain!ChildDeathSignal2, Chain!Goto, Chain!Sync, Chain!Names,
            Chain!Rest, Chain!Procs, Chain!Propagate, Chain!CredChange, Chain!MainPC,
            Chain!ChildPC, Early, Late, Past, Steps
<1>1. ChainTypes'
    BY DEF ChainTypes, BornInv, ChildSync, MainSync
<1>2. StatusInv'
    BY DEF ChainTypes, StatusInv, BornInv
<1>3. BornInv'
    BY DEF ChainTypes, BornInv, ChildSync, MainSync, StatusInv
<1>4. ChildSync'
    BY DEF ChainTypes, BornInv, ChildSync, MainSync
<1>5. MainSync'
    BY DEF ChainTypes, BornInv, ChildSync, MainSync
<1>6. DeathInv'
    BY DEF ChainTypes, BornInv, ChildSync, MainSync, DeathInv
<1> QED
    BY <1>1, <1>2, <1>3, <1>4, <1>5, <1>6

\* The master tells the parent of an instance that it is up.
LEMMA ChainGoDetach ==
    ASSUME ChainConstants, ChainInv, Chain!GoDetach
    PROVE  ChainInv'
<1> USE DEF ChainInv, Chain!GoDetach, Chain!Exists, Chain!Goto, Chain!Sync, Chain!Names,
            Chain!Rest, Chain!Procs, Chain!Propagate, Chain!CredChange, Chain!MainPC,
            Chain!ChildPC, Early, Late, Past, Steps
<1>1. ChainTypes'
    BY DEF ChainTypes, BornInv, ChildSync, MainSync
<1>2. StatusInv'
    BY DEF ChainTypes, StatusInv, BornInv
<1>3. BornInv'
    BY DEF ChainTypes, BornInv, ChildSync, MainSync, StatusInv
<1>4. ChildSync'
    BY DEF ChainTypes, BornInv, ChildSync, MainSync
<1>5. MainSync'
    BY DEF ChainTypes, BornInv, ChildSync, MainSync
<1>6. DeathInv'
    BY DEF ChainTypes, BornInv, ChildSync, MainSync, DeathInv
<1> QED
    BY <1>1, <1>2, <1>3, <1>4, <1>5, <1>6

\* The child forks the RPC server, where the mount namespace is new.
LEMMA ChainChildMount ==
    ASSUME ChainConstants, ChainInv, Chain!ChildMount
    PROVE  ChainInv'
<1> USE DEF ChainInv, Chain!ChildMount, Chain!Goto, Chain!Sync, Chain!Names, Chain!Rest,
            Chain!Procs, Chain!Propagate, Chain!CredChange, Chain!MainPC, Chain!ChildPC,
            Early, Late, Past, Steps
<1>1. /\ pc' \in [Chain!Procs -> Steps]
      /\ pc'["stage1"] = pc["stage1"] /\ pc'["parent"] = pc["parent"] /\ pc'["main"] = pc["main"]
      /\ pc'["child"] \in {"privs", "rpcwait"} /\ pc'["rpc"] \in {pc["rpc"], "serve"}
      /\ pdeath' \in {pdeath, pdeath \cup {"rpc"}}
    BY Zenon DEF ChainTypes, Chain!Suid
<1>2. ChainTypes'
    BY <1>1 DEF ChainTypes, BornInv, ChildSync, MainSync
<1>3. StatusInv'
    BY <1>1 DEF ChainTypes, StatusInv, BornInv
<1>4. BornInv'
    BY Zenon, <1>1 DEF ChainTypes, BornInv, ChildSync, MainSync, StatusInv
<1>5. ChildSync'
    BY <1>1 DEF ChainTypes, BornInv, ChildSync, MainSync
<1>6. MainSync'
    BY <1>1 DEF ChainTypes, BornInv, ChildSync, MainSync
<1>7. DeathInv'
    BY <1>1 DEF ChainTypes, BornInv, ChildSync, MainSync, DeathInv
<1> QED
    BY <1>2, <1>3, <1>4, <1>5, <1>6, <1>7

\* The master has created the container, and closes the RPC connection.
LEMMA ChainGoCreated ==
    ASSUME ChainConstants, ChainInv, Chain!GoCreated
    PROVE  ChainInv'
<1> USE DEF ChainInv, Chain!GoCreated, Chain!Goto, Chain!Sync, Chain!Names, Chain!Rest,
            Chain!Procs, Chain!Propagate, Chain!CredChange, Chain!MainPC, Chain!ChildPC,
            Early, Late, Past, Steps
<1>1. rpcOpen' \in BOOLEAN
    BY Zenon
<1>2. ChainTypes'
    BY <1>1 DEF ChainTypes, BornInv, ChildSync, MainSync
<1>3. StatusInv'
    BY <1>1 DEF ChainTypes, StatusInv, BornInv
<1>4. BornInv'
    BY <1>1 DEF ChainTypes, BornInv, ChildSync, MainSync, StatusInv
<1>5. ChildSync'
    BY <1>1 DEF ChainTypes, BornInv, ChildSync, MainSync
<1>6. MainSync'
    BY <1>1 DEF ChainTypes, BornInv, ChildSync, MainSync
<1>7. DeathInv'
    BY <1>1 DEF ChainTypes, BornInv, ChildSync, MainSync, DeathInv
<1> QED
    BY <1>2, <1>3, <1>4, <1>5, <1>6, <1>7

\* main waits for stage 1, and fails as it does.
LEMMA ChainMainStage1 ==
    ASSUME ChainConstants, ChainInv, Chain!MainStage1
    PROVE  ChainInv'
<1> USE DEF ChainInv, Chain!MainStage1, Chain!Goto, Chain!Sync, Chain!Names, Chain!Rest,
            Chain!Procs, Chain!Propagate, Chain!CredChange, Chain!MainPC, Chain!ChildPC,
            Early, Late, Past, Steps
<1>1. CASE st["stage1"] # 0
  <2>1. Chain!Exists("main") /\ Chain!Die("main", st["stage1"]) /\ st["stage1"] \in Chain!Statuses
    BY <1>1
    DEF Chain!Exists, Chain!DieLike, Chain!Statuses, Chain!Fatal, Chain!Pipe, ChainTypes
  <2> QED
    BY <1>1, <2>1, ChainDies DEF ChainTypes
<1>2. CASE ~(st["stage1"] # 0)
  <2>1. ChainTypes'
    BY <1>2 DEF ChainTypes, BornInv, ChildSync, MainSync
  <2>2. StatusInv'
    BY <1>2 DEF ChainTypes, StatusInv, BornInv
  <2>3. BornInv'
    BY <1>2 DEF ChainTypes, BornInv, ChildSync, MainSync, StatusInv
  <2>4. ChildSync'
    BY <1>2 DEF ChainTypes, BornInv, ChildSync, MainSync
  <2>5. MainSync'
    BY <1>2 DEF ChainTypes, BornInv, ChildSync, MainSync
  <2>6. DeathInv'
    BY <1>2 DEF ChainTypes, BornInv, ChildSync, MainSync, DeathInv
  <2> QED
    BY <2>1, <2>2, <2>3, <2>4, <2>5, <2>6
<1> QED
    BY <1>1, <1>2

\* main clones the child.
LEMMA ChainMainClone ==
    ASSUME ChainConstants, ChainInv, Chain!MainClone
    PROVE  ChainInv'
<1> USE DEF ChainInv, Chain!MainClone, Chain!Goto, Chain!Sync, Chain!Names, Chain!Rest,
            Chain!Procs, Chain!Propagate, Chain!CredChange, Chain!MainPC, Chain!ChildPC,
            Early, Late, Past, Steps
<1>1. CASE Chain!Refused
  <2>1. Chain!Exists("main") /\ Chain!Die("main", Chain!Fatal) /\ Chain!Fatal \in Chain!Statuses
    BY <1>1
    DEF Chain!Exists, Chain!DieLike, Chain!Statuses, Chain!Fatal, Chain!Pipe, ChainTypes
  <2> QED
    BY <1>1, <2>1, ChainDies DEF ChainTypes, Chain!Fatal
<1>2. CASE ~(Chain!Refused)
  <2>1. /\ pc' \in [Chain!Procs -> Steps] /\ UNCHANGED <<st, sigchld>>
        /\ pc'["stage1"] = pc["stage1"] /\ pc'["parent"] = pc["parent"] /\ pc'["rpc"] = pc["rpc"]
        /\ \/ cfg.userns = "create" /\ pc'["main"] = "map" /\ pc'["child"] = "map"
           \/ cfg.userns # "create" /\ pc'["main"] = "event" /\ pc'["child"] = "pdeath"
    BY Zenon, <1>2 DEF ChainTypes
  <2>2. ChainTypes'
    BY <1>2, <2>1 DEF ChainTypes, BornInv, ChildSync, MainSync
  <2>3. StatusInv'
    BY <1>2, <2>1 DEF ChainTypes, StatusInv, BornInv
  <2>4. BornInv'
    BY <1>2, <2>1 DEF ChainTypes, BornInv, ChildSync, MainSync, StatusInv
  <2>5. ChildSync'
    BY <1>2, <2>1 DEF ChainTypes, BornInv, ChildSync, MainSync
  <2>6. MainSync'
    BY <1>2, <2>1 DEF ChainTypes, BornInv, ChildSync, MainSync
  <2>7. DeathInv'
    BY <1>2, <2>1 DEF ChainTypes, BornInv, ChildSync, MainSync, DeathInv
  <2> QED
    BY <2>2, <2>3, <2>4, <2>5, <2>6, <2>7
<1> QED
    BY <1>1, <1>2

\* main writes the child's ID mappings and tells it.
LEMMA ChainMainMap ==
    ASSUME ChainConstants, ChainInv, Chain!MainMap
    PROVE  ChainInv'
<1> USE DEF ChainInv, Chain!MainMap, Chain!MainSend, Chain!Goto, Chain!Sync, Chain!Names,
            Chain!Rest, Chain!Procs, Chain!Propagate, Chain!CredChange, Chain!MainPC,
            Chain!ChildPC, Early, Late, Past, Steps
<1>1. CASE ~Chain!Exists("child")
  <2>1. Chain!Exists("main") /\ Chain!Die("main", Chain!Pipe) /\ Chain!Pipe \in Chain!Statuses
    BY <1>1
    DEF Chain!Exists, Chain!DieLike, Chain!Statuses, Chain!Fatal, Chain!Pipe, ChainTypes
  <2> QED
    BY <1>1, <2>1, ChainDies DEF ChainTypes, Chain!Pipe
<1>2. CASE ~(~Chain!Exists("child"))
  <2>1. ChainTypes'
    BY <1>2 DEF ChainTypes, BornInv, ChildSync, MainSync
  <2>2. StatusInv'
    BY <1>2 DEF ChainTypes, StatusInv, BornInv
  <2>3. BornInv'
    BY <1>2 DEF ChainTypes, BornInv, ChildSync, MainSync, StatusInv
  <2>4. ChildSync'
    BY <1>2 DEF ChainTypes, BornInv, ChildSync, MainSync
  <2>5. MainSync'
    BY <1>2 DEF ChainTypes, BornInv, ChildSync, MainSync
  <2>6. DeathInv'
    BY <1>2 DEF ChainTypes, BornInv, ChildSync, MainSync, DeathInv
  <2> QED
    BY <2>1, <2>2, <2>3, <2>4, <2>5, <2>6
<1> QED
    BY SMTT(20), <1>1, <1>2

\* main waits for the child to have its namespaces, or to end.
LEMMA ChainMainEvent ==
    ASSUME ChainConstants, ChainInv, Chain!MainEvent
    PROVE  ChainInv'
<1> USE DEF ChainInv, Chain!MainEvent, Chain!Goto, Chain!Sync, Chain!Names, Chain!Rest,
            Chain!Procs, Chain!Propagate, Chain!CredChange, Chain!MainPC, Chain!ChildPC,
            Early, Late, Past, Steps
<1>1. CASE ~(toMain > 0 /\ pc'["main"] # "dead")
  <2>1. Chain!Exists("main") /\ Chain!Die("main", st["child"]) /\ st["child"] \in Chain!Statuses
    BY <1>1
    DEF Chain!Exists, Chain!DieLike, Chain!Statuses, Chain!Fatal, Chain!Pipe, ChainTypes
  <2> QED
    BY <1>1, <2>1, ChainDies DEF ChainTypes
<1>2. CASE ~(~(toMain > 0 /\ pc'["main"] # "dead"))
  <2>1. ChainTypes'
    BY <1>2 DEF ChainTypes, BornInv, ChildSync, MainSync
  <2>2. StatusInv'
    BY SMTT(20), <1>2 DEF ChainTypes, StatusInv, BornInv
  <2>3. BornInv'
    BY <1>2 DEF ChainTypes, BornInv, ChildSync, MainSync, StatusInv
  <2>4. ChildSync'
    BY <1>2 DEF ChainTypes, BornInv, ChildSync, MainSync
  <2>5. MainSync'
    BY <1>2 DEF ChainTypes, BornInv, ChildSync, MainSync
  <2>6. DeathInv'
    BY <1>2 DEF ChainTypes, BornInv, ChildSync, MainSync, DeathInv
  <2> QED
    BY <2>1, <2>2, <2>3, <2>4, <2>5, <2>6
<1> QED
    BY <1>1, <1>2

\* main joins the child's mount namespace and tells it.
LEMMA ChainMainJoin ==
    ASSUME ChainConstants, ChainInv, Chain!MainJoin
    PROVE  ChainInv'
<1> USE DEF ChainInv, Chain!MainJoin, Chain!MainSend, Chain!Exists, Chain!Goto, Chain!Sync,
            Chain!Names, Chain!Rest, Chain!Procs, Chain!Propagate, Chain!CredChange,
            Chain!MainPC, Chain!ChildPC, Early, Late, Past, Steps
<1>1. nsJoined' \in BOOLEAN
    BY Zenon
<1>2. ChainTypes'
    BY <1>1 DEF ChainTypes, BornInv, ChildSync, MainSync
<1>3. StatusInv'
    BY <1>1 DEF ChainTypes, StatusInv, BornInv
<1>4. BornInv'
    BY <1>1 DEF ChainTypes, BornInv, ChildSync, MainSync, StatusInv
<1>5. ChildSync'
    BY <1>1 DEF ChainTypes, BornInv, ChildSync, MainSync
<1>6. MainSync'
    BY <1>1 DEF ChainTypes, BornInv, ChildSync, MainSync
<1>7. DeathInv'
    BY <1>1 DEF ChainTypes, BornInv, ChildSync, MainSync, DeathInv
<1> QED
    BY <1>2, <1>3, <1>4, <1>5, <1>6, <1>7

\* The child waits for its ID mappings.
LEMMA ChainChildMap ==
    ASSUME ChainConstants, ChainInv, Chain!ChildMap
    PROVE  ChainInv'
<1> USE DEF ChainInv, Chain!ChildMap, Chain!ChildRead, Chain!Goto, Chain!Sync, Chain!Names,
            Chain!Rest, Chain!Procs, Chain!Propagate, Chain!CredChange, Chain!MainPC,
            Chain!ChildPC, Early, Late, Past, Steps
<1>1. CASE toChild = 0
  <2>1. Chain!Exists("child") /\ Chain!Die("child", Chain!Fatal) /\ Chain!Fatal \in Chain!Statuses
    BY <1>1
    DEF Chain!Exists, Chain!DieLike, Chain!Statuses, Chain!Fatal, Chain!Pipe, ChainTypes
  <2> QED
    BY <1>1, <2>1, ChainDies DEF ChainTypes, Chain!Fatal
<1>2. CASE ~(toChild = 0)
  <2>1. ChainTypes'
    BY <1>2 DEF ChainTypes, BornInv, ChildSync, MainSync
  <2>2. StatusInv'
    BY <1>2 DEF ChainTypes, StatusInv, BornInv
  <2>3. BornInv'
    BY <1>2 DEF ChainTypes, BornInv, ChildSync, MainSync, StatusInv
  <2>4. ChildSync'
    BY <1>2 DEF ChainTypes, BornInv, ChildSync, MainSync
  <2>5. MainSync'
    BY <1>2 DEF ChainTypes, BornInv, ChildSync, MainSync
  <2>6. DeathInv'
    BY <1>2 DEF ChainTypes, BornInv, ChildSync, MainSync, DeathInv
  <2> QED
    BY <2>1, <2>2, <2>3, <2>4, <2>5, <2>6
<1> QED
    BY SMTT(20), <1>1, <1>2

\* The child enters its namespaces and tells main.
LEMMA ChainChildNamespaces ==
    ASSUME ChainConstants, ChainInv, Chain!ChildNamespaces
    PROVE  ChainInv'
<1> USE DEF ChainInv, Chain!ChildNamespaces, Chain!Goto, Chain!Sync, Chain!Names,
            Chain!Rest, Chain!Procs, Chain!Propagate, Chain!CredChange, Chain!MainPC,
            Chain!ChildPC, Early, Late, Past, Steps
<1>1. CASE pc["main"] = "dead"
  <2>1. Chain!Exists("child") /\ Chain!Die("child", Chain!Pipe) /\ Chain!Pipe \in Chain!Statuses
    BY <1>1
    DEF Chain!Exists, Chain!DieLike, Chain!Statuses, Chain!Fatal, Chain!Pipe, ChainTypes
  <2> QED
    BY <1>1, <2>1, ChainDies DEF ChainTypes, Chain!Pipe
<1>2. CASE ~(pc["main"] = "dead")
  <2>1. shared' \in BOOLEAN /\ (shared => shared')
    BY Zenon
  <2>2. ChainTypes'
    BY <1>2, <2>1 DEF ChainTypes, BornInv, ChildSync, MainSync
  <2>3. StatusInv'
    BY SMTT(20), <1>2, <2>1 DEF ChainTypes, StatusInv, BornInv
  <2>4. BornInv'
    BY SMTT(20), <1>2, <2>1 DEF ChainTypes, BornInv, ChildSync, MainSync, StatusInv
  <2>5. ChildSync'
    BY <1>2, <2>1 DEF ChainTypes, BornInv, ChildSync, MainSync
  <2>6. MainSync'
    BY Zenon, <1>2, <2>1 DEF ChainTypes, BornInv, ChildSync, MainSync
  <2>7. DeathInv'
    BY <1>2, <2>1 DEF ChainTypes, BornInv, ChildSync, MainSync, DeathInv
  <2> QED
    BY <2>2, <2>3, <2>4, <2>5, <2>6, <2>7
<1> QED
    BY SMTT(20), <1>1, <1>2

\* The child waits for main to join its mount namespace.
LEMMA ChainChildJoinWait ==
    ASSUME ChainConstants, ChainInv, Chain!ChildJoinWait
    PROVE  ChainInv'
<1> USE DEF ChainInv, Chain!ChildJoinWait, Chain!ChildRead, Chain!Goto, Chain!Sync,
            Chain!Names, Chain!Rest, Chain!Procs, Chain!Propagate, Chain!CredChange,
            Chain!MainPC, Chain!ChildPC, Early, Late, Past, Steps
<1>1. CASE toChild = 0
  <2>1. Chain!Exists("child") /\ Chain!Die("child", Chain!Fatal) /\ Chain!Fatal \in Chain!Statuses
    BY <1>1
    DEF Chain!Exists, Chain!DieLike, Chain!Statuses, Chain!Fatal, Chain!Pipe, ChainTypes
  <2> QED
    BY SMTT(30), <1>1, <2>1, ChainDies DEF ChainTypes, Chain!Fatal
<1>2. CASE ~(toChild = 0)
  <2>1. ChainTypes'
    BY SMTT(30), <1>2 DEF ChainTypes, BornInv, ChildSync, MainSync
  <2>2. StatusInv'
    BY SMTT(20), <1>2 DEF ChainTypes, StatusInv, BornInv
  <2>3. BornInv'
    BY Zenon, <1>2 DEF ChainTypes, BornInv, ChildSync, MainSync, StatusInv
  <2>4. ChildSync'
    BY SMTT(30), <1>2 DEF ChainTypes, BornInv, ChildSync, MainSync
  <2>5. MainSync'
    BY Zenon, <1>2 DEF ChainTypes, BornInv, ChildSync, MainSync
  <2>6. DeathInv'
    BY <1>2 DEF ChainTypes, BornInv, ChildSync, MainSync, DeathInv
  <2> QED
    BY <2>1, <2>2, <2>3, <2>4, <2>5, <2>6
<1> QED
    BY <1>1, <1>2

\* The child waits for the RPC server, and fails as it does.
LEMMA ChainChildRpcWait ==
    ASSUME ChainConstants, ChainInv, Chain!ChildRpcWait
    PROVE  ChainInv'
<1> USE DEF ChainInv, Chain!ChildRpcWait, Chain!Goto, Chain!Sync, Chain!Names, Chain!Rest,
            Chain!Procs, Chain!Propagate, Chain!CredChange, Chain!MainPC, Chain!ChildPC,
            Early, Late, Past, Steps
<1>1. CASE st["rpc"] # 0
  <2>1. Chain!Exists("child") /\ Chain!Die("child", st["rpc"]) /\ st["rpc"] \in Chain!Statuses
    BY <1>1
    DEF Chain!Exists, Chain!DieLike, Chain!Statuses, Chain!Fatal, Chain!Pipe, ChainTypes
  <2> QED
    BY Zenon, <1>1, <2>1, ChainDies DEF ChainTypes
<1>2. CASE ~(st["rpc"] # 0)
  <2>1. ChainTypes'
    BY <1>2 DEF ChainTypes, BornInv, ChildSync, MainSync
  <2>2. StatusInv'
    BY SMTT(20), <1>2 DEF ChainTypes, StatusInv, BornInv
  <2>3. BornInv'
    BY SMTT(20), <1>2 DEF ChainTypes, BornInv, ChildSync, MainSync, StatusInv
  <2>4. ChildSync'
    BY SMTT(20), <1>2 DEF ChainTypes, BornInv, ChildSync, MainSync
  <2>5. MainSync'
    BY SMTT(20), <1>2 DEF ChainTypes, BornInv, ChildSync, MainSync
  <2>6. DeathInv'
    BY <1>2 DEF ChainTypes, BornInv, ChildSync, MainSync, DeathInv
  <2> QED
    BY SMTT(20), <2>1, <2>2, <2>3, <2>4, <2>5, <2>6
<1> QED
    BY <1>1, <1>2

\* The end of a process, while nothing else changes.
LEMMA ChainEnds ==
    ASSUME ChainConstants, ChainInv, NEW p \in Chain!Procs, NEW s \in Chain!Statuses,
           Chain!Exists(p), Chain!Die(p, s),
           p = "stage1" => s # 0,
           p = "main" /\ s = 0 => st["child"] = 0,
           p = "parent" /\ s = 0 => detached \/ st["child"] = 0,
           UNCHANGED <<host, cfg, toChild, toMain, pdeath, mapped, shared, nsJoined, rpcOpen,
                       detached, kills>>
    PROVE  ChainInv'
<1>1. mapped' \in BOOLEAN /\ shared' \in BOOLEAN /\ kills' \in 0..MaxKills
    BY DEF ChainInv, ChainTypes
<1> QED
    BY <1>1, ChainDies

\* main waits for a child that only joins namespaces, and ends as it does.
LEMMA ChainMainWait ==
    ASSUME ChainConstants, ChainInv, Chain!MainWait
    PROVE  ChainInv'
<1>1. /\ Chain!Exists("main") /\ Chain!Die("main", st["child"])
      /\ st["child"] \in Chain!Statuses
    BY DEF ChainInv, ChainTypes, Chain!MainWait, Chain!DieLike, Chain!Exists, Chain!Procs
<1>2. UNCHANGED <<host, cfg, toChild, toMain, pdeath, mapped, shared, nsJoined, rpcOpen,
                 detached, kills>>
    BY DEF Chain!MainWait, Chain!Sync, Chain!Names, Chain!Rest
<1> QED
    BY SMTT(20), <1>1, <1>2, ChainEnds DEF Chain!Procs

\* main cannot join.
LEMMA ChainMainJoinFails ==
    ASSUME ChainConstants, ChainInv, Chain!MainJoinFails
    PROVE  ChainInv'
<1>1. /\ Chain!Exists("main") /\ Chain!Die("main", Chain!Fatal)
      /\ Chain!Fatal \in Chain!Statuses
    BY DEF ChainInv, ChainTypes, Chain!MainJoinFails, Chain!Exists, Chain!Statuses
<1>2. UNCHANGED <<host, cfg, toChild, toMain, pdeath, mapped, shared, nsJoined, rpcOpen,
                 detached, kills>>
    BY DEF Chain!MainJoinFails, Chain!Sync, Chain!Names, Chain!Rest
<1> QED
    BY <1>1, <1>2, ChainEnds DEF Chain!Procs, Chain!Fatal

\* The master reaps the container and ends with its status.
LEMMA ChainGoReap ==
    ASSUME ChainConstants, ChainInv, Chain!GoReap
    PROVE  ChainInv'
<1>1. /\ Chain!Exists("main") /\ Chain!Die("main", st["child"])
      /\ st["child"] \in Chain!Statuses
    BY DEF ChainInv, ChainTypes, Chain!GoReap, Chain!DieLike, Chain!Exists, Chain!Procs
<1>2. UNCHANGED <<host, cfg, toChild, toMain, pdeath, mapped, shared, nsJoined, rpcOpen,
                 detached, kills>>
    BY DEF Chain!GoReap, Chain!Sync, Chain!Names, Chain!Rest
<1> QED
    BY <1>1, <1>2, ChainEnds DEF Chain!Procs

\* The RPC server ends once its connection is closed.
LEMMA ChainRpcEnds ==
    ASSUME ChainConstants, ChainInv, Chain!RpcEnds
    PROVE  ChainInv'
<1>1. /\ Chain!Exists("rpc") /\ Chain!Die("rpc", 0)
      /\ 0 \in Chain!Statuses
    BY DEF ChainInv, ChainTypes, Chain!RpcEnds, Chain!Exists, Chain!Statuses
<1>2. UNCHANGED <<host, cfg, toChild, toMain, pdeath, mapped, shared, nsJoined, rpcOpen,
                 detached, kills>>
    BY DEF Chain!RpcEnds, Chain!Sync, Chain!Names, Chain!Rest
<1> QED
    BY <1>1, <1>2, ChainEnds DEF Chain!Procs

\* The container process ends.
LEMMA ChainGoContainerEnds ==
    ASSUME ChainConstants, ChainInv, Chain!GoContainerEnds
    PROVE  ChainInv'
<1>1. PICK s \in Chain!Statuses : Chain!Exists("child") /\ Chain!Die("child", s)
    BY DEF ChainInv, ChainTypes, Chain!GoContainerEnds, Chain!Exists, Chain!Statuses
<1>2. UNCHANGED <<host, cfg, toChild, toMain, pdeath, mapped, shared, nsJoined, rpcOpen,
                 detached, kills>>
    BY DEF Chain!GoContainerEnds, Chain!Sync, Chain!Names, Chain!Rest
<1> QED
    BY <1>1, <1>2, ChainEnds DEF Chain!Procs

\* The parent of an instance ends when it is detached, or with the master.
LEMMA ChainParentEnds ==
    ASSUME ChainConstants, ChainInv, Chain!ParentEnds
    PROVE  ChainInv'
<1>1. PICK s \in Chain!Statuses :
         /\ Chain!Exists("parent") /\ Chain!Die("parent", s)
         /\ s = 0 => detached \/ st["main"] = 0
    BY DEF ChainInv, ChainTypes, Chain!ParentEnds, Chain!DieLike, Chain!Exists,
           Chain!Procs, Chain!Statuses
<1>2. st["main"] = 0 => st["child"] = 0
    BY DEF ChainInv, StatusInv
<1>3. UNCHANGED <<host, cfg, toChild, toMain, pdeath, mapped, shared, nsJoined, rpcOpen,
                 detached, kills>>
    BY DEF Chain!ParentEnds, Chain!Sync, Chain!Names, Chain!Rest
<1> QED
    BY <1>1, <1>2, <1>3, ChainEnds DEF Chain!Procs

\* A process fails.
LEMMA ChainFails ==
    ASSUME ChainConstants, ChainInv, NEW p \in Chain!Procs, Chain!Fails(p)
    PROVE  ChainInv'
<1>1. Chain!Exists(p) /\ p # "parent" /\ Chain!Die(p, Chain!Fatal)
    BY DEF Chain!Fails, Chain!MayFail, Chain!Exists, Chain!ChildPC
<1>2. UNCHANGED <<host, cfg, toChild, toMain, pdeath, mapped, shared, nsJoined, rpcOpen,
                 detached, kills>>
    BY DEF Chain!Fails, Chain!Sync, Chain!Names, Chain!Rest
<1> QED
    BY <1>1, <1>2, ChainEnds DEF Chain!Statuses, Chain!Fatal

\* A process is killed.
LEMMA ChainKill ==
    ASSUME ChainConstants, ChainInv, NEW p \in Chain!Procs, Chain!Kill(p)
    PROVE  ChainInv'
<1>1. /\ Chain!Exists(p) /\ Chain!Die(p, Chain!Killed)
      /\ Chain!Killed \in Chain!Statuses /\ Chain!Killed # 0
    BY DEF Chain!Kill, Chain!Statuses, Chain!Killed
<1>2. UNCHANGED <<host, cfg, toChild, toMain, pdeath, mapped, shared, nsJoined, rpcOpen,
                 detached>>
    BY DEF Chain!Kill, Chain!Sync, Chain!Names
<1>3. mapped' \in BOOLEAN /\ shared' \in BOOLEAN /\ kills' \in 0..MaxKills
    BY <1>2 DEF ChainInv, ChainTypes, ChainConstants, Chain!Kill
<1> QED
    BY <1>1, <1>2, <1>3, ChainDies

\* The chain starts with main and stage 1.
LEMMA ChainStarts ==
    ASSUME ChainConstants, Chain!Init
    PROVE  ChainInv
<1> USE DEF Chain!Init, ChainInv, Chain!Procs
<1>1. ChainTypes
  <2>1. pc \in [Chain!Procs -> Steps]
    <3>1. pc = [q \in Chain!Procs |-> CASE q = "stage1" -> "run" [] q = "main" -> "stage1"
                                         [] OTHER -> "none"]
      OBVIOUS
    <3>2. \A q \in Chain!Procs : (CASE q = "stage1" -> "run" [] q = "main" -> "stage1"
                                     [] OTHER -> "none") \in Steps
      BY DEF Steps, Chain!MainPC
    <3> QED
      BY <3>1, <3>2
  <2>2. st \in [Chain!Procs -> Chain!Statuses] /\ kills \in 0..MaxKills
    BY DEF ChainConstants, Chain!Statuses
  <2>3. /\ pc["stage1"] = "run" /\ pc["parent"] = "none" /\ pc["main"] = "stage1"
        /\ pc["child"] = "none" /\ pc["rpc"] = "none"
    OBVIOUS
  <2>4. /\ host \in Hosts /\ cfg = Chain!NoConfig /\ toChild = 0 /\ toMain = 0
        /\ pdeath = {"stage1"}
    OBVIOUS
  <2>5. /\ sigchld \in BOOLEAN /\ mapped \in BOOLEAN /\ shared \in BOOLEAN
        /\ nsJoined \in BOOLEAN /\ rpcOpen \in BOOLEAN /\ detached \in BOOLEAN
    BY Zenon
  <2> HIDE DEF Chain!Init
  <2> QED
    BY <2>1, <2>2, <2>3, <2>4, <2>5 DEF ChainTypes, Chain!MainPC
<1>2. StatusInv /\ BornInv
    BY DEF StatusInv, BornInv, Chain!Running, Early
<1>3. ChildSync /\ MainSync /\ DeathInv
    BY DEF ChildSync, MainSync, DeathInv, Past, Late, Chain!ChildPC
<1> QED
    BY <1>1, <1>2, <1>3

\* What the invariant says of the chain.
LEMMA ChainShows ==
    ASSUME ChainConstants, ChainInv
    PROVE  Chain!ChainIsSound
<1> USE DEF ChainInv
<1>1. Chain!TypeOK
  <2>1. pc \in [stage1 : {"none", "run", "dead"}, parent : {"none", "wait", "dead"},
                main : Chain!MainPC \cup {"dead"}, child : Chain!ChildPC \cup {"none", "dead"},
                rpc : {"none", "serve", "dead"}]
    BY DEF ChainTypes, Chain!Procs
  <2> QED
    BY <2>1 DEF Chain!TypeOK, ChainTypes
<1>2. Chain!InStep
    BY DEF Chain!InStep, ChainTypes, ChildSync, MainSync, Past, Late
<1>3. Chain!SuccessIsEarned
    BY DEF Chain!SuccessIsEarned, Chain!Front, StatusInv
<1>4. Chain!TwoProcessesLeft
    BY DEF Chain!TwoProcessesLeft, Chain!Exists, Chain!CredChange, ChainTypes, BornInv,
        DeathInv, Past, Chain!MainPC
<1> QED
    BY <1>1, <1>2, <1>3, <1>4 DEF Chain!ChainIsSound

\* Whatever process of the chain fails or is killed, and wherever the others are: the
\* namespaces are entered in order and the socket holds no byte of the C half when Go
\* reads it, a status of 0 is the container's own or a detached instance's, and a
\* container that runs is left with its master alone
\* (starter.c:1108-1136, 1247-1248, 1464-1510 and 1587-1671).
THEOREM ChainSound ==
    ASSUME ChainConstants
    PROVE  Chain!Spec => []Chain!ChainIsSound
<1>1. Chain!Init => ChainInv
    BY ChainStarts
<1>2. ASSUME ChainInv, [Chain!Next]_(Chain!vars) PROVE ChainInv'
  <2>1. CASE UNCHANGED Chain!vars
    <3> USE DEF Chain!vars, ChainInv
    <3>1. ChainTypes' /\ StatusInv'
      BY SMTT(20), <1>2, <2>1 DEF ChainTypes, StatusInv
    <3>2. BornInv' /\ ChildSync'
      BY SMTT(20), <1>2, <2>1 DEF BornInv, ChildSync, Chain!Propagate, Chain!CredChange
    <3>3. MainSync' /\ DeathInv'
      BY SMTT(20), <1>2, <2>1 DEF MainSync, DeathInv, Chain!Propagate, Chain!CredChange
    <3> QED
      BY <3>1, <3>2, <3>3
  <2>2. CASE Chain!MainC
    BY <1>2, <2>2, ChainMainStage1, ChainMainInstance, ChainMainClone, ChainMainMap,
        ChainMainEvent, ChainMainJoin, ChainMainJoinFails, ChainMainRelease, ChainMainWait
    DEF Chain!MainC
  <2>3. CASE Chain!ChildC
    BY <1>2, <2>3, ChainChildMap, ChainChildDeathSignal, ChainChildNamespaces,
        ChainChildJoinWait, ChainChildMount, ChainChildRpcWait, ChainChildPrivileges,
        ChainChildDeathSignal2
    DEF Chain!ChildC
  <2> QED
    BY SMTT(20), <1>2, <2>1, <2>2, <2>3, ChainStageOne, ChainParentEnds, ChainGoCreated,
        ChainGoDetach, ChainGoReap, ChainRpcEnds, ChainGoContainerEnds, ChainFails,
        ChainKill
    DEF Chain!Next
<1>3. ChainInv => Chain!ChainIsSound
    BY ChainShows
<1> QED
    BY <1>1, <1>2, <1>3, PTL DEF Chain!Spec

=============================================================================
