------------------------- MODULE InstanceStopProofs -------------------------
(***************************************************************************)
(* Theorems about "instance stop", for any set of instances and any grace  *)
(* period: the command gives up on nobody, and how long it can wait.       *)
(* Then about the registry of instances, over variables of its own.        *)
(***************************************************************************)
EXTENDS InstanceStop, FiniteSetTheorems, SequenceTheorems, TLAPS

\* An instance is reported only after its master was seen to be gone, once, and
\* is then in one place: its goroutine, the channel or the list.
ReportInv ==
    /\ \A i \in Instances : killer[i] \in {"send", "done"} => ~master[i]
    /\ \A i \in Instances : killer[i] = "done" <=> (i \in stopped \/ ch = <<i>>)
    /\ \A i \in stopped : ch # <<i>>

\* Each received instance has put off the end of the wait by one period.
TimeInv ==
    /\ now <= deadline
    /\ deadline <= Timeout * (Cardinality(stopped) + 1)
    /\ Cardinality(stopped) + 1 <= Cardinality(Instances) \/ main = "returned"
    /\ now <= Timeout * Cardinality(Instances)

Inv == TypeOK /\ ReportInv /\ StopEffective /\ TimeInv

-----------------------------------------------------------------------------
\* Sets of stopped instances are finite and grow by one.
LEMMA StoppedGrows ==
    ASSUME NEW S \in SUBSET Instances, NEW i \in Instances, i \notin S
    PROVE  /\ Cardinality(S) \in Nat /\ Cardinality(S \cup {i}) = Cardinality(S) + 1
           /\ S \cup {i} # Instances =>
                Cardinality(S) + 2 <= Cardinality(Instances)
           /\ Cardinality(Instances) \in Nat
<1>1. IsFiniteSet(Instances)
  BY StopAssumption
<1>2. IsFiniteSet(S) /\ Cardinality(S) \in Nat
  BY <1>1, FS_Subset, FS_CardinalityType
<1>3. Cardinality(S \cup {i}) = Cardinality(S) + 1
  BY Zenon, <1>2, FS_AddElement
<1>4. Cardinality(Instances) \in Nat
  BY <1>1, FS_CardinalityType
<1>5. ASSUME S \cup {i} # Instances
      PROVE  Cardinality(S) + 2 <= Cardinality(Instances)
  <2>1. S \cup {i} \in SUBSET Instances /\ S \cup {i} # Instances
    BY <1>5
  <2>2. Cardinality(S \cup {i}) < Cardinality(Instances)
    BY <2>1, <1>1, FS_Subset, FS_CardinalityType
  <2>3. QED  BY <2>2, <1>2, <1>3, <1>4
<1>6. QED  BY <1>2, <1>3, <1>4, <1>5

\* A product bound that the clock stays under.
LEMMA PeriodsMonotone ==
    ASSUME NEW a \in Nat, NEW b \in Nat, NEW t \in Nat, a <= b
    PROVE  /\ t * a \in Nat /\ t * b \in Nat
           /\ t * a <= t * b
           /\ t * (a + 1) = t * a + t
PROOF BY SMT

LEMMA InitInv == Init => Inv
<1> SUFFICES ASSUME Init PROVE Inv
  OBVIOUS
<1>1. TypeOK
  BY StopAssumption DEF Init, TypeOK
<1>2. ReportInv
  BY DEF Init, ReportInv
<1>3. Cardinality(stopped) = 0 /\ Cardinality(Instances) \in Nat \ {0}
  BY StopAssumption, FS_EmptySet, FS_CardinalityType DEF Init
<1>4. TimeInv
  <2>1. Timeout * 1 <= Timeout * Cardinality(Instances)
    BY <1>3, PeriodsMonotone, StopAssumption
  <2>2. QED  BY <1>3, <2>1, StopAssumption DEF Init, TimeInv
<1>5. StopEffective
  BY DEF Init, StopEffective
<1>6. QED  BY <1>1, <1>2, <1>4, <1>5 DEF Inv

\* The steps of the polling goroutines, the containers and their masters touch
\* neither the clock nor the list.
LEMMA InstanceInv ==
    ASSUME Inv, NEW i \in Instances, Killer(i) \/ Container(i) \/ MasterExit(i)
    PROVE  Inv'
<1> USE DEF Inv
<1>1. CASE Signal(i)
  BY <1>1 DEF Signal, At, Goto, TypeOK, ReportInv, StopEffective, TimeInv
<1>2. CASE Poll(i)
  BY <1>2 DEF Poll, At, Goto, TypeOK, ReportInv, StopEffective, TimeInv
<1>3. CASE Count(i)
  BY <1>3 DEF Count, At, Goto, TypeOK, ReportInv, StopEffective, TimeInv
<1>4. CASE KillIdle(i)
  BY <1>4 DEF KillIdle, Kills, At, Goto, TypeOK, ReportInv, StopEffective, TimeInv
<1>5. CASE Send(i)
  BY <1>5 DEF Send, At, Goto, TypeOK, ReportInv, StopEffective, TimeInv
<1>6. CASE Container(i)
  BY <1>6 DEF Container, Goroutines, TypeOK, ReportInv, StopEffective, TimeInv
<1>7. CASE MasterExit(i)
  BY <1>7 DEF MasterExit, Goroutines, TypeOK, ReportInv, StopEffective, TimeInv
<1>8. QED  BY <1>1, <1>2, <1>3, <1>4, <1>5, <1>6, <1>7 DEF Killer

\* A received instance is new in the list, and its master is gone.
LEMMA ReceiveInv == Inv /\ Receive => Inv'
<1> SUFFICES ASSUME Inv, Receive PROVE Inv'
  OBVIOUS
<1> DEFINE h == Head(ch)
<1>1. h \in Instances /\ ch = <<h>> /\ h \notin stopped /\ ~master[h] /\ killer[h] = "done"
  <2>1. ch \in Seq(Instances) /\ Len(ch) <= 1 /\ ch # <<>>
    BY DEF Inv, Receive, TypeOK
  <2>2. h \in Instances /\ ch = <<h>>
    <3>1. Len(ch) \in Nat \ {0}
      BY <2>1, EmptySeq, Zenon
    <3>2. QED  BY <2>1, <3>1
  <2>3. QED  BY <2>2 DEF Inv, ReportInv
<1>2. stopped' = stopped \cup {h} /\ ch' = <<>>
  BY DEF Receive
<1> HIDE DEF h
<1>3. TypeOK'
  BY <1>1, <1>2, StopAssumption DEF Inv, Receive, TypeOK
<1>4. ReportInv'
  BY <1>1, <1>2 DEF Inv, Receive, TypeOK, ReportInv
<1>5. StopEffective'
  BY <1>1, <1>2 DEF Inv, Receive, TypeOK, ReportInv, StopEffective
<1>6. TimeInv'
  <2>1. /\ Cardinality(stopped) \in Nat /\ Cardinality(stopped') = Cardinality(stopped) + 1
        /\ stopped' # Instances => Cardinality(stopped) + 2 <= Cardinality(Instances)
        /\ Cardinality(Instances) \in Nat
    BY Zenon, <1>1, <1>2, StoppedGrows DEF Inv, TypeOK
  <2>2. /\ Timeout * (Cardinality(stopped) + 1) \in Nat
        /\ Timeout * (Cardinality(stopped') + 1) = Timeout * (Cardinality(stopped) + 1) + Timeout
    <3>1. Cardinality(stopped) + 1 \in Nat
      BY <2>1
    <3>2. QED  BY <3>1, <2>1, PeriodsMonotone, StopAssumption
  <2>3. now' = now /\ deadline' \in {deadline, now + Timeout}
    BY DEF Receive
  <2>4. now' <= deadline' /\ deadline' <= Timeout * (Cardinality(stopped') + 1)
    BY <2>2, <2>3, StopAssumption DEF Inv, TypeOK, TimeInv
  <2>5. Cardinality(stopped') + 1 <= Cardinality(Instances) \/ main' = "returned"
    BY <2>1 DEF Receive
  <2>6. QED  BY <2>3, <2>4, <2>5 DEF Inv, TimeInv
<1>7. QED  BY <1>3, <1>4, <1>5, <1>6 DEF Inv

\* The time-out, the kill that follows it, and the clock.
LEMMA ClockInv == Inv /\ (Expire \/ ForceKill \/ Tick) => Inv'
<1> SUFFICES ASSUME Inv, Expire \/ ForceKill \/ Tick PROVE Inv'
  OBVIOUS
<1> USE DEF Inv
<1>1. CASE Expire
  BY <1>1 DEF Expire, TypeOK, ReportInv, StopEffective, TimeInv
<1>2. CASE ForceKill
  <2>1. TypeOK'
    BY <1>2 DEF ForceKill, Kills, TypeOK
  <2>2. ReportInv' /\ TimeInv'
    BY <1>2 DEF ForceKill, ReportInv, TimeInv
  <2>3. \A i \in stopped : ~master[i]
    BY DEF TypeOK, ReportInv
  <2>4. StopEffective'
    BY <1>2, <2>3 DEF ForceKill, Kills, StopEffective
  <2>5. QED  BY <2>1, <2>2, <2>4
<1>3. CASE Tick
  <2>1. TypeOK' /\ ReportInv' /\ StopEffective'
    BY <1>3 DEF Tick, Goroutines, TypeOK, ReportInv, StopEffective
  <2>2. Cardinality(stopped) \in Nat /\ Cardinality(Instances) \in Nat
    BY StopAssumption, FS_Subset, FS_CardinalityType DEF TypeOK
  <2>3. Cardinality(stopped) + 1 <= Cardinality(Instances)
    BY <1>3 DEF Tick, TimeInv
  <2>4. /\ Timeout * (Cardinality(stopped) + 1) <= Timeout * Cardinality(Instances)
        /\ Timeout * (Cardinality(stopped) + 1) \in Nat
        /\ Timeout * Cardinality(Instances) \in Nat
    BY <2>2, <2>3, PeriodsMonotone, StopAssumption
  <2>5. now' <= deadline /\ now' \in Nat
    BY <1>3 DEF Tick, TypeOK
  <2>6. now' <= Timeout * Cardinality(Instances)
    BY <2>4, <2>5 DEF TypeOK, TimeInv
  <2>7. TimeInv'
    BY <1>3, <2>5, <2>6 DEF Tick, Goroutines, TimeInv
  <2>8. QED  BY <2>1, <2>7
<1>4. QED  BY <1>1, <1>2, <1>3

\* The inductive invariant holds in every behaviour of the stop command.
THEOREM Invariance == Spec => []Inv
<1>1. Inv /\ [Next]_vars => Inv'
  <2> SUFFICES ASSUME Inv, [Next]_vars PROVE Inv'
    OBVIOUS
  <2>1. CASE UNCHANGED vars
    BY <2>1 DEF vars, Inv, TypeOK, ReportInv, StopEffective, TimeInv
  <2>2. CASE Next
    BY <2>2, InstanceInv, ReceiveInv, ClockInv DEF Next
  <2>3. QED  BY <2>1, <2>2
<1>2. QED  BY InitInv, <1>1, PTL DEF Spec

\* StopInstance returns only when every listed instance has lost its master or
\* has been sent SIGKILL.
THEOREM StopIsEffective == Spec => []StopEffective
<1>1. Inv => StopEffective
  BY DEF Inv
<1>2. QED  BY Invariance, <1>1, PTL

\* The select loop of StopInstance waits for at most one grace period for each
\* listed instance.
THEOREM GraceIsBounded == Spec => []GraceBounded
<1>1. Inv => GraceBounded
  BY DEF Inv, TimeInv, GraceBounded
<1>2. QED  BY Invariance, <1>1, PTL

-----------------------------------------------------------------------------
(***************************************************************************)
(* The registry of instances, for any number of starts of a name and of    *)
(* lists, and any number of masters that are killed: module Instance over  *)
(* variables of its own.                                                   *)
(***************************************************************************)
CONSTANTS Masters, Listers, MaxFaults
VARIABLES file, inodes, at, get, seen, mine, faults, overlap, stale

Registry == INSTANCE Instance

\* A name is the model's own for what is on no file, or half on file; a command is a
\* start or a list.
RegistryConstants ==
    /\ Registry!Partial \notin Masters /\ "none" \notin Masters
    /\ Masters \cap Listers = {}
    /\ MaxFaults \in Nat

\* A master that has told its start command of the file, and has not deleted it.
Holds(m) == at[m] = "up" \/ (at[m] \in {"clean", "delete"} /\ mine[m] # 0)

\* A master whose start is past its first look at the registry.
Begins(m) ==
    \/ at[m] \in {"create", "add", "open", "write"}
    \/ at[m] \in {"clean", "delete"} /\ mine[m] = 0

\* Where a process is, and what it can have read.  The data of a master is read
\* only once it was written, and a ghost is the data of a master that is dead.
PlaceInv ==
    /\ \A l \in Listers : at[l] \in {"idle", "list"}
    /\ \A m \in Masters : at[m] # "list"
    /\ \A m \in Masters :
          at[m] \in {"idle", "launch", "create", "add", "open", "failed"} => mine[m] = 0
    /\ \A m \in Masters : at[m] \in {"up", "write"} => mine[m] # 0
    /\ \A m \in Masters :
          (file.owner = m \/ \E p \in Registry!Procs : seen[p] = m) =>
             at[m] \in {"up", "clean", "delete", "dead"}
    /\ \A p \in Registry!Procs :
          get[p] = "ghost" => seen[p] \in Masters /\ at[seen[p]] = "dead"

\* Without overlap, one start is under way.
OneStarts == \A m, n \in Masters : Registry!Busy(m) /\ Registry!Busy(n) => m = n

\* The file is the holder's, and a start that goes on has found none.
HeldInv ==
    /\ \A m \in Masters : Holds(m) => file.owner = m
    /\ \A m, n \in Masters : Begins(m) => ~Holds(n)
    /\ \A m, n \in Masters :
          at[m] = "launch" /\ get[m] = "check" /\ seen[m] \notin Masters => ~Holds(n)
    /\ \A m \in Masters :
          at[m] = "write" => file.ino = mine[m] /\ file.owner = Registry!Partial

\* Without faults, what is on file has a master that is to delete it.
OwnedInv ==
    /\ \A m \in Masters : file.owner = m => at[m] # "dead"
    /\ file.owner = Registry!Partial =>
          \E m \in Masters : at[m] = "write" /\ file.ino = mine[m]

\* A master that cleans up and is on file has found itself there.
FoundInv ==
    \A m \in Masters :
        at[m] = "clean" /\ get[m] # "read" /\ file.owner = m => seen[m] = m

RegistryInv ==
    /\ Registry!TypeOK
    /\ PlaceInv /\ FoundInv
    /\ ~overlap => OneStarts
    /\ ~overlap /\ ~stale => HeldInv
    /\ faults = 0 /\ ~overlap => OwnedInv

\* What the callers of instance.List go on with.
Answer(p, found, l) ==
    \/ at[p] = "launch" /\ l = IF found THEN "failed" ELSE "create"
    \/ at[p] = "add" /\ l = IF found THEN "clean" ELSE "open"
    \/ at[p] = "clean" /\ l = IF found THEN "delete" ELSE "dead"
    \/ at[p] = "list" /\ l = "idle"

\* A caller that instance.List answers goes on by the answer.
LEMMA Returns ==
    ASSUME NEW p, NEW found \in BOOLEAN, at[p] \in Registry!Calling, Registry!Return(p, found)
    PROVE  \E l : /\ Answer(p, found, l)
                  /\ at' = [at EXCEPT ![p] = l] /\ get' = [get EXCEPT ![p] = "read"]
<1>1. CASE at[p] = "launch"
    BY <1>1 DEF Registry!Return, Registry!Goto, Answer
<1>2. CASE at[p] = "add"
    BY <1>2 DEF Registry!Return, Registry!Goto, Answer
<1>3. CASE at[p] = "clean"
    BY <1>3 DEF Registry!Return, Registry!Goto, Answer
<1>4. CASE at[p] = "list"
    BY <1>4 DEF Registry!Return, Registry!Goto, Answer
<1> QED
    BY <1>1, <1>2, <1>3, <1>4 DEF Registry!Calling

\* A list reads the file.
LEMMA ListReads ==
    ASSUME RegistryConstants, RegistryInv, NEW p \in Registry!Procs, Registry!ListRead(p)
    PROVE  RegistryInv'
<1> USE DEF RegistryConstants
<1>1. Registry!TypeOK /\ PlaceInv /\ FoundInv
    BY DEF RegistryInv
<1>2. Registry!TypeOK'
    BY <1>1
    DEF Registry!ListRead, PlaceInv, Registry!TypeOK, Registry!Procs, Registry!Calling,
        Registry!Starting, Registry!Contents, Registry!NoFile, Registry!Partial
<1>3. PlaceInv'
    BY <1>1, <1>2
    DEF Registry!ListRead, PlaceInv, Registry!TypeOK, Registry!Procs, Registry!Calling,
        Registry!NoFile, Registry!Partial
<1>4. FoundInv'
    BY <1>1, <1>2
    DEF Registry!ListRead, PlaceInv, FoundInv, Registry!TypeOK, Registry!Procs,
        Registry!Calling, Registry!NoFile, Registry!Partial
<1>5. ~overlap' => OneStarts'
    BY <1>1, <1>2
    DEF Registry!ListRead, RegistryInv, PlaceInv, OneStarts, Registry!Busy,
        Registry!Starting, Registry!TypeOK, Registry!Procs, Registry!Calling,
        Registry!NoFile, Registry!Partial
<1>6. ~overlap' /\ ~stale' => HeldInv'
    BY <1>1, <1>2, <1>3, <1>5
    DEF Registry!ListRead, RegistryInv, PlaceInv, FoundInv, OneStarts, HeldInv, Holds,
        Begins, Registry!Busy, Registry!Starting, Registry!TypeOK, Registry!Procs,
        Registry!Calling, Registry!NoFile, Registry!Partial
<1>7. faults' = 0 /\ ~overlap' => OwnedInv'
    BY <1>1, <1>2, <1>3, <1>5
    DEF Registry!ListRead, RegistryInv, PlaceInv, FoundInv, OneStarts, OwnedInv,
        Registry!Busy, Registry!Starting, Registry!TypeOK, Registry!Procs, Registry!Calling,
        Registry!NoFile, Registry!Partial
<1> QED
    BY <1>2, <1>3, <1>4, <1>5, <1>6, <1>7 DEF RegistryInv

\* A list asks whether the master it has read of is alive.
LEMMA ListChecks ==
    ASSUME RegistryConstants, RegistryInv, NEW p \in Registry!Procs, Registry!ListCheck(p)
    PROVE  RegistryInv'
<1> USE DEF RegistryConstants
<1>1. Registry!TypeOK /\ PlaceInv /\ FoundInv
    BY DEF RegistryInv
<1>2. /\ at[p] \in Registry!Calling /\ get[p] = "check"
      /\ UNCHANGED <<file, inodes, seen, mine, faults, overlap, stale>>
    BY DEF Registry!ListCheck
<1>3. CASE seen[p] \in Masters /\ ~Registry!Alive(seen[p])
  <2>1. at' = at /\ get' = [get EXCEPT ![p] = "ghost"] /\ at[seen[p]] = "dead"
    BY <1>1, <1>3 DEF Registry!ListCheck, Registry!Alive, PlaceInv
  <2>2. Registry!TypeOK'
    BY <1>1, <1>2, <1>3, <2>1
    DEF PlaceInv, Registry!TypeOK, Registry!Procs, Registry!Calling, Registry!Starting,
        Registry!Contents, Registry!NoFile, Registry!Partial
  <2>3. PlaceInv'
    BY <1>1, <1>2, <1>3, <2>1, <2>2
    DEF PlaceInv, Registry!TypeOK, Registry!Procs, Registry!Calling, Registry!NoFile,
        Registry!Partial
  <2>4. FoundInv'
    BY <1>1, <1>2, <1>3, <2>1, <2>2
    DEF PlaceInv, FoundInv, Registry!TypeOK, Registry!Procs, Registry!Calling,
        Registry!NoFile, Registry!Partial
  <2>5. ~overlap' => OneStarts'
    BY <1>1, <1>2, <1>3, <2>1, <2>2
    DEF RegistryInv, PlaceInv, OneStarts, Registry!Busy, Registry!Starting, Registry!TypeOK,
        Registry!Procs, Registry!Calling, Registry!NoFile, Registry!Partial
  <2>6. ~overlap' /\ ~stale' => HeldInv'
    BY <1>1, <1>2, <1>3, <2>1, <2>2, <2>3, <2>5
    DEF RegistryInv, PlaceInv, FoundInv, OneStarts, HeldInv, Holds, Begins, Registry!Busy,
        Registry!Starting, Registry!TypeOK, Registry!Procs, Registry!Calling,
        Registry!NoFile, Registry!Partial
  <2>7. faults' = 0 /\ ~overlap' => OwnedInv'
    BY <1>1, <1>2, <1>3, <2>1, <2>2, <2>3, <2>5
    DEF RegistryInv, PlaceInv, FoundInv, OneStarts, OwnedInv, Registry!Busy,
        Registry!Starting, Registry!TypeOK, Registry!Procs, Registry!Calling,
        Registry!NoFile, Registry!Partial
  <2> QED
    BY <2>2, <2>3, <2>4, <2>5, <2>6, <2>7 DEF RegistryInv
<1>4. CASE seen[p] \in Masters /\ Registry!Alive(seen[p])
  <2>1. Registry!Return(p, TRUE)
    BY Zenon, <1>4 DEF Registry!ListCheck
  <2>2. PICK l : /\ Answer(p, TRUE, l)
                 /\ at' = [at EXCEPT ![p] = l] /\ get' = [get EXCEPT ![p] = "read"]
    BY Zenon, <1>2, <2>1, Returns
  <2>3. Registry!TypeOK'
    BY <1>1, <1>2, <1>4, <2>2
    DEF Answer, Registry!Alive, PlaceInv, Registry!TypeOK, Registry!Procs, Registry!Calling,
        Registry!Starting, Registry!Contents, Registry!NoFile, Registry!Partial
  <2>4. PlaceInv'
    BY <1>1, <1>2, <1>4, <2>2, <2>3
    DEF Answer, Registry!Alive, PlaceInv, Registry!TypeOK, Registry!Procs, Registry!Calling,
        Registry!NoFile, Registry!Partial
  <2>5. FoundInv'
    BY <1>1, <1>2, <1>4, <2>2, <2>3
    DEF Answer, Registry!Alive, PlaceInv, FoundInv, Registry!TypeOK, Registry!Procs,
        Registry!Calling, Registry!NoFile, Registry!Partial
  <2>6. ~overlap' => OneStarts'
    BY <1>1, <1>2, <1>4, <2>2, <2>3
    DEF Answer, Registry!Alive, RegistryInv, PlaceInv, OneStarts, Registry!Busy,
        Registry!Starting, Registry!TypeOK, Registry!Procs, Registry!Calling,
        Registry!NoFile, Registry!Partial
  <2>7. ~overlap' /\ ~stale' => HeldInv'
    BY <1>1, <1>2, <1>4, <2>2, <2>3, <2>4, <2>6
    DEF Answer, Registry!Alive, RegistryInv, PlaceInv, FoundInv, OneStarts, HeldInv, Holds,
        Begins, Registry!Busy, Registry!Starting, Registry!TypeOK, Registry!Procs,
        Registry!Calling, Registry!NoFile, Registry!Partial
  <2>8. faults' = 0 /\ ~overlap' => OwnedInv'
    BY <1>1, <1>2, <1>4, <2>2, <2>3, <2>4, <2>6
    DEF Answer, Registry!Alive, RegistryInv, PlaceInv, FoundInv, OneStarts, OwnedInv,
        Registry!Busy, Registry!Starting, Registry!TypeOK, Registry!Procs, Registry!Calling,
        Registry!NoFile, Registry!Partial
  <2> QED
    BY <2>3, <2>4, <2>5, <2>6, <2>7, <2>8 DEF RegistryInv
<1>5. CASE seen[p] \notin Masters
  <2>1. Registry!Return(p, seen[p] \in Masters) /\ (seen[p] \in Masters) = FALSE
    BY <1>5 DEF Registry!ListCheck
  <2>2. Registry!Return(p, FALSE)
    BY <2>1, Zenon
  <2>3. PICK l : /\ Answer(p, FALSE, l)
                 /\ at' = [at EXCEPT ![p] = l] /\ get' = [get EXCEPT ![p] = "read"]
    BY Zenon, <1>2, <2>2, Returns
  <2>4. Registry!TypeOK'
    BY <1>1, <1>2, <1>5, <2>3
    DEF Answer, Registry!Alive, PlaceInv, Registry!TypeOK, Registry!Procs, Registry!Calling,
        Registry!Starting, Registry!Contents, Registry!NoFile, Registry!Partial
  <2>5. PlaceInv'
    BY <1>1, <1>2, <1>5, <2>3, <2>4
    DEF Answer, Registry!Alive, PlaceInv, Registry!TypeOK, Registry!Procs, Registry!Calling,
        Registry!NoFile, Registry!Partial
  <2>6. FoundInv'
    BY <1>1, <1>2, <1>5, <2>3, <2>4
    DEF Answer, Registry!Alive, PlaceInv, FoundInv, Registry!TypeOK, Registry!Procs,
        Registry!Calling, Registry!NoFile, Registry!Partial
  <2>7. ~overlap' => OneStarts'
    BY <1>1, <1>2, <1>5, <2>3, <2>4
    DEF Answer, Registry!Alive, RegistryInv, PlaceInv, OneStarts, Registry!Busy,
        Registry!Starting, Registry!TypeOK, Registry!Procs, Registry!Calling,
        Registry!NoFile, Registry!Partial
  <2>8. ~overlap' /\ ~stale' => HeldInv'
    BY <1>1, <1>2, <1>5, <2>3, <2>4, <2>5, <2>7
    DEF Answer, Registry!Alive, RegistryInv, PlaceInv, FoundInv, OneStarts, HeldInv, Holds,
        Begins, Registry!Busy, Registry!Starting, Registry!TypeOK, Registry!Procs,
        Registry!Calling, Registry!NoFile, Registry!Partial
  <2>9. faults' = 0 /\ ~overlap' => OwnedInv'
    BY <1>1, <1>2, <1>5, <2>3, <2>4, <2>5, <2>7
    DEF Answer, Registry!Alive, RegistryInv, PlaceInv, FoundInv, OneStarts, OwnedInv,
        Registry!Busy, Registry!Starting, Registry!TypeOK, Registry!Procs, Registry!Calling,
        Registry!NoFile, Registry!Partial
  <2> QED
    BY <2>4, <2>5, <2>6, <2>7, <2>8, <2>9 DEF RegistryInv
<1> QED
    BY <1>3, <1>4, <1>5

\* A list deletes a ghost.
LEMMA ListDeletes ==
    ASSUME RegistryConstants, RegistryInv, NEW p \in Registry!Procs, Registry!ListGhost(p)
    PROVE  RegistryInv'
<1> USE DEF RegistryConstants
<1>1. Registry!TypeOK /\ PlaceInv /\ FoundInv
    BY DEF RegistryInv
<1>2. /\ at[p] \in Registry!Calling /\ get[p] = "ghost" /\ file' = Registry!NoFile
      /\ stale' = (stale \/ file.owner # seen[p])
      /\ UNCHANGED <<inodes, seen, mine, faults, overlap>>
    BY DEF Registry!ListGhost
<1>3. PICK l : /\ Answer(p, FALSE, l)
               /\ at' = [at EXCEPT ![p] = l] /\ get' = [get EXCEPT ![p] = "read"]
    BY Zenon, <1>2, Returns DEF Registry!ListGhost
<1>4. Registry!TypeOK'
    BY <1>1, <1>2, <1>3
    DEF Answer, PlaceInv, Registry!TypeOK, Registry!Procs, Registry!Calling,
        Registry!Starting, Registry!Contents, Registry!NoFile, Registry!Partial
<1>5. PlaceInv'
    BY <1>1, <1>2, <1>3, <1>4
    DEF Answer, PlaceInv, Registry!TypeOK, Registry!Procs, Registry!Calling,
        Registry!NoFile, Registry!Partial
<1>6. FoundInv'
    BY <1>1, <1>2, <1>3, <1>4
    DEF Answer, PlaceInv, FoundInv, Registry!TypeOK, Registry!Procs, Registry!Calling,
        Registry!NoFile, Registry!Partial
<1>7. ~overlap' => OneStarts'
    BY <1>1, <1>2, <1>3, <1>4
    DEF Answer, RegistryInv, PlaceInv, OneStarts, Registry!Busy, Registry!Starting,
        Registry!TypeOK, Registry!Procs, Registry!Calling, Registry!NoFile, Registry!Partial
<1>8. ~overlap' /\ ~stale' => HeldInv'
  <2> SUFFICES ASSUME ~overlap, ~stale, file.owner = seen[p] PROVE HeldInv'
    BY Zenon, <1>2
  <2>1. HeldInv /\ OneStarts
    BY DEF RegistryInv
  <2>2. seen[p] \in Masters /\ at[seen[p]] = "dead"
    BY <1>1, <1>2 DEF PlaceInv
  <2>3. \A n \in Masters : ~Holds(n)
    BY <2>1, <2>2 DEF HeldInv, Holds
  <2>4. \A n \in Masters : at[n] # "write"
    BY <2>1, <2>2 DEF HeldInv
  <2>5. l # "write" /\ l # "up" /\ (l \in {"clean", "delete"} => at[p] = "add")
    BY <1>3 DEF Answer
  <2>6. \A n \in Masters : mine'[n] = mine[n] /\ (at'[n] = at[n] \/ (n = p /\ at'[n] = l))
    BY <1>1, <1>2, <1>3 DEF Registry!TypeOK
  <2>7. p \in Masters /\ at[p] = "add" => mine[p] = 0
    BY <1>1 DEF PlaceInv
  <2>8. \A n \in Masters : ~Holds(n)' /\ at'[n] # "write"
    BY <2>3, <2>4, <2>5, <2>6, <2>7 DEF Holds
  <2> QED
    BY <2>8 DEF HeldInv
<1>9. faults' = 0 /\ ~overlap' => OwnedInv'
    BY <1>1, <1>2, <1>3, <1>4, <1>5, <1>7
    DEF Answer, RegistryInv, PlaceInv, FoundInv, OneStarts, OwnedInv, Registry!Busy,
        Registry!Starting, Registry!TypeOK, Registry!Procs, Registry!Calling,
        Registry!NoFile, Registry!Partial
<1> QED
    BY <1>4, <1>5, <1>6, <1>7, <1>8, <1>9 DEF RegistryInv

\* A list is run.
LEMMA RunsList ==
    ASSUME RegistryConstants, RegistryInv, NEW l \in Listers, Registry!RunList(l)
    PROVE  RegistryInv'
<1> USE DEF RegistryConstants
<1>1. Registry!TypeOK /\ PlaceInv /\ FoundInv
    BY DEF RegistryInv
<1>2. Registry!TypeOK'
    BY <1>1
    DEF Registry!RunList, Registry!Goto, PlaceInv, Registry!TypeOK, Registry!Procs,
        Registry!Calling, Registry!Starting, Registry!Contents, Registry!NoFile,
        Registry!Partial
<1>3. PlaceInv'
    BY <1>1, <1>2
    DEF Registry!RunList, Registry!Goto, PlaceInv, Registry!TypeOK, Registry!Procs,
        Registry!Calling, Registry!NoFile, Registry!Partial
<1>4. FoundInv'
    BY <1>1, <1>2
    DEF Registry!RunList, Registry!Goto, PlaceInv, FoundInv, Registry!TypeOK,
        Registry!Procs, Registry!Calling, Registry!NoFile, Registry!Partial
<1>5. ~overlap' => OneStarts'
    BY <1>1, <1>2
    DEF Registry!RunList, Registry!Goto, RegistryInv, PlaceInv, OneStarts, Registry!Busy,
        Registry!Starting, Registry!TypeOK, Registry!Procs, Registry!Calling,
        Registry!NoFile, Registry!Partial
<1>6. ~overlap' /\ ~stale' => HeldInv'
    BY <1>1, <1>2, <1>3, <1>5
    DEF Registry!RunList, Registry!Goto, RegistryInv, PlaceInv, FoundInv, OneStarts,
        HeldInv, Holds, Begins, Registry!Busy, Registry!Starting, Registry!TypeOK,
        Registry!Procs, Registry!Calling, Registry!NoFile, Registry!Partial
<1>7. faults' = 0 /\ ~overlap' => OwnedInv'
    BY <1>1, <1>2, <1>3, <1>5
    DEF Registry!RunList, Registry!Goto, RegistryInv, PlaceInv, FoundInv, OneStarts,
        OwnedInv, Registry!Busy, Registry!Starting, Registry!TypeOK, Registry!Procs,
        Registry!Calling, Registry!NoFile, Registry!Partial
<1> QED
    BY <1>2, <1>3, <1>4, <1>5, <1>6, <1>7 DEF RegistryInv

\* A start is run.
LEMMA Launches ==
    ASSUME RegistryConstants, RegistryInv, NEW m \in Masters, Registry!Launch(m)
    PROVE  RegistryInv'
<1> USE DEF RegistryConstants
<1>1. Registry!TypeOK /\ PlaceInv /\ FoundInv
    BY DEF RegistryInv
<1>2. Registry!TypeOK'
    BY <1>1
    DEF Registry!Launch, Registry!Goto, PlaceInv, Registry!TypeOK, Registry!Procs,
        Registry!Calling, Registry!Starting, Registry!Contents, Registry!NoFile,
        Registry!Partial
<1>3. PlaceInv'
    BY <1>1, <1>2
    DEF Registry!Launch, Registry!Goto, PlaceInv, Registry!TypeOK, Registry!Procs,
        Registry!Calling, Registry!NoFile, Registry!Partial
<1>4. FoundInv'
    BY <1>1, <1>2
    DEF Registry!Launch, Registry!Goto, PlaceInv, FoundInv, Registry!TypeOK, Registry!Procs,
        Registry!Calling, Registry!NoFile, Registry!Partial
<1>5. ~overlap' => OneStarts'
    BY Zenon, <1>1, <1>2
    DEF Registry!Launch, Registry!Goto, RegistryInv, PlaceInv, OneStarts, Registry!Busy,
        Registry!Starting, Registry!TypeOK, Registry!Procs, Registry!Calling,
        Registry!NoFile, Registry!Partial
<1>6. ~overlap' /\ ~stale' => HeldInv'
    BY <1>1, <1>2, <1>3, <1>5
    DEF Registry!Launch, Registry!Goto, RegistryInv, PlaceInv, FoundInv, OneStarts, HeldInv,
        Holds, Begins, Registry!Busy, Registry!Starting, Registry!TypeOK, Registry!Procs,
        Registry!Calling, Registry!NoFile, Registry!Partial
<1>7. faults' = 0 /\ ~overlap' => OwnedInv'
    BY <1>1, <1>2, <1>3, <1>5
    DEF Registry!Launch, Registry!Goto, RegistryInv, PlaceInv, FoundInv, OneStarts,
        OwnedInv, Registry!Busy, Registry!Starting, Registry!TypeOK, Registry!Procs,
        Registry!Calling, Registry!NoFile, Registry!Partial
<1> QED
    BY <1>2, <1>3, <1>4, <1>5, <1>6, <1>7 DEF RegistryInv

\* The container is created, or not.
LEMMA Creates ==
    ASSUME RegistryConstants, RegistryInv, NEW m \in Masters, Registry!Create(m)
    PROVE  RegistryInv'
<1> USE DEF RegistryConstants
<1>1. Registry!TypeOK /\ PlaceInv /\ FoundInv
    BY DEF RegistryInv
<1>2. Registry!TypeOK'
    BY <1>1
    DEF Registry!Create, Registry!Goto, PlaceInv, Registry!TypeOK, Registry!Procs,
        Registry!Calling, Registry!Starting, Registry!Contents, Registry!NoFile,
        Registry!Partial
<1>3. PlaceInv'
    BY <1>1, <1>2
    DEF Registry!Create, Registry!Goto, PlaceInv, Registry!TypeOK, Registry!Procs,
        Registry!Calling, Registry!NoFile, Registry!Partial
<1>4. FoundInv'
    BY <1>1, <1>2
    DEF Registry!Create, Registry!Goto, PlaceInv, FoundInv, Registry!TypeOK, Registry!Procs,
        Registry!Calling, Registry!NoFile, Registry!Partial
<1>5. ~overlap' => OneStarts'
    BY SMTT(20), <1>1, <1>2
    DEF Registry!Create, Registry!Goto, RegistryInv, PlaceInv, OneStarts, Registry!Busy,
        Registry!Starting, Registry!TypeOK, Registry!Procs, Registry!Calling,
        Registry!NoFile, Registry!Partial
<1>6. ~overlap' /\ ~stale' => HeldInv'
    BY <1>1, <1>2, <1>3, <1>5
    DEF Registry!Create, Registry!Goto, RegistryInv, PlaceInv, FoundInv, OneStarts, HeldInv,
        Holds, Begins, Registry!Busy, Registry!Starting, Registry!TypeOK, Registry!Procs,
        Registry!Calling, Registry!NoFile, Registry!Partial
<1>7. faults' = 0 /\ ~overlap' => OwnedInv'
    BY <1>1, <1>2, <1>3, <1>5
    DEF Registry!Create, Registry!Goto, RegistryInv, PlaceInv, FoundInv, OneStarts,
        OwnedInv, Registry!Busy, Registry!Starting, Registry!TypeOK, Registry!Procs,
        Registry!Calling, Registry!NoFile, Registry!Partial
<1> QED
    BY <1>2, <1>3, <1>4, <1>5, <1>6, <1>7 DEF RegistryInv

\* The master opens the file, which truncates it.
LEMMA Opens ==
    ASSUME RegistryConstants, RegistryInv, NEW m \in Masters, Registry!Open(m)
    PROVE  RegistryInv'
<1> USE DEF RegistryConstants
<1>1. Registry!TypeOK /\ PlaceInv /\ FoundInv
    BY DEF RegistryInv
<1>2. Registry!TypeOK'
    BY <1>1
    DEF Registry!Open, Registry!Goto, PlaceInv, Registry!TypeOK, Registry!Procs,
        Registry!Calling, Registry!Starting, Registry!Contents, Registry!NoFile,
        Registry!Partial
<1>3. PlaceInv'
    BY <1>1, <1>2
    DEF Registry!Open, Registry!Goto, PlaceInv, Registry!TypeOK, Registry!Procs,
        Registry!Calling, Registry!NoFile, Registry!Partial
<1>4. FoundInv'
    BY <1>1, <1>2
    DEF Registry!Open, Registry!Goto, PlaceInv, FoundInv, Registry!TypeOK, Registry!Procs,
        Registry!Calling, Registry!NoFile, Registry!Partial
<1>5. ~overlap' => OneStarts'
    BY SMTT(20), <1>1, <1>2
    DEF Registry!Open, Registry!Goto, RegistryInv, PlaceInv, OneStarts, Registry!Busy,
        Registry!Starting, Registry!TypeOK, Registry!Procs, Registry!Calling,
        Registry!NoFile, Registry!Partial
<1>6. ~overlap' /\ ~stale' => HeldInv'
    BY SMTT(20), <1>1, <1>2, <1>3, <1>5
    DEF Registry!Open, Registry!Goto, RegistryInv, PlaceInv, FoundInv, OneStarts, HeldInv,
        Holds, Begins, Registry!Busy, Registry!Starting, Registry!TypeOK, Registry!Procs,
        Registry!Calling, Registry!NoFile, Registry!Partial
<1>7. faults' = 0 /\ ~overlap' => OwnedInv'
    BY <1>1, <1>2, <1>3, <1>5
    DEF Registry!Open, Registry!Goto, RegistryInv, PlaceInv, FoundInv, OneStarts, OwnedInv,
        Registry!Busy, Registry!Starting, Registry!TypeOK, Registry!Procs, Registry!Calling,
        Registry!NoFile, Registry!Partial
<1> QED
    BY <1>2, <1>3, <1>4, <1>5, <1>6, <1>7 DEF RegistryInv

\* The master writes the file.
LEMMA Writes ==
    ASSUME RegistryConstants, RegistryInv, NEW m \in Masters, Registry!Write(m)
    PROVE  RegistryInv'
<1> USE DEF RegistryConstants
<1>1. Registry!TypeOK /\ PlaceInv /\ FoundInv
    BY DEF RegistryInv
<1>2. Registry!TypeOK'
    BY <1>1
    DEF Registry!Write, Registry!Goto, PlaceInv, Registry!TypeOK, Registry!Procs,
        Registry!Calling, Registry!Starting, Registry!Contents, Registry!NoFile,
        Registry!Partial
<1>3. PlaceInv'
    BY <1>1, <1>2
    DEF Registry!Write, Registry!Goto, PlaceInv, Registry!TypeOK, Registry!Procs,
        Registry!Calling, Registry!NoFile, Registry!Partial
<1>4. FoundInv'
    BY <1>1, <1>2
    DEF Registry!Write, Registry!Goto, PlaceInv, FoundInv, Registry!TypeOK, Registry!Procs,
        Registry!Calling, Registry!NoFile, Registry!Partial
<1>5. ~overlap' => OneStarts'
    BY <1>1, <1>2
    DEF Registry!Write, Registry!Goto, RegistryInv, PlaceInv, OneStarts, Registry!Busy,
        Registry!Starting, Registry!TypeOK, Registry!Procs, Registry!Calling,
        Registry!NoFile, Registry!Partial
<1>6. ~overlap' /\ ~stale' => HeldInv'
    BY <1>1, <1>2, <1>3, <1>5
    DEF Registry!Write, Registry!Goto, RegistryInv, PlaceInv, FoundInv, OneStarts, HeldInv,
        Holds, Begins, Registry!Busy, Registry!Starting, Registry!TypeOK, Registry!Procs,
        Registry!Calling, Registry!NoFile, Registry!Partial
<1>7. faults' = 0 /\ ~overlap' => OwnedInv'
    BY <1>1, <1>2, <1>3, <1>5
    DEF Registry!Write, Registry!Goto, RegistryInv, PlaceInv, FoundInv, OneStarts, OwnedInv,
        Registry!Busy, Registry!Starting, Registry!TypeOK, Registry!Procs, Registry!Calling,
        Registry!NoFile, Registry!Partial
<1> QED
    BY <1>2, <1>3, <1>4, <1>5, <1>6, <1>7 DEF RegistryInv

\* The write fails.
LEMMA WriteFailed ==
    ASSUME RegistryConstants, RegistryInv, NEW m \in Masters, Registry!WriteFails(m)
    PROVE  RegistryInv'
<1> USE DEF RegistryConstants
<1>1. Registry!TypeOK /\ PlaceInv /\ FoundInv
    BY DEF RegistryInv
<1>2. Registry!TypeOK'
    BY <1>1
    DEF Registry!WriteFails, Registry!Goto, PlaceInv, Registry!TypeOK, Registry!Procs,
        Registry!Calling, Registry!Starting, Registry!Contents, Registry!NoFile,
        Registry!Partial
<1>3. PlaceInv'
    BY <1>1, <1>2
    DEF Registry!WriteFails, Registry!Goto, PlaceInv, Registry!TypeOK, Registry!Procs,
        Registry!Calling, Registry!NoFile, Registry!Partial
<1>4. FoundInv'
    BY <1>1, <1>2
    DEF Registry!WriteFails, Registry!Goto, PlaceInv, FoundInv, Registry!TypeOK,
        Registry!Procs, Registry!Calling, Registry!NoFile, Registry!Partial
<1>5. ~overlap' => OneStarts'
    BY <1>1, <1>2
    DEF Registry!WriteFails, Registry!Goto, RegistryInv, PlaceInv, OneStarts, Registry!Busy,
        Registry!Starting, Registry!TypeOK, Registry!Procs, Registry!Calling,
        Registry!NoFile, Registry!Partial
<1>6. ~overlap' /\ ~stale' => HeldInv'
    BY <1>1, <1>2, <1>3, <1>5
    DEF Registry!WriteFails, Registry!Goto, RegistryInv, PlaceInv, FoundInv, OneStarts,
        HeldInv, Holds, Begins, Registry!Busy, Registry!Starting, Registry!TypeOK,
        Registry!Procs, Registry!Calling, Registry!NoFile, Registry!Partial
<1>7. faults' = 0 /\ ~overlap' => OwnedInv'
    BY <1>1, <1>2, <1>3, <1>5
    DEF Registry!WriteFails, Registry!Goto, RegistryInv, PlaceInv, FoundInv, OneStarts,
        OwnedInv, Registry!Busy, Registry!Starting, Registry!TypeOK, Registry!Procs,
        Registry!Calling, Registry!NoFile, Registry!Partial
<1> QED
    BY <1>2, <1>3, <1>4, <1>5, <1>6, <1>7 DEF RegistryInv

\* The container ends.
LEMMA EndsUp ==
    ASSUME RegistryConstants, RegistryInv, NEW m \in Masters, Registry!End(m)
    PROVE  RegistryInv'
<1> USE DEF RegistryConstants
<1>1. Registry!TypeOK /\ PlaceInv /\ FoundInv
    BY DEF RegistryInv
<1>2. Registry!TypeOK'
    BY <1>1
    DEF Registry!End, Registry!Goto, PlaceInv, Registry!TypeOK, Registry!Procs,
        Registry!Calling, Registry!Starting, Registry!Contents, Registry!NoFile,
        Registry!Partial
<1>3. PlaceInv'
    BY <1>1, <1>2
    DEF Registry!End, Registry!Goto, PlaceInv, Registry!TypeOK, Registry!Procs,
        Registry!Calling, Registry!NoFile, Registry!Partial
<1>4. FoundInv'
    BY <1>1, <1>2
    DEF Registry!End, Registry!Goto, PlaceInv, FoundInv, Registry!TypeOK, Registry!Procs,
        Registry!Calling, Registry!NoFile, Registry!Partial
<1>5. ~overlap' => OneStarts'
    BY SMTT(20), <1>1, <1>2
    DEF Registry!End, Registry!Goto, RegistryInv, PlaceInv, OneStarts, Registry!Busy,
        Registry!Starting, Registry!TypeOK, Registry!Procs, Registry!Calling,
        Registry!NoFile, Registry!Partial
<1>6. ~overlap' /\ ~stale' => HeldInv'
    BY SMTT(20), <1>1, <1>2, <1>3, <1>5
    DEF Registry!End, Registry!Goto, RegistryInv, PlaceInv, FoundInv, OneStarts, HeldInv,
        Holds, Begins, Registry!Busy, Registry!Starting, Registry!TypeOK, Registry!Procs,
        Registry!Calling, Registry!NoFile, Registry!Partial
<1>7. faults' = 0 /\ ~overlap' => OwnedInv'
    BY <1>1, <1>2, <1>3, <1>5
    DEF Registry!End, Registry!Goto, RegistryInv, PlaceInv, FoundInv, OneStarts, OwnedInv,
        Registry!Busy, Registry!Starting, Registry!TypeOK, Registry!Procs, Registry!Calling,
        Registry!NoFile, Registry!Partial
<1> QED
    BY <1>2, <1>3, <1>4, <1>5, <1>6, <1>7 DEF RegistryInv

\* The master deletes the file and exits.
LEMMA Deletes ==
    ASSUME RegistryConstants, RegistryInv, NEW m \in Masters, Registry!Delete(m)
    PROVE  RegistryInv'
<1> USE DEF RegistryConstants
<1>1. Registry!TypeOK /\ PlaceInv /\ FoundInv
    BY DEF RegistryInv
<1>2. Registry!TypeOK'
    BY <1>1
    DEF Registry!Delete, Registry!Goto, PlaceInv, Registry!TypeOK, Registry!Procs,
        Registry!Calling, Registry!Starting, Registry!Contents, Registry!NoFile,
        Registry!Partial
<1>3. PlaceInv'
    BY <1>1, <1>2
    DEF Registry!Delete, Registry!Goto, PlaceInv, Registry!TypeOK, Registry!Procs,
        Registry!Calling, Registry!NoFile, Registry!Partial
<1>4. FoundInv'
    BY <1>1, <1>2
    DEF Registry!Delete, Registry!Goto, PlaceInv, FoundInv, Registry!TypeOK, Registry!Procs,
        Registry!Calling, Registry!NoFile, Registry!Partial
<1>5. ~overlap' => OneStarts'
    BY SMTT(20), <1>1, <1>2
    DEF Registry!Delete, Registry!Goto, RegistryInv, PlaceInv, OneStarts, Registry!Busy,
        Registry!Starting, Registry!TypeOK, Registry!Procs, Registry!Calling,
        Registry!NoFile, Registry!Partial
<1>6. ~overlap' /\ ~stale' => HeldInv'
    BY <1>1, <1>2, <1>3, <1>5
    DEF Registry!Delete, Registry!Goto, RegistryInv, PlaceInv, FoundInv, OneStarts, HeldInv,
        Holds, Begins, Registry!Busy, Registry!Starting, Registry!TypeOK, Registry!Procs,
        Registry!Calling, Registry!NoFile, Registry!Partial
<1>7. faults' = 0 /\ ~overlap' => OwnedInv'
    BY <1>1, <1>2, <1>3, <1>5
    DEF Registry!Delete, Registry!Goto, RegistryInv, PlaceInv, FoundInv, OneStarts,
        OwnedInv, Registry!Busy, Registry!Starting, Registry!TypeOK, Registry!Procs,
        Registry!Calling, Registry!NoFile, Registry!Partial
<1> QED
    BY <1>2, <1>3, <1>4, <1>5, <1>6, <1>7 DEF RegistryInv

\* The master is killed.
LEMMA Crashes ==
    ASSUME RegistryConstants, RegistryInv, NEW m \in Masters, Registry!Crash(m)
    PROVE  RegistryInv'
<1> USE DEF RegistryConstants
<1>1. Registry!TypeOK /\ PlaceInv /\ FoundInv
    BY DEF RegistryInv
<1>2. Registry!TypeOK'
    BY <1>1
    DEF Registry!Crash, Registry!Alive, Registry!Goto, PlaceInv, Registry!TypeOK,
        Registry!Procs, Registry!Calling, Registry!Starting, Registry!Contents,
        Registry!NoFile, Registry!Partial
<1>3. PlaceInv'
    BY <1>1, <1>2
    DEF Registry!Crash, Registry!Alive, Registry!Goto, PlaceInv, Registry!TypeOK,
        Registry!Procs, Registry!Calling, Registry!NoFile, Registry!Partial
<1>4. FoundInv'
    BY <1>1, <1>2
    DEF Registry!Crash, Registry!Alive, Registry!Goto, PlaceInv, FoundInv, Registry!TypeOK,
        Registry!Procs, Registry!Calling, Registry!NoFile, Registry!Partial
<1>5. ~overlap' => OneStarts'
    BY <1>1, <1>2
    DEF Registry!Crash, Registry!Alive, Registry!Goto, RegistryInv, PlaceInv, OneStarts,
        Registry!Busy, Registry!Starting, Registry!TypeOK, Registry!Procs, Registry!Calling,
        Registry!NoFile, Registry!Partial
<1>6. ~overlap' /\ ~stale' => HeldInv'
    BY SMTT(20), <1>1, <1>2, <1>3, <1>5
    DEF Registry!Crash, Registry!Alive, Registry!Goto, RegistryInv, PlaceInv, FoundInv,
        OneStarts, HeldInv, Holds, Begins, Registry!Busy, Registry!Starting,
        Registry!TypeOK, Registry!Procs, Registry!Calling, Registry!NoFile, Registry!Partial
<1>7. faults' = 0 /\ ~overlap' => OwnedInv'
    BY <1>1, <1>2, <1>3, <1>5
    DEF Registry!Crash, Registry!Alive, Registry!Goto, RegistryInv, PlaceInv, FoundInv,
        OneStarts, OwnedInv, Registry!Busy, Registry!Starting, Registry!TypeOK,
        Registry!Procs, Registry!Calling, Registry!NoFile, Registry!Partial
<1> QED
    BY <1>2, <1>3, <1>4, <1>5, <1>6, <1>7 DEF RegistryInv

\* At the start there is no file, and nobody has looked.
LEMMA RegistryStarts ==
    ASSUME RegistryConstants, Registry!Init
    PROVE  RegistryInv
<1>1. Registry!TypeOK
  <2>1. /\ at \in [Registry!Procs -> {"idle"}] /\ get \in [Registry!Procs -> {"read"}]
        /\ seen \in [Registry!Procs -> {"none"}] /\ mine \in [Masters -> 0..0]
    BY DEF Registry!Init
  <2>2. file = Registry!NoFile /\ inodes = 0 /\ faults = 0 /\ overlap = FALSE /\ stale = FALSE
    BY DEF Registry!Init
  <2>3. seen \in [Registry!Procs -> Registry!Contents]
    BY <2>1 DEF Registry!Contents
  <2>4. mine \in [Masters -> 0..inodes] /\ 0 \in 0..MaxFaults
    BY <2>1, <2>2 DEF RegistryConstants
  <2> QED
    BY Zenon, <2>1, <2>2, <2>3, <2>4 DEF Registry!TypeOK
<1>2. PlaceInv /\ FoundInv /\ OneStarts
    BY DEF Registry!Init, RegistryConstants, Registry!NoFile, Registry!Procs, Registry!Busy,
        Registry!Starting, PlaceInv, FoundInv, OneStarts
<1>3. HeldInv /\ OwnedInv
    BY DEF Registry!Init, RegistryConstants, Registry!NoFile, Registry!Procs,
        Registry!Partial, HeldInv, OwnedInv, Holds, Begins
<1> QED
    BY <1>1, <1>2, <1>3 DEF RegistryInv

\* What the invariant says of the registry.
LEMMA RegistryShows ==
    ASSUME RegistryConstants, RegistryInv
    PROVE  Registry!RegistryIsTrue
<1>1. Registry!LiveIsListed
    BY DEF RegistryInv, HeldInv, Holds, Registry!LiveIsListed
<1>2. Registry!EndedUnlisted
    BY DEF RegistryInv, PlaceInv, OwnedInv, RegistryConstants, Registry!EndedUnlisted,
        Registry!TypeOK, Registry!NoFile, Registry!Partial
<1> QED
    BY <1>1, <1>2 DEF RegistryInv, Registry!RegistryIsTrue

\* Whatever starts, failed starts, ends, kills and lists interleave: unless two starts of
\* the name overlap, or a list has deleted another file than the one it read, an
\* instance whose start command has returned is on file until its master cleans up;
\* and masters that end by their own cleanup leave no file
\* (instance_linux.go:145-274, cleanup_linux.go:141-147).
THEOREM RegistryTrue ==
    ASSUME RegistryConstants
    PROVE  Registry!Spec => []Registry!RegistryIsTrue
<1>1. Registry!Init => RegistryInv
    BY RegistryStarts
<1>2. ASSUME RegistryInv, [Registry!Next]_(Registry!vars) PROVE RegistryInv'
  <2>1. CASE UNCHANGED Registry!vars
    <3>1. UNCHANGED <<file, inodes, at, get, seen, mine, faults, overlap, stale>>
      BY <2>1 DEF Registry!vars
    <3> QED
      BY <1>2, <3>1
      DEF RegistryInv, Registry!TypeOK, Registry!Procs, PlaceInv, FoundInv, OneStarts,
          HeldInv, OwnedInv, Holds, Begins, Registry!Busy
  <2>2. ASSUME NEW m \in Masters, Registry!MasterStep(m) PROVE RegistryInv'
    BY <1>2, <2>2, Launches, Creates, Opens, Writes, WriteFailed, EndsUp, Deletes, Crashes
    DEF Registry!MasterStep
  <2>3. ASSUME NEW p \in Registry!Procs, Registry!List(p) PROVE RegistryInv'
    BY <1>2, <2>3, ListReads, ListChecks, ListDeletes DEF Registry!List
  <2> QED
    BY <1>2, <2>1, <2>2, <2>3, RunsList DEF Registry!Next
<1>3. RegistryInv => Registry!RegistryIsTrue
    BY RegistryShows
<1> QED
    BY <1>1, <1>2, <1>3, PTL DEF Registry!Spec

=============================================================================
