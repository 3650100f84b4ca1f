------------------------------ MODULE Network -------------------------------
(***************************************************************************)
(* The network of a container with a network namespace of its own:         *)
(* prepareNetworkSetup decides which networks it may have, and pkg/network *)
(* protects the host ports it maps, adds the networks with CNI plugins     *)
(* under one time-out, and removes them in CleanupContainer.               *)
(*                                                                         *)
(* The master of a container has two goroutines here: create() sets the    *)
(* networks up, and main waits for an error of create() or for the end of  *)
(* the container, and cleans up, while create() may still be at work.      *)
(* Several containers run, of different users.  A CNI plugin (external) is *)
(* a step that may fail, of itself or when its time-out passes, and then   *)
(* may leave a part of its work done.                                      *)
(***************************************************************************)
EXTENDS Naturals, Sequences, FiniteSets, SequencesExt

CONSTANTS Containers,   \* container processes, each with its request
          Requests      \* the requests to choose from

VARIABLES req,       \* container -> its request
          creating,  \* container -> where create() is
          ending,    \* container -> where main is
          setup,     \* the containers with a Setup
          adding,    \* container -> index of the network of its ADD
          deleting,  \* container -> index of the network of its DEL
          delFailed, \* the containers in whose DEL a plugin failed
          late,      \* container -> what its ADD set up after its cleanup began
          ifs,       \* container -> indexes of networks with something set up
          socks      \* container -> host ports its master holds a socket for

command == <<adding, deleting>>
vars == <<req, creating, ending, setup, command, delFailed, late, ifs, socks>>

\* A request: the user ("root" or not), --fakeroot, a user namespace, whether
\* the administrator lists the user, the networks asked for, those the
\* administrator lists, and the port mappings asked for: of the first network
\* or of one not asked for.
Root(r) == r.user = "root"

----------------------------------------------------------------------------
(* prepareNetworkSetup. *)

\* In fakeroot mode a user gets the fakeroot network, whatever they ask for.
Networks(r) == IF r.fakeroot /\ ~Root(r) THEN <<"fakeroot">> ELSE r.nets

ASSUME NetworkAssumption == \A r \in Requests : Len(Networks(r)) \in Nat

\* A listed user, and all of the networks allowed.
allowedNetUnpriv(r) ==
    /\ ~Root(r) /\ ~r.fakeroot /\ ~r.userns
    /\ r.listed
    /\ \A i \in DOMAIN r.nets : r.nets[i] \in r.allowed

Permitted(r) == (Root(r) /\ ~r.userns) \/ r.fakeroot \/ allowedNetUnpriv(r)

\* SetArgs: a mapping must be for a network of the container that has the
\* capability portMappings.
SetArgs(r) ==
    \A m \in r.maps : \E i \in DOMAIN Networks(r) :
                         Networks(r)[i] = m.net /\ m.capable

\* The host ports mapped by the networks of r.
Mapped(r) == {m.port : m \in r.maps}

\* The caller holds sockets on the ports it maps, unless it is root's own.
Protects(r) == r.fakeroot \/ allowedNetUnpriv(r)

Init ==
    /\ req \in [Containers -> Requests]
    /\ creating = [c \in Containers |-> "prepare"]
    /\ ending = [c \in Containers |-> "wait"]
    /\ setup = {} /\ delFailed = {}
    /\ adding = [c \in Containers |-> 1]
    /\ deleting = [c \in Containers |-> 1]
    /\ late = [c \in Containers |-> {}]
    /\ ifs = [c \in Containers |-> {}]
    /\ socks = [c \in Containers |-> {}]

Create(c, l) == creating' = [creating EXCEPT ![c] = l]
End(c, l) == ending' = [ending EXCEPT ![c] = l]

\* The Setup is kept for the cleanup before its arguments are looked at; the mounts,
\* which come next, may fail.
prepareNetworkSetup(c) ==
    /\ creating[c] = "prepare"
    /\ setup' = IF Permitted(req[c]) THEN setup \cup {c} ELSE setup
    /\ \/ Permitted(req[c]) /\ SetArgs(req[c]) /\ Create(c, "ports")
       \/ Create(c, "failed")
    /\ UNCHANGED <<req, ending, command, delFailed, late, ifs, socks>>

----------------------------------------------------------------------------
(* SetPortProtection. *)

\* bind with SO_REUSEPORT: the sockets on a port are all of one user.
Bindable(c, p) ==
    \A d \in Containers \ {c} : p \in socks[d] => req[d].user = req[c].user

\* Mutant of SetPortProtection: the sockets are closed after the check.
SetPortProtectionClosed(c) ==
    /\ creating[c] = "ports"
    /\ Create(c, IF Protects(req[c]) /\ \E p \in Mapped(req[c]) : ~Bindable(c, p)
                 THEN "failed" ELSE "add")
    /\ UNCHANGED <<req, ending, setup, command, delFailed, late, ifs, socks>>

\* The sockets stay open until the master ends, those bound before one that cannot
\* be as well.
SetPortProtection(c) ==
    /\ creating[c] = "ports"
    /\ \/ ~Protects(req[c]) /\ Create(c, "add") /\ UNCHANGED socks
       \/ /\ Protects(req[c])
          /\ \E bound \in SUBSET {p \in Mapped(req[c]) : Bindable(c, p)} :
               /\ socks' = [socks EXCEPT ![c] = bound]
               /\ Create(c, IF bound = Mapped(req[c]) THEN "add" ELSE "failed")
    /\ UNCHANGED <<req, ending, setup, command, delFailed, late, ifs>>

----------------------------------------------------------------------------
(* command: ADD and DEL, each under a time-out of five seconds. *)

\* A plugin has set this up; late records that the cleanup had begun.
Up(c, part) ==
    /\ ifs' = [ifs EXCEPT ![c] = @ \cup part]
    /\ late' = IF ending[c] = "wait" THEN late
               ELSE [late EXCEPT ![c] = @ \cup part]

\* AddNetworkList of the next network.  Its failure is followed by the
\* removal of the ones before it, not of its own part; the removal shares
\* the time-out of the ADD, and does nothing when that has passed.
AddNetwork(c) ==
    LET i == adding[c]
    IN  /\ creating[c] = "add" /\ i <= Len(Networks(req[c]))
        /\ \/ /\ Up(c, {i})
              /\ adding' = [adding EXCEPT ![c] = i + 1]
              /\ UNCHANGED creating
           \/ /\ Up(c, {}) \/ Up(c, {i})
              /\ adding' = [adding EXCEPT ![c] = i - 1]
              /\ Create(c, "undo") \/ Create(c, "failed")
        /\ UNCHANGED <<req, ending, setup, deleting, delFailed, socks>>

\* What is left of create() may fail.
AddDone(c) ==
    /\ creating[c] = "add" /\ adding[c] > Len(Networks(req[c]))
    /\ Create(c, "created") \/ Create(c, "failed")
    /\ UNCHANGED <<req, ending, setup, command, delFailed, late, ifs, socks>>

\* The removal stops at an error, or when the time-out passes.
UndoNetwork(c) ==
    LET i == adding[c]
    IN  /\ creating[c] = "undo"
        /\ \/ /\ i > 0
              /\ ifs' = [ifs EXCEPT ![c] = @ \ {i}]
              /\ adding' = [adding EXCEPT ![c] = i - 1]
              /\ UNCHANGED creating
           \/ /\ Create(c, "failed")
              /\ UNCHANGED <<ifs, adding>>
        /\ UNCHANGED <<req, ending, setup, deleting, delFailed, late, socks>>

----------------------------------------------------------------------------
(* main, and CleanupContainer. *)

\* Mutant of CleanupContainer: a failed create() is trusted to have cleaned up.
CleanupTrusting(c) ==
    /\ ending[c] = "wait"
    /\ End(c, IF c \in setup /\ creating[c] # "failed" THEN "del" ELSE "exit")
    /\ UNCHANGED <<req, creating, setup, command, delFailed, late, ifs, socks>>

\* main cleans up when create() returned an error or the container ended, which
\* may be while create() is still at work on it.  The cleanup removes all of the
\* networks, if a Setup was made.
CleanupContainer(c) ==
    /\ ending[c] = "wait"
    /\ End(c, IF c \in setup THEN "del" ELSE "exit")
    /\ UNCHANGED <<req, creating, setup, command, delFailed, late, ifs, socks>>

\* DelNetworkList of the next network; an error ends the command.
DelNetwork(c) ==
    LET i == deleting[c]
    IN  /\ ending[c] = "del"
        /\ \/ /\ i > Len(Networks(req[c]))
              /\ End(c, "exit")
              /\ UNCHANGED <<ifs, deleting, delFailed>>
           \/ /\ i <= Len(Networks(req[c]))
              /\ ifs' = [ifs EXCEPT ![c] = @ \ {i}]
              /\ deleting' = [deleting EXCEPT ![c] = i + 1]
              /\ UNCHANGED <<ending, delFailed>>
           \/ /\ i <= Len(Networks(req[c]))
              /\ End(c, "exit")
              /\ delFailed' = delFailed \cup {c}
              /\ UNCHANGED <<ifs, deleting>>
        /\ UNCHANGED <<req, creating, setup, adding, late, socks>>

\* The master exits, which closes its sockets and ends create().  A plugin that
\* create() was waiting for is not stopped.
Exit(c) ==
    /\ ending[c] = "exit"
    /\ End(c, "ended") /\ Create(c, "gone")
    /\ socks' = [socks EXCEPT ![c] = {}]
    /\ \E part \in IF creating[c] = "add" /\ adding[c] <= Len(Networks(req[c]))
                   THEN {{}, {adding[c]}} ELSE {{}} : Up(c, part)
    /\ UNCHANGED <<req, setup, command, delFailed>>

Next == \E c \in Containers :
           \/ prepareNetworkSetup(c) \/ SetPortProtection(c)
           \/ AddNetwork(c) \/ AddDone(c) \/ UndoNetwork(c)
           \/ CleanupContainer(c) \/ DelNetwork(c) \/ Exit(c)

Spec == Init /\ [][Next]_vars

----------------------------------------------------------------------------
(* Properties. *)

\* A container that ended left nothing set up, wherever its ADD stopped or
\* timed out, but for what its ADD set up after the cleanup had
\* begun, when the container was killed meanwhile (master_linux.go:140-152),
\* and unless a plugin failed in the DEL.
NetworksReleased ==
    \A c \in Containers :
       ending[c] = "ended" /\ c \notin delFailed => ifs[c] \subseteq late[c]

\* Two unprivileged users never map the same host port at the same time: the
\* sockets of SetPortProtection outlive the mappings, unless the master ended
\* with a failed DEL, or overtook its own ADD.
Left(c) == ending[c] = "ended" /\ (c \in delFailed \/ late[c] # {})
PortsAreSeparate ==
    \A c, d \in Containers :
       /\ req[c].user # req[d].user
       /\ Protects(req[c]) /\ Protects(req[d])
       /\ ifs[c] # {} /\ ifs[d] # {}
       /\ ~Left(c) /\ ~Left(d)
       => Mapped(req[c]) \cap Mapped(req[d]) = {}
=============================================================================
