---------------------------- MODULE InstanceStop ----------------------------
(***************************************************************************)
(* "instance stop" (internal/app/apptainer/instance_linux.go): a goroutine *)
(* per instance signals it and polls its master; the main goroutine        *)
(* collects the stopped ones and kills the rest on a time-out.             *)
(***************************************************************************)
EXTENDS Integers, FiniteSets, Sequences

CONSTANTS
    Instances,  \* what instance.List returned, not empty
    Timeout     \* the grace period, --timeout

ASSUME StopAssumption ==
    /\ IsFiniteSet(Instances) /\ Instances # {}
    /\ Timeout \in Nat

VARIABLES
    main,       \* the main goroutine: "select", "kill" or "returned"
    now,        \* the clock
    deadline,   \* when the time.After of the current select fires
    stopped,    \* the instances received from stoppedPID
    ch,         \* stoppedPID, a channel with one slot
    killer,     \* the step of each killInstance goroutine
    container,  \* the container process: "busy" (has children), "idle" or "gone"
    master,     \* its master is alive
    signalled,  \* the container has been sent the signal
    killed      \* ... and SIGKILL

vars == <<main, now, deadline, stopped, ch, killer, container, master, signalled, killed>>
Goroutines == <<main, deadline, stopped, ch, killer, signalled>>

TypeOK ==
    /\ main \in {"select", "kill", "returned"}
    /\ now \in Nat /\ deadline \in Nat
    /\ stopped \subseteq Instances
    /\ ch \in Seq(Instances) /\ Len(ch) <= 1
    /\ killer \in [Instances -> {"signal", "poll", "count", "kill", "send", "done"}]
    /\ container \in [Instances -> {"busy", "idle", "gone"}]
    /\ master \in [Instances -> BOOLEAN]
    /\ signalled \subseteq Instances
    /\ killed \subseteq Instances

Init ==
    /\ main = "select" /\ now = 0 /\ deadline = Timeout
    /\ stopped = {} /\ ch = <<>>
    /\ killer = [i \in Instances |-> "signal"]
    /\ container \in [Instances -> {"busy", "idle"}]
    /\ master = [i \in Instances |-> TRUE]
    /\ signalled = {} /\ killed = {}

-----------------------------------------------------------------------------
\* killInstance, while the command runs.
At(i, l) == main # "returned" /\ killer[i] = l
Goto(i, l) == killer' = [killer EXCEPT ![i] = l]

Signal(i) ==
    /\ At(i, "signal")
    /\ signalled' = signalled \cup {i}
    /\ Goto(i, "poll")
    /\ UNCHANGED <<main, now, deadline, stopped, ch, container, master, killed>>

\* Kill(PPid, 0) == ESRCH
Poll(i) ==
    /\ At(i, "poll")
    /\ Goto(i, IF master[i] THEN "count" ELSE "send")
    /\ UNCHANGED <<main, now, deadline, stopped, ch, container, master, signalled, killed>>

\* proc.CountChilds of the container: an error if it is gone.
Count(i) ==
    /\ At(i, "count")
    /\ Goto(i, IF container[i] = "idle" THEN "kill" ELSE "poll")
    /\ UNCHANGED <<main, now, deadline, stopped, ch, container, master, signalled, killed>>

Kills(S) ==
    /\ killed' = killed \cup S
    /\ container' = [i \in Instances |-> IF i \in S THEN "gone" ELSE container[i]]

\* A container without children is killed at once.
KillIdle(i) ==
    /\ At(i, "kill")
    /\ Kills({i})
    /\ Goto(i, "poll")
    /\ UNCHANGED <<main, now, deadline, stopped, ch, master, signalled>>

Send(i) ==
    /\ At(i, "send") /\ ch = <<>>
    /\ ch' = <<i>>
    /\ Goto(i, "done")
    /\ UNCHANGED <<main, now, deadline, stopped, container, master, signalled, killed>>

Killer(i) == Signal(i) \/ Poll(i) \/ Count(i) \/ KillIdle(i) \/ Send(i)

-----------------------------------------------------------------------------
\* Mutant: the time-out is armed again from its old end, twice as long.
ReceiveSlow ==
    /\ main = "select" /\ ch # <<>>
    /\ stopped' = stopped \cup {Head(ch)}
    /\ ch' = <<>>
    /\ IF stopped' = Instances
       THEN main' = "returned" /\ UNCHANGED deadline
       ELSE deadline' = deadline + 2 * Timeout /\ UNCHANGED main
    /\ UNCHANGED <<now, killer, container, master, signalled, killed>>

\* case pid := <-stoppedPID: the next select evaluates time.After again.
Receive ==
    /\ main = "select" /\ ch # <<>>
    /\ stopped' = stopped \cup {Head(ch)}
    /\ ch' = <<>>
    /\ IF stopped' = Instances
       THEN main' = "returned" /\ UNCHANGED deadline
       ELSE deadline' = now + Timeout /\ UNCHANGED main
    /\ UNCHANGED <<now, killer, container, master, signalled, killed>>

\* case <-time.After(timeout), also when a value is ready: select picks either.
Expire ==
    /\ main = "select" /\ now = deadline
    /\ main' = "kill"
    /\ UNCHANGED <<now, deadline, stopped, ch, killer, container, master, signalled, killed>>

\* Mutant: instances that were not signalled yet are left alone.
ForceSignalled ==
    /\ main = "kill"
    /\ Kills(signalled \ stopped)
    /\ main' = "returned"
    /\ UNCHANGED <<now, deadline, stopped, ch, killer, master, signalled>>

\* SIGKILL to every instance that is not in stopped, then return.
ForceKill ==
    /\ main = "kill"
    /\ Kills(Instances \ stopped)
    /\ main' = "returned"
    /\ UNCHANGED <<now, deadline, stopped, ch, killer, master, signalled>>

-----------------------------------------------------------------------------
\* The container: its children end, or it does, of itself or on the signal; an
\* orphan of a joined process makes it busy again.
Container(i) ==
    /\ container[i] # "gone"
    /\ \E c \in {"busy", "idle", "gone"} : container' = [container EXCEPT ![i] = c]
    /\ UNCHANGED <<Goroutines, now, master, killed>>

\* The master reaps the container, cleans up and exits.
MasterExit(i) ==
    /\ container[i] = "gone" /\ master[i]
    /\ master' = [master EXCEPT ![i] = FALSE]
    /\ UNCHANGED <<Goroutines, now, container, killed>>

\* Time passes; an expired timer is noticed before it passes further.
Tick ==
    /\ main = "select" /\ now < deadline
    /\ now' = now + 1
    /\ UNCHANGED <<Goroutines, container, master, killed>>

Next ==
    \/ \E i \in Instances : Killer(i) \/ Container(i) \/ MasterExit(i)
    \/ Receive \/ Expire \/ ForceKill \/ Tick

Spec == Init /\ [][Next]_vars

\* Goroutines and the clock go on, and a master ends after its container.
FairSpec ==
    /\ Spec
    /\ WF_vars(Receive) /\ WF_vars(Expire) /\ WF_vars(ForceKill) /\ WF_vars(Tick)
    /\ \A i \in Instances : WF_vars(Killer(i)) /\ WF_vars(MasterExit(i))

-----------------------------------------------------------------------------
(***************************************************************************)
(* Properties.                                                             *)
(***************************************************************************)

\* When the command returns, each instance has no master any more or has been
\* sent SIGKILL, whichever of polls, receives and time-out came last.
StopEffective ==
    main = "returned" => \A i \in Instances : ~master[i] \/ i \in killed

\* "If an instance is still running after a grace period defined by timeout is
\* expired, it will be forcibly killed" (instance_linux.go:313-315): nobody is
\* still being waited for when the grace period is over.
GraceRespected ==
    main = "select" => now <= Timeout

\* What the code guarantees instead: each instance that stops starts the period
\* again, so that the last of n is waited for n periods at most.
GraceBounded ==
    now <= Timeout * Cardinality(Instances)

\* The command returns, and every instance is gone in the end, even one that
\* ignores the signal and keeps its children.
AllStop ==
    <>(main = "returned" /\ \A i \in Instances : ~master[i])

=============================================================================
