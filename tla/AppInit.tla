------------------------------ MODULE AppInit -------------------------------
(***************************************************************************)
(* StartProcess of the apptainer engine: the steps of the process that     *)
(* becomes the container's first one, and, when it stays as "appinit"      *)
(* (an instance, a PID namespace, --sharens), its loop: it runs the        *)
(* command, forwards signals to it, reaps the orphans that the kernel      *)
(* hands to process 1, and ends like the command.                          *)
(*                                                                         *)
(* Two reapers share the children: the loop, on SIGCHLD, with Wait4(-1),   *)
(* and the goroutine that is in cmd.Wait.                                  *)
(***************************************************************************)
EXTENDS Naturals, Sequences, FiniteSets

CONSTANTS
    Fuse,       \* the FUSE programs that are run from the container
    Orphans,    \* processes left to appinit by the processes of the container
    MaxSignals  \* bound: signals sent to appinit by others

Size == 2       \* of the signals channel
Procs == {"cmd"} \cup Fuse \cup Orphans
Statuses == {"zero", "code", "signal"}

VARIABLES
    cfg,        \* what StartProcess reads of the configuration
    pc,         \* of StartProcess
    todo,       \* FUSE programs still to run, or to stop
    proc,       \* a process: "none", "running", "zombie" or "reaped"
    status,     \* how the command ended
    told,       \* processes that SIGTERM was sent to
    wait,       \* the goroutine in cmd.Wait: "none", "wait" or "done"
    errChan,    \* what cmd.Wait returned: "empty", "nil", "exit" or "echild"
    statusChan, \* "empty", or a status
    pend,       \* signals the runtime has recorded and not sent to the channel
    signals,    \* the channel
    sent, dropped, \* signals others sent; a SIGCHLD found the channel full
    exit        \* "none", a status, "killed", "failed" or "exec"

vars == <<cfg, pc, todo, proc, status, told, wait, errChan, statusChan, pend, signals, sent,
          dropped, exit>>

\* The process stays as process 1 of the container (lines 139-148), or becomes the
\* command: lines 184-203.
Shim == cfg.sharens \/ (cfg.pidns /\ ~cfg.noinit)
Execs == (~cfg.instance /\ ~Shim) \/ (cfg.instance /\ cfg.boot) \/ cfg.join

Init ==
    /\ cfg \in [instance : BOOLEAN, boot : BOOLEAN, sharens : BOOLEAN, pidns : BOOLEAN,
                noinit : BOOLEAN, join : BOOLEAN, propagate : BOOLEAN]
    /\ cfg.instance => ~cfg.sharens /\ cfg.pidns
    /\ cfg.boot => cfg.instance
    /\ cfg.noinit => cfg.pidns
    /\ cfg.join => ~cfg.instance /\ ~cfg.sharens /\ ~cfg.pidns
    /\ pc = "fuse" /\ todo = Fuse
    /\ proc = [p \in Procs |-> "none"] /\ status = "zero" /\ told = {}
    /\ wait = "none" /\ errChan = "empty" /\ statusChan = "empty"
    /\ pend = {} /\ signals = <<>> /\ sent = 0 /\ dropped = FALSE
    /\ exit = "none"

Alive == exit = "none"
Chans == <<wait, errChan, statusChan>>
Signalled == <<pend, signals, sent, dropped>>

Fail(code) == exit' = code /\ UNCHANGED <<pc, todo, proc, status, told>>

-----------------------------------------------------------------------------
(***************************************************************************)
(* The steps up to the loop.                                               *)
(***************************************************************************)

\* runFuseDrivers(true, -1): each program is started, or run as a daemon.
RunFuse ==
    /\ Alive /\ pc = "fuse"
    /\ \/ /\ todo = {} /\ pc' = "prepare" /\ UNCHANGED <<todo, proc, exit>>
       \/ \E d \in todo :
            /\ todo' = todo \ {d}
            /\ proc' = [proc EXCEPT ![d] = "running"]
            /\ UNCHANGED <<pc, exit>>
       \/ todo # {} /\ exit' = "failed" /\ UNCHANGED <<pc, todo, proc>>
    /\ UNCHANGED <<cfg, status, told, Chans, Signalled>>

\* Working directory (only a custom one must exist), terminal, file descriptors of
\* the images, stack limit, security.Configure, umask.
Prepare ==
    /\ Alive /\ pc = "prepare"
    /\ \/ pc' = "script" /\ UNCHANGED exit
       \/ exit' = "failed" /\ UNCHANGED pc
    /\ UNCHANGED <<cfg, todo, proc, status, told, Chans, Signalled>>

\* runActionScript: it fails, also on its time-out, or ends with the status of the
\* script; its exec builtin leaves the command to run.  A boot instance runs
\* /sbin/init without it.
RunActionScript ==
    /\ Alive /\ pc = "script"
    /\ \/ /\ pc' = (IF Execs THEN "exec" ELSE "spawn")
          /\ UNCHANGED exit
       \/ ~cfg.boot /\ exit' \in {"failed", "code"} /\ UNCHANGED pc
    /\ UNCHANGED <<cfg, todo, proc, status, told, Chans, Signalled>>

\* execProcess: the process becomes the command, directly or through /bin/sh.
ExecProcess ==
    /\ Alive /\ pc = "exec"
    /\ Fail("exec") \/ Fail("failed")
    /\ UNCHANGED <<cfg, Chans, Signalled>>

\* cmd.Start, and the goroutine that waits for the command; then the program name and
\* the connection to the master, whose end tells it that the process has started.
Spawn ==
    /\ Alive /\ pc = "spawn"
    /\ \/ /\ proc' = [proc EXCEPT !["cmd"] = "running"]
          /\ wait' = "wait" /\ pc' = "loop"
          /\ UNCHANGED exit
       \/ exit' = "failed" /\ UNCHANGED <<proc, wait, pc>>
    /\ UNCHANGED <<cfg, todo, status, told, errChan, statusChan, Signalled>>

-----------------------------------------------------------------------------
(***************************************************************************)
(* The loop.                                                               *)
(***************************************************************************)

\* The group -cmdPid: the command leads a group of its own in an instance only
\* (Setpgid), with its descendants; a command of --sharens may have made one itself.
GroupGone ==
    IF cfg.instance THEN \A p \in {"cmd"} \cup Orphans : proc[p] \notin {"running", "zombie"}
    ELSE proc["cmd"] \notin {"running", "zombie"}

\* kill: to the group, or with signal propagation to the command; ESRCH ends appinit.
Forward(s) ==
    LET group == cfg.instance \/ cfg.sharens
        one == ~group /\ cfg.propagate
    IN \/ /\ \/ group /\ (GroupGone \/ cfg.sharens)
             \/ one /\ proc["cmd"] = "reaped"
          /\ exit' = "killed" /\ UNCHANGED told
       \/ /\ group /\ ~GroupGone
          /\ told' = told \cup {"cmd"} \cup (IF cfg.instance THEN Orphans ELSE {})
          /\ UNCHANGED exit
       \/ /\ one /\ proc["cmd"] # "reaped"
          /\ told' = told \cup {"cmd"} /\ UNCHANGED exit
       \/ ~group /\ ~one /\ UNCHANGED <<told, exit>>

LoopSignal ==
    /\ Alive /\ pc = "loop" /\ signals # <<>>
    /\ signals' = Tail(signals)
    /\ CASE Head(signals) = "CHLD" -> pc' = "reap" /\ UNCHANGED <<told, exit>>
         [] Head(signals) = "URG"  -> UNCHANGED <<pc, told, exit>>
         [] OTHER -> Forward(Head(signals)) /\ UNCHANGED pc
    /\ UNCHANGED <<cfg, todo, proc, status, Chans, pend, sent, dropped>>

\* Wait4(-1, WNOHANG) until there is nothing left: any child that has ended.
Reap ==
    /\ Alive /\ pc = "reap"
    /\ \/ /\ \A p \in Procs : proc[p] # "zombie"
          /\ pc' = "loop" /\ UNCHANGED <<proc, todo>>
       \/ \E p \in Procs :
            /\ proc[p] = "zombie"
            /\ proc' = [proc EXCEPT ![p] = "reaped"]
            /\ IF p = "cmd" THEN pc' = "stopfuse" /\ todo' = Fuse
               ELSE UNCHANGED <<pc, todo>>
    /\ UNCHANGED <<cfg, status, told, Chans, Signalled, exit>>

\* stopFuseDrivers: SIGTERM, which fails for a program that is gone, and Process.Wait.
StopFuse ==
    /\ Alive /\ pc = "stopfuse"
    /\ \/ /\ todo = {} /\ pc' = "status" /\ UNCHANGED <<todo, told, proc>>
       \/ \E d \in todo :
            \/ /\ proc[d] = "running" /\ d \notin told
               /\ told' = told \cup {d} /\ UNCHANGED <<pc, todo, proc>>
            \/ /\ proc[d] = "zombie"
               /\ proc' = [proc EXCEPT ![d] = "reaped"]
               /\ todo' = todo \ {d} /\ UNCHANGED <<pc, told>>
            \/ /\ proc[d] \in {"none", "reaped"}
               /\ todo' = todo \ {d} /\ UNCHANGED <<pc, told, proc>>
    /\ UNCHANGED <<cfg, status, Chans, Signalled, exit>>

\* Mutant: the status the loop has seen is lost.
SendNoStatus ==
    /\ Alive /\ pc = "status"
    /\ pc' = "reap"
    /\ UNCHANGED <<cfg, todo, proc, status, told, Chans, Signalled, exit>>

\* statusChan <- status, which has room for one.
SendStatus ==
    /\ Alive /\ pc = "status" /\ statusChan = "empty"
    /\ statusChan' = status /\ pc' = "reap"
    /\ UNCHANGED <<cfg, todo, proc, status, told, wait, errChan, Signalled, exit>>

\* What is left to do with the result of cmd.Wait, given the status channel.
Ending(sc) ==
    IF cfg.instance THEN UNCHANGED exit
    ELSE exit' = CASE sc # "empty" -> sc
                   [] sc = "empty" /\ errChan = "nil" -> "zero"
                   [] OTHER -> "failed"

\* The result of cmd.Wait: an ExitError has the status; ECHILD says that the loop has
\* seen it; nil is a success.
LoopErr ==
    /\ Alive /\ pc = "loop" /\ errChan # "empty"
    /\ (errChan = "exit" => statusChan = "empty")
    /\ errChan' = "empty"
    /\ statusChan' = IF errChan = "exit" THEN status ELSE statusChan
    /\ Ending(statusChan')
    /\ UNCHANGED <<cfg, pc, todo, proc, status, told, wait, Signalled>>

Loop == LoopSignal \/ Reap \/ StopFuse \/ SendStatus \/ LoopErr

-----------------------------------------------------------------------------
(***************************************************************************)
(* The goroutine, the processes and the kernel.                            *)
(***************************************************************************)

\* cmd.Wait returns: it reaps the command, or the loop has done so already.
Wait ==
    /\ Alive /\ wait = "wait" /\ proc["cmd"] \in {"zombie", "reaped"}
    /\ wait' = "done"
    /\ errChan' = IF proc["cmd"] = "reaped" THEN "echild"
                  ELSE IF status = "zero" THEN "nil" ELSE "exit"
    /\ proc' = [proc EXCEPT !["cmd"] = "reaped"]
    /\ UNCHANGED <<cfg, pc, todo, status, told, statusChan, Signalled, exit>>

\* A process ends, by itself or of the signal it was sent: it is a zombie until it is
\* reaped, and the kernel sends SIGCHLD.
Ends(p) ==
    /\ Alive /\ proc[p] = "running"
    /\ proc' = [proc EXCEPT ![p] = "zombie"]
    /\ pend' = pend \cup {"CHLD"}
    /\ IF p = "cmd" THEN status' \in (IF p \in told THEN Statuses ELSE {"zero", "code"})
       ELSE UNCHANGED status
    /\ UNCHANGED <<cfg, pc, todo, told, Chans, signals, sent, dropped, exit>>

\* A descendant of the command loses its parent.
Orphaned(p) ==
    /\ Alive /\ p \in Orphans /\ proc[p] = "none" /\ proc["cmd"] # "none"
    /\ proc' = [proc EXCEPT ![p] = "running"]
    /\ UNCHANGED <<cfg, pc, todo, status, told, Chans, Signalled, exit>>

\* A signal of someone else, or of the runtime itself.
Send(s) ==
    /\ Alive /\ pc \notin {"fuse", "prepare"} /\ sent < MaxSignals
    /\ sent' = sent + 1 /\ pend' = pend \cup {s}
    /\ UNCHANGED <<cfg, pc, todo, proc, status, told, Chans, signals, dropped, exit>>

\* signal.Notify does not block: a signal that finds the channel full is lost.
Relay(s) ==
    /\ Alive /\ s \in pend
    /\ pend' = pend \ {s}
    /\ signals' = IF Len(signals) < Size THEN Append(signals, s) ELSE signals
    /\ dropped' = (dropped \/ (s = "CHLD" /\ Len(signals) = Size))
    /\ UNCHANGED <<cfg, pc, todo, proc, status, told, Chans, sent, exit>>

Next ==
    \/ RunFuse \/ Prepare \/ RunActionScript \/ ExecProcess \/ Spawn
    \/ Loop \/ Wait
    \/ \E p \in Procs : Ends(p) \/ Orphaned(p)
    \/ \E s \in {"TERM", "URG"} : Send(s)
    \/ \E s \in {"CHLD", "TERM", "URG"} : Relay(s)

Spec == Init /\ [][Next]_vars

\* The steps up to the start of the command, one after the other; and a process ends
\* once it has been told to.
Begins == RunFuse \/ Prepare \/ RunActionScript \/ ExecProcess \/ Spawn
EndsTold(p) == p \in told /\ Ends(p)

\* The goroutines run unless they block, the runtime relays what it recorded, and a
\* process that was sent SIGTERM ends.  Nothing obliges a command to end.
FairSpec ==
    /\ Spec
    /\ WF_vars(Begins)
    /\ WF_vars(LoopSignal) /\ WF_vars(Reap) /\ WF_vars(StopFuse) /\ WF_vars(SendStatus)
    /\ SF_vars(LoopErr) /\ WF_vars(Wait)
    /\ \A s \in {"CHLD", "TERM", "URG"} : WF_vars(Relay(s))
    /\ \A p \in Procs : WF_vars(EndsTold(p))

-----------------------------------------------------------------------------
(***************************************************************************)
(* Properties.                                                             *)
(***************************************************************************)

\* appinit ends like the command, whichever of the two reapers was first: "handle
\* possible race with Wait4 call above by ignoring ECHILD error because child process
\* was already caught" (process_linux.go:312-317), and it does not say "unknown error"
\* (line 329).  An instance ends only once a signal finds no process (lines 295-299).
EndsLikeCommand ==
    wait # "none" =>
        /\ exit \in Statuses => proc["cmd"] = "reaped" /\ exit = status /\ ~cfg.instance
        /\ exit # "failed"
        /\ (exit = "killed" /\ cfg.instance) => GroupGone

\* What appinit has to notice, and has noticed: the command's end (k = 1) and an
\* orphan's (k = 2).
Unnoticed(k) == \/ k = 1 /\ wait # "none" /\ proc["cmd"] \in {"zombie", "reaped"}
                \/ k = 2 /\ \E p \in Orphans : proc[p] = "zombie"
Noticed(k) == \/ ~Alive
              \/ k = 1 /\ cfg.instance
              \/ k = 2 /\ (dropped \/ \A p \in Orphans : proc[p] # "zombie")

\* The end of the command ends appinit, but for an instance, and there the processes
\* that end are all reaped, unless their SIGCHLD was lost in a full channel
\* (process_linux.go:73-77, 259-334).
EndIsNoticed == \A k \in 1..2 : Unnoticed(k) ~> Noticed(k)

=============================================================================
