-------------------------- MODULE OciEngineProofs ---------------------------
(***************************************************************************)
(* Proofs about OciEngine, for any number of commands that start, kill,    *)
(* pause and resume the container of one master, at any time, whether or   *)
(* not its creation fails and kills time out; and for deletes.             *)
(***************************************************************************)
EXTENDS OciEngine, TLAPS

\* The statuses a container has once "oci create" has made it, and once it was
\* started.
Made == {"created", "running", "paused", "stopped"}
Begun == {"running", "paused", "stopped"}

\* Until createState has written the file nothing else has happened.
FreshInv(e, f, s) ==
    /\ e.main = "idle" => e.create = "add"
    /\ e.create = "add" => e.mem = "none" /\ e.lock = "free"
    /\ e.create = "write" => e.mem = "creating" /\ e.lock = "create"
    /\ e.create \in {"add", "write"} =>
          /\ f = Absent /\ s = None
          /\ e.start = "read" /\ e.main \in {"idle", "wait"} /\ e.fatal = <<>>
          /\ e.exit = "none"
    /\ e.create \notin {"add", "write"} => e.lock # "create" /\ e.mem # "none"
    /\ e.create # "done" => e.proc = "init" \/ e.main = "exited"

\* The file of a container whose creation did not fail is the master's, and shows
\* what the master has in memory, or had when it took the lock.
Shown(e) == IF e.lock = "free" THEN e.mem ELSE e.old
Deleted(e) == e.mem = "creating" /\ e.main \in {"exit", "exited"}

FileInv(e, f, m) ==
    e.create \notin {"add", "write"} =>
        IF Deleted(e) THEN f = Absent ELSE f.owner = m /\ f.status = Shown(e)

\* Who holds the lock, and what it is changing.
LockInv(e) ==
    /\ e.lock = "start" =>
          \/ e.start = "created" /\ e.old = "creating" /\ e.mem = "created"
          \/ e.start = "post" /\ e.old = "created" /\ e.mem = "running"
    /\ e.lock = "control" =>
          /\ e.old \in {"running", "paused"}
          /\ \/ e.control = "paused" /\ e.mem = "paused"
             \/ e.control = "resume" /\ e.mem = "running"
    /\ e.lock = "main" =>
          e.main = "stop" /\ e.mem = "stopped" /\ e.old \in {"created", "running", "paused"}

\* The start goroutine: the status in memory is as far as it has come.
StartInv(e) ==
    /\ e.start \in {"read", "sockets", "created"} =>
          /\ e.lock # "start" => e.mem \in {"none", "creating"}
          /\ e.control = "none" /\ e.statusChan = "empty" /\ e.signal = "none"
          /\ ~e.started
    /\ e.start \in {"sockets", "created"} =>
          e.proc = "ready" /\ e.main = "wait" /\ e.fatal = <<>>
    /\ e.start = "read" /\ (e.main \notin {"idle", "wait"} \/ e.fatal # <<>>) =>
          e.proc \in {"failed", "dead"} \/ e.create = "failed"
    /\ e.start \in {"hooks", "await", "exec", "post"} /\ e.lock # "start" =>
          e.mem \in {"created", "stopped"}
    /\ e.start # "read" => e.create = "done"
    /\ e.mem = "creating" => e.control = "none" /\ e.signal = "none"

\* The main goroutine: what the cleanup has decided and done.
MainInv(e, f) ==
    /\ e.main = "delete" => e.mem = "creating" /\ e.lock = "free"
    /\ e.main = "stop" => e.mem \notin {"none", "creating"}
    /\ e.main = "sockets" => e.mem = "stopped"
    /\ e.main \in {"exit", "exited"} => e.mem \in {"creating", "stopped"}
    /\ e.mem = "stopped" => e.main \in {"stop", "sockets", "exit", "exited"}
    /\ e.mem = "stopped" /\ e.main = "stop" => e.lock = "main"
    /\ e.main \in {"stop", "sockets"} \/ e.mem = "stopped" =>
          e.exit \in {"process", "fatal"}
    /\ e.exit = "process" => e.proc \in {"failed", "dead"}
    /\ f.status = "stopped" => f.exit = e.exit
    /\ e.fatal = <<"nil">> => e.proc \in {"failed", "dead"}
    /\ e.main \notin {"idle", "wait"} /\ ~e.fatalErr => e.proc \in {"failed", "dead"}

\* The freezer, and the channel that a start waits for.
ControlInv(e, f) ==
    /\ f.status = "paused" \/ e.control = "paused" => e.frozen \/ e.main # "wait"
    /\ e.control = "thaw" => f.status # "paused" \/ e.main # "wait"
    /\ e.started => e.statusChan = "nil" \/ e.control \in {"wait", "done"}
    /\ e.statusChan # "empty" => f.status \in Begun

\* A command that found the container; one that has a connection.
ClientInv(q, f, m) ==
    /\ q.pc \in {"dial", "signal", "wait", "check"} => q.view.owner = m /\ f.status \in Made
    /\ q.pc \notin {"reread", "remove"}
    /\ q.pc \in {"dial", "wait"} => q.op \in {"start", "pause", "resume", "killwait"}
    /\ q.pc = "signal" => q.op \in {"kill", "killwait"}
    /\ q.pc = "check" => q.op \in {"pause", "resume"}
    /\ q.pc = "dial" \/ q.conn # "none" =>
          /\ f.status \in Made
          /\ q.op \in {"start", "pause", "resume", "killwait"}
          /\ q.op \in {"pause", "resume"} => f.status \in Begun
    /\ q.pc \in {"idle", "dial"} => q.conn = "none"
    /\ q.pc = "wait" \/ (q.pc = "signal" /\ q.op # "kill") => q.conn # "none"
    /\ q.pc # "done" => q.result = "none"
    /\ q.op = "start" /\ (q.conn = "eof" \/ q.result = "ok") => f.status \in Begun

\* The connections of the master, and the one that it serves.
QueueInv(e, cl) ==
    /\ \A i \in DOMAIN e.backlog : cl[e.backlog[i]].conn # "none"
    /\ e.main # "exited" /\ e.control \notin {"none", "accept"} =>
          e.cur \in Clients /\ cl[e.cur].conn # "none"
    /\ e.main # "exited" =>
          /\ e.control \in {"start", "wait"} => cl[e.cur].op = "start"
          /\ e.control \in {"pause", "paused"} => cl[e.cur].op = "pause"
          /\ e.control \in {"resume", "thaw"} => cl[e.cur].op = "resume"
          /\ e.control = "close" /\ cl[e.cur].op = "start" => e.statusChan = "nil"
    /\ e.cur # None => cl[e.cur].conn # "none"

EngineInv(e, f, s, m) ==
    /\ FreshInv(e, f, s) /\ FileInv(e, f, m) /\ LockInv(e)
    /\ StartInv(e) /\ MainInv(e, f) /\ ControlInv(e, f)

\* The commands that have a connection keep it, and go on with what they asked.
StayConnected(cl, cl2) ==
    \A d \in Clients : cl[d].conn # "none" => cl2[d].conn # "none" /\ cl2[d].op = cl[d].op

\* A master as it should be.
Good(e, f, s, m, cl) == e \in Engines /\ EngineInv(e, f, s, m) /\ QueueInv(e, cl)

Inv(m) ==
    /\ TypeOK
    /\ EngineInv(eng[m], file, sock, m)
    /\ \A c \in Clients : ClientInv(cli[c], file, m)
    /\ QueueInv(eng[m], cli)

-----------------------------------------------------------------------------
\* What a step shows: the invariant again, and a step of the lifecycle.
Keeps(m) == Inv(m)' /\ (Abstract!Next \/ UNCHANGED file.status)

\* What updateState writes on file, and leaves in the status channel.
OnFile(e, m) == [owner |-> m, status |-> e.mem, exit |-> e.exit]
Channel(e) == IF Signals(e) THEN "full" ELSE e.statusChan

LEMMA Facts ==
    ASSUME NEW m, Masters = {m}, Inv(m)
    PROVE  /\ m \in Masters /\ file \in Files /\ eng[m] \in Engines /\ sock \in {m, None}
           /\ EngineInv(eng[m], file, sock, m) /\ QueueInv(eng[m], cli)
           /\ m # None
BY OciAssumption DEF Inv, TypeOK

\* A step of the master alone: no command is touched, and a container that was
\* made or begun stays so.
LEMMA MasterStep ==
    ASSUME NEW m, Masters = {m}, Inv(m), NEW e2, Good(e2, file', sock', m, cli),
           eng' = [eng EXCEPT ![m] = e2], cli' = cli, file' \in Files, sock' \in {m, None},
           file.status \in Made => file'.status \in Made,
           file.status \in Begun => file'.status \in Begun,
           Abstract!Next \/ UNCHANGED file.status
    PROVE  Keeps(m)
<1>1. eng'[m] = e2 /\ eng' \in [Masters -> Engines]
    BY DEF Inv, TypeOK, Good
<1>2. TypeOK'
    BY <1>1 DEF Inv, TypeOK
<1>3. EngineInv(eng'[m], file', sock', m)
    BY <1>1 DEF Good
<1>4. ASSUME NEW c \in Clients PROVE ClientInv(cli'[c], file', m)
  <2>1. ClientInv(cli[c], file, m)
    BY DEF Inv
  <2> QED
    BY <2>1 DEF ClientInv
<1>5. QueueInv(eng'[m], cli')
    BY <1>1 DEF Good
<1> QED
    BY <1>2, <1>3, <1>4, <1>5 DEF Keeps, Inv

\* A step that leaves the file and the socket alone.
LEMMA QuietStep ==
    ASSUME NEW m, Masters = {m}, Inv(m), NEW e2, Good(e2, file, sock, m, cli),
           eng' = [eng EXCEPT ![m] = e2], UNCHANGED <<file, sock, cli>>
    PROVE  Keeps(m)
<1>1. file' \in Files /\ sock' \in {m, None} /\ cli' = cli
    BY Facts
<1>2. Good(e2, file', sock', m, cli)
    OBVIOUS
<1> QED
    BY Zenon, <1>1, <1>2, MasterStep

\* The second half of updateState: the file shows the status before, and then the
\* new one.
LEMMA WriteStep ==
    ASSUME NEW m, Masters = {m}, Inv(m), eng[m].lock \in {"start", "control", "main"},
           NEW e2, Good(e2, OnFile(eng[m], m), sock, m, cli),
           eng' = [eng EXCEPT ![m] = e2], file' = OnFile(eng[m], m), UNCHANGED <<sock, cli>>
    PROVE  Keeps(m)
<1>1. PICK e \in Engines : e = eng[m]
    BY Facts
<1>2. EngineInv(e, file, sock, m)
    BY <1>1, Facts
<1>3. <<e.old, e.mem>> \in {<<"creating", "created">>, <<"created", "running">>,
         <<"running", "paused">>, <<"paused", "paused">>, <<"running", "running">>,
         <<"paused", "running">>, <<"created", "stopped">>, <<"running", "stopped">>,
         <<"paused", "stopped">>}
    BY <1>1, <1>2 DEF EngineInv, LockInv
<1>4. file.status = e.old
    BY <1>1, <1>2, <1>3 DEF EngineInv, FreshInv, FileInv, Deleted, Shown
<1>5. file'.status = e.mem
    BY <1>1 DEF OnFile
<1>6. Abstract!Next \/ UNCHANGED file.status
    BY <1>3, <1>4, <1>5
    DEF Abstract!Next, Abstract!Created, Abstract!Start, Abstract!Pause, Abstract!Resume,
        Abstract!Stop
<1>7. /\ file.status \in Made => file'.status \in Made
      /\ file.status \in Begun => file'.status \in Begun
    BY <1>3, <1>4, <1>5 DEF Made, Begun
<1>8. file' \in Files /\ sock' \in {m, None} /\ cli' = cli
    BY Facts DEF OnFile, Files, Engines
<1>9. Good(e2, file', sock', m, cli)
    OBVIOUS
<1> QED
    BY Zenon, <1>6, <1>7, <1>8, <1>9, MasterStep

\* A field of a master may be given any value of its type.
LEMMA FieldTypes ==
    ASSUME NEW e \in Engines
    PROVE  /\ e.mem \in Statuses
           /\ \A x \in {"add", "write", "setup", "done", "failed"} :
                [e EXCEPT !.create = x] \in Engines
           /\ \A x \in {"read", "sockets", "created", "hooks", "await", "exec", "post", "done"} :
                [e EXCEPT !.start = x] \in Engines
           /\ \A x \in {"none", "accept", "decode", "start", "wait", "pause", "paused",
                     "resume", "thaw", "close", "done"} :
                [e EXCEPT !.control = x] \in Engines
           /\ \A x \in {"wait", "done"} : [e EXCEPT !.monitor = x] \in Engines
           /\ \A x \in {"idle", "wait", "clean", "delete", "stop", "sockets", "exit", "exited"} :
                [e EXCEPT !.main = x] \in Engines
           /\ \A x \in Statuses : [e EXCEPT !.mem = x] \in Engines
           /\ \A x \in {"none", "process", "fatal"} : [e EXCEPT !.exit = x] \in Engines
           /\ \A x \in BOOLEAN : [e EXCEPT !.fatalErr = x] \in Engines
           /\ \A x \in {"init", "ready", "go", "running", "failed", "dead"} :
                [e EXCEPT !.proc = x] \in Engines
           /\ \A x \in {"none", "term", "kill"} : [e EXCEPT !.signal = x] \in Engines
           /\ \A x \in BOOLEAN : [e EXCEPT !.frozen = x] \in Engines
           /\ \A x \in {"free", "create", "start", "control", "main"} :
                [e EXCEPT !.lock = x] \in Engines
           /\ \A x \in Statuses : [e EXCEPT !.old = x] \in Engines
           /\ \A x \in {"empty", "full", "nil"} : [e EXCEPT !.statusChan = x] \in Engines
           /\ \A x \in BOOLEAN : [e EXCEPT !.started = x] \in Engines
           /\ \A x \in BOOLEAN : [e EXCEPT !.startChan = x] \in Engines
           /\ \A x \in BOOLEAN : [e EXCEPT !.sockets = x] \in Engines
           /\ \A x \in {<<>>, <<"nil">>, <<"err">>} : [e EXCEPT !.fatal = x] \in Engines
           /\ \A x \in Seq(Clients) : [e EXCEPT !.backlog = x] \in Engines
           /\ \A x \in Clients \cup {None} : [e EXCEPT !.cur = x] \in Engines
<1>0. e.mem \in Statuses
    BY DEF Engines
<1>1. \A x \in {"add", "write", "setup", "done", "failed"} :
       [e EXCEPT !.create = x] \in Engines
    BY DEF Engines
<1>2. \A x \in {"read", "sockets", "created", "hooks", "await", "exec", "post", "done"} :
       [e EXCEPT !.start = x] \in Engines
    BY DEF Engines
<1>3. \A x \in {"none", "accept", "decode", "start", "wait", "pause", "paused",
                 "resume", "thaw", "close", "done"} :
       [e EXCEPT !.control = x] \in Engines
    BY DEF Engines
<1>4. \A x \in {"wait", "done"} : [e EXCEPT !.monitor = x] \in Engines
    BY DEF Engines
<1>5. \A x \in {"idle", "wait", "clean", "delete", "stop", "sockets", "exit", "exited"} :
       [e EXCEPT !.main = x] \in Engines
    BY DEF Engines
<1>6. \A x \in Statuses : [e EXCEPT !.mem = x] \in Engines
    BY DEF Engines
<1>7. \A x \in {"none", "process", "fatal"} : [e EXCEPT !.exit = x] \in Engines
    BY DEF Engines
<1>8. \A x \in BOOLEAN : [e EXCEPT !.fatalErr = x] \in Engines
    BY DEF Engines
<1>9. \A x \in {"init", "ready", "go", "running", "failed", "dead"} :
       [e EXCEPT !.proc = x] \in Engines
    BY DEF Engines
<1>10. \A x \in {"none", "term", "kill"} : [e EXCEPT !.signal = x] \in Engines
    BY DEF Engines
<1>11. \A x \in BOOLEAN : [e EXCEPT !.frozen = x] \in Engines
    BY DEF Engines
<1>12. \A x \in {"free", "create", "start", "control", "main"} :
       [e EXCEPT !.lock = x] \in Engines
    BY DEF Engines
<1>13. \A x \in Statuses : [e EXCEPT !.old = x] \in Engines
    BY DEF Engines
<1>14. \A x \in {"empty", "full", "nil"} : [e EXCEPT !.statusChan = x] \in Engines
    BY DEF Engines
<1>15. \A x \in BOOLEAN : [e EXCEPT !.started = x] \in Engines
    BY DEF Engines
<1>16. \A x \in BOOLEAN : [e EXCEPT !.startChan = x] \in Engines
    BY DEF Engines
<1>17. \A x \in BOOLEAN : [e EXCEPT !.sockets = x] \in Engines
    BY DEF Engines
<1>18. \A x \in {<<>>, <<"nil">>, <<"err">>} : [e EXCEPT !.fatal = x] \in Engines
    BY DEF Engines
<1>19. \A x \in Seq(Clients) : [e EXCEPT !.backlog = x] \in Engines
    BY DEF Engines
<1>20. \A x \in Clients \cup {None} : [e EXCEPT !.cur = x] \in Engines
    BY DEF Engines
<1> QED
    BY Zenon, <1>0, <1>1, <1>2, <1>3, <1>4, <1>5, <1>6, <1>7, <1>8, <1>9, <1>10, <1>11,
       <1>12, <1>13, <1>14, <1>15, <1>16, <1>17, <1>18, <1>19, <1>20

LEMMA SendTyped ==
    ASSUME NEW e \in Engines
    PROVE  \A v \in {"nil", "err"} : Send(e, v) \in {<<>>, <<"nil">>, <<"err">>}
BY DEF Engines, Send

LEMMA ChannelTyped ==
    ASSUME NEW e \in Engines
    PROVE  Channel(e) \in {"empty", "full", "nil"}
BY DEF Engines, Channel

-----------------------------------------------------------------------------
(***************************************************************************)
(* What each step makes of a master: e before it, e2 after it, with f the  *)
(* state file, s the socket and cl the commands.                           *)
(***************************************************************************)

\* OciCreate: the starter is run for an ID that is free.
LEMMA CreateRuns ==
    ASSUME NEW m \in Masters, NEW f \in Files, NEW s, NEW cl, NEW e \in Engines,
           EngineInv(e, f, s, m), QueueInv(e, cl),
           e.main = "idle",
           NEW e2, e2 = [e EXCEPT !.main = "wait"]
    PROVE  Good(e2, f, s, m, cl)
<1>1. e2 \in Engines
    BY Zenon, FieldTypes
<1>2. EngineInv(e2, f, s, m)
    BY DEF Engines, EngineInv, FreshInv, FileInv, Shown, Deleted, LockInv, StartInv,
        MainInv, ControlInv, Begun, Made, Absent
<1>3. QueueInv(e2, cl)
    BY DEF Engines, QueueInv
<1> QED
    BY <1>1, <1>2, <1>3 DEF Good

\* CreateAdd: the status is set, with the lock.
LEMMA CreateAdds ==
    ASSUME NEW m \in Masters, NEW f \in Files, NEW s, NEW cl, NEW e \in Engines,
           EngineInv(e, f, s, m), QueueInv(e, cl),
           e.main \notin {"idle", "exited"}, e.create = "add",
           NEW e2, e2 = [e EXCEPT !.create = "write", !.mem = "creating", !.lock = "create"]
    PROVE  Good(e2, f, s, m, cl)
<1>1. e2 \in Engines
    BY Zenon, FieldTypes DEF Statuses
<1>2. EngineInv(e2, f, s, m)
    BY DEF Engines, EngineInv, FreshInv, FileInv, Shown, Deleted, LockInv, StartInv,
        MainInv, ControlInv, Begun, Made
<1>3. QueueInv(e2, cl)
    BY DEF Engines, QueueInv
<1> QED
    BY <1>1, <1>2, <1>3 DEF Good

\* CreateWrite: the file is written.
LEMMA CreateWrites ==
    ASSUME NEW m \in Masters, NEW f \in Files, NEW s, NEW cl, NEW e \in Engines,
           EngineInv(e, f, s, m), QueueInv(e, cl),
           e.main \notin {"idle", "exited"}, e.create = "write", NEW f2,
           f2 = [owner |-> m, status |-> "creating", exit |-> "none"],
           NEW e2, e2 = [e EXCEPT !.create = "setup", !.lock = "free"]
    PROVE  Good(e2, f2, s, m, cl)
<1>1. e2 \in Engines
    BY Zenon, FieldTypes
<1>2. EngineInv(e2, f2, s, m)
    BY DEF Engines, EngineInv, FreshInv, FileInv, Shown, Deleted, LockInv, StartInv,
        MainInv, ControlInv, Begun, Made
<1>3. QueueInv(e2, cl)
    BY DEF Engines, QueueInv
<1> QED
    BY <1>1, <1>2, <1>3 DEF Good

\* CreateSetup: the container is set up.
LEMMA SetupEnds ==
    ASSUME NEW m \in Masters, NEW f \in Files, NEW s, NEW cl, NEW e \in Engines,
           EngineInv(e, f, s, m), QueueInv(e, cl),
           e.main \notin {"idle", "exited"}, e.create = "setup",
           NEW e2, e2 = [e EXCEPT !.create = "done"]
    PROVE  Good(e2, f, s, m, cl)
<1>1. e2 \in Engines
    BY Zenon, FieldTypes
<1>2. EngineInv(e2, f, s, m)
    BY DEF Engines, EngineInv, FreshInv, FileInv, Shown, Deleted, LockInv, StartInv,
        MainInv, ControlInv, Begun, Made
<1>3. QueueInv(e2, cl)
    BY DEF Engines, QueueInv
<1> QED
    BY <1>1, <1>2, <1>3 DEF Good

\* CreateSetup fails.
LEMMA SetupFails ==
    ASSUME NEW m \in Masters, NEW f \in Files, NEW s, NEW cl, NEW e \in Engines,
           EngineInv(e, f, s, m), QueueInv(e, cl),
           e.main \notin {"idle", "exited"}, e.create = "setup",
           NEW e2, e2 = [e EXCEPT !.create = "failed", !.fatal = Send(e, "err")]
    PROVE  Good(e2, f, s, m, cl)
<1>1. e2 \in Engines
    BY Zenon, SendTyped, FieldTypes
<1>2. EngineInv(e2, f, s, m)
    BY DEF Engines, EngineInv, FreshInv, FileInv, Shown, Deleted, LockInv, StartInv,
        MainInv, ControlInv, Begun, Made, Send
<1>3. QueueInv(e2, cl)
    BY DEF Engines, QueueInv
<1> QED
    BY <1>1, <1>2, <1>3 DEF Good

\* ProcSteps: the container process is ready to start.
LEMMA ProcIsReady ==
    ASSUME NEW m \in Masters, NEW f \in Files, NEW s, NEW cl, NEW e \in Engines,
           EngineInv(e, f, s, m), QueueInv(e, cl),
           e.main \notin {"idle", "exited"}, e.create = "done", e.proc = "init",
           NEW e2, e2 = [e EXCEPT !.proc = "ready"]
    PROVE  Good(e2, f, s, m, cl)
<1>1. e2 \in Engines
    BY Zenon, FieldTypes
<1>2. EngineInv(e2, f, s, m)
    BY DEF Engines, EngineInv, FreshInv, FileInv, Shown, Deleted, LockInv, StartInv,
        MainInv, ControlInv, Begun, Made
<1>3. QueueInv(e2, cl)
    BY DEF Engines, QueueInv
<1> QED
    BY <1>1, <1>2, <1>3 DEF Good

\* ProcSteps: the container process executes its program.
LEMMA ProcRuns ==
    ASSUME NEW m \in Masters, NEW f \in Files, NEW s, NEW cl, NEW e \in Engines,
           EngineInv(e, f, s, m), QueueInv(e, cl),
           e.main \notin {"idle", "exited"}, e.proc = "go",
           NEW e2, e2 = [e EXCEPT !.proc = "running"]
    PROVE  Good(e2, f, s, m, cl)
<1>1. e2 \in Engines
    BY Zenon, FieldTypes
<1>2. EngineInv(e2, f, s, m)
    BY DEF Engines, EngineInv, FreshInv, FileInv, Shown, Deleted, LockInv, StartInv,
        MainInv, ControlInv, Begun, Made
<1>3. QueueInv(e2, cl)
    BY DEF Engines, QueueInv
<1> QED
    BY <1>1, <1>2, <1>3 DEF Good

\* ProcFails: the container process fails.
LEMMA ProcFailed ==
    ASSUME NEW m \in Masters, NEW f \in Files, NEW s, NEW cl, NEW e \in Engines,
           EngineInv(e, f, s, m), QueueInv(e, cl),
           e.main \notin {"idle", "exited"},
           e.proc = "go" \/ (e.proc = "init" /\ e.create = "done"),
           NEW e2, e2 = [e EXCEPT !.proc = "failed"]
    PROVE  Good(e2, f, s, m, cl)
<1>1. e2 \in Engines
    BY Zenon, FieldTypes
<1>2. EngineInv(e2, f, s, m)
    BY DEF Engines, EngineInv, FreshInv, FileInv, Shown, Deleted, LockInv, StartInv,
        MainInv, ControlInv, Begun, Made
<1>3. QueueInv(e2, cl)
    BY DEF Engines, QueueInv
<1> QED
    BY <1>1, <1>2, <1>3 DEF Good

\* ProcEnds: the container process ends.
LEMMA ProcEnded ==
    ASSUME NEW m \in Masters, NEW f \in Files, NEW s, NEW cl, NEW e \in Engines,
           EngineInv(e, f, s, m), QueueInv(e, cl),
           e.main \notin {"idle", "exited"}, e.proc = "running" \/ e.signal # "none",
           NEW e2, e2 = [e EXCEPT !.proc = "dead"]
    PROVE  Good(e2, f, s, m, cl)
<1>1. e2 \in Engines
    BY Zenon, FieldTypes
<1>2. EngineInv(e2, f, s, m)
    BY DEF Engines, EngineInv, FreshInv, FileInv, Shown, Deleted, LockInv, StartInv,
        MainInv, ControlInv, Begun, Made
<1>3. QueueInv(e2, cl)
    BY DEF Engines, QueueInv
<1> QED
    BY <1>1, <1>2, <1>3 DEF Good

\* StartRead: the container process is ready.
LEMMA StartIsReady ==
    ASSUME NEW m \in Masters, NEW f \in Files, NEW s, NEW cl, NEW e \in Engines,
           EngineInv(e, f, s, m), QueueInv(e, cl),
           e.main \notin {"idle", "exited"}, e.start = "read", e.proc = "ready",
           NEW e2, e2 = [e EXCEPT !.start = "sockets"]
    PROVE  Good(e2, f, s, m, cl)
<1>1. e2 \in Engines
    BY Zenon, FieldTypes
<1>2. EngineInv(e2, f, s, m)
    BY DEF Engines, EngineInv, FreshInv, FileInv, Shown, Deleted, LockInv, StartInv,
        MainInv, ControlInv, Begun, Made
<1>3. QueueInv(e2, cl)
    BY DEF Engines, QueueInv
<1> QED
    BY <1>1, <1>2, <1>3 DEF Good

\* StartRead: the container process has ended before its start.
LEMMA StartIsOver ==
    ASSUME NEW m \in Masters, NEW f \in Files, NEW s, NEW cl, NEW e \in Engines,
           EngineInv(e, f, s, m), QueueInv(e, cl),
           e.main \notin {"idle", "exited"}, e.start = "read",
           e.proc \in {"failed", "dead"},
           NEW e2, e2 = [e EXCEPT !.start = "done"]
    PROVE  Good(e2, f, s, m, cl)
<1>1. e2 \in Engines
    BY Zenon, FieldTypes
<1>2. EngineInv(e2, f, s, m)
    BY DEF Engines, EngineInv, FreshInv, FileInv, Shown, Deleted, LockInv, StartInv,
        MainInv, ControlInv, Begun, Made
<1>3. QueueInv(e2, cl)
    BY DEF Engines, QueueInv
<1> QED
    BY <1>1, <1>2, <1>3 DEF Good

\* PreStartProcess: a socket is in the way.
LEMMA SocketsFail ==
    ASSUME NEW m \in Masters, NEW f \in Files, NEW s, NEW cl, NEW e \in Engines,
           EngineInv(e, f, s, m), QueueInv(e, cl),
           e.main \notin {"idle", "exited"}, e.start = "sockets", NEW b \in BOOLEAN,
           NEW e2, e2 = [e EXCEPT !.start = "done", !.fatal = Send(e, "err"), !.sockets = b]
    PROVE  Good(e2, f, s, m, cl)
<1>1. e2 \in Engines
    BY Zenon, SendTyped, FieldTypes
<1>2. EngineInv(e2, f, s, m)
    BY DEF Engines, EngineInv, FreshInv, FileInv, Shown, Deleted, LockInv, StartInv,
        MainInv, ControlInv, Begun, Made, Send
<1>3. QueueInv(e2, cl)
    BY DEF Engines, QueueInv
<1> QED
    BY <1>1, <1>2, <1>3 DEF Good

\* PreStartProcess: the sockets are created.
LEMMA SocketsMade ==
    ASSUME NEW m \in Masters, NEW f \in Files, NEW s, NEW cl, NEW e \in Engines,
           EngineInv(e, f, s, m), QueueInv(e, cl),
           e.main \notin {"idle", "exited"}, e.start = "sockets",
           NEW e2, e2 = [e EXCEPT !.start = "created", !.sockets = TRUE]
    PROVE  Good(e2, f, m, m, cl)
<1>1. e2 \in Engines
    BY Zenon, FieldTypes
<1>2. EngineInv(e2, f, m, m)
    BY DEF Engines, EngineInv, FreshInv, FileInv, Shown, Deleted, LockInv, StartInv,
        MainInv, ControlInv, Begun, Made
<1>3. QueueInv(e2, cl)
    BY DEF Engines, QueueInv
<1> QED
    BY <1>1, <1>2, <1>3 DEF Good

\* StartCreated: the new status is in memory.
LEMMA StartTakesCreated ==
    ASSUME NEW m \in Masters, NEW f \in Files, NEW s, NEW cl, NEW e \in Engines,
           EngineInv(e, f, s, m), QueueInv(e, cl),
           e.main \notin {"idle", "exited"}, e.start = "created", e.lock = "free",
           NEW e2, e2 = [e EXCEPT !.lock = "start", !.old = e.mem, !.mem = "created"]
    PROVE  Good(e2, f, s, m, cl)
<1>1. e.mem = "creating" /\ e.create = "done" /\ e.main = "wait"
    BY DEF EngineInv, StartInv, FreshInv
<1>2. e2 \in Engines
    BY Zenon, FieldTypes DEF Statuses
<1>3. EngineInv(e2, f, s, m)
    BY <1>1 DEF Engines, EngineInv, FreshInv, FileInv, Shown, Deleted, LockInv,
        StartInv, MainInv, ControlInv, Begun, Made
<1>4. QueueInv(e2, cl)
    BY <1>1 DEF Engines, QueueInv
<1> QED
    BY <1>2, <1>3, <1>4 DEF Good

\* StartCreated: the new status is on file.
LEMMA StartWritesCreated ==
    ASSUME NEW m \in Masters, NEW f \in Files, NEW s, NEW cl, NEW e \in Engines,
           EngineInv(e, f, s, m), QueueInv(e, cl),
           e.main \notin {"idle", "exited"}, e.start = "created", e.lock = "start",
           NEW f2, f2 = OnFile(e, m),
           NEW e2, e2 = [[e EXCEPT !.start = "hooks", !.control = "accept"]
                              EXCEPT !.lock = "free", !.statusChan = Channel(e)]
    PROVE  Good(e2, f2, s, m, cl)
<1>1. e.mem = "created" /\ e.old = "creating" /\ e.create = "done" /\ e.main = "wait"
    BY DEF EngineInv, LockInv, StartInv
<1>2. Channel(e) = "empty" /\ ~e.started
    BY <1>1 DEF EngineInv, StartInv, Signals, Channel
<1>3. f2 \in Files /\ f2.owner = m /\ f2.status = e.mem /\ f2.exit = e.exit
    BY DEF OnFile, Files, Engines
<1>4. e2 \in Engines
    BY Zenon, ChannelTyped, FieldTypes
<1>5. EngineInv(e2, f2, s, m)
    BY <1>1, <1>2, <1>3 DEF Engines, EngineInv, FreshInv, FileInv, Shown, Deleted,
        LockInv, StartInv, MainInv, ControlInv, Begun, Made
<1>6. QueueInv(e2, cl)
    BY <1>1, <1>2, <1>3 DEF Engines, QueueInv
<1> QED
    BY <1>4, <1>5, <1>6 DEF Good

\* StartHooks: the hooks have run.
LEMMA HooksEnd ==
    ASSUME NEW m \in Masters, NEW f \in Files, NEW s, NEW cl, NEW e \in Engines,
           EngineInv(e, f, s, m), QueueInv(e, cl),
           e.main \notin {"idle", "exited"}, e.start = "hooks",
           NEW e2, e2 = [e EXCEPT !.start = "await"]
    PROVE  Good(e2, f, s, m, cl)
<1>1. e2 \in Engines
    BY Zenon, FieldTypes
<1>2. EngineInv(e2, f, s, m)
    BY DEF Engines, EngineInv, FreshInv, FileInv, Shown, Deleted, LockInv, StartInv,
        MainInv, ControlInv, Begun, Made
<1>3. QueueInv(e2, cl)
    BY DEF Engines, QueueInv
<1> QED
    BY <1>1, <1>2, <1>3 DEF Good

\* StartHooks: a hook fails.
LEMMA HooksFail ==
    ASSUME NEW m \in Masters, NEW f \in Files, NEW s, NEW cl, NEW e \in Engines,
           EngineInv(e, f, s, m), QueueInv(e, cl),
           e.main \notin {"idle", "exited"}, e.start = "hooks",
           NEW e2, e2 = [e EXCEPT !.start = "done", !.fatal = Send(e, "err")]
    PROVE  Good(e2, f, s, m, cl)
<1>1. e2 \in Engines
    BY Zenon, SendTyped, FieldTypes
<1>2. EngineInv(e2, f, s, m)
    BY DEF Engines, EngineInv, FreshInv, FileInv, Shown, Deleted, LockInv, StartInv,
        MainInv, ControlInv, Begun, Made, Send
<1>3. QueueInv(e2, cl)
    BY DEF Engines, QueueInv
<1> QED
    BY <1>1, <1>2, <1>3 DEF Good

\* StartAwait: the start event.
LEMMA StartAwaits ==
    ASSUME NEW m \in Masters, NEW f \in Files, NEW s, NEW cl, NEW e \in Engines,
           EngineInv(e, f, s, m), QueueInv(e, cl),
           e.main \notin {"idle", "exited"}, e.start = "await",
           NEW e2, e2 = [e EXCEPT !.start = "exec", !.startChan = FALSE]
    PROVE  Good(e2, f, s, m, cl)
<1>1. e2 \in Engines
    BY Zenon, FieldTypes
<1>2. EngineInv(e2, f, s, m)
    BY DEF Engines, EngineInv, FreshInv, FileInv, Shown, Deleted, LockInv, StartInv,
        MainInv, ControlInv, Begun, Made
<1>3. QueueInv(e2, cl)
    BY DEF Engines, QueueInv
<1> QED
    BY <1>1, <1>2, <1>3 DEF Good

\* StartExec: the process is executed, or has ended.
LEMMA StartExecs ==
    ASSUME NEW m \in Masters, NEW f \in Files, NEW s, NEW cl, NEW e \in Engines,
           EngineInv(e, f, s, m), QueueInv(e, cl),
           e.main \notin {"idle", "exited"}, e.start = "exec",
           NEW p \in {"done", "post"},
           NEW e2, e2 = [e EXCEPT !.start = p]
    PROVE  Good(e2, f, s, m, cl)
<1>1. e2 \in Engines
    BY Zenon, FieldTypes
<1>2. EngineInv(e2, f, s, m)
    BY DEF Engines, EngineInv, FreshInv, FileInv, Shown, Deleted, LockInv, StartInv,
        MainInv, ControlInv, Begun, Made
<1>3. QueueInv(e2, cl)
    BY DEF Engines, QueueInv
<1> QED
    BY <1>1, <1>2, <1>3 DEF Good

\* PostStartProcess: the container is stopped already.
LEMMA PostIsStopped ==
    ASSUME NEW m \in Masters, NEW f \in Files, NEW s, NEW cl, NEW e \in Engines,
           EngineInv(e, f, s, m), QueueInv(e, cl),
           e.main \notin {"idle", "exited"}, e.start = "post", e.mem = "stopped",
           e.lock = "free",
           NEW e2, e2 = [e EXCEPT !.start = "done"]
    PROVE  Good(e2, f, s, m, cl)
<1>1. e2 \in Engines
    BY Zenon, FieldTypes
<1>2. EngineInv(e2, f, s, m)
    BY DEF Engines, EngineInv, FreshInv, FileInv, Shown, Deleted, LockInv, StartInv,
        MainInv, ControlInv, Begun, Made
<1>3. QueueInv(e2, cl)
    BY DEF Engines, QueueInv
<1> QED
    BY <1>1, <1>2, <1>3 DEF Good

\* PostStartProcess: the new status is in memory.
LEMMA PostTakesRunning ==
    ASSUME NEW m \in Masters, NEW f \in Files, NEW s, NEW cl, NEW e \in Engines,
           EngineInv(e, f, s, m), QueueInv(e, cl),
           e.main \notin {"idle", "exited"}, e.start = "post", e.lock = "free",
           e.mem # "stopped",
           NEW e2, e2 = [e EXCEPT !.lock = "start", !.old = e.mem, !.mem = "running"]
    PROVE  Good(e2, f, s, m, cl)
<1>1. e2 \in Engines
    BY Zenon, FieldTypes DEF Statuses
<1>2. EngineInv(e2, f, s, m)
    BY DEF Engines, EngineInv, FreshInv, FileInv, Shown, Deleted, LockInv, StartInv,
        MainInv, ControlInv, Begun, Made
<1>3. QueueInv(e2, cl)
    BY DEF Engines, QueueInv
<1> QED
    BY <1>1, <1>2, <1>3 DEF Good

\* PostStartProcess: the new status is on file.
LEMMA PostWritesRunning ==
    ASSUME NEW m \in Masters, NEW f \in Files, NEW s, NEW cl, NEW e \in Engines,
           EngineInv(e, f, s, m), QueueInv(e, cl),
           e.main \notin {"idle", "exited"}, e.start = "post", e.lock = "start",
           NEW f2, f2 = OnFile(e, m),
           NEW e2, e2 = [[e EXCEPT !.start = "done"] EXCEPT !.lock = "free", !.statusChan = Channel(e)]
    PROVE  Good(e2, f2, s, m, cl)
<1>1. e.mem = "running" /\ e.old = "created"
    BY DEF EngineInv, LockInv
<1>2. Channel(e) = IF e.statusChan = "nil" THEN "nil" ELSE "full"
    BY <1>1 DEF Signals, Channel
<1>3. f2 \in Files /\ f2.owner = m /\ f2.status = e.mem /\ f2.exit = e.exit
    BY DEF OnFile, Files, Engines
<1>4. e2 \in Engines
    BY Zenon, ChannelTyped, FieldTypes
<1>5. EngineInv(e2, f2, s, m)
    BY <1>1, <1>2, <1>3 DEF Engines, EngineInv, FreshInv, FileInv, Shown, Deleted,
        LockInv, StartInv, MainInv, ControlInv, Begun, Made
<1>6. QueueInv(e2, cl)
    BY <1>1, <1>2, <1>3 DEF Engines, QueueInv
<1> QED
    BY <1>4, <1>5, <1>6 DEF Good

\* ControlAccept: the next connection.
LEMMA ControlAccepts ==
    ASSUME NEW m \in Masters, NEW f \in Files, NEW s, NEW cl, NEW e \in Engines,
           EngineInv(e, f, s, m), QueueInv(e, cl),
           e.main \notin {"idle", "exited"}, e.control = "accept", e.backlog # <<>>,
           NEW e2, e2 = [e EXCEPT !.control = "decode", !.cur = Head(e.backlog), !.backlog = Tail(e.backlog)]
    PROVE  Good(e2, f, s, m, cl)
<1>1. /\ Head(e.backlog) \in Clients /\ Tail(e.backlog) \in Seq(Clients)
      /\ Head(e.backlog) = e.backlog[1]
      /\ 1 \in DOMAIN e.backlog
      /\ \A i \in DOMAIN Tail(e.backlog) :
            i + 1 \in DOMAIN e.backlog /\ Tail(e.backlog)[i] = e.backlog[i + 1]
    BY DEF Engines
<1>2. e2 \in Engines
    BY Zenon, <1>1, FieldTypes
<1>3. EngineInv(e2, f, s, m)
    BY <1>1 DEF Engines, EngineInv, FreshInv, FileInv, Shown, Deleted, LockInv,
        StartInv, MainInv, ControlInv, Begun, Made
<1>4. QueueInv(e2, cl)
    BY <1>1 DEF Engines, QueueInv
<1> QED
    BY <1>2, <1>3, <1>4 DEF Good

\* ControlDecode: the message of a command.
LEMMA DecodeGets ==
    ASSUME NEW m \in Masters, NEW f \in Files, NEW s, NEW cl, NEW e \in Engines,
           EngineInv(e, f, s, m), QueueInv(e, cl),
           e.main \notin {"idle", "exited"}, e.control = "decode",
           NEW op \in {"start", "pause", "resume"}, op = cl[e.cur].op,
           NEW e2, e2 = [e EXCEPT !.control = op]
    PROVE  Good(e2, f, s, m, cl)
<1>1. e2 \in Engines
    BY Zenon, FieldTypes
<1>2. EngineInv(e2, f, s, m)
    BY DEF Engines, EngineInv, FreshInv, FileInv, Shown, Deleted, LockInv, StartInv,
        MainInv, ControlInv, Begun, Made
<1>3. QueueInv(e2, cl)
    BY DEF Engines, QueueInv
<1> QED
    BY <1>1, <1>2, <1>3 DEF Good

\* ControlDecode: the connection is closed without a message.
LEMMA DecodeFails ==
    ASSUME NEW m \in Masters, NEW f \in Files, NEW s, NEW cl, NEW e \in Engines,
           EngineInv(e, f, s, m), QueueInv(e, cl),
           e.main \notin {"idle", "exited"}, e.control = "decode",
           NEW e2, e2 = [e EXCEPT !.control = "done", !.fatal = Send(e, "err")]
    PROVE  Good(e2, f, s, m, cl)
<1>1. e2 \in Engines
    BY Zenon, SendTyped, FieldTypes
<1>2. EngineInv(e2, f, s, m)
    BY DEF Engines, EngineInv, FreshInv, FileInv, Shown, Deleted, LockInv, StartInv,
        MainInv, ControlInv, Begun, Made, Send
<1>3. QueueInv(e2, cl)
    BY DEF Engines, QueueInv
<1> QED
    BY <1>1, <1>2, <1>3 DEF Good

\* ControlStart: the container was started already.
LEMMA StartsAgain ==
    ASSUME NEW m \in Masters, NEW f \in Files, NEW s, NEW cl, NEW e \in Engines,
           EngineInv(e, f, s, m), QueueInv(e, cl),
           e.main \notin {"idle", "exited"}, e.control = "start", e.started,
           NEW e2, e2 = [e EXCEPT !.control = "close"]
    PROVE  Good(e2, f, s, m, cl)
<1>1. e.statusChan = "nil"
    BY DEF EngineInv, ControlInv
<1>2. e2 \in Engines
    BY Zenon, FieldTypes
<1>3. EngineInv(e2, f, s, m)
    BY <1>1 DEF Engines, EngineInv, FreshInv, FileInv, Shown, Deleted, LockInv,
        StartInv, MainInv, ControlInv, Begun, Made
<1>4. QueueInv(e2, cl)
    BY <1>1 DEF Engines, QueueInv
<1> QED
    BY <1>2, <1>3, <1>4 DEF Good

\* ControlStart: the container has ended.
LEMMA StartsNot ==
    ASSUME NEW m \in Masters, NEW f \in Files, NEW s, NEW cl, NEW e \in Engines,
           EngineInv(e, f, s, m), QueueInv(e, cl),
           e.main \notin {"idle", "exited"}, e.control = "start",
           NEW e2, e2 = [e EXCEPT !.started = TRUE, !.control = "done", !.fatal = Send(e, "err")]
    PROVE  Good(e2, f, s, m, cl)
<1>1. e2 \in Engines
    BY Zenon, SendTyped, FieldTypes
<1>2. EngineInv(e2, f, s, m)
    BY DEF Engines, EngineInv, FreshInv, FileInv, Shown, Deleted, LockInv, StartInv,
        MainInv, ControlInv, Begun, Made, Send
<1>3. QueueInv(e2, cl)
    BY DEF Engines, QueueInv
<1> QED
    BY <1>1, <1>2, <1>3 DEF Good

\* ControlStart: the process is let go.
LEMMA StartsProc ==
    ASSUME NEW m \in Masters, NEW f \in Files, NEW s, NEW cl, NEW e \in Engines,
           EngineInv(e, f, s, m), QueueInv(e, cl),
           e.main \notin {"idle", "exited"}, e.control = "start",
           e.proc \notin {"failed", "dead"}, e.start # "done",
           NEW e2, e2 = [e EXCEPT !.started = TRUE, !.control = "wait", !.startChan = TRUE,
                              !.proc = "go"]
    PROVE  Good(e2, f, s, m, cl)
<1>1. e2 \in Engines
    BY Zenon, FieldTypes
<1>2. EngineInv(e2, f, s, m)
    BY DEF Engines, EngineInv, FreshInv, FileInv, Shown, Deleted, LockInv, StartInv,
        MainInv, ControlInv, Begun, Made
<1>3. QueueInv(e2, cl)
    BY DEF Engines, QueueInv
<1> QED
    BY <1>1, <1>2, <1>3 DEF Good

\* WaitStatusUpdate: the status of the started container is on file.
LEMMA StatusUpdated ==
    ASSUME NEW m \in Masters, NEW f \in Files, NEW s, NEW cl, NEW e \in Engines,
           EngineInv(e, f, s, m), QueueInv(e, cl),
           e.main \notin {"idle", "exited"}, e.control = "wait",
           e.statusChan = "full",
           NEW e2, e2 = [e EXCEPT !.control = "close", !.statusChan = "nil"]
    PROVE  Good(e2, f, s, m, cl)
<1>1. e2 \in Engines
    BY Zenon, FieldTypes
<1>2. EngineInv(e2, f, s, m)
    BY DEF Engines, EngineInv, FreshInv, FileInv, Shown, Deleted, LockInv, StartInv,
        MainInv, ControlInv, Begun, Made
<1>3. QueueInv(e2, cl)
    BY DEF Engines, QueueInv
<1> QED
    BY <1>1, <1>2, <1>3 DEF Good

\* ControlPause: the container is frozen.
LEMMA PauseFreezes ==
    ASSUME NEW m \in Masters, NEW f \in Files, NEW s, NEW cl, NEW e \in Engines,
           EngineInv(e, f, s, m), QueueInv(e, cl),
           e.control = "pause", e.main \in {"wait", "clean"},
           NEW e2, e2 = [e EXCEPT !.control = "paused", !.frozen = TRUE]
    PROVE  Good(e2, f, s, m, cl)
<1>1. e2 \in Engines
    BY Zenon, FieldTypes
<1>2. EngineInv(e2, f, s, m)
    BY DEF Engines, EngineInv, FreshInv, FileInv, Shown, Deleted, LockInv, StartInv,
        MainInv, ControlInv, Begun, Made
<1>3. QueueInv(e2, cl)
    BY DEF Engines, QueueInv
<1> QED
    BY <1>1, <1>2, <1>3 DEF Good

\* ControlPause, ControlResume: the freezer is gone.
LEMMA ControlFails ==
    ASSUME NEW m \in Masters, NEW f \in Files, NEW s, NEW cl, NEW e \in Engines,
           EngineInv(e, f, s, m), QueueInv(e, cl),
           e.main \notin {"idle", "exited"}, e.control \in {"pause", "thaw"},
           NEW e2, e2 = [e EXCEPT !.control = "done", !.fatal = Send(e, "err")]
    PROVE  Good(e2, f, s, m, cl)
<1>1. e2 \in Engines
    BY Zenon, SendTyped, FieldTypes
<1>2. EngineInv(e2, f, s, m)
    BY DEF Engines, EngineInv, FreshInv, FileInv, Shown, Deleted, LockInv, StartInv,
        MainInv, ControlInv, Begun, Made, Send
<1>3. QueueInv(e2, cl)
    BY DEF Engines, QueueInv
<1> QED
    BY <1>1, <1>2, <1>3 DEF Good

\* ControlPause: the container is stopped already.
LEMMA PauseIsStopped ==
    ASSUME NEW m \in Masters, NEW f \in Files, NEW s, NEW cl, NEW e \in Engines,
           EngineInv(e, f, s, m), QueueInv(e, cl),
           e.main \notin {"idle", "exited"}, e.control = "paused", e.mem = "stopped",
           NEW e2, e2 = [e EXCEPT !.control = "close"]
    PROVE  Good(e2, f, s, m, cl)
<1>1. e2 \in Engines
    BY Zenon, FieldTypes
<1>2. EngineInv(e2, f, s, m)
    BY DEF Engines, EngineInv, FreshInv, FileInv, Shown, Deleted, LockInv, StartInv,
        MainInv, ControlInv, Begun, Made
<1>3. QueueInv(e2, cl)
    BY DEF Engines, QueueInv
<1> QED
    BY <1>1, <1>2, <1>3 DEF Good

\* ControlPause: the new status is in memory.
LEMMA PauseTakes ==
    ASSUME NEW m \in Masters, NEW f \in Files, NEW s, NEW cl, NEW e \in Engines,
           EngineInv(e, f, s, m), QueueInv(e, cl),
           e.main \notin {"idle", "exited"}, e.control = "paused", e.lock = "free",
           e.mem # "stopped", f.status \in Begun,
           NEW e2, e2 = [e EXCEPT !.lock = "control", !.old = e.mem, !.mem = "paused"]
    PROVE  Good(e2, f, s, m, cl)
<1>1. e.mem \in {"running", "paused"} /\ e.start = "done"
    BY DEF Engines, EngineInv, FreshInv, FileInv, Deleted, Shown, StartInv, Begun,
        Absent
<1>2. e2 \in Engines
    BY Zenon, FieldTypes DEF Statuses
<1>3. EngineInv(e2, f, s, m)
    BY <1>1 DEF Engines, EngineInv, FreshInv, FileInv, Shown, Deleted, LockInv,
        StartInv, MainInv, ControlInv, Begun, Made
<1>4. QueueInv(e2, cl)
    BY <1>1 DEF Engines, QueueInv
<1> QED
    BY <1>2, <1>3, <1>4 DEF Good

\* ControlPause: the new status is on file.
LEMMA PauseWrites ==
    ASSUME NEW m \in Masters, NEW f \in Files, NEW s, NEW cl, NEW e \in Engines,
           EngineInv(e, f, s, m), QueueInv(e, cl),
           e.main \notin {"idle", "exited"}, e.control = "paused",
           e.lock = "control", NEW f2, f2 = OnFile(e, m),
           NEW e2, e2 = [[e EXCEPT !.control = "close"] EXCEPT !.lock = "free", !.statusChan = Channel(e)]
    PROVE  Good(e2, f2, s, m, cl)
<1>1. e.mem = "paused" /\ e.old \in {"running", "paused"}
    BY DEF Engines, EngineInv, LockInv
<1>2. Channel(e) = e.statusChan
    BY <1>1 DEF Signals, Channel
<1>3. f2 \in Files /\ f2.owner = m /\ f2.status = e.mem /\ f2.exit = e.exit
    BY DEF OnFile, Files, Engines
<1>4. e2 \in Engines
    BY Zenon, ChannelTyped, FieldTypes
<1>5. EngineInv(e2, f2, s, m)
    BY <1>1, <1>2, <1>3 DEF Engines, EngineInv, FreshInv, FileInv, Shown, Deleted,
        LockInv, StartInv, MainInv, ControlInv, Begun, Made
<1>6. QueueInv(e2, cl)
    BY <1>1, <1>2, <1>3 DEF Engines, QueueInv
<1> QED
    BY <1>4, <1>5, <1>6 DEF Good

\* ControlResume: the container is stopped already.
LEMMA ResumeIsStopped ==
    ASSUME NEW m \in Masters, NEW f \in Files, NEW s, NEW cl, NEW e \in Engines,
           EngineInv(e, f, s, m), QueueInv(e, cl),
           e.main \notin {"idle", "exited"}, e.control = "resume", e.mem = "stopped",
           NEW e2, e2 = [e EXCEPT !.control = "thaw"]
    PROVE  Good(e2, f, s, m, cl)
<1>1. e2 \in Engines
    BY Zenon, FieldTypes
<1>2. EngineInv(e2, f, s, m)
    BY DEF Engines, EngineInv, FreshInv, FileInv, Shown, Deleted, LockInv, StartInv,
        MainInv, ControlInv, Begun, Made
<1>3. QueueInv(e2, cl)
    BY DEF Engines, QueueInv
<1> QED
    BY <1>1, <1>2, <1>3 DEF Good

\* ControlResume: the new status is in memory.
LEMMA ResumeTakes ==
    ASSUME NEW m \in Masters, NEW f \in Files, NEW s, NEW cl, NEW e \in Engines,
           EngineInv(e, f, s, m), QueueInv(e, cl),
           e.main \notin {"idle", "exited"}, e.control = "resume", e.lock = "free",
           e.mem # "stopped", f.status \in Begun,
           NEW e2, e2 = [e EXCEPT !.lock = "control", !.old = e.mem, !.mem = "running"]
    PROVE  Good(e2, f, s, m, cl)
<1>1. e.mem \in {"running", "paused"} /\ e.start = "done"
    BY DEF Engines, EngineInv, FreshInv, FileInv, Deleted, Shown, StartInv, Begun,
        Absent
<1>2. e2 \in Engines
    BY Zenon, FieldTypes DEF Statuses
<1>3. EngineInv(e2, f, s, m)
    BY <1>1 DEF Engines, EngineInv, FreshInv, FileInv, Shown, Deleted, LockInv,
        StartInv, MainInv, ControlInv, Begun, Made
<1>4. QueueInv(e2, cl)
    BY <1>1 DEF Engines, QueueInv
<1> QED
    BY <1>2, <1>3, <1>4 DEF Good

\* ControlResume: the new status is on file.
LEMMA ResumeWrites ==
    ASSUME NEW m \in Masters, NEW f \in Files, NEW s, NEW cl, NEW e \in Engines,
           EngineInv(e, f, s, m), QueueInv(e, cl),
           e.main \notin {"idle", "exited"}, e.control = "resume",
           e.lock = "control", NEW f2, f2 = OnFile(e, m),
           NEW e2, e2 = [[e EXCEPT !.control = "thaw"] EXCEPT !.lock = "free", !.statusChan = Channel(e)]
    PROVE  Good(e2, f2, s, m, cl)
<1>1. e.mem = "running" /\ e.old \in {"running", "paused"}
    BY DEF Engines, EngineInv, LockInv
<1>2. Channel(e) = e.statusChan
    BY <1>1 DEF Signals, Channel
<1>3. f2 \in Files /\ f2.owner = m /\ f2.status = e.mem /\ f2.exit = e.exit
    BY DEF OnFile, Files, Engines
<1>4. e2 \in Engines
    BY Zenon, ChannelTyped, FieldTypes
<1>5. EngineInv(e2, f2, s, m)
    BY <1>1, <1>2, <1>3 DEF Engines, EngineInv, FreshInv, FileInv, Shown, Deleted,
        LockInv, StartInv, MainInv, ControlInv, Begun, Made
<1>6. QueueInv(e2, cl)
    BY <1>1, <1>2, <1>3 DEF Engines, QueueInv
<1> QED
    BY <1>4, <1>5, <1>6 DEF Good

\* ControlResume: the container is thawed.
LEMMA Thaws ==
    ASSUME NEW m \in Masters, NEW f \in Files, NEW s, NEW cl, NEW e \in Engines,
           EngineInv(e, f, s, m), QueueInv(e, cl),
           e.main \notin {"idle", "exited"}, e.control = "thaw",
           e.main \in {"wait", "clean"},
           NEW e2, e2 = [e EXCEPT !.control = "close", !.frozen = FALSE]
    PROVE  Good(e2, f, s, m, cl)
<1>1. e2 \in Engines
    BY Zenon, FieldTypes
<1>2. EngineInv(e2, f, s, m)
    BY DEF Engines, EngineInv, FreshInv, FileInv, Shown, Deleted, LockInv, StartInv,
        MainInv, ControlInv, Begun, Made
<1>3. QueueInv(e2, cl)
    BY DEF Engines, QueueInv
<1> QED
    BY <1>1, <1>2, <1>3 DEF Good

\* MonitorContainer: the container process has ended.
LEMMA Monitors ==
    ASSUME NEW m \in Masters, NEW f \in Files, NEW s, NEW cl, NEW e \in Engines,
           EngineInv(e, f, s, m), QueueInv(e, cl),
           e.main \notin {"idle", "exited"}, e.proc \in {"failed", "dead"},
           NEW e2, e2 = [e EXCEPT !.monitor = "done", !.fatal = Send(e, "nil")]
    PROVE  Good(e2, f, s, m, cl)
<1>1. e2 \in Engines
    BY Zenon, SendTyped, FieldTypes
<1>2. EngineInv(e2, f, s, m)
    BY DEF Engines, EngineInv, FreshInv, FileInv, Shown, Deleted, LockInv, StartInv,
        MainInv, ControlInv, Begun, Made, Send
<1>3. QueueInv(e2, cl)
    BY DEF Engines, QueueInv
<1> QED
    BY <1>1, <1>2, <1>3 DEF Good

\* MainFatal: the main goroutine leaves its wait.
LEMMA CleanupBegins ==
    ASSUME NEW m \in Masters, NEW f \in Files, NEW s, NEW cl, NEW e \in Engines,
           EngineInv(e, f, s, m), QueueInv(e, cl),
           e.main = "wait", e.fatal # <<>>, NEW b \in BOOLEAN,
           b <=> e.fatal = <<"err">>,
           NEW e2, e2 = [e EXCEPT !.main = "clean", !.fatalErr = b, !.fatal = <<>>]
    PROVE  Good(e2, f, s, m, cl)
<1>1. e2 \in Engines
    BY Zenon, FieldTypes
<1>2. EngineInv(e2, f, s, m)
    BY DEF Engines, EngineInv, FreshInv, FileInv, Shown, Deleted, LockInv, StartInv,
        MainInv, ControlInv, Begun, Made
<1>3. QueueInv(e2, cl)
    BY DEF Engines, QueueInv
<1> QED
    BY <1>1, <1>2, <1>3 DEF Good

\* CleanupContainer: the creation failed.
LEMMA CleanupAborts ==
    ASSUME NEW m \in Masters, NEW f \in Files, NEW s, NEW cl, NEW e \in Engines,
           EngineInv(e, f, s, m), QueueInv(e, cl),
           e.main = "clean", e.mem = "creating",
           NEW x \in {"none", "process", "fatal"}, x = e.exit,
           NEW e2, e2 = [e EXCEPT !.frozen = FALSE, !.main = "delete", !.exit = x]
    PROVE  Good(e2, f, s, m, cl)
<1>1. e2 \in Engines
    BY Zenon, FieldTypes
<1>2. EngineInv(e2, f, s, m)
    BY DEF Engines, EngineInv, FreshInv, FileInv, Shown, Deleted, LockInv, StartInv,
        MainInv, ControlInv, Begun, Made
<1>3. QueueInv(e2, cl)
    BY DEF Engines, QueueInv
<1> QED
    BY <1>1, <1>2, <1>3 DEF Good

\* CleanupContainer: the container was made, and its exit code is known.
LEMMA CleanupDecides ==
    ASSUME NEW m \in Masters, NEW f \in Files, NEW s, NEW cl, NEW e \in Engines,
           EngineInv(e, f, s, m), QueueInv(e, cl),
           e.main = "clean", e.mem # "creating", NEW x \in {"process", "fatal"},
           x = "process" => ~e.fatalErr,
           NEW e2, e2 = [e EXCEPT !.frozen = FALSE, !.main = "stop", !.exit = x]
    PROVE  Good(e2, f, s, m, cl)
<1>1. e2 \in Engines
    BY Zenon, FieldTypes
<1>2. EngineInv(e2, f, s, m)
    BY DEF Engines, EngineInv, FreshInv, FileInv, Shown, Deleted, LockInv, StartInv,
        MainInv, ControlInv, Begun, Made
<1>3. QueueInv(e2, cl)
    BY DEF Engines, QueueInv
<1> QED
    BY <1>1, <1>2, <1>3 DEF Good

\* CleanupDelete: the files are removed.
LEMMA CleanupDeletes ==
    ASSUME NEW m \in Masters, NEW f \in Files, NEW s, NEW cl, NEW e \in Engines,
           EngineInv(e, f, s, m), QueueInv(e, cl),
           e.main = "delete",
           NEW e2, e2 = [e EXCEPT !.main = "exit"]
    PROVE  Good(e2, Absent, None, m, cl)
<1>1. e2 \in Engines
    BY Zenon, FieldTypes
<1>2. EngineInv(e2, Absent, None, m)
    BY DEF Engines, EngineInv, FreshInv, FileInv, Shown, Deleted, LockInv, StartInv,
        MainInv, ControlInv, Begun, Made, Absent
<1>3. QueueInv(e2, cl)
    BY DEF Engines, QueueInv
<1> QED
    BY <1>1, <1>2, <1>3 DEF Good

\* CleanupStop: the new status is in memory.
LEMMA StopTakes ==
    ASSUME NEW m \in Masters, NEW f \in Files, NEW s, NEW cl, NEW e \in Engines,
           EngineInv(e, f, s, m), QueueInv(e, cl),
           e.main = "stop", e.lock = "free",
           NEW e2, e2 = [e EXCEPT !.lock = "main", !.old = e.mem, !.mem = "stopped"]
    PROVE  Good(e2, f, s, m, cl)
<1>1. e.mem \in {"created", "running", "paused"}
      /\ e.start \notin {"read", "sockets", "created"}
    BY DEF Engines, EngineInv, MainInv, StartInv, Statuses
<1>2. e2 \in Engines
    BY Zenon, FieldTypes DEF Statuses
<1>3. EngineInv(e2, f, s, m)
    BY <1>1 DEF Engines, EngineInv, FreshInv, FileInv, Shown, Deleted, LockInv,
        StartInv, MainInv, ControlInv, Begun, Made
<1>4. QueueInv(e2, cl)
    BY <1>1 DEF Engines, QueueInv
<1> QED
    BY <1>2, <1>3, <1>4 DEF Good

\* CleanupStop: the new status is on file.
LEMMA StopWrites ==
    ASSUME NEW m \in Masters, NEW f \in Files, NEW s, NEW cl, NEW e \in Engines,
           EngineInv(e, f, s, m), QueueInv(e, cl),
           e.main = "stop", e.lock = "main", NEW f2, f2 = OnFile(e, m),
           NEW e2, e2 = [[e EXCEPT !.main = "sockets"] EXCEPT !.lock = "free", !.statusChan = Channel(e)]
    PROVE  Good(e2, f2, s, m, cl)
<1>1. e.mem = "stopped"
    BY DEF EngineInv, LockInv
<1>2. Channel(e) = IF e.statusChan # "nil" /\ e.old = "created" THEN "full" ELSE e.statusChan
    BY <1>1 DEF Signals, Channel
<1>3. f2 \in Files /\ f2.owner = m /\ f2.status = e.mem /\ f2.exit = e.exit
    BY DEF OnFile, Files, Engines
<1>4. e2 \in Engines
    BY Zenon, ChannelTyped, FieldTypes
<1>5. EngineInv(e2, f2, s, m)
    BY <1>1, <1>2, <1>3 DEF Engines, EngineInv, FreshInv, FileInv, Shown, Deleted,
        LockInv, StartInv, MainInv, ControlInv, Begun, Made
<1>6. QueueInv(e2, cl)
    BY <1>1, <1>2, <1>3 DEF Engines, QueueInv
<1> QED
    BY <1>4, <1>5, <1>6 DEF Good

\* CleanupSockets: the sockets are removed.
LEMMA SocketsRemoved ==
    ASSUME NEW m \in Masters, NEW f \in Files, NEW s, NEW cl, NEW e \in Engines,
           EngineInv(e, f, s, m), QueueInv(e, cl),
           e.main = "sockets", NEW s2,
           NEW e2, e2 = [e EXCEPT !.main = "exit"]
    PROVE  Good(e2, f, s2, m, cl)
<1>1. e2 \in Engines
    BY Zenon, FieldTypes
<1>2. EngineInv(e2, f, s2, m)
    BY DEF Engines, EngineInv, FreshInv, FileInv, Shown, Deleted, LockInv, StartInv,
        MainInv, ControlInv, Begun, Made
<1>3. QueueInv(e2, cl)
    BY DEF Engines, QueueInv
<1> QED
    BY <1>1, <1>2, <1>3 DEF Good

\* MainExit: the connections end, and the container process with them.
LEMMA Exits ==
    ASSUME NEW m \in Masters, NEW f \in Files, NEW s, NEW cl, NEW e \in Engines,
           EngineInv(e, f, s, m), QueueInv(e, cl),
           e.main = "exit", <<>> \in Seq(Clients),
           NEW e2, e2 = [e EXCEPT !.main = "exited", !.proc = "dead", !.backlog = <<>>, !.cur = None]
    PROVE  Good(e2, f, s, m, cl)
<1>1. e2 \in Engines
    BY Zenon, FieldTypes
<1>2. EngineInv(e2, f, s, m)
    BY DEF Engines, EngineInv, FreshInv, FileInv, Shown, Deleted, LockInv, StartInv,
        MainInv, ControlInv, Begun, Made
<1>3. QueueInv(e2, cl)
    BY DEF Engines, QueueInv
<1> QED
    BY <1>1, <1>2, <1>3 DEF Good

\* The commands may change, as long as those that have a connection keep it.
LEMMA QueueKept ==
    ASSUME NEW e \in Engines, NEW cl, QueueInv(e, cl), NEW cl2,
           StayConnected(cl, cl2)
    PROVE  QueueInv(e, cl2)
<1>1. \A i \in DOMAIN e.backlog : e.backlog[i] \in Clients
    BY DEF Engines
<1>2. e.cur \in Clients \cup {None}
    BY DEF Engines
<1> QED
    BY <1>1, <1>2 DEF QueueInv, StayConnected

\* Dial: a command connects.
LEMMA Dialled ==
    ASSUME NEW m \in Masters, NEW f \in Files, NEW s, NEW cl, NEW e \in Engines,
           EngineInv(e, f, s, m), QueueInv(e, cl),
           e.main \notin {"idle", "exited"}, NEW c \in Clients, NEW cl2,
           cl2[c].conn = "open", StayConnected(cl, cl2),
           NEW e2, e2 = [e EXCEPT !.backlog = Append(e.backlog, c)]
    PROVE  Good(e2, f, s, m, cl2)
<1>1. Append(e.backlog, c) \in Seq(Clients)
    BY DEF Engines
<1>2. ASSUME NEW i \in DOMAIN Append(e.backlog, c)
     PROVE  cl2[Append(e.backlog, c)[i]].conn # "none"
    BY DEF Engines, QueueInv, StayConnected
<1>3. e2 \in Engines
    BY Zenon, <1>1, FieldTypes
<1>4. EngineInv(e2, f, s, m)
    BY <1>1, <1>2 DEF Engines, EngineInv, FreshInv, FileInv, Shown, Deleted, LockInv,
        StartInv, MainInv, ControlInv, Begun, Made
<1>5. QueueInv(e2, cl2)
    BY <1>1, <1>2 DEF Engines, QueueInv, StayConnected
<1> QED
    BY <1>3, <1>4, <1>5 DEF Good

\* Signal, Timeout: the container process is sent a signal.
LEMMA Signalled ==
    ASSUME NEW m \in Masters, NEW f \in Files, NEW s, NEW cl, NEW e \in Engines,
           EngineInv(e, f, s, m), QueueInv(e, cl),
           e.main \notin {"idle", "exited"}, f.status \in Made,
           NEW g \in {"term", "kill"},
           NEW e2, e2 = [e EXCEPT !.signal = g]
    PROVE  Good(e2, f, s, m, cl)
<1>1. e.mem \in Made /\ e.start \notin {"read", "sockets", "created"}
    BY DEF Engines, EngineInv, FreshInv, FileInv, Shown, Deleted, LockInv, StartInv,
        Absent, Statuses, Made
<1>2. e2 \in Engines
    BY Zenon, FieldTypes
<1>3. EngineInv(e2, f, s, m)
    BY <1>1 DEF Engines, EngineInv, FreshInv, FileInv, Shown, Deleted, LockInv,
        StartInv, MainInv, ControlInv, Begun, Made
<1>4. QueueInv(e2, cl)
    BY <1>1 DEF Engines, QueueInv
<1> QED
    BY <1>2, <1>3, <1>4 DEF Good

\* ControlClose: the connection is closed.
LEMMA Closes ==
    ASSUME NEW m \in Masters, NEW f \in Files, NEW s, NEW cl, NEW e \in Engines,
           EngineInv(e, f, s, m), QueueInv(e, cl),
           e.main \notin {"idle", "exited"}, e.control = "close",
           NEW e2, e2 = [e EXCEPT !.control = "accept", !.cur = None]
    PROVE  Good(e2, f, s, m, cl)
<1>1. e2 \in Engines
    BY Zenon, FieldTypes
<1>2. EngineInv(e2, f, s, m)
    BY DEF Engines, EngineInv, FreshInv, FileInv, Shown, Deleted, LockInv, StartInv,
        MainInv, ControlInv, Begun, Made
<1>3. QueueInv(e2, cl)
    BY DEF Engines, QueueInv
<1> QED
    BY <1>1, <1>2, <1>3 DEF Good

-----------------------------------------------------------------------------
(***************************************************************************)
(* The actions keep the invariant, and are steps of the lifecycle.         *)
(***************************************************************************)

\* The starter is run.
LEMMA OciCreateKeeps ==
    ASSUME NEW m, Masters = {m}, Inv(m), OciCreate(m)
    PROVE  Keeps(m)
<1>1. eng[m].main = "idle" /\ UNCHANGED <<file, sock, cli>>
    BY DEF OciCreate
<1>2. Good([eng[m] EXCEPT !.main = "wait"], file, sock, m, cli)
    BY <1>1, Facts, CreateRuns
<1>3. eng' = [eng EXCEPT ![m] = [eng[m] EXCEPT !.main = "wait"]]
    BY <1>1 DEF OciCreate
<1> QED
    BY Zenon, <1>1, <1>2, <1>3, QuietStep

\* createState takes the name, which is free.
LEMMA CreateAddKeeps ==
    ASSUME NEW m, Masters = {m}, Inv(m), CreateAdd(m)
    PROVE  Keeps(m)
<1>1. eng[m].main \notin {"idle", "exited"} /\ eng[m].create = "add"
      /\ UNCHANGED <<file, sock, cli>>
    BY DEF CreateAdd, Alive
<1>2. file = Absent
    BY <1>1, Facts DEF EngineInv, FreshInv
<1>3. Good([eng[m] EXCEPT !.create = "write", !.mem = "creating", !.lock = "create"],
             file, sock, m, cli)
    BY Zenon, <1>1, <1>2, Facts, CreateAdds
<1>4. eng' = [eng EXCEPT ![m] = [eng[m] EXCEPT !.create = "write", !.mem = "creating",
             !.lock = "create"]]
    BY <1>1, <1>2 DEF CreateAdd
<1> QED
    BY Zenon, <1>1, <1>2, <1>3, <1>4, QuietStep

\* createState writes the file.
LEMMA CreateWriteKeeps ==
    ASSUME NEW m, Masters = {m}, Inv(m), CreateWrite(m)
    PROVE  Keeps(m)
<1>1. /\ eng[m].main \notin {"idle", "exited"} /\ eng[m].create = "write"
      /\ UNCHANGED <<sock, cli>>
      /\ file' = [owner |-> m, status |-> "creating", exit |-> "none"]
    BY DEF CreateWrite, Alive
<1>2. Good([eng[m] EXCEPT !.create = "setup", !.lock = "free"], file', sock', m, cli)
    BY Zenon, <1>1, Facts, CreateWrites
<1>3. eng' = [eng EXCEPT ![m] = [eng[m] EXCEPT !.create = "setup", !.lock = "free"]]
    BY Zenon DEF CreateWrite
<1>4. file.status = "none" /\ file'.status = "creating"
    BY <1>1, Facts DEF EngineInv, FreshInv, Absent
<1>5. Abstract!Next
    BY <1>4 DEF Abstract!Next, Abstract!Create
<1>6. file' \in Files /\ sock' \in {m, None} /\ cli' = cli
    BY <1>1, Facts DEF Files, Statuses
<1> QED
    BY Zenon, <1>2, <1>3, <1>4, <1>5, <1>6, MasterStep DEF Made, Begun

\* The rest of the creation.
LEMMA CreateSetupKeeps ==
    ASSUME NEW m, Masters = {m}, Inv(m), CreateSetup(m)
    PROVE  Keeps(m)
<1>1. eng[m].main \notin {"idle", "exited"} /\ eng[m].create = "setup"
      /\ UNCHANGED <<file, sock, cli>>
    BY DEF CreateSetup, Alive
<1>2. CASE eng' = [eng EXCEPT ![m].create = "done"]
  <2>1. Good([eng[m] EXCEPT !.create = "done"], file, sock, m, cli)
    BY <1>1, <1>2, Facts, SetupEnds
  <2>2. eng' = [eng EXCEPT ![m] = [eng[m] EXCEPT !.create = "done"]]
    BY <1>1, <1>2 DEF CreateSetup
  <2> QED
    BY Zenon, <1>1, <1>2, <2>1, <2>2, QuietStep
<1>3. CASE eng' = [eng EXCEPT ![m].create = "failed", ![m].fatal = Send(eng[m], "err")]
  <2>1. Good([eng[m] EXCEPT !.create = "failed", !.fatal = Send(eng[m], "err")], file,
             sock, m, cli)
    BY Zenon, <1>1, <1>3, Facts, SetupFails
  <2>2. eng' = [eng EXCEPT ![m] = [eng[m] EXCEPT !.create = "failed", !.fatal =
             Send(eng[m], "err")]]
    BY Zenon, <1>1, <1>3 DEF CreateSetup
  <2> QED
    BY Zenon, <1>1, <1>3, <2>1, <2>2, QuietStep
<1> QED
    BY <1>1, <1>2, <1>3 DEF CreateSetup

\* The container process.
LEMMA ProcStepsKeeps ==
    ASSUME NEW m, Masters = {m}, Inv(m), ProcSteps(m)
    PROVE  Keeps(m)
<1>1. eng[m].main \notin {"idle", "exited"} /\ UNCHANGED <<file, sock, cli>>
    BY DEF ProcSteps, Alive
<1>2. CASE /\ eng[m].proc = "init" /\ eng[m].create = "done"
            /\ eng' = [eng EXCEPT ![m].proc = "ready"]
  <2>1. Good([eng[m] EXCEPT !.proc = "ready"], file, sock, m, cli)
    BY <1>1, <1>2, Facts, ProcIsReady
  <2>2. eng' = [eng EXCEPT ![m] = [eng[m] EXCEPT !.proc = "ready"]]
    BY <1>1, <1>2 DEF ProcSteps
  <2> QED
    BY Zenon, <1>1, <1>2, <2>1, <2>2, QuietStep
<1>3. CASE eng[m].proc = "go" /\ eng' = [eng EXCEPT ![m].proc = "running"]
  <2>1. Good([eng[m] EXCEPT !.proc = "running"], file, sock, m, cli)
    BY <1>1, <1>3, Facts, ProcRuns
  <2>2. eng' = [eng EXCEPT ![m] = [eng[m] EXCEPT !.proc = "running"]]
    BY <1>1, <1>3 DEF ProcSteps
  <2> QED
    BY Zenon, <1>1, <1>3, <2>1, <2>2, QuietStep
<1> QED
    BY <1>1, <1>2, <1>3 DEF ProcSteps

\* The container process fails.
LEMMA ProcFailsKeeps ==
    ASSUME NEW m, Masters = {m}, Inv(m), ProcFails(m)
    PROVE  Keeps(m)
<1>1. /\ eng[m].main \notin {"idle", "exited"} /\ UNCHANGED <<file, sock, cli>>
      /\ eng[m].proc = "go" \/ (eng[m].proc = "init" /\ eng[m].create = "done")
    BY DEF ProcFails, Alive
<1>2. Good([eng[m] EXCEPT !.proc = "failed"], file, sock, m, cli)
    BY <1>1, Facts, ProcFailed
<1>3. eng' = [eng EXCEPT ![m] = [eng[m] EXCEPT !.proc = "failed"]]
    BY <1>1 DEF ProcFails
<1> QED
    BY Zenon, <1>1, <1>2, <1>3, QuietStep

\* The container process ends.
LEMMA ProcEndsKeeps ==
    ASSUME NEW m, Masters = {m}, Inv(m), ProcEnds(m)
    PROVE  Keeps(m)
<1>1. /\ eng[m].main \notin {"idle", "exited"} /\ UNCHANGED <<file, sock, cli>>
      /\ eng[m].proc = "running" \/ eng[m].signal # "none"
    BY DEF ProcEnds, Alive
<1>2. Good([eng[m] EXCEPT !.proc = "dead"], file, sock, m, cli)
    BY <1>1, Facts, ProcEnded
<1>3. eng' = [eng EXCEPT ![m] = [eng[m] EXCEPT !.proc = "dead"]]
    BY <1>1 DEF ProcEnds
<1> QED
    BY Zenon, <1>1, <1>2, <1>3, QuietStep

\* The start goroutine hears of the process.
LEMMA StartReadKeeps ==
    ASSUME NEW m, Masters = {m}, Inv(m), StartRead(m)
    PROVE  Keeps(m)
<1>1. /\ eng[m].main \notin {"idle", "exited"} /\ eng[m].start = "read"
      /\ UNCHANGED <<file, sock, cli>>
    BY DEF StartRead, Alive
<1>2. CASE eng[m].proc = "ready" /\ eng' = [eng EXCEPT ![m].start = "sockets"]
  <2>1. Good([eng[m] EXCEPT !.start = "sockets"], file, sock, m, cli)
    BY <1>1, <1>2, Facts, StartIsReady
  <2>2. eng' = [eng EXCEPT ![m] = [eng[m] EXCEPT !.start = "sockets"]]
    BY <1>1, <1>2 DEF StartRead, Ended
  <2> QED
    BY Zenon, <1>1, <1>2, <2>1, <2>2, QuietStep
<1>3. CASE eng[m].proc \in {"failed", "dead"} /\ eng' = [eng EXCEPT ![m].start = "done"]
  <2>1. Good([eng[m] EXCEPT !.start = "done"], file, sock, m, cli)
    BY <1>1, <1>3, Facts, StartIsOver
  <2>2. eng' = [eng EXCEPT ![m] = [eng[m] EXCEPT !.start = "done"]]
    BY <1>1, <1>3 DEF StartRead, Ended
  <2> QED
    BY Zenon, <1>1, <1>3, <2>1, <2>2, QuietStep
<1> QED
    BY <1>1, <1>2, <1>3 DEF StartRead, Ended

\* The sockets are created, or are in the way.
LEMMA PreStartProcessKeeps ==
    ASSUME NEW m, Masters = {m}, Inv(m), PreStartProcess(m)
    PROVE  Keeps(m)
<1>1. /\ eng[m].main \notin {"idle", "exited"} /\ eng[m].start = "sockets"
      /\ UNCHANGED <<file, cli>>
    BY DEF PreStartProcess, Alive
<1>2. CASE file = Absent \/ sock # None
  <2>1. PICK b \in BOOLEAN : b = (file # Absent)
    BY Zenon
  <2>2. Good([eng[m] EXCEPT !.start = "done", !.fatal = Send(eng[m], "err"), !.sockets = b],
             file, sock, m, cli)
    BY Zenon, <1>1, Facts, SocketsFail
  <2>3. /\ eng' = [eng EXCEPT ![m] = [eng[m] EXCEPT !.start = "done",
                        !.fatal = Send(eng[m], "err"), !.sockets = b]]
        /\ UNCHANGED sock
    BY Zenon, <1>2, <2>1 DEF PreStartProcess
  <2> QED
    BY Zenon, <1>1, <2>2, <2>3, QuietStep
<1>3. CASE ~(file = Absent \/ sock # None)
  <2>1. sock' = m /\ cli' = cli /\ file' = file
    BY <1>1, <1>3 DEF PreStartProcess
  <2>2. Good([eng[m] EXCEPT !.start = "created", !.sockets = TRUE], file', sock', m, cli)
    BY Zenon, <1>1, <2>1, Facts, SocketsMade
  <2>3. eng' = [eng EXCEPT ![m] = [eng[m] EXCEPT !.start = "created", !.sockets = TRUE]]
    BY Zenon, <1>3 DEF PreStartProcess
  <2> QED
    BY Zenon, <2>1, <2>2, <2>3, Facts, MasterStep
<1> QED
    BY <1>2, <1>3

\* A container that has been made is on file.
LEMMA IsOnFile ==
    ASSUME NEW m, Masters = {m}, Inv(m), eng[m].create \notin {"add", "write"},
           ~Deleted(eng[m])
    PROVE  file # Absent
BY Facts DEF EngineInv, FileInv, Absent

\* The status is set to created.
LEMMA StartCreatedKeeps ==
    ASSUME NEW m, Masters = {m}, Inv(m), StartCreated(m)
    PROVE  Keeps(m)
<1>1. eng[m].start = "created" /\ eng[m].main \notin {"idle", "exited"}
    BY DEF StartCreated, UpdateState, UpdateWrite, Alive
<1>2. eng[m].create \notin {"add", "write"} /\ ~Deleted(eng[m])
    BY <1>1, Facts DEF EngineInv, FreshInv, StartInv, LockInv, MainInv, Deleted
<1>3. file # Absent
    BY <1>2, IsOnFile
<1>4. eng[m].lock = "free" => eng[m].mem # "stopped"
    BY <1>1, Facts DEF EngineInv, StartInv
<1>5. CASE /\ eng[m].mem # "stopped" /\ eng[m].lock = "free" /\ UNCHANGED <<file, sock, cli>>
            /\ eng' = [eng EXCEPT ![m] =
                 [eng[m] EXCEPT !.lock = "start", !.old = eng[m].mem, !.mem = "created"]]
  <2>1. Good([eng[m] EXCEPT !.lock = "start", !.old = eng[m].mem, !.mem = "created"],
             file, sock, m, cli)
    BY Zenon, <1>1, <1>2, <1>3, <1>4, <1>5, Facts, StartTakesCreated
  <2>2. eng' = [eng EXCEPT ![m] = [eng[m] EXCEPT !.lock = "start", !.old = eng[m].mem,
             !.mem = "created"]]
    BY <1>1, <1>2, <1>3, <1>4, <1>5 DEF StartCreated, UpdateState, UpdateWrite
  <2> QED
    BY Zenon, <1>1, <1>2, <1>3, <1>4, <1>5, <2>1, <2>2, QuietStep
<1>6. CASE UpdateWrite(m, "start", [eng[m] EXCEPT !.start = "hooks", !.control = "accept"]) /\ eng[m].lock = "start"
  <2>1. Good([[eng[m] EXCEPT !.start = "hooks", !.control = "accept"] EXCEPT !.lock =
             "free", !.statusChan = Channel(eng[m])], OnFile(eng[m], m), sock, m, cli)
    BY Zenon, <1>1, <1>2, <1>3, <1>4, <1>6, Facts, StartWritesCreated
  <2>2. eng' = [eng EXCEPT ![m] = [[eng[m] EXCEPT !.start = "hooks", !.control =
             "accept"] EXCEPT !.lock = "free", !.statusChan = Channel(eng[m])]]
    BY <1>1, <1>2, <1>3, <1>4, <1>6 DEF UpdateWrite, Channel
  <2>3. file' = OnFile(eng[m], m) /\ UNCHANGED <<sock, cli>>
    BY <1>1, <1>2, <1>3, <1>4, <1>6 DEF UpdateWrite, OnFile
  <2> QED
    BY Zenon, <1>1, <1>2, <1>3, <1>4, <1>6, <2>1, <2>2, <2>3, WriteStep
<1> QED
    BY <1>1, <1>2, <1>3, <1>4, <1>5, <1>6 DEF StartCreated, UpdateState, UpdateWrite

\* The hooks.
LEMMA StartHooksKeeps ==
    ASSUME NEW m, Masters = {m}, Inv(m), StartHooks(m)
    PROVE  Keeps(m)
<1>1. /\ eng[m].main \notin {"idle", "exited"} /\ eng[m].start = "hooks"
      /\ UNCHANGED <<file, sock, cli>>
    BY DEF StartHooks, Alive
<1>2. CASE eng' = [eng EXCEPT ![m].start = "await"]
  <2>1. Good([eng[m] EXCEPT !.start = "await"], file, sock, m, cli)
    BY <1>1, <1>2, Facts, HooksEnd
  <2>2. eng' = [eng EXCEPT ![m] = [eng[m] EXCEPT !.start = "await"]]
    BY <1>1, <1>2 DEF StartHooks
  <2> QED
    BY Zenon, <1>1, <1>2, <2>1, <2>2, QuietStep
<1>3. CASE eng' = [eng EXCEPT ![m].start = "done", ![m].fatal = Send(eng[m], "err")]
  <2>1. Good([eng[m] EXCEPT !.start = "done", !.fatal = Send(eng[m], "err")], file,
             sock, m, cli)
    BY Zenon, <1>1, <1>3, Facts, HooksFail
  <2>2. eng' = [eng EXCEPT ![m] = [eng[m] EXCEPT !.start = "done", !.fatal =
             Send(eng[m], "err")]]
    BY Zenon, <1>1, <1>3 DEF StartHooks
  <2> QED
    BY Zenon, <1>1, <1>3, <2>1, <2>2, QuietStep
<1> QED
    BY <1>1, <1>2, <1>3 DEF StartHooks

\* The start event.
LEMMA StartAwaitKeeps ==
    ASSUME NEW m, Masters = {m}, Inv(m), StartAwait(m)
    PROVE  Keeps(m)
<1>1. /\ eng[m].main \notin {"idle", "exited"} /\ eng[m].start = "await"
      /\ UNCHANGED <<file, sock, cli>>
    BY DEF StartAwait, Alive
<1>2. Good([eng[m] EXCEPT !.start = "exec", !.startChan = FALSE], file, sock, m, cli)
    BY Zenon, <1>1, Facts, StartAwaits
<1>3. eng' = [eng EXCEPT ![m] = [eng[m] EXCEPT !.start = "exec", !.startChan = FALSE]]
    BY Zenon, <1>1 DEF StartAwait
<1> QED
    BY Zenon, <1>1, <1>2, <1>3, QuietStep

\* The exec, or the end of the process.
LEMMA StartExecKeeps ==
    ASSUME NEW m, Masters = {m}, Inv(m), StartExec(m)
    PROVE  Keeps(m)
<1>1. /\ eng[m].main \notin {"idle", "exited"} /\ eng[m].start = "exec"
      /\ UNCHANGED <<file, sock, cli>>
    BY DEF StartExec, Alive
<1>2. CASE eng' = [eng EXCEPT ![m].start = "done"]
  <2>1. Good([eng[m] EXCEPT !.start = "done"], file, sock, m, cli)
    BY <1>1, <1>2, Facts, StartExecs
  <2>2. eng' = [eng EXCEPT ![m] = [eng[m] EXCEPT !.start = "done"]]
    BY Zenon, <1>1, <1>2 DEF StartExec
  <2> QED
    BY Zenon, <1>1, <1>2, <2>1, <2>2, QuietStep
<1>3. CASE eng' = [eng EXCEPT ![m].start = "post"]
  <2>1. Good([eng[m] EXCEPT !.start = "post"], file, sock, m, cli)
    BY <1>1, <1>3, Facts, StartExecs
  <2>2. eng' = [eng EXCEPT ![m] = [eng[m] EXCEPT !.start = "post"]]
    BY Zenon, <1>1, <1>3 DEF StartExec
  <2> QED
    BY Zenon, <1>1, <1>3, <2>1, <2>2, QuietStep
<1> QED
    BY Zenon, <1>1, <1>2, <1>3 DEF StartExec

\* The status is set to running.
LEMMA PostStartProcessKeeps ==
    ASSUME NEW m, Masters = {m}, Inv(m), PostStartProcess(m)
    PROVE  Keeps(m)
<1>1. eng[m].start = "post" /\ eng[m].main \notin {"idle", "exited"}
    BY DEF PostStartProcess, UpdateState, UpdateWrite, Alive
<1>2. eng[m].create \notin {"add", "write"} /\ ~Deleted(eng[m])
    BY <1>1, Facts DEF EngineInv, FreshInv, StartInv, LockInv, MainInv, Deleted
<1>3. file # Absent
    BY <1>2, IsOnFile
<1>4. CASE /\ eng[m].mem = "stopped" /\ eng[m].lock = "free" /\ UNCHANGED <<file, sock, cli>>
            /\ eng' = [eng EXCEPT ![m] = [eng[m] EXCEPT !.start = "done"]]
  <2>1. Good([eng[m] EXCEPT !.start = "done"], file, sock, m, cli)
    BY <1>1, <1>2, <1>3, <1>4, Facts, PostIsStopped
  <2>2. eng' = [eng EXCEPT ![m] = [eng[m] EXCEPT !.start = "done"]]
    BY <1>1, <1>2, <1>3, <1>4 DEF PostStartProcess, UpdateState, UpdateWrite
  <2> QED
    BY Zenon, <1>1, <1>2, <1>3, <1>4, <2>1, <2>2, QuietStep
<1>5. CASE /\ eng[m].mem # "stopped" /\ eng[m].lock = "free" /\ UNCHANGED <<file, sock, cli>>
            /\ eng' = [eng EXCEPT ![m] =
                 [eng[m] EXCEPT !.lock = "start", !.old = eng[m].mem, !.mem = "running"]]
  <2>1. Good([eng[m] EXCEPT !.lock = "start", !.old = eng[m].mem, !.mem = "running"],
             file, sock, m, cli)
    BY Zenon, <1>1, <1>2, <1>3, <1>5, Facts, PostTakesRunning
  <2>2. eng' = [eng EXCEPT ![m] = [eng[m] EXCEPT !.lock = "start", !.old = eng[m].mem,
             !.mem = "running"]]
    BY <1>1, <1>2, <1>3, <1>5 DEF PostStartProcess, UpdateState, UpdateWrite
  <2> QED
    BY Zenon, <1>1, <1>2, <1>3, <1>5, <2>1, <2>2, QuietStep
<1>6. CASE UpdateWrite(m, "start", [eng[m] EXCEPT !.start = "done"]) /\ eng[m].lock = "start"
  <2>1. Good([[eng[m] EXCEPT !.start = "done"] EXCEPT !.lock = "free", !.statusChan =
             Channel(eng[m])], OnFile(eng[m], m), sock, m, cli)
    BY Zenon, <1>1, <1>2, <1>3, <1>6, Facts, PostWritesRunning
  <2>2. eng' = [eng EXCEPT ![m] = [[eng[m] EXCEPT !.start = "done"] EXCEPT !.lock =
             "free", !.statusChan = Channel(eng[m])]]
    BY <1>1, <1>2, <1>3, <1>6 DEF UpdateWrite, Channel
  <2>3. file' = OnFile(eng[m], m) /\ UNCHANGED <<sock, cli>>
    BY <1>1, <1>2, <1>3, <1>6 DEF UpdateWrite, OnFile
  <2> QED
    BY Zenon, <1>1, <1>2, <1>3, <1>6, <2>1, <2>2, <2>3, WriteStep
<1> QED
    BY <1>1, <1>2, <1>3, <1>4, <1>5, <1>6 DEF PostStartProcess, UpdateState,
        UpdateWrite

\* The next connection.
LEMMA ControlAcceptKeeps ==
    ASSUME NEW m, Masters = {m}, Inv(m), ControlAccept(m)
    PROVE  Keeps(m)
<1>1. /\ eng[m].main \notin {"idle", "exited"} /\ eng[m].control = "accept" /\ eng[m].backlog # <<>>
      /\ UNCHANGED <<file, sock, cli>>
    BY DEF ControlAccept, Alive
<1>2. Good([eng[m] EXCEPT !.control = "decode", !.cur = Head(eng[m].backlog),
             !.backlog = Tail(eng[m].backlog)], file, sock, m, cli)
    BY Zenon, <1>1, Facts, ControlAccepts
<1>3. eng' = [eng EXCEPT ![m] = [eng[m] EXCEPT !.control = "decode", !.cur =
             Head(eng[m].backlog), !.backlog = Tail(eng[m].backlog)]]
    BY Zenon, <1>1 DEF ControlAccept
<1> QED
    BY Zenon, <1>1, <1>2, <1>3, QuietStep

\* The message of a command, or the end of its connection.
LEMMA ControlDecodeKeeps ==
    ASSUME NEW m, Masters = {m}, Inv(m), ControlDecode(m)
    PROVE  Keeps(m)
<1>1. /\ eng[m].main \notin {"idle", "exited"} /\ eng[m].control = "decode"
      /\ UNCHANGED <<file, sock, cli>>
    BY DEF ControlDecode, Alive
<1>2. CASE /\ cli[eng[m].cur].op \in {"start", "pause", "resume"}
            /\ eng' = [eng EXCEPT ![m].control = cli[eng[m].cur].op]
  <2>1. Good([eng[m] EXCEPT !.control = cli[eng[m].cur].op], file, sock, m, cli)
    BY <1>1, <1>2, Facts, DecodeGets
  <2>2. eng' = [eng EXCEPT ![m] = [eng[m] EXCEPT !.control = cli[eng[m].cur].op]]
    BY <1>1, <1>2 DEF ControlDecode
  <2> QED
    BY Zenon, <1>1, <1>2, <2>1, <2>2, QuietStep
<1>3. CASE eng' = [eng EXCEPT ![m].control = "done", ![m].fatal = Send(eng[m], "err")]
  <2>1. Good([eng[m] EXCEPT !.control = "done", !.fatal = Send(eng[m], "err")], file,
             sock, m, cli)
    BY Zenon, <1>1, <1>3, Facts, DecodeFails
  <2>2. eng' = [eng EXCEPT ![m] = [eng[m] EXCEPT !.control = "done", !.fatal =
             Send(eng[m], "err")]]
    BY Zenon, <1>1, <1>3 DEF ControlDecode
  <2> QED
    BY Zenon, <1>1, <1>3, <2>1, <2>2, QuietStep
<1> QED
    BY <1>1, <1>2, <1>3 DEF ControlDecode

\* The first start, and later ones.
LEMMA ControlStartKeeps ==
    ASSUME NEW m, Masters = {m}, Inv(m), ControlStart(m)
    PROVE  Keeps(m)
<1>1. /\ eng[m].main \notin {"idle", "exited"} /\ eng[m].control = "start"
      /\ UNCHANGED <<file, sock, cli>>
    BY DEF ControlStart, Alive
<1>2. CASE eng[m].started
  <2>1. Good([eng[m] EXCEPT !.control = "close"], file, sock, m, cli)
    BY <1>1, <1>2, Facts, StartsAgain
  <2>2. eng' = [eng EXCEPT ![m] = [eng[m] EXCEPT !.control = "close"]]
    BY <1>1, <1>2 DEF ControlStart
  <2> QED
    BY Zenon, <1>1, <1>2, <2>1, <2>2, QuietStep
<1>3. CASE ~eng[m].started /\ (Ended(m) \/ eng[m].start = "done")
  <2>1. Good([eng[m] EXCEPT !.started = TRUE, !.control = "done", !.fatal =
             Send(eng[m], "err")], file, sock, m, cli)
    BY Zenon, <1>1, <1>3, Facts, StartsNot
  <2>2. eng' = [eng EXCEPT ![m] = [eng[m] EXCEPT !.started = TRUE, !.control = "done",
             !.fatal = Send(eng[m], "err")]]
    BY Zenon, <1>1, <1>3 DEF ControlStart
  <2> QED
    BY Zenon, <1>1, <1>3, <2>1, <2>2, QuietStep
<1>4. CASE ~eng[m].started /\ ~Ended(m) /\ eng[m].start # "done"
  <2>1. Good([eng[m] EXCEPT !.started = TRUE, !.control = "wait", !.startChan = TRUE,
             !.proc = "go"], file, sock, m, cli)
    BY Zenon, <1>1, <1>4, Facts, StartsProc DEF Ended
  <2>2. eng' = [eng EXCEPT ![m] = [eng[m] EXCEPT !.started = TRUE, !.control = "wait",
             !.startChan = TRUE, !.proc = "go"]]
    BY Zenon, <1>1, <1>4 DEF ControlStart
  <2> QED
    BY Zenon, <1>1, <1>4, <2>1, <2>2, QuietStep
<1> QED
    BY <1>1, <1>2, <1>3, <1>4 DEF ControlStart

\* The status of a started container is on file.
LEMMA WaitStatusUpdateKeeps ==
    ASSUME NEW m, Masters = {m}, Inv(m), WaitStatusUpdate(m)
    PROVE  Keeps(m)
<1>1. /\ eng[m].main \notin {"idle", "exited"} /\ eng[m].control = "wait"
      /\ eng[m].statusChan = "full" /\ UNCHANGED <<file, sock, cli>>
    BY DEF WaitStatusUpdate, Alive
<1>2. Good([eng[m] EXCEPT !.control = "close", !.statusChan = "nil"], file, sock, m,
             cli)
    BY Zenon, <1>1, Facts, StatusUpdated
<1>3. eng' = [eng EXCEPT ![m] = [eng[m] EXCEPT !.control = "close", !.statusChan =
             "nil"]]
    BY Zenon, <1>1 DEF WaitStatusUpdate
<1> QED
    BY Zenon, <1>1, <1>2, <1>3, QuietStep

\* The command that the master serves, in any of these places, found a container
\* that was started.
LEMMA ServesBegun ==
    ASSUME NEW m, Masters = {m}, Inv(m), eng[m].main \notin {"idle", "exited"},
           eng[m].control \in {"pause", "paused", "resume", "thaw"}
    PROVE  file.status \in Begun
<1>1. PICK c \in Clients : c = eng[m].cur
    BY Facts DEF QueueInv
<1>2. cli[c].conn # "none" /\ cli[c].op \in {"pause", "resume"}
    BY <1>1, Facts DEF QueueInv
<1>3. ClientInv(cli[c], file, m)
    BY DEF Inv
<1> QED
    BY <1>2, <1>3 DEF ClientInv

\* Pause: the freezer, then the status.
LEMMA ControlPauseKeeps ==
    ASSUME NEW m, Masters = {m}, Inv(m), ControlPause(m)
    PROVE  Keeps(m)
<1>1. eng[m].main \notin {"idle", "exited"} /\ eng[m].control \in {"pause", "paused"}
    BY DEF ControlPause, UpdateState, UpdateWrite, Alive
<1>2. eng[m].create \notin {"add", "write"} /\ ~Deleted(eng[m])
    BY <1>1, Facts DEF EngineInv, FreshInv, StartInv, LockInv, MainInv, Deleted
<1>3. file # Absent /\ file.status \in Begun
    BY <1>1, <1>2, IsOnFile, ServesBegun
<1>4. CASE /\ eng[m].control = "pause" /\ eng[m].main \in {"wait", "clean"} /\ UNCHANGED <<file, sock, cli>>
            /\ eng' = [eng EXCEPT ![m] = [eng[m] EXCEPT !.control = "paused", !.frozen = TRUE]]
  <2>1. Good([eng[m] EXCEPT !.control = "paused", !.frozen = TRUE], file, sock, m,
             cli)
    BY Zenon, <1>1, <1>2, <1>3, <1>4, Facts, PauseFreezes
  <2>2. eng' = [eng EXCEPT ![m] = [eng[m] EXCEPT !.control = "paused", !.frozen =
             TRUE]]
    BY <1>1, <1>2, <1>3, <1>4 DEF ControlPause, UpdateState, UpdateWrite
  <2> QED
    BY Zenon, <1>1, <1>2, <1>3, <1>4, <2>1, <2>2, QuietStep
<1>5. CASE /\ eng[m].control = "pause" /\ UNCHANGED <<file, sock, cli>>
            /\ eng' = [eng EXCEPT ![m] = [eng[m] EXCEPT !.control = "done", !.fatal = Send(eng[m], "err")]]
  <2>1. Good([eng[m] EXCEPT !.control = "done", !.fatal = Send(eng[m], "err")], file,
             sock, m, cli)
    BY Zenon, <1>1, <1>2, <1>3, <1>5, Facts, ControlFails
  <2>2. eng' = [eng EXCEPT ![m] = [eng[m] EXCEPT !.control = "done", !.fatal =
             Send(eng[m], "err")]]
    BY <1>1, <1>2, <1>3, <1>5 DEF ControlPause, UpdateState, UpdateWrite
  <2> QED
    BY Zenon, <1>1, <1>2, <1>3, <1>5, <2>1, <2>2, QuietStep
<1>6. CASE /\ eng[m].control = "paused" /\ eng[m].mem = "stopped" /\ eng[m].lock = "free"
            /\ UNCHANGED <<file, sock, cli>>
            /\ eng' = [eng EXCEPT ![m] = [eng[m] EXCEPT !.control = "close"]]
  <2>1. Good([eng[m] EXCEPT !.control = "close"], file, sock, m, cli)
    BY <1>1, <1>2, <1>3, <1>6, Facts, PauseIsStopped
  <2>2. eng' = [eng EXCEPT ![m] = [eng[m] EXCEPT !.control = "close"]]
    BY <1>1, <1>2, <1>3, <1>6 DEF ControlPause, UpdateState, UpdateWrite
  <2> QED
    BY Zenon, <1>1, <1>2, <1>3, <1>6, <2>1, <2>2, QuietStep
<1>7. CASE /\ eng[m].control = "paused" /\ eng[m].mem # "stopped" /\ eng[m].lock = "free"
            /\ UNCHANGED <<file, sock, cli>>
            /\ eng' = [eng EXCEPT ![m] =
                 [eng[m] EXCEPT !.lock = "control", !.old = eng[m].mem, !.mem = "paused"]]
  <2>1. Good([eng[m] EXCEPT !.lock = "control", !.old = eng[m].mem, !.mem = "paused"],
             file, sock, m, cli)
    BY Zenon, <1>1, <1>2, <1>3, <1>7, Facts, PauseTakes
  <2>2. eng' = [eng EXCEPT ![m] = [eng[m] EXCEPT !.lock = "control", !.old =
             eng[m].mem, !.mem = "paused"]]
    BY <1>1, <1>2, <1>3, <1>7 DEF ControlPause, UpdateState, UpdateWrite
  <2> QED
    BY Zenon, <1>1, <1>2, <1>3, <1>7, <2>1, <2>2, QuietStep
<1>8. CASE /\ eng[m].control = "paused" /\ eng[m].lock = "control"
            /\ UpdateWrite(m, "control", [eng[m] EXCEPT !.control = "close"])
  <2>1. Good([[eng[m] EXCEPT !.control = "close"] EXCEPT !.lock = "free", !.statusChan
             = Channel(eng[m])], OnFile(eng[m], m), sock, m, cli)
    BY Zenon, <1>1, <1>2, <1>3, <1>8, Facts, PauseWrites
  <2>2. eng' = [eng EXCEPT ![m] = [[eng[m] EXCEPT !.control = "close"] EXCEPT !.lock =
             "free", !.statusChan = Channel(eng[m])]]
    BY <1>1, <1>2, <1>3, <1>8 DEF UpdateWrite, Channel
  <2>3. file' = OnFile(eng[m], m) /\ UNCHANGED <<sock, cli>>
    BY <1>1, <1>2, <1>3, <1>8 DEF UpdateWrite, OnFile
  <2> QED
    BY Zenon, <1>1, <1>2, <1>3, <1>8, <2>1, <2>2, <2>3, WriteStep
<1> QED
    BY <1>1, <1>2, <1>3, <1>4, <1>5, <1>6, <1>7, <1>8 DEF ControlPause, UpdateState,
        UpdateWrite

\* Resume: the status, then the freezer.
LEMMA ControlResumeKeeps ==
    ASSUME NEW m, Masters = {m}, Inv(m), ControlResume(m)
    PROVE  Keeps(m)
<1>1. eng[m].main \notin {"idle", "exited"} /\ eng[m].control \in {"thaw", "resume"}
    BY DEF ControlResume, UpdateState, UpdateWrite, Alive
<1>2. eng[m].create \notin {"add", "write"} /\ ~Deleted(eng[m])
    BY <1>1, Facts DEF EngineInv, FreshInv, StartInv, LockInv, MainInv, Deleted
<1>3. file # Absent /\ file.status \in Begun
    BY <1>1, <1>2, IsOnFile, ServesBegun
<1>4. CASE /\ eng[m].control = "thaw" /\ eng[m].main \in {"wait", "clean"} /\ UNCHANGED <<file, sock, cli>>
            /\ eng' = [eng EXCEPT ![m] = [eng[m] EXCEPT !.control = "close", !.frozen = FALSE]]
  <2>1. Good([eng[m] EXCEPT !.control = "close", !.frozen = FALSE], file, sock, m,
             cli)
    BY Zenon, <1>1, <1>2, <1>3, <1>4, Facts, Thaws
  <2>2. eng' = [eng EXCEPT ![m] = [eng[m] EXCEPT !.control = "close", !.frozen =
             FALSE]]
    BY <1>1, <1>2, <1>3, <1>4 DEF ControlResume, UpdateState, UpdateWrite
  <2> QED
    BY Zenon, <1>1, <1>2, <1>3, <1>4, <2>1, <2>2, QuietStep
<1>5. CASE /\ eng[m].control = "thaw" /\ UNCHANGED <<file, sock, cli>>
            /\ eng' = [eng EXCEPT ![m] = [eng[m] EXCEPT !.control = "done", !.fatal = Send(eng[m], "err")]]
  <2>1. Good([eng[m] EXCEPT !.control = "done", !.fatal = Send(eng[m], "err")], file,
             sock, m, cli)
    BY Zenon, <1>1, <1>2, <1>3, <1>5, Facts, ControlFails
  <2>2. eng' = [eng EXCEPT ![m] = [eng[m] EXCEPT !.control = "done", !.fatal =
             Send(eng[m], "err")]]
    BY <1>1, <1>2, <1>3, <1>5 DEF ControlResume, UpdateState, UpdateWrite
  <2> QED
    BY Zenon, <1>1, <1>2, <1>3, <1>5, <2>1, <2>2, QuietStep
<1>6. CASE /\ eng[m].control = "resume" /\ eng[m].mem = "stopped" /\ eng[m].lock = "free"
            /\ UNCHANGED <<file, sock, cli>>
            /\ eng' = [eng EXCEPT ![m] = [eng[m] EXCEPT !.control = "thaw"]]
  <2>1. Good([eng[m] EXCEPT !.control = "thaw"], file, sock, m, cli)
    BY <1>1, <1>2, <1>3, <1>6, Facts, ResumeIsStopped
  <2>2. eng' = [eng EXCEPT ![m] = [eng[m] EXCEPT !.control = "thaw"]]
    BY <1>1, <1>2, <1>3, <1>6 DEF ControlResume, UpdateState, UpdateWrite
  <2> QED
    BY Zenon, <1>1, <1>2, <1>3, <1>6, <2>1, <2>2, QuietStep
<1>7. CASE /\ eng[m].control = "resume" /\ eng[m].mem # "stopped" /\ eng[m].lock = "free"
            /\ UNCHANGED <<file, sock, cli>>
            /\ eng' = [eng EXCEPT ![m] =
                 [eng[m] EXCEPT !.lock = "control", !.old = eng[m].mem, !.mem = "running"]]
  <2>1. Good([eng[m] EXCEPT !.lock = "control", !.old = eng[m].mem, !.mem =
             "running"], file, sock, m, cli)
    BY Zenon, <1>1, <1>2, <1>3, <1>7, Facts, ResumeTakes
  <2>2. eng' = [eng EXCEPT ![m] = [eng[m] EXCEPT !.lock = "control", !.old =
             eng[m].mem, !.mem = "running"]]
    BY <1>1, <1>2, <1>3, <1>7 DEF ControlResume, UpdateState, UpdateWrite
  <2> QED
    BY Zenon, <1>1, <1>2, <1>3, <1>7, <2>1, <2>2, QuietStep
<1>8. CASE /\ eng[m].control = "resume" /\ eng[m].lock = "control"
            /\ UpdateWrite(m, "control", [eng[m] EXCEPT !.control = "thaw"])
  <2>1. Good([[eng[m] EXCEPT !.control = "thaw"] EXCEPT !.lock = "free", !.statusChan
             = Channel(eng[m])], OnFile(eng[m], m), sock, m, cli)
    BY Zenon, <1>1, <1>2, <1>3, <1>8, Facts, ResumeWrites
  <2>2. eng' = [eng EXCEPT ![m] = [[eng[m] EXCEPT !.control = "thaw"] EXCEPT !.lock =
             "free", !.statusChan = Channel(eng[m])]]
    BY <1>1, <1>2, <1>3, <1>8 DEF UpdateWrite, Channel
  <2>3. file' = OnFile(eng[m], m) /\ UNCHANGED <<sock, cli>>
    BY <1>1, <1>2, <1>3, <1>8 DEF UpdateWrite, OnFile
  <2> QED
    BY Zenon, <1>1, <1>2, <1>3, <1>8, <2>1, <2>2, <2>3, WriteStep
<1> QED
    BY <1>1, <1>2, <1>3, <1>4, <1>5, <1>6, <1>7, <1>8 DEF ControlResume, UpdateState,
        UpdateWrite

\* The monitor.
LEMMA MonitorContainerKeeps ==
    ASSUME NEW m, Masters = {m}, Inv(m), MonitorContainer(m)
    PROVE  Keeps(m)
<1>1. /\ eng[m].main \notin {"idle", "exited"} /\ eng[m].proc \in {"failed", "dead"}
      /\ UNCHANGED <<file, sock, cli>>
    BY DEF MonitorContainer, Alive, Ended
<1>2. Good([eng[m] EXCEPT !.monitor = "done", !.fatal = Send(eng[m], "nil")], file,
             sock, m, cli)
    BY Zenon, <1>1, Facts, Monitors
<1>3. eng' = [eng EXCEPT ![m] = [eng[m] EXCEPT !.monitor = "done", !.fatal =
             Send(eng[m], "nil")]]
    BY Zenon, <1>1 DEF MonitorContainer
<1> QED
    BY Zenon, <1>1, <1>2, <1>3, QuietStep

\* The main goroutine leaves its wait.
LEMMA MainFatalKeeps ==
    ASSUME NEW m, Masters = {m}, Inv(m), MainFatal(m)
    PROVE  Keeps(m)
<1>1. /\ eng[m].main = "wait" /\ eng[m].fatal # <<>>
      /\ UNCHANGED <<file, sock, cli>>
    BY DEF MainFatal
<1>2. PICK b \in BOOLEAN : b <=> Head(eng[m].fatal) = "err"
    BY Zenon
<1>3. b <=> eng[m].fatal = <<"err">>
  <2>1. eng[m].fatal \in {<<"nil">>, <<"err">>}
    BY <1>1, Facts DEF Engines
  <2>2. CASE eng[m].fatal = <<"nil">>
    BY <1>2, <2>2
  <2>3. CASE eng[m].fatal = <<"err">>
    BY <1>2, <2>3
  <2> QED
    BY <2>1, <2>2, <2>3
<1>4. Good([eng[m] EXCEPT !.main = "clean", !.fatalErr = b, !.fatal = <<>>], file, sock, m, cli)
    BY Zenon, <1>1, <1>3, Facts, CleanupBegins
<1>5. b = (Head(eng[m].fatal) = "err")
    BY <1>2
<1>6. eng' = [eng EXCEPT ![m] = [eng[m] EXCEPT !.main = "clean", !.fatalErr = b,
                                                !.fatal = <<>>]]
    BY Zenon, <1>5 DEF MainFatal
<1> QED
    BY Zenon, <1>1, <1>4, <1>6, QuietStep

\* The cleanup decides on the status in memory.
LEMMA CleanupContainerKeeps ==
    ASSUME NEW m, Masters = {m}, Inv(m), CleanupContainer(m)
    PROVE  Keeps(m)
<1>1. eng[m].main = "clean" /\ UNCHANGED <<file, sock, cli>>
    BY DEF CleanupContainer
<1>2. eng[m].exit \in {"none", "process", "fatal"}
    BY Facts DEF Engines
<1>3. CASE eng[m].mem = "creating"
  <2>1. Good([eng[m] EXCEPT !.frozen = FALSE, !.main = "delete", !.exit =
             eng[m].exit], file, sock, m, cli)
    BY Zenon, <1>1, <1>2, <1>3, Facts, CleanupAborts
  <2>2. eng' = [eng EXCEPT ![m] = [eng[m] EXCEPT !.frozen = FALSE, !.main = "delete",
             !.exit = eng[m].exit]]
    BY Zenon, <1>1, <1>2, <1>3 DEF CleanupContainer
  <2> QED
    BY Zenon, <1>1, <1>2, <1>3, <2>1, <2>2, QuietStep
<1>4. CASE eng[m].mem # "creating" /\ eng[m].fatalErr
  <2>1. Good([eng[m] EXCEPT !.frozen = FALSE, !.main = "stop", !.exit = "fatal"],
             file, sock, m, cli)
    BY Zenon, <1>1, <1>2, <1>4, Facts, CleanupDecides
  <2>2. eng' = [eng EXCEPT ![m] = [eng[m] EXCEPT !.frozen = FALSE, !.main = "stop",
             !.exit = "fatal"]]
    BY Zenon, <1>1, <1>2, <1>4 DEF CleanupContainer
  <2> QED
    BY Zenon, <1>1, <1>2, <1>4, <2>1, <2>2, QuietStep
<1>5. CASE eng[m].mem # "creating" /\ ~eng[m].fatalErr
  <2>1. Good([eng[m] EXCEPT !.frozen = FALSE, !.main = "stop", !.exit = "process"],
             file, sock, m, cli)
    BY Zenon, <1>1, <1>2, <1>5, Facts, CleanupDecides
  <2>2. eng' = [eng EXCEPT ![m] = [eng[m] EXCEPT !.frozen = FALSE, !.main = "stop",
             !.exit = "process"]]
    BY Zenon, <1>1, <1>2, <1>5 DEF CleanupContainer
  <2> QED
    BY Zenon, <1>1, <1>2, <1>5, <2>1, <2>2, QuietStep
<1> QED
    BY <1>1, <1>2, <1>3, <1>4, <1>5 DEF CleanupContainer

\* The files of a container whose creation failed are removed.
LEMMA CleanupDeleteKeeps ==
    ASSUME NEW m, Masters = {m}, Inv(m), CleanupDelete(m)
    PROVE  Keeps(m)
<1>1. eng[m].main = "delete" /\ file' = Absent /\ sock' = None /\ cli' = cli
    BY DEF CleanupDelete
<1>2. Good([eng[m] EXCEPT !.main = "exit"], file', sock', m, cli)
    BY <1>1, Facts, CleanupDeletes
<1>3. eng' = [eng EXCEPT ![m] = [eng[m] EXCEPT !.main = "exit"]]
    BY DEF CleanupDelete
<1>4. file.status = "creating" /\ file'.status = "none"
    BY <1>1, Facts DEF EngineInv, FreshInv, FileInv, Deleted, Shown, MainInv, Absent
<1>5. Abstract!Next
    BY <1>4 DEF Abstract!Next, Abstract!Abort
<1>6. file' \in Files /\ sock' \in {m, None}
    BY <1>1 DEF Files, Absent, Statuses
<1> QED
    BY Zenon, <1>1, <1>2, <1>3, <1>4, <1>5, <1>6, MasterStep DEF Made, Begun

\* The status is set to stopped.
LEMMA CleanupStopKeeps ==
    ASSUME NEW m, Masters = {m}, Inv(m), CleanupStop(m)
    PROVE  Keeps(m)
<1>1. eng[m].main = "stop" /\ eng[m].main \notin {"idle", "exited"}
    BY DEF CleanupStop, UpdateState, UpdateWrite, Alive
<1>2. eng[m].create \notin {"add", "write"} /\ ~Deleted(eng[m])
    BY <1>1, Facts DEF EngineInv, FreshInv, StartInv, LockInv, MainInv, Deleted
<1>3. file # Absent
    BY <1>2, IsOnFile
<1>4. eng[m].lock = "free" => eng[m].mem # "stopped"
    BY <1>1, Facts DEF EngineInv, MainInv
<1>5. CASE /\ eng[m].mem # "stopped" /\ eng[m].lock = "free" /\ UNCHANGED <<file, sock, cli>>
            /\ eng' = [eng EXCEPT ![m] =
                 [eng[m] EXCEPT !.lock = "main", !.old = eng[m].mem, !.mem = "stopped"]]
  <2>1. Good([eng[m] EXCEPT !.lock = "main", !.old = eng[m].mem, !.mem = "stopped"],
             file, sock, m, cli)
    BY Zenon, <1>1, <1>2, <1>3, <1>4, <1>5, Facts, StopTakes
  <2>2. eng' = [eng EXCEPT ![m] = [eng[m] EXCEPT !.lock = "main", !.old = eng[m].mem,
             !.mem = "stopped"]]
    BY <1>1, <1>2, <1>3, <1>4, <1>5 DEF CleanupStop, UpdateState, UpdateWrite
  <2> QED
    BY Zenon, <1>1, <1>2, <1>3, <1>4, <1>5, <2>1, <2>2, QuietStep
<1>6. CASE UpdateWrite(m, "main", [eng[m] EXCEPT !.main = "sockets"]) /\ eng[m].lock = "main"
  <2>1. Good([[eng[m] EXCEPT !.main = "sockets"] EXCEPT !.lock = "free", !.statusChan
             = Channel(eng[m])], OnFile(eng[m], m), sock, m, cli)
    BY Zenon, <1>1, <1>2, <1>3, <1>4, <1>6, Facts, StopWrites
  <2>2. eng' = [eng EXCEPT ![m] = [[eng[m] EXCEPT !.main = "sockets"] EXCEPT !.lock =
             "free", !.statusChan = Channel(eng[m])]]
    BY <1>1, <1>2, <1>3, <1>4, <1>6 DEF UpdateWrite, Channel
  <2>3. file' = OnFile(eng[m], m) /\ UNCHANGED <<sock, cli>>
    BY <1>1, <1>2, <1>3, <1>4, <1>6 DEF UpdateWrite, OnFile
  <2> QED
    BY Zenon, <1>1, <1>2, <1>3, <1>4, <1>6, <2>1, <2>2, <2>3, WriteStep
<1> QED
    BY <1>1, <1>2, <1>3, <1>4, <1>5, <1>6 DEF CleanupStop, UpdateState, UpdateWrite

\* The sockets are removed.
LEMMA CleanupSocketsKeeps ==
    ASSUME NEW m, Masters = {m}, Inv(m), CleanupSockets(m)
    PROVE  Keeps(m)
<1>1. eng[m].main = "sockets" /\ file' = file /\ cli' = cli /\ sock' \in {m, None}
    BY Facts DEF CleanupSockets
<1>2. Good([eng[m] EXCEPT !.main = "exit"], file', sock', m, cli)
    BY <1>1, Facts, SocketsRemoved
<1>3. eng' = [eng EXCEPT ![m] = [eng[m] EXCEPT !.main = "exit"]]
    BY DEF CleanupSockets
<1> QED
    BY Zenon, <1>1, <1>2, <1>3, Facts, MasterStep

-----------------------------------------------------------------------------
\* A step that changes commands and the master's memory, not the file.
LEMMA CommandsStep ==
    ASSUME NEW m, Masters = {m}, Inv(m), NEW e2, Good(e2, file, sock, m, cli'),
           eng' = [eng EXCEPT ![m] = e2], UNCHANGED <<file, sock>>,
           cli' \in [Clients -> Commands],
           \A c \in Clients : ClientInv(cli'[c], file, m)
    PROVE  Keeps(m)
<1>1. eng'[m] = e2 /\ eng' \in [Masters -> Engines]
    BY DEF Inv, TypeOK, Good
<1>2. TypeOK'
    BY <1>1 DEF Inv, TypeOK
<1>3. EngineInv(eng'[m], file', sock', m) /\ QueueInv(eng'[m], cli')
    BY <1>1 DEF Good
<1> QED
    BY <1>2, <1>3 DEF Keeps, Inv

\* The commands after a step of command c.
LEMMA OneCommand ==
    ASSUME NEW m, Masters = {m}, Inv(m), NEW c \in Clients, NEW q \in Commands,
           ClientInv(q, file, m), cli' = [cli EXCEPT ![c] = q],
           cli[c].conn # "none" => q.conn # "none" /\ q.op = cli[c].op
    PROVE  /\ cli' \in [Clients -> Commands]
           /\ \A d \in Clients : ClientInv(cli'[d], file, m)
           /\ StayConnected(cli, cli')
           /\ QueueInv(eng[m], cli')
<1>1. cli \in [Clients -> Commands] /\ \A d \in Clients : ClientInv(cli[d], file, m)
    BY DEF Inv, TypeOK
<1>2. StayConnected(cli, cli')
    BY <1>1 DEF StayConnected
<1>3. QueueInv(eng[m], cli')
    BY <1>2, Facts, QueueKept
<1> QED
    BY <1>1, <1>2, <1>3

\* A step of a command alone.
LEMMA CommandStep ==
    ASSUME NEW m, Masters = {m}, Inv(m), NEW c \in Clients, NEW q \in Commands,
           ClientInv(q, file, m), cli' = [cli EXCEPT ![c] = q],
           cli[c].conn # "none" => q.conn # "none" /\ q.op = cli[c].op,
           UNCHANGED <<file, sock, eng>>
    PROVE  Keeps(m)
<1>1. QueueInv(eng[m], cli')
    BY Zenon, OneCommand
<1>2. Good(eng[m], file, sock, m, cli')
    BY <1>1, Facts DEF Good
<1>3. eng' = [eng EXCEPT ![m] = eng[m]]
    BY DEF Inv, TypeOK
<1> QED
    BY Zenon, <1>2, <1>3, OneCommand, CommandsStep

\* The connection is closed: the acknowledgement.
LEMMA ControlCloseKeeps ==
    ASSUME NEW m, Masters = {m}, Inv(m), ControlClose(m)
    PROVE  Keeps(m)
<1>1. eng[m].main \notin {"idle", "exited"} /\ eng[m].control = "close"
    BY DEF ControlClose, Alive
<1>2. PICK c \in Clients : c = eng[m].cur
    BY <1>1, Facts DEF QueueInv
<1>3. PICK q : q = [cli[c] EXCEPT !.conn = "eof"]
    BY Zenon
<1>4. cli[c] \in Commands /\ cli[c].conn # "none" /\ ClientInv(cli[c], file, m)
    BY <1>1, <1>2, Facts DEF QueueInv, Inv, TypeOK
<1>5. cli[c].op = "start" => file.status \in Begun
    BY <1>1, <1>2, Facts DEF QueueInv, EngineInv, ControlInv
<1>6. q \in Commands /\ q.conn = "eof" /\ q.op = cli[c].op
    BY <1>3, <1>4 DEF Commands
<1>7. ClientInv(q, file, m)
    BY <1>3, <1>4, <1>5 DEF Commands, ClientInv
<1>8. cli' = [cli EXCEPT ![c] = q]
    BY <1>2, <1>3 DEF ControlClose
<1>9. QueueInv(eng[m], cli')
    BY Zenon, <1>6, <1>7, <1>8, OneCommand
<1>10. Good([eng[m] EXCEPT !.control = "accept", !.cur = None], file, sock, m, cli')
    BY Zenon, <1>1, <1>9, Facts, Closes
<1>11. eng' = [eng EXCEPT ![m] = [eng[m] EXCEPT !.control = "accept", !.cur = None]]
    BY Zenon DEF ControlClose
<1>12. UNCHANGED <<file, sock>>
    BY DEF ControlClose
<1> QED
    BY Zenon, <1>6, <1>7, <1>8, <1>10, <1>11, <1>12, OneCommand, CommandsStep

\* The master exits, and its connections end: it is stopped by then if there are any.
LEMMA MainExitKeeps ==
    ASSUME NEW m, Masters = {m}, Inv(m), MainExit(m)
    PROVE  Keeps(m)
<1>1. eng[m].main = "exit" /\ UNCHANGED <<file, sock>>
    BY DEF MainExit
<1>2. file.status \in {"none", "stopped"}
    BY <1>1, Facts DEF EngineInv, FreshInv, FileInv, Deleted, Shown, MainInv, LockInv, Absent,
                       Engines
<1>3. ASSUME NEW c \in Clients
      PROVE  /\ cli'[c] \in Commands /\ ClientInv(cli'[c], file, m)
             /\ cli[c].conn # "none" => cli'[c].conn # "none" /\ cli'[c].op = cli[c].op
  <2>1. cli[c] \in Commands /\ ClientInv(cli[c], file, m)
    BY DEF Inv, TypeOK
  <2>2. \/ cli'[c] = cli[c]
        \/ cli[c].conn = "open" /\ cli'[c] = [cli[c] EXCEPT !.conn = "eof"]
    BY DEF MainExit
  <2>3. CASE cli'[c] = cli[c]
    BY <2>1, <2>3
  <2>4. CASE cli[c].conn = "open" /\ cli'[c] = [cli[c] EXCEPT !.conn = "eof"]
    <3>1. cli'[c] \in Commands
        BY <2>1, <2>4 DEF Commands
    <3>2. ClientInv(cli'[c], file, m)
        BY <1>2, <2>1, <2>4 DEF Commands, ClientInv, Made, Begun
    <3> QED
        BY <2>1, <2>4, <3>1, <3>2 DEF Commands
  <2> QED
    BY <2>2, <2>3, <2>4
<1>4. cli' \in [Clients -> Commands]
    BY <1>3 DEF MainExit
<1>5. QueueInv(eng[m], cli')
  <2>1. StayConnected(cli, cli')
    BY <1>3 DEF StayConnected
  <2> QED
    BY <2>1, Facts, QueueKept
<1>6. <<>> \in Seq(Clients)
    OBVIOUS
<1>7. Good([eng[m] EXCEPT !.main = "exited", !.proc = "dead", !.backlog = <<>>, !.cur = None],
           file, sock, m, cli')
    BY Zenon, <1>1, <1>5, <1>6, Facts, Exits
<1>8. eng' = [eng EXCEPT ![m] = [eng[m] EXCEPT !.main = "exited", !.proc = "dead",
                                              !.backlog = <<>>, !.cur = None]]
    BY Zenon DEF MainExit
<1> QED
    BY Zenon, <1>1, <1>3, <1>4, <1>7, <1>8, CommandsStep

-----------------------------------------------------------------------------
\* A command that returns closes its connection.  An "oci start" returns without error
\* only if the container was started.
LEMMA DoneKeeps ==
    ASSUME NEW m, Masters = {m}, Inv(m), NEW c \in Clients, NEW r \in {"ok", "error"},
           r = "ok" /\ cli[c].op = "start" => file.status \in Begun,
           cli[c].pc # "idle", cli' = [cli EXCEPT ![c] = Done(c, r)]
    PROVE  /\ Done(c, r) \in Commands /\ ClientInv(Done(c, r), file, m)
           /\ cli[c].conn # "none" => Done(c, r).conn # "none" /\ Done(c, r).op = cli[c].op
<1>1. PICK q \in Commands : q = cli[c]
    BY DEF Inv, TypeOK
<1>2. ClientInv(q, file, m)
    BY <1>1 DEF Inv
<1>3. PICK k \in {"none", "closed", "eof"} : k = IF q.conn = "open" THEN "closed" ELSE q.conn
    BY DEF Commands
<1>4. Done(c, r) = [q EXCEPT !.pc = "done", !.result = r, !.conn = k]
    BY <1>1, <1>3 DEF Done
<1>5. [q EXCEPT !.pc = "done", !.result = r, !.conn = k] \in Commands
    BY Zenon DEF Commands
<1>6. ClientInv([q EXCEPT !.pc = "done", !.result = r, !.conn = k], file, m)
    BY <1>1, <1>2, <1>3 DEF ClientInv, Commands
<1> QED
    BY <1>1, <1>3, <1>4, <1>5, <1>6 DEF Commands

\* A command reads the state and checks its status.
LEMMA BeginKeeps ==
    ASSUME NEW m, Masters = {m}, Inv(m), NEW c \in Clients, NEW op \in Ops \ {"delete"},
           Begin(c, op)
    PROVE  Keeps(m)
<1>1. cli[c].pc = "idle" /\ UNCHANGED <<file, sock, eng>>
    BY DEF Begin
<1>2. PICK q0 \in Commands : q0 = cli[c]
    BY DEF Inv, TypeOK
<1>3. ClientInv(q0, file, m) /\ q0.conn = "none" /\ q0.pc = "idle"
    BY <1>1, <1>2 DEF Inv, ClientInv
<1>4. CASE file = Absent \/ ~Allows(op, file.status)
  <2>1. PICK q : q = [q0 EXCEPT !.pc = "done", !.result = "error", !.conn = "none", !.op = op]
    OBVIOUS
  <2>2. q \in Commands
    BY Zenon, <2>1 DEF Commands
  <2>3. ClientInv(q, file, m)
    BY <1>3, <2>1 DEF Commands, ClientInv
  <2>4. cli' = [cli EXCEPT ![c] = q]
    BY Zenon, <1>2, <1>3, <1>4, <2>1 DEF Begin, Done
  <2> QED
    BY Zenon, <1>1, <1>2, <1>3, <2>2, <2>3, <2>4, CommandStep
<1>5. CASE ~(file = Absent \/ ~Allows(op, file.status))
  <2>1. PICK pc \in {"signal", "dial"} : pc = IF op = "kill" THEN "signal" ELSE "dial"
    OBVIOUS
  <2>2. PICK q : q = [q0 EXCEPT !.op = op, !.view = file, !.pc = pc]
    OBVIOUS
  <2>3. q \in Commands
    BY Zenon, <2>2, Facts DEF Commands
  <2>4. file.owner = m /\ file.status \in Made
    BY <1>5, Facts DEF EngineInv, FreshInv, FileInv, Allows, Made
  <2>5. op \in {"start", "kill", "killwait", "pause", "resume"}
    BY OciAssumption
  <2>6. op \in {"pause", "resume"} => file.status \in Begun
    BY <1>5 DEF Allows, Begun
  <2>7. ClientInv(q, file, m)
    BY <1>3, <2>1, <2>2, <2>4, <2>5, <2>6 DEF Commands, ClientInv
  <2>8. cli' = [cli EXCEPT ![c] = q]
    BY <1>2, <1>5, <2>1, <2>2 DEF Begin
  <2> QED
    BY Zenon, <1>1, <1>2, <1>3, <2>3, <2>7, <2>8, CommandStep
<1> QED
    BY <1>4, <1>5

\* A command connects to the control socket.
LEMMA DialKeeps ==
    ASSUME NEW m, Masters = {m}, Inv(m), NEW c \in Clients, Dial(c)
    PROVE  Keeps(m)
<1>1. cli[c].pc = "dial" /\ UNCHANGED <<file, sock>>
    BY DEF Dial
<1>2. CASE sock = None \/ eng[sock].main = "exited"
  <2>1. cli' = [cli EXCEPT ![c] = Done(c, "error")] /\ UNCHANGED eng
    BY <1>2 DEF Dial
  <2> QED
    BY Zenon, <1>1, <2>1, DoneKeeps, CommandStep
<1>3. CASE ~(sock = None \/ eng[sock].main = "exited")
  <2>1. sock = m /\ eng[m].main \notin {"idle", "exited"}
    BY <1>3, Facts DEF EngineInv, FreshInv
  <2>2. PICK q0 \in Commands : q0 = cli[c]
    BY DEF Inv, TypeOK
  <2>3. ClientInv(q0, file, m) /\ q0.pc = "dial"
    BY <1>1, <2>2 DEF Inv
  <2>4. PICK pc \in {"signal", "wait"} :
            pc = IF q0.op \in {"killwait", "delete"} THEN "signal" ELSE "wait"
    OBVIOUS
  <2>5. PICK q : q = [q0 EXCEPT !.conn = "open", !.pc = pc]
    OBVIOUS
  <2>6. q \in Commands
    BY Zenon, <2>5 DEF Commands
  <2>7. ClientInv(q, file, m)
    BY <2>3, <2>4, <2>5 DEF Commands, ClientInv
  <2>8. cli' = [cli EXCEPT ![c] = q]
    BY Zenon, <1>3, <2>2, <2>4, <2>5 DEF Dial
  <2>9. q.conn = "open" /\ q.op = q0.op
    BY <2>5 DEF Commands
  <2>10. cli'[c].conn = "open"
    BY <2>8, <2>9 DEF Inv, TypeOK
  <2>11. StayConnected(cli, cli')
    BY Zenon, <2>2, <2>6, <2>7, <2>8, <2>9, OneCommand
  <2>12. Good([eng[m] EXCEPT !.backlog = Append(eng[m].backlog, c)], file, sock, m, cli')
    BY <2>1, <2>10, <2>11, Facts, Dialled
  <2>13. eng' = [eng EXCEPT ![m] = [eng[m] EXCEPT !.backlog = Append(eng[m].backlog, c)]]
    BY <1>3, <2>1 DEF Dial
  <2> QED
    BY Zenon, <1>1, <2>2, <2>6, <2>7, <2>8, <2>9, <2>12, <2>13, OneCommand, CommandsStep
<1> QED
    BY <1>2, <1>3

\* The process of a container that was made is sent a signal.
LEMMA KillKeeps ==
    ASSUME NEW m, Masters = {m}, Inv(m), NEW c \in Clients, NEW s \in {"term", "kill"},
           cli[c].pc \in {"signal", "wait"}, ~Gone(c), Kill(c, s)
    PROVE  \E e2 : /\ e2 \in Engines /\ EngineInv(e2, file, sock, m)
                   /\ \A cl : QueueInv(eng[m], cl) => QueueInv(e2, cl)
                   /\ eng' = [eng EXCEPT ![m] = e2]
<1>1. cli[c].view.owner = m /\ file.status \in Made
    BY DEF Inv, ClientInv
<1>2. eng[m].main \notin {"idle", "exited"}
    BY <1>1, Facts DEF Gone, EngineInv, FreshInv, Absent, Made
<1>3. PICK g \in {"term", "kill"} : g = IF eng[m].signal = "kill" THEN "kill" ELSE s
    OBVIOUS
<1>4. PICK e2 : e2 = [eng[m] EXCEPT !.signal = g]
    BY Zenon
<1>5. \A cl : QueueInv(eng[m], cl) => Good(e2, file, sock, m, cl)
    BY <1>1, <1>2, <1>4, Facts, Signalled
<1>6. eng' = [eng EXCEPT ![m] = e2]
    BY Zenon, <1>1, <1>3, <1>4 DEF Kill
<1> QED
    BY Zenon, <1>5, <1>6, Facts DEF Good

\* A step of command c after which it is q, and sends a signal.
LEMMA SignalStep ==
    ASSUME NEW m, Masters = {m}, Inv(m), NEW c \in Clients, NEW s \in {"term", "kill"},
           cli[c].pc \in {"signal", "wait"}, ~Gone(c), Kill(c, s), UNCHANGED <<file, sock>>,
           NEW q \in Commands, ClientInv(q, file, m), cli' = [cli EXCEPT ![c] = q],
           cli[c].conn # "none" => q.conn # "none" /\ q.op = cli[c].op
    PROVE  Keeps(m)
<1>1. PICK e2 : /\ e2 \in Engines /\ EngineInv(e2, file, sock, m)
                /\ \A cl : QueueInv(eng[m], cl) => QueueInv(e2, cl)
                /\ eng' = [eng EXCEPT ![m] = e2]
    BY KillKeeps
<1>3. QueueInv(eng[m], cli')
    BY Zenon, OneCommand
<1>4. Good(e2, file, sock, m, cli')
    BY <1>1, <1>3 DEF Good
<1> QED
    BY Zenon, <1>1, <1>4, OneCommand, CommandsStep

\* oci kill, and the first signal of a kill that waits.
LEMMA SignalKeeps ==
    ASSUME NEW m, Masters = {m}, Inv(m), NEW c \in Clients, Signal(c)
    PROVE  Keeps(m)
<1>1. cli[c].pc = "signal" /\ UNCHANGED <<file, sock>>
    BY DEF Signal
<1>2. ClientInv(cli[c], file, m) /\ cli[c] \in Commands
    BY DEF Inv, TypeOK
<1>3. CASE Gone(c)
  <2>1. cli' = [cli EXCEPT ![c] = Done(c, "error")] /\ UNCHANGED eng
    BY <1>3 DEF Signal
  <2> QED
    BY Zenon, <1>1, <2>1, DoneKeeps, CommandStep
<1>4. CASE ~Gone(c) /\ cli[c].op = "kill"
  <2>1. cli' = [cli EXCEPT ![c] = Done(c, "ok")] /\ Kill(c, "term")
    BY <1>4 DEF Signal
  <2>2. /\ Done(c, "ok") \in Commands /\ ClientInv(Done(c, "ok"), file, m)
        /\ cli[c].conn # "none" =>
              Done(c, "ok").conn # "none" /\ Done(c, "ok").op = cli[c].op
    BY Zenon, <1>1, <1>4, <2>1, DoneKeeps
  <2> QED
    BY Zenon, <1>1, <1>4, <2>1, <2>2, SignalStep
<1>5. CASE ~Gone(c) /\ cli[c].op # "kill"
  <2>1. cli' = [cli EXCEPT ![c] = [cli[c] EXCEPT !.pc = "wait"]] /\ Kill(c, "term")
    BY <1>5 DEF Signal
  <2>2. PICK q : q = [cli[c] EXCEPT !.pc = "wait"]
    BY Zenon
  <2>3. q \in Commands /\ q.conn = cli[c].conn /\ q.op = cli[c].op
    BY <1>2, <2>2 DEF Commands
  <2>4. ClientInv(q, file, m)
    BY <1>1, <1>2, <1>5, <2>2 DEF Commands, ClientInv
  <2> QED
    BY Zenon, <1>1, <1>5, <2>1, <2>2, <2>3, <2>4, SignalStep
<1> QED
    BY <1>3, <1>4, <1>5

\* The connection has ended: what was asked for is done.
LEMMA AcknowledgedKeeps ==
    ASSUME NEW m, Masters = {m}, Inv(m), NEW c \in Clients, Acknowledged(c)
    PROVE  Keeps(m)
<1>1. cli[c].pc = "wait" /\ cli[c].conn = "eof" /\ UNCHANGED <<file, sock, eng>>
    BY DEF Acknowledged
<1>2. ClientInv(cli[c], file, m) /\ cli[c] \in Commands
    BY DEF Inv, TypeOK
<1>3. cli[c].op \in {"start", "killwait", "pause", "resume"}
    BY <1>1, <1>2 DEF ClientInv
<1>4. CASE cli[c].op \in {"start", "killwait"}
  <2>1. cli' = [cli EXCEPT ![c] = Done(c, "ok")]
    BY <1>4 DEF Acknowledged
  <2>2. cli[c].op = "start" => file.status \in Begun
    BY <1>1, <1>2 DEF ClientInv
  <2> QED
    BY Zenon, <1>1, <2>1, <2>2, DoneKeeps, CommandStep
<1>5. CASE cli[c].op \in {"pause", "resume"}
  <2>1. PICK q : q = [cli[c] EXCEPT !.pc = "check"]
    BY Zenon
  <2>2. cli' = [cli EXCEPT ![c] = q]
    BY Zenon, <1>5, <2>1 DEF Acknowledged
  <2>3. q \in Commands /\ q.conn = cli[c].conn /\ q.op = cli[c].op
    BY <1>2, <2>1 DEF Commands
  <2>4. ClientInv(q, file, m)
    BY <1>1, <1>2, <1>5, <2>1 DEF Commands, ClientInv
  <2> QED
    BY Zenon, <1>1, <2>2, <2>3, <2>4, CommandStep
<1> QED
    BY <1>3, <1>4, <1>5

\* A pause or resume looks at the status that it asked for.
LEMMA CheckKeeps ==
    ASSUME NEW m, Masters = {m}, Inv(m), NEW c \in Clients, Check(c)
    PROVE  Keeps(m)
<1>1. cli[c].pc = "check" /\ UNCHANGED <<file, sock, eng>>
    BY DEF Check
<1>2. PICK r \in {"ok", "error"} : cli' = [cli EXCEPT ![c] = Done(c, r)]
    BY Zenon DEF Check
<1>3. cli[c].op # "start"
    BY <1>1 DEF Inv, ClientInv
<1> QED
    BY Zenon, <1>1, <1>2, <1>3, DoneKeeps, CommandStep

\* The time-out of a kill that waits.
LEMMA TimeoutKeeps ==
    ASSUME NEW m, Masters = {m}, Inv(m), NEW c \in Clients, Timeout(c)
    PROVE  Keeps(m)
<1>1. cli[c].pc = "wait" /\ UNCHANGED <<file, sock>>
    BY DEF Timeout
<1>2. cli[c].op = "killwait"
    BY <1>1 DEF Timeout, Inv, ClientInv
<1>3. CASE Gone(c)
  <2>1. cli' = [cli EXCEPT ![c] = Done(c, "error")] /\ UNCHANGED eng
    BY <1>3 DEF Timeout
  <2> QED
    BY Zenon, <1>1, <2>1, DoneKeeps, CommandStep
<1>4. CASE ~Gone(c)
  <2>1. cli' = [cli EXCEPT ![c] = Done(c, "ok")] /\ Kill(c, "kill")
    BY <1>2, <1>4 DEF Timeout
  <2>2. /\ Done(c, "ok") \in Commands /\ ClientInv(Done(c, "ok"), file, m)
        /\ cli[c].conn # "none" =>
              Done(c, "ok").conn # "none" /\ Done(c, "ok").op = cli[c].op
    BY Zenon, <1>1, <1>2, <2>1, DoneKeeps
  <2> QED
    BY Zenon, <1>1, <1>4, <2>1, <2>2, SignalStep
<1> QED
    BY <1>3, <1>4

-----------------------------------------------------------------------------
\* The invariant holds at the beginning, with no file.
LEMMA InitInv ==
    ASSUME NEW m, Masters = {m}, Init
    PROVE  Inv(m)
<1>1. TypeOK
  <2>1. <<>> \in Seq(Clients) /\ "none" \in Statuses
    BY DEF Statuses
  <2>2. eng[m] \in Engines
    BY <2>1 DEF Init, Engines
  <2>3. eng \in [Masters -> Engines]
    BY <2>2 DEF Init
  <2>4. file \in Files
    BY DEF Init, Absent, Files, Statuses
  <2>5. \A c \in Clients : cli[c] \in Commands
    BY <2>4 DEF Init, Commands
  <2>6. cli \in [Clients -> Commands]
    BY <2>5 DEF Init
  <2> QED
    BY <2>3, <2>4, <2>6 DEF TypeOK, Init
<1>2. FreshInv(eng[m], file, sock) /\ FileInv(eng[m], file, m) /\ LockInv(eng[m])
    BY DEF Init, FreshInv, FileInv, LockInv
<1>3. StartInv(eng[m]) /\ MainInv(eng[m], file) /\ ControlInv(eng[m], file)
    BY DEF Init, StartInv, MainInv, ControlInv, Absent
<1>4. \A c \in Clients : ClientInv(cli[c], file, m)
    BY DEF Init, ClientInv
<1>5. QueueInv(eng[m], cli)
    BY DEF Init, QueueInv
<1> QED
    BY <1>1, <1>2, <1>3, <1>4, <1>5 DEF Inv, EngineInv

\* Every step keeps the invariant, and is a step of the lifecycle or leaves the status.
LEMMA NextKeeps ==
    ASSUME NEW m, Masters = {m}, "delete" \notin Ops, Inv(m), [Next]_vars
    PROVE  Keeps(m)
<1>1. CASE OciCreate(m) \/ Create(m) \/ Proc(m) \/ ProcEnds(m)
    BY <1>1, OciCreateKeeps, CreateAddKeeps, CreateWriteKeeps, CreateSetupKeeps,
       ProcStepsKeeps, ProcFailsKeeps, ProcEndsKeeps
    DEF Create, Proc
<1>2. CASE Start(m)
    BY <1>2, StartReadKeeps, PreStartProcessKeeps, StartCreatedKeeps, StartHooksKeeps,
       StartAwaitKeeps, StartExecKeeps, PostStartProcessKeeps
    DEF Start
<1>3. CASE Control(m)
    BY <1>3, ControlAcceptKeeps, ControlDecodeKeeps, ControlStartKeeps, WaitStatusUpdateKeeps,
       ControlPauseKeeps, ControlResumeKeeps, ControlCloseKeeps
    DEF Control
<1>4. CASE MonitorContainer(m) \/ Main(m)
    BY <1>4, MonitorContainerKeeps, MainFatalKeeps, CleanupContainerKeeps, CleanupDeleteKeeps,
       CleanupStopKeeps, CleanupSocketsKeeps, MainExitKeeps
    DEF Main
<1>5. ASSUME NEW c \in Clients, Command(c) PROVE Keeps(m)
  <2>1. cli[c].pc \notin {"reread", "remove"}
    BY DEF Inv, ClientInv
  <2> QED
    BY <1>5, <2>1, DialKeeps, SignalKeeps, AcknowledgedKeeps, CheckKeeps, TimeoutKeeps
    DEF Command, Reread, Remove
<1>6. ASSUME NEW c \in Clients, NEW op \in Ops, Begin(c, op) PROVE Keeps(m)
    BY <1>6, BeginKeeps
<1>7. CASE UNCHANGED vars
  <2>1. UNCHANGED <<file, sock, eng, cli>>
    BY <1>7 DEF vars
  <2> QED
    BY <2>1 DEF Keeps, Inv, TypeOK
<1>8. CASE Next
  <2>1. PICK m1 \in Masters : \/ OciCreate(m1) \/ Create(m1) \/ Proc(m1) \/ ProcEnds(m1)
                              \/ Start(m1) \/ Control(m1) \/ MonitorContainer(m1) \/ Main(m1)
                              \/ \E c \in Clients : Command(c) \/ \E op \in Ops : Begin(c, op)
    BY <1>8 DEF Next
  <2>2. m1 = m
    OBVIOUS
  <2> QED
    BY <2>1, <2>2, <1>1, <1>2, <1>3, <1>4, <1>5, <1>6
<1> QED
    BY <1>7, <1>8

\* What the invariant says of the reports.
LEMMA InvReports ==
    ASSUME NEW m, Masters = {m}, Inv(m)
    PROVE  ReportsAreTrue
<1>1. StartIsAcknowledged
    BY DEF Inv, ClientInv, StartIsAcknowledged, Begun
<1>2. PICK e \in Engines : e = eng[m]
    BY Facts
<1>3. EngineInv(e, file, sock, m)
    BY <1>2, Facts
<1>4. file.status \in {"paused", "stopped"} => file.owner = m
    BY <1>3 DEF EngineInv, FreshInv, FileInv, Absent
<1>5. file.status = "paused" => e.frozen \/ e.main # "wait"
    BY <1>3 DEF EngineInv, ControlInv
<1>6. file.status = "stopped" =>
          file.exit # "none" /\ (file.exit = "process" => e.proc \in {"failed", "dead"})
    BY <1>3 DEF EngineInv, FreshInv, FileInv, MainInv, LockInv, Shown, Deleted, Absent,
                Engines
<1>7. StatusIsTrue
    BY <1>2, <1>4, <1>5, <1>6 DEF StatusIsTrue, Ended
<1> QED
    BY <1>1, <1>7 DEF ReportsAreTrue, Inv

\* For one container of one "oci create", and any number of commands that start, kill,
\* pause and resume it: an oci start that returned without error leaves a container
\* that is no longer created (it runs, ran or is stopped, as the master's exit ends the
\* command as well), a container shown as paused is frozen or has ended until its master
\* cleans up, and one shown as stopped has an exit code, and has ended unless that is
\* the code of an error of the master (process_linux.go:457-497,
\* cleanup_linux.go:67-87).
THEOREM ReportsTrue ==
    ASSUME NEW m, Masters = {m}, "delete" \notin Ops
    PROVE  Spec => []ReportsAreTrue
<1>1. Init => Inv(m)
    BY InitInv
<1>2. Inv(m) /\ [Next]_vars => Inv(m)'
    BY NextKeeps DEF Keeps
<1>3. Inv(m) => ReportsAreTrue
    BY InvReports
<1> QED
    BY <1>1, <1>2, <1>3, PTL DEF Spec

\* And the engine implements the lifecycle of OCI containers: each change of the
\* status on file is one of OciLifecycle, whatever the goroutines and the commands do
\* meanwhile (updateState, create_linux.go:409-437).
THEOREM LifecycleKept ==
    ASSUME NEW m, Masters = {m}, "delete" \notin Ops
    PROVE  Spec => Lifecycle
<1>1. Init => Inv(m)
    BY InitInv
<1>2. Inv(m) /\ [Next]_vars => Inv(m)'
    BY NextKeeps DEF Keeps
<1>3. Init => Abstract!Init
    BY DEF Init, Absent, Abstract!Init
<1>4. Inv(m) /\ [Next]_vars => [Abstract!Next]_(file.status)
    BY NextKeeps DEF Keeps
<1> QED
    BY <1>1, <1>2, <1>3, <1>4, PTL DEF Spec, Lifecycle, Abstract!Spec

-----------------------------------------------------------------------------
(***************************************************************************)
(* Deleting the container of one master, with any of the commands.         *)
(***************************************************************************)

\* The master writes the file no more: it has exited, or has written its last status.
Over(e) == e.main = "exited" \/ (e.mem = "stopped" /\ e.lock = "free")

\* Where the goroutines that write the file are.
WriterInv(e, f) ==
    /\ e.create = "add" => e.mem = "none" /\ e.lock = "free"
    /\ e.create = "write" => e.mem = "creating" /\ e.lock = "create"
    /\ e.create \in {"add", "write"} => f = Absent
    /\ e.lock = "create" => e.create = "write"
    /\ f.status = "stopped" => e.mem = "stopped" /\ e.lock = "free"

\* The control goroutine acknowledges the commands that sent it a message, which a
\* delete does not.
Served == {"start", "wait", "pause", "paused", "resume", "thaw", "close"}
ServeInv(e, cl) ==
    /\ \A i \in DOMAIN e.backlog : cl[e.backlog[i]].pc # "idle"
    /\ e.cur # None => cl[e.cur].pc # "idle"
    /\ e.main # "exited" /\ e.control \in Served \cup {"decode"} => e.cur \in Clients
    /\ e.main # "exited" /\ e.control \in Served => cl[e.cur].op # "delete"

\* A delete that goes on to remove the files of a container that was created or
\* stopped, and has not given up waiting, comes after the master's last write.
DeleterInv(q, e, f) ==
    /\ q.pc = "idle" => q.op = "none" /\ q.conn = "none" /\ q.result = "none"
    /\ q.pc # "done" => q.result = "none"
    /\ q.pc = "check" => q.op \in {"pause", "resume"}
    /\ q.pc = "reread" => q.conn \in {"eof", "closed"}
    /\ q.op = "delete" =>
          /\ q.conn = "eof" => e.main = "exited"
          /\ q.conn # "closed" /\ q.view.status \in {"created", "stopped"} =>
                /\ q.pc \in {"reread", "remove"} => Over(e)
                /\ q.result = "ok" => Over(e) /\ f = Absent

DeleteInv(m) ==
    /\ TypeOK
    /\ WriterInv(eng[m], file)
    /\ ServeInv(eng[m], cli)
    /\ \A c \in Clients : DeleterInv(cli[c], eng[m], file)

\* A step of a master that leaves its part in writing the file, and its connections.
Calm(e, e2) ==
    /\ e2 \in Engines
    /\ e2.mem = e.mem /\ e2.lock = e.lock /\ e2.cur = e.cur /\ e2.backlog = e.backlog
    /\ e2.create = e.create \/ (e.create # "write" /\ e2.create \in {"done", "failed"})
    /\ e.main = "exited" <=> e2.main = "exited"
    /\ \/ e2.control = e.control
       \/ e2.control \notin Served \cup {"decode"}
       \/ e2.control \in Served /\ e.control \in Served

LEMMA DeleteFacts ==
    ASSUME NEW m, Masters = {m}, DeleteInv(m)
    PROVE  /\ m \in Masters /\ file \in Files /\ eng[m] \in Engines /\ sock \in {m, None}
           /\ eng \in [Masters -> Engines] /\ cli \in [Clients -> Commands]
           /\ WriterInv(eng[m], file) /\ ServeInv(eng[m], cli) /\ m # None
           /\ \A c \in Clients : DeleterInv(cli[c], eng[m], file)
BY OciAssumption DEF DeleteInv, TypeOK

\* A step of the master alone.
LEMMA WriterStep ==
    ASSUME NEW m, Masters = {m}, DeleteInv(m), NEW e2 \in Engines,
           eng' = [eng EXCEPT ![m] = e2], cli' = cli, file' \in Files, sock' \in {m, None},
           WriterInv(e2, file'), ServeInv(e2, cli),
           eng[m].main = "exited" => e2.main = "exited",
           Over(eng[m]) => Over(e2) /\ (file = Absent => file' = Absent)
    PROVE  DeleteInv(m)'
<1>1. eng'[m] = e2 /\ eng' \in [Masters -> Engines]
    BY DeleteFacts
<1>2. TypeOK'
    BY <1>1, DeleteFacts DEF TypeOK
<1>3. ASSUME NEW c \in Clients PROVE DeleterInv(cli'[c], eng'[m], file')
  <2>1. DeleterInv(cli[c], eng[m], file)
    BY DeleteFacts
  <2> QED
    BY <1>1, <2>1 DEF DeleterInv
<1> QED
    BY <1>1, <1>2, <1>3 DEF DeleteInv

\* A step of a goroutine that has nothing to do with the file.
LEMMA CalmStep ==
    ASSUME NEW m, Masters = {m}, DeleteInv(m), NEW e2, Calm(eng[m], e2),
           eng' = [eng EXCEPT ![m] = e2], UNCHANGED <<file, cli>>, sock' \in {m, None}
    PROVE  DeleteInv(m)'
<1>1. PICK e \in Engines : e = eng[m]
    BY DeleteFacts
<1>2. e2 \in Engines /\ WriterInv(e2, file)
    BY <1>1, DeleteFacts DEF Calm, WriterInv
<1>3. ServeInv(e2, cli)
    BY <1>1, DeleteFacts DEF Calm, ServeInv
<1>4. Over(e) => Over(e2)
    BY <1>1 DEF Calm, Over
<1>5. e.main = "exited" => e2.main = "exited"
    BY <1>1 DEF Calm
<1>6. file' \in Files /\ file' = file /\ cli' = cli
    BY DeleteFacts
<1> QED
    BY Zenon, <1>1, <1>2, <1>3, <1>4, <1>5, <1>6, WriterStep

\* updateState, its first half ...
LEMMA UpdateStateDelete ==
    ASSUME NEW m, Masters = {m}, DeleteInv(m), NEW g \in {"start", "control", "main"},
           NEW status \in Statuses, NEW ok, NEW err, Calm(eng[m], ok), Calm(eng[m], err),
           UpdateState(m, g, status, ok, err)
    PROVE  DeleteInv(m)'
<1>1. PICK e \in Engines : e = eng[m]
    BY DeleteFacts
<1>2. /\ e.main \notin {"idle", "exited"} /\ e.lock = "free"
      /\ UNCHANGED <<file, sock, cli>> /\ sock' \in {m, None}
    BY <1>1, DeleteFacts DEF UpdateState, Alive
<1>3. CASE file = Absent
    BY Zenon, <1>2, <1>3, CalmStep DEF UpdateState
<1>4. CASE file # Absent /\ e.mem = "stopped"
    BY Zenon, <1>1, <1>2, <1>4, CalmStep DEF UpdateState
<1>5. CASE file # Absent /\ e.mem # "stopped"
  <2>1. PICK e2 : e2 = [e EXCEPT !.lock = g, !.old = e.mem, !.mem = status]
    OBVIOUS
  <2>2. e2 \in Engines
    BY Zenon, <2>1, FieldTypes
  <2>3. eng' = [eng EXCEPT ![m] = e2]
    BY <1>1, <1>5, <2>1 DEF UpdateState
  <2>4. WriterInv(e2, file)
    BY <1>1, <1>2, <1>5, <2>1, DeleteFacts DEF Engines, WriterInv
  <2>5. ServeInv(e2, cli)
    BY <1>1, <2>1, DeleteFacts DEF Engines, ServeInv
  <2>6. ~Over(e) /\ e.main # "exited"
    BY <1>2, <1>5 DEF Over
  <2>7. file' = file /\ cli' = cli /\ file' \in Files
    BY <1>2, DeleteFacts
  <2> QED
    BY Zenon, <1>1, <1>2, <2>2, <2>3, <2>4, <2>5, <2>6, <2>7, WriterStep
<1> QED
    BY <1>3, <1>4, <1>5

\* ... and its second, the write of the file.
LEMMA UpdateWriteDelete ==
    ASSUME NEW m, Masters = {m}, DeleteInv(m), NEW g \in {"start", "control", "main"},
           NEW ok, Calm(eng[m], ok), UpdateWrite(m, g, ok)
    PROVE  DeleteInv(m)'
<1>1. PICK e \in Engines : e = eng[m]
    BY DeleteFacts
<1>2. /\ e.main \notin {"idle", "exited"} /\ e.lock = g /\ UNCHANGED <<sock, cli>>
      /\ file' = OnFile(e, m)
    BY <1>1 DEF UpdateWrite, Alive, OnFile
<1>3. PICK e2 : e2 = [ok EXCEPT !.lock = "free",
                        !.statusChan = IF Signals(e) THEN "full" ELSE @]
    OBVIOUS
<1>4. ok \in Engines
    BY DEF Calm
<1>5. PICK h \in {"empty", "full", "nil"} : h = IF Signals(e) THEN "full" ELSE ok.statusChan
    BY <1>4 DEF Engines
<1>6. e2 = [ok EXCEPT !.lock = "free", !.statusChan = h]
    BY <1>3, <1>4, <1>5 DEF Engines
<1>7. e2 \in Engines
    BY Zenon, <1>4, <1>6, FieldTypes
<1>8. eng' = [eng EXCEPT ![m] = e2]
    BY <1>1, <1>3 DEF UpdateWrite
<1>9. e.create \notin {"add", "write"}
    BY SMTT(20), <1>1, <1>2, DeleteFacts DEF WriterInv
<1>10. file'.status = e.mem /\ file' \in Files
    BY <1>1, <1>2, DeleteFacts DEF OnFile, Files, Engines
<1>11. WriterInv(e2, file')
    BY <1>1, <1>4, <1>6, <1>9, <1>10 DEF Calm, Engines, WriterInv
<1>12. ServeInv(e2, cli)
    BY <1>1, <1>2, <1>4, <1>6, DeleteFacts DEF Calm, Engines, ServeInv
<1>13. ~Over(e) /\ e.main # "exited"
    BY <1>2 DEF Over
<1>14. cli' = cli /\ sock' \in {m, None}
    BY <1>2, DeleteFacts
<1> QED
    BY Zenon, <1>1, <1>7, <1>8, <1>10, <1>11, <1>12, <1>13, <1>14, WriterStep

\* A goroutine's step to e2.
LEMMA CalmTo ==
    ASSUME NEW e \in Engines, e.main # "exited"
    PROVE  /\ \A x \in {"read", "sockets", "created", "hooks", "await", "exec", "post", "done"} :
                /\ Calm(e, [e EXCEPT !.start = x])
                /\ Calm(e, [e EXCEPT !.start = x, !.fatal = Send(e, "err")])
                /\ \A b \in BOOLEAN :
                     /\ Calm(e, [e EXCEPT !.start = x, !.sockets = b])
                     /\ Calm(e, [e EXCEPT !.start = x, !.startChan = b])
                     /\ Calm(e, [e EXCEPT !.start = x, !.fatal = Send(e, "err"), !.sockets = b])
           /\ Calm(e, [e EXCEPT !.start = "hooks", !.control = "accept"])
           /\ \A x \in {"init", "ready", "go", "running", "failed", "dead"} :
                Calm(e, [e EXCEPT !.proc = x])
           /\ \A x \in {"idle", "wait", "clean", "delete", "stop", "sockets", "exit"} :
                /\ Calm(e, [e EXCEPT !.main = x])
                /\ \A b \in BOOLEAN : Calm(e, [e EXCEPT !.main = x, !.fatalErr = b, !.fatal = <<>>])
                /\ \A r \in {"none", "process", "fatal"} :
                     Calm(e, [e EXCEPT !.frozen = FALSE, !.main = x, !.exit = r])
           /\ Calm(e, [e EXCEPT !.monitor = "done", !.fatal = Send(e, "nil")])
           /\ \A x \in {"none", "term", "kill"} : Calm(e, [e EXCEPT !.signal = x])
<1>1. /\ Send(e, "err") \in {<<>>, <<"nil">>, <<"err">>}
      /\ Send(e, "nil") \in {<<>>, <<"nil">>, <<"err">>}
    BY SendTyped
<1>2. ASSUME NEW x \in {"read", "sockets", "created", "hooks", "await", "exec", "post", "done"}
      PROVE  /\ Calm(e, [e EXCEPT !.start = x])
             /\ Calm(e, [e EXCEPT !.start = x, !.fatal = Send(e, "err")])
             /\ \A b \in BOOLEAN :
                  /\ Calm(e, [e EXCEPT !.start = x, !.sockets = b])
                  /\ Calm(e, [e EXCEPT !.start = x, !.startChan = b])
                  /\ Calm(e, [e EXCEPT !.start = x, !.fatal = Send(e, "err"), !.sockets = b])
  <2>1. Calm(e, [e EXCEPT !.start = x])
    <3>1. [e EXCEPT !.start = x] \in Engines
    BY Zenon, FieldTypes
    <3> QED
    BY <3>1 DEF Calm, Engines
  <2>2. Calm(e, [e EXCEPT !.start = x, !.fatal = Send(e, "err")])
    <3>1. [e EXCEPT !.start = x, !.fatal = Send(e, "err")] \in Engines
    BY Zenon, <1>1, FieldTypes
    <3> QED
    BY <3>1 DEF Calm, Engines
  <2>3. ASSUME NEW b \in BOOLEAN PROVE Calm(e, [e EXCEPT !.start = x, !.sockets = b])
    <3>1. [e EXCEPT !.start = x, !.sockets = b] \in Engines
    BY Zenon, FieldTypes
    <3> QED
    BY <3>1 DEF Calm, Engines
  <2>4. ASSUME NEW b \in BOOLEAN PROVE Calm(e, [e EXCEPT !.start = x, !.startChan = b])
    <3>1. [e EXCEPT !.start = x, !.startChan = b] \in Engines
    BY Zenon, FieldTypes
    <3> QED
    BY <3>1 DEF Calm, Engines
  <2>5. ASSUME NEW b \in BOOLEAN
        PROVE  Calm(e, [e EXCEPT !.start = x, !.fatal = Send(e, "err"), !.sockets = b])
    <3>1. [e EXCEPT !.start = x, !.fatal = Send(e, "err"), !.sockets = b] \in Engines
    BY Zenon, <1>1, FieldTypes
    <3> QED
    BY <3>1 DEF Calm, Engines
  <2> QED
    BY Zenon, <2>1, <2>2, <2>3, <2>4, <2>5
<1>3. Calm(e, [e EXCEPT !.start = "hooks", !.control = "accept"])
  <2>1. [e EXCEPT !.start = "hooks", !.control = "accept"] \in Engines
    BY Zenon, FieldTypes
  <2> QED
    BY <2>1 DEF Calm, Engines, Served
<1>4. ASSUME NEW x \in {"init", "ready", "go", "running", "failed", "dead"}
      PROVE  Calm(e, [e EXCEPT !.proc = x])
  <2>1. [e EXCEPT !.proc = x] \in Engines
    BY Zenon, FieldTypes
  <2> QED
    BY <2>1 DEF Calm, Engines
<1>5. ASSUME NEW x \in {"idle", "wait", "clean", "delete", "stop", "sockets", "exit"}
      PROVE  /\ Calm(e, [e EXCEPT !.main = x])
             /\ \A b \in BOOLEAN : Calm(e, [e EXCEPT !.main = x, !.fatalErr = b, !.fatal = <<>>])
             /\ \A r \in {"none", "process", "fatal"} :
                  Calm(e, [e EXCEPT !.frozen = FALSE, !.main = x, !.exit = r])
  <2>1. Calm(e, [e EXCEPT !.main = x])
    <3>1. [e EXCEPT !.main = x] \in Engines
    BY Zenon, FieldTypes
    <3> QED
    BY <3>1 DEF Calm, Engines
  <2>2. ASSUME NEW b \in BOOLEAN
        PROVE  Calm(e, [e EXCEPT !.main = x, !.fatalErr = b, !.fatal = <<>>])
    <3>1. [e EXCEPT !.main = x, !.fatalErr = b, !.fatal = <<>>] \in Engines
    BY Zenon, FieldTypes
    <3> QED
    BY <3>1 DEF Calm, Engines
  <2>3. ASSUME NEW r \in {"none", "process", "fatal"}
        PROVE  Calm(e, [e EXCEPT !.frozen = FALSE, !.main = x, !.exit = r])
    <3>1. [e EXCEPT !.frozen = FALSE, !.main = x, !.exit = r] \in Engines
    BY Zenon, FieldTypes
    <3> QED
    BY <3>1 DEF Calm, Engines
  <2> QED
    BY Zenon, <2>1, <2>2, <2>3
<1>6. Calm(e, [e EXCEPT !.monitor = "done", !.fatal = Send(e, "nil")])
  <2>1. [e EXCEPT !.monitor = "done", !.fatal = Send(e, "nil")] \in Engines
    BY Zenon, <1>1, FieldTypes
  <2> QED
    BY <2>1 DEF Calm, Engines
<1>7. \A x \in {"none", "term", "kill"} : Calm(e, [e EXCEPT !.signal = x])
  <2>1. \A x \in {"none", "term", "kill"} :
          [e EXCEPT !.signal = x] \in Engines
    BY Zenon, FieldTypes
  <2> QED
    BY <2>1 DEF Calm, Engines
<1> QED
    BY Zenon, <1>2, <1>3, <1>4, <1>5, <1>6, <1>7

\* The process of the container, its monitor and the start of the cleanup.
LEMMA ProcDelete ==
    ASSUME NEW m, Masters = {m}, DeleteInv(m),
           OciCreate(m) \/ Proc(m) \/ ProcEnds(m) \/ MonitorContainer(m) \/ MainFatal(m)
             \/ CleanupContainer(m) \/ CleanupSockets(m)
    PROVE  DeleteInv(m)'
<1>1. PICK e \in Engines : e = eng[m]
    BY DeleteFacts
<1>2. e.main # "exited" /\ UNCHANGED <<file, cli>> /\ sock' \in {m, None}
    BY <1>1, DeleteFacts DEF OciCreate, Proc, ProcSteps, ProcFails, ProcEnds,
       MonitorContainer, MainFatal, CleanupContainer, CleanupSockets, Alive
<1>3. CASE Proc(m) \/ ProcEnds(m)
  <2>1. PICK x \in {"ready", "running", "failed", "dead"} :
            eng' = [eng EXCEPT ![m] = [e EXCEPT !.proc = x]]
    BY <1>1, <1>3, DeleteFacts DEF Proc, ProcSteps, ProcFails, ProcEnds
  <2> QED
    BY Zenon, <1>1, <1>2, <2>1, CalmTo, CalmStep
<1>4. CASE OciCreate(m) \/ CleanupSockets(m)
  <2>1. PICK x \in {"wait", "exit"} : eng' = [eng EXCEPT ![m] = [e EXCEPT !.main = x]]
    BY <1>1, <1>4, DeleteFacts DEF OciCreate, CleanupSockets
  <2> QED
    BY Zenon, <1>1, <1>2, <2>1, CalmTo, CalmStep
<1>5. CASE MonitorContainer(m)
  <2>1. eng' = [eng EXCEPT ![m] = [e EXCEPT !.monitor = "done", !.fatal = Send(e, "nil")]]
    BY Zenon, <1>1, <1>5, DeleteFacts DEF MonitorContainer
  <2>2. Calm(e, [e EXCEPT !.monitor = "done", !.fatal = Send(e, "nil")])
    BY Zenon, <1>2, CalmTo
  <2> QED
    BY Zenon, <1>1, <1>2, <2>1, <2>2, CalmStep
<1>6. CASE MainFatal(m)
  <2>1. PICK b \in BOOLEAN : b = (Head(e.fatal) = "err")
    BY Zenon
  <2>2. eng' = [eng EXCEPT ![m] = [e EXCEPT !.main = "clean", !.fatalErr = b, !.fatal = <<>>]]
    BY Zenon, <1>1, <1>6, <2>1, DeleteFacts DEF MainFatal
  <2> QED
    BY Zenon, <1>1, <1>2, <2>2, CalmTo, CalmStep
<1>7. CASE CleanupContainer(m)
  <2>1. PICK x \in {"delete", "stop"} : x = IF e.mem = "creating" THEN "delete" ELSE "stop"
    OBVIOUS
  <2>2. PICK r \in {"none", "process", "fatal"} :
            r = IF e.mem = "creating" THEN e.exit ELSE IF e.fatalErr THEN "fatal" ELSE "process"
    BY DEF Engines
  <2>3. eng' = [eng EXCEPT ![m] = [e EXCEPT !.frozen = FALSE, !.main = x, !.exit = r]]
    BY <1>1, <1>7, <2>1, <2>2, DeleteFacts DEF CleanupContainer, Engines
  <2>4. Calm(e, [e EXCEPT !.frozen = FALSE, !.main = x, !.exit = r])
    BY Zenon, <1>2, CalmTo
  <2> QED
    BY Zenon, <1>1, <1>2, <2>3, <2>4, CalmStep
<1> QED
    BY <1>3, <1>4, <1>5, <1>6, <1>7

\* createState, which is the first to write the file, and the rest of the creation.
LEMMA CreateDelete ==
    ASSUME NEW m, Masters = {m}, DeleteInv(m), Create(m)
    PROVE  DeleteInv(m)'
<1>1. PICK e \in Engines : e = eng[m]
    BY DeleteFacts
<1>2. e.main # "exited" /\ cli' = cli /\ sock' \in {m, None} /\ file' \in Files
    BY <1>1, DeleteFacts DEF Create, CreateAdd, CreateWrite, CreateSetup, Alive, Files, Statuses
<1>3. Send(e, "err") \in {<<>>, <<"nil">>, <<"err">>}
    BY SendTyped
<1>4. CASE \E x \in {"done", "failed"}, y \in {<<>>, <<"nil">>, <<"err">>} :
                e.create # "write" /\ UNCHANGED file
                /\ eng' = [eng EXCEPT ![m] = [e EXCEPT !.create = x, !.fatal = y]]
  <2>1. PICK x \in {"done", "failed"}, y \in {<<>>, <<"nil">>, <<"err">>} :
                e.create # "write" /\ UNCHANGED file
                /\ eng' = [eng EXCEPT ![m] = [e EXCEPT !.create = x, !.fatal = y]]
    BY Zenon, <1>4
  <2>2. [e EXCEPT !.create = x, !.fatal = y] \in Engines
    BY Zenon, FieldTypes
  <2>3. Calm(e, [e EXCEPT !.create = x, !.fatal = y])
    BY <1>2, <2>1, <2>2 DEF Calm, Engines
  <2> QED
    BY Zenon, <1>1, <1>2, <2>1, <2>3, CalmStep
<1>5. CASE CreateSetup(m)
  <2>1. CASE eng' = [eng EXCEPT ![m].create = "done"]
    <3>1. [e EXCEPT !.create = "done"] = [e EXCEPT !.create = "done", !.fatal = e.fatal]
          /\ e.fatal \in {<<>>, <<"nil">>, <<"err">>}
      BY Zenon DEF Engines
    <3> QED
      BY Zenon, <1>1, <1>4, <1>5, <2>1, <3>1, DeleteFacts DEF CreateSetup
  <2>2. CASE eng' = [eng EXCEPT ![m].create = "failed", ![m].fatal = Send(eng[m], "err")]
    <3>1. eng' = [eng EXCEPT ![m] = [e EXCEPT !.create = "failed", !.fatal = Send(e, "err")]]
      BY Zenon, <1>1, <2>2, DeleteFacts
    <3> QED
      BY Zenon, <1>1, <1>3, <1>4, <1>5, <3>1 DEF CreateSetup
  <2> QED
    BY <1>5, <2>1, <2>2 DEF CreateSetup
<1>6. CASE CreateAdd(m) /\ file # Absent
  <2>1. eng' = [eng EXCEPT ![m] = [e EXCEPT !.create = "failed", !.fatal = Send(e, "err")]]
    BY <1>1, <1>6, DeleteFacts DEF CreateAdd
  <2> QED
    BY Zenon, <1>1, <1>3, <1>4, <1>6, <2>1 DEF CreateAdd
<1>7. CASE CreateAdd(m) /\ file = Absent
  <2>1. PICK e2 : e2 = [e EXCEPT !.create = "write", !.mem = "creating", !.lock = "create"]
    OBVIOUS
  <2>2. eng' = [eng EXCEPT ![m] = e2] /\ e.create = "add" /\ file' = file
    BY <1>1, <1>7, <2>1 DEF CreateAdd
  <2>3. e2 \in Engines
    BY Zenon, <2>1, FieldTypes DEF Statuses
  <2>4. WriterInv(e2, file) /\ ServeInv(e2, cli) /\ ~Over(e)
    BY <1>1, <1>2, <1>7, <2>1, <2>2, DeleteFacts
    DEF Engines, WriterInv, ServeInv, Over, Absent
  <2> QED
    BY Zenon, <1>1, <1>2, <2>2, <2>3, <2>4, WriterStep
<1>8. CASE CreateWrite(m)
  <2>1. PICK e2 : e2 = [e EXCEPT !.create = "setup", !.lock = "free"]
    OBVIOUS
  <2>2. /\ eng' = [eng EXCEPT ![m] = e2] /\ e.create = "write"
        /\ file' = [owner |-> m, status |-> "creating", exit |-> "none"]
    BY Zenon, <1>1, <1>8, <2>1 DEF CreateWrite
  <2>3. e2 \in Engines
    BY Zenon, <2>1, FieldTypes
  <2>4. WriterInv(e2, file') /\ ServeInv(e2, cli) /\ ~Over(e)
    BY <1>1, <1>2, <2>1, <2>2, DeleteFacts DEF Engines, WriterInv, ServeInv, Over
  <2> QED
    BY Zenon, <1>1, <1>2, <2>2, <2>3, <2>4, WriterStep
<1> QED
    BY <1>5, <1>6, <1>7, <1>8 DEF Create

\* The start goroutine.
LEMMA StartDelete ==
    ASSUME NEW m, Masters = {m}, DeleteInv(m), Start(m)
    PROVE  DeleteInv(m)'
<1>1. PICK e \in Engines : e = eng[m]
    BY DeleteFacts
<1>2. e.main # "exited"
    BY <1>1 DEF Start, StartRead, PreStartProcess, StartCreated, StartHooks, StartAwait,
       StartExec, PostStartProcess, UpdateState, UpdateWrite, Alive
<1>3. CASE StartRead(m) \/ StartExec(m)
  <2>1. PICK x \in {"sockets", "done", "post"} :
            eng' = [eng EXCEPT ![m] = [e EXCEPT !.start = x]]
    BY <1>1, <1>3, DeleteFacts DEF StartRead, StartExec
  <2>2. Calm(e, [e EXCEPT !.start = x])
    BY Zenon, <1>2, CalmTo
  <2>3. UNCHANGED <<file, cli>> /\ sock' \in {m, None}
    BY <1>3, DeleteFacts DEF StartRead, StartExec
  <2> QED
    BY Zenon, <1>1, <2>1, <2>2, <2>3, CalmStep
<1>4. CASE PreStartProcess(m)
  <2>1. UNCHANGED <<file, cli>> /\ sock' \in {m, None}
    BY <1>4, DeleteFacts DEF PreStartProcess
  <2>2. CASE file = Absent \/ sock # None
    <3>1. PICK b \in BOOLEAN : b = (file # Absent)
      BY Zenon
    <3>2. eng' = [eng EXCEPT ![m] = [e EXCEPT !.start = "done", !.fatal = Send(e, "err"),
                                              !.sockets = b]]
      BY Zenon, <1>1, <1>4, <2>2, <3>1, DeleteFacts DEF PreStartProcess
    <3>3. Calm(e, [e EXCEPT !.start = "done", !.fatal = Send(e, "err"), !.sockets = b])
      BY Zenon, <1>2, CalmTo
    <3> QED
      BY Zenon, <1>1, <2>1, <3>2, <3>3, CalmStep
  <2>3. CASE ~(file = Absent \/ sock # None)
    <3>1. eng' = [eng EXCEPT ![m] = [e EXCEPT !.start = "created", !.sockets = TRUE]]
      BY Zenon, <1>1, <1>4, <2>3, DeleteFacts DEF PreStartProcess
    <3>2. Calm(e, [e EXCEPT !.start = "created", !.sockets = TRUE])
      BY Zenon, <1>2, CalmTo
    <3> QED
      BY Zenon, <1>1, <2>1, <3>1, <3>2, CalmStep
  <2> QED
    BY <2>2, <2>3
<1>5. CASE StartCreated(m)
  <2>1. /\ Calm(e, [e EXCEPT !.start = "hooks", !.control = "accept"])
        /\ Calm(e, [e EXCEPT !.start = "done", !.fatal = Send(e, "err")])
    BY Zenon, <1>2, CalmTo
  <2>2. "created" \in Statuses
    BY DEF Statuses
  <2> QED
    BY <1>1, <1>5, <2>1, <2>2, UpdateStateDelete, UpdateWriteDelete DEF StartCreated
<1>6. CASE StartHooks(m)
  <2>1. /\ Calm(e, [e EXCEPT !.start = "await"])
        /\ Calm(e, [e EXCEPT !.start = "done", !.fatal = Send(e, "err")])
    BY Zenon, <1>2, CalmTo
  <2>2. \/ eng' = [eng EXCEPT ![m] = [e EXCEPT !.start = "await"]]
        \/ eng' = [eng EXCEPT ![m] = [e EXCEPT !.start = "done", !.fatal = Send(e, "err")]]
    BY Zenon, <1>1, <1>6, DeleteFacts DEF StartHooks
  <2>3. UNCHANGED <<file, cli>> /\ sock' \in {m, None}
    BY <1>6, DeleteFacts DEF StartHooks
  <2> QED
    BY <1>1, <2>1, <2>2, <2>3, CalmStep
<1>7. CASE StartAwait(m)
  <2>1. Calm(e, [e EXCEPT !.start = "exec", !.startChan = FALSE])
    BY Zenon, <1>2, CalmTo
  <2>2. eng' = [eng EXCEPT ![m] = [e EXCEPT !.start = "exec", !.startChan = FALSE]]
    BY Zenon, <1>1, <1>7, DeleteFacts DEF StartAwait
  <2>3. UNCHANGED <<file, cli>> /\ sock' \in {m, None}
    BY <1>7, DeleteFacts DEF StartAwait
  <2> QED
    BY Zenon, <1>1, <2>1, <2>2, <2>3, CalmStep
<1>8. CASE PostStartProcess(m)
  <2>1. /\ Calm(e, [e EXCEPT !.start = "done"])
        /\ Calm(e, [e EXCEPT !.start = "done", !.fatal = Send(e, "err")])
    BY Zenon, <1>2, CalmTo
  <2>2. "running" \in Statuses
    BY DEF Statuses
  <2>3. [[e EXCEPT !.start = "done"] EXCEPT !.fatal = Send(e, "err")] =
        [e EXCEPT !.start = "done", !.fatal = Send(e, "err")]
    OBVIOUS
  <2> QED
    BY <1>1, <1>8, <2>1, <2>2, <2>3, UpdateStateDelete, UpdateWriteDelete DEF PostStartProcess
<1> QED
    BY <1>3, <1>4, <1>5, <1>6, <1>7, <1>8 DEF Start

\* What the control goroutine does with a message.
LEMMA ControlTo ==
    ASSUME NEW e \in Engines, e.main # "exited", e.control \in Served
    PROVE  /\ \A x \in Served :
                /\ Calm(e, [e EXCEPT !.control = x])
                /\ Calm(e, [e EXCEPT !.control = x, !.statusChan = "nil"])
                /\ \A b \in BOOLEAN : Calm(e, [e EXCEPT !.control = x, !.frozen = b])
           /\ Calm(e, [e EXCEPT !.control = "done", !.fatal = Send(e, "err")])
           /\ Calm(e, [e EXCEPT !.started = TRUE, !.control = "done", !.fatal = Send(e, "err")])
           /\ Calm(e, [e EXCEPT !.started = TRUE, !.control = "wait", !.startChan = TRUE,
                                !.proc = "go"])
<1>1. Send(e, "err") \in {<<>>, <<"nil">>, <<"err">>}
    BY SendTyped
<1>2. ASSUME NEW x \in Served PROVE Calm(e, [e EXCEPT !.control = x])
  <2>1. [e EXCEPT !.control = x] \in Engines
    BY Zenon, FieldTypes DEF Served
  <2> QED
    BY <2>1 DEF Calm, Engines
<1>3. ASSUME NEW x \in Served PROVE Calm(e, [e EXCEPT !.control = x, !.statusChan = "nil"])
  <2>1. [e EXCEPT !.control = x, !.statusChan = "nil"] \in Engines
    BY Zenon, FieldTypes DEF Served
  <2> QED
    BY <2>1 DEF Calm, Engines
<1>4. ASSUME NEW x \in Served, NEW b \in BOOLEAN
      PROVE  Calm(e, [e EXCEPT !.control = x, !.frozen = b])
  <2>1. [e EXCEPT !.control = x, !.frozen = b] \in Engines
    BY Zenon, FieldTypes DEF Served
  <2> QED
    BY <2>1 DEF Calm, Engines
<1>5. Calm(e, [e EXCEPT !.control = "done", !.fatal = Send(e, "err")])
  <2>1. [e EXCEPT !.control = "done", !.fatal = Send(e, "err")] \in Engines
    BY Zenon, <1>1, FieldTypes
  <2> QED
    BY <2>1 DEF Calm, Engines, Served
<1>6. Calm(e, [e EXCEPT !.started = TRUE, !.control = "done", !.fatal = Send(e, "err")])
  <2>1. [e EXCEPT !.started = TRUE, !.control = "done", !.fatal = Send(e, "err")] \in Engines
    BY Zenon, <1>1, FieldTypes
  <2> QED
    BY <2>1 DEF Calm, Engines, Served
<1>7. Calm(e, [e EXCEPT !.started = TRUE, !.control = "wait", !.startChan = TRUE, !.proc = "go"])
  <2>1. [e EXCEPT !.started = TRUE, !.control = "wait", !.startChan = TRUE, !.proc = "go"]
            \in Engines
    BY Zenon, FieldTypes
  <2> QED
    BY <2>1 DEF Calm, Engines, Served
<1> QED
    BY Zenon, <1>2, <1>3, <1>4, <1>5, <1>6, <1>7

\* The control goroutine takes a connection and serves it.
LEMMA AcceptDelete ==
    ASSUME NEW m, Masters = {m}, DeleteInv(m), ControlAccept(m) \/ ControlDecode(m)
    PROVE  DeleteInv(m)'
<1>1. PICK e \in Engines : e = eng[m]
    BY DeleteFacts
<1>2. /\ e.main # "exited" /\ file' = file /\ file' \in Files /\ cli' = cli /\ sock' \in {m, None}
      /\ WriterInv(e, file) /\ ServeInv(e, cli)
    BY <1>1, DeleteFacts DEF ControlAccept, ControlDecode, Alive
<1>3. CASE ControlAccept(m)
  <2>1. PICK e2 : e2 = [e EXCEPT !.control = "decode", !.cur = Head(e.backlog),
                                 !.backlog = Tail(e.backlog)]
    OBVIOUS
  <2>2. eng' = [eng EXCEPT ![m] = e2]
    BY Zenon, <1>1, <1>3, <2>1, DeleteFacts DEF ControlAccept
  <2>3. e.backlog \in Seq(Clients) /\ e.backlog # <<>>
    BY <1>1, <1>3 DEF ControlAccept, Engines
  <2>4. /\ Head(e.backlog) \in Clients /\ Tail(e.backlog) \in Seq(Clients)
        /\ Head(e.backlog) = e.backlog[1] /\ 1 \in DOMAIN e.backlog
        /\ \A i \in DOMAIN Tail(e.backlog) :
              i + 1 \in DOMAIN e.backlog /\ Tail(e.backlog)[i] = e.backlog[i + 1]
    BY <2>3
  <2>5. e2 \in Engines
    BY Zenon, <2>1, <2>4, FieldTypes
  <2>6. /\ e2.backlog = Tail(e.backlog) /\ e2.cur = Head(e.backlog) /\ e2.control = "decode"
        /\ e2.create = e.create /\ e2.mem = e.mem /\ e2.lock = e.lock /\ e2.main = e.main
    BY <2>1 DEF Engines
  <2>7. WriterInv(e2, file) /\ (Over(e) => Over(e2))
    BY <1>2, <2>6 DEF WriterInv, Over
  <2>8. ServeInv(e2, cli)
    BY <1>2, <2>4, <2>6 DEF ServeInv, Served
  <2> QED
    BY Zenon, <1>1, <1>2, <2>2, <2>5, <2>6, <2>7, <2>8, WriterStep
<1>4. CASE ControlDecode(m)
  <2>1. e.control = "decode" /\ e.cur \in Clients
    BY <1>1, <1>2, <1>4 DEF ControlDecode, ServeInv
  <2>2. CASE cli[e.cur].op \in {"start", "pause", "resume"}
    <3>1. PICK x \in {"start", "pause", "resume"} : x = cli[e.cur].op
      BY <2>2
    <3>2. eng' = [eng EXCEPT ![m] = [e EXCEPT !.control = x]]
      BY <1>1, <1>4, <2>2, <3>1, DeleteFacts DEF ControlDecode
    <3>3. PICK e2 : e2 = [e EXCEPT !.control = x]
      BY Zenon
    <3>4. e2 \in Engines
      BY Zenon, <3>3, FieldTypes
    <3>5. /\ e2.backlog = e.backlog /\ e2.cur = e.cur /\ e2.create = e.create
          /\ e2.mem = e.mem /\ e2.lock = e.lock /\ e2.main = e.main
      BY <3>3 DEF Engines
    <3>6. WriterInv(e2, file) /\ (Over(e) => Over(e2))
      BY <1>2, <3>5 DEF WriterInv, Over
    <3>7. ServeInv(e2, cli)
      BY <1>2, <2>1, <3>1, <3>5 DEF ServeInv
    <3> QED
      BY Zenon, <1>1, <1>2, <3>2, <3>3, <3>4, <3>5, <3>6, <3>7, WriterStep
  <2>3. CASE cli[e.cur].op \notin {"start", "pause", "resume"}
    <3>1. PICK e2 : e2 = [e EXCEPT !.control = "done", !.fatal = Send(e, "err")]
      OBVIOUS
    <3>2. eng' = [eng EXCEPT ![m] = e2]
      BY Zenon, <1>1, <1>4, <2>3, <3>1, DeleteFacts DEF ControlDecode
    <3>3. Send(e, "err") \in {<<>>, <<"nil">>, <<"err">>}
      BY SendTyped
    <3>4. e2 \in Engines
      BY Zenon, <3>1, <3>3, FieldTypes
    <3>5. Calm(e, e2)
      BY <3>1, <3>4 DEF Calm, Engines, Served
    <3> QED
      BY Zenon, <1>1, <1>2, <3>2, <3>5, CalmStep
  <2> QED
    BY <2>2, <2>3
<1> QED
    BY <1>3, <1>4

LEMMA ServedDelete ==
    ASSUME NEW m, Masters = {m}, DeleteInv(m),
           ControlStart(m) \/ WaitStatusUpdate(m) \/ ControlPause(m) \/ ControlResume(m)
    PROVE  DeleteInv(m)'
<1>1. PICK e \in Engines : e = eng[m]
    BY DeleteFacts
<1>2. /\ e.main # "exited" /\ e.control \in Served
      /\ "running" \in Statuses /\ "paused" \in Statuses
    BY <1>1 DEF ControlStart, WaitStatusUpdate, ControlPause, ControlResume, UpdateState,
       UpdateWrite, Alive, Served, Statuses
<1>3. Calm(e, [e EXCEPT !.control = "done", !.fatal = Send(e, "err")])
    BY Zenon, <1>2, ControlTo
<1>4. /\ Calm(e, [e EXCEPT !.control = "close"]) /\ Calm(e, [e EXCEPT !.control = "thaw"])
      /\ Calm(e, [e EXCEPT !.control = "close", !.statusChan = "nil"])
      /\ Calm(e, [e EXCEPT !.control = "close", !.frozen = FALSE])
      /\ Calm(e, [e EXCEPT !.control = "paused", !.frozen = TRUE])
    BY Zenon, <1>2, ControlTo DEF Served
<1>5. /\ Calm(e, [e EXCEPT !.started = TRUE, !.control = "done", !.fatal = Send(e, "err")])
      /\ Calm(e, [e EXCEPT !.started = TRUE, !.control = "wait", !.startChan = TRUE,
                           !.proc = "go"])
    BY Zenon, <1>2, ControlTo
<1>6. CASE ControlStart(m)
  <2>1. UNCHANGED <<file, cli>> /\ sock' \in {m, None}
    BY <1>6, DeleteFacts DEF ControlStart
  <2>2. \/ eng' = [eng EXCEPT ![m] = [e EXCEPT !.control = "close"]]
        \/ eng' = [eng EXCEPT ![m] = [e EXCEPT !.started = TRUE, !.control = "done",
                                               !.fatal = Send(e, "err")]]
        \/ eng' = [eng EXCEPT ![m] = [e EXCEPT !.started = TRUE, !.control = "wait",
                                               !.startChan = TRUE, !.proc = "go"]]
    BY Zenon, <1>1, <1>6 DEF ControlStart
  <2> QED
    BY <1>1, <1>4, <1>5, <2>1, <2>2, CalmStep
<1>7. CASE WaitStatusUpdate(m)
  <2>1. UNCHANGED <<file, cli>> /\ sock' \in {m, None}
    BY <1>7, DeleteFacts DEF WaitStatusUpdate
  <2>2. eng' = [eng EXCEPT ![m] = [e EXCEPT !.control = "close", !.statusChan = "nil"]]
    BY Zenon, <1>1, <1>7, DeleteFacts DEF WaitStatusUpdate
  <2> QED
    BY Zenon, <1>1, <1>4, <2>1, <2>2, CalmStep
<1>8. CASE ControlPause(m)
  <2>1. CASE e.control = "pause"
    <3>1. UNCHANGED <<file, cli>> /\ sock' \in {m, None}
      BY <1>1, <1>8, <2>1, DeleteFacts DEF ControlPause
    <3>2. \/ eng' = [eng EXCEPT ![m] = [e EXCEPT !.control = "paused", !.frozen = TRUE]]
          \/ eng' = [eng EXCEPT ![m] = [e EXCEPT !.control = "done", !.fatal = Send(e, "err")]]
      BY <1>1, <1>8, <2>1 DEF ControlPause
    <3> QED
      BY <1>1, <1>3, <1>4, <3>1, <3>2, CalmStep
  <2>2. CASE e.control = "paused"
    BY <1>1, <1>2, <1>3, <1>4, <1>8, <2>2, UpdateStateDelete, UpdateWriteDelete DEF ControlPause
  <2> QED
    BY <1>1, <1>8, <2>1, <2>2 DEF ControlPause
<1>9. CASE ControlResume(m)
  <2>1. CASE e.control = "thaw"
    <3>1. UNCHANGED <<file, cli>> /\ sock' \in {m, None}
      BY <1>1, <1>9, <2>1, DeleteFacts DEF ControlResume
    <3>2. \/ eng' = [eng EXCEPT ![m] = [e EXCEPT !.control = "close", !.frozen = FALSE]]
          \/ eng' = [eng EXCEPT ![m] = [e EXCEPT !.control = "done", !.fatal = Send(e, "err")]]
      BY <1>1, <1>9, <2>1 DEF ControlResume
    <3> QED
      BY <1>1, <1>3, <1>4, <3>1, <3>2, CalmStep
  <2>2. CASE e.control = "resume"
    BY <1>1, <1>2, <1>3, <1>4, <1>9, <2>2, UpdateStateDelete, UpdateWriteDelete DEF ControlResume
  <2> QED
    BY <1>1, <1>9, <2>1, <2>2 DEF ControlResume
<1> QED
    BY <1>6, <1>7, <1>8, <1>9

\* The cleanup deletes the file of a container that was not made, or writes its last
\* status.
LEMMA CleanupFileDelete ==
    ASSUME NEW m, Masters = {m}, DeleteInv(m), CleanupDelete(m) \/ CleanupStop(m)
    PROVE  DeleteInv(m)'
<1>1. PICK e \in Engines : e = eng[m]
    BY DeleteFacts
<1>2. e.main # "exited" /\ "stopped" \in Statuses
    BY <1>1 DEF CleanupDelete, CleanupStop, Statuses
<1>3. Calm(e, [e EXCEPT !.main = "exit"]) /\ Calm(e, [e EXCEPT !.main = "sockets"])
    BY Zenon, <1>2, CalmTo
<1>4. CASE CleanupDelete(m)
  <2>1. PICK e2 : e2 = [e EXCEPT !.main = "exit"]
    BY Zenon
  <2>2. /\ eng' = [eng EXCEPT ![m] = e2] /\ file' = Absent /\ sock' \in {m, None} /\ cli' = cli
        /\ file' \in Files /\ e2 \in Engines
    BY <1>1, <1>3, <1>4, <2>1, DeleteFacts DEF CleanupDelete, Absent, Files, Statuses, Calm
  <2>3. WriterInv(e2, file')
    BY <1>1, <1>3, <2>1, <2>2, DeleteFacts DEF WriterInv, Calm, Absent
  <2>4. ServeInv(e2, cli) /\ (Over(e) => Over(e2))
    BY <1>1, <1>3, <2>1, DeleteFacts DEF ServeInv, Calm, Over
  <2> QED
    BY Zenon, <1>1, <1>2, <2>2, <2>3, <2>4, WriterStep
<1>5. CASE CleanupStop(m)
    BY <1>1, <1>2, <1>3, <1>5, UpdateStateDelete, UpdateWriteDelete DEF CleanupStop
<1> QED
    BY <1>4, <1>5

-----------------------------------------------------------------------------
\* The commands after which the master serves as before.
LEMMA ServeKept ==
    ASSUME NEW e \in Engines, NEW cl, NEW cl2, ServeInv(e, cl),
           \A c \in Clients : cl2[c].pc # "idle" \/ cl2[c] = cl[c],
           \A c \in Clients : cl[c].pc # "idle" => cl2[c].op = cl[c].op
    PROVE  ServeInv(e, cl2)
<1>1. None \notin Clients
    BY OciAssumption
<1>2. \A i \in DOMAIN e.backlog : e.backlog[i] \in Clients
    BY DEF Engines
<1>3. e.cur \in Clients \cup {None}
    BY DEF Engines
<1> QED
    BY <1>1, <1>2, <1>3 DEF ServeInv

\* A step of commands, with the master e2 after it.
LEMMA DeletersStep ==
    ASSUME NEW m, Masters = {m}, DeleteInv(m), NEW e2 \in Engines,
           eng' = [eng EXCEPT ![m] = e2], sock' \in {m, None}, file' \in {file, Absent},
           WriterInv(e2, file), ServeInv(e2, cli'),
           eng[m].main = "exited" => e2.main = "exited", Over(eng[m]) => Over(e2),
           cli' \in [Clients -> Commands],
           \A c \in Clients : cli'[c] = cli[c] \/ DeleterInv(cli'[c], e2, file')
    PROVE  DeleteInv(m)'
<1>1. eng'[m] = e2 /\ eng' \in [Masters -> Engines]
    BY DeleteFacts
<1>2. file' \in Files
    BY DeleteFacts DEF Files, Absent, Statuses
<1>3. TypeOK'
    BY <1>1, <1>2, DeleteFacts DEF TypeOK
<1>4. WriterInv(e2, file')
    BY DEF WriterInv, Absent
<1>5. ASSUME NEW c \in Clients PROVE DeleterInv(cli'[c], e2, file')
  <2>1. DeleterInv(cli[c], eng[m], file)
    BY DeleteFacts
  <2> QED
    BY Zenon, <2>1 DEF DeleterInv
<1> QED
    BY <1>1, <1>3, <1>4, <1>5 DEF DeleteInv

\* A step of one command alone.
LEMMA DeleterStep ==
    ASSUME NEW m, Masters = {m}, DeleteInv(m), NEW c \in Clients, NEW q \in Commands,
           cli' = [cli EXCEPT ![c] = q], eng' = eng, sock' \in {m, None},
           file' \in {file, Absent}, q.pc # "idle", cli[c].pc # "idle" => q.op = cli[c].op,
           DeleterInv(q, eng[m], file')
    PROVE  DeleteInv(m)'
<1>1. cli' \in [Clients -> Commands]
    BY DeleteFacts
<1>2. ServeInv(eng[m], cli')
  <2>1. \A d \in Clients : /\ cli'[d].pc # "idle" \/ cli'[d] = cli[d]
                           /\ cli[d].pc # "idle" => cli'[d].op = cli[d].op
    BY DeleteFacts
  <2> QED
    BY Zenon, <2>1, DeleteFacts, ServeKept
<1>3. \A d \in Clients : cli'[d] = cli[d] \/ DeleterInv(cli'[d], eng[m], file')
    BY DeleteFacts
<1>4. eng' = [eng EXCEPT ![m] = eng[m]]
    BY DeleteFacts
<1> QED
    BY Zenon, <1>1, <1>2, <1>3, <1>4, DeleteFacts, DeletersStep

\* A step of one command that sends the process of the container a signal.
LEMMA DeleterKills ==
    ASSUME NEW m, Masters = {m}, DeleteInv(m), NEW c \in Clients, NEW q \in Commands,
           NEW s \in {"term", "kill"}, Kill(c, s), ~Gone(c), cli' = [cli EXCEPT ![c] = q],
           UNCHANGED <<file, sock>>,
           q.pc # "idle", q.op = cli[c].op,
           DeleterInv(q, eng[m], file)
    PROVE  DeleteInv(m)'
<1>1. cli[c].view \in Files
    BY DeleteFacts DEF Commands
<1>2. cli[c].view.owner \in {m, None}
    BY <1>1 DEF Files
<1>3. CASE cli[c].view.owner = None
  <2>1. eng' = eng
    BY <1>3, DeleteFacts DEF Kill
  <2> QED
    BY Zenon, <2>1, DeleteFacts, DeleterStep
<1>4. CASE cli[c].view.owner = m
  <2>1. PICK e \in Engines : e = eng[m]
    BY DeleteFacts
  <2>2. PICK g \in {"term", "kill"} : g = IF e.signal = "kill" THEN "kill" ELSE s
    OBVIOUS
  <2>3. PICK e2 : e2 = [e EXCEPT !.signal = g]
    BY Zenon
  <2>4. eng' = [eng EXCEPT ![m] = e2]
    BY Zenon, <1>4, <2>1, <2>2, <2>3, DeleteFacts DEF Kill
  <2>5. e.main # "exited"
    BY <1>4, <2>1 DEF Gone
  <2>6. Calm(e, e2)
    BY Zenon, <2>2, <2>3, <2>5, CalmTo
  <2>7. cli' \in [Clients -> Commands]
    BY DeleteFacts
  <2>8. ServeInv(e, cli')
    <3>1. \A d \in Clients : /\ cli'[d].pc # "idle" \/ cli'[d] = cli[d]
                             /\ cli[d].pc # "idle" => cli'[d].op = cli[d].op
      BY DeleteFacts
    <3> QED
      BY Zenon, <2>1, <3>1, DeleteFacts, ServeKept
  <2>9. e2 \in Engines /\ ServeInv(e2, cli') /\ WriterInv(e2, file) /\ (Over(e) => Over(e2))
    BY Zenon, <2>1, <2>6, <2>8, DeleteFacts DEF Calm, ServeInv, WriterInv, Over
  <2>10. DeleterInv(q, e2, file)
    BY SMTT(20), <2>1, <2>6 DEF DeleterInv, Calm, Over
  <2>11. \A d \in Clients : cli'[d] = cli[d] \/ DeleterInv(cli'[d], e2, file')
    BY <2>10, DeleteFacts
  <2> QED
    BY Zenon, <2>1, <2>4, <2>5, <2>7, <2>9, <2>11, DeleteFacts, DeletersStep
<1> QED
    BY <1>2, <1>3, <1>4

\* A command that returns, also a delete, unless it removes the files.
LEMMA DoneDelete ==
    ASSUME NEW m, Masters = {m}, DeleteInv(m), NEW c \in Clients, NEW r \in {"ok", "error"},
           cli[c].pc # "idle", r = "ok" => cli[c].op # "delete"
    PROVE  /\ Done(c, r) \in Commands /\ Done(c, r).pc # "idle" /\ Done(c, r).op = cli[c].op
           /\ DeleterInv(Done(c, r), eng[m], file)
<1>1. PICK q \in Commands : q = cli[c]
    BY DeleteFacts
<1>2. PICK k \in {"none", "closed", "eof"} : k = IF q.conn = "open" THEN "closed" ELSE q.conn
    BY DEF Commands
<1>3. PICK q2 : q2 = [q EXCEPT !.pc = "done", !.result = r, !.conn = k]
    OBVIOUS
<1>4. q2 = Done(c, r)
    BY <1>1, <1>2, <1>3 DEF Done
<1>5. q2 \in Commands
    BY Zenon, <1>3 DEF Commands
<1>6. DeleterInv(q2, eng[m], file)
    BY <1>1, <1>2, <1>3, DeleteFacts DEF Commands, DeleterInv
<1>7. q2.pc # "idle" /\ q2.op = cli[c].op
    BY <1>1, <1>3 DEF Commands
<1> QED
    BY <1>4, <1>5, <1>6, <1>7

\* A command begins.  One that is to delete a container that has stopped does so after
\* the master's last write.
LEMMA BeginDelete ==
    ASSUME NEW m, Masters = {m}, DeleteInv(m), NEW c \in Clients, NEW op \in Ops, Begin(c, op)
    PROVE  DeleteInv(m)'
<1>1. PICK q \in Commands : q = cli[c]
    BY DeleteFacts
<1>2. /\ q.pc = "idle" /\ UNCHANGED <<file, sock, eng>> /\ q.conn = "none" /\ q.result = "none"
      /\ sock' \in {m, None} /\ file' = file /\ eng' = eng
    BY <1>1, DeleteFacts DEF Begin, DeleterInv
<1>3. CASE file = Absent \/ ~Allows(op, file.status)
  <2>1. PICK q2 : q2 = [q EXCEPT !.pc = "done", !.result = "error", !.conn = "none", !.op = op]
    OBVIOUS
  <2>2. q2 \in Commands
    BY Zenon, <2>1 DEF Commands
  <2>3. DeleterInv(q2, eng[m], file) /\ q2.pc # "idle"
    BY <2>1 DEF DeleterInv, Commands
  <2>4. cli' = [cli EXCEPT ![c] = q2]
    BY Zenon, <1>1, <1>2, <1>3, <2>1 DEF Begin, Done
  <2> QED
    BY Zenon, <1>1, <1>2, <2>2, <2>3, <2>4, DeleterStep
<1>4. CASE ~(file = Absent \/ ~Allows(op, file.status))
  <2>1. PICK pc \in {"signal", "remove", "dial"} :
            pc = IF op = "kill" THEN "signal"
                 ELSE IF op = "delete" /\ file.status # "created" THEN "remove" ELSE "dial"
    OBVIOUS
  <2>2. PICK q2 : q2 = [q EXCEPT !.op = op, !.view = file, !.pc = pc]
    OBVIOUS
  <2>3. q2 \in Commands
    BY Zenon, <2>2, DeleteFacts DEF Commands
  <2>4. file.status = "stopped" => Over(eng[m])
    BY DeleteFacts DEF WriterInv, Over
  <2>5. /\ q2.op = op /\ q2.view = file /\ q2.pc = pc /\ q2.conn = "none" /\ q2.result = "none"
    BY <1>2, <2>2 DEF Commands
  <2>6. DeleterInv(q2, eng[m], file) /\ q2.pc # "idle"
    BY <2>1, <2>4, <2>5 DEF DeleterInv
  <2>7. cli' = [cli EXCEPT ![c] = q2]
    BY <1>1, <1>4, <2>1, <2>2 DEF Begin
  <2> QED
    BY Zenon, <1>1, <1>2, <2>3, <2>6, <2>7, DeleterStep
<1> QED
    BY <1>3, <1>4

\* A command connects.
LEMMA DialDelete ==
    ASSUME NEW m, Masters = {m}, DeleteInv(m), NEW c \in Clients, Dial(c)
    PROVE  DeleteInv(m)'
<1>1. PICK q \in Commands : q = cli[c]
    BY DeleteFacts
<1>2. q.pc = "dial" /\ UNCHANGED <<file, sock>> /\ sock' \in {m, None} /\ DeleterInv(q, eng[m], file)
    BY <1>1, DeleteFacts DEF Dial
<1>3. CASE sock = None \/ eng[sock].main = "exited"
    BY <1>1, <1>2, <1>3, DoneDelete, DeleterStep DEF Dial
<1>4. CASE ~(sock = None \/ eng[sock].main = "exited")
  <2>1. sock = m
    BY <1>4, DeleteFacts
  <2>2. PICK e \in Engines : e = eng[m]
    BY DeleteFacts
  <2>3. PICK e2 : e2 = [e EXCEPT !.backlog = Append(e.backlog, c)]
    BY Zenon
  <2>4. PICK pc \in {"signal", "wait"} :
            pc = IF q.op \in {"killwait", "delete"} THEN "signal" ELSE "wait"
    OBVIOUS
  <2>5. PICK q2 : q2 = [q EXCEPT !.conn = "open", !.pc = pc]
    OBVIOUS
  <2>6. eng' = [eng EXCEPT ![m] = e2] /\ cli' = [cli EXCEPT ![c] = q2]
    BY Zenon, <1>1, <1>4, <2>1, <2>2, <2>3, <2>4, <2>5, DeleteFacts DEF Dial
  <2>7. e.backlog \in Seq(Clients)
    BY DEF Engines
  <2>8. Append(e.backlog, c) \in Seq(Clients)
    BY <2>7
  <2>9. /\ q2 \in Commands /\ q2.op = q.op /\ q2.pc = pc /\ q2.conn = "open"
        /\ q2.result = q.result
    BY Zenon, <2>5 DEF Commands
  <2>10. e2 \in Engines
    BY Zenon, <2>3, <2>8, FieldTypes
  <2>11. /\ e2.backlog = Append(e.backlog, c) /\ e2.cur = e.cur /\ e2.create = e.create
         /\ e2.mem = e.mem /\ e2.lock = e.lock /\ e2.main = e.main /\ e2.control = e.control
    BY <2>3 DEF Engines
  <2>12. cli' \in [Clients -> Commands] /\ cli'[c] = q2
    BY <2>6, <2>9, DeleteFacts
  <2>13. ServeInv(e, cli')
    BY Zenon, <1>1, <2>2, <2>6, <2>9, <2>12, DeleteFacts, ServeKept
  <2>14. \A i \in DOMAIN Append(e.backlog, c) :
            (i \in DOMAIN e.backlog /\ Append(e.backlog, c)[i] = e.backlog[i])
              \/ Append(e.backlog, c)[i] = c
    BY <2>7
  <2>15. ServeInv(e2, cli')
    BY <2>9, <2>11, <2>12, <2>13, <2>14 DEF ServeInv
  <2>16. WriterInv(e2, file) /\ (Over(e) => Over(e2))
    BY <2>2, <2>11, DeleteFacts DEF WriterInv, Over
  <2>17. DeleterInv(q2, e2, file)
    BY <1>2, <2>2, <2>9, <2>11 DEF DeleterInv, Over
  <2>18. \A d \in Clients : cli'[d] = cli[d] \/ DeleterInv(cli'[d], e2, file')
    BY <1>2, <2>6, <2>12, <2>17, DeleteFacts
  <2> QED
    BY Zenon, <1>2, <2>2, <2>6, <2>10, <2>11, <2>12, <2>15, <2>16, <2>18, DeletersStep
<1> QED
    BY <1>3, <1>4

\* A command sends its signal, and a kill that waits for the end may give up.
LEMMA SignalDelete ==
    ASSUME NEW m, Masters = {m}, DeleteInv(m), NEW c \in Clients, Signal(c) \/ Timeout(c)
    PROVE  DeleteInv(m)'
<1>1. PICK q \in Commands : q = cli[c]
    BY DeleteFacts
<1>2. q.pc \in {"signal", "wait"} /\ UNCHANGED <<file, sock>> /\ sock' \in {m, None}
      /\ DeleterInv(q, eng[m], file)
    BY <1>1, DeleteFacts DEF Signal, Timeout
<1>3. CASE Gone(c)
    BY <1>1, <1>2, <1>3, DoneDelete, DeleterStep DEF Signal, Timeout
<1>4. CASE ~Gone(c) /\ q.op \in {"kill", "killwait"} /\ cli' = [cli EXCEPT ![c] = Done(c, "ok")]
  <2>1. PICK s \in {"term", "kill"} : Kill(c, s)
    BY <1>1, <1>4 DEF Signal, Timeout
  <2> QED
    BY Zenon, <1>1, <1>2, <1>4, <2>1, DoneDelete, DeleterKills
<1>5. CASE ~Gone(c) /\ Signal(c) /\ q.op # "kill"
  <2>1. PICK q2 : q2 = [q EXCEPT !.pc = "wait"]
    BY Zenon
  <2>2. q2 \in Commands
    BY <2>1 DEF Commands
  <2>3. DeleterInv(q2, eng[m], file) /\ q2.pc # "idle" /\ q2.op = q.op
    BY <1>2, <2>1 DEF DeleterInv, Commands
  <2>4. cli' = [cli EXCEPT ![c] = q2] /\ Kill(c, "term")
    BY <1>1, <1>5, <2>1, DeleteFacts DEF Signal
  <2> QED
    BY Zenon, <1>1, <1>2, <1>5, <2>2, <2>3, <2>4, DeleterKills
<1>6. CASE ~Gone(c) /\ Timeout(c) /\ q.op # "killwait"
  <2>1. PICK q2 : q2 = [q EXCEPT !.conn = "closed", !.pc = "reread"]
    OBVIOUS
  <2>2. q2 \in Commands
    BY Zenon, <2>1 DEF Commands
  <2>3. DeleterInv(q2, eng[m], file) /\ q2.pc # "idle" /\ q2.op = q.op
    BY <1>2, <2>1 DEF DeleterInv, Commands
  <2>4. cli' = [cli EXCEPT ![c] = q2] /\ Kill(c, "kill")
    BY <1>1, <1>6, <2>1, DeleteFacts DEF Timeout
  <2> QED
    BY Zenon, <1>1, <1>2, <1>6, <2>2, <2>3, <2>4, DeleterKills
<1> QED
    BY <1>1, <1>3, <1>4, <1>5, <1>6 DEF Signal, Timeout

\* A command has its acknowledgement.  To a delete it is the end of the master.
LEMMA AcknowledgedDelete ==
    ASSUME NEW m, Masters = {m}, DeleteInv(m), NEW c \in Clients, Acknowledged(c) \/ Check(c)
    PROVE  DeleteInv(m)'
<1>1. PICK q \in Commands : q = cli[c]
    BY DeleteFacts
<1>2. /\ q.pc \in {"wait", "check"} /\ UNCHANGED <<file, sock, eng>> /\ sock' \in {m, None}
      /\ file' = file /\ eng' = eng /\ DeleterInv(q, eng[m], file)
    BY <1>1, DeleteFacts DEF Acknowledged, Check
<1>3. CASE Acknowledged(c) /\ q.op \in {"start", "killwait"}
    BY Zenon, <1>1, <1>2, <1>3, DoneDelete, DeleterStep DEF Acknowledged
<1>4. CASE Acknowledged(c) /\ q.op \notin {"start", "killwait"}
  <2>1. PICK pc \in {"check", "reread"} :
            pc = IF q.op \in {"pause", "resume"} THEN "check" ELSE "reread"
    OBVIOUS
  <2>2. PICK q2 : q2 = [q EXCEPT !.pc = pc]
    BY Zenon
  <2>3. q2 \in Commands /\ q.conn = "eof" /\ q.pc = "wait"
    BY <1>1, <1>4, <2>2 DEF Commands, Acknowledged
  <2>4. /\ q2.op = q.op /\ q2.pc = pc /\ q2.conn = "eof" /\ q2.result = q.result
        /\ q2.view = q.view
    BY <2>2, <2>3 DEF Commands
  <2>5. DeleterInv(q2, eng[m], file) /\ q2.pc # "idle"
    BY <1>2, <2>1, <2>3, <2>4 DEF DeleterInv, Over
  <2>6. cli' = [cli EXCEPT ![c] = q2]
    BY Zenon, <1>1, <1>4, <2>1, <2>2, DeleteFacts DEF Acknowledged
  <2> QED
    BY Zenon, <1>1, <1>2, <2>3, <2>4, <2>5, <2>6, DeleterStep
<1>5. CASE Check(c)
  <2>1. q.op # "delete"
    BY <1>1, <1>2, <1>5 DEF DeleterInv, Check
  <2>2. PICK r \in {"ok", "error"} : cli' = [cli EXCEPT ![c] = Done(c, r)]
    BY Zenon, <1>5 DEF Check
  <2> QED
    BY Zenon, <1>1, <1>2, <2>1, <2>2, DoneDelete, DeleterStep
<1> QED
    BY <1>3, <1>4, <1>5

\* The delete reads the file again, and removes it.
LEMMA RemoveDelete ==
    ASSUME NEW m, Masters = {m}, DeleteInv(m), NEW c \in Clients, Reread(c) \/ Remove(c)
    PROVE  DeleteInv(m)'
<1>1. PICK q \in Commands : q = cli[c]
    BY DeleteFacts
<1>2. q.pc \in {"reread", "remove"} /\ DeleterInv(q, eng[m], file)
    BY <1>1, DeleteFacts DEF Reread, Remove
<1>3. CASE Reread(c) /\ file = Absent
    BY Zenon, <1>1, <1>2, <1>3, DeleteFacts, DoneDelete, DeleterStep DEF Reread
<1>4. CASE Reread(c) /\ file # Absent
  <2>1. PICK q2 : q2 = [q EXCEPT !.pc = "remove"]
    BY Zenon
  <2>2. q2 \in Commands /\ q.pc = "reread"
    BY <1>1, <1>4, <2>1 DEF Commands, Reread
  <2>3. DeleterInv(q2, eng[m], file) /\ q2.pc # "idle" /\ q2.op = q.op
    BY <1>2, <2>1, <2>2 DEF DeleterInv, Commands
  <2>4. cli' = [cli EXCEPT ![c] = q2] /\ UNCHANGED <<file, sock, eng>>
    BY <1>1, <1>4, <2>1, DeleteFacts DEF Reread
  <2> QED
    BY Zenon, <1>1, <2>2, <2>3, <2>4, DeleteFacts, DeleterStep
<1>5. CASE Remove(c)
  <2>1. PICK r \in {"ok", "error"} : r = IF file = Absent THEN "error" ELSE "ok"
    OBVIOUS
  <2>2. PICK k \in {"none", "closed", "eof"} : k = IF q.conn = "open" THEN "closed" ELSE q.conn
    BY DEF Commands
  <2>3. PICK q2 : q2 = [q EXCEPT !.pc = "done", !.result = r, !.conn = k]
    OBVIOUS
  <2>4. q2 \in Commands
    BY Zenon, <2>3 DEF Commands
  <2>5. /\ q2.pc = "done" /\ q2.result = r /\ q2.conn = k /\ q2.op = q.op /\ q2.view = q.view
    BY <2>3 DEF Commands
  <2>6. q.pc = "remove" /\ file' = Absent /\ eng' = eng /\ sock' \in {m, None}
    BY SMTT(20), <1>1, <1>5, DeleteFacts DEF Remove
  <2>7. DeleterInv(q2, eng[m], Absent)
    BY <1>2, <2>2, <2>5, <2>6 DEF DeleterInv
  <2>8. cli' = [cli EXCEPT ![c] = q2]
    BY <1>1, <1>5, <2>1, <2>2, <2>3 DEF Remove, Done
  <2> QED
    BY Zenon, <1>1, <2>4, <2>5, <2>6, <2>7, <2>8, DeleterStep
<1> QED
    BY <1>3, <1>4, <1>5

\* The control goroutine acknowledges a message, which no delete has sent.
LEMMA CloseDelete ==
    ASSUME NEW m, Masters = {m}, DeleteInv(m), ControlClose(m)
    PROVE  DeleteInv(m)'
<1>1. PICK e \in Engines : e = eng[m]
    BY DeleteFacts
<1>2. e.main # "exited" /\ e.control = "close" /\ UNCHANGED <<file, sock>>
    BY <1>1 DEF ControlClose, Alive
<1>3. PICK c \in Clients : c = e.cur /\ cli[c].op # "delete" /\ cli[c].pc # "idle"
    BY <1>1, <1>2, DeleteFacts, OciAssumption DEF ServeInv, Served
<1>4. PICK q \in Commands : q = cli[c]
    BY DeleteFacts
<1>5. PICK q2 : q2 = [q EXCEPT !.conn = "eof"]
    BY Zenon
<1>6. q2 \in Commands /\ q2.op = q.op /\ q2.pc = q.pc /\ q2.result = q.result
      /\ q2.conn = "eof"
    BY <1>5 DEF Commands
<1>7. cli' = [cli EXCEPT ![c] = q2]
    BY <1>1, <1>3, <1>4, <1>5, DeleteFacts DEF ControlClose
<1>8. PICK e2 : e2 = [e EXCEPT !.control = "accept", !.cur = None]
    OBVIOUS
<1>9. e2 \in Engines
    BY Zenon, <1>8, FieldTypes
<1>10. /\ e2.backlog = e.backlog /\ e2.cur = None /\ e2.create = e.create
       /\ e2.mem = e.mem /\ e2.lock = e.lock /\ e2.main = e.main /\ e2.control = "accept"
    BY <1>8 DEF Engines
<1>11. eng' = [eng EXCEPT ![m] = e2]
    BY Zenon, <1>1, <1>8, DeleteFacts DEF ControlClose
<1>12. cli' \in [Clients -> Commands]
    BY <1>6, <1>7, DeleteFacts
<1>13. ServeInv(e, cli')
  <2>1. \A d \in Clients : /\ cli'[d].pc # "idle" \/ cli'[d] = cli[d]
                           /\ cli[d].pc # "idle" => cli'[d].op = cli[d].op
    BY <1>3, <1>4, <1>6, <1>7, DeleteFacts
  <2> QED
    BY <1>1, <2>1, DeleteFacts, ServeKept
<1>14. ServeInv(e2, cli') /\ WriterInv(e2, file) /\ (Over(e) => Over(e2))
    BY Zenon, <1>1, <1>10, <1>13, DeleteFacts DEF ServeInv, WriterInv, Over, Served
<1>15. DeleterInv(q2, e2, file)
    BY SMTT(20), <1>1, <1>3, <1>4, <1>6, DeleteFacts DEF DeleterInv
<1>16. \A d \in Clients : cli'[d] = cli[d] \/ DeleterInv(cli'[d], e2, file')
    BY Zenon, <1>2, <1>7, <1>15, DeleteFacts
<1> QED
    BY Zenon, <1>1, <1>2, <1>9, <1>10, <1>11, <1>12, <1>14, <1>16, DeleteFacts, DeletersStep

\* The master exits, which ends its connections.
LEMMA ExitDelete ==
    ASSUME NEW m, Masters = {m}, DeleteInv(m), MainExit(m)
    PROVE  DeleteInv(m)'
<1>1. PICK e \in Engines : e = eng[m]
    BY DeleteFacts
<1>2. e.main # "exited" /\ UNCHANGED <<file, sock>>
    BY <1>1 DEF MainExit
<1>3. PICK e2 : e2 = [e EXCEPT !.main = "exited", !.proc = "dead", !.backlog = <<>>, !.cur = None]
    OBVIOUS
<1>4. <<>> \in Seq(Clients)
    OBVIOUS
<1>5. e2 \in Engines
    BY Zenon, <1>3, <1>4, FieldTypes
<1>6. /\ e2.backlog = <<>> /\ e2.cur = None /\ e2.create = e.create
      /\ e2.mem = e.mem /\ e2.lock = e.lock /\ e2.main = "exited"
    BY <1>3 DEF Engines
<1>7. eng' = [eng EXCEPT ![m] = e2]
    BY Zenon, <1>1, <1>3, DeleteFacts DEF MainExit
<1>8. ASSUME NEW c \in Clients
      PROVE  cli'[c] \in Commands /\ DeleterInv(cli'[c], e2, file)
  <2>1. PICK q \in Commands : q = cli[c]
    BY DeleteFacts
  <2>2. cli'[c] = q \/ (q.conn = "open" /\ cli'[c] = [q EXCEPT !.conn = "eof"])
    BY <2>1 DEF MainExit
  <2>3. DeleterInv(q, e, file)
    BY SMTT(20), <1>1, <2>1, DeleteFacts
  <2>4. CASE cli'[c] = q
    BY <1>6, <2>3, <2>4 DEF DeleterInv, Over
  <2>5. CASE q.conn = "open" /\ cli'[c] = [q EXCEPT !.conn = "eof"]
    <3>1. [q EXCEPT !.conn = "eof"] \in Commands
      BY DEF Commands
    <3>2. DeleterInv([q EXCEPT !.conn = "eof"], e2, file)
      BY <1>6, <2>3, <2>5 DEF DeleterInv, Over, Commands
    <3> QED
      BY <2>5, <3>1, <3>2
  <2> QED
    BY <2>2, <2>4, <2>5
<1>9. cli' \in [Clients -> Commands]
  <2>1. cli' = [c \in Clients |-> cli'[c]]
    BY SMTT(20) DEF MainExit
  <2> QED
    BY <1>8, <2>1
<1>10. ServeInv(e2, cli') /\ WriterInv(e2, file) /\ Over(e2)
    BY <1>1, <1>6, DeleteFacts DEF ServeInv, WriterInv, Over
<1> QED
    BY Zenon, <1>1, <1>2, <1>5, <1>6, <1>7, <1>8, <1>9, <1>10, DeleteFacts, DeletersStep

LEMMA InitDelete ==
    ASSUME NEW m, Masters = {m}, Init
    PROVE  DeleteInv(m)
<1>1. TypeOK
    BY InitInv DEF Inv
<1>2. WriterInv(eng[m], file) /\ ServeInv(eng[m], cli)
  <2>1. /\ eng[m].create = "add" /\ eng[m].mem = "none" /\ eng[m].lock = "free"
        /\ eng[m].control = "none" /\ eng[m].backlog = <<>> /\ eng[m].cur = None
    BY SMTT(20) DEF Init
  <2>2. file = Absent /\ file.status = "none"
    BY DEF Init, Absent
  <2>3. WriterInv(eng[m], file)
    BY <2>1, <2>2 DEF WriterInv
  <2>4. ServeInv(eng[m], cli)
    BY SMTT(20), <2>1 DEF ServeInv, Served
  <2> QED
    BY SMTT(20), <2>3, <2>4
<1>3. \A c \in Clients : DeleterInv(cli[c], eng[m], file)
    BY DEF Init, DeleterInv
<1> QED
    BY <1>1, <1>2, <1>3 DEF DeleteInv

\* For the container of one "oci create" and any number of commands of any kind, at any
\* time: once the delete of a created or stopped container has returned without error,
\* and its kill had not timed out, no goroutine of the master brings the file back
\* (oci_delete_linux.go:23-58, updateState in create_linux.go:416-475).
THEOREM DeletedGone ==
    ASSUME NEW m, Masters = {m}
    PROVE  Spec => []DeletedIsGone
<1>1. Init => DeleteInv(m)
    BY InitDelete
<1>2. ASSUME DeleteInv(m), [Next]_vars PROVE DeleteInv(m)'
  <2>1. CASE OciCreate(m) \/ Create(m) \/ Proc(m) \/ ProcEnds(m)
    BY <1>2, <2>1, ProcDelete, CreateDelete
  <2>2. CASE Start(m) \/ Control(m)
    BY <1>2, <2>2, StartDelete, AcceptDelete, ServedDelete, CloseDelete DEF Control
  <2>3. CASE MonitorContainer(m) \/ Main(m)
    BY <1>2, <2>3, ProcDelete, CleanupFileDelete, ExitDelete DEF Main
  <2>4. ASSUME NEW c \in Clients, Command(c) PROVE DeleteInv(m)'
    BY <1>2, <2>4, DialDelete, SignalDelete, AcknowledgedDelete, RemoveDelete DEF Command
  <2>5. ASSUME NEW c \in Clients, NEW op \in Ops, Begin(c, op) PROVE DeleteInv(m)'
    BY <1>2, <2>5, BeginDelete
  <2>6. CASE UNCHANGED vars
    <3>1. UNCHANGED <<file, sock, eng, cli>>
      BY <2>6 DEF vars
    <3> QED
      BY <1>2, <3>1 DEF DeleteInv, TypeOK
  <2>7. CASE Next
    <3>1. PICK m1 \in Masters : \/ OciCreate(m1) \/ Create(m1) \/ Proc(m1) \/ ProcEnds(m1)
                                \/ Start(m1) \/ Control(m1) \/ MonitorContainer(m1) \/ Main(m1)
                                \/ \E c \in Clients : Command(c) \/ \E op \in Ops : Begin(c, op)
      BY <2>7 DEF Next
    <3>2. m1 = m
      BY SMTT(20)
    <3> QED
      BY <3>1, <3>2, <2>1, <2>2, <2>3, <2>4, <2>5
  <2> QED
    BY <1>2, <2>6, <2>7
<1>3. DeleteInv(m) => DeletedIsGone
    BY DEF DeleteInv, DeleterInv, DeletedIsGone
<1> QED
    BY <1>1, <1>2, <1>3, PTL DEF Spec



=============================================================================
