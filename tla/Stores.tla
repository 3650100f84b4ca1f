------------------------------- MODULE Stores -------------------------------
(***************************************************************************)
(* The configuration files that commands rewrite while other commands run: *)
(* remote.yaml of the system and of a user, capability.json, and the pair  *)
(* /etc/subuid, /etc/subgid.  Every command opens its files, reads them    *)
(* whole, edits what it read, and writes the result back over the file it  *)
(* still holds open: truncate, rewind, write.  Only the subordinate id     *)
(* files are locked, and only for the writing.  A process may die between  *)
(* any two of these steps.                                                 *)
(*                                                                         *)
(* One behaviour is about one kind of store; the edits are operators of    *)
(* Remotes and SubIDs, and below for the capabilities.                     *)
(***************************************************************************)
EXTENDS Remotes, SubIDs

CONSTANTS Kinds,      \* the kinds of store of this instance
          Process,    \* commands that may run at the same time
          Principal,  \* users and groups of capability.json
          Cap,        \* capabilities
          SubEntries, \* contents the subordinate id files may start with
          MaxCommands,\* commands that may overlap
          MaxSerial,  \* commands one after the other
          MaxCrashes

VARIABLES kind,       \* the kind of store of this behaviour
          files,      \* contents of the files
          torn,       \* files holding the text of two writers
          lock,       \* holder of each file's lock, or NoOne
          procs,      \* the commands
          runs,       \* number of commands started
          crashes,    \* number of commands that died
          granted     \* every capability some command was asked to grant

vars == <<kind, files, torn, lock, procs, runs, crashes, granted>>

NoOne == "no one"

Empty(f) == IF f \in {"sys", "usr"} THEN EmptyConfig
            ELSE IF f = "caps" THEN [p \in Principal |-> {}]
            ELSE << >>

Files(k) == CASE k = "remote" -> {"sys", "usr"}
              [] k = "caps" -> {"caps"}
              [] k = "subid" -> {"subuid", "subgid"}

----------------------------------------------------------------------------
(* The commands: the files each one rewrites, in order, and its edit. *)

AdminCommands ==
    [op : {"add"}, to : {"sys"}, n : Remote, use : BOOLEAN]
      \cup [op : {"remove"}, to : {"sys"}, n : Remote]
      \cup [op : {"use"}, to : {"sys"}, n : Remote, excl : BOOLEAN]
      \cup [op : {"ksadd"}, to : {"sys"}, n : {""}, uri : Service \cup {Own},
            order : {0, 1}]
      \cup [op : {"ksremove"}, to : {"sys"}, n : {""},
            uri : Service \cup {Own}]

UserCommands ==
    [op : {"add"}, to : {"usr"}, n : Remote, use : {TRUE}]
      \cup [op : {"remove"}, to : {"usr"}, n : Remote]
      \cup [op : {"use"}, to : {"usr"}, n : Remote, excl : {FALSE}]
      \cup [op : {"token"}, to : {"usr"}, n : {""}, set : BOOLEAN]
      \cup [op : {"login"}, to : {"usr"}, uri : Service, oci : BOOLEAN]
      \cup [op : {"logout"}, to : {"usr"}, uri : Service]

Commands ==
    CASE kind = "remote" -> AdminCommands \cup UserCommands
      [] kind = "caps" ->
            [op : {"capadd", "capdrop"}, p : Principal,
             caps : {{c} : c \in Cap}]
      [] kind = "subid" ->
            [op : {"adduser", "removeuser", "enable", "disable"}, u : User]

Targets(c) == CASE kind = "remote" -> <<c.to>>
                [] kind = "caps" -> <<"caps">>
                [] kind = "subid" -> <<"subuid", "subgid">>

\* RemoteUse: the user's remotes are the system's and their own.
RemoteUse(m, c) == SetDefault(m, c.n, c.excl, c.to = "sys")

\* RemoteAdd: the new remote is the active one unless --no-default.
RemoteAdd(m, c) ==
    LET system == c.to = "sys"
        new == AddRemote(m, c.n, Endpoint(system))
    IN  IF c.use THEN UNION {SetDefault(x, c.n, FALSE, system) : x \in new}
        ELSE new

RemoteRemove(m, c) == RemoveRemote(m, c.n, c.to = "sys")

\* RemoteLogin and RemoteLogout of an endpoint.
EndpointToken(m, c) == SetToken(m, c.n, c.set)

\* RegistryLogin and KeyserverLogin, which check the credentials first.
ServiceLogin(m, c) == Login(m, c.uri, c.oci)

\* CommonLoggout.
ServiceLogout(m, c) == Logout(m, c.uri)

KeyserverAdd(m, c) ==
    EditKeyservers(m, c.n, AddKeyserver(KeyserverList(m, c.n), c.uri, c.order))

KeyserverRemove(m, c) ==
    EditKeyservers(m, c.n, RemoveKeyserver(KeyserverList(m, c.n), c.uri))

\* syncSysConfig: the commands of a user work on their file with the system's
\* copied over it, "add" and "remove" on the file alone.
Synced(mem, c) ==
    IF c.to = "sys" \/ c.op \in {"add", "remove"} THEN {mem}
    ELSE IF "sys" \in torn THEN {}
    ELSE SyncFrom(mem, files["sys"])

EditRemote(mem, c) ==
    LET Edit(m) == CASE c.op = "add" -> RemoteAdd(m, c)
                     [] c.op = "remove" -> RemoteRemove(m, c)
                     [] c.op = "use" -> RemoteUse(m, c)
                     [] c.op = "token" -> EndpointToken(m, c)
                     [] c.op = "login" -> ServiceLogin(m, c)
                     [] c.op = "logout" -> ServiceLogout(m, c)
                     [] c.op = "ksadd" -> KeyserverAdd(m, c)
                     [] c.op = "ksremove" -> KeyserverRemove(m, c)
    IN  UNION {Edit(m) : m \in Synced(mem, c)}

\* Mutant of AddCaps: the capability goes to every principal.
AddCapsAll(mem, p, caps) == {[q \in Principal |-> mem[q] \cup caps]}

\* AddUserCaps, AddGroupCaps.
AddCaps(mem, p, caps) == {[mem EXCEPT ![p] = @ \cup caps]}

\* DropUserCaps, DropGroupCaps: a principal without capabilities is not in the
\* file, and dropping from it is an error.
DropCaps(mem, p, caps) ==
    IF mem[p] = {} THEN {} ELSE {[mem EXCEPT ![p] = @ \ caps]}

\* manageCaps
EditCaps(mem, c) == IF c.op = "capadd" THEN AddCaps(mem, c.p, c.caps)
                    ELSE DropCaps(mem, c.p, c.caps)

\* FakerootConfig
EditSubID(mem, c) ==
    CASE c.op = "adduser" -> AddUser(mem, c.u)
      [] c.op = "removeuser" -> RemoveUser(mem, c.u)
      [] c.op = "enable" -> SetDisabled(mem, c.u, FALSE)
      [] c.op = "disable" -> SetDisabled(mem, c.u, TRUE)

Edit(mem, c) == CASE kind = "remote" -> EditRemote(mem, c)
                  [] kind = "caps" -> EditCaps(mem, c)
                  [] kind = "subid" -> EditSubID(mem, c)

----------------------------------------------------------------------------
(* A command's steps. *)

Idle == [pc |-> "idle"]

Init ==
    /\ kind \in Kinds
    /\ files \in IF kind = "subid"
                 THEN [Files(kind) -> SubEntries]
                 ELSE {[f \in Files(kind) |-> Empty(f)]}
    /\ torn = {}
    /\ lock = [f \in Files(kind) |-> NoOne]
    /\ procs = [p \in Process |-> Idle]
    /\ runs = 0
    /\ crashes = 0
    /\ granted = {}

\* A command starts and opens its first file.
Start(p, c) ==
    /\ procs[p].pc = "idle"
    /\ \/ runs < MaxCommands
       \/ runs < MaxSerial /\ \A o \in Process : procs[o] = Idle
    /\ runs' = runs + 1
    /\ procs' = [procs EXCEPT ![p] =
                   [pc |-> "read", cmd |-> c, at |-> 1, mem |-> << >>]]
    /\ granted' = IF c.op = "capadd" THEN granted \cup {<<c.p, c.caps>>}
                  ELSE granted
    /\ UNCHANGED <<kind, files, torn, lock, crashes>>

\* GetConfig and ReadFrom: the file is read whole, without the lock; a file
\* that cannot be parsed ends the command.
Read(p) ==
    LET q == procs[p]
        ts == Targets(q.cmd)
        data == files[ts[q.at]]
    IN  /\ q.pc = "read"
        /\ procs' = [procs EXCEPT ![p] =
                       IF ts[q.at] \in torn THEN Idle
                       ELSE IF q.at < Len(ts)
                       THEN [q EXCEPT !.at = @ + 1, !.mem = Append(@, data)]
                       ELSE [q EXCEPT !.pc = "edit", !.mem = Append(@, data)]]
        /\ UNCHANGED <<kind, files, torn, lock, runs, crashes, granted>>

\* Commands that first ask a server, which may refuse them: VerifyToken, the
\* login handlers, GetServiceURI.
AsksServer(c) == c.op \in {"token", "login", "ksadd", "ksremove"}

\* The edit of every file; an error leaves before anything is written.
EditAll(p) ==
    LET q == procs[p]
        n == Len(q.mem)
        results == {new \in [1 .. n -> UNION {Edit(q.mem[i], q.cmd) :
                                                i \in 1 .. n}] :
                      \A i \in 1 .. n : new[i] \in Edit(q.mem[i], q.cmd)}
    IN  /\ q.pc = "edit"
        /\ \/ /\ results = {} \/ AsksServer(q.cmd)
              /\ procs' = [procs EXCEPT ![p] = Idle]
           \/ \E new \in results :
                procs' = [procs EXCEPT ![p] =
                            [pc |-> "close", cmd |-> q.cmd, at |-> 1,
                             old |-> q.mem, mem |-> new]]
        /\ UNCHANGED <<kind, files, torn, lock, runs, crashes, granted>>

\* The command after it is done with one of its files.
Closed(q) == IF q.at < Len(q.mem)
             THEN [q EXCEPT !.pc = "close", !.at = @ + 1]
             ELSE Idle

\* The file is truncated.  Close of the subordinate ids takes the lock first,
\* and writes nothing when nothing changed.
Close(p) ==
    LET q == procs[p]
        f == Targets(q.cmd)[q.at]
    IN  /\ q.pc = "close"
        /\ IF kind = "subid" /\ q.mem[q.at] = q.old[q.at]
           THEN /\ procs' = [procs EXCEPT ![p] = Closed(q)]
                /\ UNCHANGED <<files, torn, lock>>
           ELSE /\ kind = "subid" => lock[f] = NoOne
                /\ lock' = IF kind = "subid" THEN [lock EXCEPT ![f] = p]
                           ELSE lock
                /\ procs' = [procs EXCEPT ![p].pc = "write"]
                /\ files' = [files EXCEPT ![f] = Empty(f)]
                /\ torn' = torn \ {f}
        /\ UNCHANGED <<kind, runs, crashes, granted>>

\* The whole configuration is written from the start of the file: over what
\* another command may have written there since the file was truncated, of
\* which a longer text leaves its tail.
Write(p) ==
    LET q == procs[p]
        f == Targets(q.cmd)[q.at]
        new == q.mem[q.at]
    IN  /\ q.pc = "write"
        /\ files' = [files EXCEPT ![f] = new]
        /\ torn' \in IF files[f] \in {Empty(f), new} THEN {torn \ {f}}
                    ELSE {torn \ {f}, torn \cup {f}}
        /\ lock' = [g \in DOMAIN lock |-> IF lock[g] = p THEN NoOne
                                          ELSE lock[g]]
        /\ procs' = [procs EXCEPT ![p] = Closed(q)]
        /\ UNCHANGED <<kind, runs, crashes, granted>>

\* A command dies; the system releases its locks.
Crash(p) ==
    /\ procs[p].pc # "idle"
    /\ crashes < MaxCrashes
    /\ crashes' = crashes + 1
    /\ procs' = [procs EXCEPT ![p] = Idle]
    /\ lock' = [g \in DOMAIN lock |-> IF lock[g] = p THEN NoOne ELSE lock[g]]
    /\ UNCHANGED <<kind, files, torn, runs, granted>>

Next ==
    \E p \in Process :
        \/ \E c \in Commands : Start(p, c)
        \/ Read(p)
        \/ EditAll(p)
        \/ Close(p)
        \/ Write(p)
        \/ Crash(p)

Spec == Init /\ [][Next]_vars

----------------------------------------------------------------------------

Readable(f) == f \in DOMAIN files /\ f \notin torn

\* The configuration the user's next command works with (getRemote), in every
\* order of the system's remotes: the user's with the system's copied over it,
\* or the one of the two that can be read.
UserConfigs ==
    LET readable == {f \in {"sys", "usr"} : Readable(f)}
    IN  IF kind # "remote" THEN {}
        ELSE IF readable = {"sys", "usr"} THEN SyncFrom(files["usr"], files["sys"])
        ELSE {files[f] : f \in readable}

\* Whatever commands of the administrator and of the user ran, in whatever
\* order their reads and writes came and wherever they died, the active
\* remote getRemote finds is a remote of the configuration: no command is
\* told that its active remote "is not a remote".
ActiveIsRemote == \A c \in UserConfigs : GetRemote(c) # {"missing"}

\* A request to verify a signature reaches a keyserver in use that answers
\* whenever there is one, and is never answered by a keyserver that was
\* removed; every endpoint keeps a keyserver in use, whatever keyservers were
\* added and removed before (AddKeyserver, RemoveKeyserver, RoundTrip).
VerifyReaches ==
    \A c \in UserConfigs : \A n \in DOMAIN c.remotes :
        \A up \in SUBSET (Service \cup {Own}) :
            LET ks == UpdateKeyservers(c.remotes[n].keyservers)
                real == {Active(ks)[i].uri : i \in DOMAIN Active(ks)}
            IN  /\ KeyserverClientOpts(c.remotes[n], "", TRUE) = {ks}
                /\ IF real \cap up = {}
                   THEN RoundTrip(ks, up) \in {"none", "failed"}
                   ELSE RoundTrip(ks, up) \in real \cap up

\* The remotes that a command finds can be used: the two above.
RemotesAreUsable == ActiveIsRemote /\ VerifyReaches

\* No principal holds a capability in capability.json that no "capability
\* add" was ever asked to give it, though the commands read, edit and rewrite
\* the file without a lock (manageCaps).
OnlyGranted ==
    kind = "caps" /\ Readable("caps") =>
        \A p \in Principal : \A c \in files["caps"][p] :
            \E caps \in SUBSET Cap : c \in caps /\ <<p, caps>> \in granted

\* The ranges "config fakeroot --add" hands out never overlap one another,
\* whatever users are added, removed, disabled and enabled, by commands that
\* read the files without the lock they write under (AddUser, Close).  The
\* files are never torn.
RangesDisjoint ==
    kind = "subid" =>
        \A f \in Files(kind) :
            /\ f \notin torn
            /\ LET es == files[f]
                   Given(i) == /\ ~es[i].invalid
                               /\ es[i].start \in Starts
                               /\ es[i].count = RangeCount
               IN  \A i, j \in DOMAIN es :
                      i # j /\ Given(i) /\ Given(j) =>
                          es[i].start # es[j].start

\* Capabilities and ranges of ids are given as they were asked for: the two above.
GrantsAreSound == OnlyGranted /\ RangesDisjoint

\* "remote %s has been set exclusive by the system administrator" (SetDefault)
\* is true when it is said: a user is kept from choosing a remote only while
\* the system's configuration has an exclusive one.
OnlySystemExcludes ==
    (\A p \in Process : procs[p] = Idle) =>
      \A c \in UserConfigs :
        (\E n \in DOMAIN c.remotes : c.remotes[n].exclusive)
            => \E n \in DOMAIN files["sys"].remotes :
                  files["sys"].remotes[n].exclusive
=============================================================================
