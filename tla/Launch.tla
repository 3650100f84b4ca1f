------------------------------- MODULE Launch -------------------------------
(***************************************************************************)
(* From the command line to a container that is about to be created: the   *)
(* launcher (internal/pkg/runtime/launch, in the process of the user) and  *)
(* stage 1 of the starter (PrepareConfig of the apptainer engine), which   *)
(* decide with the same request, one after the other and in two processes, *)
(* how the starter is run, which namespaces it makes, which images it      *)
(* opens, or which running instance it joins.                              *)
(*                                                                         *)
(* A request is the user, the installation, the kind of image and a set    *)
(* `on' of what departs from the defaults: options of the command,         *)
(* settings of apptainer.conf and properties of the host.  The instance to *)
(* join lives meanwhile: its process and its master end, the name is used  *)
(* again and process IDs are reused.                                       *)
(***************************************************************************)
EXTENDS Naturals, FiniteSets

CONSTANTS Requests,   \* the requests that are tried
          Pids,       \* process IDs of the host that instances get
          MaxProcs    \* bound: processes ever started at these IDs

VARIABLES q,      \* [uid, suidInstall, image, on]: the request
          l,      \* the launcher: its options and what it makes of them
          e,      \* the engine configuration, passed to the starter as JSON
          s,      \* the starter configuration, shared with the C starter
          at,     \* the step that comes next, or how the launch ended
          host    \* what other processes see or change

vars == <<q, l, e, s, at, host>>

On(w) == w \in q.on

\* Namespaces of the OCI specification.
NsTypes == {"user", "pid", "ipc", "uts", "network", "mount"}

None == [id |-> 0, init |-> FALSE, userns |-> FALSE]

NoFile == [pid |-> 0, master |-> 0, userns |-> FALSE]

Ended == {"failed", "running", "joined"}

(***************************************************************************)
(* The launcher                                                            *)
(***************************************************************************)

\* NewLauncher: the options of the command line.
NewLauncher(r) ==
    [uid |-> r.uid, user |-> "--userns" \in r.on, fakeroot |-> "--fakeroot" \in r.on,
     fakePath |-> FALSE, suid |-> FALSE, pid |-> FALSE, ipc |-> FALSE, uts |-> FALSE,
     net |-> "--net" \in r.on, wtmpfs |-> "--writable-tmpfs" \in r.on, nohome |-> FALSE]

\* The engine configuration before anything is set.
NewConfig ==
    [join |-> FALSE, target |-> 0, sandbox |-> FALSE, overlay |-> {}, writable |-> FALSE,
     wtmpfs |-> FALSE, noHome |-> FALSE, nvccli |-> FALSE, fakeroot |-> FALSE,
     keepPrivs |-> FALSE, contain |-> FALSE, instance |-> FALSE, network |-> "",
     ns |-> {}, netPath |-> FALSE, idMap |-> {}, deleteTempDir |-> FALSE, fuse |-> FALSE,
     dropBoot |-> FALSE, cgroup |-> 0, layer |-> "none", wOverlay |-> FALSE,
     implied |-> FALSE, images |-> {}, caps |-> {}, nnp |-> FALSE]

\* starter.NewConfig: the shared memory that the C starter has cleared.
NewStarter ==
    [suid |-> FALSE, flags |-> {}, file |-> NoFile, proc |-> None, wd |-> 0,
     instance |-> FALSE, hybrid |-> FALSE, target |-> 0, caps |-> {}, nnp |-> FALSE,
     socket |-> FALSE]

Init == /\ q \in Requests
        /\ l = NewLauncher(q)
        /\ e = NewConfig
        /\ s = NewStarter
        /\ at = "fakeroot"
        /\ LET up == q.image = "instance" \/ On("name in use") IN
           host = [image |-> TRUE, sandbox |-> FALSE, incg |-> 0, born |-> 1,
                   master |-> IF up THEN 1 ELSE 0,
                   file |-> IF up THEN [pid |-> 1, master |-> 1, userns |-> On("userns instance")]
                                  ELSE NoFile,
                   proc |-> [p \in Pids |->
                               IF p = 1 THEN [id |-> 1, init |-> up, userns |-> On("userns instance")]
                                        ELSE None]]

Fails == at' = "failed" /\ UNCHANGED <<q, l, e, s, host>>

\* fakeroot.FindFake, unless the command is to be ignored.
FindFake == On("fakeroot command") /\ ~On("--ignore-fakeroot-command")

IsUnprivileged == q.uid # 0 \/ On("inside userns")

(***************************************************************************)
(* Exec, --fakeroot: a user with subordinate IDs keeps it; one without     *)
(* runs the whole command again as root of a new user namespace            *)
(* (UnshareRootMapped), where --fakeroot only means the fakeroot command;  *)
(* without user namespaces the fakeroot command alone serves a sandbox.    *)
(***************************************************************************)
RootMapped == /\ l' = [l EXCEPT !.fakeroot = FALSE, !.user = FALSE, !.fakePath = FindFake]
              /\ at' = "privileges"
              /\ UNCHANGED <<q, e, s, host>>

UnshareRootMapped == /\ q' = [q EXCEPT !.uid = 0, !.on = @ \cup {"inside userns"}]
                     /\ l' = NewLauncher(q')
                     /\ UNCHANGED <<e, s, at, host>>

FakerootOnly == /\ l' = [l EXCEPT !.fakeroot = FALSE, !.fakePath = TRUE]
                /\ at' = "privileges"
                /\ UNCHANGED <<q, e, s, host>>

ExecFakeroot ==
    /\ at = "fakeroot"
    /\ \/ /\ l.fakeroot /\ l.uid = 0 /\ IsUnprivileged
          /\ RootMapped
       \/ /\ l.fakeroot /\ l.uid # 0 /\ (~On("subuid") \/ On("--ignore-subuid"))
          /\ IF ~On("--ignore-userns") /\ ~On("no unprivileged userns")
             THEN UnshareRootMapped
             ELSE IF FindFake /\ q.image = "sandbox" THEN FakerootOnly ELSE Fails
       \/ /\ \/ ~l.fakeroot
             \/ l.uid = 0 /\ ~IsUnprivileged
             \/ l.uid # 0 /\ On("subuid") /\ ~On("--ignore-subuid")
          /\ at' = "privileges"
          /\ UNCHANGED <<q, l, e, s, host>>

\* The launcher before the fallback for `allow setuid = no' existed.
useSuidNoFallback(v) ==
    LET user == v.user \/ (~q.suidInstall /\ v.uid # 0)
        suid == /\ q.suidInstall /\ v.uid # 0 /\ ~On("inside userns")
                /\ ~user /\ ~On("allow setuid = no")
    IN [v EXCEPT !.suid = suid, !.user = user]

\* useSuid: the setuid starter for users of a setuid installation, unless a
\* user namespace is wanted or the administrator disallows it; who has no
\* privileges then gets a user namespace.
useSuid(v) ==
    LET user == v.user \/ (~q.suidInstall /\ v.uid # 0)
        suid == /\ q.suidInstall /\ v.uid # 0 /\ ~On("inside userns")
                /\ ~user /\ ~On("allow setuid = no")
    IN [v EXCEPT !.suid = suid,
                 !.user = \/ user
                          \/ ~suid /\ v.uid # 0 /\ q.suidInstall /\ On("allow setuid = no")
                          \/ ~suid /\ v.uid = 0 /\ On("no CAP_SYS_ADMIN")]

\* Exec: the starter to use, then setTargetIDs, which only the setuid starter
\* refuses; from here on l.uid is the user that was asked for.
ExecPrivileges ==
    /\ at = "privileges"
    /\ LET v == useSuid(l) IN
       IF On("uid") /\ v.suid THEN Fails
       ELSE /\ l' = [v EXCEPT !.user = @ /\ ~On("--ignore-userns"),
                              !.uid = IF On("uid") THEN 7 ELSE @]
            /\ e' = [e EXCEPT !.target = IF On("uid") THEN 7 ELSE 0]
            /\ at' = "image"
            /\ UNCHANGED <<q, s, host>>

\* instance.Get: the file of the name, if the master it names lives.
Got == host.file # NoFile /\ host.file.master = host.master

Alive(id) == \E p \in Pids : id # 0 /\ host.proc[p].id = id

\* setImageOrInstance.  A user other than root joins the cgroup of the instance
\* here, since stage 1 may not move its parent.
setImageOrInstance ==
    /\ at = "image"
    /\ IF q.image # "instance" THEN at' = "options" /\ UNCHANGED <<q, l, e, s, host>>
       ELSE LET early == On("cgroup instance") /\ l.uid # 0 IN
            IF \/ On("instance start") \/ ~Got
               \/ early /\ (On("systemd cgroups = no") \/ host.proc[host.file.pid].id = 0)
            THEN Fails
            ELSE /\ l' = [l EXCEPT !.user = host.file.userns]
                 /\ e' = [e EXCEPT !.join = TRUE]
                 /\ host' = IF early THEN [host EXCEPT !.incg = host.proc[host.file.pid].id] ELSE host
                 /\ at' = "options"
                 /\ UNCHANGED <<q, s>>

Encrypted == q.image \in {"encsif"}

\* SetGPUConfig with setNvCCLIConfig: --nvccli wants a writable container.
SetGPUConfig(v) ==
    [v EXCEPT !.wtmpfs = @ \/ (On("--nvccli") /\ ~On("--writable") /\ ~On("--overlay"))]

\* setHome: with --home and a target user that is a system user, no home is mounted.
setHome(v) == [v EXCEPT !.nohome = On("--home") /\ e.target # 0]

\* Exec between setImageOrInstance and setNamespaces: everything that refuses
\* the request.
Refused(v) ==
    \/ ~e.join /\ Encrypted /\ ~On("key")
    \/ On("--nvccli") /\ v.fakeroot /\ q.suidInstall /\ ~On("allow setuid = no")
    \/ On("--keep-privs") /\ v.uid # 0
    \/ On("--boot") /\ v.uid # 0
    \/ /\ On("instance start")
       /\ \/ v.suid /\ On("hidepid")
             /\ ~(IF v.fakeroot THEN ~On("--ignore-userns") ELSE v.user)
          \/ Got

\* setCgroups: an instance gets a cgroup when it can.
setCgroups(v) == On("instance start") /\ On("cgroups") /\ ~v.fakeroot /\ ~On("hidepid")

\* setNamespaces: what the options imply, and the mapping of a user namespace
\* that is not fakeroot's.
setNamespaces(v, c) ==
    LET net == IF ~v.net THEN ""
               ELSE IF v.fakeroot /\ (~q.suidInstall \/ On("allow setuid = no"))
                    THEN "none" ELSE "bridge"
    IN [c EXCEPT !.network = net,
                 !.ns = {n \in NsTypes : \/ n = "network" /\ (v.net \/ On("--netns-path"))
                                         \/ n = "uts" /\ v.uts
                                         \/ n = "pid" /\ v.pid
                                         \/ n = "ipc" /\ v.ipc
                                         \/ n = "user" /\ v.user},
                 !.netPath = On("--netns-path"),
                 !.idMap = IF v.user /\ ~v.fakeroot THEN {<<q.uid, v.uid>>} ELSE {}]

ExecOptions ==
    /\ at = "options"
    /\ IF Refused(l) THEN Fails
       ELSE LET boot == On("instance start") /\ On("--boot")
                g == setHome(SetGPUConfig(l))
                v == [g EXCEPT
                        !.user = IF g.fakeroot THEN ~On("--ignore-userns") ELSE @,
                        !.pid = \/ On("--containall") \/ On("--fusemount")
                                \/ On("instance start") /\ ~On("--sharens"),
                        !.ipc = On("--containall"),
                        !.uts = On("--hostname") \/ boot,
                        !.net = @ \/ boot]
                c == [e EXCEPT
                        !.overlay = q.on \cap {"--overlay", "--overlay ro"},
                        !.writable = On("--writable"),
                        !.wtmpfs = v.wtmpfs /\ ~On("--writable"),
                        !.noHome = On("--no-home"),
                        !.nvccli = On("--nvccli"),
                        !.fuse = On("--fusemount"),
                        !.fakeroot = v.fakeroot,
                        !.keepPrivs = On("--keep-privs"),
                        !.contain = On("--containall") \/ On("--boot"),
                        !.instance = On("instance start"),
                        !.dropBoot = boot /\ ~On("--keep-privs"),
                        !.cgroup = IF setCgroups(v) THEN 1 ELSE 0]
            IN /\ l' = v
               /\ e' = setNamespaces(v, c)
               /\ at' = "convert"
               /\ UNCHANGED <<q, s, host>>

IsFile == q.image \in {"sif", "squashfs", "ext3", "encsif"}

\* squashfs.SetuidMountAllowed
SetuidMountAllowed == ~IsUnprivileged \/ ~On("setuid mount = no")

\* The FUSE program that mounts squashfs, as InitImageDrivers finds it: only
\* those who cannot mount with the kernel look for one.
SquashFeature(userns) == On("squashfuse") /\ (userns \/ ~SetuidMountAllowed)

\* prepareImage's decision: extract the image when --unsquash asks for it, or when
\* neither the kernel nor a driver can mount it.
Converts == /\ IsFile
            /\ \/ On("--unsquash")
               \/ /\ l.user \/ On("inside userns") \/ ~SetuidMountAllowed
                  /\ ~SquashFeature(l.user \/ On("inside userns"))

\* prepareImage and convertImage: the sandbox is made under a temporary
\* directory, which is removed again when a step fails.  With --disable-cache
\* the image file is removed.
convertImage ==
    /\ at = "convert"
    /\ IF ~Converts THEN at' = "exec" /\ UNCHANGED <<q, l, e, s, host>>
       ELSE \/ /\ q.image \in {"sif", "squashfs"}
               /\ e' = [e EXCEPT !.sandbox = TRUE, !.deleteTempDir = TRUE]
               /\ host' = [host EXCEPT !.sandbox = TRUE, !.image = ~On("--disable-cache")]
               /\ at' = "exec"
               /\ UNCHANGED <<q, l, s>>
            \/ Fails

\* Exec's end: starterInstance waits for the starter, starterInteractive becomes it.
execStarter ==
    /\ at = "exec"
    /\ \/ /\ s' = [NewStarter EXCEPT !.suid = l.suid]
          /\ at' = "stage1"
          /\ UNCHANGED <<q, l, e, host>>
       \/ Fails

(***************************************************************************)
(* Stage 1 of the starter                                                  *)
(***************************************************************************)

\* Capabilities: what the request adds, what capability.json grants the user,
\* what an instance was started with, and all.
Added == IF On("--add-caps") THEN {"granted", "other"} ELSE {}
Granted == {"granted"}
AllCaps == {"granted", "other", "boot"}
Dropped == (IF On("--drop-caps") THEN {"granted"} ELSE {}) \cup (IF e.dropBoot THEN {"boot"} ELSE {})

\* prepareUserCaps: what is asked for, or was in the joined instance; with the
\* setuid starter only what the user or a group of theirs is granted.
prepareUserCaps(held, enforced) ==
    (IF enforced THEN (held \cup Added) \cap Granted ELSE held \cup Added) \ Dropped

\* prepareRootCaps: the default of apptainer.conf for the real root.
rootDefault == IF On("--no-privs") THEN "no"
               ELSE IF e.keepPrivs THEN "full"
               ELSE IF e.target # 0 THEN "no"
               ELSE IF IsUnprivileged THEN "full"
               ELSE IF On("root default capabilities = file") THEN "file" ELSE "full"

prepareRootCaps(held) ==
    ((CASE rootDefault = "full" -> AllCaps
        [] rootDefault = "file" -> Granted
        [] OTHER -> {}) \cup Added) \ Dropped

prepareCaps(held, enforced) ==
    IF q.uid = 0 THEN prepareRootCaps(held) ELSE prepareUserCaps(held, enforced)

\* Stage 1 has no more privileges than the user: inside a user namespace only
\* if the command was, or with fakeroot.
userNS == On("inside userns") \/ e.fakeroot

elevated == s.suid /\ ~userNS

\* The first of the subordinate IDs of the user.
SubStart == 100

\* joinNetns
NetnsRefused == e.netPath /\ q.uid # 0 /\ ~On("netns allowed")

\* prepareContainerConfig: the namespaces that apptainer.conf allows, the
\* capabilities and, for fakeroot, the mapping of the subordinate IDs.
prepareContainerConfig ==
    /\ at = "stage1" /\ ~e.join
    /\ IF \/ s.suid /\ (On("allow setuid = no") \/ (l.fakePath /\ On("fakeroot not in root's PATH")))
          \/ On("allow user ns = no") /\ (~q.suidInstall \/ "user" \in e.ns)
          \/ NetnsRefused
          \/ e.fakeroot /\ (~On("subuid") \/ (~s.suid /\ On("no newuidmap")))
       THEN Fails
       ELSE LET ns == {n \in e.ns \cup {"mount"} \cup (IF e.fakeroot THEN {"user"} ELSE {}) :
                         ~(n = "pid" /\ On("allow pid ns = no"))}
                useTarget == q.uid = 0 /\ e.target # 0
            IN /\ e' = [e EXCEPT !.ns = ns,
                                 !.caps = IF e.fakeroot THEN AllCaps ELSE prepareCaps({}, s.suid),
                                 !.nnp = useTarget \/ q.uid # 0 \/ rootDefault = "no",
                                 !.idMap = IF e.fakeroot THEN {<<q.uid, 0>>, <<SubStart, 1>>} ELSE @]
               /\ s' = [s EXCEPT !.target = IF e.fakeroot THEN 0 ELSE IF useTarget THEN e.target ELSE q.uid,
                                 !.hybrid = e.fakeroot,
                                 !.instance = e.instance /\ ~On("--sharens"),
                                 !.flags = ns \ (IF e.netPath THEN {"network"} ELSE {})]
               /\ at' = "images"
               /\ UNCHANGED <<q, l, host>>

Kind == IF e.sandbox THEN "sandbox" ELSE q.image

\* loadImage: what apptainer.conf disallows, and what needs a driver or privileges.
NotLoaded ==
    LET noSquash == elevated /\ ~SetuidMountAllowed /\ ~SquashFeature(userNS)
    IN \/ Kind = "sandbox" /\ On("allow container dir = no")
       \/ Kind \in {"squashfs", "sif", "encsif"} /\ noSquash
       \/ Kind = "ext3" /\ elevated /\ ~On("fuse2fs")
       \/ Kind = "encsif" /\ userNS
       \/ On("image not allowed")

HasSIFOverlay == Kind = "sif" /\ On("sif overlay")

\* setSessionLayer: overlay, underlay or none, or a refusal.
setSessionLayer ==
    LET wanted == e.wtmpfs \/ e.overlay # {} \/ HasSIFOverlay
        under == IF On("--underlay") \/ On("enable underlay = preferred") THEN "underlay" ELSE ""
    IN IF \/ e.writable /\ e.overlay # {}
          \/ wanted /\ On("enable overlay = no")
          \/ /\ ~wanted /\ ~e.writable /\ On("--underlay") /\ On("enable underlay = no")
             /\ ~On("enable underlay = preferred")
       THEN "refused"
       ELSE IF wanted THEN "overlay"
       ELSE IF e.writable THEN "none"
       ELSE IF under # "" THEN under
       ELSE IF ~On("enable overlay = no") THEN "overlay"
       ELSE IF ~On("enable underlay = no") THEN "underlay" ELSE "none"

\* loadImages: a sandbox that the kernel cannot overlay falls back to underlay
\* (or none) and loses what needs an overlay.
Fallback(c) ==
    IF c.layer = "overlay" /\ Kind = "sandbox" /\ On("overlay incompatible") /\ ~On("fuse-overlayfs")
    THEN [c EXCEPT !.layer = IF On("enable underlay = no") THEN "none" ELSE "underlay",
                   !.wtmpfs = FALSE, !.overlay = {}]
    ELSE [c EXCEPT !.wtmpfs = @ /\ c.layer # "underlay"]

\* The overlay partition of a SIF that is opened for writing.
SIFUpper(c) == HasSIFOverlay /\ c.layer = "overlay" /\ c.writable

\* The check for the overlay images without --writable-tmpfs.
TooManyUppersSIF(c) ==
    /\ c.layer = "overlay"
    /\ \/ "--overlay" \in c.overlay /\ ~On("overlay read-only") /\ SIFUpper(c)
       \/ SIFUpper(c) /\ c.wtmpfs

\* loadOverlayImages: at most one writable overlay, whichever it is.
TooManyUppers(c) ==
    /\ c.layer = "overlay"
    /\ \/ "--overlay" \in c.overlay /\ ~On("overlay read-only") /\ (SIFUpper(c) \/ c.wtmpfs)
       \/ SIFUpper(c) /\ c.wtmpfs

\* The images in the order in which they are opened, rootfs first; the flag
\* WritableOverlay is left as the last overlay image sets it.
loadOverlayImages(c) ==
    LET rw == "--overlay" \in c.overlay /\ ~On("overlay read-only")
    IN IF c.layer # "overlay" \/ c.overlay = {} THEN c
       ELSE [c EXCEPT !.images = @ \cup {<<"overlay", o = "--overlay" /\ rw>> : o \in c.overlay},
                      !.wOverlay = rw /\ ~("--overlay ro" \in c.overlay /\ On("ro overlay last"))]

loadImages ==
    /\ at = "images"
    /\ LET c == Fallback([e EXCEPT !.layer = setSessionLayer])
           noUpper == e.writable /\ Kind \in {"sif", "encsif"} /\ ~SIFUpper(c)
           noExtfs == HasSIFOverlay /\ c.layer = "overlay" /\ elevated /\ ~On("fuse2fs")
       IN IF \/ NotLoaded \/ noExtfs \/ setSessionLayer = "refused" \/ TooManyUppers(c)
             \/ e.writable /\ (On("image read-only") \/ Kind = "squashfs" \/ noUpper)
          THEN Fails
          ELSE /\ e' = loadOverlayImages([c EXCEPT !.images = {<<"rootfs", e.writable>>},
                                                   !.implied = c.layer = "overlay" /\ ~c.wtmpfs
                                                               /\ c.overlay = {} /\ ~HasSIFOverlay])
               /\ at' = "finish"
               /\ UNCHANGED <<q, l, s, host>>

\* PrepareConfig's end: /dev/fuse and the socket pair that passes it, and what
\* the C starter is told.
PrepareConfig ==
    /\ at = "finish"
    /\ IF \/ e.fuse /\ On("enable fusemount = no")
          \/ e.nvccli /\ elevated
       THEN Fails
       ELSE /\ s' = [s EXCEPT !.caps = e.caps, !.nnp = e.nnp,
                              !.socket = e.fuse /\ (~s.suid \/ e.fakeroot)]
            /\ at' = IF e.join THEN "setns" ELSE "running"
            /\ UNCHANGED <<q, l, e, host>>

(***************************************************************************)
(* Joining an instance                                                     *)
(***************************************************************************)

\* prepareInstanceJoinConfig reads the file of the instance again; the starter
\* must be the one that its namespaces need.
JoinRead ==
    /\ at = "stage1" /\ e.join
    /\ LET suidRequired == q.uid # 0 /\ ~host.file.userns IN
       IF ~Got \/ s.suid # suidRequired THEN Fails
       ELSE /\ s' = [s EXCEPT !.file = host.file]
            /\ at' = "open"
            /\ UNCHANGED <<q, l, e, host>>

\* It changes to /proc/<pid>: what it reads there is about one process, and
\* fails when that one has ended.
JoinOpen ==
    /\ at = "open"
    /\ IF host.proc[s.file.pid].id = 0 THEN Fails
       ELSE /\ s' = [s EXCEPT !.wd = host.proc[s.file.pid].id]
            /\ at' = "check"
            /\ UNCHANGED <<q, l, e, host>>

Opened == CHOOSE p \in Pids : host.proc[p].id = s.wd

\* With the setuid starter the file is not trusted: the process must be an
\* appinit without user namespace, and child of the master in the file.
JoinCheck ==
    /\ at = "check"
    /\ IF s.suid /\ ~( /\ Alive(s.wd)
                       /\ host.proc[Opened].init
                       /\ ~host.proc[Opened].userns
                       /\ s.file.master = s.wd /\ host.master = s.wd)
       THEN Fails
       ELSE at' = "apply" /\ UNCHANGED <<q, l, e, s, host>>

\* The rest: namespaces by path, the capabilities of the instance, and the
\* cgroup, in which a user other than root must already be.  Root gets the
\* no_new_privs of the instance's configuration, whatever it was started with.
JoinApply ==
    /\ at = "apply"
    /\ LET p == host.proc[s.file.pid] IN
       IF On("cgroup instance") /\ (p.id = 0 \/ (q.uid # 0 /\ host.incg # p.id)) THEN Fails
       ELSE /\ \E nnp \in IF q.uid = 0 THEN BOOLEAN ELSE {TRUE} :
                 e' = [e EXCEPT !.caps = prepareCaps({"other"}, q.uid # 0 /\ ~s.file.userns),
                                !.nnp = nnp]
            /\ host' = IF On("cgroup instance") THEN [host EXCEPT !.incg = p.id] ELSE host
            /\ at' = "finish"
            /\ UNCHANGED <<q, l, s>>

\* Entering the namespaces by the process ID instead of the open directory.
SetnsByPid ==
    /\ at = "setns"
    /\ IF host.proc[s.file.pid].id # 0
       THEN /\ s' = [s EXCEPT !.proc = host.proc[s.file.pid]]
            /\ at' = "joined"
            /\ UNCHANGED <<q, l, e, host>>
       ELSE Fails

\* The C starter enters the namespaces relative to its working directory.
Setns ==
    /\ at = "setns"
    /\ IF Alive(s.wd)
       THEN /\ s' = [s EXCEPT !.proc = host.proc[Opened]]
            /\ at' = "joined"
            /\ UNCHANGED <<q, l, e, host>>
       ELSE Fails

(***************************************************************************)
(* Other processes: the instance ends, its name and its process ID are     *)
(* used again.                                                             *)
(***************************************************************************)
Joining == q.image = "instance" /\ at \notin Ended

ProcEnds(p) == /\ Joining
               /\ host.proc[p].id # 0
               /\ host' = [host EXCEPT !.proc[p] = None]
               /\ UNCHANGED <<q, l, e, s, at>>

\* The master ends after its container; it deletes the file, or is killed.
MasterEnds == /\ Joining
              /\ host.master # 0 /\ ~Alive(host.master)
              /\ \E f \in {NoFile, host.file} :
                    host' = [host EXCEPT !.master = 0, !.file = f]
              /\ UNCHANGED <<q, l, e, s, at>>

InstanceStarts(p) ==
    /\ Joining
    /\ host.master = 0 /\ host.proc[p].id = 0 /\ host.born < MaxProcs
    /\ \E u \in BOOLEAN :
          LET id == host.born + 1 IN
          host' = [host EXCEPT !.born = id, !.master = id,
                               !.file = [pid |-> p, master |-> id, userns |-> u],
                               !.proc[p] = [id |-> id, init |-> TRUE, userns |-> u]]
    /\ UNCHANGED <<q, l, e, s, at>>

OtherStarts(p) ==
    /\ Joining
    /\ host.proc[p].id = 0 /\ host.born < MaxProcs
    /\ host' = [host EXCEPT !.born = @ + 1,
                            !.proc[p] = [id |-> host.born + 1, init |-> FALSE, userns |-> FALSE]]
    /\ UNCHANGED <<q, l, e, s, at>>

Next == \/ ExecFakeroot \/ ExecPrivileges \/ setImageOrInstance \/ ExecOptions
        \/ convertImage \/ execStarter
        \/ prepareContainerConfig \/ loadImages \/ PrepareConfig
        \/ JoinRead \/ JoinOpen \/ JoinCheck \/ JoinApply \/ Setns
        \/ MasterEnds
        \/ \E p \in Pids : ProcEnds(p) \/ InstanceStarts(p) \/ OtherStarts(p)

Spec == Init /\ [][Next]_vars

(***************************************************************************)
(* Properties                                                              *)
(***************************************************************************)

\* Who is not privileged runs in a new user namespace, or with the setuid
\* starter and then, outside of user namespaces, with no capability that
\* capability.json does not grant: whatever useSuid, --fakeroot, the settings of
\* the administrator and the instance that is joined made of the request on the
\* way (useSuid, prepareContainerConfig, prepareInstanceJoinConfig).
PrivilegesAreEarned ==
    /\ at = "running" /\ ~On("--ignore-userns") /\ ~On("inside userns") =>
          /\ (q.uid # 0 \/ On("no CAP_SYS_ADMIN")) /\ ~s.suid => "user" \in s.flags
          /\ s.suid /\ "user" \in s.flags => s.hybrid
    /\ at \in {"running", "joined"} /\ s.suid /\ "user" \notin s.flags =>
          q.uid # 0 /\ s.caps \subseteq Granted /\ s.nnp

\* The three places that look for a way to mount a squashfs image agree: when
\* the launcher (prepareImage) passes the image on unextracted and stage 1
\* (loadImage) accepts it, the master (InitImageDrivers in create) finds a FUSE
\* driver, or has the privileges and the permission for a kernel mount.
RootfsIsMountable ==
    at = "running" /\ ~e.sandbox /\ q.image \in {"sif", "squashfs"} /\ ~On("--ignore-userns") =>
        LET ns == "user" \in e.ns \/ On("inside userns") IN
        \/ SquashFeature(ns)
        \/ ~ns /\ (q.uid = 0 \/ (s.suid /\ SetuidMountAllowed))

\* A container has at most one writable upper layer, and one that needs an
\* overlay only with the overlay layer (setSessionLayer, loadImages,
\* loadOverlayImages): the others of --writable, --overlay, --writable-tmpfs
\* (also as --nvccli implies it) and a partition of the SIF are refused or off.
OneWritableLayer ==
    at = "running" =>
        /\ Cardinality({i \in e.images : i[2]} \cup (IF e.wtmpfs THEN {<<"tmpfs", TRUE>>} ELSE {})) <= 1
        /\ e.wtmpfs \/ (\E i \in e.images : i[1] = "overlay") => e.layer = "overlay"

\* A join with the setuid starter enters the namespaces of an appinit without
\* user namespace whose master wrote the instance file, and every join ends in
\* the cgroup of the process it entered, although the instance may end and the
\* name or the process ID be used again at any step
\* (prepareInstanceJoinConfig, setImageOrInstance).
JoinIsCoherent ==
    at = "joined" =>
        /\ s.suid => s.proc.init /\ ~s.proc.userns /\ s.proc.id = s.file.master
        /\ On("cgroup instance") => host.incg = s.proc.id

\* A container is entered with what its user has, started or joined, and the layers
\* of one that starts can be mounted: the four above.
LaunchIsSound ==
    PrivilegesAreEarned /\ JoinIsCoherent /\ RootfsIsMountable /\ OneWritableLayer

\* Only an image that was pulled for this command is removed: `--disable-cache'
\* makes the launcher delete the file it converted (prepareImage).
OnlyPulledRemoved == ~host.image => On("pulled")

=============================================================================
