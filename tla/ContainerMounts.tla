-------------------------- MODULE ContainerMounts ---------------------------
(***************************************************************************)
(* create of internal/pkg/runtime/engine/apptainer/container_linux.go: the *)
(* mounts that make a container's root.  The master collects mount points  *)
(* in the order of create's calls, mounts them tag by tag through the RPC  *)
(* server with the hooks around each tag, and changes the root.            *)
(*                                                                         *)
(* What is asked for, and the state of the host, are chosen in Init.       *)
(***************************************************************************)
EXTENDS SessionLayout

CONSTANTS
    Layers,     \* the session layers: "none", "overlay", "underlay"
    Cases,      \* sets of options and conditions, each with a sequence of user binds
    HostTree, HostFiles, ImageTree  \* paths of the host, of the image, those not directories

VARIABLES
    c,          \* the record of SessionLayout
    req,        \* the options of the command, the configuration and conditions of the host
    binds,      \* the user binds, in the order of the command line
    pc,         \* "setup", "collect", a number of a tag, "chroot", "done" or "failed"
    root        \* the root of the container once it is changed

vars == <<c, req, binds, pc, root>>

On(o) == o \in req

EtcHosts == <<"etc", "hosts">>
Localtime == <<"etc", "localtime">>
Resolv == <<"etc", "resolv">>
Home == <<"home", "u">>
Cwd == <<"data", "work">>
Libs == <<".d", "libs">>

Init ==
    /\ \E k \in Cases : req = k.req /\ binds = k.binds
    /\ pc = "setup" /\ root = <<>>
    /\ \E layer \in Layers :
         c = [err |-> "none", layer |-> layer,
              pts |-> [t \in TagSet |-> <<>>],
              before |-> [t \in TagSet |-> <<>>], after |-> [t \in TagSet |-> <<>>],
              ent |-> [p \in {<<>>} |-> "dir"], dirs |-> <<>>, ov |-> [p \in {} |-> <<>>],
              made |-> {}, lower |-> <<>>, upper |-> <<>>,
              mnts |-> <<[dst |-> <<>>, fs |-> Host, root |-> <<>>, ro |-> FALSE, on |-> {}],
                         [dst |-> <<"ro">>, fs |-> Host, root |-> <<"ro">>, ro |-> TRUE, on |-> {}]>>,
              tree |-> (Host :> HostTree) @@
                       (Image :> (ImageTree \ (IF "link" \in req THEN {<<"var", "tmp">>} ELSE {}))),
              files |-> HostFiles,
              links |-> IF "link" \in req THEN <<"var", "tmp">> :> <<"tmp">> ELSE [p \in {} |-> p],
              umount |-> <<>>, last |-> [dst |-> <<"-">>, ro |-> FALSE], skipped |-> {},
              skipCwd |-> FALSE, dev |-> <<>>, libs |-> <<>>, cwd |-> [fs |-> Host, path |-> <<>>]]

Umounts(d, p) == IF Ok(d) THEN [d EXCEPT !.umount = Append(@, p)] ELSE d

-----------------------------------------------------------------------------
(***************************************************************************)
(* The session and its hooks.                                              *)
(***************************************************************************)

\* NewSession: the session file system, the directories of the root and of the layer.
NewLayer(d) ==
    IF d.layer = "overlay"
    THEN [RunBeforeTag(AddDir(d, <<"lower">>), "layer", "createOverlay")
            EXCEPT !.lower = <<S(<<"lower">>)>>]
    ELSE IF d.layer = "underlay"
    THEN RunBeforeTag(AddDir(d, <<"underlay">>), "prelayer", "createUnderlay")
    ELSE d
NewSession(d) ==
    NewLayer(RunAfterTag(AddFS(AddDir(AddDir(d, RootFs), Final), "session", Session),
                         "session", "createLayout"))

\* addOverlayMount: a writable tmpfs, or overlay images as lower or upper directories.
OverlayImage == <<"overlay-images", "0">>
addTmpfs(d) ==
    IF ~On("writable-tmpfs") THEN d
    ELSE [BindRemount(AddDir(AddDir(d, <<"tmpfs", "upper">>), <<"tmpfs", "work">>),
                      "prelayer", S(<<"tmpfs">>), S(<<"tmpfs">>), FALSE)
            EXCEPT !.upper = S(<<"tmpfs", "upper">>)]
mountOverlayImage(d) ==
    AddPropagation(AddImage(Umounts(AddDir(d, OverlayImage), S(OverlayImage)), "prelayer",
                            "overlay", S(OverlayImage), ~On("writable-overlay")),
                   "shared", S(OverlayImage))
useOverlayImage(d) ==
    IF ~Ok(d) THEN d
    ELSE IF ~On("writable-overlay")
    THEN [d EXCEPT !.lower = <<S(OverlayImage) \o IF On("ext3") THEN <<"upper">> ELSE <<>>>> \o @]
    ELSE IF d.upper = <<>> THEN [d EXCEPT !.upper = S(OverlayImage) \o <<"upper">>]
    ELSE d
makeUpperWork(d) == IF d.upper # <<>> THEN RunAfterTag(d, "prelayer", "overlayUpperWork") ELSE d
addOverlayImage(d) == IF On("overlay") THEN useOverlayImage(mountOverlayImage(d)) ELSE d
addOverlayMount(d) ==
    IF d.layer # "overlay" THEN d
    ELSE AddPropagation(makeUpperWork(addOverlayImage(addTmpfs(d))), "shared", S(Final))

\* setupImageDriver: its directory, and a hook that mounts it and starts the driver.
setupImageDriver(d) ==
    IF ~On("driver") THEN d ELSE RunAfterTag(AddDir(d, <<"driver">>), "session", "startDriver")

cwdHook(d) ==
    RunBeforeTag(d, IF d.layer = "underlay" THEN "prelayer" ELSE "layer", "createCwdDir")
addUmounts(d) ==
    IF d.layer = "none" THEN Umounts(d, S(RootFs)) ELSE Umounts(Umounts(d, S(RootFs)), S(Final))
addHooks(d) ==
    RunAfterTag(RunAfterTag(RunBeforeTag(RunAfterTag(d, "session", "addMountInfo"),
                                         "cwd", "addCwdMount"),
                            "shared", "addIdentityMount"),
                "shared", "chdirFinal")

\* create up to the mount points.
Setup(d) ==
    addHooks(addUmounts(setupImageDriver(
        RunAfterTag(addOverlayMount(NewSession(cwdHook(d))), "shared", "setPropagationMount"))))

-----------------------------------------------------------------------------
(***************************************************************************)
(* The mount points, in the order create collects them.                    *)
(***************************************************************************)

addRootfsMount(d) ==
    IF On("sandbox")
    THEN AddPropagation(BindRemount(d, "rootfs", <<"sandbox">>, S(RootFs), ~On("writable")),
                        "rootfs", S(RootFs))
    ELSE AddImage(d, "rootfs", IF On("gocryptfs") THEN "gocryptfs" ELSE "image", S(RootFs), TRUE)

\* addImageBindMount: the data partition is mounted in the session, and a path of it
\* bound; a destination taken twice is an error here.
addImageBindMount(d) ==
    LET one(x, b) ==
            LET at == <<"data-images", ToString(Len(SelectSeq(x.dirs, LAMBDA p : Len(p) = 2 /\ p[1] = "data-images")))>>
                y == AddImage(Umounts(AddDir(x, at), S(at)), "imagebind", "data", S(at), TRUE)
            IN AddPlain(RunAfterTag(y, "prelayer", "accessData"), "userbinds", S(at) \o b.src, b.dst)
    IN IF On("bind-control") THEN FoldLeft(one, d, SelectSeq(binds, LAMBDA b : b.kind = "image"))
       ELSE d

\* /proc and /sys, mounted or bound.
bindKernel(d, p) == IF On("userns") THEN AddBind(d, "kernel", p, p, FALSE)
                    ELSE BindRemount(d, "kernel", p, p, FALSE)
addProc(d) == IF On("pidns") THEN AddFS(d, "kernel", <<"proc">>) ELSE bindKernel(d, <<"proc">>)
addSys(d) == IF On("userns") THEN bindKernel(d, <<"sys">>) ELSE AddFS(d, "kernel", <<"sys">>)
addKernelMount(d) == IF On("no-kernel") THEN d ELSE addSys(addProc(d))

MinimalDev == On("contain") \/ On("minimal-dev")

addSessionDev(d, dev) ==
    IF ~Exists(d, dev) THEN Fail(d, "dev")
    ELSE AddPlain(AddEntry(d, dev, "file"), "dev", dev, S(dev))

\* addDevMount: the host's /dev, or one staged in the session, bound once all devices
\* are known.
addDevMount(d) ==
    IF On("no-dev") THEN d
    ELSE IF MinimalDev
    THEN LET d1 == AddDir(AddDir(d, <<"dev">>), <<"dev", "shm">>)
             d2 == AddFS(d1, "dev", S(<<"dev", "shm">>))
         IN RunAfterTag(addSessionDev(d2, <<"dev", "null">>), "shared", "addSessionDevMount")
    ELSE AddPlain(d, "dev", <<"dev">>, <<"dev">>)

\* addHostMount: the other file systems of the host.
addHostMount(d) ==
    IF ~On("hostfs") THEN d ELSE BindRemount(d, "hostfs", <<"ro">>, <<"ro">>, FALSE)

copyHostLocaltime(d) ==
    IF d.layer = "overlay" THEN AddEntry(d, LayerDir(d) \o Localtime, "file") ELSE d

SkipBind(d, src, dst) ==
    AddRemount(Add(d, "binds", Point("bind", src, dst, FALSE, FALSE, TRUE)), "binds", dst, FALSE)

\* addBindsMount: the binds of the configuration; with --contain only hosts, staged
\* when there is a network namespace, and localtime.
addBindsMount(d) ==
    LET staged == On("contain") /\ On("netns")
        d1 == IF staged THEN AddEntry(d, EtcHosts, "file") ELSE d
        d2 == SkipBind(d1, IF staged THEN S(EtcHosts) ELSE EtcHosts, EtcHosts)
    IN IF On("no-binds") THEN d1
       ELSE SkipBind(copyHostLocaltime(d2), Localtime, Localtime)

\* addHomeMount: the home directory is staged in the session, then bound into the
\* container: itself with a layer, its first directory without.
WorkHome == <<"work", "home">>
bindHomeSource(d) == (~On("contain") \/ On("custom-home")) /\ Exists(d, Home)
homeStage(d) ==
    IF ~bindHomeSource(d) /\ On("workdir") /\ On("contain") THEN WorkHome ELSE S(Home)
stageHome(d) ==
    IF bindHomeSource(d) THEN OverrideDir(BindRemount(d, "home", Home, S(Home), FALSE), Home, Home)
    ELSE IF homeStage(d) = WorkHome THEN OverrideDir(Make(d, WorkHome), Home, WorkHome)
    ELSE OverrideDir(d, Home, S(Home))
bindHome(d, stage) ==
    IF d.layer = "none" THEN AddPlain(d, "home", S(<<Home[1]>>), <<Home[1]>>)
    ELSE IF Len(d.pts["home"]) > 0 THEN AddPlain(d, "home", stage, Home)
    ELSE BindRemount(d, "home", stage, Home, FALSE)
addHomeMount(d) ==
    IF On("no-home") THEN d
    ELSE IF On("custom-home") /\ ~On("bind-control") THEN Fail(d, "home")
    ELSE bindHome(stageHome(AddDir(d, Home)), homeStage(d))

\* addUserbindsMount: libraries are deferred, devices go to the staged /dev, a
\* destination that is taken is skipped with a warning.
Device(b) == IsPrefix(<<"dev">>, b.dst) /\ IsPrefix(<<"dev">>, b.src)
overrideBind(d, b) ==
    IF Exists(d, b.src) /\ b.src \notin d.files THEN OverrideDir(d, b.dst, b.src) ELSE d
bindHost(d, b) ==
    IF Present(d, "userbinds", b.dst) THEN d
    ELSE AddRemount(overrideBind(AddBind(d, "userbinds", b.src, b.dst, b.ro), b),
                    "userbinds", b.dst, b.ro)
bindDevice(d, b) ==
    IF b.src # b.dst \/ On("no-dev") THEN d
    ELSE IF b.src = <<"dev">> THEN [d EXCEPT !.pts["dev"] = <<>>, !.dev = <<"dev">>]
    ELSE IF In(d, b.src) \/ ~Exists(d, b.src) THEN d
    ELSE addSessionDev(d, b.src)
userbind(d, b) ==
    IF ~Ok(d) THEN d
    ELSE IF IsPrefix(Libs, b.dst)
    THEN [d EXCEPT !.libs = Append(@, [src |-> b.src, name |-> Last(b.dst)])]
    ELSE IF b.kind = "image" THEN d
    ELSE IF Device(b) /\ (b.src # b.dst \/ On("no-dev") \/ MinimalDev) THEN bindDevice(d, b)
    ELSE IF On("bind-control") THEN bindHost(d, b) ELSE d
addUserbindsMount(d) == FoldLeft(userbind, d, binds)

\* addTmpMount: the sources are made now, the points added before the tag is mounted,
\* when it is known whether both directories of the container are one.
TmpSource(p, work) == IF ~On("contain") THEN p ELSE IF On("workdir") THEN work ELSE S(p)
Tmp == TmpSource(<<"tmp">>, <<"work", "tmp">>)
VarTmp == TmpSource(<<"var", "tmp">>, <<"work", "var_tmp">>)
stageTmp(d, p) == IF In(d, p) THEN d ELSE AddDir(d, p)
makeTmpSources(d) ==
    IF ~On("contain") THEN d
    ELSE IF On("workdir") THEN Make(Make(d, Tmp), VarTmp)
    ELSE stageTmp(stageTmp(d, <<"tmp">>), <<"var", "tmp">>)
addTmpMount(d) ==
    IF On("no-tmp") \/ (On("contain") /\ On("workdir") /\ ~On("bind-control")) THEN d
    ELSE RunBeforeTag(OverrideDir(OverrideDir(makeTmpSources(d), <<"tmp">>, Tmp),
                                  <<"var", "tmp">>, VarTmp),
                      "tmp", "addTmpBinds")

addVarTmp(d) ==
    IF EvalRelative(d, <<"var", "tmp">>) = EvalRelative(d, <<"tmp">>) THEN d
    ELSE BindRemount(d, "tmp", VarTmp, <<"var", "tmp">>, FALSE)
addTmpBinds(d) == addVarTmp(BindRemount(d, "tmp", Tmp, <<"tmp">>, FALSE))

\* addScratchMount: a directory of the session, or of the work directory.
Scratch == <<"scratch", "s">>
WorkScratch == <<"work", "scratch", "scratch", "s">>
ScratchSource == IF On("workdir") THEN WorkScratch ELSE S(<<"scratch">> \o Scratch)
makeScratch(d) ==
    IF On("workdir") THEN FoldLeft(Make, d, [n \in 1..3 |-> SubSeq(WorkScratch, 1, n + 1)]) ELSE d
addScratchMount(d) ==
    IF ~On("scratch") \/ ~On("bind-control") THEN d
    ELSE BindRemount(OverrideDir(makeScratch(AddDir(d, <<"scratch">> \o Scratch)),
                                 Scratch, ScratchSource),
                     "scratch", ScratchSource, Scratch, FALSE)

\* addLibsMount: the libraries are bound to files of the session, which is bound.
addLib(d, l) ==
    BindRemount(AddEntry(d, <<"libs", l.name>>, "file"), "files", l.src, S(<<"libs", l.name>>), TRUE)
bindLibs(d) == IF d.libs = <<>> THEN d ELSE BindRemount(d, "files", S(<<"libs">>), Libs, TRUE)
addLibsMount(d) ==
    IF On("bind-control") THEN bindLibs(FoldLeft(addLib, AddDir(d, <<"libs">>), d.libs)) ELSE d

addFilesMount(d) ==
    IF ~On("files") \/ ~On("bind-control") THEN d
    ELSE BindRemount(d, "files", <<"src", "f">>, <<"bin", "f">>, TRUE)

\* addResolvConfMount: the host's file; a link into /run is copied and its directory
\* bound; or a file made of --dns.
addResolvConfMount(d) ==
    LET run == <<"run", "r">>
        linked == AddPlain(AddDir(AddEntry(d, LayerDir(d) \o Resolv, "link"), run), "files", run, run)
    IN CASE On("no-binds") -> d
         [] On("dns") -> AddPlain(AddEntry(d, Resolv, "file"), "files", S(Resolv), Resolv)
         [] On("resolv-link") /\ d.layer # "none" -> OverrideDir(linked, run, run)
         [] OTHER -> AddRemount(AddPlain(d, "files", Resolv, Resolv), "files", Resolv, FALSE)

addHostnameMount(d) ==
    LET f == <<"etc", "hostname">>
    IN IF On("hostname") THEN AddPlain(AddEntry(d, f, "file"), "files", S(f), f) ELSE d

\* addFuseMount: mounted in the session, then bound to its place.
addFuseMount(d) ==
    LET at == <<"fuse", "0">>
    IN IF On("fuse") THEN AddPlain(AddFS(AddDir(d, at), "binds", S(at)), "other", S(at), <<"mnt", "fuse">>)
       ELSE d

\* prepareNetworkSetup keeps the network namespace in a file of the session.
prepareNetworkSetup(d) ==
    IF On("netns") THEN AddPlain(AddEntry(d, <<"netns">>, "file"), "shared", <<"proc">>, S(<<"netns">>))
    ELSE d

Handlers(d) ==
    prepareNetworkSetup(addFuseMount(addHostnameMount(addResolvConfMount(
        addFilesMount(addLibsMount(addScratchMount(addTmpMount(addUserbindsMount(
            addHomeMount(addBindsMount(addHostMount(addDevMount(
                addKernelMount(addImageBindMount(addRootfsMount(d))))))))))))))))

-----------------------------------------------------------------------------
(***************************************************************************)
(* MountAll.                                                               *)
(***************************************************************************)

Flags(d, pt) == IF pt.plain THEN pt.ro ELSE pt.ro \/ ReadOnly(d, pt.src)

Dest(d, pt) ==
    IF IsPrefix(Session, pt.dst) THEN pt.dst ELSE FinalPath(d) \o EvalRelative(d, pt.dst)

SkipTags == {"kernel", "hostfs", "binds", "cwd", "files", "tmp"}

\* Mutant: the flags of the source are not kept for the remount.
RemountBare(d, pt) ==
    LET at == Dest(d, pt)
        on == {i \in 1..Len(d.mnts) : d.mnts[i].dst = at}
        i == CHOOSE i \in on : \A j \in on : j <= i
    IN IF pt.dst \in d.skipped THEN d
       ELSE IF on = {} THEN Fail(d, "remount")
       ELSE [d EXCEPT !.mnts[i].ro = pt.ro]

\* mountGeneric of a remount: with the flags of the bind it follows; what was skipped
\* is left alone, and in a user namespace a refused remount is only warned of.
Remount(d, pt) ==
    LET ro == pt.ro \/ (d.last.dst = pt.dst /\ d.last.ro)
        at == Dest(d, pt)
        on == {i \in 1..Len(d.mnts) : d.mnts[i].dst = at}
        i == CHOOSE i \in on : \A j \in on : j <= i
        d1 == IF d.last.dst = pt.dst THEN [d EXCEPT !.last = [dst |-> <<"-">>, ro |-> FALSE]] ELSE d
    IN IF pt.dst \in d.skipped THEN d1
       ELSE IF on = {} \/ (On("no-remount") /\ ~On("userns")) THEN Fail(d1, "remount")
       ELSE IF On("no-remount") THEN d1
       ELSE [d1 EXCEPT !.mnts[i].ro = ro]

\* mountGeneric of a bind: the flags of the mount of its source are kept.  A missing
\* destination is skipped, or is an error, by the tag; another error is skipped when
\* the point says so.
Bind(d, tag, pt) ==
    LET d1 == [d EXCEPT !.last = [dst |-> pt.dst, ro |-> Flags(d, pt)]]
        skip == [d1 EXCEPT !.skipped = @ \cup {pt.dst}]
    IN IF ~Exists(d, pt.src) THEN Fail(d, "source")
       ELSE IF ~Exists(d1, Dest(d1, pt))
       THEN IF tag \in SkipTags THEN skip ELSE Fail(d1, "destination")
       ELSE IF On("eperm") /\ pt.src = EtcHosts
       THEN IF pt.skip THEN skip ELSE Fail(d1, "mount")
       ELSE BindMount(d1, pt.src, Dest(d1, pt))

\* The overlay: the union of its directories, by the kernel or by the image driver.
OverlayDirs(d) == ToSet(d.lower) \cup (IF d.upper = <<>> THEN {} ELSE {d.upper})
MountOverlay(d, pt) ==
    IF On("no-kernel-overlay") /\ ~On("driver") THEN Fail(d, "overlay")
    ELSE IF \E q \in OverlayDirs(d) : ~Exists(d, q) THEN Fail(d, "overlay")
    ELSE NewFS(d, Overlay, UNION {TreeAt(d, Resolve(d, q)) : q \in OverlayDirs(d)},
               pt.dst, d.upper = <<>>, OverlayDirs(d))

\* mountImage, and gocryptfsMount, which needs three mounts one on the other.
Gocryptfs(x) == S(<<"gocryptfs", x>>)
stageGocryptfs(d) ==
    FoldLeft(Make, AddDir(d, <<"gocryptfs">>),
             <<S(<<"gocryptfs">>), Gocryptfs("cipher"), Gocryptfs("plain")>>)
mountGocryptfs(d, x, needs) ==
    Umounts(NewFS(d, Gocryptfs(x), {<<>>}, Gocryptfs(x), TRUE, needs), Gocryptfs(x))
gocryptfsMount(d, pt) ==
    NewFS(mountGocryptfs(mountGocryptfs(stageGocryptfs(d), "cipher", {}),
                         "plain", {Gocryptfs("cipher")}),
          Image, d.tree[Image], pt.dst, TRUE, {Gocryptfs("plain")})
MountImage(d, pt) ==
    IF pt.src = <<"gocryptfs">> THEN gocryptfsMount(d, pt)
    ELSE IF pt.src = <<"image">> THEN NewFS(d, Image, d.tree[Image], pt.dst, pt.ro, {})
    ELSE NewFS(d, pt.dst,
               IF pt.src = <<"data">> THEN {<<>>, <<"d">>}
               ELSE IF pt.ro THEN {<<>>, <<"upper">>, <<"upper", "l">>} ELSE {<<>>},
               pt.dst, pt.ro, {})

MountPoint(d, tag, pt) ==
    CASE ~Ok(d) \/ pt.kind = "prop" -> d
      [] Ok(d) /\ pt.kind = "remount" -> Remount(d, pt)
      [] Ok(d) /\ pt.kind = "bind" -> Bind(d, tag, pt)
      [] Ok(d) /\ pt.kind = "overlay" -> MountOverlay(d, pt)
      [] Ok(d) /\ pt.kind = "image" -> MountImage(d, pt)
      [] Ok(d) /\ pt.kind = "fs" ->
            IF ~Exists(d, Dest(d, pt))
            THEN IF tag \in SkipTags THEN [d EXCEPT !.skipped = @ \cup {pt.dst}]
                 ELSE Fail(d, "destination")
            ELSE NewFS(d, <<"#fs">> \o pt.dst, {<<>>}, Dest(d, pt), FALSE, {})

-----------------------------------------------------------------------------
(***************************************************************************)
(* The hooks.                                                              *)
(***************************************************************************)

\* createCwdDir: for the underlay the bind of the current directory is added at once,
\* for the overlay a place for it.
createCwdDir(d) ==
    IF On("contain") \/ ~On("bind-control") \/ ~On("cwd") THEN [d EXCEPT !.skipCwd = TRUE]
    ELSE CASE d.layer = "underlay" -> BindRemount(d, "cwd", Cwd, Cwd, FALSE)
           [] d.layer = "overlay" -> IF In(d, LayerDir(d) \o Cwd) THEN d ELSE AddDir(d, LayerDir(d) \o Cwd)
           [] OTHER -> d

\* addCwdMount: only where the current directory is not already in the container.
addCwdMount(d) ==
    LET at == FinalPath(d) \o EvalRelative(d, Cwd)
    IN IF \/ d.skipCwd \/ ~Exists(d, at)
          \/ Resolve(d, at) = [fs |-> Host, path |-> Cwd]
          \/ \E i \in 1..Len(d.mnts) : d.mnts[i].dst = at
          \/ Present(d, "cwd", Cwd)
       THEN d ELSE BindRemount(d, "cwd", Cwd, Cwd, FALSE)

\* addIdentityMount: the user in the image's passwd (its group file is treated alike),
\* then an update of the session.
addIdentityMount(d) ==
    LET f == <<"etc", "passwd">>
    IN IF On("root") /\ req \cap {"writable", "writable-tmpfs", "writable-overlay"} # {} THEN d
       ELSE IF ~Exists(d, S(RootFs) \o f) THEN Sync(d)
       ELSE Sync(AddPlain(AddEntry(d, f, "file"), "files", S(f), f))

\* overlayUpperWork: the directories that a new overlay image lacks.
overlayUpperWork(d) == Make(Make(d, d.upper), Append(Dir(d.upper), "work"))

\* addSessionDevMount: the staged /dev, unless the user asked for the host's.
addSessionDevMount(d) ==
    AddPlain(d, "dev", IF d.dev = <<>> THEN S(<<"dev">>) ELSE d.dev, <<"dev">>)

\* The check that a path of a data image is there.
accessData(d) ==
    LET gone == {i \in 1..Len(d.pts["userbinds"]) :
                   /\ IsPrefix(S(<<"data-images">>), d.pts["userbinds"][i].src)
                   /\ ~Exists(d, d.pts["userbinds"][i].src)}
    IN IF gone = {} THEN d ELSE Fail(d, "data")

\* chdirFinal: the working directory of the RPC server holds on to the layer.
chdirFinal(d) == [d EXCEPT !.cwd = Resolve(d, FinalPath(d))]

addMountInfo(d) == BindMount(Make(d, S(<<"mountinfo">>)), <<"proc", "mountinfo">>, S(<<"mountinfo">>))

Hook(d, h) ==
    CASE ~Ok(d) -> d
      [] Ok(d) /\ h = "createLayout" -> CreateLayout(d)
      [] Ok(d) /\ h = "createOverlay" -> CreateOverlay(d)
      [] Ok(d) /\ h = "createUnderlay" -> CreateUnderlay(d)
      [] Ok(d) /\ h = "createCwdDir" -> createCwdDir(d)
      [] Ok(d) /\ h = "addCwdMount" -> addCwdMount(d)
      [] Ok(d) /\ h = "addIdentityMount" -> addIdentityMount(d)
      [] Ok(d) /\ h = "overlayUpperWork" -> overlayUpperWork(d)
      [] Ok(d) /\ h = "addSessionDevMount" -> addSessionDevMount(d)
      [] Ok(d) /\ h = "addTmpBinds" -> addTmpBinds(d)
      [] Ok(d) /\ h = "accessData" -> accessData(d)
      [] Ok(d) /\ h = "chdirFinal" -> chdirFinal(d)
      [] Ok(d) /\ h = "addMountInfo" -> addMountInfo(d)
      [] Ok(d) /\ h \in {"startDriver", "setPropagationMount"} -> d

\* System.MountAll for one tag: its hooks, its points, sorted for the user binds, and
\* the hooks after it.
Before(d, tag) == FoldLeft(Hook, d, d.before[tag])
After(d, tag) == FoldLeft(Hook, d, d.after[tag])
MountPoints(d, tag) ==
    FoldLeft(LAMBDA x, pt : MountPoint(x, tag, pt), d,
             IF tag = "userbinds" THEN Sort(d.pts[tag]) ELSE d.pts[tag])
MountTag(d, tag) == After(MountPoints(Before(d, tag), tag), tag)

\* After MountAll: the binds of the underlay are to be unmounted before the image.
UnderlayUmounts(d) ==
    LET pts == SelectSeq(AllPoints(d), LAMBDA pt : /\ pt.kind = "bind"
                                                   /\ Len(pt.dst) > 2
                                                   /\ IsPrefix(S(<<"underlay">>), pt.dst))
    IN IF d.layer = "underlay" THEN FoldLeft(LAMBDA x, pt : Umounts(x, pt.dst), d, pts) ELSE d

-----------------------------------------------------------------------------

Step(d, next) ==
    /\ c' = d
    /\ pc' = IF Ok(d) THEN next ELSE "failed"
    /\ UNCHANGED <<req, binds>>

SetupSession == pc = "setup" /\ Step(Setup(c), "collect") /\ UNCHANGED root
CollectPoints == pc = "collect" /\ Step(Handlers(c), Tags[1]) /\ UNCHANGED root

NextTag(tag) ==
    LET i == CHOOSE i \in 1..Len(Tags) : Tags[i] = tag
    IN IF i = Len(Tags) THEN "chroot" ELSE Tags[i + 1]
Mount == pc \in ToSet(Tags) /\ Step(MountTag(c, pc), NextTag(pc)) /\ UNCHANGED root

\* Chroot of the RPC server, from its working directory.
Chroot ==
    /\ pc = "chroot"
    /\ root' = IF c.cwd.path # <<>> \/ c.cwd.fs # Host THEN c.cwd ELSE Resolve(c, FinalPath(c))
    /\ Step(UnderlayUmounts(c), "done")

Next == SetupSession \/ CollectPoints \/ Mount \/ Chroot

Spec == Init /\ [][Next]_vars

-----------------------------------------------------------------------------
(***************************************************************************)
(* Properties.                                                             *)
(***************************************************************************)

Inside(p) == FinalPath(c) \o EvalRelative(c, p)
InSession(b) == IsPrefix(Session, b.dst)
PathBinds == {i \in 1..Len(binds) : /\ binds[i].kind = "path"
                                    /\ ~IsPrefix(<<"dev">>, binds[i].dst)
                                    /\ ~IsPrefix(Libs, binds[i].dst)
                                    /\ \A k \in 1..Len(binds) : binds[k].dst = binds[i].dst
                                         => k >= i /\ binds[k].kind = "path"}
OffSession == \A i \in 1..Len(binds) : ~InSession(binds[i])
Sane == pc = "done" /\ OffSession

\* The current directory is mounted after the binds (CwdTag follows UserbindsTag) and
\* hides those below it.
UnderCwd(b) == Present(c, "cwd", Cwd) /\ IsStrictPrefix(Cwd, b.dst)

\* Whatever the order of the --bind options, and whichever of them lie below another, a
\* container that starts sees the source of each at its destination, but for those that
\* lie below the current directory when that is mounted too.
BindsArePlaced ==
    Sane /\ On("bind-control") =>
        \A i \in {k \in PathBinds : ~UnderCwd(binds[k])} :
            Resolve(c, Inside(binds[i].dst)) = [fs |-> Host, path |-> binds[i].src]

\* Whatever has to be created for the mounts, every path of the image that no mount
\* covers is still in the container's root.
ImageStaysVisible ==
    Sane => \A p \in IF On("sandbox") THEN {q \in ImageTree : <<"sandbox">> \o q \in HostTree}
                     ELSE ImageTree :
        \/ \E i \in 1..Len(AllPoints(c)) :
              IsPrefix(EvalRelative(c, AllPoints(c)[i].dst), EvalRelative(c, p))
        \/ Exists(c, Inside(p))

\* With a layer no mount of the container fails for want of a place, and no bind of the
\* user is skipped.
LayerMakesRoom ==
    c.layer # "none" /\ OffSession =>
        /\ c.err \notin {"destination", "mkdir"}
        /\ pc = "done" /\ ~On("eperm") => \A i \in PathBinds : binds[i].dst \notin c.skipped

\* What the host has mounted read-only is not writable in the container, through a bind,
\* its remount, or a bind of a directory above it, at any point of the mounts.
FlagsKept ==
    \A i \in 1..Len(c.mnts) : c.mnts[i].fs = Host /\ IsPrefix(<<"ro">>, c.mnts[i].root)
                                 => c.mnts[i].ro

\* The root that is changed to is the layer that was built, even when a user bind was
\* mounted over the path of the session that leads to it (comment at create's
\* registration of chdirFinal).
RootIsLayer ==
    pc = "done" =>
        root.fs = CASE c.layer = "overlay" -> Overlay
                    [] c.layer = "underlay" -> <<"#fs", "session">>
                    [] OTHER -> IF On("sandbox") THEN Host ELSE Image

\* The cleanup unmounts in reverse order of the list: no point of it is unmounted
\* while another that rests on it is still mounted.  The three mounts of gocryptfs,
\* appended as they are mounted, are the exception.
RestsOn(p, q) ==
    \E i \in 1..Len(c.mnts) : c.mnts[i].dst = p /\ \E o \in c.mnts[i].on : IsPrefix(q, o)

UmountOrder ==
    pc = "done" /\ ~On("gocryptfs") =>
        \A i, j \in 1..Len(c.umount) : i < j => ~RestsOn(c.umount[i], c.umount[j])

\* The tree of the container is what the command line and the image ask for, and the
\* order of its mounts is right for their flags, for the change of root and for the
\* cleanup: the six above.
TreeIsAsAsked ==
    /\ BindsArePlaced /\ ImageStaysVisible /\ LayerMakesRoom
    /\ FlagsKept /\ RootIsLayer /\ UmountOrder

\* A bind that the user asked to be read-only is read-only, at its destination and
\* everywhere the container sees the source below it.
ReadOnlyBindsHold ==
    Sane /\ On("bind-control") =>
        \A i \in PathBinds : binds[i].ro =>
            \A p \in HostTree :
                IsPrefix(binds[i].dst, p)
                /\ Resolve(c, Inside(p)).fs = Host
                /\ IsPrefix(binds[i].src, Resolve(c, Inside(p)).path)
                    => ReadOnly(c, Inside(p))

=============================================================================
