----------------------------- MODULE OciMounts ------------------------------
(***************************************************************************)
(* CreateContainer of internal/pkg/runtime/engine/oci/create_linux.go: the *)
(* root of a container made from the config.json of an OCI bundle.  The    *)
(* master collects mount points from the configuration, mounts them tag by *)
(* tag through the RPC server, with the devices and the masked and         *)
(* read-only paths added once the kernel's file systems are mounted, and   *)
(* changes the root.                                                       *)
(*                                                                         *)
(* The mount points, the mounts and the trees are those of SessionLayout.  *)
(* The mounts end with the container; what was created in the bundle's     *)
(* root file system stays for the next container of the bundle.  Links in  *)
(* the root file system are not followed here (see ContainerMounts), and   *)
(* of the devices and links of /dev one stands for all.                    *)
(***************************************************************************)
EXTENDS SessionLayout

CONSTANTS
    Configs,    \* what the config.json says, see Init
    Roots,      \* root file systems: the paths of each, and those that are files
    HostTree,   \* the paths of the host that sources can name
    HostFiles,  \* those of them that are not directories
    MaxCreates  \* bound: containers created from the bundle, one after the other

VARIABLES
    d,          \* the record of SessionLayout, with device nodes
    cfg,        \* the configuration of the bundle
    pc,         \* "collect", a tag, "chroot", "created" or "failed"
    found,      \* what was in the root file system when this create began
    count       \* creates so far

vars == <<d, cfg, pc, found, count>>

R == <<"r">>                        \* the root file system of the bundle
NullDir == <<"null">>               \* the empty directory of the instance
DevNull == <<"dev", "null">>
Pts == <<"dev", "pts">>             \* the slave of the terminal
Dev == <<"dev">>
Console == <<"dev", "console">>
Link == <<"dev", "fd">>
OnHost(p) == [fs |-> Host, path |-> p]

Proc == <<"#proc">>
Sysfs == <<"#sysfs">>
Kernel == (Proc :> {<<>>, <<"kcore">>, <<"sys">>}) @@
          (Sysfs :> {<<>>, <<"fs">>, <<"fs", "cgroup">>})

\* The state at the start of a create: the host, with the bundle's root file system.
Fresh(tree, files, nodes) ==
    [err |-> "none",
     pts |-> [t \in TagSet |-> <<>>],
     before |-> [t \in TagSet |-> <<>>], after |-> [t \in TagSet |-> <<>>],
     mnts |-> <<MountRecord(<<>>, OnHost(<<>>), FALSE, {})>>,
     tree |-> (Host :> tree) @@ Kernel,
     files |-> files \cup {[fs |-> Proc, path |-> <<"kcore">>]},
     nodes |-> nodes,
     devices |-> <<DevNull>>, mounts |-> <<>>, cgroup |-> <<>>]

Bundle(tree) == {p \in tree : IsPrefix(R, p)}

Init ==
    /\ cfg \in Configs
    /\ \E r \in Roots :
         d = Fresh(HostTree \cup {R \o p : p \in r.paths},
                   {OnHost(p) : p \in HostFiles} \cup {OnHost(R \o p) : p \in r.files}, {})
    /\ pc = "collect" /\ count = 1
    /\ found = Bundle(d.tree[Host])

-----------------------------------------------------------------------------
(***************************************************************************)
(* The mount points.                                                       *)
(***************************************************************************)

Positions(seq, Test(_)) == {i \in 1..Len(seq) : Test(seq[i])}

\* The index that CreateContainer keeps: of the last /dev, and of the last cgroup mount.
devIndex == Positions(cfg.mounts, LAMBDA m : m.type = "tmpfs" /\ m.dst = Dev)
cgroupIndex == Positions(cfg.mounts, LAMBDA m : m.type = "cgroup")

\* addDevices: the devices of the configuration after the default ones; a read-only
\* /dev is mounted writable and remounted last.
addDevices(x) ==
    LET i == Max(devIndex)
        y == [x EXCEPT !.devices = @ \o cfg.devices, !.mounts = cfg.mounts]
    IN IF cfg.badDevice THEN Fail(x, "device")
       ELSE IF devIndex = {} \/ "ro" \notin cfg.mounts[i].opts THEN y
       ELSE [AddRemount(y, "final", Dev, TRUE) EXCEPT !.mounts[i].opts = @ \ {"ro"}]

\* addCgroups: a cgroup (v1) mount is taken out of the list.  A tmpfs takes its place
\* with a bind for each controller of the container's process; links for joined
\* controllers are made after, and a read-only one is remounted last.
addController(x, m, ctl) ==
    LET dst == Append(m.dst, ctl)
        y == Add(x, "other", Point("bind", <<"sys", "fs", "cgroup", ctl>>, dst, FALSE, TRUE, FALSE))
    IN IF "ro" \in m.opts THEN AddRemount(y, "other", dst, TRUE) ELSE y
addCgroups(x) ==
    LET i == Max(cgroupIndex)
        m == cfg.mounts[i]
        tmpfs == Add([x EXCEPT !.mounts = RemoveAt(@, i), !.cgroup = m.dst], "other",
                     Point("fs", <<"tmpfs">>, m.dst, FALSE, TRUE, FALSE))
        y == FoldLeft(LAMBDA a, ctl : addController(a, m, ctl),
                      RunAfterTag(tmpfs, "other", "createSymlinks"), cfg.controllers)
    IN IF ~Ok(x) \/ cgroupIndex = {} THEN x
       ELSE IF "ro" \in m.opts THEN AddRemount(y, "final", m.dst, TRUE)
       ELSE y

\* ConvertSpec and Import of one mount: a file system for the kernel tag; otherwise a
\* bind, that has to say so, with a remount when it has other options too.
Binds == {"bind", "rbind"}
Propagation == {"rslave", "rprivate"}
ImportMount(x, m) ==
    LET opts == m.opts \ Propagation
        bind == Point("bind", m.src, m.dst, "ro" \in opts, "rbind" \notin opts, FALSE)
        y == Add(x, "userbinds", bind)
        z == IF Cardinality(opts) > 1 THEN AddRemount(y, "userbinds", m.dst, "ro" \in opts) ELSE y
    IN IF m.type \notin {"", "bind", "none"}
       THEN IF opts \cap Binds # {} THEN Fail(x, "source")
            ELSE Add(x, "kernel", Point("fs", <<m.type>>, m.dst, "ro" \in opts, TRUE, FALSE))
       ELSE IF opts \cap Binds = {} THEN Fail(x, "type")
       ELSE IF m.opts \cap Propagation = {} THEN z ELSE AddPropagation(z, "userbinds", m.dst)
ImportFromSpec(x) == FoldLeft(ImportMount, x, x.mounts)

\* Mutant: the root file system becomes read-only as soon as it is mounted.
addRootfsEarly(x) ==
    LET y == Add(x, "rootfs", Point("bind", R, R, cfg.rootRO, TRUE, FALSE))
    IN IF cfg.rootRO THEN AddRemount(y, "rootfs", R, TRUE) ELSE y

\* addRootfsMount: bound on itself, and remounted last when it is read-only.
addRootfsMount(x) ==
    LET y == Add(x, "rootfs", Point("bind", R, R, cfg.rootRO, TRUE, FALSE))
    IN IF cfg.rootRO THEN AddRemount(y, "final", R, TRUE) ELSE y

\* CreateContainer up to MountAll.
Points(x) ==
    RunAfterTag(RunAfterTag(addRootfsMount(ImportFromSpec(addCgroups(addDevices(x)))),
                            "kernel", "addDefaultDevices"),
                "kernel", "addAllPaths")

-----------------------------------------------------------------------------
(***************************************************************************)
(* Files.                                                                  *)
(***************************************************************************)

IsFile(x, p) == Resolve(x, p) \in x.files

\* mkdir and the like: the kernel's file systems take none.
Create(x, p) ==
    IF ~Exists(x, p) /\ Resolve(x, p).fs \in DOMAIN Kernel THEN Fail(x, "mkdir") ELSE Make(x, p)
MkdirAll(x, p) == FoldLeft(Create, x, [n \in 1..Len(p) |-> SubSeq(p, 1, n)])
Touch(x, p) ==
    LET y == Create(x, p)
    IN IF Ok(y) /\ ~Exists(x, p) THEN [y EXCEPT !.files = @ \cup {Resolve(x, p)}] ELSE y
Mknod(x, p) ==
    LET y == Touch(x, p) IN IF Ok(y) THEN [y EXCEPT !.nodes = @ \cup {Resolve(x, p)}] ELSE y

\* A bind, with the mounts below its source when it is recursive; its flags are those
\* of the source until it is remounted.
BindOn(x, src, at, plain) ==
    IF ~Ok(x) THEN x
    ELSE IF ~Exists(x, src) THEN Fail(x, "source")
    ELSE IF IsFile(x, src) # IsFile(x, at) THEN Fail(x, "kind")
    ELSE IF plain
    THEN [x EXCEPT !.mnts = Append(@, MountRecord(at, Resolve(x, src), ReadOnly(x, src), {}))]
    ELSE BindMount(x, src, at)

MountFS(x, type, at, ro) ==
    IF ~Ok(x) THEN x
    ELSE IF IsFile(x, at) THEN Fail(x, "kind")
    ELSE IF type \in {"proc", "sysfs"}
    THEN [x EXCEPT !.mnts = Append(@, MountRecord(at, [fs |-> IF type = "proc" THEN Proc ELSE Sysfs,
                                                 path |-> <<>>], ro, {}))]
    ELSE NewFS(x, <<"#fs">> \o at, {<<>>}, at, ro, {})

-----------------------------------------------------------------------------
(***************************************************************************)
(* MountAll.                                                               *)
(***************************************************************************)

\* mount, where the destination is missing: a directory for a file system, what the
\* source is for a bind.  Without the user namespace all of its parents are made.
MakeDest(x, pt, at) ==
    LET y == IF Exists(x, Dir(at)) THEN x
             ELSE IF cfg.userns THEN Create(x, Dir(at)) ELSE MkdirAll(x, Dir(at))
    IN IF pt.kind = "fs" THEN MkdirAll(x, at)
       ELSE IF ~Exists(y, pt.src) THEN y
       ELSE IF IsFile(y, pt.src) THEN Touch(y, at) ELSE Create(y, at)

RemountAt(x, pt, at) ==
    LET i == MountOf(x, at)
    IN IF x.mnts[i].dst # at THEN Fail(x, "remount") ELSE [x EXCEPT !.mnts[i].ro = pt.ro]

MountAt(x, pt, at) ==
    IF pt.kind = "fs" THEN MountFS(x, pt.src[1], at, pt.ro) ELSE BindOn(x, pt.src, at, pt.plain)

\* mount: a destination given in the root file system has to exist, another is made;
\* a bind to a new place whose source is missing is left out.  (The code compares
\* strings; a destination whose first name only begins with that of the root file
\* system is not among the configurations.)
MountPoint(x, pt) ==
    LET inRoot == IsPrefix(R, pt.dst)
        at == IF inRoot THEN pt.dst ELSE R \o pt.dst
    IN IF ~Ok(x) \/ pt.kind = "prop" \/ (inRoot /\ ~Exists(x, at)) THEN x
       ELSE IF pt.kind = "remount" THEN RemountAt(x, pt, at)
       ELSE IF Exists(x, at) THEN MountAt(x, pt, at)
       ELSE IF pt.kind = "bind" /\ ~Exists(x, pt.src) THEN MakeDest(x, pt, at)
       ELSE MountAt(MakeDest(x, pt, at), pt, at)

\* addDefaultDevices: /dev, its links, the console and the devices, each only where the
\* tree has nothing of the name.  In a user namespace a device is a bind of the host's.
addConsole(x) ==
    IF ~Ok(x) \/ ~cfg.terminal \/ Exists(x, R \o Console) THEN x
    ELSE Add(Touch(x, R \o Console), "other", Point("bind", Pts, Console, FALSE, TRUE, FALSE))
addDevice(x, p) ==
    LET at == R \o p
    IN IF ~Ok(x) \/ Exists(x, at) THEN x
       ELSE IF ~cfg.userns THEN Mknod(MkdirAll(x, Dir(at)), at)
       ELSE IF ~Exists(x, p) THEN x
       ELSE BindOn(Touch(MkdirAll(x, Dir(at)), at), p, at, TRUE)
addDefaultDevices(x) ==
    FoldLeft(addDevice, addConsole(Touch(Create(x, R \o Dev), R \o Link)), x.devices)

\* addMaskedPathsMount: over a path that exists now, an empty directory or /dev/null.
maskPath(x, p) ==
    IF ~Ok(x) \/ ~Exists(x, R \o p) THEN x
    ELSE Add(x, "other", Point("bind", IF IsFile(x, R \o p) THEN DevNull ELSE NullDir,
                               R \o p, FALSE, TRUE, FALSE))
addMaskedPathsMount(x) == FoldLeft(maskPath, MkdirAll(x, NullDir), cfg.masked)

\* addReadonlyPathsMount: a path that exists now is bound on itself and remounted.
readonlyPath(x, p) ==
    IF ~Ok(x) \/ ~Exists(x, R \o p) THEN x
    ELSE AddRemount(Add(x, "other", Point("bind", R \o p, R \o p, TRUE, TRUE, FALSE)),
                    "other", R \o p, TRUE)
addReadonlyPathsMount(x) == FoldLeft(readonlyPath, x, cfg.readonly)

addAllPaths(x) ==
    IF cfg.userns THEN addMaskedPathsMount(x) ELSE addReadonlyPathsMount(addMaskedPathsMount(x))

\* createSymlinks: the names of controllers that are mounted joined.
createSymlinks(x) ==
    LET at == R \o x.cgroup
    IN IF ~Ok(x) \/ Exists(x, Append(at, "cpu")) THEN x
       ELSE Touch(Touch(x, Append(at, "cpu")), Append(at, "cpuacct"))

Hook(x, h) ==
    IF h = "addDefaultDevices" THEN addDefaultDevices(x)
    ELSE IF h = "addAllPaths" THEN addAllPaths(x)
    ELSE createSymlinks(x)

\* One tag of MountAll: the points that are there when it begins, then its hooks.
MountTag(x, tag) ==
    FoldLeft(Hook,
             FoldLeft(MountPoint, x, IF tag = "userbinds" THEN Sort(x.pts[tag]) ELSE x.pts[tag]),
             x.after[tag])

-----------------------------------------------------------------------------

Step(x, next) ==
    /\ d' = x
    /\ pc' = IF Ok(x) THEN next ELSE "failed"
    /\ UNCHANGED <<cfg, found, count>>

CollectPoints == pc = "collect" /\ Step(Points(d), Tags[1])

NextTag(tag) ==
    LET i == CHOOSE i \in 1..Len(Tags) : Tags[i] = tag
    IN IF i = Len(Tags) THEN "chroot" ELSE Tags[i + 1]
Mount == pc \in TagSet /\ Step(MountTag(d, pc), NextTag(pc))

\* After the mounts: the hostname, the paths of the namespaces, and the change of root.
Chroot == pc = "chroot" /\ Step(d, "created")

\* A call of the system fails: a cgroup, a sysctl, a namespace, a mount.
Fails == pc \in {"collect", "chroot"} \cup TagSet /\ Step(Fail(d, "system"), "failed")

\* The container is gone, with its mounts, and another is created from the bundle.
Again ==
    /\ pc \in {"created", "failed"} /\ count < MaxCreates
    /\ d' = Fresh(d.tree[Host], {f \in d.files : f.fs = Host}, {n \in d.nodes : n.fs = Host})
    /\ pc' = "collect" /\ count' = count + 1
    /\ found' = Bundle(d.tree[Host])
    /\ UNCHANGED cfg

Next == CollectPoints \/ Mount \/ Chroot \/ Fails \/ Again

Spec == Init /\ [][Next]_vars

-----------------------------------------------------------------------------
(***************************************************************************)
(* Properties.                                                             *)
(***************************************************************************)

IsCreated == pc = "created"
Sees(p) == Resolve(d, R \o p)
IsBind(m) == m.type \in {"", "bind", "none"}
Asked == ToSet(cfg.mounts)

\* What may lie over a path: a bind of the configuration, the controllers of a cgroup
\* mount, a masked path, or a read-only path, that is bound without what is mounted
\* below it.
BindOver(p) == \E m \in Asked : IsBind(m) /\ IsPrefix(m.dst, p)
CgroupOver(p) == d.cgroup # <<>> /\ IsPrefix(d.cgroup, p)
MaskOver(p) == \E q \in ToSet(cfg.masked) : IsPrefix(q, p)
ReadonlyOver(p) == ~cfg.userns /\ \E q \in ToSet(cfg.readonly) : IsStrictPrefix(q, p)

\* A masked path of the root file system or of /proc or /sys shows nothing of them.
MasksHold ==
    \A p \in ToSet(cfg.masked) :
        \/ ~Exists(d, R \o p) \/ Sees(p) \in {OnHost(NullDir), OnHost(DevNull)}
        \/ BindOver(p) \/ CgroupOver(p) \/ ReadonlyOver(p)

\* What is asked to be read-only is, whenever its remount comes: the read-only paths
\* (outside of a user namespace), every view of a read-only root file system, a
\* read-only /dev, the binds and the controllers.
ReadOnlyHolds ==
    /\ ~cfg.userns => \A p \in ToSet(cfg.readonly) :
          \/ ~Exists(d, R \o p) \/ ReadOnly(d, R \o p) \/ BindOver(p) \/ CgroupOver(p)
    /\ cfg.rootRO => \A i \in 1..Len(d.mnts) :
          d.mnts[i].fs = Host /\ IsPrefix(R, d.mnts[i].root) => d.mnts[i].ro
    /\ \A m \in Asked : "ro" \in m.opts =>
          ReadOnly(d, R \o m.dst) \/ MaskOver(m.dst) \/ ReadonlyOver(m.dst)

\* Every mount of the configuration is seen at its destination, unless one that is
\* mounted later lies over it: the binds come after the file systems, sorted.
BindSeen(m) ==
    \/ Sees(m.dst) = OnHost(m.src) \/ ~Exists(d, m.src)
    \/ MaskOver(m.dst) \/ ReadonlyOver(m.dst) \/ CgroupOver(m.dst)
FileSystemSeen(i) ==
    LET m == cfg.mounts[i]
    IN \/ Sees(m.dst).path = <<>> /\ Sees(m.dst).fs # Host
       \/ \E k \in i + 1..Len(cfg.mounts) : IsPrefix(cfg.mounts[k].dst, m.dst)
       \/ MaskOver(m.dst) \/ ReadonlyOver(m.dst) \/ CgroupOver(m.dst) \/ BindOver(m.dst)
MountsSeen ==
    \A i \in 1..Len(cfg.mounts) :
        IF IsBind(cfg.mounts[i]) THEN BindSeen(cfg.mounts[i]) ELSE FileSystemSeen(i)

\* A device of the container is a device, and its console the terminal, unless
\* something of the name was in the root file system.
DevicesWork ==
    \A p \in ToSet(d.devices) \cup (IF cfg.terminal THEN {Console} ELSE {}) :
        \/ Sees(p) \in d.nodes \/ Sees(p) = OnHost(IF p = Console THEN Pts ELSE p)
        \/ R \o p \in found \/ (cfg.userns /\ ~Exists(d, p))
        \/ BindOver(p) \/ MaskOver(p) \/ ReadonlyOver(p)

\* No create fails for want of a place: what has to be created is created before
\* anything becomes read-only, but for places inside a bind that is read-only itself.
\* In a user namespace only one parent of the destination of a bind is made.
RoomIsMade ==
    pc = "failed" /\ d.err = "mkdir" =>
        \E m \in Asked :
            /\ IsBind(m)
            /\ \/ cfg.userns /\ Len(m.dst) > 2
               \/ /\ "ro" \in m.opts
                  /\ \/ IsPrefix(m.dst, Console)
                     \/ \E n \in Asked : IsStrictPrefix(m.dst, n.dst)

\* The tree of a container is what the configuration of its bundle asks for, in
\* whatever order the points are mounted and whatever an earlier container left in the
\* bundle: the five above (CreateContainer, MountAll).
BundleTreeIsAsAsked ==
    /\ IsCreated => MasksHold /\ ReadOnlyHolds /\ MountsSeen /\ DevicesWork
    /\ RoomIsMade

=============================================================================
