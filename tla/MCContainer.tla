----------------------------- MODULE MCContainer ----------------------------
(***************************************************************************)
(* What a container is made of, for TLC: the launcher and stage 1          *)
(* (Launch), the container's mounts (ContainerMounts), the image file with *)
(* its locks and its execution control list (ImageFile), the networks      *)
(* (Network), the mounts of an OCI bundle (OciMounts), the fetches of OCI  *)
(* images (OciImage) and the pulls of images to a path (PullFile).  A      *)
(* behaviour belongs to one part, and the variables of Network rest in an  *)
(* initial state in those of the others, which lie over the same variables *)
(* v1, v2, ...                                                             *)
(***************************************************************************)
EXTENDS Network, TLC

\* The paths that ContainerMounts has names for.
EtcHosts == <<"etc", "hosts">>
Localtime == <<"etc", "localtime">>
Resolv == <<"etc", "resolv">>
Home == <<"home", "u">>
S(p) == <<"session">> \o p

B(src, dst, ro, kind) == [src |-> src, dst |-> dst, ro |-> ro, kind |-> kind]

Data == B(<<"data">>, <<"data">>, TRUE, "path")
Candidates ==
    {Data,
     B(<<"src">>, <<"data", "sub">>, FALSE, "path"),         \* below another bind
     B(<<"src">>, <<"data", "work", "sub">>, FALSE, "path"), \* below the current directory
     B(<<"src">>, <<"new", "dir">>, FALSE, "path"),          \* a place the image lacks
     B(<<"src">>, Append(Home, "x"), FALSE, "path"),         \* below the home directory
     B(<<"data">>, <<"new">>, FALSE, "path"),
     B(<<"ro">>, <<"opt">>, FALSE, "path"),                  \* from a read-only mount
     B(<<"src", "f">>, EtcHosts, TRUE, "path"),              \* a file that is bound anyway
     B(<<"src">>, <<"session", "final">>, FALSE, "path"),    \* over the session
     B(<<"dev", "null">>, <<"dev", "null">>, FALSE, "path"),
     B(<<"dev">>, <<"dev">>, FALSE, "path"),
     B(<<"src", "f">>, <<".d", "libs", "f">>, FALSE, "path"),
     B(<<"d">>, <<"opt">>, FALSE, "image")}

OneBind == {<<>>} \cup {<<a>> : a \in Candidates}
TwoBinds == {p \in Candidates \X Candidates : p[1] # p[2]}

Options ==
    {{"cwd"}, {"contain"}, {"contain", "workdir"}, {"contain", "netns"}, {"minimal-dev"}, {"no-dev"},
     {"custom-home"}, {"contain", "custom-home"}, {"no-home"}, {"scratch"}, {"scratch", "workdir"},
     {"files"}, {"fuse"}, {"hostname"}, {"dns"}, {"resolv-link"}, {"hostfs"}, {"no-binds"},
     {"no-tmp"}, {"link"}, {"eperm"}, {"userns"}, {"no-remount"}, {"userns", "no-remount"}, {"pidns"}, {"gocryptfs"},
     {"writable-tmpfs"}, {"overlay"}, {"overlay", "ext3"}, {"overlay", "writable-overlay"},
     {"overlay", "writable-tmpfs"}, {"sandbox"}, {"sandbox", "writable", "root"},
     {"driver", "no-kernel-overlay"}, {"no-kernel-overlay"}, {"no-kernel"},
     {"root", "writable-tmpfs"}}

Wishes == {o \cup {"bind-control"} : o \in Options} \cup
          {{"contain", "workdir"}, {"custom-home"}, {"scratch", "files"}, {"cwd"}}

Case(req_, binds_) == [req |-> req_, binds |-> binds_]

MCCases ==
    {Case(w, l) : w \in Wishes, l \in OneBind} \cup
    {Case(w \cup {"bind-control"}, l) : w \in {{"cwd"}, {"link"}}, l \in TwoBinds}

MCHostTree ==
    {<<>>, <<"session">>, <<"data">>, <<"data", "work">>, <<"src">>, <<"src", "f">>, <<"ro">>,
     <<"ro", "f">>, <<"etc">>, EtcHosts, Localtime, Resolv, <<"proc">>, <<"proc", "mountinfo">>,
     <<"sys">>, <<"dev">>, <<"dev", "null">>, <<"dev", "shm">>, <<"home">>, Home, <<"tmp">>, <<"var">>,
     <<"var", "tmp">>, <<"work">>, <<"run">>, <<"run", "r">>, <<"sandbox">>}
    \cup {<<"sandbox">> \o p : p \in {<<"bin">>, <<"etc">>, EtcHosts, <<"tmp">>, <<"dev">>,
                                     <<"home">>, <<"etc", "passwd">>}}

MCHostFiles ==
    {<<"src", "f">>, <<"ro", "f">>, EtcHosts, Localtime, Resolv, <<"dev", "null">>,
     S(EtcHosts), S(Resolv), S(<<"etc", "hostname">>), S(<<"etc", "passwd">>)}

MCImageTree ==
    {<<>>, <<"bin">>, <<"bin", "sh">>, <<"etc">>, EtcHosts, <<"opt">>, <<"opt", "x">>, <<"proc">>,
     <<"dev">>, <<"tmp">>, <<"var">>, <<"var", "lib">>, <<"var", "tmp">>, <<"new">>, <<"new", "old">>,
     <<"home">>, <<"etc", "passwd">>}

-----------------------------------------------------------------------------
(* The image files and the execution control lists: every format, with and *)
(* without an overlay, writable or not.                                    *)

P(use, fs, group) == [use |-> use, fs |-> fs, good |-> TRUE, group |-> group]
Sys == P("sys", "squash", 1)
F(kind, parts, perm, nolock) ==
    [kind |-> kind, id |-> 1, parts |-> parts, sigs |-> {}, perm |-> perm,
     nolock |-> nolock, dir |-> "d"]

MCFiles ==
    {F("none", << >>, FALSE, FALSE), F("other", << >>, TRUE, FALSE),
     F("sandbox", << >>, TRUE, FALSE), F("squashfs", << >>, TRUE, FALSE),
     F("ext3", <<P("data", "ext3", 1)>>, FALSE, FALSE)}
    \cup {F("ext3", <<P("data", "ext3", 1)>>, TRUE, nl) : nl \in BOOLEAN}
    \cup {F("sif", ps, TRUE, FALSE) :
            ps \in {<<Sys>>, <<P("sys", "crypt", 1)>>,
                    <<[Sys EXCEPT !.good = FALSE]>>,
                    <<Sys, P("overlay", "ext3", 1), P("data", "ext3", 2)>>,
                    <<P("sys", "ext3", 1), P("overlay", "ext3", 2)>>}}
    \cup {F("sif", ps, FALSE, FALSE) :
            ps \in {<<Sys>>, <<Sys, P("overlay", "ext3", 1), P("data", "ext3", 2)>>}}

E(dir, mode, keys) == [dir |-> dir, mode |-> mode, keys |-> keys]
ECL(groups, legacy) == [activated |-> TRUE, legacy |-> legacy, groups |-> groups]
MCLists ==
    <<[ECL(<< >>, FALSE) EXCEPT !.activated = FALSE], ECL(<< >>, FALSE),
      ECL(<<E("d", "whitelist", {"k1", "k2"}), E("", "blacklist", {"k1"})>>, FALSE),
      ECL(<<E("e", "whitelist", {"k1"}), E("", "blacklist", {"k1"})>>, FALSE),
      ECL(<<E("", "whitestrict", {"k1", "k2"})>>, FALSE),
      ECL(<<E("d", "whitestrict", {"k1"})>>, TRUE),
      ECL(<<E("d", "whitelist", {"k1"}), E("d", "blacklist", {"k2"})>>, FALSE)>>

-----------------------------------------------------------------------------
(* The networks that two containers ask for. *)

Map(n, p) == [net |-> n, port |-> p, capable |-> TRUE]

Asked(user, nets, maps) ==
    [user |-> user, fakeroot |-> FALSE, userns |-> FALSE, listed |-> TRUE, nets |-> nets,
     allowed |-> {"bridge", "vlan"}, maps |-> maps]
Fakeroot(r) == [r EXCEPT !.fakeroot = TRUE]

MCNetworks ==
    {Asked("u1", <<"vlan", "bridge">>, {Map("bridge", 1)}),
     Asked("u2", <<"bridge">>, {Map("bridge", 1)}),
     Asked("u2", <<"ptp">>, {}),                               \* not permitted
     Fakeroot(Asked("u2", <<"vlan">>, {Map("fakeroot", 1)})),
     Asked("root", <<"bridge", "vlan">>, {Map("vlan", 1), Map("bridge", 2)}),
     Asked("root", <<"bridge">>, {Map("ptp", 1)})}             \* of no network of its own

-----------------------------------------------------------------------------
(* The configurations of OCI bundles: the mounts of DefaultConfigV1, with  *)
(* and without /dev, in another order or with cgroups, together with binds,*)
(* masked and read-only paths.                                             *)

M(type, src, dst, opts) == [type |-> type, src |-> src, dst |-> dst, opts |-> opts]
Bind1(src, dst, opts) == M("bind", src, dst, opts)
OProc == M("proc", <<>>, <<"proc">>, {"nosuid"})
OSys == M("sysfs", <<>>, <<"sys">>, {"ro"})
ODev(opts) == M("tmpfs", <<>>, <<"dev">>, opts)
OShm == M("tmpfs", <<>>, <<"dev", "shm">>, {})
OCgroup(opts) == M("cgroup", <<>>, <<"sys", "fs", "cgroup">>, opts)
ODefault == <<OProc, ODev({}), OShm, OSys>>
OData == Bind1(<<"data">>, <<"data">>, {"rbind"})

OKernels ==
    {ODefault, <<OProc, OSys>>, <<OShm, OProc, ODev({"ro"}), OSys, OCgroup({"ro"})>>,
     <<OCgroup({}), ODev({"ro"}), OProc, OSys>>}
OBinds ==
    {<<>>, <<OData>>,
     <<Bind1(<<"src">>, <<"data", "sub">>, {"bind", "ro"}), OData>>,
     <<M("", <<"src">>, <<"new", "deep", "dir">>, {"bind", "rslave"})>>,
     <<Bind1(<<"src", "f">>, EtcHosts, {"bind", "ro"})>>,
     <<Bind1(<<"none">>, <<"gone">>, {"bind"})>>,              \* a source that is missing
     <<Bind1(<<"none">>, <<"gone">>, {"bind", "ro"})>>,
     <<Bind1(<<"src">>, <<"etc">>, {"ro"})>>,                  \* not said to be a bind
     <<Bind1(<<"dev">>, <<"dev">>, {"rbind", "ro"})>>}
OPaths ==
    {<<>>, <<<<"proc", "kcore">>>>, <<<<"etc">>, <<"none">>>>, <<EtcHosts, <<"proc", "sys">>>>,
     <<<<"dev">>>>, <<<<"proc">>>>, <<<<"data">>>>}
OFlags ==
    {{}, {"ro", "terminal"}, {"userns", "terminal", "device"}, {"bad"}, {"device", "joined"},
     {"ro", "userns", "joined"}}

OConfig(mounts, masked, readonly, flags) ==
    [mounts |-> mounts, masked |-> masked, readonly |-> readonly,
     rootRO |-> "ro" \in flags, userns |-> "userns" \in flags, terminal |-> "terminal" \in flags,
     badDevice |-> "bad" \in flags,
     devices |-> IF "device" \in flags THEN <<<<"dev", "fuse">>, <<"dev", "null">>>> ELSE <<>>,
     controllers |-> IF "joined" \in flags THEN <<"cpu,cpuacct">> ELSE <<"cpu">>]

MCConfigs ==
    {OConfig(k \o b, <<>>, <<>>, f) : k \in OKernels, b \in OBinds, f \in OFlags}
    \cup {OConfig(k, m, r, f) : k \in {ODefault, <<OProc, OSys>>}, m, r \in OPaths,
                               f \in {{}, {"ro", "terminal"}, {"userns", "terminal", "device"}}}
    \cup {OConfig(ODefault \o b, m, r, {}) : m, r \in OPaths,
            b \in {<<OData>>, <<Bind1(<<"src">>, <<"data", "sub">>, {"bind", "ro"}), OData>>}}

ORoot == {<<>>, <<"etc">>, EtcHosts, <<"proc">>, <<"sys">>, <<"data">>, <<"data", "x">>}
MCRoots ==
    {[paths |-> ORoot, files |-> {EtcHosts}],
     [paths |-> ORoot \cup {<<"dev">>, <<"dev", "null">>}, files |-> {EtcHosts, <<"dev", "null">>}]}

OHostFiles == {<<"dev", "null">>, <<"dev", "pts">>, <<"src", "f">>}
OHostTree ==
    {<<>>, <<"r">>, <<"dev">>, <<"data">>, <<"data", "sub">>, <<"src">>, <<"sys">>, <<"sys", "fs">>,
     <<"sys", "fs", "cgroup">>, <<"sys", "fs", "cgroup", "cpu">>,
     <<"sys", "fs", "cgroup", "cpu,cpuacct">>} \cup OHostFiles

-----------------------------------------------------------------------------
(* What is fetched: two images that share a layer, from every transport.   *)

Src(scheme) ==
    [scheme |-> scheme, tag |-> FALSE, gz |-> FALSE, oci |-> FALSE, outside |-> FALSE,
     mirror |-> "none", image |-> "i1", manifests |-> <<>>]
InLayout(scheme, manifests) == [Src(scheme) EXCEPT !.oci = TRUE, !.manifests = manifests]
Manifest(i) == [image |-> i, index |-> <<>>]
Index(list) == [image |-> "none", index |-> list]
On1(platform, i, there) == [platform |-> platform, image |-> i, there |-> there]

MCSources ==
    {Src("docker"), [Src("docker") EXCEPT !.mirror = "i2"], Src("docker-daemon"),
     [Src("docker-archive") EXCEPT !.tag = TRUE], [Src("docker-archive") EXCEPT !.gz = TRUE],
     InLayout("docker-archive", <<Index(<<On1("unknown", "i1", TRUE), On1("linux", "i2", TRUE)>>)>>),
     [InLayout("oci-archive", <<Manifest("i1")>>) EXCEPT !.outside = TRUE],
     InLayout("oci", <<Manifest("i1"), Manifest("i2")>>)}
\* Nothing, an image, an image fetched by two commands of which one failed, and an index
\* whose writer was killed.
OLayout(index, images, whole, gap) == [index |-> index, images |-> images, whole |-> whole, gap |-> gap]
MCEarlier ==
    {[cache |-> OLayout("none", <<>>, {}, {}), kills |-> 0],
     [cache |-> OLayout("ok", <<"i1">>, {"base", "i1"}, {}), kills |-> 0],
     [cache |-> OLayout("ok", <<"i1">>, {"i1"}, {"base"}), kills |-> 0],
     [cache |-> OLayout("cut", <<>>, {"base", "i1"}, {}), kills |-> 1]}
MCBlobs == [i \in {"i1", "i2"} |-> {"base", i}]

-----------------------------------------------------------------------------
(* Pulls of every transport past the cache, and through it, to a path that *)
(* is free or holds a file or a directory of the user's.                   *)

Pull(by, cached, opts) ==
    [by |-> by, cached |-> cached, use |-> "use" \in opts, force |-> "--force" \in opts,
     sandbox |-> "--sandbox" \in opts, unsigned |-> "unsigned" \in opts]
MCPulls ==
    {Pull(by, FALSE, {"--force"}) : by \in {"library", "oras", "net", "ipfs", "shub", "oci"}}
    \cup {Pull(by, FALSE, {"--force", "--sandbox"}) : by \in {"library", "oras"}}
    \cup {Pull(by, FALSE, {"use"}) : by \in {"library", "oras", "shub"}}
    \cup {Pull("library", TRUE, o) : o \in {{"unsigned"}, {"--sandbox"}, {"--sandbox", "unsigned"}}}
    \cup {Pull("net", TRUE, o) : o \in {{}, {"--force"}, {"--force", "--sandbox"}, {"use"}}}
MCBefores == {[kind |-> k, by |-> "user"] : k \in {"none", "old", "dir"}}

-----------------------------------------------------------------------------
(* Launches: every user, installation and kind of image with up to two        *)
(* departures from the defaults and with the groups whose combination the     *)
(* code treats specially; SIF images and sandboxes also with an option, a     *)
(* setting and a fact of the host together.                                   *)

Given == {"--userns", "--fakeroot", "--ignore-userns", "--writable", "--writable-tmpfs",
          "--overlay", "--overlay ro", "--underlay", "--unsquash", "--disable-cache",
          "uid", "--home", "--boot", "--containall", "--fusemount", "--nvccli", "--keep-privs",
          "--no-privs", "--net", "--netns-path", "--hostname", "instance start", "--sharens",
          "--add-caps", "--drop-caps"}
Settings == {"allow setuid = no", "setuid mount = no", "enable overlay = no",
             "enable underlay = no", "enable underlay = preferred", "allow container dir = no",
             "allow user ns = no", "allow pid ns = no", "enable fusemount = no",
             "root default capabilities = file", "image not allowed"}
HostFacts == {"inside userns", "subuid", "squashfuse", "no CAP_SYS_ADMIN", "overlay incompatible",
              "sif overlay", "hidepid", "cgroups", "image read-only",
              "name in use"}

Departures ==
    {{}} \cup {{x, y} : x, y \in Given \cup Settings \cup HostFacts}
Triples == {{x, y, z} : x \in Given, y \in Settings, z \in HostFacts}

\* Departures that only matter together.
Groups == {{"--fakeroot", "no unprivileged userns", "fakeroot command"},
           {"--fakeroot", "no unprivileged userns"},
           {"--fakeroot", "subuid", "no newuidmap"},
           {"--fakeroot", "subuid", "--ignore-subuid", "--ignore-fakeroot-command"},
           {"--fakeroot", "subuid", "--nvccli"},
           {"--fakeroot", "subuid", "--net", "squashfuse"},
           {"--writable", "sif overlay", "--nvccli"},
           {"--overlay", "--overlay ro", "ro overlay last"},
           {"--overlay", "--writable-tmpfs", "overlay incompatible"},
           {"--overlay", "--writable-tmpfs", "overlay read-only"},
           {"--overlay", "--nvccli", "squashfuse", "--userns"},
           {"--underlay", "enable overlay = no", "enable underlay = no"},
           {"--netns-path", "netns allowed"},
           {"--disable-cache", "pulled", "--unsquash"},
           {"--home", "uid", "--userns"},
           {"setuid mount = no", "squashfuse", "--fakeroot", "subuid"},
           {"allow setuid = no", "squashfuse", "--unsquash"}}

MCLaunches ==
    {[uid |-> u, suidInstall |-> i, image |-> k, on |-> o] :
        u \in {0, 5}, i \in BOOLEAN, k \in {"sif", "squashfs", "ext3", "sandbox"},
        o \in Departures \cup Groups}
    \cup {[uid |-> u, suidInstall |-> i, image |-> k, on |-> o] :
        u \in {0, 5}, i \in BOOLEAN, k \in {"sif", "sandbox"}, o \in Triples}
    \cup {[uid |-> 5, suidInstall |-> i, image |-> "encsif", on |-> o] :
        i \in BOOLEAN, o \in {{}, {"key"}, {"key", "--userns"}, {"key", "--fakeroot", "subuid"}}}
    \cup {[uid |-> u, suidInstall |-> i, image |-> "instance", on |-> o] :
        u \in {0, 5}, i \in BOOLEAN,
        o \in {{}, {"--userns"}, {"userns instance"}, {"--userns", "userns instance"},
               {"cgroup instance"}, {"cgroup instance", "systemd cgroups = no"},
               {"cgroup instance", "--userns", "userns instance"},
               {"--add-caps"}, {"--drop-caps"}, {"instance start"}}}

\* A local image, extracted by a command without cache.
LocalRequests == {[uid |-> 5, suidInstall |-> TRUE, image |-> "sif",
                   on |-> {"--userns", "--disable-cache"}]}

-----------------------------------------------------------------------------
VARIABLES part, v1, v2, v3, v4, v5, v6

Pf == INSTANCE PullFile WITH
        Procs <- {"p1", "p2"}, Befores <- MCBefores, Requests <- MCPulls,
        MaxFails <- 1, MaxKills <- 1,
        file <- v1, cmd <- v2, entries <- v3, fails <- v4, kills <- v5

La == INSTANCE Launch WITH
        Requests <- MCLaunches, Pids <- {1, 2}, MaxProcs <- 3,
        q <- v1, l <- v2, e <- v3, s <- v4, at <- v5, host <- v6

Im == INSTANCE ImageFile WITH
        Procs <- {"p1", "p2"}, Files <- MCFiles, Lists <- MCLists, Keys <- {"k1", "k2"},
        MaxParts <- 4, MaxSigs <- 2,
        img <- v1, fds <- v2, used <- v3, ov <- v4, tmp <- v5, last <- v6

Cm == INSTANCE ContainerMounts WITH
        Layers <- {"none", "overlay", "underlay"}, Cases <- MCCases,
        HostTree <- MCHostTree, HostFiles <- MCHostFiles, ImageTree <- MCImageTree,
        c <- v1, req <- v2, binds <- v3, pc <- v4, root <- v5

Om == INSTANCE OciMounts WITH
        Configs <- MCConfigs, Roots <- MCRoots, HostTree <- OHostTree, HostFiles <- OHostFiles,
        MaxCreates <- 2,
        d <- v1, cfg <- v2, pc <- v3, found <- v4, count <- v5

Oi == INSTANCE OciImage WITH
        Procs <- {"p1", "p2"}, Sources <- MCSources, BlobsOf <- MCBlobs, Platform <- "linux",
        Earlier <- MCEarlier, MaxFetches <- 2, MaxKills <- 1,
        lay <- v1, cmd <- v2, temps <- v3, fetches <- v4, kills <- v5

QuietRequest == CHOOSE r \in Requests : r.fakeroot
Quiet == Init /\ req = [c \in Containers |-> QuietRequest]

other == <<v1, v2, v3, v4, v5, v6>>
all == <<part, other, vars>>

MCInit ==
    \/ part = "network" /\ Init /\ v1 = 0 /\ v2 = 0 /\ v3 = 0 /\ v4 = 0 /\ v5 = 0 /\ v6 = 0
    \/ part = "launch" /\ Quiet /\ La!Init
    \/ part = "image" /\ Quiet /\ Im!Init
    \/ part = "mounts" /\ Quiet /\ Cm!Init /\ v6 = 0
    \/ part = "bundle" /\ Quiet /\ Om!Init /\ v6 = 0
    \/ part = "fetch" /\ Quiet /\ Oi!Init /\ v6 = 0
    \/ part = "pull" /\ Quiet /\ Pf!Init /\ v6 = 0

MCNext ==
    \/ part = "network" /\ Next /\ UNCHANGED <<part, other>>
    \/ part = "launch" /\ La!Next /\ UNCHANGED <<part, vars>>
    \/ part = "image" /\ Im!Next /\ UNCHANGED <<part, vars>>
    \/ part = "mounts" /\ Cm!Next /\ UNCHANGED <<part, vars, v6>>
    \/ part = "bundle" /\ Om!Next /\ UNCHANGED <<part, vars, v6>>
    \/ part = "fetch" /\ Oi!Next /\ UNCHANGED <<part, vars, v6>>
    \/ part = "pull" /\ Pf!Next /\ UNCHANGED <<part, vars, v6>>

MCSpec == MCInit /\ [][MCNext]_all

\* The behaviours of one part alone.
ImageSpec == (MCInit /\ part = "image") /\ [][MCNext]_all
LocalSpec == (MCInit /\ part = "launch" /\ v1 \in LocalRequests) /\ [][MCNext]_all

-----------------------------------------------------------------------------
(* Properties: those of the parts, in the behaviours of the part.               *)
(* NetworksReleased and PortsAreSeparate are Network's own.                     *)

\* The tree of a container is what the command line and the image ask for
\* (apptainer/container_linux.go).
TreeIsAsAsked == part = "mounts" => Cm!TreeIsAsAsked

\* The privileges that a container starts with, or joins with, are those its user
\* has or was granted, and the image of one that starts can be mounted, under at
\* most one writable layer (launcher_linux.go, prepare_linux.go).
LaunchIsSound == part = "launch" => La!LaunchIsSound

\* A writable partition is open once (image.go, lockSection).
WritersAreAlone == part = "image" => Im!WritersAreAlone

\* An image that runs is one the execution control list describes (syecl.go).
RunsAsListed == part = "image" => Im!RunsAsListed

\* The tree of an OCI container is what the configuration of its bundle asks for
\* (oci/create_linux.go).
BundleTreeIsAsAsked == part = "bundle" => Om!BundleTreeIsAsAsked

\* A fetch of an OCI image gives the image of its source, whole, or an error
\* (ociimage/fetch.go), and a pull puts its image at the path as a whole or leaves
\* the path alone (cli/pull.go, client/*/pull.go).
FetchesAreSound ==
    /\ part = "fetch" => Oi!FetchesAreSound
    /\ part = "pull" => Pf!PullsLand

\* "EXT3 overlay image %s already exists", "destination image must be SIF image"
\* (OverlayCreate): an image that is there is not replaced by another.
ImageIsKept == [][part = "image" /\ v1.kind # "none" => v1'.id = v1.id]_all

\* Only an image that was pulled for this command is removed (prepareImage).
OnlyPulledRemoved == part = "launch" => La!OnlyPulledRemoved

=============================================================================
