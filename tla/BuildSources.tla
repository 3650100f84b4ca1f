---------------------------- MODULE BuildSources ----------------------------
(***************************************************************************)
(* The conveyors and packers of internal/pkg/build/sources: how each       *)
(* bootstrap source fills a stage's root filesystem.  What a source does   *)
(* is a sequence of steps; a step says how it reaches the filesystem, the  *)
(* file (or group of files) it leaves there and where its content is from. *)
(* The ways to reach the filesystem are the ones the build's correctness   *)
(* depends on:                                                             *)
(*   host     a command, a download or a check that leaves nothing there;  *)
(*   root     a write through the bundle's os.Root handle, b.Rootfs;       *)
(*   path     a write below the path b.RootfsPath;                         *)
(*   tree     the same, making the missing parent directories;             *)
(*   extract  unsquashfs: an empty directory is replaced by a new one, a   *)
(*            filled one is written over;                                  *)
(*   reopen   ReopenRootfs;                                                *)
(*   drop     a removal by path; rdrop, one through the handle.            *)
(* Every step but drop may fail, which ends the build; "retry" is a        *)
(* failure the caller tries again, and "fatal" one that ends the process.  *)
(***************************************************************************)
EXTENDS Naturals, Sequences

Step(op, file, from) == [op |-> op, file |-> file, from |-> from, fails |-> "err"]
Host(what)       == <<Step("host", what, "")>>
Root(file, from) == <<Step("root", file, from)>>
Path(file, from) == <<Step("path", file, from)>>
Tree(file, from) == <<Step("tree", file, from)>>
Drop(file)       == <<Step("drop", file, "")>>
Reopen           == <<Step("reopen", "", "")>>

If(c, steps) == IF c THEN steps ELSE << >>

----------------------------------------------------------------------------
(* The files every image has. *)

makeDirs     == Root("dirs", "apptainer")
makeSymlinks == Root("links", "apptainer")

\* With overwrite unset a file that is there keeps its content.
makeFiles(overwrite) ==
    LET how == IF overwrite THEN "root" ELSE "keep"
    IN  <<Step(how, "actions", "apptainer"), Step(how, "runscript", "default")>>

makeBaseEnv(overwrite) == makeDirs \o makeSymlinks \o makeFiles(overwrite)

----------------------------------------------------------------------------
(* Local images. *)

\* unsquashfs runs in a container made of its binary and the libraries that
\* its loader lists; the destination is removed first, if it is empty.
getLibraryBinds      == Host("ldd")
unsquashfsSandboxCmd == Host("tmp-rootfs") \o getLibraryBinds
TestUserXattr        == Host("user xattrs")

\* The image brings the files every image has and its own runscript.
extract ==
    Host("stage archive") \o TestUserXattr \o unsquashfsSandboxCmd
    \o <<Step("extract", "content", "image")>>
    \o Path("actions", "image") \o Path("runscript", "image")

\* The partition is attached to a loop device, mounted in the bundle's
\* temporary directory and copied with tar.
unpackExt3 ==
    Host("attach loop") \o Host("mount") \o Tree("content", "image")
    \o Path("actions", "image") \o Path("runscript", "image")

\* --fix-perms walks the tree; the OCI configuration is read from its section.
unpackSIF(ext3) ==
    (IF ext3 THEN unpackExt3 ELSE extract)
    \o Host("fix permissions") \o Host("oci-config section")

squashfsPack == extract
sandboxPack  ==
    Tree("content", "image") \o Path("actions", "image")
    \o Path("runscript", "image")
\* A data partition is the image file itself.
copyPack == Host("keep image")

\* GetLocalPacker opens the image; only required fingerprints make the
\* verification of a SIF an error.
GetLocalPacker == Host("open image") \o Host("check fingerprints")

Images == {"sif", "sif-ext3", "squashfs", "ext3", "sandbox"}

localPack(img, data) ==
    CASE img = "sif"      -> unpackSIF(FALSE)
      [] img = "sif-ext3" -> unpackSIF(TRUE)
      [] img = "squashfs" -> IF data THEN copyPack ELSE squashfsPack
      [] img = "ext3"     -> unpackExt3
      [] img = "sandbox"  -> sandboxPack

localGet == GetLocalPacker

\* Mutant of LocalConveyorPack: the handle is not opened again.
LocalConveyorPackStale(img, data) == localPack(img, data) \o makeBaseEnv(FALSE)

LocalConveyorPack(img, data) ==
    localPack(img, data) \o Reopen \o makeBaseEnv(FALSE)

----------------------------------------------------------------------------
(* Images pulled as SIF: the files every image has are written first, so   *)
(* that the rootfs is not empty when the image is extracted over them.     *)

pulledGet == Host("pull") \o makeBaseEnv(TRUE) \o GetLocalPacker

libraryGet == Host("library client") \o pulledGet
orasGet    == pulledGet
shubGet    == pulledGet

----------------------------------------------------------------------------
(* OCI images and BuildKit. *)

\* The layers are applied below the path; each is fetched from the layout.
UnpackRootfs == Path("content", "image")
unpackRootfs == Host("layout") \o UnpackRootfs

insertOCIConfig == Host("marshal config")
insertRunScript == Root("runscript", "oci")
insertEnv       == Root("env", "oci")
insertOCILabels == Root("labels", "oci")

\* A registry's "no descriptor found for reference" is tried again.
ociGet ==
    Host("platform") \o Host("digest")
    \o <<[Step("host", "fetch to layout", "") EXCEPT !.fails = "retry"]>>
    \o Host("image config")

ociPack ==
    unpackRootfs \o makeBaseEnv(TRUE) \o insertRunScript \o insertEnv
    \o insertOCIConfig \o insertOCILabels

\* buildctl, or docker build: a tar in the temporary directory, removed by a
\* deferred call.
buildkitBuild == Host("buildctl")
buildImage   ==
    Host("docker config") \o Root("build log", "buildkit") \o buildkitBuild
    \o Host("fetch to layout")
buildkitGet  == Host("platform") \o Host("build context")
buildkitPack ==
    buildImage \o unpackRootfs \o makeBaseEnv(TRUE) \o insertRunScript
    \o insertEnv \o insertOCIConfig \o insertOCILabels

----------------------------------------------------------------------------
(* Distributions' own tools. *)

defaultRunScript == Root("runscript", "source")

scratchPack == makeBaseEnv(TRUE) \o defaultRunScript

insertBaseFiles == Root("etc", "source")
insertBusyBox   == Root("content", "source")
busyboxGet ==
    Host("mirrorurl") \o makeBaseEnv(TRUE) \o insertBaseFiles \o insertBusyBox
    \o Host("busybox --install")
busyboxPack == defaultRunScript

\* In a user namespace device nodes are bound instead of made.
archFakerootEnv == Host("bind devices")
\* pacman's configuration is made in the rootfs and stays there.
getPacConf == Path("pac-conf", "source")
archGet(userns) ==
    Host("options") \o Host("find pacstrap") \o getPacConf
    \o If(userns, archFakerootEnv) \o Host("pacstrap")
    \o Path("content", "source") \o Host("pacman-key")
archPack == makeBaseEnv(TRUE) \o defaultRunScript

debootstrapFakerootEnv == Host("bind mknod")
debootstrapGet(userns) ==
    Host("find debootstrap") \o Host("header")
    \o If(userns, debootstrapFakerootEnv)
    \o Host("debootstrap") \o Path("content", "source")
debootstrapPack == Root("mode", "source") \o makeBaseEnv(TRUE) \o defaultRunScript

getRPMPath        == Host("rpm --showrc")
yumOptions        == Host("options")
genYumConfig      == Root("yum.conf", "source")
importGPGKey      == Host("rpm --import")
makePseudoDevices == Path("dev", "source")
yumGet ==
    Host("find dnf") \o getRPMPath \o yumOptions \o genYumConfig \o importGPGKey
    \o makePseudoDevices \o Host("dnf install") \o Path("content", "source")
    \o <<Step("rdrop", "var/cache", "")>>
yumPack == makeBaseEnv(TRUE) \o defaultRunScript

rpmPathCheck      == Host("rpm --showrc")
zypperHeader      == Host("header") \o Host("pgp file")
genZypperConfig   == Root("zypp.conf", "source")
copyPseudoDevices == Path("dev", "source")
zypperRepos       == Host("zypper ar") \o Host("zypper refresh")
zypperKeys        == Root("rpm database", "source") \o Host("rpmkeys")
SUSEConnect       == Host("SUSEConnect")
otherURLs         == Host("zypper ar other")
zypperInstall     ==
    Root("SCCcredentials", "source") \o Host("zypper install")
    \o Path("content", "source")
zypperGet ==
    Host("find zypper") \o rpmPathCheck \o zypperHeader \o genZypperConfig
    \o copyPseudoDevices \o zypperRepos \o zypperKeys \o SUSEConnect
    \o otherURLs \o zypperInstall
zypperPack == makeBaseEnv(TRUE) \o defaultRunScript

----------------------------------------------------------------------------

\* Sources an image comes from with a runscript of its own.
ImageSources == {"library", "oras", "shub", "localimage"}
Sources == ImageSources \cup {"docker", "buildkit", "scratch", "busybox",
                              "arch", "debootstrap", "yum", "zypper"}

Get(src, userns) ==
    CASE src = "library"     -> libraryGet
      [] src = "oras"        -> orasGet
      [] src = "shub"        -> shubGet
      [] src = "localimage"  -> localGet
      [] src = "docker"      -> ociGet
      [] src = "buildkit"    -> buildkitGet
      [] src = "scratch"     -> << >>
      [] src = "busybox"     -> busyboxGet
      [] src = "arch"        -> archGet(userns)
      [] src = "debootstrap" -> debootstrapGet(userns)
      [] src = "yum"         -> yumGet
      [] src = "zypper"      -> zypperGet

Pack(src, img, data) ==
    CASE src \in {"library", "oras", "shub"} -> localPack(img, data)
      [] src = "localimage"  -> LocalConveyorPack(img, data)
      [] src = "docker"      -> ociPack
      [] src = "buildkit"    -> buildkitPack
      [] src = "scratch"     -> scratchPack
      [] src = "busybox"     -> busyboxPack
      [] src = "arch"        -> archPack
      [] src = "debootstrap" -> debootstrapPack
      [] src = "yum"         -> yumPack
      [] src = "zypper"      -> zypperPack
=============================================================================
