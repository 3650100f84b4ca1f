------------------------------- MODULE Build -------------------------------
(***************************************************************************)
(* "apptainer build": the command (cmd/internal/cli/build.go and           *)
(* build_linux.go), which may restart itself under some kind of fake root, *)
(* and the build proper (internal/pkg/build): newBuild makes a bundle for  *)
(* every stage, Full fills them one after the other and assembles the last *)
(* one into the destination.  Full runs beside a goroutine that cleans up  *)
(* and ends the process at a signal, and the gocryptfs packer has one more *)
(* of the kind.                                                            *)
(*                                                                         *)
(* A stage is a program: the sequence of the steps (BuildSources) that its *)
(* source, its sections and its metadata take.  A bundle is its two        *)
(* directories, the directory its os.Root handle is open on, and the files *)
(* of its root filesystem with where their content is from.                *)
(***************************************************************************)
EXTENDS Naturals, Sequences, FiniteSets, TLC, BuildSources

CONSTANTS Options,      \* what a build may be asked for
          MaxAttempts   \* attempts to Get (5)

VARIABLES pc,      \* where the main goroutine is
          cmd,     \* the command line, the installation and the user
          proc,    \* the process: root?, its user namespace, fakeroot env
          o,       \* the options of the build
          st,      \* the stage in hand
          todo,    \* what is left of its program
          tries,   \* attempts to Get that failed
          bd,      \* the bundles
          part,    \* the partition made for a SIF
          gfs,     \* a gocryptfs filesystem is mounted
          dest,    \* the destination
          sig,     \* the signal's goroutine: 0 waits, i is to remove bundle i
          cl,      \* the bundle main's cleanUp is to remove
          ran,     \* the sections' scripts that were run
          exit     \* exit status; 999 while it runs

vars == <<pc, cmd, proc, o, st, todo, tries, bd, part, gfs, dest, sig, cl, ran,
          exit>>

Running == 999
Both == {"parent", "tmp"}
NoBundle == [dirs |-> {}, inode |-> 0, handle |-> 0, tree |-> << >>]
NewBundle == [dirs |-> Both, inode |-> 1, handle |-> 1, tree |-> << >>]

N == Len(o.srcs)

Commands ==
    [root : BOOLEAN, fakeroot : BOOLEAN, encrypt : BOOLEAN, key : BOOLEAN,
     deffile : BOOLEAN, mapped : BOOLEAN, userns : BOOLEAN, suid : BOOLEAN,
     fakecmd : BOOLEAN]

Init ==
    /\ cmd \in Commands
    /\ proc = [root |-> cmd.root, ns |-> "none", fakefake |-> FALSE, fake |-> FALSE]
    /\ o \in Options
    /\ o.script = cmd.deffile
    /\ pc = "prerun" /\ st = 1 /\ todo = << >> /\ tries = 0
    /\ bd = [i \in 1 .. N |-> NoBundle]
    /\ part = [kind |-> "none", tree |-> << >>] /\ gfs = FALSE
    /\ dest = [is |-> IF o.old THEN "old" ELSE "none", tree |-> << >>, enc |-> "none"]
    /\ sig = 0 /\ cl = 1 /\ ran = {} /\ exit = Running

----------------------------------------------------------------------------
(* The command. *)

End(code) == pc' = "end" /\ exit' = code

\* The child of UnshareRootMapped, or of the starter's fakeroot engine: the
\* same command without --fakeroot; the parent ends as it does.
Restart(ns, fakefake) ==
    /\ proc' = [proc EXCEPT !.root = TRUE, !.ns = ns, !.fakefake = fakefake]
    /\ cmd' = [cmd EXCEPT !.fakeroot = FALSE]
    /\ pc' = "prerun"
    /\ exit' = exit

Fatal == End(255) /\ UNCHANGED <<cmd, proc>>

fakerootExec(unprivEncrypt) ==
    IF ~proc.root /\ ~cmd.mapped
    THEN IF cmd.userns THEN Restart("rootmap", TRUE)
         ELSE IF (~cmd.suid /\ cmd.deffile) \/ unprivEncrypt THEN Fatal
         ELSE /\ proc' = [proc EXCEPT !.fakefake = TRUE]
              /\ pc' = "run"
              /\ UNCHANGED <<cmd, exit>>
    ELSE IF ~proc.root /\ ~cmd.userns THEN Fatal
    ELSE Restart("subuid", FALSE) \/ Fatal

preRun ==
    /\ pc = "prerun"
    /\ IF cmd.fakeroot THEN fakerootExec(FALSE)
       ELSE IF ~proc.root /\ (cmd.deffile \/ cmd.encrypt)
       THEN fakerootExec(cmd.encrypt)
       ELSE pc' = "run" /\ UNCHANGED <<cmd, proc, exit>>
    /\ UNCHANGED <<o, st, todo, tries, bd, part, gfs, dest, sig, cl, ran>>

\* The fakeroot command, looked for when the process was told to.
TryFakeroot ==
    IF ~proc.fakefake THEN {proc}
    ELSE IF cmd.fakecmd \/ proc.root
    THEN {[proc EXCEPT !.fakefake = FALSE, !.fake = cmd.fakecmd]}
    ELSE {}

\* checkBuildTarget: an update needs a directory, what exists needs --force
\* or a "y".
TargetAllowed == o.update => o.old /\ o.format = "sandbox"

runBuild ==
    /\ pc = "run"
    /\ \/ /\ TryFakeroot = {} \/ ~TargetAllowed
          /\ Fatal
       \/ /\ TargetAllowed
          /\ proc' \in TryFakeroot
          /\ pc' = "local"
          /\ UNCHANGED <<cmd, exit>>
       \/ /\ o.old /\ ~o.force /\ ~o.update   \* the answer is not "y"
          /\ Fatal
    /\ UNCHANGED <<o, st, todo, tries, bd, part, gfs, dest, sig, cl, ran>>

Unprivileged == ~proc.root \/ proc.ns # "none"

\* getEncryptionInfo: no key material is no error.
KeyInfo == cmd.encrypt /\ cmd.key

\* The encryption of the partition the options ask for.
Encryption ==
    IF ~KeyInfo THEN "none" ELSE IF Unprivileged THEN "gocryptfs" ELSE "dmcrypt"

\* runBuildLocal, up to build.New.  The sections, the credentials, the
\* definition and its arguments, the clients and the platform may each be
\* refused.  What the build does not read again is forgotten.
Settled ==
    [cmd EXCEPT !.root = FALSE, !.mapped = FALSE, !.userns = FALSE,
                !.suid = FALSE, !.fakecmd = FALSE, !.fakeroot = FALSE]

NoMaterial == cmd.encrypt /\ ~cmd.key /\ Unprivileged

runBuildLocal ==
    /\ pc = "local"
    /\ \/ NoMaterial /\ End(0)
       \/ ~NoMaterial /\ End(255)
       \/ ~NoMaterial /\ pc' = "new" /\ exit' = exit
    /\ cmd' = Settled
    /\ UNCHANGED <<proc, o, st, todo, tries, bd, part, gfs, dest, sig, cl, ran>>

----------------------------------------------------------------------------
(* newBuild. *)

\* What newBundle leaves behind when it fails: it cleans up after a root
\* filesystem that it cannot make, use or open, and not after the temporary
\* directory or SOURCE_DATE_EPOCH.
BundleFailures == {{}, {"parent"}, Both}

\* The rootfs of a sandbox is beside the destination unless ownership cannot
\* be set there; then it is in TMPDIR, as for a SIF, and copied at the end.
NewBundleFails(left) ==
    /\ bd' = [bd EXCEPT ![st].dirs = left]
    \* s.b is nil when its options are set for an encrypted build
    /\ End(IF Encryption # "none" THEN 2 ELSE 255)
    /\ UNCHANGED <<st, todo>>

\* The mount options of the last stage's directories, and the conveyor.
StageRefused ==
    /\ bd' = [bd EXCEPT ![st] = NewBundle]
    /\ End(255)
    /\ UNCHANGED <<st, todo>>

newBuild ==
    /\ pc = "new"
    /\ \/ st <= N /\ \E left \in BundleFailures : NewBundleFails(left)
       \/ st <= N /\ StageRefused
       \/ /\ st <= N
          /\ bd' = [bd EXCEPT ![st] = NewBundle]
          /\ st' = st + 1
          /\ UNCHANGED <<pc, exit, todo>>
       \/ /\ st > N                     \* mksquashfs was found, or was not
          /\ \/ pc' = "stage" /\ st' = 1 /\ exit' = exit
             \/ End(255) /\ st' = st
          /\ UNCHANGED <<bd, todo>>
    /\ UNCHANGED <<cmd, proc, o, tries, part, gfs, dest, sig, cl, ran>>

----------------------------------------------------------------------------
(* The program of a stage. *)

RunSection(s) == "none" \notin o.sections /\ o.sections \cap {"all", s} # {}

\* A script in the temporary directory, run on the host.
runHostScript(name) == If(RunSection(name) /\ o.script, Host(name))

\* %appinstall and the rest: an error here ends the process, not the build.
Fataled(steps) == [i \in DOMAIN steps |-> [steps[i] EXCEPT !.fails = "fatal"]]
createAppRoot        == Root("app", "definition")
writeEnvFile         == Root("app env", "definition")
writeRunscriptFile   == Root("app run", "definition")
writeStartscriptFile == Root("app start", "definition")
writeTestFile        == Root("app test", "definition")
appCopyFiles         == Path("app files", "host")
writeLabels          == Root("app labels", "definition")
createAllApps ==
    If(o.script, createAppRoot \o writeEnvFile \o writeRunscriptFile
                 \o writeStartscriptFile \o writeTestFile \o appCopyFiles
                 \o writeLabels)
    \o Root("94-appsbase", "apptainer")
HandleBundle == Fataled(createAllApps)

\* From an earlier stage, whose rootfs must have what is asked for.
CopyFromStage == <<Step("from", "stage files", "stage")>>
CopyFromHost  == Tree("files", "host")

copyFilesFrom(i) ==
    If(RunSection("files") /\ o.script /\ i > 1, CopyFromStage)
copyFiles == If(RunSection("files") /\ o.script, CopyFromHost)

\* resolv.conf and hosts, in the temporary directory.
createStageFile == Host("resolv.conf") \o Host("hosts")

GetFakeBinds == Host("find fakeroot libraries")
makeFakerootBindpoints ==
    If(proc.fake, GetFakeBinds \o Path("bindpoints", "fakeroot"))
createScript == Path(".post.script", "definition")

\* Mutant of cleanFakerootBindpoints: the mount points stay.
keepFakerootBindpoints == << >>

cleanFakerootBindpoints == If(proc.fake, Drop("bindpoints"))

\* %post runs in a container on the rootfs and may leave labels for the build.
runPostScript ==
    If(o.script,
       makeFakerootBindpoints \o createScript
       \o <<Step("path", ".build.labels", "post")>> \o Host("post")
       \o cleanFakerootBindpoints \o Drop(".post.script"))

insertHelpScript == If(RunSection("help") /\ o.script, Root("help", "definition"))
insertLabelsJSON ==
    <<Step("rdrop", ".build.labels", "")>> \o Root("labels", "build")
insertDefinition  == Root("definition", "build")
insertEnvScript   ==
    If(RunSection("environment") /\ o.script, Root("env", "definition"))
insertStartScript ==
    If(RunSection("startscript") /\ o.script, Root("startscript", "definition"))
insertRunscript   ==
    If(RunSection("runscript") /\ o.script, Root("runscript", "definition"))
insertTestScript  ==
    If(RunSection("test") /\ o.script, Root("test", "definition"))
insertInspect     == Host("inspect")

insertMetadataForData == insertLabelsJSON \o insertDefinition \o insertInspect
insertMetadata ==
    insertHelpScript \o insertLabelsJSON \o insertDefinition \o insertEnvScript
    \o insertStartScript \o insertRunscript \o insertTestScript \o insertInspect

runTestScript == If(~o.notest /\ o.script, Host("test"))

\* An update copies the destination, a sandbox, in place of Get and Pack.
Updating(i) == o.update /\ ~o.force /\ i = N
GetProgram(i) ==
    IF Updating(i) THEN GetLocalPacker \o sandboxPack
    ELSE Get(o.srcs[i], Unprivileged) \o Pack(o.srcs[i], o.img, o.data)

Program(i) ==
    runHostScript("pre") \o GetProgram(i) \o HandleBundle \o copyFilesFrom(i)
    \o runHostScript("setup") \o copyFiles \o createStageFile \o runPostScript
    \o (IF o.data THEN insertMetadataForData ELSE insertMetadata)
    \o runTestScript

----------------------------------------------------------------------------
(* The assemblers: steps on the partition and the destination.  *)

SandboxAssemble ==
    <<Step("give up", "", "")>>
    \o <<Step(IF o.copy THEN "copy" ELSE "move", "", "")>>

\* What is at the destination is removed at the last moment.
createSIF ==
    Host("descriptors") \o <<Step("open", "", "")>>
    \o <<Step("give up", "", "")>> \o <<Step("create", "", "")>> \o Host("chown")

mksquashfs == Host("mksquashfs")

\* gocryptfs: the squashfs is made inside a mounted gocryptfs filesystem.
GocryptfsInit == Host("gocryptfs -init") \o <<Step("mount", "", "")>>
GocryptfsCreate ==
    GocryptfsInit \o mksquashfs
    \o <<Step("partition", "", "gocryptfs")>> \o <<Step("umount", "", "")>>

\* LUKS: the squashfs is copied to a crypt device on a loop device.
createLoop         == Host("loop device")
OpenCrypt          == Host("cryptsetup open")
copyDeviceContents == <<Step("partition", "", "dmcrypt")>>
EncryptFilesystem ==
    If(Encryption = "dmcrypt",
       createLoop \o Host("luksFormat") \o OpenCrypt \o copyDeviceContents
       \o Host("cryptsetup close"))

SIFAssemble ==
    (IF o.data THEN <<Step("partition", "", "image")>>
     ELSE IF Encryption = "gocryptfs" THEN GocryptfsCreate
     ELSE mksquashfs \o <<Step("partition", "", "plain")>> \o EncryptFilesystem)
    \o createSIF

Assemble == IF o.format = "sandbox" THEN SandboxAssemble ELSE SIFAssemble

----------------------------------------------------------------------------
(* Full. *)

Here == IF st <= N THEN st ELSE N

\* What a step does to the bundle, or the empty set when it cannot.
OnBundle(b, s) ==
    LET put == [b EXCEPT !.tree = (s.file :> s.from) @@ @]
        cut == [b EXCEPT !.tree = [f \in DOMAIN @ \ {s.file} |-> @[f]]]
        there == "parent" \in b.dirs
        rooted == there /\ b.handle = b.inode
    IN  CASE s.op = "host"  -> {b}
          [] s.op = "drop"  -> {cut}
          [] s.op = "root"  -> IF rooted THEN {put} ELSE {}
          [] s.op = "keep"  -> IF ~rooted THEN {}
                               ELSE IF s.file \in DOMAIN b.tree THEN {b} ELSE {put}
          [] s.op = "rdrop" -> IF rooted THEN {cut} ELSE {}
          [] s.op = "path"  -> IF there THEN {put} ELSE {}
          \* the missing directories are made, above the rootfs as well
          [] s.op = "tree"  -> IF there THEN {put}
                               ELSE {[put EXCEPT !.dirs = @ \cup {"parent"},
                                                 !.inode = @ + 1]}
          [] s.op = "extract" ->
                IF ~there THEN {}
                ELSE IF b.tree = << >> THEN {[put EXCEPT !.inode = @ + 1]}
                ELSE {put}
          [] s.op = "reopen" -> IF there THEN {[b EXCEPT !.handle = b.inode]} ELSE {}
          [] s.op = "from" ->
                IF there /\ "content" \in DOMAIN bd[1].tree THEN {put} ELSE {}
          [] OTHER -> {b}

OnPart(s) ==
    IF s.op = "partition" THEN [kind |-> s.from, tree |-> bd[N].tree] ELSE part

OnDest(s) ==
    CASE s.op = "give up" -> [dest EXCEPT !.is = "none"]
      [] s.op \in {"copy", "move"} ->
            [is |-> "new", tree |-> bd[N].tree, enc |-> "none"]
      [] s.op = "create" -> [is |-> "new", tree |-> part.tree, enc |-> part.kind]
      [] OTHER -> dest

\* The scripts that a step runs, for the --section option.
OnRan(s) == IF s.file \in {"pre", "setup", "post", "test"} /\ s.op = "host"
            THEN ran \cup {s.file} ELSE ran

InFull == pc \in {"stage", "full", "assemble", "clean", "spin"}

\* The next stage's program, and the assembler's after the last.
NextStage ==
    /\ pc = "stage"
    /\ IF st <= N THEN pc' = "full" /\ todo' = Program(st)
       ELSE pc' = "assemble" /\ todo' = Assemble
    /\ tries' = 0
    /\ UNCHANGED <<cmd, proc, o, st, bd, part, gfs, dest, sig, cl, ran, exit>>

StepDone ==
    /\ pc \in {"full", "assemble"}
    /\ todo # << >>
    /\ LET s == Head(todo)
       IN  /\ s.op # "umount"
           /\ \E b \in OnBundle(bd[Here], s) : bd' = [bd EXCEPT ![Here] = b]
           /\ s.op \in {"partition", "open", "copy", "move"} => bd[N].dirs # {}
           /\ part' = OnPart(s)
           /\ gfs' = (gfs \/ s.op = "mount")
           /\ dest' = OnDest(s)
           /\ ran' = OnRan(s)
    /\ todo' = Tail(todo)
    /\ UNCHANGED <<pc, cmd, proc, o, st, tries, sig, cl, exit>>

\* gocryptfs' stop: a failing unmount is repeated for ever, without trying
\* again; so is one of a filesystem that is no longer mounted.
Stop ==
    \/ gfs /\ gfs' = FALSE /\ pc' = "clean"
    \/ gfs' = gfs /\ pc' = "spin"

Unmount ==
    /\ pc = "assemble" /\ todo # << >> /\ Head(todo).op = "umount"
    /\ \/ gfs /\ gfs' = FALSE /\ pc' = pc /\ todo' = Tail(todo)
       \/ gfs' = gfs /\ pc' = "spin" /\ todo' = todo
    /\ UNCHANGED <<cmd, proc, o, st, tries, bd, part, dest, sig, cl, ran, exit>>

\* Mutant of Retry: the attempts are not counted.
RetryForever ==
    /\ pc = "full" /\ todo # << >> /\ Head(todo).fails = "retry"
    /\ todo' = Program(st)
    /\ UNCHANGED <<pc, cmd, proc, o, st, tries, bd, part, gfs, dest, sig, cl, ran,
                   exit>>

\* Get is tried again from its start; nothing of the stage is done before it
\* but %pre, which is not run again.
Retry ==
    /\ pc = "full" /\ todo # << >> /\ Head(todo).fails = "retry"
    /\ tries + 1 < MaxAttempts
    /\ tries' = tries + 1
    /\ todo' = SubSeq(Program(st), Len(runHostScript("pre")) + 1, Len(Program(st)))
    /\ UNCHANGED <<pc, cmd, proc, o, st, bd, part, gfs, dest, sig, cl, ran, exit>>

\* A step that fails: a copy or a SIF may be there in part; a nil handle is a
\* panic.
StepFails ==
    /\ pc \in {"full", "assemble"}
    /\ todo # << >>
    /\ LET s == Head(todo)
       IN  /\ s.op \notin {"drop", "give up", "umount"}
           /\ dest' = IF s.op \in {"copy", "create"} THEN [dest EXCEPT !.is = "part"]
                      ELSE dest
           /\ ran' = OnRan(s)
           /\ IF s.fails = "fatal"
              THEN End(255) /\ gfs' = gfs
              ELSE IF s.op \in {"root", "keep", "rdrop"} /\ bd[Here].handle = 0
              THEN End(2) /\ gfs' = gfs
              ELSE exit' = exit /\ IF gfs THEN Stop ELSE pc' = "clean" /\ gfs' = gfs
    /\ UNCHANGED <<cmd, proc, o, st, todo, tries, bd, part, sig, cl>>

StageDone ==
    /\ pc = "full" /\ todo = << >>
    /\ pc' = "stage" /\ st' = st + 1
    /\ UNCHANGED <<cmd, proc, o, todo, tries, bd, part, gfs, dest, sig, cl, ran, exit>>

Assembled ==
    /\ pc = "assemble" /\ todo = << >>
    /\ pc' = "clean"
    /\ UNCHANGED <<cmd, proc, o, st, todo, tries, bd, part, gfs, dest, sig, cl, ran,
                   exit>>

\* Remove of bundle i; a filesystem that is still mounted in the last one's
\* temporary directory keeps it.
Removed(i) ==
    [bd EXCEPT ![i] = [@ EXCEPT !.handle = 0, !.tree = << >>,
                         !.dirs = IF gfs /\ i = N THEN {"tmp"} ELSE {}]]

\* One bundle after the other, unless --no-cleanup.
cleanUp(i) == IF o.nocleanup THEN bd' = bd ELSE bd' = Removed(i)

\* Full's deferred cleanUp, and the end of the command.
CleanUp ==
    /\ pc = "clean"
    /\ IF cl <= N THEN cleanUp(cl) /\ cl' = cl + 1 /\ UNCHANGED <<pc, exit>>
       ELSE /\ End(IF todo = << >> /\ st > N THEN 0 ELSE 255)
            /\ UNCHANGED <<bd, cl>>
    /\ UNCHANGED <<cmd, proc, o, st, todo, tries, part, gfs, dest, sig, ran>>

----------------------------------------------------------------------------
(* SIGINT or SIGTERM while Full runs. *)

Signal ==
    /\ o.signal /\ InFull /\ sig = 0
    /\ sig' = 1
    /\ UNCHANGED <<pc, cmd, proc, o, st, todo, tries, bd, part, gfs, dest, cl, ran,
                   exit>>

SignalCleans ==
    /\ InFull /\ sig > 0
    /\ IF sig <= N THEN cleanUp(sig) /\ sig' = sig + 1 /\ UNCHANGED <<pc, exit>>
       ELSE End(1) /\ UNCHANGED <<bd, sig>>
    /\ UNCHANGED <<cmd, proc, o, st, todo, tries, part, gfs, dest, cl, ran>>

\* The gocryptfs packer's goroutine unmounts as well.
SignalUnmounts ==
    /\ InFull /\ sig > 0 /\ gfs
    /\ gfs' = FALSE
    /\ UNCHANGED <<pc, cmd, proc, o, st, todo, tries, bd, part, dest, sig, cl, ran,
                   exit>>

----------------------------------------------------------------------------

Main ==
    \/ preRun \/ runBuild \/ runBuildLocal \/ newBuild
    \/ NextStage \/ StepDone \/ StepFails \/ Retry \/ Unmount
    \/ StageDone \/ Assembled \/ CleanUp

Next == Main \/ Signal \/ SignalCleans \/ SignalUnmounts

Spec == Init /\ [][Next]_vars /\ WF_vars(Main) /\ WF_vars(SignalCleans)

----------------------------------------------------------------------------
(* Properties. *)

Interrupted == sig > 0

\* Whatever the source, every write through a bundle's os.Root handle goes to
\* the directory that RootfsPath names: the extraction of an image into an
\* empty rootfs replaces the directory, and the handle is open again before
\* it is used (ReopenRootfs, and the base environment that the pulled images
\* write first).
RootedWritesLand ==
    pc = "full" /\ todo # << >> /\ ~Interrupted
        /\ Head(todo).op \in {"root", "keep", "rdrop"}
    => bd[st].handle = bd[st].inode

Temporaries == {".post.script", ".build.labels", "bindpoints"}

Runscript(tree) ==
    IF o.script /\ RunSection("runscript") THEN tree["runscript"] = "definition"
    ELSE IF Updating(N) \/ o.srcs[N] \in ImageSources
    THEN tree["runscript"] = "image"
    ELSE tree["runscript"] \in {"oci", "source"}

\* The image of a build that succeeds has the files every image has, the
\* definition's or else the source's runscript (an image's own is not
\* overwritten by the default one), its labels and its definition, and
\* nothing that the build only put there for its own use.  (A signal's cleanUp
\* may empty a sandbox while it is moved.)
ImageIsWhole ==
    exit = 0 /\ dest.is = "new" /\ ~o.data /\ ~Interrupted =>
        /\ {"dirs", "links", "actions", "labels", "definition"} \subseteq
               DOMAIN dest.tree \cup (IF Updating(N) THEN {"dirs", "links"} ELSE {})
        /\ Runscript(dest.tree)
        /\ DOMAIN dest.tree \cap Temporaries = {}

\* The image that was at the destination is given up only when every stage is
\* done and has passed its tests, and, for a SIF, when its partition is
\* complete ("remove anything that may exist at the build destination at last
\* moment"): a build that fails before keeps it.
OldImageKept ==
    o.old /\ dest.is # "old" =>
        /\ st > N
        /\ o.format = "sif" => part.kind # "none"
        /\ KeyInfo /\ o.format = "sif" /\ ~o.data => part.kind = Encryption

\* When Full returns, with or without an error and without having been
\* interrupted, neither it nor newBuild has left a bundle's directories.
FullLeavesNothing ==
    pc = "end" /\ cl > N /\ ~Interrupted /\ ~o.nocleanup =>
        \A i \in 1 .. N : bd[i].dirs = {}

\* A definition file is built by root or under some kind of fake root: root
\* of a user namespace, or the fakeroot command (which %post runs under).
DefinitionNeedsRoot ==
    pc \in {"local", "new"} /\ cmd.deffile => proc.root \/ proc.fake

\* A build that succeeds leaves a whole image and nothing else, and one that fails
\* before the image is put together leaves the one that was there: the four above.
BuildIsSound == ImageIsWhole /\ OldImageKept /\ FullLeavesNothing /\ DefinitionNeedsRoot

Over == pc \in {"end", "spin"}

\* A build ends, however its steps and signals fall, unless gocryptfs cannot
\* be unmounted, which stop waits for without end.
BuildEnds == <>Over

\* "build an image with an encrypted file system" (--encrypt): a build that
\* says it is complete has left such an image.
EncryptIsHonoured ==
    exit = 0 /\ cmd.encrypt => dest.is = "new" /\ dest.enc \in {"gocryptfs", "dmcrypt"}

\* "cleanUp removes remnants of build from file system unless NoCleanUp is
\* specified": a build that failed, wherever it failed, leaves no directory.
FailedBuildCleansUp ==
    pc = "end" /\ exit # 0 /\ ~o.nocleanup => \A i \in 1 .. N : bd[i].dirs = {}

\* "only run specific section(s) of deffile (setup, post, files, environment,
\* test, labels, none)" (--section): the scripts of the others are not run.
SectionsRespected == \A s \in ran : RunSection(s)
=============================================================================
