# Apptainer in TLA+

A model of Apptainer: of the processes, goroutines and commands that meet while
a container is created, run and ended, of the decisions that lead to a
container, and of the files that commands share. TLC checks the modules on small
instances; TLAPS proves central safety properties of fourteen of them for every
value of their constants. `PROJECT.json` maps every definition to the lines it
models and lists the runs, mutants, findings, hazards and theorems.

## The system

`apptainer` is a command line program without a daemon. A command that runs a
container is first a **launcher** in the user's process, which decides how the
**starter** is executed. The starter's C constructor (`cmd/starter/c`) runs
*stage 1* in a child to get the configuration, forks off an instance, clones the
container process and an RPC server, and leaves a **master** process in Go
(`internal/app/starter`), which creates, monitors and cleans up the container
through an **engine** (`internal/pkg/runtime/engine`). Everything that outlives
one command is a file, a lock or a kernel object, and that is where the parts
interact.

| Part | State | What makes it hard | What must hold |
|---|---|---|---|
| launcher, stage 1 | the request, the host, the instance to join | two processes decide one after the other; the instance may end in between | privileges that are earned, layers that can be mounted |
| starter constructor | sockets, death signals, exit statuses | five processes, any of which may fail or be killed | steps in order, a true status, nobody left waiting |
| master | `fatalChan`, signals, instance file, mounts, cgroup | four goroutines, whoever sends first decides | the container's exit code, truthful reports, everything released |
| container creation | mount points by tag, session layout, the mount table | order, missing places, refused remounts | what was asked for is where it was asked for |
| process 1 of a container | signals channel, children | two reapers of one process | it ends like the command |
| image driver, loop devices | driver processes, `/dev/loopN` | several waiters, kernel state that changes between calls | each container its own image, nothing left |
| networks | CNI state, sockets that reserve ports | one time-out for all, rollback after it | nothing left, ports apart |
| instance registry, stop, `--sharens` | one file per name, lock files | no lock, deletes by path, restarted time-outs | what runs is listed, what is stopped ends, one container for all |
| OCI engine and bundles | state file, control socket, log, bundle directory | commands at any moment of the master's life, mounts in another order than they were written | the OCI lifecycle, true reports, whole output, the tree of the configuration |
| pulls and OCI images | the path or layout that is written | several commands on one path or one layout, every transport with its own way to fail | a whole image, or the path as it was |
| image files | partitions, locks, signatures | locks do not keep a process from itself | one writer, runs as the list says |
| build | bundles, the destination, a signal goroutine | every step may fail, the rootfs directory is replaced | a whole image or the old one, and an end |
| cache, remotes, capabilities, subordinate ids, keyrings, plugins, apptainer.conf | files | read, edit, truncate, write, without a lock | no wrong image, nothing granted, lost or listed wrongly |

## Modules

Processes around a container:

- **Master**: one program counter per goroutine, the two channels with their
  capacities, the container process and the C parent of an instance.
- **Starter**: the processes of the constructor as `pc` and `st`, the bytes in
  either direction of `master_socket`, pending SIGCHLD and death signals.
- **Instance**: one name; the file is an inode and whose data it holds, so that
  a delete by path and a write through a descriptor can differ.
- **InstanceStop**: the main goroutine, one per instance, and a clock.
- **ShareNS**: lock files as inodes, locks on inodes, the marker byte.
- **ImageDriver**: MountAll, the forwarding goroutine, create(), the cleanup, which
  may begin while create() is still mounting, and one watcher per driver.
- **AppInit**: StartProcess up to the exec, and the loop of process 1 with its
  signals channel (capacity 2), its goroutine in `cmd.Wait`, the command, a FUSE
  program and an orphan.

OCI:

- **OciLifecycle**: the abstract specification, the status of a container and
  the changes that the OCI runtime specification allows. **OciEngine** implements
  it with `status <- file.status`; masters and commands are records.
- **OciBundle**: `oci mount` and `oci umount` step by step, each step failing.
- **OciStreams**: the copiers, the MultiWriter, the logger's two goroutines and
  its file, which a control message has reopened; any writer of a MultiWriter may fail.
- **OciMounts**: CreateContainer of the OCI engine: the points collected from a
  config.json, mounted tag by tag with devices, masked and read-only paths, for
  two containers of a bundle in turn. It shares the mount table of SessionLayout.

What a container is made of:

- **Launch**: the launcher's Exec and stage 1's PrepareConfig as one sequence of
  steps over a request (user, installation, kind of image and the set of what
  departs from the defaults), beside an instance that lives its own life.
- **SessionLayout**: mount points by tag, the session directory, the overlay and
  underlay layers, and the mount table, as operators on one record; an error
  makes what follows it do nothing, as the code's early returns.
  **ContainerMounts**: create(), one operator per `add...Mount`, then the tags in
  their order with the hooks, the change of root and the list to unmount.
- **ImageFile**: image.Init with its locks, overlay create, sign, and ShouldRunFp.
- **Network**: prepareNetworkSetup, port protection, ADD under one time limit and
  its rollback in create(); the DEL of the cleanup in main, which may overtake it.
- **LoopDevice**: the kernel's state per device; who has a device open follows
  from where each process is. A device that the search for a shared one cannot open,
  lock or read is passed over.

Making images:

- **BuildSources**: what each conveyor and packer does, as a sequence of steps
  that say how they reach the root filesystem. **Build**: the command with its
  kinds of fake root, newBuild, Full, assemblers, cleanups and the goroutine of
  the signal.
- **Deffile**: the parser of definition files, with stages and build arguments.

Shared files:

- **ImageCache**: entries by key, a temporary file per command. The six sources
  of images differ in four flags (hash verified, content requested by key, fatal
  on failure, entry linked).
- **PullFile**: `pull` to a path and Pull for a command that needs an image,
  through the cache, which is abstracted to what ImageCache shows of it, or past
  it: the file that each transport empties, fills, checks and removes, the atomic
  copy, and the sandbox that replaces it.
- **OciImage**: FetchToLayout from a registry, a daemon, archives and layouts; the
  blobs and the index of the cache's layout, which commands share without a lock.
- **Remotes**, **SubIDs**: the edits of the configurations in memory, as
  operators that return the set of results. **Stores**: commands that read the
  files, edit, truncate and write them, for remotes, capabilities and
  subordinate ids.
- **Keyring**: the two PGP keyrings as sequences of packets, appended to and
  rewritten by commands that run at the same time.
- **Plugins**: object, manifest and `.meta` of each plugin, written in the order
  of Meta.install by commands that may overlap, and a process that lists and loads;
  a plugin may lie below another (`Below`) and is removed with it.
- **GlobalConfig**: `config global` on a scalar directive and on the two kinds of
  list directive.

`...Proofs` modules hold the proofs. Definitions that look like a second form of
an action or operator (`FinalizeOnce`, `RemountBare`, ...) are mutants: plausible
bugs that the property named in `PROJECT.json` must catch.

### The MC modules

Each MC module extends one component and instantiates others of the same kind
over the variables `v1`, `v2`, ... The variable `part` (`which` in MCImages) says
which component a behaviour belongs to: the state space is the disjoint union of
those of its parts, not their product. Fairness is that of the parts, and one
leads-to formula says for each part what must eventually happen. Components that
do interact contain each other's part: Build takes its steps from BuildSources,
Stores its edits from Remotes and SubIDs, ContainerMounts its layers from
SessionLayout; Master, ImageDriver and OciEngine each have the part of the
master they need; Launch has the instance it joins.

## Runs

| Run | Parts and size | What it shows |
|---|---|---|
| `master` | one instance with mounts and a cgroup, one outside signal, every step may fail | ExitFaithful: the exit code is the reaped container's. ParentTruth: the parent reports success truthfully. FailedStartUnrecorded. SettledReleased: a finished creation is released. EndReported: the end of the container, or an error, ends the master |
| `processes` | stop: 3 instances, grace period 2. starter: setuid or not, all configurations, 2 kills. driver: 2 drivers, 2 failures. registry: 2 masters, 2 lists, 1 fault. sharens: 3 commands, 1 failure | StopEffective, GraceBounded: "instance stop" leaves no instance that was not killed, in bounded time. ChainIsSound: namespaces in order, a clean socket for Go, success only when earned, two processes left. DriversAreSafe: one waiter per process, no panic, mounted before run. RegistryIsTrue. ContainerIsShared: one container, held by all who joined. WaitsEnd: every wait among these processes ends |
| `engines` | oci: 3 commands of start, kill, pause, resume. delete: 2 of start, kill, delete, with time-outs. bundle: 4 commands. appinit: a FUSE program, an orphan, one signal | Lifecycle: OciEngine implements OciLifecycle. ReportsAreTrue: after a start that returned without error the container is no longer created (it may also have been stopped meanwhile), paused is frozen until the cleanup, stopped is dead. DeletedStaysGone. BundleIsAsReported. EndsLikeCommand, whichever reaper was first. EndsAreNoticed: commands end and have their effect, ends are noticed |
| `container` | mounts: 886 requests on each of the 3 layers. launch: every user, installation and kind of image with up to two departures from the defaults, SIF images and sandboxes also with an option, a setting and a host fact. bundle: some 600 configurations, 2 containers in turn. fetch: 2 commands, 8 sources, 4 earlier states of the cache, 1 kill. pull: 2 commands, 18 requests, 1 failure, 1 kill. image: 2 processes, 14 files, 7 lists. network: 2 containers, 6 requests | TreeIsAsAsked: binds are at their place, the image stays visible, layers make room, flags are kept at every point of the mounts, the root is the layer, unmounts in reverse. LaunchIsSound: privileges are earned, and what starts can be mounted. BundleTreeIsAsAsked: the same of an OCI bundle, with its devices, masks and read-only paths. FetchesAreSound: an OCI fetch hands over the image of its source or an error; a pull leaves a whole image at its path or, through the cache, the path as it was, and nothing else. WritersAreAlone, RunsAsListed. NetworksReleased, PortsAreSeparate |
| `images` | build: one and two stages from every source, every failure, encryption with two of the sources, a signal to builds of root. loop: 2 processes with 2 mounts each, 2 devices, 1 kill | RootedWritesLand: every write through the bundle's handle lands in its root filesystem. BuildIsSound: a whole image, or the old one, nothing left behind, root where it is needed. LoopsAreTheirs: each container mounts its image; a kill leaves at most one device. ImageStepsEnd |
| `files` | cache: 2 commands, 3 pulls in all. stores: 2 commands that overlap and a third after them. keyring and plugins: 3 commands in 2 processes, 1 kill. config: 2 administrators, 2 edits, 2 items. streams: 2 lines, 2 rotations. deffile: files of up to 5 lines | GivesItsImage, EntriesAreSound, PullsEndWell. RemotesAreUsable: the active remote exists and a reachable keyserver is reached. GrantsAreSound: no capability that was not given, no id range given twice. KeysAreKept. ListedLoads. EditIsLocal. OutputIsWhole. DefinitionIsDeclared: against a reference definition of what the lines declare |

Six runs are expected to be violated. Each shows a disagreement between the code
and its own text, quoted under `findings`:

| Run | Disagreement |
|---|---|
| `instance_stop_grace` | the time-out starts again after every stopped instance, so one can outlive its grace period |
| `oci_delete_paused` | `oci delete` removes a paused container that is alive |
| `keyring_secrets` | removing one secret key rewrites the others without their secret parts |
| `config_unset` | `--unset` of a value does not find it on a line with several, and can index past the end of the list |
| `image_kept` | `overlay create` replaces an image that its user may not write by a new ext3 image |
| `launch_local` | with `--disable-cache`, a local image is removed after it was extracted |

The modules also state properties that no run lists, since the code does not
have them (TLC refutes each on the instances above): ReadOnlyBindsHold
(ContainerMounts: the bind of the current directory below a read-only bind is
writable, and so is a bind whose remount is refused in a user namespace),
OnlySystemExcludes (Stores: an exclusive remote that was copied to the user's file
stays exclusive after the system's file dropped it), EncryptIsHonoured,
FailedBuildCleansUp and SectionsRespected (Build: `--encrypt` without key material
ends with status 0 and no image; failures before Full leave directories; scripts
outside `--section` run), CommentsAreSkipped (Deffile: comments inside a continued
header), OneOverlay (ImageFile: two concurrent `overlay create`),
OutputOutlivesClients (OciStreams: a client that went away ends the copy for all),
FailedMountRemoves (OciBundle: a failed `oci mount` leaves the directories it made)
and ResetIsDefault (GlobalConfig: a list, such as `bind path`, is emptied instead).

### Known limits of the code

These are reachable in the models; the properties except them by a condition.

| Where | What happens | Condition |
|---|---|---|
| `master_linux.go:135` | two queued signals fill the channel, the SIGCHLD is dropped and the master waits for ever | EndReported: `sent >= SigCap` |
| `apptainer/cleanup_linux.go:143` | cleanup looks for the instance file before PostStartProcess writes it | none claimed in Master |
| `manager_linux.go:379` | a cgroup whose update fails is not known to cleanup | SettledReleased: `settled` |
| `starter.c:1552` | a setuid master fails before its child has asked for the death signal again | ChainIsSound, WaitsEnd: `CredChange` |
| `instance_linux.go:149` | two overlapping starts of a name both pass the check | RegistryIsTrue: `~overlap` |
| `instance_linux.go:192` | a list deletes, by path, the file of the next instance of a name | RegistryIsTrue: `~stale` |
| `instance_linux.go:184` | a truncated file does not decode and is never collected | WaitsEnd is about complete files |
| `actions.go:396-438` | a command holds the lock of an unlinked file while another creates the next | ContainerIsShared: `~overlap` |
| `apptainer/cleanup_linux.go:57` | the cleanup of a first command that failed deletes the file of its successor | ContainerIsShared: `fails = 0` |
| `imagedriver.go:545` | after a mount time-out the stop and the watcher both wait for one process | DriversAreSafe, WaitsEnd: `fails = 0` |
| `imagedriver.go:588-591` | the cleanup of a container that is killed during its creation closes the channel on which the next Mount announces its driver, and does not stop that driver | DriversAreSafe, WaitsEnd: `~early` |
| `apptainer/process_linux.go:73` | the SIGCHLD of an orphan is lost in a full channel | EndsAreNoticed: `dropped` |
| `oci/create_linux.go:420` | after a kill that timed out, the master writes the state file of a deleted container | DeletedStaysGone: the connection was not closed early |
| `network_linux.go:480` | a plugin that fails in the cleanup's DEL keeps the networks before it | NetworksReleased: `delFailed` |
| `master_linux.go:140-152` | the cleanup of a container that is killed during its creation removes the networks while they are being added; those added after stay, without the sockets that guard their ports | NetworksReleased, PortsAreSeparate: `late` |
| `gocryptfs.go:178` | stopping gocryptfs waits without end for an unmount that fails | ImageStepsEnd: "spin" counts as an end |
| `loop.go:101-112` | a device that cannot be opened, locked or read is passed over, and an image that is mounted on it gets a second one | LoopsAreTheirs: `passed` |
| `cache.go:130` | the removal of an old directory hits the file that replaced it | PullsEndWell: `~old` |
| `ipfs/pull.go:185` | two pulls of one directory leave an entry that links to itself | PullsEndWell: `~kind.linked` |
| `net/pull.go:160-162` | a file that changes between HEAD and GET is cached under the older date; a fatal exit leaves the temporary file | EntriesAreSound: `Tied`; PullsEndWell: `kind.fatal` |
| `library/pull.go:148` | the library's `--sandbox` of an image whose signature is not verified ends with status 0 before the sandbox is made | FetchesAreSound: `r.unsigned` |
| `oras/oras.go:119`, `library/library.go:128` | past the cache, a copy that fails (oras) or a setting that is refused (library) leaves a part of an image, or an empty file, at the path | FetchesAreSound: `spooled`, `early` |
| `cli/pull.go:247` | two pulls to one path both find it free; past the cache they write into one file | FetchesAreSound: `met` |
| `ociimage/fetch.go:51` | a fetch loses its entry in the index to another and ends with an error; a kill in the write of the index leaves a cache that must be cleaned; two writers of a blob may leave a gap | FetchesAreSound: `alone`, `kills`, `gap` |
| `oci/create_linux.go:826` | a path that only a bind brings is not masked; a path masked or made read-only twice fails the create; a file at a device's name, left by an earlier container, is kept | BundleTreeIsAsAsked: what was in the root file system, `found` |
| `oci/create_linux.go:844-880` | a read-only path is bound over itself without what is mounted below it: a masked path or a mount below it is covered, and what the mask hid can be seen again | BundleTreeIsAsAsked: ReadonlyOver |
| `sypgp.go:374` | a key appended while another command rewrites the keyring is lost; so is one whose block another append cuts in two, or a kill | KeysAreKept: `met` |
| `plugin/meta.go:94` | a plugin installed again is truncated while its old `.meta` lists it; an uninstall goes on when it could not remove the `.meta` | ListedLoads: `redone` |
| `plugin/meta.go:252` | the uninstall of a plugin removes the directories of plugins whose names lie below its own, and leaves their `.meta` | ListedLoads: `redone` |
| `mount_linux.go:148` | the current directory is mounted after the binds and hides one that lies below it | TreeIsAsAsked: UnderCwd |
| `apptainerconf/config.go:576, 641` | the template prints no line that is read as `binary path` or `apptheus communication socket path`: every `config global` resets them | EditIsLocal: "path" |
| `config_global_linux.go:130` | `--set` of a scalar with several lines to the value of a later line changes nothing | EditIsLocal: the number of lines |
| `logger.go:148, 154` | a line whose write to the log fails is dropped; a line longer than the scanner's buffer ends the log of its stream, and then the stream | OutputIsWhole: `lost`, `scan` |

### Bounds

Every bound is a constant whose name starts with `Max`, or the size of a set.
Two actors suffice for a race on one file or channel; there is a third where a
race needs a bystander (another command on a lock file, a third instance to
stop). One kill, failure or outside signal places the fault at every step. Two
pulls or containers per process let one meet what its predecessor left; of the
cache's two commands one pulls twice, since they are alike. The launcher's requests
depart from the defaults in up to two ways, plus the larger groups that the code
tests for together; for SIF images and sandboxes (an image that is mounted, and one
that is a directory) they also combine an option, a setting and a fact of the host.
The mounts combine one option set with every candidate bind, and two option sets (a
current directory, which is bound last, and a link on the way) with every pair. Encryption comes after the sources of a build, so two of them suffice, and a
signal is handled alike for all users. A definition file of
five lines holds a continued header, a section that comes twice, or two stages.
`sleepRetries` is 2 in the loop part and 5 in the code; the retries touch nothing
but their counter. Subordinate ids count modulo 10 and ranges are 2 long, for
uint32 and 65536. InstanceStop's clock counts the ticks of its grace period.

Symmetry is used in `files` only, where all properties are invariants and the two
commands are alike. Deadlock checking is off, since the processes of every model
end for good; that they do not stop earlier is what EndReported, WaitsEnd,
EndsAreNoticed and ImageStepsEnd say.

### Fairness

Weak fairness is assumed for goroutines and processes that can take a step: the
Go scheduler and the kernel run what is runnable. Strong fairness is assumed in
two places: a blocked `flock` in LoopDevice, since the kernel wakes waiters in
turn, and the case of AppInit's select that is ready again and again, since
select chooses at random.

Of the outside as little as possible is assumed. Users need not send signals, and in
Master, OciEngine, LoopDevice and AppInit a container need not end by itself. Four
assumptions are made:

- a process that was told to end by SIGKILL or SIGTERM ends (InstanceStop,
  OciEngine, AppInit);
- with `--sharens` the commands in the containers end (ShareNS): the first command
  waits for those who joined it, so that AllEnd means nothing without it;
- a driver process that has not failed mounts, and ends when it is unmounted or
  signalled (ImageDriver); its mount time-out may pass before;
- the steps of a build end, well or with an error: bootstrap programs, downloads,
  `%post` and `%test` scripts (Build). ImageStepsEnd says that the build itself,
  its retries and cleanups, adds no endless wait but that of gocryptfs.

## Proofs

Each proof module extends a component, states an inductive invariant, and proves
that Init gives it, that every action keeps it and that it implies the property. Five
of them also hold the proofs about further components, instantiated over variables of
their own (`Registry`, `Chain`, `Driver`, `Appinit`, `Bundle` and `Image` are such
instances). TLC checked the invariants on the instances above first.

- **MasterProofs**, for every capacity of the signals channel, number of signals,
  set of resources and of exit statuses. The inductive invariant adds to the type
  invariant what a nil on `fatalChan` means (the monitor has reaped the
  container), when the instance file can exist (only after stage 2 closed its
  socket without reporting a failure), and which resources cleanup has dealt with
  at each of its steps. It gives TypeCorrect, ExitIsFaithful, ParentTellsTruth,
  FailedStartIsUnrecorded and SettledIsReleased.
- **InstanceStopProofs**, for every finite set of instances and grace period: an
  instance that has been reported is in exactly one of its goroutine's hands, the
  channel or the list; each one received puts off the deadline by one period. It
  gives StopIsEffective and GraceIsBounded. About **Instance**, for any set of
  masters of a name and of list commands: while no two starts overlap and no list has
  deleted a file it did not read, the inode at the path is that of the one master
  that is past its check, a partial file has a writer, and a list that is about to
  delete has read the file of a master that ended. RegistryIsTrue speaks only of the
  masters that are up, and of those that have ended. It gives RegistryTrue.
- **ShareNSProofs**, for any set of commands and any number of failures. Until a
  command holds an unlinked lock file there is one lock file; who holds its lock,
  exclusively or shared, follows from where a command is; the instance file is that
  of the command that launches or runs, and a command that joined keeps the first
  one waiting. ContainerIsShared alone is not inductive, since a join relies on the
  lock under which the file was read. It gives ContainerShared. About **Starter**, for
  every installation and configuration and any number of kills: the bytes in each
  direction of the socket follow from where main and the child are, which processes
  exist from how far main is, a process that has died has been noticed or is about
  to be, by SIGCHLD, death signal or a closed socket, and a status of 0 was passed on
  from the process that earned it. It gives ChainSound.
- **OciEngineProofs**, for one container and any set of commands that start, kill,
  pause and resume it. The invariant ties the status in the master's memory, the
  one on file and the state of the process to the program counters of the
  goroutines, and each command's answer to the connection that is served or queued.
  It gives ReportsTrue, and LifecycleKept: every step of OciEngine is a step of
  OciLifecycle or leaves the status alone. The hypotheses are those under which the
  properties hold: with `delete` a paused container can be deleted (the run
  `oci_delete_paused`) and the master's last update can bring back a deleted file,
  and a second `oci create` of the name overwrites what is there. DeletedGone is about
  commands of all kinds, delete included, on the container of one `oci create`: its
  invariant says which goroutine of the master may still write the file, that the
  delete of a live container waits on a connection which the master closes only after
  its last update, and that a command whose view is of a container with no process
  found the master past that update.
- **LoopDeviceProofs**, for any set of processes, images and offsets, any number of
  devices, retries and kills. The invariant says what each process holds of the
  device it is at, which device has which lock, that a device with autoclear is
  open somewhere, that at most as many devices are left without an owner as
  processes were killed, and where among the candidates a mounted image's device can
  be, which the search has not passed over because of an error. It gives LoopsTheirs.
- **NetworkProofs**, for any set of containers and requests, with create() and the
  cleanup at any point of each other: the Setup is kept before anything is added, what
  is set up lies above the index that DEL has reached or came late, the sockets are
  held while anything is and the master lives, and the sockets of a port have one
  user. It gives NetworksAreReleased and PortsStaySeparate. About **ImageDriver**, for
  any number of drivers and failures: where each goroutine is and which driver it is
  about, who has taken whose process, that the drivers below the one being mounted
  are mounted or have failed, and that while nothing fails a driver ends only
  after it was told to. It gives DriversSafe.
- **ImageCacheProofs**, for any set of commands and any number of versions, pulls,
  cleanings and kills: a file about to be renamed is whole and has its key's
  content. EntriesAreSound alone is not inductive, because Finalize relies on what
  the download and the hash check established. It gives EntriesStaySound and
  PullsGiveTheirImage, for every source (a whole image, and the content of its key
  where the key ties it, `Tied`: not for net and oci), and, with a second invariant on
  who has a temporary file where, PullsAllEndWell, but for the exceptions above
  (`~old`, `~kind.linked`, `kind.fatal`). About **ImageFile**, for any images, keys and
  execution control lists: signatures are of groups that the image has, and its root
  filesystem is in the first group, so that what the verifier looked at, also in legacy
  mode, is what the list's modes speak of. It gives RunsListed.
- **PluginsProofs**, for any set of plugins and of commands that run at the same
  time, and any number of kills. ListedLoads speaks of what a process could not
  load, and is not inductive: the invariant adds that a whole `.meta` file stands
  beside a whole object, unless the plugin is spoilt, which in turn depends on how
  far the one command that works on it is. It gives ListedPluginsLoad. About
  **AppInit**, for any FUSE programs, orphans and signals: which of the two reapers
  can have the command's status, and what is then in the two channels. EndsLikeCommand
  is about the end only. It gives AppinitEnds. About **OciBundle**, for any number of
  commands: what each step of a mount has made, what the steps of an unmount have
  left, and that undoing a mount from any step on restores what was there. It gives
  BundleReported.

The assumptions on constants are named in the modules that declare them
(`MasterAssumption`, `StopAssumption`, `CacheAssumption`, `OciAssumption`,
`LoopAssumption`, `NetworkAssumption`), and TLC evaluates them in the runs; they say
that counters are naturals, that requests ask for finite sequences of networks, and
that `None` names no process or image. ContainerShared states its own (`MaxFails` is a
natural, `None` is no command), and the theorems on OciEngine their hypotheses. Those
on the instances have theirs in `RegistryConstants` (masters and list commands are
different processes, and none is called like a mark for "no file" or "partial"),
`ChainConstants` (hosts and configurations are records of the fields the module
reads), `DriverConstants` (there is a driver), `AppinitConstants` (no FUSE program
or orphan is the command) and `ImageConstants` (images are records of the module's
fields, with their root filesystem in the first group, and a rule has one of the three
modes); the bounds on failures and kills are naturals, and
BundleReported assumes nothing. ContainerShared, ChainSound, DriversSafe and
RegistryTrue state what the run `processes` checks in the behaviours of their part
(ContainerIsShared, ChainIsSound, DriversAreSafe, RegistryIsTrue); DeletedGone,
AppinitEnds and BundleReported what `engines` checks (DeletedStaysGone,
EndsLikeCommand, BundleIsAsReported); RunsListed what `container` checks
(RunsAsListed), and ListedPluginsLoad what `files` does (ListedLoads).

Only model-checked:

- all liveness properties, which are beyond the prover;
- TreeIsAsAsked, BundleTreeIsAsAsked, RootedWritesLand, BuildIsSound and
  DefinitionIsDeclared, since what their folds and recursive functions compute
  needs an induction over sequences that the prover cannot instantiate;
- KeysAreKept, OutputIsWhole and FetchesAreSound, which rest on such facts about
  the sequences in a file;
- LaunchIsSound, whose requests are checked one by one: the decisions of the launcher
  and stage 1 are one long sequence of tests without an interleaving to reason about,
  but for the instance beside it;
- WritersAreAlone and EditIsLocal, whose operators are folds over the partitions of an
  image and the lines of a file;
- RemotesAreUsable and GrantsAreSound, which rest on what the edits of Remotes and
  SubIDs find in the sequences of a file.

## Abstractions

- Images, names, configurations and messages are model values or small records;
  paths are sequences of names.
- Instance, ShareNS and OciEngine have one name each; names do not interact.
- In ImageCache all commands of a behaviour use one source, and each version of
  an IPFS directory has a file of its own. PullFile has what happens past the
  cache and after it, and of the cache only that it gives a whole image.
- In OciMounts one device and one link of `/dev` stand for all. In OciImage the
  library that writes layouts is external and modelled from its use.
- In LoopDevice the open and close that test for a device are one step. The
  kernel's rules (autoclear, LOOP_CLR_FD of a device that others have open) are
  external and modelled from their use; so are CNI plugins, FUSE programs and the
  OpenPGP library.
- In Stores a behaviour is about one kind of store. In Build the programs that
  bootstrap a distribution are steps that succeed or fail.

## Not modelled

- Command line parsing, usage texts and the output of listing commands: no state.
- Cgroups, seccomp, AppArmor, SELinux, signatures, the protocols of registries and
  checkpoints: single calls to libraries or programs. Where the order of such a
  call matters (the cgroup in Master and Launch) the caller has it.
- The engine for fakeroot: one exec in a user namespace.
- `oci run`, `exec`, `attach` and `update` beyond the streams; uploads; plugin compilation; the byte formats of images.
- The files generated into a session (passwd, group, resolv.conf), environment
  variables and GPU libraries: only their places in the tree are modelled.
