------------------------------ MODULE Plugins ------------------------------
(***************************************************************************)
(* Installed plugins (internal/pkg/plugin): for each plugin a directory    *)
(* with its manifest and its shared object, and beside the directories a   *)
(* .meta file that says it is installed, whether it is enabled and which   *)
(* callbacks it registers (here, the one that is asked for).  Commands     *)
(* change them without a lock, and any other apptainer process may at any  *)
(* time list the .meta files and then load the objects of the enabled      *)
(* plugins.                                                                *)
(*                                                                         *)
(* A file is "none", "part" from its creation to the end of its writing,   *)
(* or "whole".  A command may be killed between two of its steps, and a    *)
(* write may fail.  A plugin's name is the path of its directory, and one  *)
(* name may lie below another.  The parents that are the directory of no   *)
(* plugin are removed only when they are empty, and are left out.          *)
(***************************************************************************)
EXTENDS Naturals

CONSTANTS Plugin,     \* names of plugins
          Below,      \* the pairs <<p, q>> where q's directory lies in p's
          Admins,     \* the processes that run plugin commands
          MaxCommands,
          MaxCrashes

VARIABLES disk,       \* for each plugin its directory, object, manifest, .meta
          enabled,    \* what its .meta says
          cmd,        \* each one's command: its plugin and the step it is at
          loader,     \* a process loading callbacks: what it listed, and
                      \* what failed to load
          runs,
          crashes,
          redone      \* ghost: plugins installed while installed, worked on
                      \* by two commands at a time, left with a .meta that
                      \* could not be removed or removed with a plugin above
                      \* them ("spoilt"), and plugins changed since the
                      \* loader listed them ("listed")

vars == <<disk, enabled, cmd, loader, runs, crashes, redone>>

NoFiles == [dir |-> FALSE, object |-> "none", manifest |-> "none", meta |-> "none"]
NoCommand == [op |-> "none", plugin |-> "none", at |-> "end"]
NoLoader == [pc |-> "idle", metas |-> {}, failed |-> {}]

Init ==
    /\ disk = [p \in Plugin |-> NoFiles]
    /\ enabled = [p \in Plugin |-> FALSE]
    /\ cmd = [a \in Admins |-> NoCommand]
    /\ loader = NoLoader
    /\ runs = 0
    /\ crashes = 0
    /\ redone = [spoilt |-> {}, listed |-> {}]

Working(a, p) == cmd[a].at # "end" /\ cmd[a].plugin = p

----------------------------------------------------------------------------

\* Mutant of After: an install writes the .meta file first.
AfterMetaFirst(op, step) ==
    IF op = "install"
    THEN [mkdir |-> "createMeta", createMeta |-> "writeMeta",
          writeMeta |-> "createObject", createObject |-> "writeObject",
          writeObject |-> "createManifest", createManifest |-> "writeManifest",
          writeManifest |-> "runInstall", runInstall |-> "end"][step]
    ELSE [createMeta |-> "writeMeta", writeMeta |-> "end",
          removeMeta |-> "removeDir", removeDir |-> "removeAll"][step]

\* Meta.install: installBinary, installManifest, runInstall, installMeta;
\* Meta.enable and Meta.disable: installMeta; Meta.uninstall: uninstallMeta
\* and removeDir.
After(op, step) ==
    [mkdir |-> "createObject", createObject |-> "writeObject",
     writeObject |-> "createManifest", createManifest |-> "writeManifest",
     writeManifest |-> "runInstall", runInstall |-> "createMeta",
     createMeta |-> "writeMeta", writeMeta |-> "end",
     removeMeta |-> "removeDir", removeDir |-> "removeAll"][step]

FirstStep(op) == IF op = "install" THEN "mkdir"
                 ELSE IF op = "uninstall" THEN "removeMeta" ELSE "createMeta"

\* Uninstall, Enable, Disable.  loadMetaByName: they need a readable .meta, and
\* the last two do nothing when it says so already.
Applies(op, p) ==
    /\ op # "install" => disk[p].meta = "whole"
    /\ op = "enable" => ~enabled[p]
    /\ op = "disable" => enabled[p]

\* A command begins: Install and the three above.
Start(a, op, p) ==
    /\ cmd[a].at = "end"
    /\ runs < MaxCommands
    /\ Applies(op, p)
    /\ runs' = runs + 1
    /\ cmd' = [cmd EXCEPT ![a] = [op |-> op, plugin |-> p, at |-> FirstStep(op)]]
    /\ redone' = [spoilt |-> IF \/ op = "install" /\ disk[p].meta = "whole"
                                \/ \E b \in Admins : Working(b, p)
                             THEN redone.spoilt \cup {p}
                             ELSE redone.spoilt,
                  listed |-> redone.listed \cup {p}]
    /\ UNCHANGED <<disk, enabled, loader, crashes>>

\* The command of a goes on with a step, or ends.
Goto(a, step) ==
    cmd' = [cmd EXCEPT ![a] = IF step = "end" THEN NoCommand
                              ELSE [@ EXCEPT !.at = step]]

\* Step s of a's command: what it does to the files of its plugin.
Does(a, s, file, state) ==
    /\ cmd[a].at = s
    /\ disk' = [disk EXCEPT ![cmd[a].plugin][file] = state]
    /\ Goto(a, After(cmd[a].op, s))

\* install: the directory.
Mkdir(a) ==
    /\ Does(a, "mkdir", "dir", TRUE)
    /\ UNCHANGED <<enabled, loader, runs, crashes, redone>>

\* installBinary, installManifest: the file is created or truncated, in a
\* directory that is still there, and then written.
Create(a) ==
    /\ \/ Does(a, "createObject", "object", "part")
       \/ Does(a, "createManifest", "manifest", "part")
    /\ disk[cmd[a].plugin].dir
    /\ UNCHANGED <<enabled, loader, runs, crashes, redone>>

Write(a) ==
    /\ \/ /\ Does(a, "writeObject", "object", "whole")
          /\ disk[cmd[a].plugin].object # "none"
       \/ /\ Does(a, "writeManifest", "manifest", "whole")
          /\ disk[cmd[a].plugin].manifest # "none"
    /\ UNCHANGED <<enabled, loader, runs, crashes, redone>>

\* A write to a file that another command removed goes nowhere.
WriteLost(a) ==
    /\ \/ cmd[a].at = "writeObject" /\ disk[cmd[a].plugin].object = "none"
       \/ cmd[a].at = "writeManifest" /\ disk[cmd[a].plugin].manifest = "none"
    /\ Goto(a, After(cmd[a].op, cmd[a].at))
    /\ UNCHANGED <<disk, enabled, loader, runs, crashes, redone>>

\* runInstall: the object is loaded and its Install function run.
RunInstall(a) ==
    /\ cmd[a].at = "runInstall"
    /\ disk[cmd[a].plugin].object = "whole"
    /\ Goto(a, After(cmd[a].op, "runInstall"))
    /\ UNCHANGED <<disk, enabled, loader, runs, crashes, redone>>

\* installMeta.  The file may be removed by another command before it is
\* written, and the write then changes nothing, as a failure does.
CreateMeta(a) ==
    /\ Does(a, "createMeta", "meta", "part")
    /\ UNCHANGED <<enabled, loader, runs, crashes, redone>>

WriteMeta(a) ==
    /\ Does(a, "writeMeta", "meta", "whole")
    /\ disk[cmd[a].plugin].meta # "none"
    /\ enabled' = [enabled EXCEPT ![cmd[a].plugin] = cmd[a].op # "disable"]
    /\ UNCHANGED <<loader, runs, crashes, redone>>

\* A step fails and ends the command, except the first of an uninstall.
Fails(a) ==
    /\ cmd[a].at \notin {"removeMeta", "end"}
    /\ Goto(a, "end")
    /\ UNCHANGED <<disk, enabled, loader, runs, crashes, redone>>

\* uninstallMeta: an uninstall goes on when there is no .meta any more, and
\* when it cannot be removed: "we cannot fail out on error".
UninstallMeta(a) ==
    /\ Does(a, "removeMeta", "meta", "none")
    /\ UNCHANGED <<enabled, loader, runs, crashes, redone>>

UninstallMetaFails(a) ==
    /\ cmd[a].at = "removeMeta"
    /\ redone' = [redone EXCEPT !.spoilt = @ \cup {cmd[a].plugin}]
    /\ Goto(a, After(cmd[a].op, "removeMeta"))
    /\ UNCHANGED <<disk, enabled, loader, runs, crashes>>

\* removeDir leaves a directory that lacks one of the files ...
RemoveDir(a) ==
    LET d == disk[cmd[a].plugin]
    IN  /\ cmd[a].at = "removeDir"
        /\ Goto(a, IF "none" \in {d.object, d.manifest} THEN "end"
                   ELSE After(cmd[a].op, "removeDir"))
        /\ UNCHANGED <<disk, enabled, loader, runs, crashes, redone>>

\* ... and RemoveAll takes the files one by one and then the directory, with
\* the directories of other plugins that lie in it ...
RemoveAll(a) ==
    LET p == cmd[a].plugin
        d == disk[p]
    IN  /\ cmd[a].at = "removeAll"
        /\ \/ /\ \E file \in {"object", "manifest"} :
                    d[file] # "none" /\ disk' = [disk EXCEPT ![p][file] = "none"]
              /\ UNCHANGED cmd
           \/ /\ d.object = "none" /\ d.manifest = "none"
              /\ \A q \in Plugin : <<p, q>> \in Below => ~disk[q].dir
              /\ disk' = [disk EXCEPT ![p].dir = FALSE]
              /\ Goto(a, "end")
        /\ UNCHANGED <<enabled, loader, runs, crashes, redone>>

\* ... whose .meta files stay.
RemoveBelow(a) ==
    /\ cmd[a].at = "removeAll"
    /\ \E q \in Plugin :
          /\ <<cmd[a].plugin, q>> \in Below
          /\ \/ \E file \in {"object", "manifest"} :
                   disk[q][file] # "none" /\ disk' = [disk EXCEPT ![q][file] = "none"]
             \/ /\ disk[q].object = "none" /\ disk[q].manifest = "none" /\ disk[q].dir
                /\ disk' = [disk EXCEPT ![q].dir = FALSE]
          /\ redone' = [redone EXCEPT !.spoilt = @ \cup {q}]
    /\ UNCHANGED <<enabled, cmd, loader, runs, crashes>>

Crash(a) ==
    /\ cmd[a].at # "end"
    /\ crashes < MaxCrashes
    /\ crashes' = crashes + 1
    /\ Goto(a, "end")
    /\ UNCHANGED <<disk, enabled, loader, runs, redone>>

----------------------------------------------------------------------------

\* initMetaPlugin and List: the readable .meta files; a file that cannot be
\* read is skipped.
List ==
    /\ loader.pc = "idle"
    /\ loader' = [pc |-> "load", failed |-> {},
                  metas |-> {p \in Plugin : disk[p].meta = "whole"
                                            /\ enabled[p]}]
    /\ redone' = [redone EXCEPT !.listed =
                    {p \in Plugin : \E a \in Admins : Working(a, p)}]
    /\ UNCHANGED <<disk, enabled, cmd, runs, crashes>>

\* LoadCallbacks: the objects of the enabled plugins are loaded one by one,
\* and one that cannot be loaded fails the command that asked.
LoadCallbacks ==
    /\ loader.pc = "load"
    /\ IF loader.metas = {} THEN loader' = [NoLoader EXCEPT
                                              !.failed = loader.failed]
       ELSE \E p \in loader.metas :
              loader' = [loader EXCEPT
                           !.metas = @ \ {p},
                           !.failed = IF disk[p].object = "whole" THEN @
                                      ELSE @ \cup {p}]
    /\ UNCHANGED <<disk, enabled, cmd, runs, crashes, redone>>

Step(a) ==
    \/ Mkdir(a) \/ Create(a) \/ Write(a) \/ WriteLost(a) \/ RunInstall(a)
    \/ CreateMeta(a) \/ WriteMeta(a) \/ Fails(a)
    \/ UninstallMeta(a) \/ UninstallMetaFails(a)
    \/ RemoveDir(a) \/ RemoveAll(a) \/ RemoveBelow(a) \/ Crash(a)

Next ==
    \/ \E a \in Admins, p \in Plugin,
          op \in {"install", "uninstall", "enable", "disable"} : Start(a, op, p)
    \/ \E a \in Admins : Step(a)
    \/ List
    \/ LoadCallbacks

Spec == Init /\ [][Next]_vars

----------------------------------------------------------------------------

\* A plugin that is listed can be loaded: wherever an install or an uninstall
\* fails or is killed, and whatever is done to other plugins meanwhile, a
\* process that lists the plugins afterwards loads the objects of all the
\* enabled ones ("remove meta file first and only after we remove plugin
\* directory"; an install writes the object before the meta file).  A plugin
\* that was installed over itself, that two commands worked on, whose meta file
\* could not be removed, or that changed while it was loaded, is exempt, and so
\* is one whose directory lay in that of a plugin that was uninstalled: RemoveAll
\* takes it too, and its .meta stays.
ListedLoads ==
    loader.failed \subseteq redone.spoilt \cup redone.listed
=============================================================================
