--------------------------- MODULE PluginsProofs ----------------------------
(***************************************************************************)
(* Proof that a plugin that is listed can be loaded, for any plugins, any  *)
(* number of commands at the same time, and any failures and kills.        *)
(*                                                                         *)
(* The invariant follows one plugin: as long as it is worked on by one     *)
(* command at a time, the step that command is at says what the object and *)
(* the .meta file are.                                                     *)
(*                                                                         *)
(* Then two other sequences of steps that may fail or meet in any order,   *)
(* over variables of their own: the end of a container's process 1         *)
(* (appinit), and the mounts of an OCI bundle.                             *)
(***************************************************************************)
EXTENDS Plugins, Sequences, TLAPS

File == {"none", "part", "whole"}
Files == [dir : BOOLEAN, object : File, manifest : File, meta : File]

Redone == [spoilt : SUBSET Plugin, listed : SUBSET Plugin]

\* The steps of an install up to its object, those after it, which enable and disable
\* share, and those of an uninstall.
Early == {"mkdir", "createObject", "writeObject"}
Late == {"createManifest", "writeManifest", "runInstall", "createMeta", "writeMeta"}
Removing == {"removeDir", "removeAll"}
Steps == Early \cup Late \cup Removing \cup {"removeMeta"}

Command == [op : {"none", "install", "uninstall", "enable", "disable"},
            plugin : Plugin \cup {"none"}, at : Steps \cup {"end"}]

TypeOK ==
    /\ disk \in [Plugin -> Files]
    /\ loader \in [pc : {"idle", "load"}, metas : SUBSET Plugin, failed : SUBSET Plugin]
    /\ redone \in Redone
    /\ cmd \in [Admins -> Command]

\* A command works on a plugin, that the loader knows to have changed.
AtWork ==
    \A a \in Admins :
        cmd[a].at # "end" => cmd[a].plugin \in Plugin /\ cmd[a].plugin \in redone.listed

\* What the step of the one command that works on a plugin says of its files.
StepSays(a, p) ==
    /\ cmd[a].at \in Early => disk[p].meta # "whole"
    /\ cmd[a].at = "writeObject" => disk[p].object # "none"
    /\ cmd[a].at \in Late => disk[p].object = "whole"
    /\ cmd[a].at \in Removing => disk[p].meta = "none"

\* What holds of a plugin that is not spoilt.
Sound(p) ==
    /\ disk[p].meta = "whole" => disk[p].object = "whole"
    /\ \A a \in Admins : Working(a, p) => StepSays(a, p)
    /\ \A a, b \in Admins : Working(a, p) /\ Working(b, p) => a = b

\* What was listed can be loaded, or is exempt.
Loads ==
    \A p \in loader.metas :
        disk[p].object = "whole" \/ p \in redone.spoilt \cup redone.listed

\* The inductive invariant.
IInv ==
    /\ TypeOK
    /\ AtWork
    /\ \A p \in Plugin \ redone.spoilt : Sound(p)
    /\ Loads
    /\ ListedLoads

-----------------------------------------------------------------------------
\* There is nothing installed at first.
LEMMA InitIInv == Init => IInv
<1>1. SUFFICES ASSUME Init
               PROVE  IInv
  OBVIOUS
<1>2. NoCommand \in Command /\ NoCommand.at = "end"
  BY DEF NoCommand, Command
<1>3. NoFiles \in Files /\ NoFiles.meta = "none"
  BY DEF NoFiles, Files, File
<1>4. TypeOK /\ loader.metas = {} /\ loader.failed = {}
  BY <1>1, <1>2, <1>3 DEF Init, TypeOK, NoLoader, Redone
<1>5. AtWork
  BY <1>1, <1>2 DEF Init, AtWork
<1>6. \A p \in Plugin : Sound(p)
  BY Zenon, <1>1, <1>2, <1>3 DEF Init, Sound, Working
<1>. QED
  BY <1>4, <1>5, <1>6 DEF IInv, Loads, ListedLoads

\* A command starts: the plugin is exempt if another one works on it.
LEMMA StartIInv ==
    ASSUME NEW a \in Admins, NEW p \in Plugin,
           NEW op \in {"install", "uninstall", "enable", "disable"},
           IInv, Start(a, op, p)
    PROVE  IInv'
<1>1. /\ disk' = disk /\ loader' = loader
      /\ cmd' = [cmd EXCEPT ![a] = [op |-> op, plugin |-> p, at |-> FirstStep(op)]]
      /\ redone'.spoilt \subseteq redone.spoilt \cup {p}
      /\ redone.spoilt \subseteq redone'.spoilt
      /\ redone'.listed = redone.listed \cup {p}
      /\ cmd[a].at = "end"
  BY DEF Start
<1>2. FirstStep(op) \in {"mkdir", "removeMeta", "createMeta"}
  BY DEF FirstStep
<1>3. cmd'[a].plugin = p /\ cmd'[a].at = FirstStep(op) /\ cmd'[a] \in Command
  BY <1>1, <1>2 DEF IInv, TypeOK, Command, Steps, Early, Late
<1>4. TypeOK'
  <2>1. cmd' \in [Admins -> Command]
    BY <1>1, <1>3 DEF IInv, TypeOK
  <2>2. redone' \in Redone
    BY DEF Start, IInv, TypeOK, Redone
  <2>. QED
    BY <1>1, <2>1, <2>2 DEF IInv, TypeOK
<1>5. \A b \in Admins \ {a} : cmd'[b] = cmd[b]
  BY <1>1 DEF IInv, TypeOK
<1>6. AtWork'
  BY <1>1, <1>3, <1>5 DEF IInv, AtWork
<1>7. ASSUME NEW q \in Plugin \ redone'.spoilt
      PROVE  Sound(q)'
  <2>1. Sound(q)
    BY <1>1, <1>7 DEF IInv
  <2>2. CASE q # p
    BY <1>1, <1>3, <1>5, <2>1, <2>2 DEF Sound, StepSays, Working
  <2>3. CASE q = p
    <3>1. ~(op = "install" /\ disk[p].meta = "whole") /\ \A b \in Admins : ~Working(b, p)
      BY <2>3 DEF Start, IInv, TypeOK
    <3>2. \A b \in Admins \ {a} : ~Working(b, p)'
      BY <1>5, <3>1 DEF Working
    <3>3. /\ op = "install" => disk[p].meta # "whole"
          /\ op # "install" => disk[p].object = "whole"
      BY <2>1, <2>3, <3>1 DEF Sound, Start, Applies
    <3>4. StepSays(a, p)'
      BY <1>1, <1>3, <3>3 DEF StepSays, FirstStep, Early, Late, Removing
    <3>. QED
      BY <1>1, <2>1, <2>3, <3>2, <3>4 DEF Sound
  <2>. QED
    BY <2>2, <2>3
<1>8. Loads' /\ ListedLoads'
  BY <1>1 DEF IInv, Loads, ListedLoads
<1>. QED
  BY <1>4, <1>6, <1>7, <1>8 DEF IInv

\* Where a command goes.
LEMMA Went ==
    ASSUME NEW a \in Admins, NEW s \in Steps \cup {"end"}, Goto(a, s), TypeOK
    PROVE  /\ cmd' \in [Admins -> Command]
           /\ \A b \in Admins \ {a} : cmd'[b] = cmd[b]
           /\ cmd'[a] = IF s = "end" THEN NoCommand ELSE [cmd[a] EXCEPT !.at = s]
           /\ cmd'[a].at = s
           /\ cmd'[a].at # "end" => cmd'[a].plugin = cmd[a].plugin
<1>1. cmd[a] \in Command /\ NoCommand \in Command /\ NoCommand.at = "end"
  BY DEF TypeOK, Command, NoCommand
<1>2. /\ [cmd[a] EXCEPT !.at = s] \in Command
      /\ [cmd[a] EXCEPT !.at = s].at = s /\ [cmd[a] EXCEPT !.at = s].plugin = cmd[a].plugin
  BY <1>1 DEF Command
<1>3. cmd' = [cmd EXCEPT ![a] = IF s = "end" THEN NoCommand ELSE [cmd[a] EXCEPT !.at = s]]
  BY DEF Goto
<1>. QED
  BY <1>1, <1>2, <1>3 DEF TypeOK

\* What a step of a command leaves alone: the other commands and the other plugins,
\* and everything but the files.
LEMMA Frame ==
    ASSUME NEW a \in Admins, IInv, Step(a)
    PROVE  /\ cmd[a].at # "end" /\ cmd[a].plugin \in Plugin
           /\ \A b \in Admins \ {a} : cmd'[b] = cmd[b]
           /\ \A q \in Plugin \ ({cmd[a].plugin} \cup redone'.spoilt) : disk'[q] = disk[q]
           /\ loader' = loader
           /\ redone' \in Redone /\ redone'.listed = redone.listed
           /\ redone.spoilt \subseteq redone'.spoilt
           /\ disk' \in [Plugin -> Files]
           /\ cmd' \in [Admins -> Command]
           /\ cmd'[a].at # "end" => cmd'[a].plugin = cmd[a].plugin
<1>i. TypeOK /\ AtWork
  BY DEF IInv
<1>1. CASE Mkdir(a)
  <2>1. cmd[a].at # "end" /\ loader' = loader /\ redone' = redone
    BY <1>1 DEF Mkdir, Does
  <2>2. cmd[a].plugin \in Plugin /\ cmd[a] \in Command /\ disk[cmd[a].plugin] \in Files
    BY <2>1, <1>i DEF TypeOK, AtWork
  <2>3. cmd' = cmd \/ \E s \in Steps \cup {"end"} : Goto(a, s)
    BY <1>1 DEF Mkdir, Does, After, Steps, Early, Late, Removing
  <2>4. /\ cmd' \in [Admins -> Command]
        /\ \A b \in Admins \ {a} : cmd'[b] = cmd[b]
        /\ cmd'[a].at # "end" => cmd'[a].plugin = cmd[a].plugin
    <3>1. CASE cmd' = cmd
      BY <1>i, <3>1 DEF TypeOK
    <3>2. CASE \E s \in Steps \cup {"end"} : Goto(a, s)
      BY Zenon, <1>i, <3>2, Went
    <3>. QED
      BY <2>3, <3>1, <3>2
  <2>5. /\ disk' \in [Plugin -> Files]
        /\ \A q \in Plugin \ {cmd[a].plugin} : disk'[q] = disk[q]
    BY Zenon, <1>1, <1>i, <2>2 DEF Mkdir, Does, TypeOK, Files, File
  <2>. QED
    BY <1>i, <2>1, <2>2, <2>4, <2>5 DEF TypeOK
<1>2. CASE Create(a)
  <2>1. cmd[a].at # "end" /\ loader' = loader /\ redone' = redone
    BY <1>2 DEF Create, Does
  <2>2. cmd[a].plugin \in Plugin /\ cmd[a] \in Command /\ disk[cmd[a].plugin] \in Files
    BY <2>1, <1>i DEF TypeOK, AtWork
  <2>3. cmd' = cmd \/ \E s \in Steps \cup {"end"} : Goto(a, s)
    BY <1>2 DEF Create, Does, After, Steps, Early, Late, Removing
  <2>4. /\ cmd' \in [Admins -> Command]
        /\ \A b \in Admins \ {a} : cmd'[b] = cmd[b]
        /\ cmd'[a].at # "end" => cmd'[a].plugin = cmd[a].plugin
    <3>1. CASE cmd' = cmd
      BY <1>i, <3>1 DEF TypeOK
    <3>2. CASE \E s \in Steps \cup {"end"} : Goto(a, s)
      BY Zenon, <1>i, <3>2, Went
    <3>. QED
      BY <2>3, <3>1, <3>2
  <2>5. /\ disk' \in [Plugin -> Files]
        /\ \A q \in Plugin \ {cmd[a].plugin} : disk'[q] = disk[q]
    BY <1>2, <1>i, <2>2 DEF Create, Does, TypeOK, Files, File
  <2>. QED
    BY <1>i, <2>1, <2>2, <2>4, <2>5 DEF TypeOK
<1>3. CASE Write(a)
  <2>1. cmd[a].at # "end" /\ loader' = loader /\ redone' = redone
    BY <1>3 DEF Write, Does
  <2>2. cmd[a].plugin \in Plugin /\ cmd[a] \in Command /\ disk[cmd[a].plugin] \in Files
    BY <2>1, <1>i DEF TypeOK, AtWork
  <2>3. cmd' = cmd \/ \E s \in Steps \cup {"end"} : Goto(a, s)
    BY <1>3 DEF Write, Does, After, Steps, Early, Late, Removing
  <2>4. /\ cmd' \in [Admins -> Command]
        /\ \A b \in Admins \ {a} : cmd'[b] = cmd[b]
        /\ cmd'[a].at # "end" => cmd'[a].plugin = cmd[a].plugin
    <3>1. CASE cmd' = cmd
      BY <1>i, <3>1 DEF TypeOK
    <3>2. CASE \E s \in Steps \cup {"end"} : Goto(a, s)
      BY Zenon, <1>i, <3>2, Went
    <3>. QED
      BY <2>3, <3>1, <3>2
  <2>5. /\ disk' \in [Plugin -> Files]
        /\ \A q \in Plugin \ {cmd[a].plugin} : disk'[q] = disk[q]
    BY <1>3, <1>i, <2>2 DEF Write, Does, TypeOK, Files, File
  <2>. QED
    BY <1>i, <2>1, <2>2, <2>4, <2>5 DEF TypeOK
<1>4. CASE WriteLost(a)
  <2>1. cmd[a].at # "end" /\ loader' = loader /\ redone' = redone
    BY <1>4 DEF WriteLost
  <2>2. cmd[a].plugin \in Plugin /\ cmd[a] \in Command /\ disk[cmd[a].plugin] \in Files
    BY <2>1, <1>i DEF TypeOK, AtWork
  <2>3. cmd' = cmd \/ \E s \in Steps \cup {"end"} : Goto(a, s)
    BY <1>4 DEF WriteLost, After, Steps, Early, Late, Removing
  <2>4. /\ cmd' \in [Admins -> Command]
        /\ \A b \in Admins \ {a} : cmd'[b] = cmd[b]
        /\ cmd'[a].at # "end" => cmd'[a].plugin = cmd[a].plugin
    <3>1. CASE cmd' = cmd
      BY <1>i, <3>1 DEF TypeOK
    <3>2. CASE \E s \in Steps \cup {"end"} : Goto(a, s)
      BY Zenon, <1>i, <3>2, Went
    <3>. QED
      BY <2>3, <3>1, <3>2
  <2>5. /\ disk' \in [Plugin -> Files]
        /\ \A q \in Plugin \ {cmd[a].plugin} : disk'[q] = disk[q]
    BY <1>4, <1>i, <2>2 DEF WriteLost, TypeOK, Files, File
  <2>. QED
    BY <1>i, <2>1, <2>2, <2>4, <2>5 DEF TypeOK
<1>5. CASE RunInstall(a)
  <2>1. cmd[a].at # "end" /\ loader' = loader /\ redone' = redone
    BY <1>5 DEF RunInstall
  <2>2. cmd[a].plugin \in Plugin /\ cmd[a] \in Command /\ disk[cmd[a].plugin] \in Files
    BY <2>1, <1>i DEF TypeOK, AtWork
  <2>3. cmd' = cmd \/ \E s \in Steps \cup {"end"} : Goto(a, s)
    BY <1>5 DEF RunInstall, After, Steps, Early, Late, Removing
  <2>4. /\ cmd' \in [Admins -> Command]
        /\ \A b \in Admins \ {a} : cmd'[b] = cmd[b]
        /\ cmd'[a].at # "end" => cmd'[a].plugin = cmd[a].plugin
    <3>1. CASE cmd' = cmd
      BY <1>i, <3>1 DEF TypeOK
    <3>2. CASE \E s \in Steps \cup {"end"} : Goto(a, s)
      BY Zenon, <1>i, <3>2, Went
    <3>. QED
      BY <2>3, <3>1, <3>2
  <2>5. /\ disk' \in [Plugin -> Files]
        /\ \A q \in Plugin \ {cmd[a].plugin} : disk'[q] = disk[q]
    BY <1>5, <1>i, <2>2 DEF RunInstall, TypeOK, Files, File
  <2>. QED
    BY <1>i, <2>1, <2>2, <2>4, <2>5 DEF TypeOK
<1>6. CASE CreateMeta(a)
  <2>1. cmd[a].at # "end" /\ loader' = loader /\ redone' = redone
    BY <1>6 DEF CreateMeta, Does
  <2>2. cmd[a].plugin \in Plugin /\ cmd[a] \in Command /\ disk[cmd[a].plugin] \in Files
    BY <2>1, <1>i DEF TypeOK, AtWork
  <2>3. cmd' = cmd \/ \E s \in Steps \cup {"end"} : Goto(a, s)
    BY <1>6 DEF CreateMeta, Does, After, Steps, Early, Late, Removing
  <2>4. /\ cmd' \in [Admins -> Command]
        /\ \A b \in Admins \ {a} : cmd'[b] = cmd[b]
        /\ cmd'[a].at # "end" => cmd'[a].plugin = cmd[a].plugin
    <3>1. CASE cmd' = cmd
      BY <1>i, <3>1 DEF TypeOK
    <3>2. CASE \E s \in Steps \cup {"end"} : Goto(a, s)
      BY Zenon, <1>i, <3>2, Went
    <3>. QED
      BY <2>3, <3>1, <3>2
  <2>5. /\ disk' \in [Plugin -> Files]
        /\ \A q \in Plugin \ {cmd[a].plugin} : disk'[q] = disk[q]
    BY <1>6, <1>i, <2>2 DEF CreateMeta, Does, TypeOK, Files, File
  <2>. QED
    BY <1>i, <2>1, <2>2, <2>4, <2>5 DEF TypeOK
<1>7. CASE WriteMeta(a)
  <2>1. cmd[a].at # "end" /\ loader' = loader /\ redone' = redone
    BY <1>7 DEF WriteMeta, Does
  <2>2. cmd[a].plugin \in Plugin /\ cmd[a] \in Command /\ disk[cmd[a].plugin] \in Files
    BY <2>1, <1>i DEF TypeOK, AtWork
  <2>3. cmd' = cmd \/ \E s \in Steps \cup {"end"} : Goto(a, s)
    BY <1>7 DEF WriteMeta, Does, After, Steps, Early, Late, Removing
  <2>4. /\ cmd' \in [Admins -> Command]
        /\ \A b \in Admins \ {a} : cmd'[b] = cmd[b]
        /\ cmd'[a].at # "end" => cmd'[a].plugin = cmd[a].plugin
    <3>1. CASE cmd' = cmd
      BY <1>i, <3>1 DEF TypeOK
    <3>2. CASE \E s \in Steps \cup {"end"} : Goto(a, s)
      BY Zenon, <1>i, <3>2, Went
    <3>. QED
      BY <2>3, <3>1, <3>2
  <2>5. /\ disk' \in [Plugin -> Files]
        /\ \A q \in Plugin \ {cmd[a].plugin} : disk'[q] = disk[q]
    BY <1>7, <1>i, <2>2 DEF WriteMeta, Does, TypeOK, Files, File
  <2>. QED
    BY <1>i, <2>1, <2>2, <2>4, <2>5 DEF TypeOK
<1>8. CASE Fails(a)
  <2>1. cmd[a].at # "end" /\ loader' = loader /\ redone' = redone
    BY <1>8 DEF Fails
  <2>2. cmd[a].plugin \in Plugin /\ cmd[a] \in Command /\ disk[cmd[a].plugin] \in Files
    BY <2>1, <1>i DEF TypeOK, AtWork
  <2>3. cmd' = cmd \/ \E s \in Steps \cup {"end"} : Goto(a, s)
    BY <1>8 DEF Fails, Steps, Early, Late, Removing
  <2>4. /\ cmd' \in [Admins -> Command]
        /\ \A b \in Admins \ {a} : cmd'[b] = cmd[b]
        /\ cmd'[a].at # "end" => cmd'[a].plugin = cmd[a].plugin
    <3>1. CASE cmd' = cmd
      BY <1>i, <3>1 DEF TypeOK
    <3>2. CASE \E s \in Steps \cup {"end"} : Goto(a, s)
      BY Zenon, <1>i, <3>2, Went
    <3>. QED
      BY <2>3, <3>1, <3>2
  <2>5. /\ disk' \in [Plugin -> Files]
        /\ \A q \in Plugin \ {cmd[a].plugin} : disk'[q] = disk[q]
    BY <1>8, <1>i, <2>2 DEF Fails, TypeOK, Files, File
  <2>. QED
    BY <1>i, <2>1, <2>2, <2>4, <2>5 DEF TypeOK
<1>9. CASE UninstallMeta(a)
  <2>1. cmd[a].at # "end" /\ loader' = loader /\ redone' = redone
    BY <1>9 DEF UninstallMeta, Does
  <2>2. cmd[a].plugin \in Plugin /\ cmd[a] \in Command /\ disk[cmd[a].plugin] \in Files
    BY <2>1, <1>i DEF TypeOK, AtWork
  <2>3. cmd' = cmd \/ \E s \in Steps \cup {"end"} : Goto(a, s)
    BY <1>9 DEF UninstallMeta, Does, After, Steps, Early, Late, Removing
  <2>4. /\ cmd' \in [Admins -> Command]
        /\ \A b \in Admins \ {a} : cmd'[b] = cmd[b]
        /\ cmd'[a].at # "end" => cmd'[a].plugin = cmd[a].plugin
    <3>1. CASE cmd' = cmd
      BY <1>i, <3>1 DEF TypeOK
    <3>2. CASE \E s \in Steps \cup {"end"} : Goto(a, s)
      BY Zenon, <1>i, <3>2, Went
    <3>. QED
      BY <2>3, <3>1, <3>2
  <2>5. /\ disk' \in [Plugin -> Files]
        /\ \A q \in Plugin \ {cmd[a].plugin} : disk'[q] = disk[q]
    BY <1>9, <1>i, <2>2 DEF UninstallMeta, Does, TypeOK, Files, File
  <2>. QED
    BY <1>i, <2>1, <2>2, <2>4, <2>5 DEF TypeOK
<1>10. CASE UninstallMetaFails(a)
  <2>1. cmd[a].at # "end" /\ loader' = loader /\ disk' = disk
    BY <1>10 DEF UninstallMetaFails
  <2>2. cmd[a].plugin \in Plugin /\ cmd[a] \in Command
    BY <2>1, <1>i DEF TypeOK, AtWork
  <2>3. Goto(a, "removeDir")
    BY <1>10 DEF UninstallMetaFails, After
  <2>4. /\ cmd' \in [Admins -> Command]
        /\ \A b \in Admins \ {a} : cmd'[b] = cmd[b]
        /\ cmd'[a].at # "end" => cmd'[a].plugin = cmd[a].plugin
    BY Zenon, <1>i, <2>3, Went DEF Steps, Removing
  <2>5. /\ redone' \in Redone /\ redone'.listed = redone.listed
        /\ redone.spoilt \subseteq redone'.spoilt
    BY <1>10, <1>i, <2>2 DEF UninstallMetaFails, TypeOK, Redone
  <2>. QED
    BY <1>i, <2>1, <2>2, <2>4, <2>5 DEF TypeOK
<1>11. CASE RemoveDir(a)
  <2>1. cmd[a].at # "end" /\ loader' = loader /\ redone' = redone
    BY <1>11 DEF RemoveDir
  <2>2. cmd[a].plugin \in Plugin /\ cmd[a] \in Command /\ disk[cmd[a].plugin] \in Files
    BY <2>1, <1>i DEF TypeOK, AtWork
  <2>3. cmd' = cmd \/ \E s \in Steps \cup {"end"} : Goto(a, s)
    BY <1>11 DEF RemoveDir, After, Steps, Early, Late, Removing
  <2>4. /\ cmd' \in [Admins -> Command]
        /\ \A b \in Admins \ {a} : cmd'[b] = cmd[b]
        /\ cmd'[a].at # "end" => cmd'[a].plugin = cmd[a].plugin
    <3>1. CASE cmd' = cmd
      BY <1>i, <3>1 DEF TypeOK
    <3>2. CASE \E s \in Steps \cup {"end"} : Goto(a, s)
      BY Zenon, <1>i, <3>2, Went
    <3>. QED
      BY <2>3, <3>1, <3>2
  <2>5. /\ disk' \in [Plugin -> Files]
        /\ \A q \in Plugin \ {cmd[a].plugin} : disk'[q] = disk[q]
    BY <1>11, <1>i, <2>2 DEF RemoveDir, TypeOK, Files, File
  <2>. QED
    BY <1>i, <2>1, <2>2, <2>4, <2>5 DEF TypeOK
<1>12. CASE RemoveAll(a)
  <2>1. cmd[a].at # "end" /\ loader' = loader /\ redone' = redone
    BY <1>12 DEF RemoveAll
  <2>2. cmd[a].plugin \in Plugin /\ cmd[a] \in Command /\ disk[cmd[a].plugin] \in Files
    BY <2>1, <1>i DEF TypeOK, AtWork
  <2>3. cmd' = cmd \/ \E s \in Steps \cup {"end"} : Goto(a, s)
    BY <1>12 DEF RemoveAll, Steps, Early, Late, Removing
  <2>4. /\ cmd' \in [Admins -> Command]
        /\ \A b \in Admins \ {a} : cmd'[b] = cmd[b]
        /\ cmd'[a].at # "end" => cmd'[a].plugin = cmd[a].plugin
    <3>1. CASE cmd' = cmd
      BY <1>i, <3>1 DEF TypeOK
    <3>2. CASE \E s \in Steps \cup {"end"} : Goto(a, s)
      BY Zenon, <1>i, <3>2, Went
    <3>. QED
      BY <2>3, <3>1, <3>2
  <2>5. /\ disk' \in [Plugin -> Files]
        /\ \A q \in Plugin \ {cmd[a].plugin} : disk'[q] = disk[q]
    <3>1. \/ disk' = [disk EXCEPT ![cmd[a].plugin]["object"] = "none"]
          \/ disk' = [disk EXCEPT ![cmd[a].plugin]["manifest"] = "none"]
          \/ disk' = [disk EXCEPT ![cmd[a].plugin].dir = FALSE]
      BY <1>12 DEF RemoveAll
    <3>2. CASE disk' = [disk EXCEPT ![cmd[a].plugin]["object"] = "none"]
      BY <1>i, <2>2, <3>2 DEF TypeOK, Files, File
    <3>3. CASE disk' = [disk EXCEPT ![cmd[a].plugin]["manifest"] = "none"]
      BY <1>i, <2>2, <3>3 DEF TypeOK, Files, File
    <3>4. CASE disk' = [disk EXCEPT ![cmd[a].plugin].dir = FALSE]
      BY Zenon, <1>i, <2>2, <3>4 DEF TypeOK, Files, File
    <3>. QED
      BY <3>1, <3>2, <3>3, <3>4
  <2>. QED
    BY <1>i, <2>1, <2>2, <2>4, <2>5 DEF TypeOK
<1>13. CASE RemoveBelow(a)
  <2>1. cmd[a].at # "end" /\ loader' = loader /\ cmd' = cmd
    BY <1>13 DEF RemoveBelow
  <2>2. cmd[a].plugin \in Plugin
    BY <2>1, <1>i DEF TypeOK, AtWork
  <2>3. PICK q \in Plugin :
          /\ redone' = [redone EXCEPT !.spoilt = @ \cup {q}]
          /\ \/ disk' = [disk EXCEPT ![q]["object"] = "none"]
             \/ disk' = [disk EXCEPT ![q]["manifest"] = "none"]
             \/ disk' = [disk EXCEPT ![q].dir = FALSE]
    BY Zenon, <1>13 DEF RemoveBelow
  <2>4. /\ redone' \in Redone /\ redone'.listed = redone.listed
        /\ redone'.spoilt = redone.spoilt \cup {q}
    BY <1>i, <2>3 DEF TypeOK, Redone
  <2>5. disk[q] \in Files
    BY <1>i DEF TypeOK
  <2>6. disk' \in [Plugin -> Files] /\ \A r \in Plugin \ {q} : disk'[r] = disk[r]
    <3>1. CASE disk' = [disk EXCEPT ![q]["object"] = "none"]
      BY <1>i, <2>5, <3>1 DEF TypeOK, Files, File
    <3>2. CASE disk' = [disk EXCEPT ![q]["manifest"] = "none"]
      BY <1>i, <2>5, <3>2 DEF TypeOK, Files, File
    <3>3. CASE disk' = [disk EXCEPT ![q].dir = FALSE]
      BY Zenon, <1>i, <2>5, <3>3 DEF TypeOK, Files, File
    <3>. QED
      BY Zenon, <2>3, <3>1, <3>2, <3>3
  <2>. QED
    BY <1>i, <2>1, <2>2, <2>4, <2>6 DEF TypeOK
<1>14. CASE Crash(a)
  <2>1. cmd[a].at # "end" /\ loader' = loader /\ redone' = redone
    BY <1>14 DEF Crash
  <2>2. cmd[a].plugin \in Plugin /\ cmd[a] \in Command /\ disk[cmd[a].plugin] \in Files
    BY <2>1, <1>i DEF TypeOK, AtWork
  <2>3. cmd' = cmd \/ \E s \in Steps \cup {"end"} : Goto(a, s)
    BY <1>14 DEF Crash, Steps, Early, Late, Removing
  <2>4. /\ cmd' \in [Admins -> Command]
        /\ \A b \in Admins \ {a} : cmd'[b] = cmd[b]
        /\ cmd'[a].at # "end" => cmd'[a].plugin = cmd[a].plugin
    <3>1. CASE cmd' = cmd
      BY <1>i, <3>1 DEF TypeOK
    <3>2. CASE \E s \in Steps \cup {"end"} : Goto(a, s)
      BY Zenon, <1>i, <3>2, Went
    <3>. QED
      BY <2>3, <3>1, <3>2
  <2>5. /\ disk' \in [Plugin -> Files]
        /\ \A q \in Plugin \ {cmd[a].plugin} : disk'[q] = disk[q]
    BY <1>14, <1>i, <2>2 DEF Crash, TypeOK, Files, File
  <2>. QED
    BY <1>i, <2>1, <2>2, <2>4, <2>5 DEF TypeOK
<1>. QED
  BY <1>i, <1>1, <1>2, <1>3, <1>4, <1>5, <1>6, <1>7, <1>8, <1>9, <1>10, <1>11, <1>12, <1>13,
     <1>14
  DEF Step, TypeOK

\* What a step of the one command on a plugin makes of it.
LEMMA StepSound ==
    ASSUME NEW a \in Admins, IInv, Step(a),
           NEW p \in Plugin \ redone'.spoilt, p = cmd[a].plugin
    PROVE  /\ disk'[p].meta = "whole" => disk'[p].object = "whole"
           /\ cmd'[a].at # "end" => StepSays(a, p)'
<1>i. TypeOK /\ AtWork /\ Sound(p)
  BY Frame DEF IInv
<1>t. /\ disk \in [Plugin -> Files] /\ cmd \in [Admins -> Command]
      /\ disk[p] \in Files /\ cmd[a] \in Command
  BY <1>i DEF TypeOK
<1>s. /\ cmd[a].at # "end"
      /\ disk[p].meta = "whole" => disk[p].object = "whole"
      /\ StepSays(a, p)
  BY <1>i, Frame DEF Sound, Working
<1>w. \A s \in Steps \cup {"end"} : Goto(a, s) => cmd'[a].at = s
  BY Zenon, <1>i, Went
<1>1. CASE Mkdir(a)
  <2>1. disk'[p].meta = disk[p].meta /\ disk'[p].object = disk[p].object
    BY <1>1, <1>t DEF Mkdir, Does, Files
  <2>2. cmd[a].at = "mkdir" /\ cmd'[a].at = "createObject"
    BY <1>1, <1>w DEF Mkdir, Does, After, Steps, Early, Late, Removing
  <2>. QED
    BY <1>s, <2>1, <2>2 DEF StepSays, Early, Late, Removing
<1>2. CASE Create(a)
  <2>1. CASE Does(a, "createObject", "object", "part")
    <3>1. disk'[p].meta = disk[p].meta /\ disk'[p].object = "part"
      BY <2>1, <1>t DEF Does, Files
    <3>2. cmd[a].at = "createObject" /\ cmd'[a].at = "writeObject"
      BY <2>1, <1>w DEF Does, After, Steps, Early, Late
    <3>. QED
      BY <1>s, <3>1, <3>2 DEF StepSays, Early, Late, Removing
  <2>2. CASE Does(a, "createManifest", "manifest", "part")
    <3>1. disk'[p].meta = disk[p].meta /\ disk'[p].object = disk[p].object
      BY <2>2, <1>t DEF Does, Files
    <3>2. cmd[a].at = "createManifest" /\ cmd'[a].at = "writeManifest"
      BY <2>2, <1>w DEF Does, After, Steps, Early, Late
    <3>. QED
      BY <1>s, <3>1, <3>2 DEF StepSays, Early, Late, Removing
  <2>. QED
    BY <1>2, <2>1, <2>2 DEF Create
<1>3. CASE Write(a)
  <2>1. CASE Does(a, "writeObject", "object", "whole")
    <3>1. disk'[p].meta = disk[p].meta /\ disk'[p].object = "whole"
      BY <2>1, <1>t DEF Does, Files
    <3>2. cmd[a].at = "writeObject" /\ cmd'[a].at = "createManifest"
      BY <2>1, <1>w DEF Does, After, Steps, Early, Late
    <3>. QED
      BY <1>s, <3>1, <3>2 DEF StepSays, Early, Late, Removing
  <2>2. CASE Does(a, "writeManifest", "manifest", "whole")
    <3>1. disk'[p].meta = disk[p].meta /\ disk'[p].object = disk[p].object
      BY <2>2, <1>t DEF Does, Files
    <3>2. cmd[a].at = "writeManifest" /\ cmd'[a].at = "runInstall"
      BY <2>2, <1>w DEF Does, After, Steps, Early, Late
    <3>. QED
      BY <1>s, <3>1, <3>2 DEF StepSays, Early, Late, Removing
  <2>. QED
    BY <1>3, <2>1, <2>2 DEF Write
<1>4. CASE WriteLost(a)
  <2>1. disk'[p] = disk[p]
    BY <1>4, <1>t DEF WriteLost, Files
  <2>2. cmd[a].at = "writeManifest" /\ cmd'[a].at = "runInstall"
    BY <1>4, <1>w, <1>s DEF WriteLost, After, Steps, Early, Late, Removing, StepSays
  <2>. QED
    BY <1>s, <2>1, <2>2 DEF StepSays, Early, Late, Removing
<1>5. CASE RunInstall(a)
  <2>1. disk'[p] = disk[p]
    BY <1>5, <1>t DEF RunInstall, Files
  <2>2. cmd[a].at = "runInstall" /\ cmd'[a].at = "createMeta"
    BY <1>5, <1>w DEF RunInstall, After, Steps, Early, Late, Removing
  <2>. QED
    BY <1>s, <2>1, <2>2 DEF StepSays, Early, Late, Removing
<1>6. CASE CreateMeta(a)
  <2>1. disk'[p].meta = "part" /\ disk'[p].object = disk[p].object
    BY <1>6, <1>t DEF CreateMeta, Does, Files
  <2>2. cmd[a].at = "createMeta" /\ cmd'[a].at = "writeMeta"
    BY <1>6, <1>w DEF CreateMeta, Does, After, Steps, Early, Late, Removing
  <2>. QED
    BY <1>s, <2>1, <2>2 DEF StepSays, Early, Late, Removing
<1>7. CASE WriteMeta(a)
  <2>1. disk'[p].meta = "whole" /\ disk'[p].object = disk[p].object
    BY <1>7, <1>t DEF WriteMeta, Does, Files
  <2>2. cmd[a].at = "writeMeta" /\ cmd'[a].at = "end"
    BY <1>7, <1>w DEF WriteMeta, Does, After, Steps, Early, Late, Removing
  <2>. QED
    BY <1>s, <2>1, <2>2 DEF StepSays, Early, Late, Removing
<1>8. CASE Fails(a)
  <2>1. disk'[p] = disk[p]
    BY <1>8, <1>t DEF Fails, Files
  <2>2. cmd'[a].at = "end"
    BY <1>8, <1>w DEF Fails, Steps, Early, Late, Removing
  <2>. QED
    BY <1>s, <2>1, <2>2 DEF StepSays, Early, Late, Removing
<1>9. CASE UninstallMeta(a)
  <2>1. disk'[p].meta = "none" /\ disk'[p].object = disk[p].object
    BY <1>9, <1>t DEF UninstallMeta, Does, Files
  <2>2. cmd[a].at = "removeMeta" /\ cmd'[a].at = "removeDir"
    BY <1>9, <1>w DEF UninstallMeta, Does, After, Steps, Early, Late, Removing
  <2>. QED
    BY <1>s, <2>1, <2>2 DEF StepSays, Early, Late, Removing
<1>10. CASE UninstallMetaFails(a)
  BY <1>10, <1>i DEF UninstallMetaFails, TypeOK, Redone
<1>11. CASE RemoveDir(a)
  <2>1. disk'[p] = disk[p]
    BY <1>11, <1>t DEF RemoveDir, Files
  <2>2. cmd[a].at = "removeDir" /\ cmd'[a].at \in {"removeAll", "end"}
    BY <1>11, <1>w DEF RemoveDir, After, Steps, Early, Late, Removing
  <2>. QED
    BY <1>s, <2>1, <2>2 DEF StepSays, Early, Late, Removing
<1>12. CASE RemoveAll(a)
  <2>1. disk'[p].meta = disk[p].meta
    BY <1>12, <1>t DEF RemoveAll, Files
  <2>2. cmd[a].at = "removeAll" /\ cmd'[a].at \in {"removeAll", "end"}
    BY <1>12, <1>w DEF RemoveAll
  <2>. QED
    BY <1>s, <2>1, <2>2 DEF StepSays, Early, Late, Removing
<1>13. CASE RemoveBelow(a)
  <2>1. PICK q \in Plugin :
          /\ redone' = [redone EXCEPT !.spoilt = @ \cup {q}]
          /\ \/ disk' = [disk EXCEPT ![q]["object"] = "none"]
             \/ disk' = [disk EXCEPT ![q]["manifest"] = "none"]
             \/ disk' = [disk EXCEPT ![q].dir = FALSE]
    BY Zenon, <1>13 DEF RemoveBelow
  <2>2. p # q
    BY <1>i, <2>1 DEF TypeOK, Redone
  <2>3. disk'[p] = disk[p]
    BY <1>t, <2>1, <2>2
  <2>4. cmd'[a] = cmd[a]
    BY <1>13 DEF RemoveBelow
  <2>. QED
    BY <1>s, <2>3, <2>4 DEF StepSays
<1>14. CASE Crash(a)
  <2>1. disk'[p] = disk[p]
    BY <1>14, <1>t DEF Crash, Files
  <2>2. cmd'[a].at = "end"
    BY <1>14, <1>w DEF Crash, Steps, Early, Late, Removing
  <2>. QED
    BY <1>s, <2>1, <2>2 DEF StepSays, Early, Late, Removing
<1>. QED
  BY <1>1, <1>2, <1>3, <1>4, <1>5, <1>6, <1>7, <1>8, <1>9, <1>10, <1>11, <1>12, <1>13, <1>14
  DEF Step

\* A command takes a step: nothing changes but the files of its plugin, which is one
\* that changed since the loader listed it, and of plugins that it spoils.
LEMMA StepIInv ==
    ASSUME NEW a \in Admins, IInv, Step(a)
    PROVE  IInv'
<1>1. PICK p : p = cmd[a].plugin
  OBVIOUS
<1>2. /\ cmd[a].at # "end" /\ p \in Plugin
      /\ \A b \in Admins \ {a} : cmd'[b] = cmd[b]
      /\ \A q \in Plugin \ ({p} \cup redone'.spoilt) : disk'[q] = disk[q]
      /\ loader' = loader
      /\ redone' \in Redone /\ redone'.listed = redone.listed
      /\ redone.spoilt \subseteq redone'.spoilt
      /\ disk' \in [Plugin -> Files] /\ cmd' \in [Admins -> Command]
      /\ cmd'[a].at # "end" => cmd'[a].plugin = p
  BY <1>1, Frame
<1>3. TypeOK'
  BY <1>2 DEF IInv, TypeOK
<1>4. p \in redone.listed
  BY <1>1, <1>2 DEF IInv, AtWork
<1>5. AtWork'
  BY <1>2, <1>4 DEF IInv, AtWork
<1>6. ASSUME NEW q \in Plugin \ redone'.spoilt
      PROVE  Sound(q)'
  <2>1. Sound(q)
    BY <1>2, <1>6 DEF IInv
  <2>2. CASE q # p
    <3>1. \A b \in Admins : Working(b, q)' => Working(b, q) /\ cmd'[b].at = cmd[b].at
      BY <1>2, <2>2 DEF Working
    <3>. QED
      BY <1>2, <2>1, <2>2, <3>1 DEF Sound, StepSays
  <2>3. CASE q = p
    <3>1. \A b \in Admins \ {a} : ~Working(b, q)
      BY <1>1, <1>2, <2>1, <2>3 DEF Sound, Working
    <3>2. \A b \in Admins \ {a} : ~Working(b, q)'
      BY <1>2, <3>1 DEF Working
    <3>3. /\ disk'[q].meta = "whole" => disk'[q].object = "whole"
          /\ cmd'[a].at # "end" => StepSays(a, q)'
      BY <1>1, <1>2, <1>6, <2>3, StepSound
    <3>. QED
      BY <3>2, <3>3 DEF Sound, Working
  <2>. QED
    BY <2>2, <2>3
<1>7. Loads'
  BY <1>2, <1>4 DEF IInv, Loads, TypeOK
<1>8. ListedLoads'
  BY <1>2 DEF IInv, ListedLoads
<1>. QED
  BY <1>3, <1>5, <1>6, <1>7, <1>8 DEF IInv

\* A process lists the plugins: those that are there can be loaded, unless a command is
\* working on them.
LEMMA ListIInv == ASSUME IInv, List PROVE IInv'
<1>1. disk' = disk /\ cmd' = cmd
  BY DEF List
<1>2. /\ loader'.metas \subseteq {p \in Plugin : disk[p].meta = "whole"}
      /\ loader'.failed = {}
      /\ redone'.spoilt = redone.spoilt
      /\ redone'.listed = {p \in Plugin : \E a \in Admins : Working(a, p)}
  BY DEF List, IInv, TypeOK
<1>3. TypeOK'
  BY <1>1 DEF List, IInv, TypeOK, Redone
<1>4. AtWork'
  BY <1>1, <1>2 DEF IInv, AtWork, Working
<1>5. \A p \in Plugin \ redone'.spoilt : Sound(p)'
  BY <1>1, <1>2 DEF IInv, Sound, StepSays, Working
<1>6. Loads'
  BY <1>1, <1>2 DEF IInv, Loads, Sound
<1>7. ListedLoads'
  BY <1>2 DEF ListedLoads
<1>. QED
  BY <1>3, <1>4, <1>5, <1>6, <1>7 DEF IInv

\* A process loads the plugins it listed.
LEMMA LoadIInv == ASSUME IInv, LoadCallbacks PROVE IInv'
<1>1. disk' = disk /\ cmd' = cmd /\ redone' = redone
  BY Zenon DEF LoadCallbacks
<1>2. AtWork' /\ \A p \in Plugin \ redone'.spoilt : Sound(p)'
  BY <1>1 DEF IInv, AtWork, Sound, StepSays, Working
<1>3. /\ loader' \in [pc : {"idle", "load"}, metas : SUBSET Plugin, failed : SUBSET Plugin]
      /\ loader'.metas \subseteq loader.metas
      /\ \A p \in loader'.failed :
            p \in loader.failed \/ (p \in loader.metas /\ disk[p].object # "whole")
  <2>1. CASE loader.metas = {}
    BY <2>1 DEF LoadCallbacks, NoLoader, IInv, TypeOK
  <2>2. CASE loader.metas # {}
    <3>1. PICK p \in loader.metas :
             loader' = [loader EXCEPT !.metas = @ \ {p},
                                      !.failed = IF disk[p].object = "whole" THEN @
                                                 ELSE @ \cup {p}]
      BY Zenon, <2>2 DEF LoadCallbacks
    <3>. QED
      BY Zenon, <3>1 DEF IInv, TypeOK
  <2>. QED
    BY <2>1, <2>2
<1>4. TypeOK'
  BY <1>1, <1>3 DEF IInv, TypeOK
<1>5. Loads' /\ ListedLoads'
  BY <1>1, <1>3 DEF IInv, Loads, ListedLoads
<1>. QED
  BY <1>2, <1>4, <1>5 DEF IInv

-----------------------------------------------------------------------------
\* A process that lists the plugins can load the objects of all that it lists,
\* wherever installs and uninstalls failed or were killed and whatever other commands
\* did meanwhile (Meta.install, Meta.uninstall, LoadCallbacks), but for the plugins that
\* changed since, that were installed over themselves, that two commands worked on, whose
\* meta file could not be removed or whose directory lay in that of an uninstalled one.
THEOREM ListedPluginsLoad == Spec => []ListedLoads
<1>1. Init => IInv
  BY InitIInv
<1>2. IInv /\ [Next]_vars => IInv'
  <2>1. CASE IInv /\ Next
    BY <2>1, StartIInv, StepIInv, ListIInv, LoadIInv DEF Next
  <2>2. CASE IInv /\ UNCHANGED vars
    BY <2>2 DEF vars, IInv, TypeOK, AtWork, Sound, StepSays, Working, Loads, ListedLoads
  <2>. QED
    BY <2>1, <2>2
<1>3. IInv => ListedLoads
  BY DEF IInv
<1>. QED
  BY <1>1, <1>2, <1>3, PTL DEF Spec

-----------------------------------------------------------------------------
(***************************************************************************)
(* appinit, for any FUSE programs, orphans and signals: module AppInit     *)
(* over variables of its own.                                              *)
(***************************************************************************)
CONSTANTS Fuse, Orphans, MaxSignals
VARIABLES cfg, pc, todo, proc, status, told, wait, errChan, statusChan, pend, signals, sent,
          dropped, exit

Appinit == INSTANCE AppInit

\* The command is neither a FUSE program nor an orphan.
AppinitConstants == "cmd" \notin Fuse \cup Orphans

AppinitTypes ==
    /\ cfg.instance \in BOOLEAN /\ cfg.sharens \in BOOLEAN /\ ~(cfg.instance /\ cfg.sharens)
    /\ todo \subseteq Fuse
    /\ proc \in [Appinit!Procs -> {"none", "running", "zombie", "reaped"}]
    /\ status \in Appinit!Statuses
    /\ wait \in {"none", "wait", "done"}
    /\ errChan \in {"empty", "nil", "exit", "echild"}
    /\ statusChan \in Appinit!Statuses \cup {"empty"}

\* Before the command is started there is nobody to wait for, and nobody waits.
BeforeInv ==
    /\ wait = "none" => proc["cmd"] = "none" /\ errChan = "empty" /\ statusChan = "empty"
    /\ wait = "none" <=> pc \in {"fuse", "prepare", "script", "exec", "spawn"}
    /\ wait # "none" => pc \in {"loop", "reap", "stopfuse", "status"} /\ proc["cmd"] # "none"

\* The result of cmd.Wait: the goroutine has reaped the command, or found that the loop
\* had, and then the loop's status is in the channel or will be before the next turn.
ResultInv ==
    /\ errChan # "empty" => wait = "done"
    /\ wait = "done" => proc["cmd"] = "reaped"
    /\ (wait = "wait" /\ proc["cmd"] = "reaped") \/ errChan = "echild" =>
          pc \in {"stopfuse", "status"} \/ statusChan # "empty"
    /\ errChan \in {"nil", "exit"} =>
          statusChan = "empty" /\ pc \notin {"stopfuse", "status"}
    /\ errChan = "nil" => status = "zero"
    /\ pc \in {"stopfuse", "status"} => proc["cmd"] = "reaped"
    /\ statusChan # "empty" => statusChan = status /\ proc["cmd"] = "reaped"

AppinitInv == AppinitTypes /\ BeforeInv /\ ResultInv /\ Appinit!EndsLikeCommand

\* appinit starts with nobody to wait for.
LEMMA AppinitStarts ==
    ASSUME AppinitConstants, Appinit!Init
    PROVE  AppinitInv
<1>1. AppinitTypes
    BY DEF Appinit!Init, AppinitTypes, Appinit!Statuses, Appinit!Procs
<1>2. BeforeInv /\ ResultInv /\ Appinit!EndsLikeCommand
    BY DEF Appinit!Init, BeforeInv, ResultInv, Appinit!EndsLikeCommand, Appinit!Statuses,
        Appinit!Procs
<1> QED
    BY <1>1, <1>2 DEF AppinitInv

\* The steps up to the loop.
LEMMA AppinitBegins ==
    ASSUME AppinitConstants, AppinitInv, Appinit!Begins
    PROVE  AppinitInv'
<1> USE DEF AppinitConstants, AppinitInv, AppinitTypes, BeforeInv, ResultInv,
            Appinit!EndsLikeCommand, Appinit!Statuses, Appinit!Procs, Appinit!Alive,
            Appinit!Chans, Appinit!Signalled, Appinit!Fail
<1>1. CASE Appinit!RunFuse
    BY Zenon, <1>1 DEF Appinit!RunFuse
<1>2. CASE Appinit!Prepare
    BY <1>2 DEF Appinit!Prepare
<1>3. CASE Appinit!RunActionScript
    BY <1>3 DEF Appinit!RunActionScript, Appinit!Execs
<1>4. CASE Appinit!ExecProcess
    BY <1>4 DEF Appinit!ExecProcess
<1>5. CASE Appinit!Spawn
    BY Zenon, <1>5 DEF Appinit!Spawn
<1> QED
    BY <1>1, <1>2, <1>3, <1>4, <1>5 DEF Appinit!Begins

\* The loop, with the status that it reaps and the result that it receives.
LEMMA AppinitLoops ==
    ASSUME AppinitConstants, AppinitInv, Appinit!Loop
    PROVE  AppinitInv'
<1> USE DEF AppinitConstants, AppinitInv, AppinitTypes, BeforeInv, ResultInv,
            Appinit!EndsLikeCommand, Appinit!Statuses, Appinit!Procs, Appinit!Alive,
            Appinit!Chans, Appinit!Signalled
<1>1. CASE Appinit!LoopSignal
    BY <1>1 DEF Appinit!LoopSignal, Appinit!Forward, Appinit!GroupGone
<1>2. CASE Appinit!Reap
    BY Zenon, <1>2 DEF Appinit!Reap
<1>3. CASE Appinit!StopFuse
    BY Zenon, <1>3 DEF Appinit!StopFuse
<1>4. CASE Appinit!SendStatus
    BY <1>4 DEF Appinit!SendStatus
<1>5. CASE Appinit!LoopErr
    BY <1>5 DEF Appinit!LoopErr, Appinit!Ending
<1> QED
    BY <1>1, <1>2, <1>3, <1>4, <1>5 DEF Appinit!Loop

\* The goroutine, the processes and the signals.
LEMMA AppinitWaits ==
    ASSUME AppinitConstants, AppinitInv,
           Appinit!Wait \/ (\E p \in Appinit!Procs : Appinit!Ends(p) \/ Appinit!Orphaned(p))
    PROVE  AppinitInv'
<1> USE DEF AppinitConstants, AppinitInv, AppinitTypes, BeforeInv, ResultInv,
            Appinit!EndsLikeCommand, Appinit!Statuses, Appinit!Procs, Appinit!Alive,
            Appinit!Chans, Appinit!Signalled
<1>1. CASE Appinit!Wait
    BY <1>1 DEF Appinit!Wait
<1>2. ASSUME NEW p \in Appinit!Procs, Appinit!Ends(p) PROVE AppinitInv'
    BY <1>2 DEF Appinit!Ends
<1>3. ASSUME NEW p \in Appinit!Procs, Appinit!Orphaned(p) PROVE AppinitInv'
    BY <1>3 DEF Appinit!Orphaned
<1> QED
    BY <1>1, <1>2, <1>3

\* appinit ends like the command, whatever the order in which its two reapers, the
\* signals and the ends of processes come: it reports the command's own status, never
\* "unknown error", and an instance's ends only once a signal finds no process
\* (process_linux.go:231-334).
THEOREM AppinitEnds ==
    ASSUME AppinitConstants
    PROVE  Appinit!Spec => []Appinit!EndsLikeCommand
<1>1. Appinit!Init => AppinitInv
    BY AppinitStarts
<1>2. ASSUME AppinitInv, [Appinit!Next]_(Appinit!vars) PROVE AppinitInv'
  <2>1. CASE UNCHANGED Appinit!vars
    BY <1>2, <2>1
    DEF Appinit!vars, AppinitInv, AppinitTypes, BeforeInv, ResultInv,
        Appinit!EndsLikeCommand, Appinit!GroupGone
  <2>2. CASE \E s \in {"TERM", "URG"} : Appinit!Send(s)
    BY <1>2, <2>2
    DEF Appinit!Send, Appinit!Chans, AppinitInv, AppinitTypes, BeforeInv, ResultInv,
        Appinit!EndsLikeCommand, Appinit!GroupGone
  <2>3. CASE \E s \in {"CHLD", "TERM", "URG"} : Appinit!Relay(s)
    BY <1>2, <2>3
    DEF Appinit!Relay, Appinit!Chans, AppinitInv, AppinitTypes, BeforeInv, ResultInv,
        Appinit!EndsLikeCommand, Appinit!GroupGone
  <2> QED
    BY <1>2, <2>1, <2>2, <2>3, AppinitBegins, AppinitLoops, AppinitWaits
    DEF Appinit!Next, Appinit!Begins
<1>3. AppinitInv => Appinit!EndsLikeCommand
    BY DEF AppinitInv
<1> QED
    BY <1>1, <1>2, <1>3, PTL DEF Appinit!Spec


-----------------------------------------------------------------------------
(***************************************************************************)
(* The bundles of "oci mount" and "oci umount", for any number of          *)
(* commands: module OciBundle over variables of its own.                   *)
(***************************************************************************)
CONSTANT MaxBundleCommands
VARIABLES dirs, others, stack, bind, bundleCmd, before, bundleResult, count

Bundle == INSTANCE OciBundle WITH
            MaxCommands <- MaxBundleCommands, cmd <- bundleCmd, result <- bundleResult

BundleDirs == {"bundle", "rootfs", "volumes", "config", "overlay"}

\* What the steps of a mount have made so far: each was made before the next is tried.
MadeBefore(k) ==
    {d \in BundleDirs : \/ d \in {"bundle", "rootfs"} /\ k > 1
                        \/ d = "volumes" /\ k > 2
                        \/ d = "config" /\ k > 6
                        \/ d = "overlay" /\ k > 7}

BundleTypes ==
    /\ dirs \subseteq BundleDirs /\ stack \in Seq({"squashfs", "overlay"})
    /\ bind \in BOOLEAN /\ before \in BOOLEAN
    /\ bundleCmd \in {Bundle!Idle} \cup [name : {"mount"}, step : 1..12]
                                   \cup [name : {"umount"}, step : 1..5]

MountInv ==
    bundleCmd.name = "mount" =>
        /\ MadeBefore(bundleCmd.step) \subseteq dirs
        /\ bundleCmd.step > 8 => bind
        /\ ~before => /\ stack = IF bundleCmd.step > 5 THEN <<"squashfs">> ELSE << >>
                      /\ bundleCmd.step <= 8 => ~bind

UmountInv ==
    bundleCmd.name = "umount" =>
        /\ bundleCmd.step > 2 => ~bind
        /\ bundleCmd.step > 3 => "overlay" \notin dirs

BundleInv == BundleTypes /\ MountInv /\ UmountInv /\ Bundle!BundleIsAsReported

\* There is nothing of a bundle at the start.
LEMMA BundleStarts ==
    ASSUME Bundle!Init
    PROVE  BundleInv
<1> USE DEF Bundle!Init
<1>1. stack \in Seq({"squashfs", "overlay"})
    OBVIOUS
<1>2. bind \in BOOLEAN /\ before \in BOOLEAN
    BY Zenon
<1>3. BundleTypes
  <2>1. dirs \subseteq BundleDirs
    BY Zenon DEF BundleDirs
  <2> QED
    BY <1>1, <1>2, <2>1 DEF BundleTypes
<1>4. MountInv /\ UmountInv /\ Bundle!BundleIsAsReported
    BY DEF MountInv, UmountInv, Bundle!BundleIsAsReported, Bundle!Idle
<1> QED
    BY <1>3, <1>4 DEF BundleInv

\* A command begins.
LEMMA BundleBegins ==
    ASSUME BundleInv, NEW name \in {"mount", "umount"}, Bundle!Begin(name)
    PROVE  BundleInv'
<1> USE DEF BundleInv, Bundle!Begin, Bundle!Idle
<1>1. bundleCmd' = [name |-> name, step |-> 1]
    OBVIOUS
<1>2. before' \in BOOLEAN /\ (~before' => stack = << >> /\ ~bind)
    BY Zenon
<1>3. BundleTypes'
    BY <1>1, <1>2 DEF BundleTypes
<1>4. MountInv'
  <2>1. MadeBefore(1) = {}
    BY DEF MadeBefore
  <2>2. bundleCmd'.step = 1
    BY <1>1
  <2> QED
    BY <1>2, <2>1, <2>2 DEF MountInv
<1>5. UmountInv' /\ Bundle!BundleIsAsReported'
  <2>1. bundleCmd'.step = 1 /\ bundleCmd' # Bundle!Idle
    BY <1>1
  <2>2. ~(bundleCmd'.step > 2) /\ ~(bundleCmd'.step > 3)
    BY <2>1
  <2> QED
    BY Zenon, <2>1, <2>2 DEF UmountInv, Bundle!BundleIsAsReported
<1> QED
    BY <1>3, <1>4, <1>5

\* The steps of a mount, by number.
LEMMA MountStepNames ==
    /\ Len(Bundle!MountSteps) = 12
    /\ Bundle!MountSteps[1] = "rootfs" /\ Bundle!MountSteps[2] = "volumes"
    /\ Bundle!MountSteps[3] = "default config" /\ Bundle!MountSteps[4] = "loop"
    /\ Bundle!MountSteps[5] = "mount" /\ Bundle!MountSteps[6] = "config"
    /\ Bundle!MountSteps[7] = "overlay" /\ Bundle!MountSteps[8] = "bind"
    /\ Bundle!MountSteps[9] = "remount" /\ Bundle!MountSteps[10] = "upper"
    /\ Bundle!MountSteps[11] = "work" /\ Bundle!MountSteps[12] = "overlay mount"
    BY DEF Bundle!MountSteps

\* What a step of a mount leaves when it succeeds.
LEMMA BundleDone ==
    ASSUME NEW step, Bundle!Become(Bundle!Done(step))
    PROVE  /\ step = "rootfs" =>
                dirs' = dirs \cup {"bundle", "rootfs"} /\ stack' = stack /\ bind' = bind
           /\ step = "volumes" => dirs' = dirs \cup {"volumes"} /\ stack' = stack /\ bind' = bind
           /\ step \in {"default config", "loop", "remount", "upper", "work"} =>
                dirs' = dirs /\ stack' = stack /\ bind' = bind
           /\ step = "mount" =>
                dirs' = dirs /\ stack' = Append(stack, "squashfs") /\ bind' = bind
           /\ step = "config" => dirs' = dirs \cup {"config"} /\ stack' = stack /\ bind' = bind
           /\ step = "overlay" => dirs' = dirs \cup {"overlay"} /\ stack' = stack /\ bind' = bind
           /\ step = "bind" => dirs' = dirs /\ stack' = stack /\ bind' = TRUE
           /\ step = "overlay mount" =>
                dirs' = dirs /\ stack' = Append(stack, "overlay") /\ bind' = bind
    BY Zenon DEF Bundle!Become, Bundle!Done, Bundle!State

\* A step of a mount that succeeds.
LEMMA BundleMounts ==
    ASSUME BundleInv, bundleCmd.name = "mount",
           Bundle!Become(Bundle!Done(Bundle!MountSteps[bundleCmd.step])),
           IF bundleCmd.step = Len(Bundle!MountSteps)
           THEN bundleCmd' = Bundle!Idle /\ bundleResult' = "mounted"
           ELSE bundleCmd' = [bundleCmd EXCEPT !.step = @ + 1] /\ bundleResult' = bundleResult,
           UNCHANGED before
    PROVE  BundleInv'
<1> DEFINE k == bundleCmd.step
<1> USE DEF BundleInv
<1>1. k \in 1..12 /\ bundleCmd \in [name : {"mount"}, step : 1..12]
    BY DEF BundleTypes, Bundle!Idle
<1>2. /\ k = 1 => dirs' = dirs \cup {"bundle", "rootfs"} /\ stack' = stack /\ bind' = bind
      /\ k = 2 => dirs' = dirs \cup {"volumes"} /\ stack' = stack /\ bind' = bind
      /\ k \in {3, 4, 9, 10, 11} => dirs' = dirs /\ stack' = stack /\ bind' = bind
      /\ k = 5 => dirs' = dirs /\ stack' = Append(stack, "squashfs") /\ bind' = bind
      /\ k = 6 => dirs' = dirs \cup {"config"} /\ stack' = stack /\ bind' = bind
      /\ k = 7 => dirs' = dirs \cup {"overlay"} /\ stack' = stack /\ bind' = bind
      /\ k = 8 => dirs' = dirs /\ stack' = stack /\ bind' = TRUE
      /\ k = 12 => dirs' = dirs /\ stack' = Append(stack, "overlay") /\ bind' = bind
    BY Zenon, BundleDone, MountStepNames
<1>3. /\ dirs' \subseteq BundleDirs /\ dirs \subseteq dirs'
      /\ MadeBefore(k) \subseteq dirs => MadeBefore(k + 1) \subseteq dirs'
    BY SMTT(20), <1>1, <1>2 DEF MadeBefore, BundleDirs, BundleTypes
<1>4. stack' \in Seq({"squashfs", "overlay"}) /\ bind' \in BOOLEAN
  <2>1. stack \in Seq({"squashfs", "overlay"}) /\ bind \in BOOLEAN
    BY DEF BundleTypes
  <2>2. \/ stack' = stack
        \/ stack' = Append(stack, "squashfs")
        \/ stack' = Append(stack, "overlay")
    BY <1>1, <1>2
  <2>3. bind' = bind \/ bind' = TRUE
    BY <1>1, <1>2
  <2>4. stack' \in Seq({"squashfs", "overlay"})
    BY <2>1, <2>2
  <2>5. bind' \in BOOLEAN
    BY Zenon, <2>1, <2>3
  <2> QED
    BY <2>4, <2>5
<1>5. CASE k = 12
  <2>1. bundleCmd' = Bundle!Idle /\ bundleResult' = "mounted"
    BY Zenon, <1>5, MountStepNames
  <2>2. dirs' = BundleDirs
    BY <1>3, <1>5 DEF MountInv, MadeBefore, BundleDirs
  <2>3. bind' /\ Bundle!Last(stack') = "overlay"
    BY <1>2, <1>5 DEF MountInv, BundleTypes, Bundle!Last
  <2>4. BundleTypes'
    BY <1>3, <1>4, <2>1 DEF BundleTypes
  <2>5. Bundle!BundleIsAsReported'
    BY Zenon, <2>1, <2>2, <2>3 DEF Bundle!BundleIsAsReported, BundleDirs
  <2> QED
    BY <2>1, <2>4, <2>5 DEF MountInv, UmountInv, Bundle!Idle
<1>6. CASE k # 12
  <2>1. bundleCmd' = [name |-> "mount", step |-> k + 1]
    BY Zenon, <1>1, <1>6, MountStepNames
  <2>2. BundleTypes'
    <3>1. bundleCmd' \in [name : {"mount"}, step : 1..12] /\ before' \in BOOLEAN
      BY <1>1, <1>6, <2>1 DEF BundleTypes
    <3> QED
      BY <1>3, <1>4, <3>1 DEF BundleTypes
  <2>3. MountInv'
    <3>1. MadeBefore(bundleCmd'.step) \subseteq dirs'
      BY <1>3, <2>1 DEF MountInv
    <3>2. k + 1 > 8 => bind'
      BY <1>1, <1>2, <1>6 DEF MountInv
    <3>3. ~before => stack' = IF k + 1 > 5 THEN <<"squashfs">> ELSE << >>
      <4>1. Append(<< >>, "squashfs") = <<"squashfs">>
        OBVIOUS
      <4>2. ~before => stack = IF k > 5 THEN <<"squashfs">> ELSE << >>
        BY DEF MountInv
      <4>3. k # 5 => stack' = stack
        BY <1>1, <1>2, <1>6
      <4>4. k = 5 => stack' = Append(stack, "squashfs")
        BY <1>2
      <4>5. CASE k = 5
        BY <4>1, <4>2, <4>4, <4>5
      <4>6. CASE k # 5
        BY <1>1, <4>2, <4>3, <4>6
      <4> QED
        BY <4>5, <4>6
    <3>4. ~before /\ k + 1 <= 8 => ~bind'
      BY <1>1, <1>2, <1>6 DEF MountInv
    <3> QED
      BY <2>1, <3>1, <3>2, <3>3, <3>4 DEF MountInv
  <2> QED
    BY Zenon, <2>1, <2>2, <2>3 DEF UmountInv, Bundle!Idle, Bundle!BundleIsAsReported
<1> QED
    BY <1>5, <1>6

BundleState == [dirs : SUBSET BundleDirs, stack : Seq({"squashfs", "overlay"}), bind : BOOLEAN]

\* An unmount takes the top of what is mounted away, and DeleteBundle neither mounts nor
\* unmounts; it succeeds where nothing is mounted, and then nothing is left.
LEMMA UnmountedState ==
    ASSUME NEW s \in BundleState
    PROVE  /\ Bundle!Unmounted(s) \in BundleState
           /\ Bundle!Unmounted(s).dirs = s.dirs /\ Bundle!Unmounted(s).bind = s.bind
           /\ s.stack = << >> \/ s.stack = <<"squashfs">> => Bundle!Unmounted(s).stack = << >>
<1>1. s.stack # << >> => Bundle!Front(s.stack) \in Seq({"squashfs", "overlay"})
    BY DEF BundleState, Bundle!Front
<1>2. s.stack = <<"squashfs">> => Bundle!Front(s.stack) = << >>
    BY DEF Bundle!Front
<1> QED
    BY <1>1, <1>2 DEF BundleState, Bundle!Unmounted

\* Removing the directories leaves the mounts alone.
LEMMA DeletedState ==
    ASSUME NEW s \in BundleState
    PROVE  LET r == Bundle!DeleteBundle(s)
           IN  /\ r.s \in BundleState /\ r.s.stack = s.stack /\ r.s.bind = s.bind
               /\ r.ok => s.stack = << >>
               /\ r.ok /\ "overlay" \notin s.dirs =>
                    r.s.dirs = {} \/ (others /\ r.s.dirs = {"bundle"})
<1> DEFINE v == [s EXCEPT !.dirs = @ \ {"volumes"}]
           r == [v EXCEPT !.dirs = @ \ {"rootfs"}]
           c == [r EXCEPT !.dirs = @ \ {"config"}]
           e == [c EXCEPT !.dirs = {}]
           d == Bundle!DeleteBundle(s)
           Same(t) == t \in BundleState /\ t.stack = s.stack /\ t.bind = s.bind
<1>1. Same(v) /\ v.dirs = s.dirs \ {"volumes"}
    BY Zenon DEF BundleState
<1>2. Same(r) /\ r.dirs = s.dirs \ {"volumes", "rootfs"}
    BY Zenon DEF BundleState
<1>3. Same(c) /\ c.dirs = s.dirs \ {"volumes", "rootfs", "config"}
    BY Zenon DEF BundleState
<1>4. Same(e) /\ e.dirs = {}
    BY Zenon DEF BundleState
<1>5. \/ d = [s |-> v, ok |-> FALSE]
      \/ d = [s |-> r, ok |-> FALSE]
      \/ /\ s.stack = << >>
         /\ \/ d = [s |-> c, ok |-> TRUE] /\ (others \/ c.dirs # {"bundle"})
            \/ d = [s |-> e, ok |-> TRUE]
    BY Zenon DEF Bundle!DeleteBundle
<1>6. s.dirs \subseteq BundleDirs
    BY DEF BundleState
<1> HIDE DEF v, r, c, e, d
<1>7. "overlay" \notin s.dirs => c.dirs = {} \/ c.dirs = {"bundle"}
    BY <1>3, <1>6 DEF BundleDirs
<1>8. /\ Same(d.s)
      /\ d.ok => s.stack = << >>
      /\ d.ok /\ "overlay" \notin s.dirs => d.s.dirs = {} \/ (others /\ d.s.dirs = {"bundle"})
  <2> HIDE DEF Same
  <2>1. CASE d = [s |-> v, ok |-> FALSE] \/ d = [s |-> r, ok |-> FALSE]
    BY <1>1, <1>2, <2>1
  <2>2. CASE s.stack = << >> /\ d = [s |-> c, ok |-> TRUE] /\ (others \/ c.dirs # {"bundle"})
    <3>1. d.s = c
      BY <2>2
    <3> QED
      BY Zenon, <1>3, <1>7, <2>2, <3>1
  <2>3. CASE s.stack = << >> /\ d = [s |-> e, ok |-> TRUE]
    BY <1>4, <2>3
  <2> QED
    BY Zenon, <1>5, <2>1, <2>2, <2>3
<1> QED
    BY Zenon, <1>8 DEF d

\* What undoing the overlay leaves.
LEMMA OverlayUndoneState ==
    ASSUME NEW s \in BundleState, NEW step
    PROVE  LET r == Bundle!OverlayUndone(step, s)
           IN  /\ r \in BundleState /\ r.stack = s.stack
               /\ step # "overlay" => ~r.bind
               /\ step = "overlay" => r.bind = s.bind
    BY Zenon DEF BundleState, Bundle!OverlayUndone

\* The state of a bundle is one.
LEMMA StateFacts ==
    ASSUME BundleInv
    PROVE  /\ Bundle!State \in BundleState /\ Bundle!State.dirs = dirs
           /\ Bundle!State.stack = stack /\ Bundle!State.bind = bind
    BY DEF BundleInv, BundleTypes, BundleState, Bundle!State

\* A state of the bundle that a command leaves.
LEMMA BundleLeft ==
    ASSUME BundleInv, NEW s \in BundleState, Bundle!Become(s), before' \in BOOLEAN,
           bundleCmd' \in {Bundle!Idle} \cup [name : {"umount"}, step : 1..5]
    PROVE  BundleTypes' /\ MountInv'
<1>1. dirs' = s.dirs /\ stack' = s.stack /\ bind' = s.bind
    BY DEF Bundle!Become
<1>2. BundleTypes'
    BY <1>1 DEF BundleTypes, BundleState
<1>3. bundleCmd'.name # "mount"
    BY DEF Bundle!Idle
<1> QED
    BY <1>2, <1>3 DEF MountInv

\* What a step of a mount that fails leaves: nothing is mounted where nothing was.
LEMMA UndoneState ==
    ASSUME BundleInv, bundleCmd.name = "mount"
    PROVE  LET r == Bundle!Undone(Bundle!MountSteps[bundleCmd.step])
           IN  r \in BundleState /\ (~before => r.stack = << >> /\ ~r.bind)
<1> DEFINE k == bundleCmd.step
           step == Bundle!MountSteps[k]
           S == Bundle!State
           r == Bundle!Undone(step)
<1>1. S \in BundleState /\ S.stack = stack /\ S.bind = bind
    BY StateFacts
<1>2. k \in 1..12
    BY DEF BundleInv, BundleTypes, Bundle!Idle
<1>3. /\ ~before /\ k <= 5 => S.stack = << >>
      /\ ~before /\ k > 5 => S.stack = <<"squashfs">>
      /\ ~before /\ k <= 8 => ~S.bind
    BY <1>1, <1>2 DEF BundleInv, MountInv
<1>4. r \in BundleState /\ (~before => r.stack = << >> /\ ~r.bind)
  <2>1. CASE k \in {1, 2}
    <3>1. r = S
      BY Zenon, <2>1, MountStepNames DEF Bundle!Undone
    <3> HIDE DEF S, r
    <3> QED
      BY <1>1, <1>3, <2>1, <3>1
  <2>2. CASE k \in {3, 4, 5}
    <3>1. r = Bundle!DeleteBundle(S).s
      BY Zenon, <2>2, MountStepNames DEF Bundle!Undone
    <3> HIDE DEF S, r
    <3>2. S.stack = r.stack /\ S.bind = r.bind /\ r \in BundleState
      BY <1>1, <3>1, DeletedState
    <3> QED
      BY <1>3, <2>2, <3>2
  <2>3. CASE k = 6
    <3>1. r = Bundle!DeleteBundle(Bundle!Unmounted(S)).s
      BY Zenon, <2>3, MountStepNames DEF Bundle!Undone
    <3> HIDE DEF S, r
    <3>2. /\ Bundle!Unmounted(S) \in BundleState
          /\ ~before => Bundle!Unmounted(S).stack = << >> /\ ~Bundle!Unmounted(S).bind
      BY <1>1, <1>3, <2>3, UnmountedState
    <3> QED
      BY <3>1, <3>2, DeletedState
  <2>4. CASE k \in 7..12
    <3> DEFINE O == Bundle!OverlayUndone(step, S)
    <3>1. k \in {7, 8, 9, 10, 11, 12}
      BY <2>4
    <3>2. step \in {"overlay", "bind", "remount", "upper", "work", "overlay mount"}
      BY Zenon, <3>1, MountStepNames
    <3>3. step = "overlay" => k = 7
      BY Zenon, <3>1, MountStepNames
    <3>4. r = Bundle!DeleteBundle(Bundle!Unmounted(O)).s
      BY Zenon, <3>2 DEF Bundle!Undone
    <3> HIDE DEF S, r, step
    <3>5. O \in BundleState /\ (~before => O.stack = <<"squashfs">> /\ ~O.bind)
      <4>1. /\ O \in BundleState /\ O.stack = S.stack
            /\ step # "overlay" => ~O.bind
            /\ step = "overlay" => O.bind = S.bind
        BY <1>1, OverlayUndoneState
      <4>2. k > 5 /\ (step = "overlay" => k <= 8)
        BY <2>4, <3>3
      <4> HIDE DEF O
      <4> QED
        BY <1>3, <4>1, <4>2
    <3> HIDE DEF O
    <3>6. /\ Bundle!Unmounted(O) \in BundleState
          /\ ~before => Bundle!Unmounted(O).stack = << >> /\ ~Bundle!Unmounted(O).bind
      BY <3>5, UnmountedState
    <3> QED
      BY <3>4, <3>6, DeletedState
  <2> HIDE DEF r
  <2> QED
    BY <1>2, <2>1, <2>2, <2>3, <2>4
<1> QED
    BY <1>4

\* A step of a mount fails, and the mount is undone.
LEMMA BundleUndoes ==
    ASSUME BundleInv, bundleCmd.name = "mount",
           Bundle!Become(Bundle!Undone(Bundle!MountSteps[bundleCmd.step])),
           bundleCmd' = Bundle!Idle, bundleResult' = "not mounted", UNCHANGED before
    PROVE  BundleInv'
<1> DEFINE r == Bundle!Undone(Bundle!MountSteps[bundleCmd.step])
<1>1. r \in BundleState /\ (~before => r.stack = << >> /\ ~r.bind)
    BY Zenon, UndoneState
<1>2. before \in BOOLEAN
    BY Zenon DEF BundleInv, BundleTypes
<1> HIDE DEF r
<1>3. BundleTypes' /\ MountInv'
    BY Zenon, <1>1, <1>2, BundleLeft DEF r
<1>4. UmountInv' /\ Bundle!BundleIsAsReported'
    BY Zenon, <1>1 DEF r, UmountInv, Bundle!BundleIsAsReported, Bundle!Idle, Bundle!Become
<1> QED
    BY Zenon, <1>3, <1>4 DEF BundleInv

\* The steps of an umount, by number.
LEMMA UmountStepNames ==
    /\ Len(Bundle!UmountSteps) = 5
    /\ Bundle!UmountSteps[1] = "unmount" /\ Bundle!UmountSteps[2] = "unbind"
    /\ Bundle!UmountSteps[3] = "remove overlay" /\ Bundle!UmountSteps[4] = "unmount"
    /\ Bundle!UmountSteps[5] = "delete"
    BY DEF Bundle!UmountSteps

\* What a step of "oci umount" makes of the bundle.
LEMMA ReleasedState ==
    ASSUME BundleInv, bundleCmd.name = "umount"
    PROVE  LET k == bundleCmd.step
               r == Bundle!Released(Bundle!UmountSteps[k])
           IN  /\ r.s \in BundleState
               /\ k = 2 => ~r.s.bind
               /\ k # 2 => r.s.bind = bind
               /\ k = 3 => "overlay" \notin r.s.dirs
               /\ k = 4 => r.s.dirs = dirs
               /\ k = 5 /\ r.ok =>
                    r.s.stack = << >> /\ (r.s.dirs = {} \/ (others /\ r.s.dirs = {"bundle"}))
<1> DEFINE k == bundleCmd.step
           S == Bundle!State
           r == Bundle!Released(Bundle!UmountSteps[k])
<1>1. k \in 1..5 /\ S \in BundleState /\ S.stack = stack /\ S.bind = bind /\ S.dirs = dirs
    BY StateFacts DEF BundleInv, BundleTypes, Bundle!Idle
<1>2. CASE k \in {1, 4}
  <2>1. r = [s |-> Bundle!Unmounted(S), ok |-> stack # << >>]
    BY Zenon, <1>2, UmountStepNames DEF Bundle!Released
  <2> QED
    BY <1>1, <1>2, <2>1, UnmountedState
<1>3. CASE k = 2
  <2>1. r = [s |-> [S EXCEPT !.bind = FALSE], ok |-> bind]
    BY Zenon, <1>3, UmountStepNames DEF Bundle!Released
  <2> HIDE DEF S, r
  <2>2. r.s = [S EXCEPT !.bind = FALSE]
    BY <2>1
  <2>3. r.s \in BundleState /\ ~r.s.bind
    BY Zenon, <1>1, <2>2 DEF BundleState
  <2> QED
    BY <1>3, <2>3 DEF r
<1>4. CASE k = 3
  <2>1. r = [s |-> [S EXCEPT !.dirs = S.dirs \ {"overlay"}], ok |-> ~bind]
    BY Zenon, <1>4, UmountStepNames DEF Bundle!Released
  <2> QED
    BY <1>1, <1>4, <2>1 DEF BundleState
<1>5. CASE k = 5
  <2>1. r = Bundle!DeleteBundle(S)
    BY Zenon, <1>5, UmountStepNames DEF Bundle!Released
  <2>2. "overlay" \notin S.dirs /\ k # 2 /\ k # 3 /\ k # 4
    BY <1>1, <1>5 DEF BundleInv, UmountInv
  <2> HIDE DEF S, r
  <2> QED
    BY <1>1, <1>5, <2>1, <2>2, DeletedState DEF r
<1>6. k \in {1, 4} \/ k = 2 \/ k = 3 \/ k = 5
    BY <1>1
<1> QED
    BY Zenon, <1>2, <1>3, <1>4, <1>5, <1>6

\* A step of an umount.
LEMMA BundleUmounts ==
    ASSUME BundleInv, Bundle!UmountStep
    PROVE  BundleInv'
<1> DEFINE k == bundleCmd.step
           r == Bundle!Released(Bundle!UmountSteps[k])
<1>1. /\ bundleCmd.name = "umount" /\ bundleCmd \in [name : {"umount"}, step : 1..5]
      /\ k \in 1..5
  <2>1. bundleCmd.name = "umount"
    BY Zenon DEF Bundle!UmountStep
  <2> QED
    BY <2>1 DEF BundleInv, BundleTypes, Bundle!Idle
<1>2. before' \in BOOLEAN
    BY Zenon DEF BundleInv, BundleTypes, Bundle!UmountStep
<1>3. /\ r.s \in BundleState
      /\ k = 2 => ~r.s.bind
      /\ k # 2 => r.s.bind = bind
      /\ k = 3 => "overlay" \notin r.s.dirs
      /\ k = 4 => r.s.dirs = dirs
      /\ k = 5 /\ r.ok =>
           r.s.stack = << >> /\ (r.s.dirs = {} \/ (others /\ r.s.dirs = {"bundle"}))
    BY Zenon, <1>1, ReleasedState
<1>4. (k > 2 => ~bind) /\ (k > 3 => "overlay" \notin dirs)
    BY <1>1 DEF BundleInv, UmountInv
<1> HIDE DEF r
<1>5. CASE r.ok /\ Bundle!Become(r.s) /\ k = 5 /\ bundleCmd' = Bundle!Idle
           /\ bundleResult' = "unmounted"
  <2>1. BundleTypes' /\ MountInv'
    BY <1>1, <1>3, <1>5, <1>2, BundleLeft
  <2>2. stack' = << >> /\ bind' = bind /\ ~bind
    BY <1>3, <1>4, <1>5 DEF Bundle!Become
  <2>3. dirs' = {} \/ (others' /\ dirs' = {"bundle"})
    BY Zenon, <1>3, <1>5 DEF Bundle!Become, Bundle!UmountStep
  <2>4. Bundle!BundleIsAsReported'
    BY Zenon, <1>5, <2>2, <2>3 DEF Bundle!BundleIsAsReported
  <2> QED
    BY <1>5, <2>1, <2>4 DEF BundleInv, UmountInv, Bundle!Idle
<1>6. CASE r.ok /\ Bundle!Become(r.s) /\ k # 5
           /\ bundleCmd' = [bundleCmd EXCEPT !.step = @ + 1] /\ bundleResult' = bundleResult
  <2>1. bundleCmd' \in [name : {"umount"}, step : 2..5] /\ bundleCmd'.step = k + 1
    BY <1>1, <1>6
  <2>2. BundleTypes' /\ MountInv'
    BY <1>1, <1>3, <1>6, <1>2, <2>1, BundleLeft
  <2>3. UmountInv'
    <3>1. k + 1 > 2 => ~bind'
      BY <1>1, <1>3, <1>4, <1>6 DEF Bundle!Become
    <3>2. k + 1 > 3 => "overlay" \notin dirs'
      BY <1>1, <1>3, <1>4, <1>6 DEF Bundle!Become
    <3> QED
      BY <2>1, <3>1, <3>2 DEF UmountInv
  <2>4. bundleCmd' # Bundle!Idle
    BY <2>1 DEF Bundle!Idle
  <2> QED
    BY Zenon, <2>2, <2>3, <2>4 DEF BundleInv, Bundle!BundleIsAsReported
<1>7. CASE /\ (IF r.ok THEN Bundle!Become(Bundle!State) ELSE Bundle!Become(r.s))
           /\ bundleCmd' = Bundle!Idle /\ bundleResult' = "not unmounted"
  <2>1. BundleTypes' /\ MountInv'
    BY Zenon, <1>1, <1>3, <1>7, <1>2, BundleLeft, StateFacts
  <2> QED
    BY Zenon, <1>7, <2>1 DEF BundleInv, UmountInv, Bundle!BundleIsAsReported, Bundle!Idle
<1> QED
    BY Zenon, <1>5, <1>6, <1>7, UmountStepNames DEF Bundle!UmountStep, r

\* "oci mount" and "oci umount" report what they did, whichever of their steps fails and
\* however often they are run: a bundle said to be mounted is whole, with its overlay on
\* top; an unmount leaves nothing mounted, and nothing of the bundle in the directory;
\* and nothing is left mounted by a mount that failed where nothing was mounted
\* (oci_mount_linux.go, ocibundle/sif and ocibundle/tools).
THEOREM BundleReported == Bundle!Spec => []Bundle!BundleIsAsReported
<1>1. Bundle!Init => BundleInv
    BY BundleStarts
<1>2. ASSUME BundleInv, [Bundle!Next]_(Bundle!vars) PROVE BundleInv'
  <2>1. CASE UNCHANGED Bundle!vars
    BY Zenon, <1>2, <2>1
    DEF Bundle!vars, BundleInv, BundleTypes, MountInv, UmountInv, Bundle!BundleIsAsReported
  <2>2. CASE Bundle!MountStep
    BY Zenon, <1>2, <2>2, BundleMounts, BundleUndoes DEF Bundle!MountStep
  <2> QED
    BY <1>2, <2>1, <2>2, BundleBegins, BundleUmounts DEF Bundle!Next
<1>3. BundleInv => Bundle!BundleIsAsReported
    BY DEF BundleInv
<1> QED
    BY <1>1, <1>2, <1>3, PTL DEF Bundle!Spec

=============================================================================
