------------------------------ MODULE PullFile ------------------------------
(***************************************************************************)
(* An image that is pulled to a path (`apptainer pull', pullRun), or for a *)
(* command that needs it (Pull of internal/pkg/client), with the cache or  *)
(* without.  The cache is abstracted to what ImageCache shows: a pull      *)
(* through it gives a whole image or fails, and the entry may be cleaned   *)
(* before it is used.  Each command has an image of its own, and the pulls *)
(* go to the one path "dest".  Without a cache, a command that only needs  *)
(* the image downloads it to a temporary file, named after the command.    *)
(***************************************************************************)
EXTENDS Integers

CONSTANTS
    Procs,     \* the commands
    Requests,  \* what a command may be asked for
    Befores,   \* what may be at the path to begin with
    MaxFails,  \* bound: steps that fail
    MaxKills   \* bound: commands that are killed

\* What tells the transports apart when they write to a file directly.
\* early: the file is opened, and so emptied, before the image is asked for.
\* removes: a transfer that breaks removes the file.
\* spooled: the image goes through a temporary layout and is checked at the end.
\* built: the build routines put a new file in the place of the old one.
\* sized: the size of the file is compared after the transfer.
\* signed: the signature is verified.
Plain == [early |-> FALSE, removes |-> TRUE, spooled |-> FALSE, built |-> FALSE,
          sized |-> FALSE, signed |-> FALSE]
Library == [Plain EXCEPT !.early = TRUE, !.signed = TRUE]
Oras == [Plain EXCEPT !.removes = FALSE, !.spooled = TRUE]
Net == Plain
Ipfs == Plain
Shub == [Plain EXCEPT !.sized = TRUE]
Oci == [Plain EXCEPT !.built = TRUE]

Transport == [library |-> Library, oras |-> Oras, net |-> Net, ipfs |-> Ipfs, shub |-> Shub,
              oci |-> Oci]

\* A request: its transport, and options.  use: the image is for a command (Pull), not
\* for a path (PullToFile).  unsigned: its signature cannot be verified.
NoRequest == [by |-> "net", use |-> FALSE, cached |-> TRUE, force |-> FALSE, sandbox |-> FALSE,
              unsigned |-> FALSE]

VARIABLES
    file,    \* what is at "dest" and in the temporary files of Pull
    cmd,     \* of each command, below
    entries, \* the commands whose image is in the cache
    fails, kills

vars == <<file, cmd, entries, fails, kills>>

\* mixed: two downloads have written to the file.  old, dir: a file and a directory of
\* the user's.  box: a sandbox.
Content(kind, by) == [kind |-> kind, by |-> by]
Nothing == Content("none", "user")
IsDir(f) == f.kind \in {"dir", "box"}

\* open: the command has the file at its target open, by name or after the name went
\* to something else.  left: what it has made and not removed.  aside: the image that
\* ConvertSifToSandbox renamed.  met: another pull to the path ran meanwhile.  before,
\* saw: what was at the path when it began and when it ended.
Idle == [pc |-> "idle", req |-> NoRequest, open |-> "no", left |-> {}, aside |-> Nothing, met |-> FALSE,
         before |-> Nothing, saw |-> Nothing, end |-> "none"]

Init ==
    /\ \E b \in Befores : file = [n \in {"dest"} \cup Procs |-> IF n = "dest" THEN b ELSE Nothing]
    /\ cmd = [p \in Procs |-> Idle]
    /\ entries = {} /\ fails = 0 /\ kills = 0

Target(p) == IF cmd[p].req.use THEN p ELSE "dest"
By(p) == Transport[cmd[p].req.by]
Active(p) == cmd[p].pc \notin {"idle", "over"}
At(p, l) == cmd[p].pc = l
Goto(p, l) == cmd' = [cmd EXCEPT ![p].pc = l]

\* The name n goes to something else: who has the file open writes on without a name.
Unname(c, n) ==
    [q \in Procs |-> IF c[q].open = "named" /\ Target(q) = n
                     THEN [c[q] EXCEPT !.open = "gone"] ELSE c[q]]

\* The command p of c ends, with the files f.
End(c, p, how, f) ==
    /\ file' = f
    /\ cmd' = [c EXCEPT ![p].pc = "over", ![p].end = how, ![p].open = "no", ![p].saw = f["dest"]]

Ends(p, how) == End(cmd, p, how, file)

\* Deferred calls remove what p has made.
Deferred(c, p, what) == [c EXCEPT ![p].left = @ \ {what}]
Fails(p, what) == End(Deferred(cmd, p, what), p, "failed", file)
Becomes(n, x) == [file EXCEPT ![n] = x]
MayFail == fails < MaxFails /\ fails' = fails + 1 /\ UNCHANGED <<entries, kills>>
world == <<entries, fails, kills>>

-----------------------------------------------------------------------------
\* pullRun looks at the path: what is there is only replaced with --force.  Pull makes
\* a temporary file when there is no cache.
Start(p) ==
    /\ At(p, "idle")
    /\ \E r \in Requests :
        LET meets == ~r.use /\ \E q \in Procs : Active(q) /\ ~cmd[q].req.use
            c == [q \in Procs |->
                    IF q = p
                    THEN [Idle EXCEPT !.pc = "ask", !.req = r, !.before = file["dest"], !.met = meets]
                    ELSE [cmd[q] EXCEPT !.met = @ \/ (meets /\ Active(q))]]
        IN  IF ~r.use /\ file["dest"] # Nothing /\ ~r.force
            THEN End([cmd EXCEPT ![p] = c[p]], p, "failed", file)
            ELSE /\ cmd' = c
                 /\ file' = IF r.use /\ ~r.cached THEN Becomes(p, Content("part", p)) ELSE file
    /\ UNCHANGED world

\* The key of the image is asked for, and the cache for its entry.
Ask(p) ==
    /\ At(p, "ask")
    /\ Goto(p, IF cmd[p].req.cached THEN "cached" ELSE "open")
    /\ UNCHANGED <<file, world>>

\* The reference, the credentials or the platform are not accepted, or the server does
\* not give the key, the image or (oras) at the end its digest.
Refused(p) ==
    /\ At(p, "ask") \/ At(p, "digest") \/ (At(p, "open") /\ ~By(p).early)
    /\ Ends(p, "failed")
    /\ MayFail

-----------------------------------------------------------------------------
(* Through the cache. *)

\* Where PullToFile goes on with the image that it has.
AfterImage(r) ==
    IF Transport[r.by].signed THEN "verify"
    ELSE IF r.sandbox THEN (IF r.cached THEN "box" ELSE "aside") ELSE "over"

FromCache(p) ==
    /\ At(p, "cached")
    /\ entries' = entries \cup {p}
    /\ LET r == cmd[p].req
       IN  IF r.use THEN Ends(p, "ok")
           ELSE Goto(p, IF r.sandbox THEN AfterImage(r) ELSE "copy") /\ UNCHANGED file
    /\ UNCHANGED <<fails, kills>>

CacheFails(p) ==
    /\ At(p, "cached") /\ fails < MaxFails
    /\ fails' = fails + 1
    /\ entries' \in {entries, entries \cup {p}}
    /\ Ends(p, "failed")
    /\ UNCHANGED kills

\* `cache clean'.
Clean(p) ==
    /\ p \in entries
    /\ entries' = entries \ {p}
    /\ UNCHANGED <<file, cmd, fails, kills>>

\* CopyFileAtomic makes a temporary file beside the path, and opens the entry.
CopyOpen(p) ==
    /\ At(p, "copy")
    /\ IF p \in entries
       THEN /\ cmd' = [cmd EXCEPT ![p].pc = "copying", ![p].left = @ \cup {"tmp-copy-"}]
            /\ UNCHANGED file
       ELSE Ends(p, "failed")
    /\ UNCHANGED world

CopyFails(p) == At(p, "copying") /\ Fails(p, "tmp-copy-") /\ MayFail

\* Mutant: the image is copied to the path itself.
CopyInPlace(p) ==
    /\ At(p, "copying")
    /\ cmd' = [cmd EXCEPT ![p].pc = "transfer", ![p].left = {}, ![p].open = "named"]
    /\ file' = Becomes("dest", Content("part", p))
    /\ UNCHANGED world

\* The copy gets the name, unless that is a directory's.
CopyRename(p) ==
    /\ At(p, "copying")
    /\ LET next == AfterImage(cmd[p].req)
           c == [Deferred(Unname(cmd, "dest"), p, "tmp-copy-") EXCEPT ![p].pc = next]
           f == Becomes("dest", Content("whole", p))
       IN  IF IsDir(file["dest"]) THEN Fails(p, "tmp-copy-")
           ELSE IF next = "over" THEN End(c, p, "ok", f) ELSE cmd' = c /\ file' = f
    /\ UNCHANGED world

-----------------------------------------------------------------------------
(* Directly to the target. *)

\* The file, opened and emptied, or created, where others may be writing to it.
Opened(p) ==
    LET shared == \E q \in Procs \ {p} : cmd[q].open = "named" /\ Target(q) = Target(p)
    IN  Becomes(Target(p), Content(IF shared THEN "mixed" ELSE "part", p))

\* DownloadImage of library, net, ipfs and shub.  The library's opens the file first,
\* and then reads the settings of the download.
Open(p) ==
    /\ At(p, "open") /\ ~By(p).built /\ ~By(p).spooled
    /\ IF IsDir(file[Target(p)]) THEN Ends(p, "failed")
       ELSE /\ file' = Opened(p)
            /\ cmd' = [cmd EXCEPT ![p].open = "named",
                                  ![p].pc = IF By(p).early THEN "config" ELSE "transfer"]
    /\ UNCHANGED world

Config(p) == At(p, "config") /\ Goto(p, "transfer") /\ UNCHANGED <<file, world>>
ConfigFails(p) == At(p, "config") /\ Ends(p, "failed") /\ MayFail

\* DownloadImage of oras: a single layer, a temporary layout for it, and then the file.
Spool(p) ==
    /\ At(p, "open") /\ By(p).spooled
    /\ cmd' = [cmd EXCEPT ![p].pc = "spool", ![p].left = @ \cup {"oras-tmp-"}]
    /\ UNCHANGED <<file, world>>

SpoolFails(p) == At(p, "spool") /\ Fails(p, "oras-tmp-") /\ MayFail

CopyOut(p) ==
    /\ At(p, "spool")
    /\ IF IsDir(file[Target(p)]) THEN Fails(p, "oras-tmp-")
       ELSE /\ file' = Opened(p)
            /\ cmd' = [cmd EXCEPT ![p].open = "named", ![p].pc = "transfer"]
    /\ UNCHANGED world

\* convertOciToSIF: the build removes what is at the path "at last moment" and creates
\* the file anew (createSIF).
Assemble(p) ==
    /\ At(p, "open") /\ By(p).built
    /\ file' = Becomes(Target(p), Content("part", p))
    /\ cmd' = [Unname(cmd, Target(p)) EXCEPT ![p].open = "named", ![p].pc = "transfer"]
    /\ UNCHANGED world

TransferDone(p) ==
    /\ At(p, "transfer")
    /\ LET mine == cmd[p].open = "named" /\ file[Target(p)] = Content("part", p)
       IN  /\ file' = IF mine THEN Becomes(Target(p), Content("whole", p)) ELSE file
           /\ cmd' = [cmd EXCEPT ![p].open = "no",
                                 ![p].pc = IF By(p).spooled THEN "check"
                                           ELSE IF By(p).sized THEN "size" ELSE "got"]
    /\ UNCHANGED world

\* A transfer that breaks, or, but for oci, is interrupted: whatever has the name now
\* is removed.
TransferFails(p) ==
    /\ At(p, "transfer")
    /\ IF By(p).removes /\ ~IsDir(file[Target(p)])
       THEN End(Unname(cmd, Target(p)), p, "failed", Becomes(Target(p), Nothing))
       ELSE Fails(p, "oras-tmp-")
    /\ MayFail

\* shub: "Simple check to make sure image received is the correct size".
Size(p) ==
    /\ At(p, "size")
    /\ \/ file[Target(p)] # Nothing /\ Goto(p, "got") /\ UNCHANGED file
       \/ file[Target(p)] # Content("whole", p) /\ Ends(p, "failed")
    /\ UNCHANGED world

\* oras: ensureSIF; what is not a SIF image is removed.
EnsureSIF(p) ==
    /\ At(p, "check")
    /\ file[Target(p)].kind \in {"whole", "mixed", "part"}
    /\ cmd' = [Deferred(cmd, p, "oras-tmp-") EXCEPT ![p].pc = "hash"]
    /\ UNCHANGED <<file, world>>

NotSIF(p) ==
    /\ At(p, "check")
    /\ End(Deferred(Unname(cmd, Target(p)), p, "oras-tmp-"), p, "failed", Becomes(Target(p), Nothing))
    /\ IF file[Target(p)].kind = "whole" THEN MayFail ELSE UNCHANGED world

\* Size and hash are compared with those that the server gave at first.
ImageHash(p) ==
    /\ At(p, "hash")
    /\ file[Target(p)] = Content("whole", p)
    /\ Goto(p, "digest")
    /\ UNCHANGED <<file, world>>

HashDiffers(p) ==
    /\ At(p, "hash")
    /\ Ends(p, "failed")
    /\ IF file[Target(p)] = Content("whole", p) THEN MayFail ELSE UNCHANGED world

Digest(p) == At(p, "digest") /\ Goto(p, "got") /\ UNCHANGED <<file, world>>

Got(p) ==
    /\ At(p, "got")
    /\ LET next == AfterImage(cmd[p].req)
       IN  IF cmd[p].req.use \/ next = "over" THEN Ends(p, "ok")
           ELSE Goto(p, next) /\ UNCHANGED file
    /\ UNCHANGED world

-----------------------------------------------------------------------------
\* PullToFile of the library: an image whose signature is not verified is kept, and
\* the command ends well, without a sandbox.
Verify(p) ==
    /\ At(p, "verify")
    /\ LET r == cmd[p].req
           readable == IF r.cached THEN p \in entries ELSE file["dest"] = Content("whole", p)
       IN  IF r.unsigned \/ ~readable \/ ~r.sandbox THEN Ends(p, "ok")
           ELSE Goto(p, IF r.cached THEN "box" ELSE "aside") /\ UNCHANGED file
    /\ UNCHANGED world

\* ConvertSifToSandbox: the image makes room for the sandbox, `build -F --sandbox' runs
\* on it, and the renamed image is removed.
Aside(p) ==
    /\ At(p, "aside")
    /\ IF file["dest"] = Nothing THEN Ends(p, "failed")
       ELSE /\ file' = Becomes("dest", Nothing)
            /\ cmd' = [Unname(cmd, "dest") EXCEPT ![p].pc = "box", ![p].aside = file["dest"],
                                                  ![p].left = @ \cup {"sif"}]
    /\ UNCHANGED world

SourceThere(p) == IF cmd[p].req.cached THEN p \in entries ELSE cmd[p].aside.kind = "whole"

BoxFails(p) ==
    /\ At(p, "box")
    /\ Fails(p, "sif")
    /\ IF SourceThere(p) THEN MayFail ELSE UNCHANGED world

\* The assembler of sandboxes removes what is at the path, and renames the tree.
BoxClear(p) ==
    /\ At(p, "box") /\ SourceThere(p)
    /\ file' = Becomes("dest", Nothing)
    /\ cmd' = [Unname(cmd, "dest") EXCEPT ![p].pc = "place"]
    /\ UNCHANGED world

BoxPlace(p) ==
    /\ At(p, "place")
    /\ IF file["dest"] # Nothing THEN Fails(p, "sif")
       ELSE End(Deferred(cmd, p, "sif"), p, "ok",
                Becomes("dest", Content("box", IF cmd[p].req.cached THEN p ELSE cmd[p].aside.by)))
    /\ UNCHANGED world

\* A command is killed, which the interrupt of an oci build comes to (build.go:265-269).
Kill(p) ==
    /\ Active(p) /\ kills < MaxKills
    /\ kills' = kills + 1
    /\ Ends(p, "killed")
    /\ UNCHANGED <<entries, fails>>

Next ==
    \E p \in Procs :
        \/ Start(p) \/ Ask(p) \/ Refused(p) \/ FromCache(p) \/ CacheFails(p) \/ Clean(p)
        \/ CopyOpen(p) \/ CopyFails(p) \/ CopyRename(p) \/ Open(p) \/ Config(p) \/ ConfigFails(p)
        \/ Spool(p) \/ SpoolFails(p) \/ CopyOut(p) \/ Assemble(p)
        \/ TransferDone(p) \/ TransferFails(p) \/ Size(p) \/ EnsureSIF(p) \/ NotSIF(p)
        \/ ImageHash(p) \/ HashDiffers(p) \/ Digest(p) \/ Got(p)
        \/ Verify(p) \/ Aside(p) \/ BoxFails(p) \/ BoxClear(p) \/ BoxPlace(p) \/ Kill(p)

Spec == Init /\ [][Next]_vars

-----------------------------------------------------------------------------
\* A pull that no other pull to the path met, and that ended well, left its image there,
\* in the format that was asked for.  The one exception is the library's --sandbox of an
\* image whose signature is not verified: the command ends well before the sandbox.
LeavesItsImage(p) ==
    LET r == cmd[p].req
    IN  cmd[p].end = "ok" /\ ~r.use /\ ~cmd[p].met
        => \/ cmd[p].saw = Content(IF r.sandbox THEN "box" ELSE "whole", p)
           \/ Transport[r.by].signed /\ r.sandbox /\ (r.unsigned \/ p \notin entries)

\* Without --force the path keeps what it had.  A pull through the cache that fails, or
\* is killed, leaves the path as it was (a sandbox's excepted, whose build clears it),
\* and one past the cache leaves no part of an image: only oras, which does not
\* remove what it could not copy, and library, when its settings are wrong, do.
SparesThePath(p) ==
    LET r == cmd[p].req
        saw == cmd[p].saw
    IN  cmd[p].end \in {"failed", "killed"} /\ ~r.use /\ ~cmd[p].met
        => /\ cmd[p].before # Nothing /\ ~r.force => saw = cmd[p].before
           /\ r.cached /\ ~r.sandbox =>
                saw = cmd[p].before \/ (cmd[p].end = "killed" /\ saw = Content("whole", p))
           /\ cmd[p].end = "failed" /\ saw = Content("part", p) => Transport[r.by].spooled \/ Transport[r.by].early

\* Pulls through the cache, at the same time and to one path, never show a part of an
\* image: each of them replaces the file as a whole.
ReplacedAsAWhole ==
    (\A p \in Procs : LET r == cmd[p].req IN r.use \/ (r.cached /\ ~r.sandbox))
    => file["dest"].kind \notin {"part", "mixed"}

\* The image of a command that only needs it is whole, whoever else pulls: the
\* temporary file is its own.
OwnImage(p) ==
    cmd[p].end = "ok" /\ cmd[p].req.use /\ ~cmd[p].req.cached => file[p] = Content("whole", p)

\* A command that was not killed leaves no temporary file of a copy, no layout of oras
\* and no renamed image.
NothingLeft(p) == cmd[p].end \in {"ok", "failed"} => cmd[p].left = {}

\* What a pull leaves at its path (pullRun and the functions PullToFile and Pull).
PullsLand ==
    /\ ReplacedAsAWhole
    /\ \A p \in Procs : LeavesItsImage(p) /\ SparesThePath(p) /\ OwnImage(p) /\ NothingLeft(p)
=============================================================================
