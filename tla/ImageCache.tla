----------------------------- MODULE ImageCache -----------------------------
(***************************************************************************)
(* The image cache (internal/pkg/cache) as the pulls of internal/pkg/client*)
(* use it, while others pull the same image and `cache clean` removes      *)
(* entries.  An entry is a file named after a key: a digest, a commit, or  *)
(* a hash of a URL and a date.  The versions of one remote image stand for *)
(* the keys; a file holds a version, wholly or in part.                    *)
(***************************************************************************)
EXTENDS Integers

CONSTANTS
    Procs,       \* the commands that pull
    MaxVersions, \* bound: changes of the remote image
    MaxPulls,    \* bound: pulls of a process in turn
    MaxCleans,   \* bound: runs of `cache clean`
    MaxFails,    \* bound: downloads that fail
    MaxCrashes   \* bound: processes that are killed

\* verify: the file's hash is compared with the key before Finalize.
\* pinned: the content is requested by the key, not by a name that may move.
\* fatal: a failed download exits the process at once, without the defers.
\* linked: the key names a directory, and the file gets an entry of its own.
Library == [verify |-> TRUE, pinned |-> FALSE, fatal |-> FALSE, linked |-> FALSE]
Oras == [verify |-> TRUE, pinned |-> FALSE, fatal |-> FALSE, linked |-> FALSE]
Net == [verify |-> FALSE, pinned |-> FALSE, fatal |-> TRUE, linked |-> FALSE]
Ipfs == [verify |-> FALSE, pinned |-> TRUE, fatal |-> TRUE, linked |-> TRUE]
Shub == [verify |-> FALSE, pinned |-> TRUE, fatal |-> FALSE, linked |-> FALSE]
Oci == [verify |-> FALSE, pinned |-> FALSE, fatal |-> FALSE, linked |-> FALSE]

Kinds == {Library, Oras, Net, Ipfs, Shub, Oci}

ASSUME CacheAssumption ==
    /\ MaxVersions \in Nat /\ MaxPulls \in Nat /\ MaxCleans \in Nat
    /\ MaxFails \in Nat /\ MaxCrashes \in Nat

Versions == 0 .. MaxVersions
FileKey(k) == -1 - k            \* the key of the file inside the directory k
Keys == Versions \cup {FileKey(k) : k \in Versions}

VARIABLES
    kind,     \* how the image is pulled
    old,      \* an entry of an older release, a directory, was in the cache
    remote,   \* the version that the server has
    entry,    \* the files of the cache, by key
    tmp,      \* the file at TmpPath of each process
    extra,    \* the process has the empty tmp_ file of fileCacheEntry
    pc, key,  \* of each process
    got,      \* the image that its last pull gave
    pulls, fails, crashes,
    listed,   \* CleanCache: names that are still to be removed
    cleans

vars == <<kind, old, remote, entry, tmp, extra, pc, key, got, pulls, fails, crashes,
          listed, cleans>>
proc == <<pc, key, got, pulls>>

File(k, v) == [kind |-> k, v |-> v]
Missing == File("none", 0)
Files == [kind : {"none", "part", "whole", "link", "dir"}, v : Versions]

Labels == {"idle", "dir", "rmdir", "stat", "isfile", "request", "download", "verify",
           "finalize", "file", "move", "symlink", "open", "failed", "done"}

TypeOK ==
    /\ kind \in Kinds /\ old \in BOOLEAN
    /\ remote \in Versions
    /\ entry \in [Keys -> Files] /\ tmp \in [Procs -> Files] /\ extra \subseteq Procs
    /\ pc \in [Procs -> Labels]
    /\ key \in [Procs -> Versions]
    /\ got \in [Procs -> Files]
    /\ pulls \in [Procs -> 0 .. MaxPulls] /\ fails \in 0 .. MaxFails /\ crashes \in 0 .. MaxCrashes
    /\ listed \subseteq (Keys \cup Procs) /\ cleans \in 0 .. MaxCleans

Init ==
    /\ kind \in Kinds /\ old \in BOOLEAN
    /\ remote = 0
    /\ entry = [k \in Keys |-> IF old /\ k = 0 THEN File("dir", 0) ELSE Missing]
    /\ tmp = [p \in Procs |-> Missing] /\ extra = {}
    /\ pc = [p \in Procs |-> "idle"] /\ key = [p \in Procs |-> 0]
    /\ got = [p \in Procs |-> Missing]
    /\ pulls = [p \in Procs |-> 0] /\ fails = 0 /\ crashes = 0
    /\ listed = {} /\ cleans = 0

\* stat(2) follows the link of a directory's key to the file's entry, which
\* is a loop when that entry is a link too.
Stat(k) ==
    IF k \in Versions /\ entry[k].kind = "link" THEN entry[FileKey(k)] ELSE entry[k]

Goto(p, l) == pc' = [pc EXCEPT ![p] = l]
cache == <<entry, tmp, extra>>
setting == <<kind, old>>
world == <<setting, remote, fails, crashes, listed, cleans>>

-----------------------------------------------------------------------------
\* The key of the image is asked for: its hash, its date, its digest.
PullStart(p) ==
    /\ pc[p] \in {"idle", "done", "failed"} /\ pulls[p] < MaxPulls
    /\ pulls' = [pulls EXCEPT ![p] = @ + 1]
    /\ key' = [key EXCEPT ![p] = remote]
    /\ got' = [got EXCEPT ![p] = Missing]
    /\ Goto(p, "dir")
    /\ UNCHANGED <<cache, world>>

\* GetEntry looks for a directory of an older release, removes what it
\* finds at the path, and then looks for a file.
GetEntryDir(p) ==
    /\ pc[p] = "dir"
    /\ Goto(p, IF Stat(key[p]).kind = "dir" THEN "rmdir" ELSE "stat")
    /\ UNCHANGED <<cache, world, key, got, pulls>>

GetEntryRemove(p) ==
    /\ pc[p] = "rmdir"
    /\ entry' = [entry EXCEPT ![key[p]] = Missing]
    /\ Goto(p, "stat")
    /\ UNCHANGED <<tmp, extra, world, key, got, pulls>>

\* PathExists.  Without a file the entry gets a temporary file; a link that leads
\* only to itself is an error.
GetEntryStat(p) ==
    /\ pc[p] = "stat"
    /\ LET found == Stat(key[p]).kind
       IN  /\ Goto(p, IF found = "none" THEN "request"
                      ELSE IF found = "link" THEN "failed" ELSE "isfile")
           /\ tmp' = IF found = "none" THEN [tmp EXCEPT ![p] = File("part", key[p])] ELSE tmp
    /\ UNCHANGED <<entry, extra, world, key, got, pulls>>

\* "Double check that there isn't something else weird there", or nothing any more.
GetEntryIsFile(p) ==
    /\ pc[p] = "isfile"
    /\ Goto(p, IF Stat(key[p]).kind \in {"part", "whole"} THEN "open" ELSE "failed")
    /\ UNCHANGED <<cache, world, key, got, pulls>>

\* DownloadImage asks the server, and then opens the file or creates it again.
Download(p) ==
    /\ pc[p] = "request"
    /\ tmp' = [tmp EXCEPT ![p] = File("part", IF kind.pinned THEN key[p] ELSE remote)]
    /\ Goto(p, "download")
    /\ UNCHANGED <<entry, extra, world, key, got, pulls>>

\* A file that was removed meanwhile is written to without a name.
DownloadDone(p) ==
    /\ pc[p] = "download"
    /\ tmp' = IF tmp[p].kind = "none" THEN tmp ELSE [tmp EXCEPT ![p].kind = "whole"]
    /\ Goto(p, IF kind.verify THEN "verify" ELSE "finalize")
    /\ UNCHANGED <<entry, extra, world, key, got, pulls>>

\* CleanTmp, the deferred call of every pull.
CleanTmp(p) == tmp' = [tmp EXCEPT ![p] = Missing] /\ extra' = extra \ {p}

\* A request that is refused leaves the file of GetEntry alone; a transfer
\* that breaks removes its file.  Where the error is fatal nothing is
\* deferred any more.
DownloadFails(p) ==
    /\ pc[p] \in {"request", "download"} /\ fails < MaxFails
    /\ fails' = fails + 1
    /\ IF kind.fatal /\ pc[p] = "request" THEN UNCHANGED <<tmp, extra>> ELSE CleanTmp(p)
    /\ Goto(p, "failed")
    /\ UNCHANGED <<entry, setting, remote, crashes, listed, cleans, key, got, pulls>>

\* Mutant: the hash is not compared.
VerifyNone(p) ==
    /\ pc[p] = "verify"
    /\ Goto(p, "finalize")
    /\ UNCHANGED <<cache, world, key, got, pulls>>

\* The hash of the downloaded file must be the one that was asked for.
Verify(p) ==
    /\ pc[p] = "verify"
    /\ IF tmp[p] = File("whole", key[p])
       THEN Goto(p, "finalize") /\ UNCHANGED <<tmp, extra>>
       ELSE Goto(p, "failed") /\ CleanTmp(p)
    /\ UNCHANGED <<entry, world, key, got, pulls>>

\* Mutant: an entry that exists is an error.
FinalizeOnce(p) ==
    /\ pc[p] = "finalize"
    /\ IF tmp[p].kind = "none" \/ entry[key[p]].kind # "none"
       THEN Goto(p, "failed") /\ CleanTmp(p) /\ UNCHANGED entry
       ELSE /\ entry' = [entry EXCEPT ![key[p]] = tmp[p]]
            /\ tmp' = [tmp EXCEPT ![p] = Missing]
            /\ Goto(p, IF kind.linked THEN "file" ELSE "open")
            /\ UNCHANGED extra
    /\ UNCHANGED <<world, key, got, pulls>>

\* Finalize renames the file, over an entry that another pull has made.
Finalize(p) ==
    /\ pc[p] = "finalize"
    /\ IF tmp[p].kind = "none"
       THEN Goto(p, "failed") /\ CleanTmp(p) /\ UNCHANGED entry
       ELSE /\ entry' = [entry EXCEPT ![key[p]] = tmp[p]]
            /\ tmp' = [tmp EXCEPT ![p] = Missing]
            /\ Goto(p, IF kind.linked THEN "file" ELSE "open")
            /\ UNCHANGED extra
    /\ UNCHANGED <<world, key, got, pulls>>

\* Where the key names a directory, a second entry is asked for, the file is
\* moved there, and the key becomes a link to it.
FileEntry(p) ==
    /\ pc[p] = "file"
    /\ IF Stat(FileKey(key[p])).kind = "link"
       THEN Goto(p, "failed") /\ CleanTmp(p)
       ELSE /\ extra' = IF Stat(FileKey(key[p])).kind = "none" THEN extra \cup {p} ELSE extra
            /\ Goto(p, "move")
            /\ UNCHANGED tmp
    /\ UNCHANGED <<entry, world, key, got, pulls>>

Move(p) ==
    /\ pc[p] = "move"
    /\ IF entry[key[p]].kind = "none"
       THEN Goto(p, "failed") /\ CleanTmp(p) /\ UNCHANGED entry
       ELSE /\ entry' = [entry EXCEPT ![FileKey(key[p])] = entry[key[p]], ![key[p]] = Missing]
            /\ Goto(p, "symlink")
            /\ UNCHANGED <<tmp, extra>>
    /\ UNCHANGED <<world, key, got, pulls>>

Symlink(p) ==
    /\ pc[p] = "symlink"
    /\ CleanTmp(p)
    /\ IF entry[key[p]].kind # "none"
       THEN Goto(p, "failed") /\ UNCHANGED entry
       ELSE /\ entry' = [entry EXCEPT ![key[p]] = File("link", 0)]
            /\ Goto(p, "open")
    /\ UNCHANGED <<world, key, got, pulls>>

\* Mutant: the path is looked up again by the name of the image.
CopyAgain(p) ==
    /\ pc[p] = "open"
    /\ LET k == IF Stat(remote).kind = "whole" THEN remote ELSE key[p]
       IN  IF Stat(k).kind \in {"part", "whole"}
           THEN got' = [got EXCEPT ![p] = Stat(k)] /\ Goto(p, "done")
           ELSE Goto(p, "failed") /\ UNCHANGED got
    /\ UNCHANGED <<cache, world, key, pulls>>

\* CopyFileAtomic opens the path that the pull returned.
Copy(p) ==
    /\ pc[p] = "open"
    /\ IF Stat(key[p]).kind \in {"part", "whole"}
       THEN got' = [got EXCEPT ![p] = Stat(key[p])] /\ Goto(p, "done")
       ELSE Goto(p, "failed") /\ UNCHANGED got
    /\ UNCHANGED <<cache, world, key, pulls>>

-----------------------------------------------------------------------------
\* CleanCache lists the directory and then removes name after name; with
\* --days it spares the younger ones.
CleanList ==
    /\ listed = {} /\ cleans < MaxCleans
    /\ cleans' = cleans + 1
    /\ listed' = {k \in Keys : entry[k].kind # "none"} \cup
                 {p \in Procs : tmp[p].kind # "none" \/ p \in extra}
    /\ UNCHANGED <<cache, proc, setting, remote, fails, crashes>>

CleanEntry(k) ==
    /\ k \in listed
    /\ listed' = listed \ {k}
    /\ entry' \in {entry, [entry EXCEPT ![k] = Missing]}
    /\ UNCHANGED <<tmp, extra, proc, setting, remote, fails, crashes, cleans>>

CleanFile(p) ==
    /\ p \in listed
    /\ listed' = listed \ {p}
    /\ CleanTmp(p) \/ UNCHANGED <<tmp, extra>>
    /\ UNCHANGED <<entry, proc, setting, remote, fails, crashes, cleans>>

\* A command is killed anywhere, and not run again.  The build of an oci image that
\* is interrupted exits at once (build.go:265-269) and is a command that is killed.
Crash(p) ==
    /\ pc[p] \notin {"idle", "done", "failed"} /\ crashes < MaxCrashes
    /\ crashes' = crashes + 1
    /\ pulls' = [pulls EXCEPT ![p] = MaxPulls]
    /\ Goto(p, "failed")
    /\ UNCHANGED <<cache, setting, remote, fails, listed, cleans, key, got>>

\* The owner of the image publishes another version.
Publish ==
    /\ remote < MaxVersions
    /\ remote' = remote + 1
    /\ UNCHANGED <<cache, proc, setting, fails, crashes, listed, cleans>>

Pull(p) ==
    \/ PullStart(p) \/ GetEntryDir(p) \/ GetEntryRemove(p) \/ GetEntryStat(p)
    \/ GetEntryIsFile(p) \/ Download(p) \/ DownloadDone(p) \/ DownloadFails(p) \/ Verify(p) \/ Finalize(p)
    \/ FileEntry(p) \/ Move(p) \/ Symlink(p) \/ Copy(p)

Next ==
    \/ \E p \in Procs : Pull(p) \/ Crash(p) \/ CleanFile(p)
    \/ CleanList \/ (\E k \in Keys : CleanEntry(k)) \/ Publish

Spec == Init /\ [][Next]_vars

-----------------------------------------------------------------------------
\* The content of a file is tied to the key.
Tied == kind.verify \/ kind.pinned

\* A file is whole, and has the content of the key k where it is tied to it.
Good(f, k) == f.kind = "whole" /\ (Tied => f.v = k)

\* What a pull hands over is a whole image, and where it is tied to the key it
\* is the version whose key the pull was told: whoever else pulls, cleans or
\* is killed, an image half written or of another key never gets out.
GivesItsImage ==
    \A p \in Procs : pc[p] = "done" => Good(got[p], key[p])

\* A file that sits at the path of an entry, or of the entry of the file inside
\* it, is whole and, where it is tied to the key, has the key's content, at any
\* time and after any kill.
EntriesAreSound ==
    \A k \in Versions : \A f \in {entry[k], entry[FileKey(k)]} :
        f.kind \in {"part", "whole"} => Good(f, k)

\* A pull that has ended, and was not killed, leaves no temporary file
\* behind: CleanTmp "will remove any temporary file".  A failed download of
\* the net and ipfs sources is excepted, as it exits before the deferred call.
NoTmpLeft ==
    crashes = 0 /\ (kind.fatal => fails = 0) => \A p \in Procs :
        pc[p] \in {"done", "failed"} => tmp[p].kind = "none" /\ p \notin extra

\* Pulls at the same time do not disturb each other: each of them ends well,
\* while no download fails, nobody cleans, the image stays what its hash says,
\* and the cache neither has a directory of an older release (which one pull
\* may remove when another has already replaced it) nor links between entries.
ConcurrentPullsSucceed ==
    /\ fails = 0 /\ crashes = 0 /\ cleans = 0
    /\ ~old /\ ~kind.linked /\ (kind.verify => remote = 0)
    => \A p \in Procs : pc[p] # "failed"

\* Pulls end well and leave nothing behind, with the exceptions of the two above.
PullsEndWell == NoTmpLeft /\ ConcurrentPullsSucceed
=============================================================================
