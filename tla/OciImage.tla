------------------------------ MODULE OciImage ------------------------------
(***************************************************************************)
(* FetchToLayout of internal/pkg/ociimage: commands that fetch OCI images  *)
(* into a layout at the same time.  A daemon's image is saved as an        *)
(* archive, an archive that is an OCI layout is extracted, the source is   *)
(* opened, and the image is copied to the cache, which is one layout for   *)
(* all images and has no lock, or to a layout of the command's own.        *)
(*                                                                         *)
(* A layout is written by a library: the blobs of an image, each in place  *)
(* unless one of its size is there, then index.json, read and rewritten    *)
(* with the image appended.                                                *)
(***************************************************************************)
EXTENDS Integers, Sequences, FiniteSets, SequencesExt

CONSTANTS
    Procs,      \* commands that fetch
    Sources,    \* what a command may be asked to fetch, see Start
    BlobsOf,    \* the blobs of an image: layers, configuration and manifest
    Platform,   \* the platform asked for
    Earlier,    \* what earlier commands left: the cache, and whether one was killed
    MaxFetches, \* bound: fetches in all
    MaxKills    \* bound: commands that are killed

VARIABLES
    lay,        \* the layouts: of the cache, and the temporary one of a command
    cmd,        \* what each command does
    temps,      \* files and directories in the temporary directory
    fetches, kills

vars == <<lay, cmd, temps, fetches, kills>>

Cache == "cache"
None == "none"

\* index.json is missing, or cut short, or lists images; a blob with a gap has its size.
NoLayout == [index |-> "none", images |-> <<>>, whole |-> {}, gap |-> {}]
Idle == [at |-> "idle"]
Nothing == [scheme |-> "none"]          \* the source is not used any more

Init ==
    /\ \E e \in Earlier :
         /\ lay = [l \in Procs \cup {Cache} |-> IF l = Cache THEN e.cache ELSE NoLayout]
         /\ kills = e.kills
    /\ cmd = [p \in Procs |-> Idle]
    /\ temps = {} /\ fetches = 0

At(p, step) == cmd[p].at = step
Active(p) == cmd[p].at \notin {"idle", "done", "failed", "killed"}
Layout(p) == lay[cmd[p].layout]

Goto(p, step) == cmd' = [cmd EXCEPT ![p].at = step]

-----------------------------------------------------------------------------
(***************************************************************************)
(* The source.                                                             *)
(***************************************************************************)

FirstStep(scheme) ==
    CASE scheme = "docker-daemon" -> "save"
      [] scheme = "docker-archive" -> "archive"
      [] scheme = "oci-archive" -> "extract"
      [] OTHER -> "open"

\* A fetch begins, with the cache or, where it is disabled, a layout of its own.  The
\* fetches that are under way with it are not alone.
Start(p) ==
    /\ ~Active(p) /\ fetches < MaxFetches
    /\ \E s \in Sources, l \in {Cache, p} :
         cmd' = [q \in Procs |->
                   IF q = p
                   THEN [at |-> FirstStep(s.scheme), src |-> s, layout |-> l, image |-> None,
                         have |-> {}, blob |-> None, read |-> <<>>, why |-> None,
                         alone |-> \A r \in Procs : ~Active(r)]
                   ELSE IF Active(q) THEN [cmd[q] EXCEPT !.alone = FALSE]
                   ELSE cmd[q]]
         /\ lay' = [lay EXCEPT ![p] = NoLayout]
    /\ fetches' = fetches + 1
    /\ UNCHANGED <<temps, kills>>

\* The temporary directory of an extraction is removed when the fetch returns.
Return(p, step, why) ==
    /\ cmd' = [cmd EXCEPT ![p].at = step, ![p].why = why, ![p].src = Nothing,
                          ![p].have = {}, ![p].blob = None]
    /\ temps' = temps \ {<<p, "dir">>}

\* saveArchive: the daemon's image in a temporary file, that is fetched as an archive.
SaveArchive(p) ==
    /\ At(p, "save")
    /\ temps' = temps \cup {<<p, "tar">>}
    /\ cmd' = [cmd EXCEPT ![p].at = "archive", ![p].src.tag = FALSE]
    /\ UNCHANGED <<lay, fetches, kills>>

\* ociArchive: a docker archive that holds an OCI layout is taken as one.  The reader of
\* a compressed one starts after what was looked at, and finds no header.
OciArchive(p) ==
    /\ At(p, "archive")
    /\ IF cmd[p].src.gz THEN Return(p, "failed", "source")
       ELSE Goto(p, IF cmd[p].src.oci THEN "extract" ELSE "open") /\ UNCHANGED temps
    /\ UNCHANGED <<lay, fetches, kills>>

\* extractArchive: every file of the archive has to be below the directory.
ExtractArchive(p) ==
    /\ At(p, "extract")
    /\ IF cmd[p].src.gz \/ cmd[p].src.outside THEN Return(p, "failed", "source")
       ELSE Goto(p, "open") /\ temps' = temps \cup {<<p, "dir">>}
    /\ UNCHANGED <<lay, fetches, kills>>

\* getPlatformImage: the first image of the index for the platform, if its blobs are
\* there; attestations are passed over.
PlatformImage(index) ==
    LET fit == SelectSeq(index, LAMBDA m : m.platform = Platform)
    IN IF fit = <<>> \/ ~Head(fit).there THEN None ELSE Head(fit).image

\* getOCIImage without a digest: the one manifest of the layout.
OCIImage(manifests) ==
    IF Len(manifests) # 1 THEN None
    ELSE IF manifests[1].index # <<>> THEN PlatformImage(manifests[1].index)
    ELSE manifests[1].image

\* getDockerImage: the first mirror of the registry instead of it, where the name of
\* the image can be written with it.
DockerImage(s) == IF s.mirror = "none" \/ s.mirror = "bad name" THEN s.image ELSE s.mirror

\* SourceSink.Image.  A tag is part of the path of a layout or an archive here.
SourceImage(s) ==
    IF s.scheme = "docker" THEN DockerImage(s)
    ELSE IF s.tag THEN None
    ELSE IF s.scheme \in {"oci", "oci-archive"} \/ s.oci THEN OCIImage(s.manifests)
    ELSE s.image

Open(p) ==
    /\ At(p, "open")
    /\ LET i == SourceImage(cmd[p].src)
       IN IF i = None THEN Return(p, "failed", "source")
          ELSE /\ cmd' = [cmd EXCEPT ![p].at = "layout", ![p].image = i, ![p].src = Nothing]
               /\ UNCHANGED temps
    /\ UNCHANGED <<lay, fetches, kills>>

\* The source fails: the daemon, the registry, the disk.
SourceFails(p) ==
    /\ \/ At(p, "save") \/ At(p, "archive") \/ At(p, "extract") \/ At(p, "open")
       \/ At(p, "blobs")
    /\ Return(p, "failed", "source")
    /\ UNCHANGED <<lay, fetches, kills>>

-----------------------------------------------------------------------------
(***************************************************************************)
(* WriteImage to a layout.                                                 *)
(***************************************************************************)

SetIndex(p, index, images) ==
    lay' = [lay EXCEPT ![cmd[p].layout].index = index, ![cmd[p].layout].images = images]

\* A layout that has no index is started with an empty one.
FromPath(p) ==
    /\ At(p, "layout")
    /\ IF Layout(p).index = "none"
       THEN Goto(p, "empty") /\ SetIndex(p, "cut", <<>>)
       ELSE Goto(p, "blobs") /\ UNCHANGED lay
    /\ UNCHANGED <<temps, fetches, kills>>
WriteEmpty(p) ==
    /\ At(p, "empty")
    /\ Goto(p, "blobs") /\ SetIndex(p, "ok", <<>>)
    /\ UNCHANGED <<temps, fetches, kills>>

\* A blob of its size is kept, another is written from its beginning.
Missing(p) == BlobsOf[cmd[p].image] \ cmd[p].have
StartBlob(p) ==
    /\ At(p, "blobs") /\ cmd[p].blob = None
    /\ \E b \in Missing(p) :
         IF b \in Layout(p).whole \cup Layout(p).gap
         THEN cmd' = [cmd EXCEPT ![p].have = @ \cup {b}]
         ELSE cmd' = [cmd EXCEPT ![p].blob = b]
    /\ UNCHANGED <<lay, temps, fetches, kills>>

\* The end of a blob is written; while another command is behind, it has a gap.
EndBlob(p) ==
    /\ At(p, "blobs") /\ cmd[p].blob # None
    /\ LET b == cmd[p].blob
           l == cmd[p].layout
           behind == \E q \in Procs \ {p} : At(q, "blobs") /\ cmd[q].layout = l /\ cmd[q].blob = b
       IN /\ lay' = [lay EXCEPT ![l].whole = IF behind THEN @ \ {b} ELSE @ \cup {b},
                                ![l].gap = IF behind THEN @ \cup {b} ELSE @ \ {b}]
          /\ cmd' = [cmd EXCEPT ![p].have = @ \cup {b}, ![p].blob = None]
    /\ UNCHANGED <<temps, fetches, kills>>

\* The index is read, truncated, and written with the image appended.
ReadIndex(p) ==
    /\ At(p, "blobs") /\ Missing(p) = {}
    /\ IF Layout(p).index # "ok" THEN Return(p, "failed", "layout")
       ELSE /\ cmd' = [cmd EXCEPT ![p].at = "truncate", ![p].read = Layout(p).images]
            /\ UNCHANGED temps
    /\ UNCHANGED <<lay, fetches, kills>>
TruncateIndex(p) ==
    /\ At(p, "truncate")
    /\ Goto(p, "append") /\ SetIndex(p, "cut", <<>>)
    /\ UNCHANGED <<temps, fetches, kills>>
AppendImage(p) ==
    /\ At(p, "append")
    /\ Goto(p, "reopen") /\ SetIndex(p, "ok", Append(cmd[p].read, cmd[p].image))
    /\ UNCHANGED <<temps, fetches, kills>>

-----------------------------------------------------------------------------
\* Mutant: the first image of the layout, whatever its digest.
ReopenFirst(p) ==
    /\ At(p, "reopen")
    /\ IF Layout(p).index # "ok" \/ Layout(p).images = <<>>
       THEN Return(p, "failed", "layout") /\ UNCHANGED lay
       ELSE /\ cmd' = [cmd EXCEPT ![p].at = "done", ![p].have = {}, ![p].read = <<Layout(p).images[1]>>]
            /\ temps' = temps \ {<<p, "dir">>} /\ UNCHANGED lay
    /\ UNCHANGED <<fetches, kills>>

\* getOCIImage of what was written: by its digest in the cache, the one image in a
\* layout of the command's own.
Reopen(p) ==
    /\ At(p, "reopen")
    /\ LET l == Layout(p)
           found == IF cmd[p].layout = Cache THEN cmd[p].image \in ToSet(l.images)
                    ELSE Len(l.images) = 1
       IN IF l.index # "ok" \/ ~found THEN Return(p, "failed", "layout")
          ELSE /\ cmd' = [cmd EXCEPT ![p].at = "done", ![p].have = {},
                                     ![p].read = <<IF cmd[p].layout = Cache THEN cmd[p].image
                                                   ELSE l.images[1]>>]
               /\ temps' = temps \ {<<p, "dir">>}
    /\ UNCHANGED <<lay, fetches, kills>>

\* A command is killed: nothing is cleaned up.
Kill(p) ==
    /\ Active(p) /\ kills < MaxKills
    /\ cmd' = [cmd EXCEPT ![p].at = "killed", ![p].src = Nothing, ![p].have = {}, ![p].blob = None]
    /\ kills' = kills + 1
    /\ UNCHANGED <<lay, temps, fetches>>

Next ==
    \E p \in Procs :
        \/ Start(p) \/ SaveArchive(p) \/ OciArchive(p) \/ ExtractArchive(p) \/ Open(p)
        \/ SourceFails(p) \/ FromPath(p) \/ WriteEmpty(p) \/ StartBlob(p) \/ EndBlob(p)
        \/ ReadIndex(p) \/ TruncateIndex(p) \/ AppendImage(p) \/ Reopen(p) \/ Kill(p)

Spec == Init /\ [][Next]_vars

-----------------------------------------------------------------------------
(***************************************************************************)
(* Properties.                                                             *)
(***************************************************************************)

Done(p) == At(p, "done")
\* The image that a fetch hands over is the one of its source, and its blobs are in the
\* layout, whole but for those that two commands wrote at the same time.
HandsOver ==
    \A p \in Procs : Done(p) =>
        /\ cmd[p].read = <<cmd[p].image>>
        /\ BlobsOf[cmd[p].image] \subseteq Layout(p).whole \cup Layout(p).gap

\* A fetch that is alone fails only for what its source is, unless a command was killed
\* in the middle of the index.
AloneSucceeds ==
    \A p \in Procs : At(p, "failed") /\ cmd[p].why = "layout" =>
        \/ ~cmd[p].alone \/ (cmd[p].layout = Cache /\ kills > 0)

\* Of a fetch that returned, only the archive of a daemon's image and the layout stay.
NothingExtractedStays ==
    \A p \in Procs : Done(p) \/ At(p, "failed") => <<p, "dir">> \notin temps

\* A fetch gives the image of its source, whole, or an error: the three above
\* (FetchToLayout, cachedImage).
FetchesAreSound == HandsOver /\ AloneSucceeds /\ NothingExtractedStays

=============================================================================
