--------------------------- MODULE SessionLayout ----------------------------
(***************************************************************************)
(* What the creation of a container keeps in memory and does to the        *)
(* kernel's tables: the list of mount points by tag with its hooks         *)
(* (internal/pkg/util/fs/mount), the layout of the session directory       *)
(* (internal/pkg/util/fs/layout) with its overlay and underlay layers, and *)
(* the mounts of the namespace of the RPC server.                          *)
(*                                                                         *)
(* Operators take the record c of all this and return the new one; an      *)
(* error is c.err # "none" and what follows it does nothing, as the early  *)
(* returns of the code.  A path is a sequence of names, <<>> is "/".       *)
(***************************************************************************)
EXTENDS Integers, Sequences, FiniteSets, SequencesExt, TLC

Tags == <<"session", "rootfs", "imagebind", "prelayer", "layer", "shared", "dev", "hostfs",
          "binds", "kernel", "home", "tmp", "scratch", "files", "userbinds", "cwd", "other",
          "final">>
OnePoint == {"session", "rootfs", "layer", "home", "cwd"}
TagSet == {Tags[i] : i \in 1..Len(Tags)}

Session == <<"session">>
RootFs == <<"rootfs">>
Final == <<"final">>
S(p) == Session \o p
Dir(p) == IF p = <<>> THEN p ELSE Front(p)

\* The elements of a set, in some order.
Listed(set) == FoldSet(LAMBDA x, seq : Append(seq, x), <<>>, set)

Ok(c) == c.err = "none"
Fail(c, why) == IF Ok(c) THEN [c EXCEPT !.err = why] ELSE c

-----------------------------------------------------------------------------
(***************************************************************************)
(* Mount points.                                                           *)
(***************************************************************************)

\* A point: what mounts, from where, where, whether it asks for read-only, whether
\* its flags are a bare bind, and the internal option skip-on-error.
Point(kind, src, dst, ro, plain, skip) ==
    [kind |-> kind, src |-> src, dst |-> dst, ro |-> ro, plain |-> plain, skip |-> skip]

Present(c, tag, dst) == \E i \in 1..Len(c.pts[tag]) : c.pts[tag][i].dst = dst

\* Points.add: a destination only once in a tag, and one point where the tag says so.
Add(c, tag, pt) ==
    LET new == pt.kind \notin {"remount", "prop"}
    IN IF ~Ok(c) THEN c
       ELSE IF new /\ Present(c, tag, pt.dst) THEN Fail(c, "exists")
       ELSE IF new /\ tag \in OnePoint /\ Len(c.pts[tag]) = 1 THEN Fail(c, "one")
       ELSE [c EXCEPT !.pts[tag] = Append(@, pt)]

AddBind(c, tag, src, dst, ro) == Add(c, tag, Point("bind", src, dst, ro, FALSE, FALSE))
AddPlain(c, tag, src, dst) == Add(c, tag, Point("bind", src, dst, FALSE, TRUE, FALSE))
AddRemount(c, tag, dst, ro) == Add(c, tag, Point("remount", <<>>, dst, ro, FALSE, FALSE))
AddFS(c, tag, dst) == Add(c, tag, Point("fs", dst, dst, FALSE, FALSE, FALSE))
AddImage(c, tag, img, dst, ro) == Add(c, tag, Point("image", <<img>>, dst, ro, FALSE, FALSE))
AddPropagation(c, tag, dst) == Add(c, tag, Point("prop", <<>>, dst, FALSE, FALSE, FALSE))

\* A bind and its remount: most of the callers, which ignore an error of the remount.
BindRemount(c, tag, src, dst, ro) == AddRemount(AddBind(c, tag, src, dst, ro), tag, dst, ro)

RunBeforeTag(c, tag, hook) == IF Ok(c) THEN [c EXCEPT !.before[tag] = Append(@, hook)] ELSE c
RunAfterTag(c, tag, hook) == IF Ok(c) THEN [c EXCEPT !.after[tag] = Append(@, hook)] ELSE c

PathLen(p) == FoldLeft(LAMBDA n, s : n + Len(s) + 1, 0, p)

\* PointList.Sort: by depth, then by length, and stable.
Sort(pts) ==
    LET less(i, j) == \/ Len(pts[i].dst) < Len(pts[j].dst)
                      \/ /\ Len(pts[i].dst) = Len(pts[j].dst)
                         /\ \/ PathLen(pts[i].dst) < PathLen(pts[j].dst)
                            \/ PathLen(pts[i].dst) = PathLen(pts[j].dst) /\ i < j
        order == SortSeq([i \in 1..Len(pts) |-> i], less)
    IN [i \in 1..Len(pts) |-> pts[order[i]]]

-----------------------------------------------------------------------------
(***************************************************************************)
(* The kernel: mounts, in the order they were made, and directory trees.   *)
(***************************************************************************)

Host == <<"#host">>
Image == <<"#image">>
Overlay == <<"#overlay">>

\* The mount a path is on: the last one at it or above it.
MountOf(c, p) == Max({i \in 1..Len(c.mnts) : IsPrefix(c.mnts[i].dst, p)})

\* The place p on the mount m, and the place of a path.
PlaceOn(m, p) == [fs |-> m.fs, path |-> m.root \o SubSeq(p, Len(m.dst) + 1, Len(p))]
Resolve(c, p) == PlaceOn(c.mnts[MountOf(c, p)], p)

Has(c, place) == place.path \in c.tree[place.fs]
Exists(c, p) == Has(c, Resolve(c, p))
ReadOnly(c, p) == c.mnts[MountOf(c, p)].ro

\* mkdir, open with O_CREAT|O_EXCL, symlink: what exists is left alone.
MakeAt(c, p, place) ==
    IF ~Ok(c) \/ Has(c, place) THEN c
    ELSE IF ~Exists(c, Dir(p)) \/ ReadOnly(c, Dir(p)) THEN Fail(c, "mkdir")
    ELSE [c EXCEPT !.tree[place.fs] = @ \cup {place.path}]
Make(c, p) == MakeAt(c, p, Resolve(c, p))

MountRecord(dst, b, ro, on) == [dst |-> dst, fs |-> b.fs, root |-> b.path, ro |-> ro, on |-> on]

\* A recursive bind brings the mounts below its source along.
BindMount(c, src, dst) ==
    LET below == {i \in 1..Len(c.mnts) : /\ IsPrefix(src, c.mnts[i].dst)
                                         /\ c.mnts[i].dst # src
                                         /\ MountOf(c, c.mnts[i].dst) = i}
        subs == SortSeq(Listed(below), LAMBDA i, j : i < j)
        moved(i) == [c.mnts[i] EXCEPT !.dst = dst \o SubSeq(@, Len(src) + 1, Len(@))]
    IN [c EXCEPT !.mnts = @ \o <<MountRecord(dst, Resolve(c, src), ReadOnly(c, src), {src})>>
                            \o [k \in 1..Len(subs) |-> moved(subs[k])]]

NewFS(c, fs, paths, dst, ro, on) ==
    [c EXCEPT !.tree = [f \in {fs} |-> paths] @@ @,
              !.mnts = Append(@, MountRecord(dst, [fs |-> fs, path |-> <<>>], ro, on))]

\* EvalRelative: the links of the image are followed inside of it.
EvalRelative(c, p) ==
    LET at == {n \in 1..Len(p) : SubSeq(p, 1, n) \in DOMAIN c.links}
    IN IF at = {} THEN p
       ELSE LET n == CHOOSE n \in at : \A k \in at : n <= k
            IN c.links[SubSeq(p, 1, n)] \o SubSeq(p, n + 1, Len(p))

-----------------------------------------------------------------------------
(***************************************************************************)
(* The layout of the session directory.                                    *)
(***************************************************************************)

In(c, p) == p \in DOMAIN c.ent
LayerDir(c) == CASE c.layer = "overlay" -> <<"lower">> [] c.layer = "underlay" -> <<"underlay">>
                 [] OTHER -> <<>>
FinalPath(c) == IF c.layer = "none" THEN S(RootFs) ELSE S(Final)

Overrides(c, p) == IF p \in DOMAIN c.ov THEN c.ov[p] ELSE <<>>

overrideDir(c, p, real) ==
    IF \E i \in 1..Len(Overrides(c, p)) : Overrides(c, p)[i] = real THEN c
    ELSE [c EXCEPT !.ov = [q \in {p} |-> Append(Overrides(c, p), real)] @@ @]

\* Session.OverrideDir: within the directory of the layer.
OverrideDir(c, p, real) == IF Ok(c) THEN overrideDir(c, LayerDir(c) \o p, real) ELSE c

\* createParentDir: each missing directory, the upper one first; one in a directory
\* that a bind overrides is overridden by its place in the source of the bind.
NewDir(c, p) == [c EXCEPT !.ent = [q \in {p} |-> "dir"] @@ @, !.dirs = Append(@, p)]
ParentDir(c, p) ==
    IF In(c, p) THEN c
    ELSE IF Overrides(c, Dir(p)) = <<>> THEN NewDir(c, p)
    ELSE overrideDir(NewDir(c, p), p, Append(Overrides(c, Dir(p))[1], Last(p)))
CreateParentDir(c, path) ==
    FoldLeft(ParentDir, c, [n \in 1..Len(path) |-> SubSeq(path, 1, n)])

AddDir(c, p) ==
    IF ~Ok(c) THEN c ELSE IF In(c, p) \/ p = <<>> THEN Fail(c, "layout") ELSE CreateParentDir(c, p)

\* AddFile and AddSymlink
NewEntry(c, p, type) == [c EXCEPT !.ent = [q \in {p} |-> type] @@ @]
AddEntry(c, p, type) ==
    IF ~Ok(c) THEN c ELSE IF In(c, p) THEN Fail(c, "layout")
    ELSE NewEntry(CreateParentDir(c, Dir(p)), p, type)

\* Manager.sync: the directories in the order they were added, with the ones that
\* override them, then the files, in the directory that overrides theirs.
Synced(c, p) == IF Ok(c) THEN [c EXCEPT !.made = @ \cup {p}] ELSE c
SyncDir(c, p) ==
    IF p \in c.made THEN c ELSE Synced(Make(FoldLeft(Make, c, Overrides(c, p)), S(p)), p)
SyncFile(c, p) ==
    Synced(Make(c, IF Overrides(c, Dir(p)) = <<>> THEN S(p)
                   ELSE Append(Overrides(c, Dir(p))[1], Last(p))), p)
Sync(c) ==
    IF ~Ok(c) THEN c
    ELSE FoldLeft(SyncFile, FoldLeft(SyncDir, c, c.dirs),
                  Listed({p \in DOMAIN c.ent : c.ent[p] # "dir" /\ p \notin c.made}))

AllPoints(c) == FlattenSeq([i \in 1..Len(Tags) |-> c.pts[Tags[i]]])

\* Session.createLayout, after the session is mounted: without a layer, a place in an
\* overridden directory for every bind below it.
AddPlace(c, pt) ==
    IF \/ pt.kind # "bind" \/ In(c, pt.dst) \/ ~Exists(c, pt.src)
       \/ \A n \in 1..(Len(pt.dst) - 1) : Overrides(c, SubSeq(pt.dst, 1, n)) = <<>>
    THEN c
    ELSE IF pt.src \in c.files THEN AddEntry(c, pt.dst, "file") ELSE AddDir(c, pt.dst)
CreateLayout(c) == Sync(FoldLeft(AddPlace, c, AllPoints(c)))

\* The points that a layer makes room for: not a remount, not one of the session.
Wanted(c) == SelectSeq(AllPoints(c), LAMBDA pt : pt.kind # "remount" /\ ~IsPrefix(Session, pt.dst))

\* Both layers: what the image has no place for is added to the layout of the layer.
RoomAt(c, pt, dst, at) ==
    IF ~Ok(c) \/ Exists(c, S(RootFs) \o dst) \/ In(c, at) THEN c
    ELSE IF pt.kind = "fs" THEN IF c.layer = "overlay" THEN AddDir(c, at) ELSE c
    ELSE IF ~Exists(c, pt.src) THEN c
    ELSE IF pt.src \in c.files THEN AddEntry(c, at, "file") ELSE AddDir(c, at)
MakeRoom(c, pt) ==
    RoomAt(c, pt, EvalRelative(c, pt.dst), LayerDir(c) \o EvalRelative(c, pt.dst))
MakeAllRoom(c) == FoldLeft(MakeRoom, c, Wanted(c))

\* Overlay.createOverlay, before the layer is mounted.
CreateOverlay(c) ==
    IF c.pts["rootfs"] = <<>> THEN Fail(c, "rootfs")
    ELSE Sync(MakeAllRoom(Add([c EXCEPT !.lower = Append(@, S(RootFs))], "layer",
                              Point("overlay", <<>>, S(Final), c.upper = <<>>, FALSE, FALSE))))

\* The paths below a place, and those of the image, wherever it is mounted from.
TreeAt(c, place) == {SubSeq(p, Len(place.path) + 1, Len(p)) :
                       p \in {q \in c.tree[place.fs] : IsPrefix(place.path, q)}}
RootTree(c) == TreeAt(c, Resolve(c, S(RootFs)))

\* Underlay.duplicateDir: every entry of the image's directory is bound, or is a link.
DuplicateEntry(c, p, at) ==
    IF In(c, at) THEN c
    ELSE IF p \in DOMAIN c.links THEN AddEntry(c, at, "link")
    ELSE AddPlain(IF p \in c.files THEN AddEntry(c, at, "file") ELSE AddDir(c, at),
                  "prelayer", S(RootFs) \o p, S(at))
DuplicateDir(c, dir) ==
    FoldLeft(LAMBDA d, p : DuplicateEntry(d, p, LayerDir(d) \o p), c,
             Listed({p \in RootTree(c) \cup DOMAIN c.links : /\ Len(p) = Len(dir) + 1
                                                            /\ IsPrefix(dir, p)}))

\* Underlay.createLayer, before the binds of the image are mounted: room for the
\* destinations, then the parents of the new ones duplicated from the top down to the
\* first that a mount covers anyway, then the root.
Destinations(c) == {EvalRelative(c, pt.dst) : pt \in ToSet(Wanted(c))}
Created(c, room, dests) ==
    SortSeq(Listed({p \in dests : In(room, LayerDir(c) \o p) /\ ~Exists(c, S(RootFs) \o p)}),
            LAMBDA p, q : Len(p) < Len(q))
Uncovered(p, dests) ==
    {n \in 1..(Len(p) - 1) : \A k \in 1..(n - 1) : SubSeq(p, 1, k) \notin dests}
DuplicateParent(c, q, dests) ==
    IF q \in dests THEN IF In(c, q) THEN c ELSE AddDir(c, q)
    ELSE DuplicateDir(IF In(c, q) THEN c ELSE AddDir(c, q), q)
DuplicateParents(c, p, dests) ==
    FoldLeft(LAMBDA d, n : DuplicateParent(d, SubSeq(p, 1, n), dests), c,
             [n \in 1..Cardinality(Uncovered(p, dests)) |-> n])
Underlay(c, room, dests) ==
    DuplicateDir(FoldLeft(LAMBDA d, p : DuplicateParents(d, p, dests), room,
                          Created(c, room, dests)), <<>>)
CreateUnderlay(c) ==
    IF c.pts["rootfs"] = <<>> THEN Fail(c, "rootfs")
    ELSE Sync(BindRemount(Underlay(c, MakeAllRoom(c), Destinations(c)),
                          "layer", S(LayerDir(c)), S(Final), TRUE))

=============================================================================
