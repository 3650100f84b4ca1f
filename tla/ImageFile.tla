----------------------------- MODULE ImageFile -----------------------------
(***************************************************************************)
(* An image file that several processes use: the format detection and the  *)
(* locks of pkg/image, "overlay create" (internal/app/apptainer), "sign"   *)
(* (internal/pkg/signature) and the execution control list                 *)
(* (internal/pkg/syecl).                                                   *)
(*                                                                         *)
(* The file has a kind ("none": there is no file), an inode and, when it   *)
(* is a SIF, partitions and signatures.  A bare ext3 image is one data     *)
(* partition.                                                              *)
(* A partition is what it is used for, its filesystem, whether its header  *)
(* is good and its group; the two groups of objects are 1 (the root        *)
(* filesystem's) and 2.  A signature is by a key, of a group, and may fail *)
(* to validate.  Locks are on open file descriptions (F_OFD_SETLK): those  *)
(* of one process conflict with each other as with another's.              *)
(***************************************************************************)
EXTENDS Naturals, Sequences, FiniteSets, SequencesExt

CONSTANTS Procs,      \* processes
          Files,      \* what the file may be at first
          Lists,      \* execution control lists
          Keys,       \* fingerprints
          MaxParts,   \* bound: partitions of the file
          MaxSigs     \* bound: signatures added

VARIABLES img,        \* the file
          fds,        \* the images the processes have open
          used,       \* each process' readLocks and writeLocks
          ov,         \* "overlay create": where each process is
          tmp,        \* the file <image>.ext3 that it makes
          last        \* the last execution that was decided upon

vars == <<img, fds, used, ov, tmp, last>>

NoLocks == [r |-> {}, w |-> {}]
NoDecision == [list |-> 0, ok |-> FALSE, sigs |-> {}]

Init ==
    /\ img \in Files
    /\ fds = {}
    /\ used = [p \in Procs |-> NoLocks]
    /\ ov = [p \in Procs |-> "idle"]
    /\ tmp = "none"
    /\ last = NoDecision

----------------------------------------------------------------------------
(* Opening. *)

\* What the initializers accept.  The root filesystem's partition must be
\* good and for a machine that is at hand; another one that is not is left
\* out, as is an overlay of another group.
Primary == {i \in DOMAIN img.parts : img.parts[i].use = "sys"}
Listed ==
    {i \in DOMAIN img.parts :
        /\ img.parts[i].good
        /\ \/ i \in Primary
           \/ img.parts[i].use = "data"
           \/ img.parts[i].use = "overlay"
              /\ Primary # {} => img.parts[i].group = 1}

Rejected == img.kind = "sif" /\ \E i \in Primary : ~img.parts[i].good

\* The partitions to lock, by their position.
lockable == SetToSortSeq({i \in Listed : img.parts[i].fs = "ext3"}, <)

Conflict(s, w) ==
    \E f \in fds : f.id = img.id /\ s \in f.locks /\ (w \/ f.w)

\* Mutant of lockSection: what is only read is not locked.
lockSectionWriters(p, w, a, s) ==
    IF ~a.ok THEN a
    ELSE IF img.nolock \/ ~w THEN a
    ELSE IF Conflict(s, w) THEN [a EXCEPT !.ok = FALSE]
    ELSE [a EXCEPT !.locks = @ \cup {s}, !.used.w = @ \cup {s}]

\* One section.  The process' own lists are never cleared, so that they also
\* refuse what it used before.
lockSection(p, w, a, s) ==
    IF ~a.ok \/ img.nolock THEN a
    ELSE IF \/ Conflict(s, w)
            \/ s \in a.used.w
            \/ w /\ s \in a.used.r
    THEN [a EXCEPT !.ok = FALSE]
    ELSE IF w THEN [a EXCEPT !.locks = @ \cup {s}, !.used.w = @ \cup {s}]
    ELSE [a EXCEPT !.locks = @ \cup {s}, !.used.r = @ \cup {s}]

\* image.Init: an image that cannot be written, for want of permission or
\* because it is a squashfs, is open for reading; a failed lock closes it.
Open(p, writable) ==
    /\ ov[p] = "idle"
    /\ img.kind \notin {"none", "other"} /\ ~Rejected
    /\ LET w == writable /\ img.perm /\ img.kind # "squashfs"
           a == FoldLeft(LAMBDA acc, s : lockSection(p, w, acc, s),
                         [ok |-> TRUE, locks |-> {}, used |-> used[p]], lockable)
           f == [p |-> p, n |-> Cardinality({g \in fds : g.p = p}), w |-> w,
                 id |-> img.id, locks |-> a.locks, ext3 |-> Range(lockable)]
       IN  /\ f.n < 2
           /\ used' = [used EXCEPT ![p] = a.used]
           /\ fds' = IF a.ok THEN fds \cup {f} ELSE fds
    /\ UNCHANGED <<img, ov, tmp, last>>

\* The process ends, with what it has open.
Exit(p) ==
    /\ ov[p] = "idle"
    /\ fds' = {f \in fds : f.p # p}
    /\ used' = [used EXCEPT ![p] = NoLocks]
    /\ UNCHANGED <<img, ov, tmp, last>>

----------------------------------------------------------------------------
(* "overlay create". *)

isSigned == img.sigs # {}
HasOverlay == \E i \in Listed : img.parts[i].use = "overlay" /\ img.parts[i].fs = "ext3"
Encrypted == \E i \in Primary : img.parts[i].fs = "crypt"

Refused ==
    \/ img.kind # "sif" \/ Rejected \/ Primary = {} \/ Encrypted \/ isSigned
    \/ HasOverlay
    \/ ~img.nolock /\ \E i \in DOMAIN lockable : Conflict(lockable[i], FALSE)

\* The image is opened, looked at and closed; only a file that can be written
\* is.  The process is one of its own.
overlayCheck(p) ==
    /\ ov[p] = "idle" /\ used[p] = NoLocks /\ ~\E f \in fds : f.p = p
    /\ IF img.kind # "none" /\ img.perm
       THEN ~Refused /\ ov' = [ov EXCEPT ![p] = "make for SIF"]
       ELSE ov' = [ov EXCEPT ![p] = "make"]
    /\ UNCHANGED <<img, fds, used, tmp, last>>

\* dd or truncate, and mkfs.ext3, on a file with one name for all.
overlayMake(p) ==
    /\ ov[p] \in {"make", "make for SIF"}
    /\ tmp' = "ext3"
    /\ ov' = [ov EXCEPT ![p] = IF @ = "make" THEN "rename" ELSE "add"]
    /\ UNCHANGED <<img, fds, used, last>>

Overlay == [use |-> "overlay", fs |-> "ext3", good |-> TRUE, group |-> 1]

\* In the root filesystem's group; the deferred removal.
addOverlayToImage(p) ==
    /\ ov[p] = "add" /\ tmp # "none" /\ img.kind = "sif"
    /\ Len(img.parts) < MaxParts
    /\ img' = [img EXCEPT !.parts = Append(@, Overlay)]
    /\ tmp' = "none"
    /\ ov' = [ov EXCEPT ![p] = "idle"]
    /\ UNCHANGED <<fds, used, last>>

\* The overlay image takes the place of what is there.
overlayRename(p) ==
    /\ ov[p] = "rename" /\ tmp # "none"
    /\ img' = [img EXCEPT !.kind = "ext3", !.id = @ + 1, !.perm = TRUE,
                          !.parts = <<[Overlay EXCEPT !.use = "data"]>>,
                          !.sigs = {}]
    /\ tmp' = "none"
    /\ ov' = [ov EXCEPT ![p] = "idle"]
    /\ UNCHANGED <<fds, used, last>>

\* A command fails; the temporary file is removed.
overlayFails(p) ==
    /\ ov[p] # "idle"
    /\ tmp' = "none"
    /\ ov' = [ov EXCEPT ![p] = "idle"]
    /\ UNCHANGED <<img, fds, used, last>>

----------------------------------------------------------------------------
(* "sign", and the execution control list. *)

\* One signature for each group there is, or for the group asked for.
Groups == {img.parts[i].group : i \in DOMAIN img.parts}
Sign(k, groups) ==
    /\ img.kind = "sif" /\ groups # {} /\ groups \subseteq Groups
    /\ Cardinality(img.sigs) + Cardinality(groups) <= MaxSigs
    /\ \E valid \in BOOLEAN :
          img' = [img EXCEPT !.sigs =
                    @ \cup {[key |-> k, group |-> g, valid |-> valid] : g \in groups}]
    /\ UNCHANGED <<fds, used, ov, tmp, last>>

SignersOf(g) == {s.key : s \in {t \in img.sigs : t.group = g}}

\* The verifier, of the groups gs.  It fails on one without a signature; a
\* signature that does not validate is noted and passed over.
AllSignedBy(gs) == {k \in Keys : \A g \in gs : k \in SignersOf(g)}
AnySignedBy(gs) == UNION {SignersOf(g) : g \in gs}
Verified(gs) == gs # {} /\ \A g \in gs : SignersOf(g) # {}
Unvalidated(gs) == {s.key : s \in {t \in img.sigs : ~t.valid /\ t.group \in gs}}

checkWhiteList(keys, gs) ==
    \E k \in keys : k \in AllSignedBy(gs) /\ k \notin Unvalidated(gs)

\* Mutant of checkWhiteStrict: signatures that do not validate count.
checkWhiteStrictAny(keys, gs) == keys \subseteq AllSignedBy(gs)

checkWhiteStrict(keys, gs) == keys \subseteq AllSignedBy(gs) \ Unvalidated(gs)

checkBlackList(keys, gs) == keys \cap AnySignedBy(gs) = {}

\* The group of the image's directory, or else the one for every directory.
getExecGroup(ecl) ==
    LET here == {i \in DOMAIN ecl.groups : ecl.groups[i].dir = img.dir}
        any == {i \in DOMAIN ecl.groups : ecl.groups[i].dir = ""}
    IN  IF here # {} THEN here ELSE any

ValidateConfig(ecl) ==
    \A i, j \in DOMAIN ecl.groups : i # j => ecl.groups[i].dir # ecl.groups[j].dir

\* Legacy mode verifies the root filesystem's partition only.
Selected(ecl) == IF ecl.legacy THEN {img.parts[i].group : i \in Primary} ELSE Groups

shouldRun(ecl) ==
    \/ ~ecl.activated
    \/ /\ Verified(Selected(ecl))
       /\ \E i \in getExecGroup(ecl) :
             LET g == ecl.groups[i]
                 gs == Selected(ecl)
             IN  CASE g.mode = "whitelist"   -> checkWhiteList(g.keys, gs)
                   [] g.mode = "whitestrict" -> checkWhiteStrict(g.keys, gs)
                   [] g.mode = "blacklist"   -> checkBlackList(g.keys, gs)

\* The engine, with an image it has open.
ShouldRunFp ==
    /\ img.kind = "sif" /\ fds # {} /\ last = NoDecision
    /\ \E l \in DOMAIN Lists :
          last' = [list |-> l, sigs |-> img.sigs,
                   ok |-> ValidateConfig(Lists[l]) /\ shouldRun(Lists[l])]
    /\ UNCHANGED <<img, fds, used, ov, tmp>>

----------------------------------------------------------------------------

Next ==
    \/ \E p \in Procs : \/ \E w \in BOOLEAN : Open(p, w)
                        \/ Exit(p)
                        \/ overlayCheck(p) \/ overlayMake(p)
                        \/ addOverlayToImage(p) \/ overlayRename(p)
                        \/ overlayFails(p)
    \/ \E k \in Keys, g \in SUBSET Groups : Sign(k, g)
    \/ ShouldRunFp

Spec == Init /\ [][Next]_vars

----------------------------------------------------------------------------
(* Properties. *)

\* "calling this function will place a write lock for the corresponding
\* section preventing further use if the section is used for writing or
\* reading only" (lockSection): an ext3 partition that one image has open for
\* writing is in no other open image, of the same process or another, for as
\* long as it is open, and whatever opens failed in between.
WritersAreAlone ==
    ~img.nolock =>
        \A f, g \in fds :
            f # g /\ f.id = g.id /\ f.w => f.ext3 \cap g.ext3 = {}

\* An execution that the list allows is one its modes describe: "whitelist:
\* one or more KeyFP's present and verified, whitestrict: all KeyFP's present
\* and verified, blacklist: none of the KeyFP should be present", for the
\* signatures that the image had and the rule of its directory.
RunsAsListed ==
    last.ok /\ Lists[last.list].activated =>
        LET rules == Lists[last.list].groups
            legacy == Lists[last.list].legacy
            By(k) == {s \in last.sigs : s.key = k /\ (legacy => s.group = 1)}
            Good(k) == By(k) # {} /\ \A s \in By(k) : s.valid
        IN  \E i \in DOMAIN rules :
               /\ \/ rules[i].dir = img.dir
                  \/ rules[i].dir = "" /\ \A j \in DOMAIN rules : rules[j].dir # img.dir
               /\ LET e == rules[i]
                  IN  CASE e.mode = "whitelist"   -> \E k \in e.keys : Good(k)
                        [] e.mode = "whitestrict" -> \A k \in e.keys : Good(k)
                        [] e.mode = "blacklist"   -> \A k \in e.keys : By(k) = {}

\* "a writable overlay partition already exists in %s (ID: %d), delete it
\* first" (OverlayCreate): an image has one writable overlay at most.
OneOverlay ==
    Cardinality({i \in DOMAIN img.parts : img.parts[i].use = "overlay"
                                          /\ img.parts[i].fs = "ext3"}) <= 1

\* "EXT3 overlay image %s already exists", "destination image must be SIF
\* image" (OverlayCreate): an image that is there is not replaced by another.
ImageIsKept == [][img.kind # "none" => img'.id = img.id]_vars
=============================================================================
