-------------------------- MODULE ImageCacheProofs --------------------------
(***************************************************************************)
(* What reaches an entry's path, and what a pull hands over, for any       *)
(* number of commands, versions, pulls, cleanings and kills.               *)
(*                                                                         *)
(* Then what the execution control list lets run, over the variables of    *)
(* ImageFile.                                                              *)
(***************************************************************************)
EXTENDS ImageCache, Sequences, TLAPS

\* A file about to be renamed is whole and has the key's content, and one
\* that is being downloaded by its key has that content.
FilesAreReady ==
    \A p \in Procs :
        /\ pc[p] = "finalize" => tmp[p].kind = "none" \/ Good(tmp[p], key[p])
        /\ pc[p] = "download" =>
             /\ tmp[p].kind \in {"none", "part"}
             /\ kind.pinned /\ tmp[p].kind = "part" => tmp[p].v = key[p]

IInv == TypeOK /\ EntriesAreSound /\ FilesAreReady /\ GivesItsImage

LEMMA KindFlags ==
    ASSUME kind \in Kinds
    PROVE  /\ kind.verify \in BOOLEAN /\ kind.pinned \in BOOLEAN
           /\ kind.fatal \in BOOLEAN /\ kind.linked \in BOOLEAN
<1>1. CASE kind = Library BY <1>1 DEF Library
<1>2. CASE kind = Oras BY <1>2 DEF Oras
<1>3. CASE kind = Net BY <1>3 DEF Net
<1>4. CASE kind = Ipfs BY <1>4 DEF Ipfs
<1>5. CASE kind = Shub BY <1>5 DEF Shub
<1>6. CASE kind = Oci BY <1>6 DEF Oci
<1> QED BY <1>1, <1>2, <1>3, <1>4, <1>5, <1>6 DEF Kinds

LEMMA FileTypes ==
    /\ \A k \in {"none", "part", "whole", "link", "dir"}, v \in Versions :
         /\ File(k, v) \in Files /\ File(k, v).kind = k /\ File(k, v).v = v
    /\ Missing \in Files /\ Missing.kind = "none"
    /\ 0 \in Versions
BY CacheAssumption DEF File, Files, Missing, Versions

LEMMA KeyFacts ==
    /\ Versions \subseteq Keys
    /\ \A k \in Versions : FileKey(k) \in Keys /\ FileKey(k) \notin Versions
    /\ \A j, k \in Versions : FileKey(j) = FileKey(k) => j = k
BY CacheAssumption DEF Versions, FileKey, Keys

LEMMA StatType == TypeOK => \A k \in Keys : Stat(k) \in Files
BY FileTypes, KeyFacts DEF TypeOK, Stat

LEMMA GotoType ==
    ASSUME TypeOK, NEW p \in Procs, NEW l \in Labels, pc' = [pc EXCEPT ![p] = l]
    PROVE  pc' \in [Procs -> Labels]
BY DEF TypeOK

LEMMA CleanTmpType ==
    ASSUME TypeOK, NEW p \in Procs, CleanTmp(p)
    PROVE  tmp' \in [Procs -> Files] /\ extra' \subseteq Procs
BY FileTypes DEF TypeOK, CleanTmp

LEMMA SameEntries ==
    ASSUME EntriesAreSound, entry' = entry, kind' = kind
    PROVE  EntriesAreSound'
BY DEF EntriesAreSound, Good, Tied

\* A removed entry, and a link, are sound.
LEMMA NoFileStored ==
    ASSUME TypeOK, EntriesAreSound, kind' = kind,
           NEW k \in Keys, NEW f \in Files, f.kind \in {"none", "link"},
           entry' = [entry EXCEPT ![k] = f]
    PROVE  EntriesAreSound'
<1> SUFFICES ASSUME NEW j \in Versions, NEW g \in {entry'[j], entry'[FileKey(j)]},
                    g.kind \in {"part", "whole"}
             PROVE  Good(g, j)'
  BY DEF EntriesAreSound, Good, Tied
<1>1. g \in {entry[j], entry[FileKey(j)]}
  BY KeyFacts DEF TypeOK
<1> QED BY <1>1 DEF EntriesAreSound, Good, Tied

\* So is a whole file with the content of the key.
LEMMA GoodFileStored ==
    ASSUME TypeOK, EntriesAreSound, kind' = kind,
           NEW k \in Versions, NEW f \in Files, Good(f, k),
           NEW i \in {k, FileKey(k)}, entry' = [entry EXCEPT ![i] = f]
    PROVE  EntriesAreSound'
<1> SUFFICES ASSUME NEW j \in Versions, NEW g \in {entry'[j], entry'[FileKey(j)]},
                    g.kind \in {"part", "whole"}
             PROVE  Good(g, j)'
  BY DEF EntriesAreSound, Good, Tied
<1>1. g \in {entry[j], entry[FileKey(j)]} \/ (g = f /\ j = k)
  BY KeyFacts DEF TypeOK
<1> QED BY <1>1 DEF EntriesAreSound, Good, Tied

\* What stat finds at the path of a key is sound.
LEMMA StatSound ==
    ASSUME TypeOK, EntriesAreSound, NEW k \in Versions, Stat(k).kind \in {"part", "whole"}
    PROVE  Good(Stat(k), k)
BY DEF EntriesAreSound, Stat

LEMMA InitInv == Init => IInv
<1> SUFFICES ASSUME Init PROVE IInv
  OBVIOUS
<1>1. TypeOK
  BY FileTypes, KeyFacts, CacheAssumption DEF Init, TypeOK, Labels
<1>2. \A k \in Keys : entry[k].kind \in {"none", "dir"}
  BY FileTypes DEF Init
<1>3. EntriesAreSound
  BY <1>2, KeyFacts DEF EntriesAreSound
<1> QED BY <1>1, <1>3 DEF Init, IInv, FilesAreReady, GivesItsImage

LEMMA NextInv == IInv /\ [Next]_vars => IInv'
<1> SUFFICES ASSUME IInv, [Next]_vars PROVE IInv'
  OBVIOUS
<1>0. TypeOK
  BY DEF IInv
<1>a. kind \in Kinds
  BY DEF IInv, TypeOK
<1>b. /\ kind.verify \in BOOLEAN /\ kind.pinned \in BOOLEAN
      /\ kind.fatal \in BOOLEAN /\ kind.linked \in BOOLEAN
  BY <1>a, KindFlags
<1> USE FileTypes, <1>b, CacheAssumption
<1>1. ASSUME NEW p \in Procs, PullStart(p) PROVE IInv'
  <2> USE <1>1 DEF PullStart, Goto, cache, world, proc, setting
  <2>1. TypeOK'
    BY StatType DEF IInv, TypeOK, Labels
  <2>2. EntriesAreSound'
    BY SameEntries DEF IInv
  <2>3. FilesAreReady'
    BY DEF IInv, TypeOK, FilesAreReady, Good, Tied
  <2>4. GivesItsImage'
    BY DEF IInv, TypeOK, GivesItsImage, Good, Tied
  <2> QED BY <2>1, <2>2, <2>3, <2>4 DEF IInv
<1>2. ASSUME NEW p \in Procs, GetEntryDir(p) PROVE IInv'
  <2> USE <1>2 DEF GetEntryDir, Goto, cache, world, proc, setting
  <2>1. TypeOK'
    BY StatType DEF IInv, TypeOK, Labels
  <2>2. EntriesAreSound'
    BY SameEntries DEF IInv
  <2>3. FilesAreReady'
    BY DEF IInv, TypeOK, FilesAreReady, Good, Tied
  <2>4. GivesItsImage'
    BY DEF IInv, TypeOK, GivesItsImage, Good, Tied
  <2> QED BY <2>1, <2>2, <2>3, <2>4 DEF IInv
<1>3. ASSUME NEW p \in Procs, GetEntryRemove(p) PROVE IInv'
  <2> USE <1>3 DEF GetEntryRemove, Goto, cache, world, proc, setting
  <2>1. TypeOK'
    BY Zenon, StatType DEF IInv, TypeOK, Labels
  <2>2. EntriesAreSound'
    BY Zenon, NoFileStored, KeyFacts DEF IInv, TypeOK
  <2>3. FilesAreReady'
    BY DEF IInv, TypeOK, FilesAreReady, Good, Tied
  <2>4. GivesItsImage'
    BY DEF IInv, TypeOK, GivesItsImage, Good, Tied
  <2> QED BY <2>1, <2>2, <2>3, <2>4 DEF IInv
<1>4. ASSUME NEW p \in Procs, GetEntryStat(p) PROVE IInv'
  <2> USE <1>4 DEF GetEntryStat, Goto, cache, world, proc, setting
  <2>1. TypeOK'
    BY StatType DEF IInv, TypeOK, Labels
  <2>2. EntriesAreSound'
    BY SameEntries DEF IInv
  <2>3. FilesAreReady'
    BY DEF IInv, TypeOK, FilesAreReady, Good, Tied
  <2>4. GivesItsImage'
    BY DEF IInv, TypeOK, GivesItsImage, Good, Tied
  <2> QED BY <2>1, <2>2, <2>3, <2>4 DEF IInv
<1>20. ASSUME NEW p \in Procs, GetEntryIsFile(p) PROVE IInv'
  <2> USE <1>20 DEF GetEntryIsFile, Goto, cache, world, proc, setting
  <2>1. TypeOK'
    BY StatType DEF IInv, TypeOK, Labels
  <2>2. EntriesAreSound'
    BY SameEntries DEF IInv
  <2>3. FilesAreReady'
    BY DEF IInv, TypeOK, FilesAreReady, Good, Tied
  <2>4. GivesItsImage'
    BY DEF IInv, TypeOK, GivesItsImage, Good, Tied
  <2> QED BY <2>1, <2>2, <2>3, <2>4 DEF IInv
<1>5. ASSUME NEW p \in Procs, Download(p) PROVE IInv'
  <2> USE <1>5 DEF Download, Goto, cache, world, proc, setting
  <2>1. TypeOK'
    BY StatType DEF IInv, TypeOK, Labels
  <2>2. EntriesAreSound'
    BY SameEntries DEF IInv
  <2>3. FilesAreReady'
    BY DEF IInv, TypeOK, FilesAreReady, Good, Tied
  <2>4. GivesItsImage'
    BY DEF IInv, TypeOK, GivesItsImage, Good, Tied
  <2> QED BY <2>1, <2>2, <2>3, <2>4 DEF IInv
<1>6. ASSUME NEW p \in Procs, DownloadDone(p) PROVE IInv'
  <2> USE <1>6 DEF DownloadDone, Goto, cache, world, proc, setting
  <2>1. TypeOK'
    <3>0. tmp[p] \in Files
      BY DEF IInv, TypeOK
    <3>1. [tmp[p] EXCEPT !.kind = "whole"] \in Files
      BY ONLY <3>0 DEF Files
    <3>2. tmp' \in [Procs -> Files]
      BY <3>1 DEF IInv, TypeOK
    <3> QED BY <3>2 DEF IInv, TypeOK, Labels
  <2>2. EntriesAreSound'
    BY SameEntries DEF IInv
  <2>3. FilesAreReady'
    BY DEF IInv, TypeOK, FilesAreReady, Good, Tied
  <2>4. GivesItsImage'
    BY DEF IInv, TypeOK, GivesItsImage, Good, Tied
  <2> QED BY <2>1, <2>2, <2>3, <2>4 DEF IInv
<1>7. ASSUME NEW p \in Procs, DownloadFails(p) PROVE IInv'
  <2> USE <1>7 DEF DownloadFails, Goto, cache, world, proc, setting, CleanTmp
  <2>1. TypeOK'
    BY StatType DEF IInv, TypeOK, Labels
  <2>2. EntriesAreSound'
    BY SameEntries DEF IInv
  <2>3. FilesAreReady'
    BY DEF IInv, TypeOK, FilesAreReady, Good, Tied
  <2>4. GivesItsImage'
    BY DEF IInv, TypeOK, GivesItsImage, Good, Tied
  <2> QED BY <2>1, <2>2, <2>3, <2>4 DEF IInv
<1>8. ASSUME NEW p \in Procs, Verify(p) PROVE IInv'
  <2> USE <1>8 DEF Verify, Goto, cache, world, proc, setting
  <2>1. TypeOK'
    <3>1. pc' \in [Procs -> Labels]
      BY DEF IInv, TypeOK, Labels
    <3>2. entry' \in [Keys -> Files]
      BY DEF IInv, TypeOK
    <3>3. tmp' \in [Procs -> Files] /\ extra' \subseteq Procs
      BY CleanTmpType DEF IInv, TypeOK
    <3>4. got' \in [Procs -> Files]
      BY StatType DEF IInv, TypeOK, Labels
    <3> QED BY <3>1, <3>2, <3>3, <3>4 DEF IInv, TypeOK
  <2>2. EntriesAreSound'
    BY SameEntries DEF IInv
  <2>3. FilesAreReady'
    <3>1. CASE tmp[p] = File("whole", key[p])
      <4>1. tmp[p].kind = "whole" /\ tmp[p].v = key[p]
        BY <3>1 DEF IInv, TypeOK
      <4>2. pc' = [pc EXCEPT ![p] = "finalize"] /\ tmp' = tmp /\ key' = key
        BY <3>1
      <4> QED BY <4>1, <4>2 DEF IInv, TypeOK, FilesAreReady, Good, Tied
    <3>2. CASE tmp[p] # File("whole", key[p])
      <4>1. pc' = [pc EXCEPT ![p] = "failed"] /\ key' = key
            /\ tmp' = [tmp EXCEPT ![p] = Missing]
        BY <3>2 DEF CleanTmp
      <4> QED BY <4>1 DEF IInv, TypeOK, FilesAreReady, Good, Tied
    <3> QED BY <3>1, <3>2
  <2>4. GivesItsImage'
    BY DEF IInv, TypeOK, GivesItsImage, Good, Tied
  <2> QED BY <2>1, <2>2, <2>3, <2>4 DEF IInv
<1>9. ASSUME NEW p \in Procs, Finalize(p) PROVE IInv'
  <2> USE <1>9 DEF Finalize, Goto, cache, world, proc, setting
  <2>1. TypeOK'
    <3>1. pc' \in [Procs -> Labels]
      BY DEF IInv, TypeOK, Labels
    <3>2. entry' \in [Keys -> Files]
      BY DEF IInv, TypeOK
    <3>3. tmp' \in [Procs -> Files] /\ extra' \subseteq Procs
      BY CleanTmpType DEF IInv, TypeOK
    <3>4. got' \in [Procs -> Files]
      BY StatType DEF IInv, TypeOK, Labels
    <3> QED BY <3>1, <3>2, <3>3, <3>4 DEF IInv, TypeOK
  <2>4. GivesItsImage'
    BY DEF IInv, TypeOK, GivesItsImage, Good, Tied
  <2>a. CASE tmp[p].kind = "none"
    <3>1. EntriesAreSound'
      BY <2>a, SameEntries DEF IInv
    <3>2. FilesAreReady'
      BY <2>a DEF IInv, TypeOK, FilesAreReady, Good, Tied, CleanTmp
    <3> QED BY <2>1, <2>4, <3>1, <3>2 DEF IInv
  <2>b. CASE tmp[p].kind # "none"
    <3>1. key[p] \in Versions /\ tmp[p] \in Files /\ Good(tmp[p], key[p])
      BY <2>b DEF IInv, TypeOK, FilesAreReady
    <3>2. entry' = [entry EXCEPT ![key[p]] = tmp[p]] /\ kind' = kind
      BY <2>b
    <3>3. EntriesAreSound'
      BY Zenon, <3>1, <3>2, GoodFileStored DEF IInv
    <3>4. FilesAreReady'
      BY <2>b DEF IInv, TypeOK, FilesAreReady, Good, Tied
    <3> QED BY <2>1, <2>4, <3>3, <3>4 DEF IInv
  <2> QED BY <2>a, <2>b
<1>10. ASSUME NEW p \in Procs, FileEntry(p) PROVE IInv'
  <2> USE <1>10 DEF FileEntry, Goto, cache, world, proc, setting
  <2>1. TypeOK'
    <3>a. PICK l \in {"failed", "move"} : pc' = [pc EXCEPT ![p] = l]
      OBVIOUS
    <3>b. l \in Labels
      BY <3>a DEF Labels
    <3>1. pc' \in [Procs -> Labels]
      BY ONLY Zenon, <3>a, <3>b, <1>0, p \in Procs, GotoType
    <3>2. entry' \in [Keys -> Files]
      BY DEF IInv, TypeOK
    <3>3. tmp' \in [Procs -> Files] /\ extra' \subseteq Procs
      BY CleanTmpType DEF IInv, TypeOK
    <3>4. got' \in [Procs -> Files]
      BY StatType DEF IInv, TypeOK, Labels
    <3> QED BY <3>1, <3>2, <3>3, <3>4 DEF IInv, TypeOK
  <2>2. EntriesAreSound'
    BY SameEntries DEF IInv
  <2>3. FilesAreReady'
    <3>1. CASE Stat(FileKey(key[p])).kind = "link"
      BY <3>1 DEF IInv, TypeOK, FilesAreReady, Good, Tied, CleanTmp
    <3>2. CASE Stat(FileKey(key[p])).kind # "link"
      BY <3>2 DEF IInv, TypeOK, FilesAreReady, Good, Tied
    <3> QED BY <3>1, <3>2
  <2>4. GivesItsImage'
    BY DEF IInv, TypeOK, GivesItsImage, Good, Tied
  <2> QED BY <2>1, <2>2, <2>3, <2>4 DEF IInv
<1>11. ASSUME NEW p \in Procs, Move(p) PROVE IInv'
  <2> USE <1>11 DEF Move, Goto, cache, world, proc, setting
  <2>1. TypeOK'
    <3>a. PICK l \in {"failed", "symlink"} : pc' = [pc EXCEPT ![p] = l]
      OBVIOUS
    <3>b. l \in Labels
      BY <3>a DEF Labels
    <3>1. pc' \in [Procs -> Labels]
      BY ONLY Zenon, <3>a, <3>b, <1>0, p \in Procs, GotoType
    <3>2. entry' \in [Keys -> Files]
      <4>1. entry \in [Keys -> Files] /\ entry[key[p]] \in Files /\ key[p] \in Keys
        BY KeyFacts DEF IInv, TypeOK
      <4>2. \/ entry' = entry
            \/ entry' = [entry EXCEPT ![FileKey(key[p])] = entry[key[p]], ![key[p]] = Missing]
        OBVIOUS
      <4> QED BY ONLY <4>1, <4>2, FileTypes
    <3>3. tmp' \in [Procs -> Files] /\ extra' \subseteq Procs
      BY CleanTmpType DEF IInv, TypeOK
    <3>4. got' \in [Procs -> Files]
      BY StatType DEF IInv, TypeOK, Labels
    <3> QED BY <3>1, <3>2, <3>3, <3>4 DEF IInv, TypeOK
  <2>2. EntriesAreSound'
    <3>1. CASE entry[key[p]].kind = "none"
      BY <3>1, SameEntries DEF IInv
    <3>2. CASE entry[key[p]].kind # "none"
      <4> DEFINE from == key[p]
                 file == FileKey(key[p])
      <4>1. /\ entry' = [entry EXCEPT ![file] = entry[from], ![from] = Missing]
            /\ kind' = kind
        BY <3>2
      <4>2. from \in Versions /\ entry \in [Keys -> Files]
        BY DEF IInv, TypeOK
      <4> HIDE DEF from
      <4> SUFFICES ASSUME NEW j \in Versions, NEW g \in {entry'[j], entry'[FileKey(j)]},
                          g.kind \in {"part", "whole"}
                   PROVE  Good(g, j)'
        BY DEF EntriesAreSound, Good, Tied
      <4>3. g \in {entry[j], entry[FileKey(j)]}
        BY <4>1, <4>2, KeyFacts
      <4> QED BY <4>1, <4>3 DEF IInv, EntriesAreSound, Good, Tied
    <3> QED BY <3>1, <3>2
  <2>3. FilesAreReady'
    BY DEF IInv, TypeOK, FilesAreReady, Good, Tied, CleanTmp
  <2>4. GivesItsImage'
    BY DEF IInv, TypeOK, GivesItsImage, Good, Tied
  <2> QED BY <2>1, <2>2, <2>3, <2>4 DEF IInv
<1>12. ASSUME NEW p \in Procs, Symlink(p) PROVE IInv'
  <2> USE <1>12 DEF Symlink, Goto, cache, world, proc, setting
  <2>1. TypeOK'
    <3>a. PICK l \in {"failed", "open"} : pc' = [pc EXCEPT ![p] = l]
      OBVIOUS
    <3>b. l \in Labels
      BY <3>a DEF Labels
    <3>1. pc' \in [Procs -> Labels]
      BY ONLY Zenon, <3>a, <3>b, <1>0, p \in Procs, GotoType
    <3>2. entry' \in [Keys -> Files]
      BY DEF IInv, TypeOK
    <3>3. tmp' \in [Procs -> Files] /\ extra' \subseteq Procs
      BY CleanTmpType DEF IInv, TypeOK
    <3>4. got' \in [Procs -> Files]
      BY StatType DEF IInv, TypeOK, Labels
    <3> QED BY <3>1, <3>2, <3>3, <3>4 DEF IInv, TypeOK
  <2>2. EntriesAreSound'
    <3>1. CASE entry[key[p]].kind # "none"
      BY <3>1, SameEntries DEF IInv
    <3>2. CASE entry[key[p]].kind = "none"
      <4>1. entry' = [entry EXCEPT ![key[p]] = File("link", 0)] /\ kind' = kind
        BY <3>2
      <4>2. key[p] \in Keys /\ File("link", 0) \in Files /\ File("link", 0).kind = "link"
        BY KeyFacts DEF IInv, TypeOK
      <4> QED BY Zenon, <4>1, <4>2, NoFileStored DEF IInv
    <3> QED BY <3>1, <3>2
  <2>3. FilesAreReady'
    BY DEF IInv, TypeOK, FilesAreReady, Good, Tied, CleanTmp
  <2>4. GivesItsImage'
    BY DEF IInv, TypeOK, GivesItsImage, Good, Tied
  <2> QED BY <2>1, <2>2, <2>3, <2>4 DEF IInv
<1>13. ASSUME NEW p \in Procs, Copy(p) PROVE IInv'
  <2> USE <1>13 DEF Copy, Goto, cache, world, proc, setting
  <2>1. TypeOK'
    <3>a. PICK l \in {"failed", "done"} : pc' = [pc EXCEPT ![p] = l]
      OBVIOUS
    <3>b. l \in Labels
      BY <3>a DEF Labels
    <3>1. pc' \in [Procs -> Labels]
      BY ONLY Zenon, <3>a, <3>b, <1>0, p \in Procs, GotoType
    <3>2. entry' \in [Keys -> Files]
      BY DEF IInv, TypeOK
    <3>3. tmp' \in [Procs -> Files] /\ extra' \subseteq Procs
      BY CleanTmpType DEF IInv, TypeOK
    <3>4. got' \in [Procs -> Files]
      BY StatType, KeyFacts DEF IInv, TypeOK
    <3> QED BY <3>1, <3>2, <3>3, <3>4 DEF IInv, TypeOK
  <2>2. EntriesAreSound'
    BY SameEntries DEF IInv
  <2>3. FilesAreReady'
    BY DEF IInv, TypeOK, FilesAreReady, Good, Tied
  <2>4. GivesItsImage'
    <3>1. CASE Stat(key[p]).kind \in {"part", "whole"}
      <4>1. Good(Stat(key[p]), key[p])
        BY <3>1, StatSound DEF IInv, TypeOK
      <4>2. /\ got' = [got EXCEPT ![p] = Stat(key[p])] /\ pc' = [pc EXCEPT ![p] = "done"]
            /\ key' = key /\ kind' = kind
        BY <3>1
      <4> QED BY <4>1, <4>2 DEF IInv, TypeOK, GivesItsImage, Good, Tied
    <3>2. CASE Stat(key[p]).kind \notin {"part", "whole"}
      BY <3>2 DEF IInv, TypeOK, GivesItsImage, Good, Tied
    <3> QED BY <3>1, <3>2
  <2> QED BY <2>1, <2>2, <2>3, <2>4 DEF IInv
<1>14. ASSUME NEW p \in Procs, Crash(p) PROVE IInv'
  <2> USE <1>14 DEF Crash, Goto, cache, world, proc, setting
  <2>1. TypeOK'
    BY StatType DEF IInv, TypeOK, Labels
  <2>2. EntriesAreSound'
    BY SameEntries DEF IInv
  <2>3. FilesAreReady'
    BY DEF IInv, TypeOK, FilesAreReady, Good, Tied
  <2>4. GivesItsImage'
    BY DEF IInv, TypeOK, GivesItsImage, Good, Tied
  <2> QED BY <2>1, <2>2, <2>3, <2>4 DEF IInv
<1>15. ASSUME NEW p \in Procs, CleanFile(p) PROVE IInv'
  <2> USE <1>15 DEF CleanFile, Goto, cache, world, proc, setting
  <2>1. TypeOK'
    <3>1. tmp' \in [Procs -> Files] /\ extra' \subseteq Procs
      BY CleanTmpType DEF IInv, TypeOK
    <3> QED BY <3>1 DEF IInv, TypeOK
  <2>2. EntriesAreSound'
    BY SameEntries DEF IInv
  <2>3. FilesAreReady'
    <3>1. CASE UNCHANGED <<tmp, extra>>
      BY <3>1 DEF IInv, TypeOK, FilesAreReady, Good, Tied
    <3>2. CASE CleanTmp(p)
      <4>1. tmp' = [tmp EXCEPT ![p] = Missing] /\ UNCHANGED <<pc, key, kind>>
        BY <3>2 DEF CleanTmp
      <4> QED BY <4>1 DEF IInv, TypeOK, FilesAreReady, Good, Tied
    <3> QED BY <3>1, <3>2
  <2>4. GivesItsImage'
    BY DEF IInv, TypeOK, GivesItsImage, Good, Tied
  <2> QED BY <2>1, <2>2, <2>3, <2>4 DEF IInv
<1>16. ASSUME CleanList PROVE IInv'
  <2> USE <1>16 DEF CleanList, cache, world, proc, setting
  <2>1. TypeOK'
    BY DEF IInv, TypeOK
  <2>2. EntriesAreSound'
    BY SameEntries DEF IInv
  <2>3. FilesAreReady' /\ GivesItsImage'
    BY DEF IInv, TypeOK, FilesAreReady, Good, Tied, GivesItsImage
  <2> QED BY <2>1, <2>2, <2>3 DEF IInv
<1>17. ASSUME NEW k \in Keys, CleanEntry(k) PROVE IInv'
  <2> USE <1>17 DEF CleanEntry, cache, world, proc, setting
  <2>1. TypeOK'
    BY DEF IInv, TypeOK
  <2>2. EntriesAreSound'
    <3>1. CASE entry' = entry
      BY <3>1, SameEntries DEF IInv
    <3>2. CASE entry' = [entry EXCEPT ![k] = Missing]
      BY Zenon, <3>2, NoFileStored DEF IInv
    <3> QED BY <3>1, <3>2
  <2>3. FilesAreReady' /\ GivesItsImage'
    BY DEF IInv, TypeOK, FilesAreReady, Good, Tied, GivesItsImage
  <2> QED BY <2>1, <2>2, <2>3 DEF IInv
<1>18. ASSUME Publish PROVE IInv'
  <2> USE <1>18 DEF Publish, cache, world, proc, setting
  <2>1. TypeOK'
    BY DEF IInv, TypeOK, Versions
  <2>2. EntriesAreSound'
    BY SameEntries DEF IInv
  <2>3. FilesAreReady' /\ GivesItsImage'
    BY DEF IInv, TypeOK, FilesAreReady, Good, Tied, GivesItsImage
  <2> QED BY <2>1, <2>2, <2>3 DEF IInv
<1>19. ASSUME UNCHANGED vars PROVE IInv'
  <2> USE <1>19 DEF vars, cache, world, proc, setting
  <2>1. TypeOK'
    BY DEF IInv, TypeOK
  <2>2. EntriesAreSound'
    BY SameEntries DEF IInv
  <2>3. FilesAreReady' /\ GivesItsImage'
    BY DEF IInv, TypeOK, FilesAreReady, Good, Tied, GivesItsImage
  <2> QED BY <2>1, <2>2, <2>3 DEF IInv
<1> QED
  BY <1>1, <1>2, <1>3, <1>4, <1>5, <1>6, <1>7, <1>8, <1>9, <1>10,
     <1>11, <1>12, <1>13, <1>14, <1>15, <1>16, <1>17, <1>18, <1>19, <1>20
  DEF Next, Pull

\* The strengthened invariant holds of every behaviour of the pulls.
THEOREM Invariance == Spec => []IInv
BY InitInv, NextInv, PTL DEF Spec

\* A file at an entry's path is whole and, where the pull verifies the hash or
\* asks by it, has the entry's content: concurrent pulls, `cache clean` and
\* kills between any two steps of GetEntry, DownloadImage and Finalize included.
THEOREM EntriesStaySound == Spec => []EntriesAreSound
<1>1. IInv => EntriesAreSound BY DEF IInv
<1> QED BY <1>1, Invariance, PTL

\* What a pull hands to CopyFileAtomic is a whole image.  Where the source ties the
\* content to the key (the hash is verified, or the image is asked for by it), it is
\* the image of the key; of the sources that do not (net and oci), it is whole and
\* nothing more is claimed.
THEOREM PullsGiveTheirImage == Spec => []GivesItsImage
<1>1. IInv => GivesItsImage BY DEF IInv
<1> QED BY <1>1, Invariance, PTL

-----------------------------------------------------------------------------
(***************************************************************************)
(* Pulls end well.                                                         *)
(***************************************************************************)

\* Who has a temporary file, as long as nobody was killed and no download exited.
TmpFilesAreHeld ==
    crashes = 0 /\ (kind.fatal => fails = 0) =>
        \A p \in Procs :
            /\ pc[p] \notin {"request", "download", "verify", "finalize"} => tmp[p].kind = "none"
            /\ pc[p] \notin {"move", "symlink"} => p \notin extra

\* Nothing has happened that a pull may fail of.
Undisturbed ==
    /\ fails = 0 /\ crashes = 0 /\ cleans = 0
    /\ ~old /\ ~kind.linked /\ (kind.verify => remote = 0)

\* Then the file of a pull is there when it is looked for, with the content that
\* Verify expects, and no entry goes away.
PullsProceed ==
    Undisturbed =>
        /\ listed = {}
        /\ \A k \in Versions : entry[k].kind \in {"none", "whole"}
        /\ \A p \in Procs :
             /\ pc[p] \notin {"failed", "rmdir", "file", "move", "symlink"}
             /\ pc[p] = "download" => tmp[p].kind = "part" /\ (kind.verify => tmp[p].v = 0)
             /\ pc[p] = "verify" => kind.verify /\ tmp[p].kind = "whole" /\ tmp[p].v = 0
             /\ pc[p] = "finalize" => tmp[p].kind = "whole"
             /\ pc[p] \in {"isfile", "open"} => entry[key[p]].kind = "whole"
             /\ kind.verify => key[p] = 0

EndInv == TmpFilesAreHeld /\ PullsProceed

LEMMA InitEnd == Init => EndInv
<1> SUFFICES ASSUME Init PROVE EndInv
  OBVIOUS
<1>1. \A k \in Versions : ~old => entry[k].kind = "none"
  BY FileTypes, KeyFacts DEF Init
<1> QED BY <1>1, FileTypes DEF Init, EndInv, TmpFilesAreHeld, PullsProceed, Undisturbed

LEMMA NextEnd == IInv /\ EndInv /\ [Next]_vars => EndInv'
<1> SUFFICES ASSUME IInv, EndInv, [Next]_vars PROVE EndInv'
  OBVIOUS
<1>0. TypeOK /\ kind \in Kinds
  BY DEF IInv, TypeOK
<1>b. /\ kind.verify \in BOOLEAN /\ kind.pinned \in BOOLEAN
      /\ kind.fatal \in BOOLEAN /\ kind.linked \in BOOLEAN
  BY <1>0, KindFlags
<1> USE FileTypes, <1>b, CacheAssumption
<1>1. ASSUME NEW p \in Procs, PullStart(p) PROVE EndInv'
  <2> USE <1>1 DEF PullStart, Goto, cache, world, proc, setting
  <2>1. TmpFilesAreHeld'
    BY <1>0 DEF EndInv, TypeOK, TmpFilesAreHeld
  <2>2. PullsProceed'
    BY <1>0, KeyFacts DEF EndInv, TypeOK, PullsProceed, Undisturbed
  <2> QED BY <2>1, <2>2 DEF EndInv
<1>2. ASSUME NEW p \in Procs, GetEntryDir(p) PROVE EndInv'
  <2> USE <1>2 DEF GetEntryDir, Goto, cache, world, proc, setting
  <2>1. TmpFilesAreHeld'
    BY <1>0 DEF EndInv, TypeOK, TmpFilesAreHeld
  <2>2. PullsProceed'
    BY <1>0, KeyFacts DEF EndInv, TypeOK, PullsProceed, Undisturbed, Stat
  <2> QED BY <2>1, <2>2 DEF EndInv
<1>3. ASSUME NEW p \in Procs, GetEntryRemove(p) PROVE EndInv'
  <2> USE <1>3 DEF GetEntryRemove, Goto, cache, world, proc, setting
  <2>1. TmpFilesAreHeld'
    BY <1>0 DEF EndInv, TypeOK, TmpFilesAreHeld
  <2>2. PullsProceed'
    BY <1>0, KeyFacts DEF EndInv, TypeOK, PullsProceed, Undisturbed
  <2> QED BY <2>1, <2>2 DEF EndInv
<1>4. ASSUME NEW p \in Procs, GetEntryStat(p) PROVE EndInv'
  <2> USE <1>4 DEF GetEntryStat, Goto, cache, world, proc, setting
  <2>1. TmpFilesAreHeld'
    BY SMTT(20), <1>0 DEF EndInv, TypeOK, TmpFilesAreHeld
  <2>2. PullsProceed'
    BY <1>0, KeyFacts DEF EndInv, TypeOK, PullsProceed, Undisturbed, Stat
  <2> QED BY <2>1, <2>2 DEF EndInv
<1>20. ASSUME NEW p \in Procs, GetEntryIsFile(p) PROVE EndInv'
  <2> USE <1>20 DEF GetEntryIsFile, Goto, cache, world, proc, setting
  <2>1. TmpFilesAreHeld'
    BY SMTT(20), <1>0 DEF EndInv, TypeOK, TmpFilesAreHeld
  <2>2. PullsProceed'
    BY <1>0, KeyFacts DEF EndInv, TypeOK, PullsProceed, Undisturbed, Stat
  <2> QED BY <2>1, <2>2 DEF EndInv
<1>5. ASSUME NEW p \in Procs, Download(p) PROVE EndInv'
  <2> USE <1>5 DEF Download, Goto, cache, world, proc, setting
  <2>1. TmpFilesAreHeld'
    BY <1>0 DEF EndInv, TypeOK, TmpFilesAreHeld
  <2>2. PullsProceed'
    BY <1>0, KeyFacts DEF EndInv, TypeOK, PullsProceed, Undisturbed
  <2> QED BY <2>1, <2>2 DEF EndInv
<1>6. ASSUME NEW p \in Procs, DownloadDone(p) PROVE EndInv'
  <2> USE <1>6 DEF DownloadDone, Goto, cache, world, proc, setting
  <2>1. TmpFilesAreHeld'
    BY <1>0 DEF EndInv, TypeOK, TmpFilesAreHeld
  <2>2. PullsProceed'
    BY <1>0, KeyFacts DEF EndInv, TypeOK, PullsProceed, Undisturbed
  <2> QED BY <2>1, <2>2 DEF EndInv
<1>7. ASSUME NEW p \in Procs, DownloadFails(p) PROVE EndInv'
  <2> USE <1>7 DEF DownloadFails, Goto, cache, world, proc, setting, CleanTmp
  <2>1. TmpFilesAreHeld'
    BY <1>0 DEF EndInv, TypeOK, TmpFilesAreHeld
  <2>2. PullsProceed'
    BY SMTT(20), <1>0, KeyFacts DEF EndInv, TypeOK, PullsProceed, Undisturbed
  <2> QED BY <2>1, <2>2 DEF EndInv
<1>8. ASSUME NEW p \in Procs, Verify(p) PROVE EndInv'
  <2> USE <1>8 DEF Verify, Goto, cache, world, proc, setting, CleanTmp
  <2>1. TmpFilesAreHeld'
    BY <1>0 DEF EndInv, TypeOK, TmpFilesAreHeld
  <2>2. ASSUME Undisturbed' PROVE PullsProceed'
    <3>1. Undisturbed /\ UNCHANGED <<kind, key, entry, listed>>
      BY <2>2 DEF Undisturbed
    <3>2. tmp[p].kind = "whole" /\ tmp[p].v = key[p] /\ tmp[p] \in Files
      BY <1>0, <3>1 DEF EndInv, PullsProceed, TypeOK
    <3>3. tmp[p] = File("whole", key[p])
      BY <3>2 DEF File, Files
    <3>4. pc' = [pc EXCEPT ![p] = "finalize"] /\ tmp' = tmp
      BY SMTT(20), <3>3
    <3> QED BY <1>0, <3>1, <3>2, <3>4 DEF EndInv, PullsProceed, TypeOK
  <2> QED BY <2>1, <2>2 DEF EndInv, PullsProceed
<1>9. ASSUME NEW p \in Procs, Finalize(p) PROVE EndInv'
  <2> USE <1>9 DEF Finalize, Goto, cache, world, proc, setting, CleanTmp
  <2>1. TmpFilesAreHeld'
    BY <1>0 DEF EndInv, TypeOK, TmpFilesAreHeld
  <2>2. ASSUME Undisturbed' PROVE PullsProceed'
    <3>1. Undisturbed /\ UNCHANGED <<kind, key, listed>>
      BY <2>2 DEF Undisturbed
    <3>2. tmp[p].kind = "whole" /\ tmp[p] \in Files /\ key[p] \in Keys
      BY <1>0, <3>1, KeyFacts DEF EndInv, PullsProceed, TypeOK
    <3>3. /\ entry' = [entry EXCEPT ![key[p]] = tmp[p]]
          /\ tmp' = [tmp EXCEPT ![p] = Missing]
          /\ pc' = [pc EXCEPT ![p] = "open"]
      BY <3>1, <3>2 DEF Undisturbed
    <3>4. \A k \in Versions : entry'[k] = IF k = key[p] THEN tmp[p] ELSE entry[k]
      BY <1>0, <3>3, KeyFacts DEF TypeOK
    <3> QED BY <1>0, <3>1, <3>2, <3>3, <3>4 DEF EndInv, PullsProceed, TypeOK
  <2> QED BY <2>1, <2>2 DEF EndInv, PullsProceed
<1>10. ASSUME NEW p \in Procs, FileEntry(p) PROVE EndInv'
  <2> USE <1>10 DEF FileEntry, Goto, cache, world, proc, setting, CleanTmp
  <2>1. TmpFilesAreHeld'
    BY <1>0 DEF EndInv, TypeOK, TmpFilesAreHeld
  <2>2. PullsProceed'
    BY <1>0, KeyFacts DEF EndInv, TypeOK, PullsProceed, Undisturbed, Stat
  <2> QED BY <2>1, <2>2 DEF EndInv
<1>11. ASSUME NEW p \in Procs, Move(p) PROVE EndInv'
  <2> USE <1>11 DEF Move, Goto, cache, world, proc, setting, CleanTmp
  <2>1. TmpFilesAreHeld'
    BY SMTT(20), <1>0 DEF EndInv, TypeOK, TmpFilesAreHeld
  <2>2. PullsProceed'
    BY <1>0, KeyFacts DEF EndInv, TypeOK, PullsProceed, Undisturbed
  <2> QED BY <2>1, <2>2 DEF EndInv
<1>12. ASSUME NEW p \in Procs, Symlink(p) PROVE EndInv'
  <2> USE <1>12 DEF Symlink, Goto, cache, world, proc, setting, CleanTmp
  <2>1. TmpFilesAreHeld'
    BY <1>0 DEF EndInv, TypeOK, TmpFilesAreHeld
  <2>2. PullsProceed'
    BY <1>0, KeyFacts DEF EndInv, TypeOK, PullsProceed, Undisturbed
  <2> QED BY <2>1, <2>2 DEF EndInv
<1>13. ASSUME NEW p \in Procs, Copy(p) PROVE EndInv'
  <2> USE <1>13 DEF Copy, Goto, cache, world, proc, setting
  <2>1. TmpFilesAreHeld'
    BY SMTT(20), <1>0 DEF EndInv, TypeOK, TmpFilesAreHeld
  <2>2. PullsProceed'
    BY <1>0, KeyFacts DEF EndInv, TypeOK, PullsProceed, Undisturbed, Stat
  <2> QED BY <2>1, <2>2 DEF EndInv
<1>14. ASSUME NEW p \in Procs, Crash(p) PROVE EndInv'
  <2> USE <1>14 DEF Crash, Goto, cache, world, proc, setting
  <2>1. TmpFilesAreHeld'
    BY <1>0 DEF EndInv, TypeOK, TmpFilesAreHeld
  <2>2. PullsProceed'
    BY <1>0, KeyFacts DEF EndInv, TypeOK, PullsProceed, Undisturbed
  <2> QED BY <2>1, <2>2 DEF EndInv
<1>15. ASSUME NEW p \in Procs, CleanFile(p) PROVE EndInv'
  <2> USE <1>15 DEF CleanFile, Goto, cache, world, proc, setting, CleanTmp
  <2>1. TmpFilesAreHeld'
    BY <1>0 DEF EndInv, TypeOK, TmpFilesAreHeld
  <2>2. PullsProceed'
    BY <1>0, KeyFacts DEF EndInv, TypeOK, PullsProceed, Undisturbed
  <2> QED BY <2>1, <2>2 DEF EndInv
<1>16. ASSUME CleanList PROVE EndInv'
  <2> USE <1>16 DEF CleanList, cache, world, proc, setting
  <2>1. TmpFilesAreHeld'
    BY <1>0 DEF EndInv, TypeOK, TmpFilesAreHeld
  <2>2. PullsProceed'
    BY <1>0, KeyFacts DEF EndInv, TypeOK, PullsProceed, Undisturbed, Versions
  <2> QED BY <2>1, <2>2 DEF EndInv
<1>17. ASSUME NEW k \in Keys, CleanEntry(k) PROVE EndInv'
  <2> USE <1>17 DEF CleanEntry, cache, world, proc, setting
  <2>1. TmpFilesAreHeld'
    BY SMTT(20), <1>0 DEF EndInv, TypeOK, TmpFilesAreHeld
  <2>2. PullsProceed'
    BY <1>0, KeyFacts DEF EndInv, TypeOK, PullsProceed, Undisturbed, Versions
  <2> QED BY <2>1, <2>2 DEF EndInv
<1>18. ASSUME Publish PROVE EndInv'
  <2> USE <1>18 DEF Publish, cache, world, proc, setting
  <2>1. TmpFilesAreHeld'
    BY <1>0 DEF EndInv, TypeOK, TmpFilesAreHeld
  <2>2. PullsProceed'
    BY <1>0, KeyFacts DEF EndInv, TypeOK, PullsProceed, Undisturbed, Versions
  <2> QED BY <2>1, <2>2 DEF EndInv
<1>19. ASSUME UNCHANGED vars PROVE EndInv'
  <2> USE <1>19 DEF vars, cache, world, proc, setting
  <2>1. TmpFilesAreHeld'
    BY <1>0 DEF EndInv, TypeOK, TmpFilesAreHeld
  <2>2. PullsProceed'
    BY <1>0, KeyFacts DEF EndInv, TypeOK, PullsProceed, Undisturbed, Versions
  <2> QED BY <2>1, <2>2 DEF EndInv
<1> QED
  BY <1>1, <1>2, <1>3, <1>4, <1>5, <1>6, <1>7, <1>8, <1>9,
     <1>10, <1>11, <1>12, <1>13, <1>14, <1>15, <1>16, <1>17, <1>18, <1>19, <1>20
  DEF Next, Pull

\* For any number of commands that pull any number of times (GetEntry, Finalize and
\* CleanTmp of entry.go): while nothing is killed, a pull that has ended leaves no
\* temporary file behind, unless a download failed of a source that exits there
\* (kind.fatal: net and ipfs).  And while no download fails, nothing is killed or
\* cleaned, and a verified image stays what its hash says, no pull fails because of
\* the others, in a cache without a directory of an older release (~old) and of a
\* source whose entries do not link to each other (~kind.linked).
THEOREM PullsAllEndWell == Spec => []PullsEndWell
<1>1. IInv /\ EndInv => PullsEndWell
  BY DEF EndInv, TmpFilesAreHeld, PullsProceed, Undisturbed, PullsEndWell, NoTmpLeft,
         ConcurrentPullsSucceed
<1>2. Spec => []EndInv
  BY InitEnd, NextEnd, Invariance, PTL DEF Spec
<1> QED BY <1>1, <1>2, Invariance, PTL
-----------------------------------------------------------------------------
(* The images themselves: what the execution control list lets run.        *)

CONSTANTS ImageFiles, Lists, Fingerprints, MaxParts, MaxSigs
VARIABLES img, fds, used, ov, ovTmp, last

Image == INSTANCE ImageFile WITH Files <- ImageFiles, Keys <- Fingerprints, tmp <- ovTmp

Partitions == [use : {"sys", "overlay", "data"}, fs : {"squash", "crypt", "ext3"},
               good : BOOLEAN, group : Nat]
Signatures == [key : Fingerprints, group : Nat, valid : BOOLEAN]
ImageTypes == [kind : {"none", "other", "sandbox", "squashfs", "ext3", "sif"}, id : Nat,
               parts : Seq(Partitions), sigs : SUBSET Signatures, perm : BOOLEAN,
               nolock : BOOLEAN, dir : STRING]

\* Signatures are of the groups there are, and a root filesystem is in the first.
SignedGroups(f) ==
    /\ \A s \in f.sigs : \E i \in DOMAIN f.parts : f.parts[i].group = s.group
    /\ \A i \in DOMAIN f.parts : f.parts[i].use = "sys" => f.parts[i].group = 1

\* An image starts like that, and a rule has one of the three modes.
ImageConstants ==
    /\ ImageFiles \subseteq ImageTypes
    /\ \A f \in ImageFiles : SignedGroups(f)
    /\ \A l \in DOMAIN Lists : \A i \in DOMAIN Lists[l].groups :
          Lists[l].groups[i].mode \in {"whitelist", "whitestrict", "blacklist"}

ImageInv == img \in ImageTypes /\ SignedGroups(img) /\ Image!RunsAsListed

\* The signatures by k that count for a list, which in legacy mode are those of the
\* first group.
SignedBy(sigs, k, legacy) == {s \in sigs : s.key = k /\ (legacy => s.group = 1)}

\* They are of the groups that the verifier looks at, of which there is one.
LEMMA SelectedGroups ==
    ASSUME ImageInv, NEW ecl, NEW k, Image!Verified(Image!Selected(ecl))
    PROVE  /\ Image!Selected(ecl) # {}
           /\ ecl.legacy => Image!Selected(ecl) = {1}
           /\ \A s \in SignedBy(img.sigs, k, ecl.legacy) : s.group \in Image!Selected(ecl)
<1>1. Image!Selected(ecl) # {}
    BY DEF Image!Verified
<1>2. ASSUME ecl.legacy PROVE Image!Selected(ecl) = {1}
    BY <1>1, <1>2 DEF ImageInv, SignedGroups, Image!Selected, Image!Primary
<1>3. ASSUME NEW s \in SignedBy(img.sigs, k, ecl.legacy) PROVE s.group \in Image!Selected(ecl)
  <2>1. CASE ecl.legacy
    BY SMTT(20), <2>1, <1>2, <1>3 DEF SignedBy
  <2>2. CASE ~ecl.legacy
    BY SMTT(20), <2>2, <1>3 DEF SignedBy, ImageInv, SignedGroups, Image!Selected, Image!Groups
  <2> QED
    BY <2>1, <2>2
<1> QED
    BY <1>1, <1>2, <1>3

\* A key whose signature is on every group the verifier looks at, and that it did not
\* find invalid, has signatures that count, all of them valid.
LEMMA KeyIsGood ==
    ASSUME ImageInv, NEW ecl, Image!Verified(Image!Selected(ecl)),
           NEW k, k \in Image!AllSignedBy(Image!Selected(ecl)),
           k \notin Image!Unvalidated(Image!Selected(ecl))
    PROVE  /\ SignedBy(img.sigs, k, ecl.legacy) # {}
           /\ \A s \in SignedBy(img.sigs, k, ecl.legacy) : s.valid
<1> DEFINE gs == Image!Selected(ecl)
<1>1. PICK g \in gs : ecl.legacy => g = 1
    BY SelectedGroups
<1>2. PICK s \in img.sigs : s.group = g /\ s.key = k
    BY <1>1 DEF Image!AllSignedBy, Image!SignersOf
<1>3. s \in SignedBy(img.sigs, k, ecl.legacy)
    BY <1>1, <1>2 DEF SignedBy
<1>4. ASSUME NEW t \in SignedBy(img.sigs, k, ecl.legacy) PROVE t.valid
  <2>1. t \in img.sigs /\ t.key = k /\ t.group \in gs
    BY Zenon, <1>4, SelectedGroups DEF SignedBy
  <2>2. CASE ~t.valid
    BY <2>1, <2>2 DEF Image!Unvalidated
  <2> QED
    BY <2>2
<1> QED
    BY <1>3, <1>4

\* A key that is on no group the verifier looks at has no signature that counts.
LEMMA KeyIsAbsent ==
    ASSUME ImageInv, NEW ecl, Image!Verified(Image!Selected(ecl)),
           NEW k, k \notin Image!AnySignedBy(Image!Selected(ecl))
    PROVE  SignedBy(img.sigs, k, ecl.legacy) = {}
<1>1. ASSUME NEW s \in SignedBy(img.sigs, k, ecl.legacy) PROVE FALSE
  <2>1. s \in img.sigs /\ s.key = k /\ s.group \in Image!Selected(ecl)
    BY Zenon, <1>1, SelectedGroups DEF SignedBy
  <2> QED
    BY <2>1 DEF Image!AnySignedBy, Image!SignersOf
<1> QED
    BY <1>1

\* What a rule says of the signatures, and that it is the one for the directory.
Allows(e, sigs, legacy) ==
    LET Shown(k) == /\ SignedBy(sigs, k, legacy) # {}
                    /\ \A s \in SignedBy(sigs, k, legacy) : s.valid
    IN  CASE e.mode = "whitelist"   -> \E k \in e.keys : Shown(k)
          [] e.mode = "whitestrict" -> \A k \in e.keys : Shown(k)
          [] e.mode = "blacklist"   -> \A k \in e.keys : SignedBy(sigs, k, legacy) = {}

Applies(rules, i, dir) ==
    \/ rules[i].dir = dir
    \/ rules[i].dir = "" /\ \A j \in DOMAIN rules : rules[j].dir # dir

\* RunsAsListed in these words, of a decision d on an image in the directory dir.
ListedRule(d, dir) ==
    d.ok /\ Lists[d.list].activated =>
        \E i \in DOMAIN Lists[d.list].groups :
            /\ Applies(Lists[d.list].groups, i, dir)
            /\ Allows(Lists[d.list].groups[i], d.sigs, Lists[d.list].legacy)

\* It says the same, in a state ...
LEMMA ListedMeans == Image!RunsAsListed <=> ListedRule(last, img.dir)
BY DEF Image!RunsAsListed, ListedRule, Applies, Allows, SignedBy

\* ... and in the one after a step.
LEMMA ListedMeansNext == Image!RunsAsListed' <=> ListedRule(last', img'.dir)
<1>1. (Image!RunsAsListed <=> ListedRule(last, img.dir))'
    BY ListedMeans, PTL
<1> QED
    BY <1>1

\* The check of the rule e, as the list ecl has it made.
Checked(e, ecl) ==
    CASE e.mode = "whitelist"   -> Image!checkWhiteList(e.keys, Image!Selected(ecl))
      [] e.mode = "whitestrict" -> Image!checkWhiteStrict(e.keys, Image!Selected(ecl))
      [] e.mode = "blacklist"   -> Image!checkBlackList(e.keys, Image!Selected(ecl))

\* A rule whose check succeeds allows the signatures there are.
LEMMA CheckAllows ==
    ASSUME ImageInv, NEW ecl, Image!Verified(Image!Selected(ecl)), NEW e,
           e.mode \in {"whitelist", "whitestrict", "blacklist"}, Checked(e, ecl)
    PROVE  Allows(e, img.sigs, ecl.legacy)
<1>1. CASE e.mode = "whitelist"
  <2>1. PICK k \in e.keys : /\ k \in Image!AllSignedBy(Image!Selected(ecl))
                            /\ k \notin Image!Unvalidated(Image!Selected(ecl))
    BY <1>1 DEF Checked, Image!checkWhiteList
  <2> QED
    BY <1>1, <2>1, KeyIsGood DEF Allows
<1>2. CASE e.mode = "whitestrict"
  <2>1. \A k \in e.keys : /\ k \in Image!AllSignedBy(Image!Selected(ecl))
                          /\ k \notin Image!Unvalidated(Image!Selected(ecl))
    BY <1>2 DEF Checked, Image!checkWhiteStrict
  <2> QED
    BY <1>2, <2>1, KeyIsGood DEF Allows
<1>3. CASE e.mode = "blacklist"
  <2>1. \A k \in e.keys : k \notin Image!AnySignedBy(Image!Selected(ecl))
    BY <1>3 DEF Checked, Image!checkBlackList
  <2> QED
    BY <1>3, <2>1, KeyIsAbsent DEF Allows
<1> QED
    BY <1>1, <1>2, <1>3

\* The engine decides.
LEMMA ShouldRunAllows ==
    ASSUME ImageConstants, ImageInv, Image!ShouldRunFp
    PROVE  Image!RunsAsListed'
<1>1. PICK l \in DOMAIN Lists :
         last' = [list |-> l, sigs |-> img.sigs,
                  ok |-> Image!ValidateConfig(Lists[l]) /\ Image!shouldRun(Lists[l])]
    BY DEF Image!ShouldRunFp
<1>2. /\ last'.list = l /\ last'.sigs = img.sigs
      /\ last'.ok = (Image!ValidateConfig(Lists[l]) /\ Image!shouldRun(Lists[l]))
    BY Zenon, <1>1
<1>3. img' = img
    BY DEF Image!ShouldRunFp
<1>4. SUFFICES ASSUME Image!shouldRun(Lists[l]), Lists[l].activated
               PROVE  \E i \in DOMAIN Lists[l].groups :
                         /\ Applies(Lists[l].groups, i, img.dir)
                         /\ Allows(Lists[l].groups[i], img.sigs, Lists[l].legacy)
    BY Zenon, <1>2, <1>3, ListedMeansNext DEF ListedRule
<1>5. Image!Verified(Image!Selected(Lists[l]))
    BY <1>4 DEF Image!shouldRun
<1>6. PICK i \in Image!getExecGroup(Lists[l]) : Checked(Lists[l].groups[i], Lists[l])
    BY Zenon, <1>4 DEF Image!shouldRun, Checked
<1>7. i \in DOMAIN Lists[l].groups /\ Applies(Lists[l].groups, i, img.dir)
    BY Zenon DEF Image!getExecGroup, Applies
<1>8. Lists[l].groups[i].mode \in {"whitelist", "whitestrict", "blacklist"}
    BY <1>7 DEF ImageConstants
<1>9. Allows(Lists[l].groups[i], img.sigs, Lists[l].legacy)
    BY <1>5, <1>6, <1>8, CheckAllows
<1> QED
    BY <1>7, <1>9

\* What was decided stays so, while the image keeps its directory.
LEMMA DecisionStands ==
    ASSUME Image!RunsAsListed, last' = last, img'.dir = img.dir
    PROVE  Image!RunsAsListed'
BY ListedMeans, ListedMeansNext

\* The image changes by "overlay create" and by "sign" alone.
LEMMA ImageChanges ==
    ASSUME ImageInv, [Image!Next]_(Image!vars)
    PROVE  \/ img' = img /\ last' = last
           \/ img' = img /\ Image!ShouldRunFp
           \/ \E p \in Procs : Image!addOverlayToImage(p) \/ Image!overlayRename(p)
           \/ \E k \in Fingerprints, g \in SUBSET Image!Groups : Image!Sign(k, g)
<1>1. CASE UNCHANGED Image!vars
    BY <1>1 DEF Image!vars
<1>2. CASE Image!Next
    BY Zenon, <1>2 DEF Image!Next, Image!Open, Image!Exit, Image!overlayCheck,
        Image!overlayMake,
        Image!overlayFails, Image!ShouldRunFp
<1> QED
    BY <1>1, <1>2

\* Every step keeps the invariant.
LEMMA ImageKept ==
    ASSUME ImageConstants, ImageInv, [Image!Next]_(Image!vars)
    PROVE  ImageInv'
<1>1. CASE img' = img /\ last' = last
    BY <1>1, DecisionStands DEF ImageInv, SignedGroups
<1>2. CASE img' = img /\ Image!ShouldRunFp
    BY <1>2, ShouldRunAllows DEF ImageInv, SignedGroups
<1>3. ASSUME NEW p \in Procs, Image!addOverlayToImage(p) PROVE ImageInv'
  <2>1. img' = [img EXCEPT !.parts = Append(@, Image!Overlay)] /\ last' = last
    BY <1>3 DEF Image!addOverlayToImage
  <2>2. /\ img.parts \in Seq(Partitions) /\ Image!Overlay \in Partitions
        /\ Append(img.parts, Image!Overlay) \in Seq(Partitions)
    BY DEF ImageInv, ImageTypes, Image!Overlay, Partitions
  <2>3. /\ img' \in ImageTypes /\ img'.dir = img.dir /\ img'.sigs = img.sigs
        /\ img'.parts = Append(img.parts, Image!Overlay)
    BY Zenon, <2>1, <2>2 DEF ImageInv, ImageTypes
  <2>4. SignedGroups(img')
    BY <2>2, <2>3 DEF ImageInv, SignedGroups, Image!Overlay
  <2> QED
    BY <2>1, <2>3, <2>4, DecisionStands DEF ImageInv, SignedGroups
<1>4. ASSUME NEW p \in Procs, Image!overlayRename(p) PROVE ImageInv'
  <2>1. /\ img' = [img EXCEPT !.kind = "ext3", !.id = @ + 1, !.perm = TRUE,
                              !.parts = <<[Image!Overlay EXCEPT !.use = "data"]>>,
                              !.sigs = {}]
        /\ last' = last
    BY <1>4 DEF Image!overlayRename
  <2> DEFINE data == [Image!Overlay EXCEPT !.use = "data"]
  <2>2. data \in Partitions /\ data.use = "data"
    BY Zenon DEF Image!Overlay, Partitions
  <2> HIDE DEF data
  <2>3. <<data>> \in Seq(Partitions) /\ img.id + 1 \in Nat
    BY <2>2 DEF ImageInv, ImageTypes
  <2>4. /\ img' \in ImageTypes /\ img'.dir = img.dir /\ img'.sigs = {}
        /\ img'.parts = <<data>>
    BY Zenon, <2>1, <2>3 DEF ImageInv, ImageTypes, data
  <2>5. SignedGroups(img')
    BY SMTT(20), <2>2, <2>4 DEF SignedGroups
  <2> QED
    BY <2>1, <2>4, <2>5, DecisionStands DEF ImageInv, SignedGroups
<1>5. ASSUME NEW k \in Fingerprints, NEW g \in SUBSET Image!Groups, Image!Sign(k, g)
      PROVE  ImageInv'
  <2>1. PICK valid \in BOOLEAN :
          img' = [img EXCEPT !.sigs =
                    @ \cup {[key |-> k, group |-> h, valid |-> valid] : h \in g}]
    BY Zenon, <1>5 DEF Image!Sign
  <2> DEFINE new == {[key |-> k, group |-> h, valid |-> valid] : h \in g}
  <2>a. img.parts \in Seq(Partitions)
    BY DEF ImageInv, ImageTypes
  <2>b. \A i \in DOMAIN img.parts : img.parts[i] \in Partitions
    BY <2>a
  <2>c. \A i \in DOMAIN img.parts : img.parts[i].group \in Nat
    BY <2>b DEF Partitions
  <2>2. \A h \in g : h \in Nat /\ \E i \in DOMAIN img.parts : img.parts[i].group = h
    BY <2>c DEF Image!Groups
  <2>d. ASSUME NEW s \in new PROVE s \in Signatures /\ s.group \in g
    <3>1. PICK h \in g : s = [key |-> k, group |-> h, valid |-> valid]
      BY SMTT(20), <2>d
    <3>2. h \in Nat
      BY SMTT(20), <2>2
    <3> QED
      BY Zenon, <3>1, <3>2 DEF Signatures
  <2>3. new \subseteq Signatures /\ \A s \in new : s.group \in g
    BY <2>d
  <2> HIDE DEF new
  <2>4. /\ img' \in ImageTypes /\ img'.dir = img.dir /\ img'.parts = img.parts
        /\ img'.sigs = img.sigs \cup new
    BY <2>1, <2>3 DEF ImageInv, ImageTypes, new
  <2>5. SignedGroups(img')
    BY <2>2, <2>3, <2>4 DEF ImageInv, SignedGroups
  <2>6. last' = last
    BY <1>5 DEF Image!Sign
  <2> QED
    BY <2>4, <2>5, <2>6, DecisionStands DEF ImageInv, SignedGroups
<1> QED
    BY <1>1, <1>2, <1>3, <1>4, <1>5, ImageChanges

\* An execution that the list allows is one that the rule for the image's directory
\* describes, for the signatures that the image had: a whitelist's has a valid
\* signature by one of its keys, a strict one's by all of them, a blacklist's none
\* (syecl.go:123-303).
THEOREM RunsListed ==
    ASSUME ImageConstants
    PROVE  Image!Spec => []Image!RunsAsListed
<1>1. Image!Init => ImageInv
    BY SMTT(20) DEF Image!Init, ImageConstants, ImageInv, Image!RunsAsListed, Image!NoDecision
<1>2. ImageInv /\ [Image!Next]_(Image!vars) => ImageInv'
    BY ImageKept
<1>3. ImageInv => Image!RunsAsListed
    BY DEF ImageInv
<1> QED
    BY <1>1, <1>2, <1>3, PTL DEF Image!Spec

=============================================================================
