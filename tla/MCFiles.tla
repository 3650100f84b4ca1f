------------------------------- MODULE MCFiles ------------------------------
(***************************************************************************)
(* The files that commands share, for TLC: the image cache (ImageCache),   *)
(* the stores of remotes, capabilities and subordinate ids (Stores), the   *)
(* keyrings (Keyring), plugins (Plugins), apptainer.conf (GlobalConfig),   *)
(* the output and the log of an OCI container (OciStreams) and definition  *)
(* files (Deffile).  A behaviour belongs to one part: the variables of     *)
(* ImageCache rest in an initial state in those of the others, which lie   *)
(* over the same variables v1, v2, ...                                     *)
(***************************************************************************)
EXTENDS ImageCache, TLC

\* The commands are alike, those that pull and those of Stores and Keyring.
Symmetry == Permutations(Procs)

\* The lines that definition files are made of.
L(k, w, v) == [k |-> k, key |-> w, v |-> v, cont |-> FALSE]
LC(w, v) == [k |-> "head", key |-> w, v |-> v, cont |-> TRUE]
Boot == L("boot", "bootstrap", "docker")

MCOpenings ==
    {<<Boot, L("sect", "post", "")>>, <<Boot, LC("from", "w")>>,
     <<Boot, L("note", "#", "{A}")>>, <<L("blank", "", ""), L("sect", "apprun", "b")>>,
     <<L("sect", "post", ""), L("text", "", "w")>>, <<L("sect", "files", ""), L("blank", "", "")>>,
     <<Boot, L("head", "from", "{A}"), L("sect", "arguments", "")>>}

MCLines ==
    {Boot, L("head", "from", "w"), L("head", "from", "{A}"), L("head", "bad", "w"),
     LC("from", "w"),
     L("sect", "post", ""), L("sect", "post", "-x"), L("sect", "files", ""),
     L("sect", "files", "from s"), L("sect", "apprun", "a"), L("sect", "apprun", "b"),
     L("sect", "arguments", ""), L("sect", "bogus", ""),
     L("text", "", "w"), L("text", "A", "{B}"), L("text", "A", "d"),
     L("text", "", "{B}"),
     L("tail", "e", "{A}"), L("note", "#", "{A}"), L("blank", "", "")}

MCRefs == [x \in {"{A}", "{B}"} |-> IF x = "{A}" THEN "A" ELSE "B"]

\* What /etc/subuid may hold at first.
Range(u, start, count, invalid) ==
    [uid |-> u, start |-> start, count |-> count, disabled |-> FALSE, invalid |-> invalid]
MCSubEntries ==
    {<< >>,
     <<Range("u1", 6, 2, FALSE)>>,
     <<Range("u1", 5, 1, FALSE), Range("u2", 2, 3, FALSE)>>,
     <<Range("nobody", 6, 0, TRUE), Range("u3", 3, 2, FALSE)>>}

-----------------------------------------------------------------------------
VARIABLES part, v1, v2, v3, v4, v5, v6, v7, v8, v9, v10

St == INSTANCE Stores WITH
        Remote <- {"r1", "r2"}, Service <- {"k1"}, User <- {"u1", "u2", "u3"},
        RangeCount <- 2, StartMin <- 2, StartMax <- 6, Wrap <- 10,
        Kinds <- {"remote", "caps", "subid"}, Process <- Procs,
        Principal <- {"g1", "g2"}, Cap <- {"c1"}, SubEntries <- MCSubEntries,
        MaxCommands <- 2, MaxSerial <- 3, MaxCrashes <- 1,
        kind <- v1, files <- v2, torn <- v3, lock <- v4, procs <- v5, runs <- v6,
        crashes <- v7, granted <- v8

Kr == INSTANCE Keyring WITH
        Key <- {"k1", "k2"}, Process <- Procs, MaxCommands <- 3, MaxCrashes <- 1,
        ring <- v1, procs <- v2, runs <- v3, crashes <- v4, want <- v5, met <- v6

Pl == INSTANCE Plugins WITH
        Plugin <- {"g1", "g2"}, Below <- {<<"g1", "g2">>}, Admins <- Procs,
        MaxCommands <- 3, MaxCrashes <- 1,
        disk <- v1, enabled <- v2, cmd <- v3, loader <- v4, runs <- v5, crashes <- v6,
        redone <- v7

Gc == INSTANCE GlobalConfig WITH
        Admins <- {"r1", "r2"}, Items <- {"a", "localtime"}, MaxEdits <- 2,
        file <- v1, cmd <- v2, done <- v3, edits <- v4

Os == INSTANCE OciStreams WITH
        Clients <- {"c1"}, MaxLines <- 2, MaxReopens <- 2,
        copier <- v1, writers <- v2, scan <- v3, log <- v4, file <- v5, fm <- v6,
        reopen <- v7, client <- v8, got <- v9, lost <- v10

Df == INSTANCE Deffile WITH
        Openings <- MCOpenings, Lines <- MCLines, MaxLines <- 5, ArgNames <- {"A", "B"},
        Refs <- MCRefs,
        file <- v1, user <- v2

Quiet == Init /\ kind = Library /\ ~old

from9 == <<v9, v10>>
from8 == <<v8, from9>>
from7 == <<v7, from8>>
from5 == <<v5, v6, from7>>
from3 == <<v3, v4, from5>>
other == <<v1, v2, from3>>
all == <<part, other, vars>>

\* The variables a smaller part does not use.
From9 == v9 = 0 /\ v10 = 0
From8 == v8 = 0 /\ From9
From7 == v7 = 0 /\ From8
From5 == v5 = 0 /\ v6 = 0 /\ From7
From3 == v3 = 0 /\ v4 = 0 /\ From5
From1 == v1 = 0 /\ v2 = 0 /\ From3

MCInit ==
    \/ part = "cache" /\ Init /\ From1
    \/ part = "stores" /\ Quiet /\ St!Init /\ From9
    \/ part = "keyring" /\ Quiet /\ Kr!Init /\ From7
    \/ part = "plugins" /\ Quiet /\ Pl!Init /\ From8
    \/ part = "config" /\ Quiet /\ Gc!Init /\ From5
    \/ part = "streams" /\ Quiet /\ Os!Init
    \/ part = "deffile" /\ Quiet /\ Df!Init /\ From3

\* Three pulls in all.
FewPulls == \E p \in Procs : pulls'[p] < MaxPulls

MCNext ==
    \/ part = "cache" /\ Next /\ FewPulls /\ UNCHANGED <<part, other>>
    \/ part = "stores" /\ St!Next /\ UNCHANGED <<part, vars, from9>>
    \/ part = "keyring" /\ Kr!Next /\ UNCHANGED <<part, vars, from7>>
    \/ part = "plugins" /\ Pl!Next /\ UNCHANGED <<part, vars, from8>>
    \/ part = "config" /\ Gc!Next /\ UNCHANGED <<part, vars, from5>>
    \/ part = "streams" /\ Os!Next /\ UNCHANGED <<part, vars>>
    \/ part = "deffile" /\ Df!Next /\ UNCHANGED <<part, vars, from3>>

MCSpec == MCInit /\ [][MCNext]_all

-----------------------------------------------------------------------------
(* Properties: those of the parts, in the behaviours of the part.               *)
(* GivesItsImage, EntriesAreSound and PullsEndWell are ImageCache's own.        *)

\* The active remote is one of the remotes, and its keyservers answer (remote.go).
RemotesAreUsable == part = "stores" => St!RemotesAreUsable

\* Capabilities are held by whom they were given to, and ranges of subordinate ids
\* are apart (capability.go, fakeroot.go).
GrantsAreSound == part = "stores" => St!GrantsAreSound

\* A key that was added is in the keyring until it is removed (sypgp.go).
KeysAreKept == part = "keyring" => Kr!KeysAreKept

\* A plugin that is listed as enabled can be loaded (plugin/meta.go).
ListedLoads == part = "plugins" => Pl!ListedLoads

\* "config global" changes the directive it names and no other (config_global_linux.go).
EditIsLocal == part = "config" => Gc!EditIsLocal

\* The log of a container has its output, whole and in order (logger.go).
OutputIsWhole == part = "streams" => Os!OutputIsWhole

\* A definition file is parsed to what its sections declare (deffile.go).
DefinitionIsDeclared == part = "deffile" => Df!DefinitionIsDeclared

=============================================================================
