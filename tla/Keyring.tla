------------------------------ MODULE Keyring ------------------------------
(***************************************************************************)
(* The PGP keyrings (internal/pkg/sypgp and the "key" commands): the files *)
(* pgp-public and pgp-secret of a user, which commands append to and       *)
(* rewrite without a lock.                                                 *)
(*                                                                         *)
(* A file is the sequence of the packets in it: a key's block is the       *)
(* packet of the key itself, with its secret part or without, and the rest *)
(* (identities, signatures and subkeys, taken as one packet), and each is  *)
(* a write of its own.  Appending is to a file opened O_APPEND; rewriting  *)
(* opens the file O_TRUNC and writes at its own place.  Other commands may *)
(* come between any two writes.                                            *)
(*                                                                         *)
(* The OpenPGP library is external: Serialize writes a key's public part   *)
(* and SerializePrivateWithoutSigning also its secret part, and            *)
(* ReadKeyRing reads the blocks of a file that is made of whole ones.      *)
(***************************************************************************)
EXTENDS Naturals, Sequences, SequencesExt

CONSTANTS Key,        \* fingerprints
          Process,    \* commands that may run at the same time
          MaxCommands,
          MaxCrashes

VARIABLES ring,       \* ring.public and ring.secret: the two files
          procs,      \* the commands
          runs,
          crashes,
          want,       \* ghost: the keys added and not removed since
          met         \* ghost: commands overlapped ("any"), one of them
                      \* rewriting a ring ("rewrite"); appends mixed or one
                      \* was cut short ("torn"); a command died ("died")

vars == <<ring, procs, runs, crashes, want, met>>

Block(k, secret) == [key |-> k, secret |-> secret]

\* The packets of a block, in the order they are written, and what a write
\* beyond the end of a truncated file leaves before it.
First(b) == [part |-> "key", of |-> b]
Rest(b) == [part |-> "rest", of |-> b]
Packets(b) == <<First(b), Rest(b)>>
Hole == [part |-> "hole"]

\* The blocks that are whole, and whether a file has nothing else.
IsWhole(file, i) == /\ file[i].part = "key" /\ i < Len(file)
                    /\ file[i + 1] = Rest(file[i].of)
Blocks(file) ==
    LET at == SetToSortSeq({i \in DOMAIN file : IsWhole(file, i)}, <)
    IN  [n \in DOMAIN at |-> file[at[n]].of]
Clean(file) == Len(file) = 2 * Len(Blocks(file))

KeysOf(blocks) == {blocks[i].key : i \in DOMAIN blocks}

\* openpgp.ReadKeyRing: of a file with a block that is not whole it reads the
\* whole ones, loses some of them as well, or reports an error.
loadKeyring(file) ==
    LET all == Blocks(file)
    IN  IF Clean(file) THEN {[ok |-> TRUE, keys |-> all]}
        ELSE {[ok |-> FALSE, keys |-> << >>]}
             \cup {[ok |-> TRUE, keys |-> SelectSeq(all, LAMBDA b : b \in some)] :
                      some \in SUBSET ToSet(all)}

\* findKeyByFingerprint, findEntityByFingerprint: the first block of a key.
Find(blocks, k) ==
    CHOOSE i \in DOMAIN blocks :
        /\ blocks[i].key = k
        /\ \A j \in DOMAIN blocks : blocks[j].key = k => i <= j

removeKey(blocks, k) == RemoveAt(blocks, Find(blocks, k))

\* The library's: a block without its secret part.
Serialize(b) == [b EXCEPT !.secret = FALSE]

----------------------------------------------------------------------------
(* A command is the list of the steps it still has to take. *)

Step(do, to, k) == <<[do |-> do, to |-> to, key |-> k]>>

\* "key newpair": genKeyPair appends to the secret ring, then to the public
\* one; a new key is in none, so there is no check.
GenKeyPair(k) == Step("append", "secret", k) \o Step("append", "public", k)

\* "key import": importPrivateKey and importPublicKey for a key of a file; a
\* key that the ring has is an error.
ImportKey(k, secret) ==
    (IF secret THEN Step("expect", "secret", k) \o Step("append", "secret", k)
     ELSE << >>)
    \o Step("expect", "public", k) \o Step("append", "public", k)

\* "key pull": doKeyPullCmd stores one public key, unless the ring has it.
PullKey(k) == Step("skip", "public", k) \o Step("append", "public", k)

\* "key remove": RemovePubKey, RemovePrivKey, or one after the other.
RemoveFrom(r, k) == Step("load", r, k) \o Step("store", r, k)
RemoveBoth(k) == Step("loadif", "public", k) \o Step("store", "public", k)
                 \o RemoveFrom("secret", k)

Commands ==
    {[op |-> "newpair", todo |-> GenKeyPair(k)] : k \in Key}
    \cup {[op |-> "import", todo |-> ImportKey(k, s)] :
             k \in Key, s \in BOOLEAN}
    \cup {[op |-> "pull", todo |-> PullKey(k)] : k \in Key}
    \cup {[op |-> "remove", todo |-> RemoveFrom(r, k)] :
             k \in Key, r \in {"public", "secret"}}
    \cup {[op |-> "remove", todo |-> RemoveBoth(k)] : k \in Key}

Idle == [todo |-> << >>]

Init ==
    /\ ring = [public |-> << >>, secret |-> << >>]
    /\ procs = [p \in Process |-> Idle]
    /\ runs = 0
    /\ crashes = 0
    /\ want = [public |-> {}, secret |-> {}]
    /\ met = {}

\* A key pair is new: its key is in no ring and no other command has it.
Fresh(k) ==
    /\ \A r \in {"public", "secret"} :
          /\ k \notin want[r]
          /\ \A s \in BOOLEAN : First(Block(k, s)) \notin ToSet(ring[r])
    /\ \A p \in Process : \A i \in DOMAIN procs[p].todo :
          procs[p].todo[i].key # k

Start(p, c) ==
    /\ procs[p] = Idle
    /\ runs < MaxCommands
    /\ c.op = "newpair" => Fresh(c.todo[1].key)
    /\ runs' = runs + 1
    /\ procs' = [procs EXCEPT ![p] = [op |-> c.op, todo |-> c.todo,
                                      mem |-> << >>, at |-> 0]]
    /\ LET others == {o \in Process \ {p} : procs[o] # Idle}
           rewrite == \/ c.op = "remove"
                      \/ \E o \in others : procs[o].op = "remove"
       IN  met' = met \cup (IF others = {} THEN {}
                            ELSE {"any"} \cup (IF rewrite THEN {"rewrite"}
                                               ELSE {}))
    /\ UNCHANGED <<ring, crashes, want>>

\* The command after n of its steps, or after its end.
After(q, n) == IF Len(q.todo) <= n THEN Idle
               ELSE [q EXCEPT !.todo = SubSeq(@, n + 1, Len(@))]

\* The first step of p's command, when it is one of these.
At(p, steps) == procs[p] # Idle /\ Head(procs[p].todo).do \in steps

\* importPrivateKey, importPublicKey, doKeyPullCmd: the ring is loaded and
\* searched; a key found ends the import with an error, and a pull without.
\* The password of a secret key may be wrong.
Look(p) ==
    LET q == procs[p]
        s == Head(q.todo)
    IN  /\ At(p, {"expect", "skip"})
        /\ \E read \in loadKeyring(ring[s.to]) :
              \/ /\ ~read.ok \/ s.key \in KeysOf(read.keys) \/ s.to = "secret"
                 /\ procs' = [procs EXCEPT ![p] = Idle]
              \/ /\ read.ok /\ s.key \notin KeysOf(read.keys)
                 /\ procs' = [procs EXCEPT ![p] = After(q, 1)]
        /\ UNCHANGED <<ring, runs, crashes, want, met>>

\* Mutant of AppendKey: the file is opened without O_APPEND, at its start.
AppendOver(p) ==
    LET q == procs[p]
        s == Head(q.todo)
        b == Block(s.key, s.to = "secret")
    IN  /\ At(p, {"append"})
        /\ ring' = [ring EXCEPT ![s.to] = <<First(b)>>
                                          \o SubSeq(@, 2, Len(@))]
        /\ procs' = [procs EXCEPT ![p].todo[1].do = "finish"]
        /\ met' = IF \E o \in Process \ {p} : At(o, {"finish"})
                        /\ Head(procs[o].todo).to = s.to
                  THEN met \cup {"torn"} ELSE met
        /\ UNCHANGED <<runs, crashes, want>>

\* appendPrivateKey, appendPubKey, doKeyPullCmd: the first packet ...
AppendKey(p) ==
    LET q == procs[p]
        s == Head(q.todo)
    IN  /\ At(p, {"append"})
        /\ ring' = [ring EXCEPT ![s.to] =
                      Append(@, First(Block(s.key, s.to = "secret")))]
        /\ procs' = [procs EXCEPT ![p].todo[1].do = "finish"]
        /\ met' = IF \E o \in Process \ {p} : At(o, {"finish"})
                        /\ Head(procs[o].todo).to = s.to
                  THEN met \cup {"torn"} ELSE met
        /\ UNCHANGED <<runs, crashes, want>>

\* ... and the rest.
AppendRest(p) ==
    LET q == procs[p]
        s == Head(q.todo)
    IN  /\ At(p, {"finish"})
        /\ ring' = [ring EXCEPT ![s.to] =
                      Append(@, Rest(Block(s.key, s.to = "secret")))]
        /\ want' = [want EXCEPT ![s.to] = @ \cup {s.key}]
        /\ procs' = [procs EXCEPT ![p] = After(q, 1)]
        /\ UNCHANGED <<runs, crashes, met>>

\* RemovePubKey and RemovePrivKey: the ring is loaded and the key taken out
\* of what was read; without the key, or with an error, the command ends, or
\* goes on to the other ring when it was asked for both.
Load(p) ==
    LET q == procs[p]
        s == Head(q.todo)
    IN  /\ At(p, {"load", "loadif"})
        /\ \E read \in loadKeyring(ring[s.to]) :
              procs' = [procs EXCEPT ![p] =
                          IF read.ok /\ s.key \in KeysOf(read.keys)
                          THEN [After(q, 1) EXCEPT !.mem =
                                  removeKey(read.keys, s.key)]
                          ELSE IF s.do = "loadif" THEN After(q, 2)
                          ELSE Idle]
        /\ UNCHANGED <<ring, runs, crashes, want, met>>

\* createOrTruncateFile.
Truncate(p) ==
    LET q == procs[p]
        s == Head(q.todo)
    IN  /\ At(p, {"store"})
        /\ ring' = [ring EXCEPT ![s.to] = << >>]
        /\ procs' = [procs EXCEPT ![p].todo[1].do = "write", ![p].at = 0,
                                  ![p].mem = FlattenSeq(
                                     [i \in DOMAIN @ |-> Packets(Serialize(@[i]))])]
        /\ UNCHANGED <<runs, crashes, want, met>>

\* A file with a packet written after its first n.
WriteAt(file, n, packet) ==
    [i \in 1 .. (IF n < Len(file) THEN Len(file) ELSE n + 1) |->
        IF i = n + 1 THEN packet ELSE IF i <= Len(file) THEN file[i] ELSE Hole]

\* storePubKeyring and storePrivKeyring: the keys read are written one by
\* one, each with Serialize, at this process's own place in the file.
Store(p) ==
    LET q == procs[p]
        s == Head(q.todo)
    IN  /\ At(p, {"write"})
        /\ IF q.mem = << >>
           THEN /\ procs' = [procs EXCEPT ![p] = After(q, 1)]
                /\ want' = [want EXCEPT ![s.to] = @ \ {s.key}]
                /\ UNCHANGED ring
           ELSE /\ procs' = [procs EXCEPT ![p].mem = Tail(@), ![p].at = @ + 1]
                /\ ring' = [ring EXCEPT ![s.to] =
                              WriteAt(@, q.at, Head(q.mem))]
                /\ UNCHANGED want
        /\ UNCHANGED <<runs, crashes, met>>

\* A command dies.
Crash(p) ==
    /\ procs[p] # Idle
    /\ crashes < MaxCrashes
    /\ crashes' = crashes + 1
    /\ procs' = [procs EXCEPT ![p] = Idle]
    /\ met' = met \cup {"died"}
                   \cup (IF procs[p].op = "remove" THEN {"rewrite"} ELSE {})
                   \cup (IF At(p, {"finish"}) THEN {"torn"} ELSE {})
    /\ UNCHANGED <<ring, runs, want>>

Next ==
    \E p \in Process :
        \/ \E c \in Commands : Start(p, c)
        \/ Look(p)
        \/ AppendKey(p)
        \/ AppendRest(p)
        \/ Load(p)
        \/ Truncate(p)
        \/ Store(p)
        \/ Crash(p)

Spec == Init /\ [][Next]_vars

----------------------------------------------------------------------------

Settled == \A p \in Process : procs[p] = Idle

\* No key is lost from a ring by commands that add keys at the same time, or
\* that die while adding, as long as no two blocks are appended to one file at
\* the same time and none is cut short (appendPrivateKey, appendPubKey); the
\* ring is then one that can be read; and as long as the commands ran one
\* after the other, a removed key is gone.
KeysAreKept ==
    Settled =>
      \A r \in {"public", "secret"} :
         /\ met \cap {"rewrite", "torn"} = {} =>
               Clean(ring[r]) /\ want[r] \subseteq KeysOf(Blocks(ring[r]))
         /\ met = {} => KeysOf(Blocks(ring[r])) \subseteq want[r]

\* "RemovePrivKey will delete a private key matching toDelete": a command that
\* ran alone leaves the other private keys of the secret ring as they were,
\* secret part included.
SecretsSurvive ==
    Settled /\ met = {} =>
      \A k \in want.secret : \E i \in DOMAIN Blocks(ring.secret) :
          Blocks(ring.secret)[i] = Block(k, TRUE)
=============================================================================
