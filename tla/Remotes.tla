------------------------------ MODULE Remotes ------------------------------
(***************************************************************************)
(* The remote configuration (internal/pkg/remote): what the commands       *)
(* "remote", "keyserver" and "registry" do to a remote.yaml held in        *)
(* memory, and what a client makes of it.  A configuration is the active   *)
(* remote ("" is none), the remotes and the services it has credentials    *)
(* for.  A remote keeps who defined it, whether it is exclusive, whether   *)
(* it has a token and its list of keyservers.  URIs are reduced to         *)
(* identities, so SameKeyserver and SameURI are equality.                  *)
(*                                                                         *)
(* An edit is the set of configurations it may produce: the empty set is   *)
(* an error, and several members a choice (a Go map's iteration order).    *)
(***************************************************************************)
EXTENDS Naturals, Sequences, FiniteSets, SequencesExt

CONSTANTS Remote,     \* names of remotes
          Service     \* URIs of keyservers and registries

\* The keyserver an endpoint's own configuration announces.
Own == "own"

\* A configuration with nothing in it, which is also what an empty file is
\* read as.
EmptyConfig == [active |-> "", remotes |-> << >>, creds |-> {}]

Endpoint(system) ==
    [system |-> system, exclusive |-> FALSE, token |-> FALSE,
     keyservers |-> << >>]

\* The configuration with remote n set to e.
Put(c, n, e) ==
    [c EXCEPT !.remotes = [m \in DOMAIN c.remotes \cup {n} |->
                             IF m = n THEN e ELSE c.remotes[m]]]

----------------------------------------------------------------------------
(* Config.Add, Remove, SetDefault, SyncFrom, GetDefault. *)

AddRemote(c, n, e) ==
    IF n \in DOMAIN c.remotes THEN {} ELSE {Put(c, n, e)}

\* Mutant of RemoveRemote: the removed remote stays the active one.
RemoveRemoteKeepsActive(c, n, system) ==
    IF n \notin DOMAIN c.remotes \/ (c.remotes[n].system /\ ~system) THEN {}
    ELSE {[c EXCEPT !.remotes = [m \in DOMAIN c.remotes \ {n} |->
                                   c.remotes[m]]]}

RemoveRemote(c, n, system) ==
    IF n \notin DOMAIN c.remotes \/ (c.remotes[n].system /\ ~system) THEN {}
    ELSE {[c EXCEPT !.active = IF @ = n THEN "" ELSE @,
                    !.remotes = [m \in DOMAIN c.remotes \ {n} |->
                                   c.remotes[m]]]}

\* A user may not move away from the active remote while a remote is
\* exclusive.  Making a remote exclusive ends only the exclusiveness of the
\* one that was active.
SetDefault(c, n, exclusive, system) ==
    LET prev == {c.active} \ {n}
        Excl(m) == IF m = n THEN exclusive
                   ELSE c.remotes[m].exclusive /\ ~(exclusive /\ m \in prev)
    IN  IF \/ n \notin DOMAIN c.remotes
           \/ exclusive /\ ~system
           \/ /\ n # c.active
              /\ ~system
              /\ \E m \in DOMAIN c.remotes : c.remotes[m].exclusive
        THEN {}
        ELSE {[c EXCEPT !.active = n,
                        !.remotes = [m \in DOMAIN c.remotes |->
                                       [c.remotes[m] EXCEPT
                                          !.exclusive = Excl(m)]]]}

\* The system's remotes copied over the user's: a remote of the user's own
\* with the same name wins, and an exclusive one becomes the active one.
SyncFrom(c, s) ==
    LET mine == {n \in DOMAIN c.remotes : ~c.remotes[n].system}
        synced == DOMAIN s.remotes \ mine
        excl == {n \in synced : s.remotes[n].exclusive}
        Copy(n) ==
            [system |-> TRUE,
             exclusive |-> s.remotes[n].exclusive,
             token |-> n \in DOMAIN c.remotes /\ c.remotes[n].token,
             keyservers |-> s.remotes[n].keyservers]
        active == IF excl # {} THEN excl
                  ELSE {IF c.active = "" THEN s.active ELSE c.active}
    IN  {[c EXCEPT !.active = a,
                   !.remotes = [n \in DOMAIN c.remotes \cup synced |->
                                  IF n \in synced THEN Copy(n)
                                  ELSE c.remotes[n]]] : a \in active}

\* The name a command's argument stands for: "" is the active remote.
GetDefault(c, name) == IF name = "" THEN c.active ELSE name

----------------------------------------------------------------------------
(* The keyservers of an endpoint. *)

Active(ks) == SelectSeq(ks, LAMBDA k : ~k.skip)

\* UpdateKeyserversConfig: the endpoint's own keyserver when none is listed.
UpdateKeyservers(ks) ==
    IF ks = << >> THEN <<[uri |-> Own, skip |-> FALSE, external |-> FALSE]>>
    ELSE ks

\* AddKeyserver; order 0 asks for the end of the list.  The position is
\* counted among the keyservers in use and applied to the whole list.
AddKeyserver(list, uri, order) ==
    LET ks == UpdateKeyservers(list)
        max == Len(Active(ks)) + 1
        pos == IF order = 0 THEN max ELSE order
        found == {i \in DOMAIN ks : ks[i].uri = uri}
        back == {i \in found : ~ks[i].external /\ ks[i].skip}
        rest == IF found = {} THEN ks
                ELSE RemoveAt(ks, CHOOSE i \in found : TRUE)
        new == [uri |-> uri, skip |-> FALSE, external |-> found = {}]
    IN  IF pos > max \/ found # back THEN {}
        ELSE {InsertAt(rest, pos, new)}

\* RemoveKeyserver: the endpoint's own keyserver is only marked.
RemoveKeyserver(list, uri) ==
    LET ks == UpdateKeyservers(list)
        at == {i \in DOMAIN ks : ks[i].uri = uri /\ ~ks[i].skip}
    IN  IF at = {} \/ Len(Active(ks)) = 1 THEN {}
        ELSE {LET i == CHOOSE j \in at : TRUE
              IN  IF ks[i].external THEN RemoveAt(ks, i)
                  ELSE [ks EXCEPT ![i].skip = TRUE]}

\* The list of keyservers that KeyserverAdd and KeyserverRemove edit, and its
\* replacement by one of lists: only for a remote the system defines.
KeyserverList(c, name) == c.remotes[GetDefault(c, name)].keyservers
EditKeyservers(c, name, lists) ==
    LET n == GetDefault(c, name)
    IN  IF n \notin DOMAIN c.remotes \/ ~c.remotes[n].system THEN {}
        ELSE {Put(c, n, [c.remotes[n] EXCEPT !.keyservers = ks]) : ks \in lists}

----------------------------------------------------------------------------
(* Credentials. *)

\* Config.Login: a keyserver must be an external one of some remote; a
\* registry (the services no remote can list) need not be.
Login(c, uri, registry) ==
    IF ~registry /\ ~\E n \in DOMAIN c.remotes :
                        \E i \in DOMAIN c.remotes[n].keyservers :
                           LET k == c.remotes[n].keyservers[i]
                           IN  k.external /\ k.uri = uri
    THEN {}
    ELSE {[c EXCEPT !.creds = @ \cup {uri}]}

Logout(c, uri) == {[c EXCEPT !.creds = @ \ {uri}]}

\* RemoteLogin and RemoteLogout of an endpoint; the token is verified with
\* the endpoint before it is stored, and "replace it?" may end the command.
SetToken(c, name, token) ==
    LET n == GetDefault(c, name)
    IN  IF n \notin DOMAIN c.remotes THEN {}
        ELSE {Put(c, n, [c.remotes[n] EXCEPT !.token = token])}

----------------------------------------------------------------------------
(* What a client makes of the configurations. *)

\* getRemote: the endpoints the commands may use: {"default"} when no remote
\* is configured, {} when the user is asked to choose one, and "missing" when
\* the active remote is not one of the remotes.
GetRemote(c) ==
    IF c.active = "" THEN IF DOMAIN c.remotes = {} THEN {"default"} ELSE {}
    ELSE IF c.active \in DOMAIN c.remotes THEN {c.active} ELSE {"missing"}

\* KeyserverClientOpts: the list the HTTP client is given, or {} for a
\* refusal.  Naming a keyserver of an exclusive endpoint leaves the list
\* empty.
KeyserverClientOpts(ep, uri, verify) ==
    LET ks == UpdateKeyservers(ep.keyservers)
        use == Active(ks)
    IN  IF use = << >> THEN {}
        ELSE IF uri = "" THEN {IF verify THEN ks ELSE <<Head(use)>>}
        ELSE IF ~ep.exclusive
        THEN {<<[uri |-> uri, skip |-> FALSE, external |-> TRUE]>>}
        ELSE IF \E i \in DOMAIN use : use[i].uri = uri THEN {<< >>} ELSE {}

\* RoundTrip: the keyservers are asked in their order until one answers with
\* a status 2xx (those in up); the answer of the last is returned whatever it
\* is.
RoundTrip(ks, up) ==
    LET ask[i \in 1 .. Len(ks) + 1] ==
            IF i > Len(ks) THEN "none"
            ELSE IF ks[i].skip THEN ask[i + 1]
            ELSE IF ks[i].uri \in up THEN ks[i].uri
            ELSE IF i < Len(ks) THEN ask[i + 1]
            ELSE "failed"
    IN  ask[1]
=============================================================================
