------------------------------- MODULE SubIDs -------------------------------
(***************************************************************************)
(* The subordinate id ranges of fakeroot (internal/pkg/fakeroot): what     *)
(* "config fakeroot" does to the entries of /etc/subuid or /etc/subgid     *)
(* held in memory, and the range a container gets.  An entry is the line   *)
(* of the file as parsed; a line with fewer than three fields is dropped   *)
(* on reading.  Ids are counted modulo Wrap, for the code's uint32, and    *)
(* a full range is RangeCount ids long, for its 65536.                     *)
(***************************************************************************)
EXTENDS Naturals, Sequences, SequencesExt

CONSTANTS User,       \* users (their names and uids)
          RangeCount, \* validRangeCount
          StartMin,   \* startMin
          StartMax,   \* startMax
          Wrap        \* the number of ids

\* The owner of a line whose user name cannot be looked up: maxUID.
Nobody == "nobody"

Entry(u, start, count) ==
    [uid |-> u, start |-> start, count |-> count,
     disabled |-> FALSE, invalid |-> FALSE]

\* GetUserEntry: the place of the user's entry: the first of the right size,
\* else the largest of the larger ones; 0 when there is none.
GetUserEntry(es, u) ==
    LET mine == {i \in DOMAIN es : es[i].uid = u /\ ~es[i].invalid}
        exact == {i \in mine : es[i].count = RangeCount}
        large == {i \in mine : es[i].count > RangeCount}
        First(S) == CHOOSE i \in S : \A j \in S : i <= j
        largest == {i \in large : \A j \in large :
                                     es[j].count <= es[i].count}
    IN  IF exact # {} THEN First(exact)
        ELSE IF large # {} THEN First(largest)
        ELSE 0

\* The last id of an entry, as the code computes it.
End(e) == (e.start + e.count + Wrap - 1) % Wrap

Covers(e, id) == ~e.invalid /\ e.start <= id /\ id <= End(e)

\* The range starts AddUser tries, from the top of the ids to the bottom.
Starts ==
    {StartMax - k * RangeCount :
       k \in 0 .. (StartMax - StartMin) \div RangeCount}

AddUser(es, u) ==
    LET free == {s \in Starts : \A i \in DOMAIN es : ~Covers(es[i], s)}
        first == CHOOSE s \in free : \A t \in free : t <= s
    IN  IF GetUserEntry(es, u) # 0 THEN {es}
        ELSE IF free = {} THEN {}
        ELSE {Append(es, Entry(u, first, RangeCount))}

RemoveUser(es, u) ==
    LET i == GetUserEntry(es, u)
    IN  IF i = 0 THEN {} ELSE {RemoveAt(es, i)}

\* EnableUser and DisableUser.
SetDisabled(es, u, disabled) ==
    LET i == GetUserEntry(es, u)
    IN  IF i = 0 THEN {} ELSE {[es EXCEPT ![i].disabled = disabled]}

\* GetIDRange: the range the user's containers map, {} when there is none or
\* the administrator has disabled it.
GetIDRange(es, u) ==
    LET i == GetUserEntry(es, u)
    IN  IF i = 0 \/ (i # 0 /\ es[i].disabled) THEN {}
        ELSE {[start |-> es[i].start, count |-> es[i].count]}
=============================================================================
