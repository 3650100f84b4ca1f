---------------------------- MODULE GlobalConfig ----------------------------
(***************************************************************************)
(* apptainer.conf and the command "config global": administrators edit one *)
(* directive at a time, each edit reading the whole file, changing the     *)
(* directives in memory and generating the whole file again from a         *)
(* template (internal/app/apptainer/config_global_linux.go and             *)
(* pkg/util/apptainerconf).                                                *)
(*                                                                         *)
(* Four directives stand for the kinds of the template: "setuid", a scalar *)
(* (an authorized value or an error), "bind", a list of a line per value,  *)
(* "owners", a list on one line, separated by commas, and "path", a scalar *)
(* that the template does not print: "binary path", whose line is a        *)
(* comment of the template, and "apptheus communication socket path",      *)
(* which it prints under another name.  The file is, for each directive,   *)
(* the sequence of its lines; a line is the sequence of the items between  *)
(* its commas.                                                             *)
(***************************************************************************)
EXTENDS Naturals, Sequences, FiniteSets, SequencesExt

CONSTANTS Admins,     \* concurrent "config global" commands
          Items,      \* values for the lists
          MaxEdits    \* bound: commands in a behaviour

VARIABLES file,    \* directive |-> its lines
          cmd,     \* Admins -> the command in progress
          done,    \* the last command that ended, with the files around it
          edits    \* commands begun

vars == <<file, cmd, done, edits>>

Directives == {"setuid", "bind", "owners", "path"}
Lists == {"bind", "owners"}

\* The defaults of the fields of File.
Default == [setuid |-> <<"yes">>, bind |-> <<"localtime">>, owners |-> << >>,
            path |-> <<"std">>]
Authorized == {"yes", "no"}

----------------------------------------------------------------------------
(* Reading and generating the file. *)

\* Mutant of GetConfig: the default stands for an empty list too.
GetConfigDefaults(ds) ==
    LET all(d) == FlattenSeq(ds[d])
        val == [d \in Directives |-> IF ds[d] # << >> THEN all(d) ELSE Default[d]]
    IN  IF val["setuid"][1] \in Authorized THEN {val} ELSE {}

\* GetConfig: the fields.  A scalar takes the first value, or its default; a
\* list has no default once there is a file.  A scalar that is not an
\* authorized value is an error, the empty set.
GetConfig(ds) ==
    LET all(d) == FlattenSeq(ds[d])
        val == [d \in Directives |->
                  IF ds[d] # << >> THEN all(d)
                  ELSE IF d \in Lists THEN << >> ELSE Default[d]]
    IN  IF val["setuid"][1] \in Authorized THEN {val} ELSE {}

\* The fields as the template prints them, a line or none for each, and
\* never one that would be read as "path".
Generate(f) ==
    [setuid |-> <<<<f.setuid[1]>>>>,
     bind   |-> [i \in DOMAIN f.bind |-> <<f.bind[i]>>],
     owners |-> IF f.owners = << >> THEN << >> ELSE <<f.owners>>,
     path   |-> << >>]

----------------------------------------------------------------------------
(* The commands: what each makes of the directives.  The result is a set:  *)
(* {} is an error that leaves the file alone, and "panic" the end of the   *)
(* process.                                                                *)

\* --set: the new values come first; one that is already a value is not
\* added again.
SetValues(ds, d, vs) ==
    LET new == SelectSeq(vs, LAMBDA v : ~Contains(ds[d], <<v>>))
    IN  [ds EXCEPT ![d] = [i \in DOMAIN new |-> <<new[i]>>] \o @]

\* --unset: each line, the last first, against each value.  A value is
\* compared with the whole line.  After it removed the line, the loop goes on
\* with the next value and the line now in that place, which is past the end
\* when the line was the last.
UnsetValues(lines, vs) ==
    LET Step(s, i) ==
            LET hit == {k \in DOMAIN vs : s.lines[i] = <<vs[k]>>}
            IN  IF hit = {} \/ s.panic THEN s
                ELSE [lines |-> RemoveAt(s.lines, i),
                      panic |-> i = Len(s.lines) /\ Len(vs) \notin hit]
    IN  FoldLeft(Step, [lines |-> lines, panic |-> FALSE],
                 Reverse([i \in DOMAIN lines |-> i]))

\* The outcome of a command with these directives: "write" with the new
\* directives, or "error" or "panic".
Outcome(c) ==
    LET un == UnsetValues(c.seen[c.dir], c.vals)
        new == CASE c.op = "set"   -> SetValues(c.seen, c.dir, c.vals)
                 [] c.op = "unset" -> [c.seen EXCEPT ![c.dir] = un.lines]
                 [] c.op = "reset" -> [c.seen EXCEPT ![c.dir] = << >>]
    IN  IF c.op = "unset" /\ un.panic THEN [end |-> "panic", to |-> c.seen]
        ELSE IF \/ c.op = "unset" /\ un.lines = c.seen[c.dir]
                \/ GetConfig(new) = {}
        THEN [end |-> "error", to |-> c.seen]
        ELSE [end |-> "write",
              to |-> Generate(CHOOSE f \in GetConfig(new) : TRUE)]

----------------------------------------------------------------------------
(* The commands as processes. *)

\* The files commands start with: generated, or edited by hand, with a "path"
\* or a second line of "setuid".
Files ==
    {[Generate([setuid |-> <<s>>, bind |-> b, owners |-> o]) EXCEPT
        !.setuid = @ \o t, !.path = p] :
            s \in Authorized, t \in {<< >>, <<<<"no">>>>},
            b \in {<< >>, Default["bind"]},
            o \in {<< >>, <<"a", "b">>},
            p \in {<< >>, <<<<"own">>>>}}

Empty == [d \in Directives |-> << >>]
Idle == [pc |-> "idle", op |-> "none", dir |-> "none", vals |-> << >>, seen |-> Empty]
NoCommand == [cmd |-> Idle, end |-> "none", to |-> Empty]

Init ==
    /\ file \in Files
    /\ cmd = [a \in Admins |-> Idle]
    /\ done = NoCommand
    /\ edits = 0

\* The values of an argument; a repeated one is dropped.
Arguments(d) ==
    IF d \in Lists
    THEN {<<v>> : v \in Items} \cup {vs \in Items \X Items : vs[1] # vs[2]}
    ELSE IF d = "path" THEN {<<"own">>}
    ELSE {<<"yes">>, <<"no">>, <<"maybe">>}

\* GlobalConfig up to the parsed directives.
Open(a) ==
    /\ cmd[a].pc = "idle" /\ edits < MaxEdits
    /\ \E op \in {"set", "unset", "reset"}, d \in Directives :
         \E vs \in IF op = "reset" THEN {<< >>} ELSE Arguments(d) :
            cmd' = [cmd EXCEPT ![a] =
                      [pc |-> "edit", op |-> op, dir |-> d, vals |-> vs, seen |-> file]]
    /\ edits' = edits + 1
    /\ UNCHANGED <<file, done>>

\* The change, and generateConfig: the content is complete before the file is
\* opened, which empties it ...
Edit(a) ==
    /\ cmd[a].pc = "edit"
    /\ LET o == Outcome(cmd[a])
       IN  IF o.end = "write"
           THEN /\ file' = Empty
                /\ cmd' = [cmd EXCEPT ![a].pc = "write"]
                /\ UNCHANGED done
           ELSE /\ done' = [cmd |-> cmd[a], end |-> o.end, to |-> o.to]
                /\ cmd' = [cmd EXCEPT ![a] = Idle]
                /\ UNCHANGED file
    /\ UNCHANGED edits

\* ... and is then written.
Save(a) ==
    /\ cmd[a].pc = "write"
    /\ file' = Outcome(cmd[a]).to
    /\ done' = [cmd |-> cmd[a], end |-> "write", to |-> Outcome(cmd[a]).to]
    /\ cmd' = [cmd EXCEPT ![a] = Idle]
    /\ UNCHANGED edits

Next == \E a \in Admins : Open(a) \/ Edit(a) \/ Save(a)

Spec == Init /\ [][Next]_vars

----------------------------------------------------------------------------
(* Properties.  They speak of a file by the values on its lines. *)

Values(f, d) ==
    IF d \in Lists THEN ToSet(FlattenSeq(f[d]))
    ELSE {IF f[d] = << >> THEN Default[d][1] ELSE f[d][1][1]}

\* A command that rewrote the file (generateConfig) changed no directive but
\* its own, which the template prints again from the parsed fields, and what
\* --set set is in effect, a list's earlier values with it.  Two things are
\* exempt: a directive that the template does not print, which every rewrite
\* resets, and a scalar with several lines, the first of which stays in effect
\* when the value set is that of another.
EditIsLocal ==
    LET c == done.cmd
    IN  done.end = "write" =>
          /\ \A d \in Directives \ {c.dir, "path"} :
                Values(done.to, d) = Values(c.seen, d)
          /\ c.op = "set" /\ c.dir # "path" /\ (c.dir \in Lists \/ Len(c.seen[c.dir]) < 2) =>
                Values(done.to, c.dir) =
                   ToSet(c.vals) \cup IF c.dir \in Lists THEN Values(c.seen, c.dir)
                                      ELSE {}

\* "--unset" of a multi-value directive removes the matching values and keeps
\* the others, or ends with an error when there is none.
UnsetRemoves ==
    LET c == done.cmd
        had == Values(c.seen, c.dir)
    IN  c.op = "unset" /\ c.dir \in Lists =>
          IF had \cap ToSet(c.vals) = {} THEN done.end = "error"
          ELSE /\ done.end = "write"
               /\ Values(done.to, c.dir) = had \ ToSet(c.vals)

\* "--reset" gives a directive its default value.
ResetIsDefault ==
    LET c == done.cmd
    IN  c.op = "reset" /\ done.end = "write" =>
          Values(done.to, c.dir) = ToSet(Default[c.dir])
=============================================================================
