------------------------------- MODULE Deffile -------------------------------
(***************************************************************************)
(* The definition file (pkg/build/types/parser/deffile.go, with the build  *)
(* arguments of internal/pkg/build/args and MakeAllDefs): a file is split  *)
(* into stages, each is parsed, its %arguments give the defaults of the    *)
(* variables, the stage's text is rewritten with them and parsed again.    *)
(*                                                                         *)
(* A line is a record: its kind k, and key and v, the two parts of "key:   *)
(* v", "key=v" or "%key v"; cont marks a header line that ends with a      *)
(* backslash.  The kinds are boot ("Bootstrap:" at the start of a line),   *)
(* head, sect, text, tail (a text whose v comes after a #), note (a        *)
(* comment) and blank.  A text is a sequence of pieces <<key, v>>, where   *)
(* NL is a newline.                                                        *)
(*                                                                         *)
(* The behaviours write a file, line by line, and every file on the way is *)
(* parsed.                                                                 *)
(***************************************************************************)
EXTENDS Naturals, Sequences, FiniteSets, SequencesExt, Functions

CONSTANTS Openings,   \* how a file may begin
          Lines,      \* how it may go on
          MaxLines,   \* bound: lines of a file
          ArgNames,   \* the names of build arguments
          Refs        \* from the references {{X}} to their names

VARIABLES file,    \* the lines of the definition file
          user     \* the variables given with --build-arg

vars == <<file, user>>

Init == file \in Openings /\ user \in SUBSET ArgNames

Write(l) ==
    /\ Len(file) < MaxLines
    /\ file' = Append(file, l)
    /\ user' = user

Next == \E l \in Lines : Write(l)

Spec == Init /\ [][Next]_vars

----------------------------------------------------------------------------
(* Parsing.  A definition is its header, the sections' arguments and       *)
(* scripts, its files and the order of its apps; err is "" or why there is *)
(* none.                                                                   *)

NL == <<"\n", "">>
Text(l) == <<l.key, l.v>>
Skipped(l) == l.k \in {"blank", "note"}
Commented(l) == l.k \in {"tail", "note"}

\* What doHeader takes of a line.
TrimComment(l) == IF l.k = "tail" THEN <<l.key, "">> ELSE Text(l)

validSections == {"post", "arguments"}
appSections == {"apprun"}
validHeaders == {"bootstrap", "from"}

NoDefinition == [err |-> "", header |-> << >>, sections |-> << >>,
                 files |-> << >>, apps |-> << >>]
Failed(why) == [NoDefinition EXCEPT !.err = why]

\* One line of the header.  A line after a continued one is the rest of its
\* value, unless there is nothing of the value yet; after a continued line, a
\* comment or an empty line writes to the definition's header, which is nil.
HeaderLine(h, l) ==
    LET more == h.val # << >>
        key == IF more THEN h.key ELSE l.key
        val == IF more THEN Append(h.val, TrimComment(l))
               ELSE IF l.v = "" THEN << >> ELSE <<<<"", l.v>>>>
    IN  IF h.err # "" THEN h
        ELSE IF Skipped(l) THEN IF h.key = "" THEN h ELSE [h EXCEPT !.err = "panic"]
        ELSE IF ~more /\ l.k \in {"text", "tail"} THEN [h EXCEPT !.err = "no val"]
        ELSE IF l.cont THEN [h EXCEPT !.key = key, !.val = val]
        ELSE IF key \notin validHeaders THEN [h EXCEPT !.err = "invalid keyword"]
        ELSE [h EXCEPT !.header = (key :> val) @@ @,
                       !.key = IF more THEN "" ELSE @,
                       !.val = << >>]

\* The header is trimmed at both ends.
TrimLines(ls) ==
    LET full == {i \in DOMAIN ls : ls[i].k # "blank"}
    IN  IF full = {} THEN << >> ELSE SubSeq(ls, Min(full), Max(full))

doHeader(ls) ==
    FoldLeft(HeaderLine, [err |-> "", header |-> << >>, key |-> "", val |-> << >>],
             TrimLines(ls))

Put(f, k, v) == (k :> v) @@ f

\* The files of a section; one with the same arguments was perhaps there.
addFiles(files, arg, body) ==
    LET new == [i \in DOMAIN SelectSeq(body, LAMBDA l : ~Skipped(l)) |->
                  Text(SelectSeq(body, LAMBDA l : ~Skipped(l))[i])]
        same == {i \in DOMAIN files : files[i].arg = arg}
    IN  IF same = {} THEN Append(files, [arg |-> arg, files |-> new])
        ELSE [files EXCEPT ![CHOOSE i \in same : TRUE].files = @ \o new]

\* A section's body as it is kept; trimmed is the first token's.
Body(ls, trimmed) ==
    LET kept == IF trimmed
                THEN SubSeq(ls, 1, CHOOSE n \in 0 .. Len(ls) :
                                     /\ n = 0 \/ ls[n].k # "blank"
                                     /\ \A i \in n + 1 .. Len(ls) : ls[i].k = "blank")
                ELSE ls
        text == [i \in 1 .. 2 * Len(kept) |->
                   IF i % 2 = 0 THEN NL ELSE Text(kept[(i + 1) \div 2])]
    IN  IF trimmed /\ kept # << >> THEN Front(text) ELSE text

\* Mutant of parseTokenSection: a section that is repeated starts anew.
parseTokenSectionOver(d, head, body, trimmed) ==
    LET app == head.key \in appSections
        key == <<head.key, IF app THEN head.v ELSE "">>
        arg == IF app THEN "" ELSE head.v
    IN  IF d.err # "" THEN d
        ELSE IF head.key = "files"
        THEN [d EXCEPT !.files = addFiles(@, head.v, body)]
        ELSE [d EXCEPT !.sections =
                Put(@, key, [arg |-> arg, script |-> Body(body, trimmed)]),
                       !.apps = IF app THEN Append(@, head.v) ELSE @]

\* A heading and its body: the script is added to what the section has, and
\* its arguments replace the ones it had.
parseTokenSection(d, head, body, trimmed) ==
    LET app == head.key \in appSections
        key == <<head.key, IF app THEN head.v ELSE "">>
        old == IF key \in DOMAIN d.sections THEN d.sections[key]
               ELSE [arg |-> "", script |-> << >>]
        arg == IF app \/ head.v = "" THEN old.arg ELSE head.v
    IN  IF d.err # "" THEN d
        ELSE IF trimmed /\ Body(body, TRUE) = << >>
        THEN [d EXCEPT !.err = "no body"]
        ELSE IF head.key = "files"
        THEN [d EXCEPT !.files = addFiles(@, head.v, body)]
        ELSE IF app /\ head.v = "" THEN [d EXCEPT !.err = "no app"]
        ELSE [d EXCEPT !.sections =
                Put(@, key, [arg |-> arg,
                             script |-> old.script \o Body(body, trimmed)]),
                       !.apps = IF app /\ head.v \notin ToSet(@)
                                THEN Append(@, head.v) ELSE @]

\* Where the sections of a stage begin; a line starting with % always does.
Headings(ls) == {i \in DOMAIN ls : ls[i].k = "sect"}

HeaderLines(ls) ==
    SubSeq(ls, 1, IF Headings(ls) = {} THEN Len(ls) ELSE Min(Headings(ls)) - 1)

isEmpty(d) ==
    /\ d.header = << >> /\ d.files = << >> /\ d.apps = << >>
    /\ \A k \in DOMAIN d.sections : d.sections[k] = [arg |-> "", script |-> << >>]

populateDefinition(d) ==
    IF d.err # "" THEN d
    ELSE IF \E k \in DOMAIN d.sections : k[1] \notin validSections \cup appSections
    THEN Failed("invalid section")
    ELSE IF isEmpty(d) THEN Failed("empty") ELSE d

\* scanDefinitionFile and doSections: the tokens are what precedes the first
\* heading and, for each heading, what there is up to the next.
ParseDefinitionFile(ls) ==
    LET at == SetToSortSeq(Headings(ls), <)
        h == doHeader(HeaderLines(ls))
        Section(d, j) ==
            LET end == IF j = Len(at) THEN Len(ls) ELSE at[j + 1] - 1
            IN  parseTokenSection(d, ls[at[j]], SubSeq(ls, at[j] + 1, end),
                                  at[j] = 1)
    IN  populateDefinition(
            FoldLeftDomain(Section,
                           [NoDefinition EXCEPT !.err = h.err,
                                                !.header = h.header], at))

\* All: a stage begins wherever a line begins with "bootstrap:"; the parts
\* that hold nothing are left out.
Parts(ls) ==
    LET at == SetToSortSeq({1} \cup {i \in DOMAIN ls : ls[i].k = "boot"}, <)
    IN  [j \in DOMAIN at |->
           SubSeq(ls, at[j], IF j = Len(at) THEN Len(ls) ELSE at[j + 1] - 1)]
Stages(ls) ==
    SelectSeq(Parts(ls), LAMBDA s : ParseDefinitionFile(s).err # "empty")

----------------------------------------------------------------------------
(* Build arguments. *)

\* The defaults of a stage: the assignments of its %arguments, the last wins.
ReadDefaults(d) ==
    LET key == <<"arguments", "">>
        script == IF key \in DOMAIN d.sections THEN d.sections[key].script
                  ELSE << >>
        Default(f, p) == IF p[1] \in ArgNames THEN Put(f, p[1], p[2]) ELSE f
    IN  FoldLeft(Default, << >>, script)

Value(x, defaults) == IF x \in user THEN "u" ELSE defaults[x]
Known(x, defaults) == x \in user \cup DOMAIN defaults

\* NewReader: the references of a line, with the ones in their values, once;
\* those after a # on their line are left.
Fill(v, defaults) ==
    IF v \notin DOMAIN Refs THEN v
    ELSE LET w == Value(Refs[v], defaults)
         IN  IF w \in DOMAIN Refs /\ Known(Refs[w], defaults)
             THEN Value(Refs[w], defaults) ELSE w

Undefined(ls, defaults) ==
    \E i \in DOMAIN ls : /\ ~Commented(ls[i])
                         /\ ls[i].v \in DOMAIN Refs
                         /\ ~Known(Refs[ls[i].v], defaults)

NewReader(ls, defaults) ==
    [i \in DOMAIN ls |-> IF Commented(ls[i]) THEN ls[i]
                         ELSE [ls[i] EXCEPT !.v = Fill(@, defaults)]]

MakeStage(ls) ==
    LET first == ParseDefinitionFile(ls)
        defaults == ReadDefaults(first)
    IN  IF first.err # "" THEN first
        ELSE IF Undefined(ls, defaults) THEN Failed("undefined")
        ELSE ParseDefinitionFile(NewReader(ls, defaults))

MakeAllDefs(ls) == [i \in DOMAIN Stages(ls) |-> MakeStage(Stages(ls)[i])]

----------------------------------------------------------------------------
(* What a stage declares, stated line by line. *)

\* The heading that line i is under.
Owner(ls, i) == ls[Max({j \in Headings(ls) : j <= i})]
Under(ls, P(_)) ==
    {i \in DOMAIN ls : /\ \E j \in Headings(ls) : j < i
                       /\ ls[i].k # "sect"
                       /\ P(Owner(ls, i))}

\* The lines at the positions of a set, in their order.
At(ls, S) == [j \in 1 .. Cardinality(S) |-> Text(ls[SetToSortSeq(S, <)[j]])]

Default(ls, x) ==
    LET set == {i \in Under(ls, LAMBDA h : h.key = "arguments") :
                  ls[i].k = "text" /\ ls[i].key = x}
    IN  IF x \in user THEN "u" ELSE IF set = {} THEN "" ELSE ls[Max(set)].v

\* The stage with every reference replaced by what it stands for.
Meant(ls) ==
    LET One(v) == IF v \notin DOMAIN Refs \/ Default(ls, Refs[v]) = "" THEN v
                  ELSE Default(ls, Refs[v])
    IN  [i \in DOMAIN ls |-> IF Commented(ls[i]) THEN ls[i]
                             ELSE [ls[i] EXCEPT !.v = One(One(@))]]

Words(script) == SelectSeq(script, LAMBDA p : p \notin {NL, <<"", "">>})
Whole(script) ==
    Len(script) % 2 = 0 /\ \A i \in DOMAIN script : (script[i] = NL) <=> i % 2 = 0

\* Its sections' scripts, its files and the order of its apps.
SectionsDeclared(ls, d) ==
    /\ \A k \in DOMAIN d.sections :
          /\ Words(d.sections[k].script)
               = Words(At(ls, Under(ls, LAMBDA h :
                     h.key = k[1] /\ (k[1] \in appSections => h.v = k[2]))))
          \* the first section of a file without a header is trimmed
          /\ ls[1].k # "sect" => Whole(d.sections[k].script)
    /\ \A i \in Headings(ls) :
          \/ ls[i].key = "files"
          \/ <<ls[i].key, IF ls[i].key \in appSections THEN ls[i].v ELSE "">>
                 \in DOMAIN d.sections
    /\ \A i \in DOMAIN d.files :
          d.files[i].files
            = At(ls, {j \in Under(ls, LAMBDA h : /\ h.key = "files"
                                                 /\ h.v = d.files[i].arg) :
                        ~Skipped(ls[j])})
    /\ {d.files[i].arg : i \in DOMAIN d.files}
         = {ls[i].v : i \in {j \in Headings(ls) : ls[j].key = "files"}}
    /\ LET First(a) == Min({i \in Headings(ls) :
                              ls[i].key \in appSections /\ ls[i].v = a})
       IN  \A i, j \in DOMAIN d.apps :
              i < j => First(d.apps[i]) < First(d.apps[j])

\* Its header, when every line that is continued goes on: a key has the value
\* of the last line that sets it, with the lines that continue that one.
Tidy(hd) ==
    \A i \in DOMAIN hd : hd[i].cont =>
        hd[i].v # "" /\ i < Len(hd) /\ ~Skipped(hd[i + 1])
HeaderDeclared(ls, d) ==
    LET hd == HeaderLines(ls)
        starts == {i \in DOMAIN hd : /\ ~Skipped(hd[i])
                                     /\ i > 1 => ~hd[i - 1].cont}
        Value1(i) == <<"", hd[i].v>>
        End(i) == Min({j \in i .. Len(hd) : ~hd[j].cont})
    IN  Tidy(hd) =>
          /\ DOMAIN d.header = {hd[i].key : i \in starts}
          /\ \A k \in DOMAIN d.header :
                LET i == Max({j \in starts : hd[j].key = k})
                IN  d.header[k] = [j \in 1 .. End(i) - i + 1 |->
                                     IF j = 1 THEN Value1(i)
                                     ELSE TrimComment(hd[i + j - 1])]

\* A definition that is accepted is the one its file declares: every line of
\* a section is in the section's script once, in the order of the file and on
\* a line of its own, whether or not the section is written in one piece; the
\* files of the sections with the same arguments are together; apps are in
\* the order of their first mention; and every reference outside comments is
\* replaced by the user's value or else the stage's own default.
DefinitionIsDeclared ==
    LET stages == Stages(file)
    IN  \A i \in DOMAIN stages :
          LET d == MakeStage(stages[i])
              ls == Meant(stages[i])
          IN  d.err = "" => SectionsDeclared(ls, d) /\ HeaderDeclared(ls, d)

\* "skip empty or comment lines" (doHeader): a header means the same without
\* its comments and empty lines.
CommentsAreSkipped ==
    \A i \in DOMAIN Parts(file) :
        LET hd == HeaderLines(Parts(file)[i])
            bare == SelectSeq(hd, LAMBDA l : ~Skipped(l))
        IN  /\ doHeader(hd).err = doHeader(bare).err
            /\ doHeader(hd).header = doHeader(bare).header
=============================================================================
