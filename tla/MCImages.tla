------------------------------ MODULE MCImages ------------------------------
(***************************************************************************)
(* Images made and mounted, for TLC: the build of an image (Build) and     *)
(* loop devices (LoopDevice).  A behaviour belongs to one part: the        *)
(* variables of LoopDevice rest in an initial state in those of Build.     *)
(***************************************************************************)
EXTENDS LoopDevice, TLC

\* One image: its start and a partition inside it.  The second device is there, not
\* there yet, or hidden.
MCViews == {[file |-> "img", offset |-> p, ro |-> TRUE] : p \in {0, 1}}
MCHosts == {0 :> "present" @@ 1 :> n : n \in {"present", "absent", "hidden"}}

-----------------------------------------------------------------------------
Bs == INSTANCE BuildSources

\* Builds of one or two stages.  The second stage is one of a few sources; what an
\* option cannot change is held fixed with it.
MCOptions ==
    LET Opt(srcs, img, format, rest) ==
            [srcs |-> srcs, img |-> img, format |-> format, copy |-> rest.copy,
             update |-> rest.update, force |-> rest.force, data |-> rest.data,
             script |-> rest.script, sections |-> rest.sections,
             notest |-> FALSE, old |-> rest.old, nocleanup |-> rest.nocleanup,
             signal |-> rest.signal]
        Plain == [copy |-> FALSE, update |-> FALSE, force |-> FALSE,
                  data |-> FALSE, script |-> FALSE, sections |-> {"all"},
                  old |-> FALSE, nocleanup |-> FALSE, signal |-> FALSE]
        Def == [Plain EXCEPT !.script = TRUE, !.old = TRUE, !.force = TRUE]
    IN  {Opt(<<s>>, "sif", "sif", r) : s \in Bs!Sources, r \in {Plain, Def}}
        \cup {Opt(<<s>>, "sif", "sandbox", r) : s \in {"docker", "library"}, r \in {Plain, Def}}
        \cup {Opt(<<s>>, i, "sif", r) : s \in {"localimage", "shub"}, i \in Bs!Images,
                 r \in {Plain, Def, [Def EXCEPT !.sections = {"none"}]}}
        \cup {Opt(<<"docker", "localimage">>, "sif", "sif", [Def EXCEPT !.signal = TRUE]),
              Opt(<<"localimage">>, "sif", "sandbox", [Def EXCEPT !.signal = TRUE])}
        \cup {Opt(<<"docker", "localimage">>, "sif", "sandbox",
                  [Def EXCEPT !.copy = TRUE, !.nocleanup = c]) : c \in BOOLEAN}
        \cup {Opt(<<"localimage">>, "squashfs", "sif", [Plain EXCEPT !.data = TRUE]),
              Opt(<<"scratch">>, "sif", "sandbox",
                  [Def EXCEPT !.update = TRUE, !.force = FALSE])}

-----------------------------------------------------------------------------
VARIABLES which, v1, v2, v3, v4, v5, v6, v7, v8, v9, v10, v11, v12, v13, v14, v15

Bu == INSTANCE Build WITH
        Options <- MCOptions, MaxAttempts <- 5,
        pc <- v1, cmd <- v2, proc <- v3, o <- v4, st <- v5, todo <- v6, tries <- v7,
        bd <- v8, part <- v9, gfs <- v10, dest <- v11, sig <- v12, cl <- v13,
        ran <- v14, exit <- v15

\* Encryption, which comes after the sources, is asked for with two of them, and
\* signals, which are handled alike for all users, are sent to builds of root.
Usual == /\ v2.encrypt \/ v2.key => v4.srcs[1] \in {"docker", "localimage"}
         /\ v4.signal => v2.root

\* LoopDevice at rest.
Quiet == Init /\ ~Shared /\ node = 0 :> "present" @@ 1 :> "present"

other == <<v1, v2, v3, v4, v5, v6, v7, v8, v9, v10, v11, v12, v13, v14, v15>>
all == <<which, other, vars>>

Unused == /\ v1 = 0 /\ v2 = 0 /\ v3 = 0 /\ v4 = 0 /\ v5 = 0 /\ v6 = 0 /\ v7 = 0 /\ v8 = 0
          /\ v9 = 0 /\ v10 = 0 /\ v11 = 0 /\ v12 = 0 /\ v13 = 0 /\ v14 = 0 /\ v15 = 0

MCInit ==
    \/ which = "loop" /\ Init /\ Unused
    \/ which = "build" /\ Quiet /\ Bu!Init /\ Usual

MCNext ==
    \/ which = "loop" /\ Next /\ UNCHANGED <<which, other>>
    \/ which = "build" /\ Bu!Next /\ UNCHANGED <<which, vars>>

\* The fairness of the parts' own specifications.
buVars == Bu!vars

MCFairness ==
    /\ \A p \in Procs : /\ WF_vars(which = "loop" /\ GoesOn(p))
                        /\ SF_vars(which = "loop" /\ TakesLock(p))
    /\ WF_buVars(which = "build" /\ Bu!Main)
    /\ WF_buVars(which = "build" /\ Bu!SignalCleans)

MCSpec == MCInit /\ [][MCNext]_all /\ MCFairness

-----------------------------------------------------------------------------
(* Properties: those of the parts, in the behaviours of the part.               *)
(* LoopsAreTheirs is LoopDevice's own.                                          *)

\* The writes through a bundle's os.Root handle go to the directory that RootfsPath
\* names, also after an extraction has replaced it (bundle.go, ReopenRootfs).
RootedWritesLand == which = "build" => Bu!RootedWritesLand

\* A build that succeeds leaves a whole image and nothing else, and one that fails
\* before the image is put together leaves the one that was there (build.go).
BuildIsSound == which = "build" => Bu!BuildIsSound

\* A build ends (build.go, Full), and a process that searches a loop device gets an
\* answer (loop.go): p1, as the two processes are alike.
ImageStepsEnd ==
    (\/ which = "build"
     \/ which = "loop" /\ Searching("p1"))
    ~>
    (\/ which = "build" /\ Bu!Over
     \/ which = "loop" /\ Answered("p1"))

=============================================================================
