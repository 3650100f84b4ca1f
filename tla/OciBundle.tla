----------------------------- MODULE OciBundle -----------------------------
(***************************************************************************)
(* "oci mount" and "oci umount" (internal/app/apptainer/oci_mount_linux.go *)
(* with pkg/ocibundle/sif and pkg/ocibundle/tools): a bundle directory     *)
(* made from a SIF image, with a writable overlay mounted over its root    *)
(* filesystem, and its removal.  Every system call may fail, which ends    *)
(* the command after the clean-up that the code has for that place.        *)
(***************************************************************************)
EXTENDS Naturals, Sequences, SequencesExt

CONSTANTS MaxCommands   \* bound: commands that are run

VARIABLES dirs,     \* what is in the bundle directory, which is "bundle"
          others,   \* the directory was there before, with other files
          stack,    \* what is mounted on rootfs, the last on top
          bind,     \* overlay is mounted on itself
          cmd,      \* the command in hand and the step it is at
          before,   \* was a bundle mounted when it began?
          result,   \* how the last command ended
          count     \* commands so far

vars == <<dirs, others, stack, bind, cmd, before, result, count>>

Idle == [name |-> "none", step |-> 0]

Init ==
    /\ others \in BOOLEAN
    /\ dirs = (IF others THEN {"bundle"} ELSE {}) /\ stack = << >> /\ bind = FALSE
    /\ cmd = Idle /\ before = FALSE /\ result = "none" /\ count = 0

\* The image is opened and has a squashfs root filesystem: else the command
\* ends without having done anything.
Begin(name) ==
    /\ cmd = Idle /\ count < MaxCommands
    /\ cmd' = [name |-> name, step |-> 1]
    /\ before' = (stack # << >> \/ bind)
    /\ count' = count + 1
    /\ UNCHANGED <<dirs, others, stack, bind, result>>

State == [dirs |-> dirs, stack |-> stack, bind |-> bind]

\* DeleteBundle: the volumes, the rootfs directory, which cannot be a mount
\* point, config.json, and the directory.  One in which something is left stays,
\* which is no error: os.IsExist holds of ENOTEMPTY.
DeleteBundle(s) ==
    LET v == [s EXCEPT !.dirs = @ \ {"volumes"}]
        r == [v EXCEPT !.dirs = @ \ {"rootfs"}]
        c == [r EXCEPT !.dirs = @ \ {"config"}]
    IN  IF s.stack # << >> \/ "rootfs" \notin s.dirs THEN [s |-> v, ok |-> FALSE]
        ELSE IF "config" \notin s.dirs THEN [s |-> r, ok |-> FALSE]
        ELSE IF others \/ c.dirs # {"bundle"} THEN [s |-> c, ok |-> TRUE]
        ELSE [s |-> [c EXCEPT !.dirs = {}], ok |-> TRUE]

Unmounted(s) == [s EXCEPT !.stack = IF @ = << >> THEN @ ELSE Front(@)]

----------------------------------------------------------------------------
(* Create. *)

MountSteps == <<"rootfs", "volumes", "default config", "loop", "mount",
                "config", "overlay", "bind", "remount", "upper", "work",
                "overlay mount">>

\* What a step does when it succeeds; GenerateBundleConfig and writeConfig
\* accept what is there, CreateOverlay does not.
Done(step) ==
    CASE step = "rootfs"  -> [State EXCEPT !.dirs = @ \cup {"bundle", "rootfs"}]
      [] step = "volumes" -> [State EXCEPT !.dirs = @ \cup {"volumes"}]
      [] step = "mount"   -> [State EXCEPT !.stack = Append(@, "squashfs")]
      [] step = "config"  -> [State EXCEPT !.dirs = @ \cup {"config"}]
      [] step = "overlay" -> [State EXCEPT !.dirs = @ \cup {"overlay"}]
      [] step = "bind"    -> [State EXCEPT !.bind = TRUE]
      [] step = "overlay mount" -> [State EXCEPT !.stack = Append(@, "overlay")]
      [] OTHER            -> State

Possible(step) == step = "overlay" => "overlay" \notin dirs

\* Mutant of OverlayUndone: the bind mount stays, and so the directory.
OverlayUndoneBound(step, s) == s

\* CreateOverlay's deferred calls: it undoes what it has made itself.
OverlayUndone(step, s) ==
    IF step = "overlay" THEN s
    ELSE [s EXCEPT !.bind = FALSE, !.dirs = @ \ {"overlay"}]

\* Create's clean-up after the step that failed.
Undone(step) ==
    IF step \in {"rootfs", "volumes"} THEN State
    ELSE IF step \in {"default config", "loop", "mount"} THEN DeleteBundle(State).s
    ELSE IF step = "config" THEN DeleteBundle(Unmounted(State)).s
    ELSE DeleteBundle(Unmounted(OverlayUndone(step, State))).s

Become(s) == dirs' = s.dirs /\ stack' = s.stack /\ bind' = s.bind

MountStep ==
    /\ cmd.name = "mount"
    /\ LET step == MountSteps[cmd.step]
       IN  \/ /\ Possible(step)
              /\ Become(Done(step))
              /\ IF cmd.step = Len(MountSteps)
                 THEN cmd' = Idle /\ result' = "mounted"
                 ELSE cmd' = [cmd EXCEPT !.step = @ + 1] /\ result' = result
           \/ Become(Undone(step)) /\ cmd' = Idle /\ result' = "not mounted"
    /\ UNCHANGED <<others, before, count>>

----------------------------------------------------------------------------
(* Delete: DeleteOverlay, the root filesystem, DeleteBundle. *)

UmountSteps == <<"unmount", "unbind", "remove overlay", "unmount", "delete">>

Released(step) ==
    CASE step = "unmount" -> [s |-> Unmounted(State), ok |-> stack # << >>]
      [] step = "unbind"  -> [s |-> [State EXCEPT !.bind = FALSE], ok |-> bind]
      [] step = "remove overlay" ->
            [s |-> [State EXCEPT !.dirs = @ \ {"overlay"}], ok |-> ~bind]
      [] step = "delete"  -> DeleteBundle(State)

UmountStep ==
    /\ cmd.name = "umount"
    /\ LET r == Released(UmountSteps[cmd.step])
       IN  \/ /\ r.ok
              /\ Become(r.s)
              /\ IF cmd.step = Len(UmountSteps)
                 THEN cmd' = Idle /\ result' = "unmounted"
                 ELSE cmd' = [cmd EXCEPT !.step = @ + 1] /\ result' = result
           \/ /\ IF r.ok THEN Become(State) ELSE Become(r.s)
              /\ cmd' = Idle /\ result' = "not unmounted"
    /\ UNCHANGED <<others, before, count>>

Next ==
    \/ \E name \in {"mount", "umount"} : Begin(name)
    \/ MountStep
    \/ UmountStep

Spec == Init /\ [][Next]_vars

----------------------------------------------------------------------------
(* Properties. *)

\* The commands' results are true: after a mount that succeeds there is a
\* whole bundle with the overlay on top of the image, and after a command
\* that says the bundle is unmounted, or a mount that failed where nothing was
\* mounted, nothing is mounted.  Nothing of an unmounted bundle is left: its
\* directory is gone, or empty but for the files that were not the command's.
BundleIsAsReported ==
    cmd = Idle =>
        /\ result = "mounted" =>
              /\ dirs = {"bundle", "rootfs", "volumes", "config", "overlay"}
              /\ Last(stack) = "overlay" /\ bind
        /\ result = "unmounted" =>
              /\ dirs = {} \/ (others /\ dirs = {"bundle"})
              /\ ~bind /\ stack = << >>
        /\ result = "not mounted" /\ ~before => stack = << >> /\ ~bind

\* "DeleteBundle deletes bundle directory": a mount that fails where there was
\* no bundle leaves none.
FailedMountRemoves ==
    cmd = Idle /\ count = 1 /\ result = "not mounted" /\ ~others => dirs = {}
=============================================================================
