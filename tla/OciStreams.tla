----------------------------- MODULE OciStreams -----------------------------
(***************************************************************************)
(* The output of an OCI container without a terminal: handleStream         *)
(* (internal/pkg/runtime/engine/oci/process_linux.go) copies its stdout    *)
(* and stderr, each through a MultiWriter (pkg/util/copy/writer.go), to    *)
(* the log file, to the engine's own stdout and stderr and to the clients  *)
(* of the attach socket; "oci attach" is such a client.  The log is        *)
(* written by instance.Logger: a pipe and a scanning goroutine per stream, *)
(* and one file that a control message can have closed and opened again    *)
(* (log rotation).                                                         *)
(*                                                                         *)
(* A line is the number of lines of its stream before it, plus one.        *)
(***************************************************************************)
EXTENDS Naturals, Sequences, FiniteSets, SequencesExt

CONSTANTS Clients,    \* connections to the attach socket
          MaxLines,   \* bound: lines the container writes on a stream
          MaxReopens  \* bound: ReopenLog messages

VARIABLES copier,   \* stream -> the goroutine of io.Copy
          writers,  \* stream -> the writers of its MultiWriter
          scan,     \* stream -> the scanning goroutine of the logger
          log,      \* the log: the lines in the file and its predecessors
          file,     \* l.file: "open", "closed" or "nil"
          fm,       \* who holds the mutex fm, or "free"
          reopen,   \* the control goroutine in ReOpenFile
          client,   \* Clients -> its connection
          got,      \* Clients -> the lines written to it
          lost      \* ghost: the lines whose write to the log file failed

vars == <<copier, writers, scan, log, file, fm, reopen, client, got, lost>>

Streams == {"stdout", "stderr"}

\* handleStream, at the start of the container.
Init ==
    /\ copier = [s \in Streams |-> [pc |-> "read", line |-> 0, at |-> 0]]
    /\ writers = [s \in Streams |-> <<"log", "own">>]
    /\ scan = [s \in Streams |-> [pc |-> "read", line |-> 0]]
    /\ log = << >> /\ file = "open" /\ fm = "free"
    /\ reopen = [pc |-> "idle", count |-> 0]
    /\ client = [c \in Clients |-> [pc |-> "none", peer |-> FALSE]]
    /\ got = [c \in Clients |-> << >>] /\ lost = {}

----------------------------------------------------------------------------
(* io.Copy(outputWriters, stdout): a line is read, and MultiWriter.Write,  *)
(* under its mutex, gives it to each writer in turn.                       *)

CopyRead(s) ==
    /\ copier[s].pc = "read" /\ copier[s].line < MaxLines
    /\ copier' = [copier EXCEPT ![s] = [pc |-> "write", line |-> @.line + 1, at |-> 1]]
    /\ UNCHANGED <<writers, scan, log, file, fm, reopen, client, got, lost>>

\* The write to the logger's pipe waits for the scanner to take the line, and
\* fails once the scanner has closed the pipe, which it also does at a line
\* longer than its buffer.
CopyToLog(s) ==
    /\ copier[s].pc = "write" /\ copier[s].at <= Len(writers[s])
    /\ writers[s][copier[s].at] = "log"
    /\ \/ /\ scan[s].pc = "read"
          /\ reopen.pc # "end"
          /\ scan' = [scan EXCEPT ![s] = [pc |-> "lock", line |-> copier[s].line]]
          /\ copier' = [copier EXCEPT ![s].at = @ + 1]
       \/ /\ scan[s].pc \in {"read", "end"} \/ reopen.pc = "end"
          /\ copier' = [copier EXCEPT ![s].pc = "closed"]
          /\ scan' = IF scan[s].pc = "read" THEN [scan EXCEPT ![s].pc = "end"] ELSE scan
    /\ UNCHANGED <<writers, log, file, fm, reopen, client, got, lost>>

\* The write to a client fails when it has closed its end; Write returns the
\* error, io.Copy ends with it and the stream is closed.
CopyToClient(s) ==
    /\ copier[s].pc = "write" /\ copier[s].at <= Len(writers[s])
    /\ \E c \in Clients :
         /\ writers[s][copier[s].at] = c
         /\ IF client[c].peer
            THEN /\ got' = [got EXCEPT ![c] = Append(@, <<s, copier[s].line>>)]
                 /\ copier' = [copier EXCEPT ![s].at = @ + 1]
            ELSE /\ copier' = [copier EXCEPT ![s].pc = "closed"]
                 /\ UNCHANGED got
    /\ UNCHANGED <<writers, scan, log, file, fm, reopen, client, lost>>

\* The engine's own stream, which may fail in the same way.
CopyToOwn(s) ==
    /\ copier[s].pc = "write" /\ copier[s].at <= Len(writers[s])
    /\ writers[s][copier[s].at] = "own"
    /\ \/ copier' = [copier EXCEPT ![s].at = @ + 1]
       \/ copier' = [copier EXCEPT ![s].pc = "closed"]
    /\ UNCHANGED <<writers, scan, log, file, fm, reopen, client, got, lost>>

CopyDone(s) ==
    /\ copier[s].pc = "write" /\ copier[s].at > Len(writers[s])
    /\ copier' = [copier EXCEPT ![s].pc = "read"]
    /\ UNCHANGED <<writers, scan, log, file, fm, reopen, client, got, lost>>

----------------------------------------------------------------------------
(* The goroutine of Logger.scan.  Nobody looks at the error of a write.    *)

ScanLock(s) ==
    /\ scan[s].pc = "lock" /\ fm = "free"
    /\ fm' = s
    /\ scan' = [scan EXCEPT ![s].pc = "write"]
    /\ UNCHANGED <<copier, writers, log, file, reopen, client, got, lost>>

ScanWrite(s) ==
    LET line == <<s, scan[s].line>>
    IN  /\ scan[s].pc = "write"
        /\ \/ log' = (IF file = "open" THEN Append(log, line) ELSE log) /\ lost' = lost
           \/ file = "open" /\ log' = log /\ lost' = lost \cup {line}
        /\ scan' = [scan EXCEPT ![s].pc = IF file = "nil" THEN "end" ELSE "read"]
        /\ fm' = "free"
        /\ UNCHANGED <<copier, writers, file, reopen, client, got>>

\* The pipe's write end is closed by endScans.
ScanEnd(s) ==
    /\ scan[s].pc = "read" /\ reopen.pc = "end"
    /\ scan' = [scan EXCEPT ![s].pc = "end"]
    /\ UNCHANGED <<copier, writers, log, file, fm, reopen, client, got, lost>>

----------------------------------------------------------------------------
(* ReOpenFile, by the control goroutine. *)

\* Mutant of ReopenLock: the mutex is not taken.
ReopenLockFree ==
    /\ reopen.pc = "idle" /\ reopen.count < MaxReopens
    /\ file' = "closed"
    /\ reopen' = [pc |-> "open", count |-> reopen.count + 1]
    /\ UNCHANGED <<copier, writers, scan, log, fm, client, got, lost>>

ReopenLock ==
    /\ reopen.pc = "idle" /\ reopen.count < MaxReopens /\ fm = "free"
    /\ fm' = "reopen"
    /\ file' = "closed"
    /\ reopen' = [pc |-> "open", count |-> reopen.count + 1]
    /\ UNCHANGED <<copier, writers, scan, log, client, got, lost>>

\* openFile, which appends; its failure leaves no file, and endScans closes
\* the pipes and waits for the goroutines.
ReopenOpen ==
    /\ reopen.pc = "open"
    /\ \E ok \in BOOLEAN :
         /\ file' = IF ok THEN "open" ELSE "nil"
         /\ reopen' = [reopen EXCEPT !.pc = IF ok THEN "idle" ELSE "end"]
    /\ fm' = "free"
    /\ UNCHANGED <<copier, writers, scan, log, client, got, lost>>

----------------------------------------------------------------------------
(* A client of the attach socket, and the goroutine that serves it.  Add   *)
(* and Del wait for the mutex of the MultiWriter, which a Write holds.     *)

Unlocked(s) == copier[s].pc # "write"

Attach(c) ==
    /\ client[c].pc = "none"
    /\ client' = [client EXCEPT ![c] = [pc |-> "stdout", peer |-> TRUE]]
    /\ UNCHANGED <<copier, writers, scan, log, file, fm, reopen, got, lost>>

AddWriter(c, s) ==
    /\ client[c].pc = s /\ Unlocked(s)
    /\ writers' = [writers EXCEPT ![s] = Append(@, c)]
    /\ client' = [client EXCEPT ![c].pc = IF s = "stdout" THEN "stderr" ELSE "input"]
    /\ UNCHANGED <<copier, scan, log, file, fm, reopen, got, lost>>

\* The client goes away ...
Detach(c) ==
    /\ client[c].peer
    /\ client' = [client EXCEPT ![c].peer = FALSE]
    /\ UNCHANGED <<copier, writers, scan, log, file, fm, reopen, got, lost>>

\* ... which ends io.Copy(inputWriters, c).
InputEnds(c) ==
    /\ client[c].pc = "input" /\ ~client[c].peer
    /\ client' = [client EXCEPT ![c].pc = "del stdout"]
    /\ UNCHANGED <<copier, writers, scan, log, file, fm, reopen, got, lost>>

DelWriter(c, s) ==
    /\ client[c].pc = IF s = "stdout" THEN "del stdout" ELSE "del stderr"
    /\ Unlocked(s)
    /\ writers' = [writers EXCEPT ![s] = Remove(@, c)]
    /\ client' = [client EXCEPT ![c].pc = IF s = "stdout" THEN "del stderr" ELSE "gone"]
    /\ UNCHANGED <<copier, scan, log, file, fm, reopen, got, lost>>

Next ==
    \/ \E s \in Streams : \/ CopyRead(s) \/ CopyToLog(s) \/ CopyToClient(s)
                          \/ CopyToOwn(s) \/ CopyDone(s) \/ ScanLock(s) \/ ScanWrite(s)
                          \/ ScanEnd(s)
    \/ ReopenLock \/ ReopenOpen
    \/ \E c \in Clients : \/ Attach(c) \/ Detach(c) \/ InputEnds(c)
                          \/ \E s \in Streams : AddWriter(c, s) \/ DelWriter(c, s)

Spec == Init /\ [][Next]_vars

----------------------------------------------------------------------------
(* Properties. *)

Of(lines, s) == SelectSeq(lines, LAMBDA l : l[1] = s)

\* The log has every line of a stream that the container wrote, once and in
\* order, but the one on its way and those whose write failed: through the
\* pipe, the scanner and the file, with rotations (ReOpenFile) at any moment.
\* A log whose file could not be opened again, or whose scanner met a line too
\* long for it, is cut short, never holed.  A client gets consecutive lines of
\* a stream (MultiWriter.Write holds its mutex for a whole line).
OutputIsWhole ==
    \A s \in Streams :
       LET in == [i \in DOMAIN Of(log, s) |-> Of(log, s)[i][2]]
           upTo(n) == SelectSeq([i \in 1 .. n |-> i], LAMBDA i : <<s, i>> \notin lost)
           due == IF copier[s].pc = "write" /\ copier[s].at = 1
                  THEN copier[s].line - 1 ELSE copier[s].line
       IN  /\ \E n \in 0 .. due : in = upTo(n)
           /\ file # "nil" /\ scan[s].pc = "read" => in = upTo(due)
           /\ \A c \in Clients :
                LET seen == Of(got[c], s)
                IN  \A i \in 2 .. Len(seen) : seen[i][2] = seen[i - 1][2] + 1

\* Writers are "added / removed dynamically" (writer.go): a client that goes
\* away does not end the copy of the container's output.
OutputOutlivesClients ==
    reopen.pc # "end" => \A s \in Streams : copier[s].pc # "closed"
=============================================================================
