------------------------------- MODULE PtyRun -------------------------------
(***************************************************************************)
(* One call of a `pty = true` CLI backend: run_in_pty (src/src/pty.rs) and *)
(* what backend/cli.rs makes of its result.  The caller writes the prompt, *)
(* waits for the child and joins two threads: a watchdog that kills the    *)
(* child after the timeout, and a reader that collects output until nobody *)
(* holds the slave side any more.  A process the child started may hold it *)
(* longer than the child lives.                                            *)
(***************************************************************************)
EXTENDS Naturals

CONSTANT MaxChunks \* bound: pieces of output a child writes

ASSUME ChunksAssumption == MaxChunks \in Nat

VARIABLES
  heeds,      \* the child dies of the signal that killer.kill sends it, a hangup
  statusKept, \* its status is there for wait, as it is unless SIGCHLD is ignored
  blocks,     \* the prompt is larger than the tty buffer and nobody reads it
  caller,     \* where run_in_pty is
  writeRes,   \* write_res
  child,      \* running, or how it ended: ok, fail or killed; none before spawn
  grandchild, \* holding the slave, or not
  written,    \* pieces of output written to the slave
  collected,  \* pieces the reader has collected
  reader,     \* the reader thread
  watchdog,   \* the watchdog thread
  fired,      \* the flag the watchdog raises
  done,       \* done_tx has been used or dropped
  outcome     \* what cli::dispatch returns

given == <<heeds, statusKept, blocks>>
vars == <<given, caller, writeRes, child, grandchild, written, collected, reader,
          watchdog, fired, done, outcome>>

Caller == {"spawning", "writing", "waiting", "signalling", "joiningWatchdog",
           "joiningReader", "returning", "returned"}

TypeOK ==
  /\ heeds \in BOOLEAN /\ statusKept \in BOOLEAN /\ blocks \in BOOLEAN
  /\ caller \in Caller
  /\ writeRes \in {"none", "ok", "error"}
  /\ child \in {"none", "running", "ok", "fail", "killed"}
  /\ grandchild \in {"none", "holding"}
  /\ written \in 0 .. MaxChunks
  /\ collected \in 0 .. written
  /\ reader \in {"none", "reading", "ended"}
  /\ watchdog \in {"none", "armed", "killing", "ended"}
  /\ fired \in BOOLEAN
  /\ done \in BOOLEAN
  /\ outcome \in {"none", "content", "timeout", "exit", "spawn"}

Init ==
  /\ heeds \in BOOLEAN /\ statusKept \in BOOLEAN /\ blocks \in BOOLEAN
  /\ caller = "spawning" /\ writeRes = "none"
  /\ child = "none" /\ grandchild = "none" /\ written = 0 /\ collected = 0
  /\ reader = "none" /\ watchdog = "none"
  /\ fired = FALSE /\ done = FALSE /\ outcome = "none"

SlaveHeld == child = "running" \/ grandchild = "holding"
-----------------------------------------------------------------------------
(* The child, and what it leaves behind (the system, not this code). *)

ChildWrites ==
  /\ child = "running"
  /\ written < MaxChunks
  /\ written' = written + 1
  /\ UNCHANGED <<given, caller, writeRes, child, grandchild, collected, reader,
                 watchdog, fired, done, outcome>>

ChildForks ==
  /\ child = "running"
  /\ grandchild = "none"
  /\ grandchild' = "holding"
  /\ UNCHANGED <<given, caller, writeRes, child, written, collected, reader,
                 watchdog, fired, done, outcome>>

GrandchildExits ==
  /\ grandchild = "holding"
  /\ grandchild' = "none"
  /\ UNCHANGED <<given, caller, writeRes, child, written, collected, reader,
                 watchdog, fired, done, outcome>>

ChildExits ==
  /\ child = "running"
  /\ child' \in {"ok", "fail"}
  /\ UNCHANGED <<given, caller, writeRes, grandchild, written, collected, reader,
                 watchdog, fired, done, outcome>>
-----------------------------------------------------------------------------
(* The reader thread: read until end of file, EIO counting as one. *)

\* Variant: what was read is appended twice.
ReaderReadsTwice ==
  /\ reader = "reading"
  /\ collected < written
  /\ collected' = collected + 2
  /\ UNCHANGED <<given, caller, writeRes, child, grandchild, written, reader,
                 watchdog, fired, done, outcome>>

ReaderReads ==
  /\ reader = "reading"
  /\ collected < written
  /\ collected' = collected + 1
  /\ UNCHANGED <<given, caller, writeRes, child, grandchild, written, reader,
                 watchdog, fired, done, outcome>>

ReaderEnds ==
  /\ reader = "reading"
  /\ collected = written
  /\ ~SlaveHeld
  /\ reader' = "ended"
  /\ UNCHANGED <<given, caller, writeRes, child, grandchild, written, collected,
                 watchdog, fired, done, outcome>>
-----------------------------------------------------------------------------
(* The watchdog thread. *)

\* Variant: it is armed when the prompt has been written.
WatchdogFiresAfterWrite ==
  /\ watchdog = "armed"
  /\ caller # "writing"
  /\ ~done
  /\ fired' = TRUE
  /\ watchdog' = "killing"
  /\ UNCHANGED <<given, caller, writeRes, child, grandchild, written, collected,
                 reader, done, outcome>>

\* The timeout passes without a message: the flag first, then the kill.
WatchdogFires ==
  /\ watchdog = "armed"
  /\ ~done
  /\ fired' = TRUE
  /\ watchdog' = "killing"
  /\ UNCHANGED <<given, caller, writeRes, child, grandchild, written, collected,
                 reader, done, outcome>>

\* The kill reaches a child that still runs, and ends one that heeds it; its result is
\* ignored and it is not repeated.
WatchdogKills ==
  /\ watchdog = "killing"
  /\ child' = IF child = "running" /\ heeds THEN "killed" ELSE child
  /\ watchdog' = "ended"
  /\ UNCHANGED <<given, caller, writeRes, grandchild, written, collected, reader,
                 fired, done, outcome>>

WatchdogDismissed ==
  /\ watchdog = "armed"
  /\ done
  /\ watchdog' = "ended"
  /\ UNCHANGED <<given, caller, writeRes, child, grandchild, written, collected,
                 reader, fired, done, outcome>>
-----------------------------------------------------------------------------
(* The caller. *)

\* The child, the reader and the watchdog start; or nothing does.
Spawn ==
  /\ caller = "spawning"
  /\ caller' = "writing"
  /\ child' = "running" /\ reader' = "reading" /\ watchdog' = "armed"
  /\ UNCHANGED <<given, writeRes, grandchild, written, collected, fired, done, outcome>>

SpawnFails ==
  /\ caller = "spawning"
  /\ caller' = "returned"
  /\ outcome' = "spawn"
  /\ UNCHANGED <<given, writeRes, child, grandchild, written, collected, reader,
                 watchdog, fired, done>>

\* The write returns once its bytes are taken, or once the slave has closed, and
\* then it may have failed.
WritePrompt ==
  /\ caller = "writing"
  /\ \/ (~blocks \/ ~SlaveHeld) /\ writeRes' = "ok"
     \/ ~SlaveHeld /\ writeRes' = "error"
  /\ caller' = "waiting"
  /\ UNCHANGED <<given, child, grandchild, written, collected, reader, watchdog,
                 fired, done, outcome>>

WaitChild ==
  /\ caller = "waiting"
  /\ statusKept
  /\ child \in {"ok", "fail", "killed"}
  /\ caller' = "signalling"
  /\ UNCHANGED <<given, writeRes, child, grandchild, written, collected, reader,
                 watchdog, fired, done, outcome>>

\* The child has ended and its status is gone: run_in_pty returns at once, done_tx is
\* dropped, and nobody joins the threads.
WaitFails ==
  /\ caller = "waiting"
  /\ ~statusKept
  /\ child \in {"ok", "fail", "killed"}
  /\ done' = TRUE
  /\ outcome' = "spawn"
  /\ caller' = "returned"
  /\ UNCHANGED <<given, writeRes, child, grandchild, written, collected, reader,
                 watchdog, fired>>

SignalDone ==
  /\ caller = "signalling"
  /\ done' = TRUE
  /\ caller' = "joiningWatchdog"
  /\ UNCHANGED <<given, writeRes, child, grandchild, written, collected, reader,
                 watchdog, fired, outcome>>

JoinWatchdog ==
  /\ caller = "joiningWatchdog"
  /\ watchdog = "ended"
  /\ caller' = "joiningReader"
  /\ UNCHANGED <<given, writeRes, child, grandchild, written, collected, reader,
                 watchdog, fired, done, outcome>>

\* Variant: whatever has been collected by now is the output.
JoinReaderAtOnce ==
  /\ caller = "joiningReader"
  /\ caller' = "returning"
  /\ UNCHANGED <<given, writeRes, child, grandchild, written, collected, reader,
                 watchdog, fired, done, outcome>>

\* Without a limit.
JoinReader ==
  /\ caller = "joiningReader"
  /\ reader = "ended"
  /\ caller' = "returning"
  /\ UNCHANGED <<given, writeRes, child, grandchild, written, collected, reader,
                 watchdog, fired, done, outcome>>

\* Variant: the exit status is looked at before the flag.
ResultExitFirst ==
  IF child # "ok" /\ collected = 0 THEN "exit"
  ELSE IF fired THEN "timeout"
  ELSE IF writeRes = "error" THEN "spawn"
  ELSE "content"

\* Variant: partial output of a killed child is an answer.
ResultPartial ==
  IF writeRes = "error" /\ ~fired THEN "spawn"
  ELSE IF child # "ok" /\ collected = 0 THEN (IF fired THEN "timeout" ELSE "exit")
  ELSE "content"

\* F-8 and F-1: a write error counts unless the watchdog fired, and then nothing
\* but the timeout counts; a failed exit counts if there is no output.
Result ==
  IF fired THEN "timeout"
  ELSE IF writeRes = "error" THEN "spawn"
  ELSE IF child # "ok" /\ collected = 0 THEN "exit"
  ELSE "content"

Return ==
  /\ caller = "returning"
  /\ outcome' = Result
  /\ caller' = "returned"
  /\ UNCHANGED <<given, writeRes, child, grandchild, written, collected, reader,
                 watchdog, fired, done>>
-----------------------------------------------------------------------------
ReaderThread == ReaderReads \/ ReaderEnds
WatchdogThread == WatchdogFires \/ WatchdogKills \/ WatchdogDismissed
CallerThread == Spawn \/ SpawnFails \/ WritePrompt \/ WaitChild \/ WaitFails
                \/ SignalDone \/ JoinWatchdog \/ JoinReader \/ Return
Processes == ChildWrites \/ ChildForks \/ GrandchildExits \/ ChildExits

Next == ReaderThread \/ WatchdogThread \/ CallerThread \/ Processes

Spec == Init /\ [][Next]_vars

\* The server's own threads run, and the timeout comes; the child may hang, and
\* so may what it started.
Fairness == WF_vars(ReaderThread) /\ WF_vars(WatchdogThread) /\ WF_vars(CallerThread)
FairSpec == Spec /\ Fairness

\* Whatever the child started lets go of the slave some day.
TidySpec == FairSpec /\ SF_vars(GrandchildExits)
-----------------------------------------------------------------------------
(* What must hold. *)

\* F-1, F-8: content is the whole output of a child that ended by itself and was
\* given its whole prompt; no race of exit, timeout and closing tty makes a
\* truncated answer a success.
NoTruncatedSuccess ==
  outcome = "content" => /\ child \in {"ok", "fail"}
                         /\ collected = written
                         /\ writeRes = "ok"

\* A call whose child the watchdog killed is a Timeout, with or without output:
\* its cooldown depends on the class.  (Where the status is lost, so is the class.)
KillIsTimeout ==
  statusKept /\ child = "killed" /\ outcome # "none" => outcome = "timeout"

\* Both threads are gone when the call returns: calls do not pile up threads.  Only
\* the early return of a failed wait leaves them behind.
NoThreadLeft ==
  statusKept /\ outcome # "none" => reader # "reading" /\ watchdog \in {"none", "ended"}

\* The call returns, however a child that heeds the hangup behaves, with a prompt it
\* never reads too.
CallReturns == heeds => <>(caller = "returned")
=============================================================================
