----------------------------- MODULE EnvCapture -----------------------------
(***************************************************************************)
(* Env::capture (env.rs): the environment of a login shell, which prints   *)
(* it into a pipe that a thread drains, under a watchdog.  What the shell  *)
(* starts in the background inherits the pipe; the shell may hang, end     *)
(* early, or fail to start.                                                *)
(***************************************************************************)
EXTENDS Naturals

CONSTANTS
  EnvSize, \* pieces of what the shell prints: the whole environment
  PipeCap, \* pieces the pipe holds
  Watchdog \* env_capture_timeout_secs is not zero

VARIABLES
  shell,    \* the child
  printed,  \* pieces it has written
  pipe,     \* pieces in the pipe
  held,     \* a background process of the shell has the pipe open
  reader,   \* the thread that drains it
  drained,  \* pieces it has read
  capturer, \* where the caller is
  env,      \* the captured map: the shell's, a part of it, empty, the process's
  warned    \* the fallback has been reported

captureVars == <<shell, printed, pipe, held, reader, drained, capturer, env, warned>>

TypeOK ==
  /\ shell \in {"none", "running", "exited", "killed"}
  /\ printed \in 0 .. EnvSize
  /\ pipe \in 0 .. PipeCap
  /\ held \in BOOLEAN
  /\ reader \in {"none", "reading", "sent"}
  /\ drained \in 0 .. EnvSize
  /\ capturer \in {"idle", "polling", "collecting", "done"}
  /\ env \in {"none", "shell", "part", "empty", "process"}
  /\ warned \in BOOLEAN

Init ==
  /\ shell = "none" /\ printed = 0 /\ pipe = 0 /\ held = FALSE
  /\ reader = "none" /\ drained = 0
  /\ capturer = "idle" /\ env = "none" /\ warned = FALSE
-----------------------------------------------------------------------------
(* The shell and what it starts (not this code). *)

ShellPrints ==
  /\ shell = "running"
  /\ printed < EnvSize
  /\ pipe < PipeCap
  /\ printed' = printed + 1
  /\ pipe' = pipe + 1
  /\ UNCHANGED <<shell, held, reader, drained, capturer, env, warned>>

ShellForks ==
  /\ shell = "running"
  /\ ~held
  /\ held' = TRUE
  /\ UNCHANGED <<shell, printed, pipe, reader, drained, capturer, env, warned>>

\* With the environment printed, or before: a profile may exit.
ShellExits ==
  /\ shell = "running"
  /\ shell' = "exited"
  /\ UNCHANGED <<printed, pipe, held, reader, drained, capturer, env, warned>>

HolderExits ==
  /\ held
  /\ held' = FALSE
  /\ UNCHANGED <<shell, printed, pipe, reader, drained, capturer, env, warned>>
-----------------------------------------------------------------------------
(* The reader thread: read_to_end, then the channel. *)

ReaderReads ==
  /\ reader = "reading"
  /\ pipe > 0
  /\ pipe' = pipe - 1
  /\ drained' = drained + 1
  /\ UNCHANGED <<shell, printed, held, reader, capturer, env, warned>>

ReaderSends ==
  /\ reader = "reading"
  /\ pipe = 0
  /\ shell # "running" /\ ~held
  /\ reader' = "sent"
  /\ UNCHANGED <<shell, printed, pipe, held, drained, capturer, env, warned>>
-----------------------------------------------------------------------------
(* The caller. *)

\* Whatever else env_source says is taken for "shell".
TakeProcessEnv(source) ==
  /\ capturer = "idle"
  /\ source = "process"
  /\ env' = "process"
  /\ capturer' = "done"
  /\ UNCHANGED <<shell, printed, pipe, held, reader, drained, warned>>

FallBack == env' = "process" /\ warned' = TRUE /\ capturer' = "done"

Spawn(source) ==
  /\ capturer = "idle"
  /\ source # "process"
  /\ shell' = "running"
  /\ reader' = "reading"
  /\ capturer' = "polling"
  /\ UNCHANGED <<printed, pipe, held, drained, env, warned>>

SpawnFails(source) ==
  /\ capturer = "idle"
  /\ source # "process"
  /\ FallBack
  /\ UNCHANGED <<shell, printed, pipe, held, reader, drained>>

\* try_wait: however it ended, its exit status is not looked at.
PollSeesExit ==
  /\ capturer = "polling"
  /\ shell = "exited"
  /\ capturer' = "collecting"
  /\ UNCHANGED <<shell, printed, pipe, held, reader, drained, env, warned>>

\* S-9: the watchdog kills the shell; it may just have ended by itself.
PollOverdue ==
  /\ capturer = "polling"
  /\ Watchdog
  /\ shell' = IF shell = "running" THEN "killed" ELSE shell
  /\ FallBack
  /\ UNCHANGED <<printed, pipe, held, reader, drained>>

\* What parse_env makes of n pieces.
Parsed(n) == IF n = EnvSize THEN "shell" ELSE IF n = 0 THEN "empty" ELSE "part"

Collect ==
  /\ capturer = "collecting"
  /\ reader = "sent"
  /\ env' = Parsed(drained)
  /\ capturer' = "done"
  /\ UNCHANGED <<shell, printed, pipe, held, reader, drained, warned>>

\* Variant: the caller waits for the reader as long as it takes.
GraceNever == FALSE /\ UNCHANGED captureVars

\* recv_timeout(2s) runs out: somebody holds the pipe (two seconds are enough to
\* drain one that nobody holds).  Whatever the reader has, unwrap_or_default
\* makes it the environment of no bytes.
GraceExpires ==
  /\ capturer = "collecting"
  /\ reader = "reading"
  /\ held
  /\ env' = Parsed(0)
  /\ capturer' = "done"
  /\ UNCHANGED <<shell, printed, pipe, held, reader, drained, warned>>
-----------------------------------------------------------------------------
Shell == ShellPrints \/ ShellForks \/ ShellExits \/ HolderExits
Reader == ReaderReads \/ ReaderSends
Caller(source) ==
  \/ TakeProcessEnv(source) \/ Spawn(source) \/ SpawnFails(source)
  \/ PollSeesExit \/ PollOverdue \/ Collect \/ GraceExpires

\* The capture on its own, with env_source = "shell".
Spec == Init /\ [][Shell \/ Reader \/ Caller("shell")]_captureVars
-----------------------------------------------------------------------------
(* What must hold. *)

\* "U-8a / S-9: the fallback must not be silent" (env.rs): when the login shell
\* has printed its environment and the server runs with another one all the
\* same, it has said so.
NoSilentFallback ==
  capturer = "done" /\ printed = EnvSize /\ env # "shell" => warned
=============================================================================
