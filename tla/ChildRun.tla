------------------------------ MODULE ChildRun ------------------------------
(***************************************************************************)
(* One call of a backend that is a plain child process, as backend/cli.rs  *)
(* (`pty = false`) and backend/tmuxlet.rs make it: the prompt may go to    *)
(* the child's stdin on a thread, two threads drain stdout and stderr, and *)
(* the caller polls, kills at the deadline, and after the exit waits a     *)
(* grace of 5s for each stream.  Pipes are bounded, and what the child     *)
(* started may hold their ends.                                            *)
(***************************************************************************)
EXTENDS Naturals, Sequences

CONSTANTS
  Programs,  \* what a child does, in order: read stdin, write stdout or stderr
  PromptLen, \* pieces of the prompt
  PipeCap,   \* pieces a pipe holds
  Tmuxlet    \* the backend is tmuxlet: stdout is parsed

Stream == {"out", "err"}

ASSUME ChildAssumption ==
  /\ Programs \subseteq Seq({"read"} \cup Stream)
  /\ PromptLen \in Nat
  /\ PipeCap \in Nat \ {0}
  /\ Tmuxlet \in BOOLEAN

VARIABLES
  behaves,    \* the child runs its program to the end without hanging
  program,    \* what it has still to do
  child,      \* none, running, or how it ended: ok, fail or killed
  reaped,     \* it has been waited for
  grandchild, \* holding the pipes, or not
  report,     \* what a whole stdout says to parse_output
  unsent,     \* pieces of the prompt the stdin thread has still to write
  stdin,      \* pieces in the stdin pipe
  feeder,     \* the stdin thread
  wrote,      \* wrote[s]: pieces the child has written to s
  pipe,       \* pipe[s]: pieces in it
  drainer,    \* drainer[s]: the thread that reads s to its end and sends it
  caller,     \* where dispatch is
  stdout,     \* pieces of stdout dispatch has received
  outcome     \* what dispatch returns

streams == <<wrote, pipe, drainer>>
feed == <<unsent, stdin, feeder>>
life == <<behaves, program, child, reaped, grandchild, report>>
vars == <<life, feed, streams, caller, stdout, outcome>>

Drained(s) == wrote[s] - pipe[s] \* what the thread of s holds

TypeOK ==
  /\ behaves \in BOOLEAN
  /\ program \in Seq({"read"} \cup Stream)
  /\ child \in {"none", "running", "ok", "fail", "killed"}
  /\ reaped \in BOOLEAN
  /\ grandchild \in {"none", "holding"}
  /\ report \in {"completed", "other", "raw"}
  /\ unsent \in 0 .. PromptLen
  /\ stdin \in 0 .. PipeCap
  /\ feeder \in {"none", "writing", "ended"}
  /\ wrote \in [Stream -> Nat]
  /\ pipe \in [Stream -> 0 .. PipeCap]
  /\ \A s \in Stream : pipe[s] <= wrote[s]
  /\ drainer \in [Stream -> {"none", "reading", "sent"}]
  /\ caller \in {"spawning", "polling", "killing", "reaping", "out", "err", "deciding", "returned"}
  /\ stdout \in Nat
  /\ outcome \in {"none", "content", "timeout", "exit", "backend", "spawn"}

Init ==
  /\ behaves \in BOOLEAN
  /\ program \in Programs
  /\ child = "none" /\ reaped = FALSE /\ grandchild = "none"
  /\ report \in IF Tmuxlet THEN {"completed", "other", "raw"} ELSE {"raw"}
  /\ unsent = PromptLen /\ stdin = 0 /\ feeder = "none"
  /\ wrote = [s \in Stream |-> 0]
  /\ pipe = [s \in Stream |-> 0]
  /\ drainer = [s \in Stream |-> "none"]
  /\ caller = "spawning" /\ stdout = 0 /\ outcome = "none"

PipesHeld == child = "running" \/ grandchild = "holding"
-----------------------------------------------------------------------------
(* The child, and what it leaves behind (the system, not this code). *)

\* Reading stdin waits for a piece, or for its end.
ChildReads ==
  /\ child = "running"
  /\ program # <<>> /\ Head(program) = "read"
  /\ \/ stdin > 0 /\ stdin' = stdin - 1
     \/ stdin = 0 /\ feeder # "writing" /\ UNCHANGED stdin
  /\ program' = Tail(program)
  /\ UNCHANGED <<behaves, child, reaped, grandchild, report, unsent, feeder, streams, caller,
                 stdout, outcome>>

\* Writing waits for room in the pipe.
ChildWrites ==
  /\ child = "running"
  /\ program # <<>> /\ Head(program) \in Stream
  /\ pipe[Head(program)] < PipeCap
  /\ wrote' = [wrote EXCEPT ![Head(program)] = @ + 1]
  /\ pipe' = [pipe EXCEPT ![Head(program)] = @ + 1]
  /\ program' = Tail(program)
  /\ UNCHANGED <<behaves, child, reaped, grandchild, report, feed, drainer, caller, stdout,
                 outcome>>

\* A child that behaves exits when its program is done; another, any time.
ChildExits ==
  /\ child = "running"
  /\ behaves => program = <<>>
  /\ child' \in {"ok", "fail"}
  /\ UNCHANGED <<behaves, program, reaped, grandchild, report, feed, streams, caller, stdout,
                 outcome>>

ChildForks ==
  /\ child = "running"
  /\ grandchild = "none"
  /\ grandchild' = "holding"
  /\ UNCHANGED <<behaves, program, child, reaped, report, feed, streams, caller, stdout, outcome>>

GrandchildExits ==
  /\ grandchild = "holding"
  /\ grandchild' = "none"
  /\ UNCHANGED <<behaves, program, child, reaped, report, feed, streams, caller, stdout, outcome>>
-----------------------------------------------------------------------------
(* The stdin thread, and the two that drain. *)

FeederWrites ==
  /\ feeder = "writing"
  /\ unsent > 0
  /\ PipesHeld
  /\ stdin < PipeCap
  /\ unsent' = unsent - 1
  /\ stdin' = stdin + 1
  /\ UNCHANGED <<life, feeder, streams, caller, stdout, outcome>>

\* All is written, or nobody is left to read it; either way stdin closes.
FeederEnds ==
  /\ feeder = "writing"
  /\ unsent = 0 \/ ~PipesHeld
  /\ feeder' = "ended"
  /\ UNCHANGED <<life, unsent, stdin, streams, caller, stdout, outcome>>

\* Variant: stderr is read once stdout has ended.
DrainerReadsInTurn(s) ==
  /\ drainer[s] = "reading"
  /\ s = "err" => drainer["out"] = "sent"
  /\ pipe[s] > 0
  /\ pipe' = [pipe EXCEPT ![s] = @ - 1]
  /\ UNCHANGED <<life, feed, wrote, drainer, caller, stdout, outcome>>

\* Variant: the pipe's end is read past.
DrainerReadsTwice(s) ==
  /\ drainer[s] = "reading"
  /\ pipe[s] > 0
  /\ pipe' = [pipe EXCEPT ![s] = @ - 2]
  /\ UNCHANGED <<life, feed, wrote, drainer, caller, stdout, outcome>>

DrainerReads(s) ==
  /\ drainer[s] = "reading"
  /\ pipe[s] > 0
  /\ pipe' = [pipe EXCEPT ![s] = @ - 1]
  /\ UNCHANGED <<life, feed, wrote, drainer, caller, stdout, outcome>>

\* End of file: the last holder of the writing end is gone, and all is sent at once.
DrainerSends(s) ==
  /\ drainer[s] = "reading"
  /\ pipe[s] = 0
  /\ ~PipesHeld
  /\ drainer' = [drainer EXCEPT ![s] = "sent"]
  /\ UNCHANGED <<life, feed, wrote, pipe, caller, stdout, outcome>>
-----------------------------------------------------------------------------
(* The caller. *)

\* With or without a stdin thread: stdin_prompt, or a tmuxlet that reads stdin.
Spawn ==
  /\ caller = "spawning"
  /\ child' = "running"
  /\ feeder' \in {"none", "writing"}
  /\ drainer' = [s \in Stream |-> "reading"]
  /\ caller' = "polling"
  /\ UNCHANGED <<behaves, program, reaped, grandchild, report, unsent, stdin, wrote, pipe,
                 stdout, outcome>>

SpawnFails ==
  /\ caller = "spawning"
  /\ outcome' = "spawn"
  /\ caller' = "returned"
  /\ UNCHANGED <<life, feed, streams, stdout>>

\* try_wait has a status, and with it the child is reaped.
PollSeesExit ==
  /\ caller = "polling"
  /\ child # "running"
  /\ reaped' = TRUE
  /\ caller' = "out"
  /\ UNCHANGED <<behaves, program, child, grandchild, report, feed, streams, stdout, outcome>>

\* try_wait fails: the child has ended and its status is gone, as with a SIGCHLD
\* that whoever started the server had ignored.
PollFails ==
  /\ caller = "polling"
  /\ child # "running"
  /\ reaped' = TRUE
  /\ outcome' = "spawn"
  /\ caller' = "returned"
  /\ UNCHANGED <<behaves, program, child, grandchild, report, feed, streams, stdout>>

\* try_wait has none and the deadline is past; the child may still end before the kill.
PollOverdue ==
  /\ caller = "polling"
  /\ child = "running"
  /\ caller' = "killing"
  /\ UNCHANGED <<life, feed, streams, stdout, outcome>>

\* Over if it is running; a child that has ended meanwhile is left as it is.
Kill ==
  /\ caller = "killing"
  /\ child' = IF child = "running" THEN "killed" ELSE child
  /\ caller' = "reaping"
  /\ UNCHANGED <<behaves, program, reaped, grandchild, report, feed, streams, stdout, outcome>>

\* Variant: the call returns after the kill.
WaitNot ==
  /\ caller = "reaping"
  /\ outcome' = "timeout"
  /\ caller' = "returned"
  /\ UNCHANGED <<life, feed, streams, stdout>>

\* The status is waited for and ignored; the drained output is left to its threads.
Wait ==
  /\ caller = "reaping"
  /\ child # "running"
  /\ reaped' = TRUE
  /\ outcome' = "timeout"
  /\ caller' = "returned"
  /\ UNCHANGED <<behaves, program, child, grandchild, report, feed, streams, stdout>>

\* The stream that the caller waits for.
Awaits(s) == caller = s

AfterStream(s) == caller' = IF s = "out" THEN "err" ELSE "deciding"

Collect(s) ==
  /\ Awaits(s)
  /\ drainer[s] = "sent"
  /\ stdout' = IF s = "out" THEN Drained("out") ELSE stdout
  /\ AfterStream(s)
  /\ UNCHANGED <<life, feed, streams, outcome>>

\* Variant: recv instead of recv_timeout.
GraceExpiresNever(s) ==
  /\ Awaits(s)
  /\ drainer[s] = "sent"
  /\ AfterStream(s)
  /\ UNCHANGED <<life, feed, streams, stdout, outcome>>

\* Variant: what has been drained so far is taken.
GraceExpiresWithPart(s) ==
  /\ Awaits(s)
  /\ drainer[s] # "sent"
  /\ stdout' = IF s = "out" THEN Drained("out") ELSE stdout
  /\ AfterStream(s)
  /\ UNCHANGED <<life, feed, streams, outcome>>

\* 5s and nothing sent: unwrap_or_default, an empty stream.
GraceExpires(s) ==
  /\ Awaits(s)
  /\ drainer[s] # "sent"
  /\ AfterStream(s)
  /\ UNCHANGED <<life, feed, streams, stdout, outcome>>

\* A failed exit counts if there is no output.  tmuxlet's output is read as its
\* report; what is no report, the empty output included, is the content.
Result ==
  IF child # "ok" /\ stdout = 0 THEN "exit"
  ELSE IF stdout > 0 /\ report = "other" THEN "backend"
  ELSE "content"

Decide ==
  /\ caller = "deciding"
  /\ outcome' = Result
  /\ caller' = "returned"
  /\ UNCHANGED <<life, feed, streams, stdout>>
-----------------------------------------------------------------------------
Child == ChildReads \/ ChildWrites \/ ChildExits
Descendant == ChildForks \/ GrandchildExits
Feeder == FeederWrites \/ FeederEnds
Drainer(s) == DrainerReads(s) \/ DrainerSends(s)
Caller == Spawn \/ SpawnFails \/ PollSeesExit \/ PollFails \/ Kill \/ Wait \/ Decide
          \/ \E s \in Stream : Collect(s) \/ GraceExpires(s)

Next == \/ Child \/ Descendant \/ Feeder \/ Caller \/ PollOverdue
        \/ \E s \in Stream : Drainer(s)

Spec == Init /\ [][Next]_vars

\* The server's threads run and the graces end.  A child that behaves gets on
\* with its program, however long that takes; for another the deadline comes.
FairSpec ==
  /\ Spec
  /\ WF_vars(Feeder) /\ WF_vars(Caller) /\ \A s \in Stream : WF_vars(Drainer(s))
  /\ WF_vars(behaves /\ Child)
  /\ WF_vars(~behaves /\ PollOverdue)
-----------------------------------------------------------------------------
(* What must hold. *)

\* F-1, and what parse_output needs: an answer is the whole output of a child
\* that ended by itself, or empty; a part of a report, which would pass for raw
\* content, is none, whoever still holds the pipe.
NoTruncatedAnswer ==
  outcome = "content" => /\ child \in {"ok", "fail"}
                         /\ stdout \in {0, wrote["out"]}
                         /\ child = "fail" => stdout > 0

\* No child outlives its call, as a process or as a zombie, whatever the call returns.
ChildReaped == caller = "returned" /\ child # "none" => child # "running" /\ reaped

\* A child that only wants to read its prompt and write its output gets to its
\* end (or to the deadline): no pipe between it and the server stays full or
\* empty forever, in whatever order it reads and writes.
ChildNotBlocked == (behaves /\ child = "running") ~> child # "running"

\* The call returns, however the child and its descendants behave.
CallReturns == <>(caller = "returned")
=============================================================================
