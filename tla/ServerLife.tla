----------------------------- MODULE ServerLife -----------------------------
(***************************************************************************)
(* The life of the server, over restarts: run_serve (main.rs) captures the *)
(* environment, resolves the token, checks the bind policy, asks tmuxlet   *)
(* for its help text, binds, serves, and ends with its workers.  A failure *)
(* ends it earlier, a crash at any time.  The token file and what clients  *)
(* know of it survive.                                                     *)
(***************************************************************************)
EXTENDS Naturals, Sequences, FiniteSets

CONSTANTS
  EnvSize, PipeCap, Watchdog,
  NoToken, Blank, UserToken, EnvToken, NoFile,
  Worker, RequestMax, NoRequest, Kinds, Config, CorsOn, StrictModels, StopMax,
  Models,   \* names that requests may give as their model
  Settings, \* what server.toml and the command line may say at a start
  StartMax, \* bound: starts of the server
  EditMax   \* bound: changes of the token file by the user

VARIABLES
  shell, printed, pipe, held, reader, drained, capturer, env, warned,
  file, ours, resolver, token, issued, shown, edited,
  queue, request, worker, cors, stops,
  phase,   \* where run_serve is; down: there is no process
  setting, \* the settings of this start
  probe,   \* what probe_tmuxlet_stdin has yet to see of the process it runs
  starts,  \* starts so far
  edits    \* changes of the token file so far

Capture == INSTANCE EnvCapture
Tokens == INSTANCE TokenFile
Pool == INSTANCE ServerPool

captureVars == <<shell, printed, pipe, held, reader, drained, capturer, env, warned>>
diskVars == <<file, ours, resolver, issued, shown, edited>>
poolVars == <<queue, request, worker, cors, stops>>
lifeVars == <<phase, setting, probe, starts, edits>>
vars == <<captureVars, diskVars, token, poolVars, lifeVars>>

\* auth and auth_token_env; whether listen is beyond loopback; the override
\* --allow-remote-unauthenticated; env_source; whether there is a tmuxlet backend.
Setting == [auth : {"off", "env", "file"}, remote : BOOLEAN, allow : BOOLEAN,
            source : {"process", "shell"}, tmuxlet : BOOLEAN]
NoSetting == [auth |-> "off", remote |-> FALSE, allow |-> FALSE, source |-> "process",
              tmuxlet |-> FALSE]

\* Command::output waits for the end of both pipes and of the process, in that
\* order or the other: a process may close its pipes, or leave them to another.
Awaited == {"pipes", "exit"}

ASSUME LifeAssumption ==
  /\ {EnvSize, PipeCap} \subseteq Nat \ {0}
  /\ {Watchdog, CorsOn, StrictModels} \subseteq BOOLEAN
  /\ Kinds \subseteq Pool!Kind
  /\ Settings \subseteq Setting
  /\ {RequestMax, StopMax, StartMax, EditMax} \subseteq Nat
  /\ NoRequest \notin Pool!Request
\* No user writes the 32 random bytes of a generated token.
ASSUME TokenAssumption ==
  /\ NoFile \notin Tokens!File
  /\ UserToken \notin Tokens!Generated /\ Blank \notin Tokens!Generated
ASSUME LoadedAssumption == Pool!Valid(Config)

TypeOK ==
  /\ Capture!TypeOK /\ Tokens!TypeOK /\ Pool!TypeOK
  /\ phase \in {"down", "capturing", "resolving", "probing", "binding", "serving"}
  /\ setting \in Setting
  /\ probe \subseteq Awaited
  /\ starts \in 0 .. StartMax /\ edits \in 0 .. EditMax

Init ==
  /\ Capture!Init /\ Tokens!Init /\ Pool!PoolInit
  /\ phase = "down" /\ setting = NoSetting /\ probe = {} /\ starts = 0 /\ edits = 0
-----------------------------------------------------------------------------
(* The process. *)

\* What is left of the shell and of its reader matters to nobody.
ForgetShell ==
  /\ shell' = "none" /\ printed' = 0 /\ pipe' = 0 /\ held' = FALSE
  /\ reader' = "none" /\ drained' = 0

\* What the process knew is gone.
ForgetCapture ==
  /\ ForgetShell
  /\ capturer' = "idle" /\ env' = "none" /\ warned' = FALSE

Start ==
  /\ phase = "down"
  /\ starts < StartMax
  /\ starts' = starts + 1
  /\ setting' \in Settings
  /\ phase' = "capturing"
  /\ Tokens!Fresh /\ Pool!Fresh
  /\ UNCHANGED <<captureVars, probe, edits>>

\* The process ends by itself, with its requests as they are.
Exit ==
  /\ phase' = "down" /\ setting' = NoSetting /\ probe' = {}
  /\ Tokens!Fresh /\ ForgetCapture
  /\ UNCHANGED <<poolVars, starts, edits>>

\* SIGKILL, a power failure, or a signal before the handler is set.
Crash ==
  /\ phase # "down"
  /\ phase' = "down" /\ setting' = NoSetting /\ probe' = {}
  /\ Tokens!Fresh /\ ForgetCapture /\ Pool!Fresh
  /\ UNCHANGED <<starts, edits>>

Capturing(step) ==
  /\ phase = "capturing"
  /\ step
  /\ UNCHANGED <<diskVars, token, poolVars, lifeVars>>

ShellStep == Capturing(Capture!Shell)
ReaderStep == Capturing(Capture!Reader)
CaptureStep == Capturing(Capture!Caller(setting.source))

Captured ==
  /\ phase = "capturing"
  /\ capturer = "done"
  /\ phase' = "resolving"
  /\ ForgetShell
  /\ UNCHANGED <<capturer, env, warned, diskVars, token, poolVars, setting, probe, starts, edits>>

ResolveStep ==
  /\ phase = "resolving"
  /\ Tokens!Resolve(setting.auth, env)
  /\ UNCHANGED <<captureVars, poolVars, lifeVars>>

ResolveFails ==
  /\ phase = "resolving"
  /\ resolver = "failed"
  /\ Exit

\* S-2: no unauthenticated server beyond loopback.
BindRefused == setting.remote /\ token = NoToken /\ ~setting.allow

Refused ==
  /\ phase = "resolving"
  /\ resolver = "done"
  /\ BindRefused
  /\ Exit

\* From here on only the backends use the environment, and the probe.
Resolved(next) ==
  /\ phase = "resolving"
  /\ resolver = "done"
  /\ ~BindRefused
  /\ phase' = next
  /\ ForgetCapture
  /\ UNCHANGED <<diskVars, token, poolVars, setting, starts, edits>>

\* A tmuxlet backend is configured: `tmuxlet --help` is run, with no timeout;
ProbeStarts ==
  /\ setting.tmuxlet
  /\ Resolved("probing")
  /\ probe' = Awaited

\* there is none, or tmuxlet is not there to be run.
Unprobed == Resolved("binding") /\ UNCHANGED probe

\* What it has printed, and how it ended, only chooses how tmuxlet gets its prompts.
Probed ==
  /\ phase = "probing"
  /\ probe = {}
  /\ phase' = "binding"
  /\ UNCHANGED <<captureVars, diskVars, token, poolVars, setting, probe, starts, edits>>

\* The address is free, and the workers wait for requests;
Bind ==
  /\ phase = "binding"
  /\ phase' = "serving"
  /\ UNCHANGED <<captureVars, diskVars, token, poolVars, setting, probe, starts, edits>>

\* or it is not.
BindFails ==
  /\ phase = "binding"
  /\ Exit

Work(w) ==
  /\ phase = "serving"
  /\ Pool!Work(w)
  /\ UNCHANGED <<captureVars, diskVars, token, lifeVars>>

Panic(w) ==
  /\ phase = "serving"
  /\ Pool!Panic(w)
  /\ UNCHANGED <<captureVars, diskVars, token, lifeVars>>

ServeReturns ==
  /\ phase = "serving"
  /\ Pool!Joined
  /\ Exit
-----------------------------------------------------------------------------
(* Users, clients and the probed process (not this code). *)

ProbeGoesOn ==
  /\ phase = "probing"
  /\ \E what \in probe : probe' = probe \ {what}
  /\ UNCHANGED <<captureVars, diskVars, token, poolVars, phase, setting, starts, edits>>

UserEdits ==
  /\ edits < EditMax
  /\ edits' = edits + 1
  /\ Tokens!User
  /\ UNCHANGED <<captureVars, poolVars, phase, setting, probe, starts>>

ClientReadsFile ==
  /\ Tokens!ClientReadsFile
  /\ UNCHANGED <<captureVars, poolVars, lifeVars>>

\* With the token read in the file, if it has been, or the one of the variable.
ClientSends ==
  /\ phase = "serving"
  /\ \E r \in Pool!Request, ask \in Kinds, model \in Models, bearer \in {shown, EnvToken} :
       Pool!Arrive(r, ask, model, bearer)
  /\ UNCHANGED <<captureVars, diskVars, token, lifeVars>>

SignalHandled ==
  /\ phase = "serving"
  /\ Pool!Signal
  /\ UNCHANGED <<captureVars, diskVars, token, lifeVars>>
-----------------------------------------------------------------------------
\* The thread of run_serve; the shell's reader and the workers are the others.
Main ==
  \/ CaptureStep \/ Captured \/ ResolveStep \/ ResolveFails \/ Refused
  \/ ProbeStarts \/ Unprobed \/ Probed \/ Bind \/ BindFails \/ ServeReturns

Next ==
  \/ Start \/ Crash \/ Main
  \/ ShellStep \/ ReaderStep \/ ProbeGoesOn
  \/ \E w \in Worker : Work(w) \/ Panic(w)
  \/ UserEdits \/ ClientReadsFile \/ ClientSends \/ SignalHandled

Spec == Init /\ [][Next]_vars

\* The threads of the process run; the watchdog and the grace of the capture pass,
\* whatever the shell and its descendants do.  A body arrives or breaks off, and
\* a dispatch ends.  Nothing is assumed of the probed process.
FairSpec ==
  /\ Spec
  /\ WF_vars(Main) /\ WF_vars(ReaderStep)
  /\ \A w \in Worker : WF_vars(Work(w))
-----------------------------------------------------------------------------
(* What must hold. *)

\* A server that is to ask for a token, or must before it faces a network, has
\* one, and not an empty one that an empty header would match.
NeverOpen ==
  phase = "serving" /\ (setting.auth # "off" \/ (setting.remote /\ ~setting.allow))
    => token \in Tokens!RealToken

\* S-1: a generated secret is written only to an inode that nobody else could
\* ever have opened.
SecretUnexposed ==
  [][(/\ file' # NoFile /\ file'.content \in Tokens!Generated
      /\ (file = NoFile \/ file.content # file'.content)) => ~file'.exposed]_file

\* `cat ~/.tmuxlet/token` is the whole client setup: while nobody edits the file,
\* what it says is accepted, over restarts, crashes and repairs.
FileTokenAccepted ==
  phase = "serving" /\ setting.auth = "file" /\ ~edited =>
    \A r \in Pool!Request : request[r].answer.status = 401 => request[r].bearer # shown \/ shown = NoToken

\* Every answer is the request's own: its CORS headers, and nothing protected
\* without the token, whoever the worker served before.
OwnAnswer ==
  \A r \in Pool!Request :
    LET ask == request[r].ask
        answer == request[r].answer
    IN  request[r].at = "answered" /\ answer.status # 500 =>
          /\ answer.vary = CorsOn
          /\ answer.origin = IF CorsOn /\ ask.origin = "listed" THEN "listed" ELSE "none"
          /\ phase = "serving" /\ answer.status \in {200, 503} /\ ask.path # "health" =>
               token \in {NoToken, request[r].bearer}

\* A request that has arrived is answered, unless the process crashes or as many
\* signals as there are workers arrive: no panic and no body costs the others.
RequestsAnswered ==
  \A r \in Pool!Request :
    request[r].at = "queued" ~>
      request[r].at \in {"answered", "unsent"} \/ stops >= Cardinality(Worker)

\* A start ends, in a server or in a failure, whatever the login shell does, unless
\* `tmuxlet --help` never ends or never lets go of its pipes: that alone can keep
\* it; and a server ends after as many signals as it has workers.
PhasesEnd ==
  /\ phase = "capturing" ~> phase \in {"serving", "down"} \/ [](probe # {})
  /\ stops >= Cardinality(Worker) ~> phase = "down"
=============================================================================
