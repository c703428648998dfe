# Verification of tmuxlet-server

tmuxlet-server is an HTTP server that answers OpenAI-style chat requests by
trying a chain of backends in order: child processes (`tmuxlet`, CLI tools,
CLI tools in a pseudo-terminal) and HTTP upstreams. Requests are served by a
pool of blocking threads; what makes the program hard is that those threads
share a concurrency limit, a health record and a clock, and that every backend
call may hang, fail, panic or outlive the client that asked for it.

Paths below are relative to `src/src/` of the repository.

## 1. Inventory

| Part | State | Operations | Interacts with | What is hard |
|---|---|---|---|---|
| Chain walk (`http.rs` `run_chain`, `classify_task`, `ActiveSlot`, `record_*`, `cooldown_for`) | `State.active` (in-flight counts), `State.health` (failures, cooling time), both behind a mutex; the walk's locals: snapshot, errors, slot guard, deadline | classify, snapshot, skip (budget, cooling, busy), reserve, call, record, release, answer | every backend; worker and stream threads | threads interleave at two locks; calls overlap; panics unwind through guards; the clock is read several times |
| Streaming (`http.rs` `stream_with_keepalive`, `ChannelSseBody`) | two channels, three threads, the socket | dispatch, keepalive, result, frames, end of body | chain walk, the client | a client that leaves; a panic after the 200 is out; thread and channel lifetimes decide the end of the stream |
| CLI backend in a PTY (`pty.rs`, `backend/cli.rs`) | child, reader thread, watchdog thread, `fired` flag | spawn, write prompt, wait, signal, join, decide | the child and what it starts | exit, timeout and closing tty race; a prompt nobody reads; who still holds the slave |
| CLI and tmuxlet backends with pipes (`backend/cli.rs`, `backend/tmuxlet.rs`) | child, stdin/stdout/stderr threads | spawn, poll, kill, collect with a 5 s grace | the child and what it starts | descendants that hold the pipes; collection cut off by the grace |
| HTTP client, API backend (`http_client.rs`, `backend/api.rs`) | a socket, a buffer | connect, write, read to the end of the body, parse | upstreams | deadlines are per operation; framing; the size cap; error classes decide cooldowns |
| Request handling (`http.rs` `handle`, `handle_chat`, `router.rs`, `auth.rs`) | a thread-local CORS decision | route, authenticate, bound and read the body, validate, resolve | worker pool, chain walk | the order of the checks; `parse_class` picks by hash order |
| Server pool, shutdown (`http.rs` `serve`, `main.rs`) | worker threads, tiny_http's queue | receive, recover from a panic, unblock, join | everything | a panic must not cost a worker; one `unblock` for many workers |
| Startup (`main.rs` `run_serve`, `probe_tmuxlet_stdin`) | its phase | capture, resolve the token, bind policy, probe tmuxlet, bind, serve | the next three, the pool, `tmuxlet --help` | a failure or a crash between any two steps; a probe without a limit before the listener exists |
| Token file (`auth.rs`) | `~/.tmuxlet/token` | reuse, repair permissions, generate, write | startup, the user, clients | a crash between remove, create and write; edits between them |
| Environment capture (`env.rs`) | the captured map, a reader thread | run a login shell with a watchdog, parse, filter | startup, child backends | a shell that hangs, or leaves its pipe to others; glob patterns |
| Configuration (`config.rs`) | none after startup | parse, validate, lint | everything, read-only | pure; what `validate` guarantees the other parts rely on |
| Wire format, logging, command line (`openai.rs`, `log.rs`, `main.rs`) | a request counter | format | all | pure formatting and I/O |

What makes each part correct:

- *Chain walk*: never more than `max_concurrent` calls to a backend; no slot is
  ever lost or returned twice; a leg is left out only for a reason that is
  reported; health is touched by finished calls only; cooldowns are bounded; a
  walk ends within its budget; every request is answered.
- *Streaming*: keepalives, then one whole answer, then `[DONE]`, whatever
  happens to the dispatch; threads end, whatever the client does.
- *PTY call*: a truncated output is never a success; a killed child is a
  timeout; the call returns and leaves no thread behind.
- *Pipes*: an answer is whole or empty; no full pipe wedges a child; the call returns
  and its child is gone, whatever descendants hold.
- *HTTP client*: a response is judged to where it ends, never on what a broken or silent
  connection left of it; a complete answer is taken; the call is bounded.
- *Request handling*: no request reaches a backend unauthenticated or
  unvalidated; each gets exactly one response.
- *Pool*: capacity is constant until shutdown, and shutdown ends the process.
- *Startup*: a server that should ask for a token has one; starting ends, in a server or a failure
  (the probe of tmuxlet apart), and what replaces the login shell's environment is reported.
- *Token file*: a restart finds the token it wrote; a generated secret is written
  where nobody else can have opened it; nobody's copy of it becomes invalid.
- *Configuration*: what `validate` accepts never makes `resolve` fail.

## 2. Modules

| Module | Models |
|---|---|
| `SlotPool` | Abstract: what `max_concurrent` promises, as sets of holders |
| `ChainDispatch` | The chain walk of any number of request threads |
| `MCChainDispatch` | Its instances for TLC |
| `ChainDispatchProofs` | Theorems about it, checked by TLAPS: types, slots, caps |
| `ChainWalkProofs` | More of them: the refinement of `SlotPool`, health, reports, the budget |
| `SseStream` | Abstract: what the client of a stream reads |
| `StreamResponse`, `MCStreamResponse` | One streamed request, four parties |
| `StreamResponseProofs` | That it implements `SseStream` |
| `PtyRun`, `MCPtyRun` | One call in a pseudo-terminal, with its threads |
| `PtyRunProofs` | All its safety properties, checked by TLAPS |
| `ChildRun`, `MCChildRun` | One call of a plain child (`cli.rs`, `tmuxlet.rs`), with its threads |
| `ChildRunProofs` | All its safety properties, checked by TLAPS |
| `HttpCall`, `MCHttpCall` | One call of an HTTP upstream (`api.rs`, `http_client.rs`) |
| `HttpCallProofs` | All its safety properties, checked by TLAPS |
| `Routing` | What `validate` accepts, and the walks a model leads to (pure operators) |
| `RoutingProofs` | What the first guarantees of the second |
| `EnvCapture` | The capture of the login shell's environment |
| `TokenFile` | The bearer token: reuse, repair, generation; edits and clients |
| `ServerPool`, `MCServerPool` | The workers, the checks of a request, the signal handler |
| `ServerLife`, `MCServerLife` | `run_serve` over restarts and crashes: composes the four above |
| `ServerLifeProofs` | All its safety properties: who is served, where secrets are written, whose answer a request gets |

`ChainDispatch` refines `SlotPool` (`Pool`, `ImplementsPool`) and
`StreamResponse` refines `SseStream` (`Sse`, `ImplementsSseStream`), each by
INSTANCE under a refinement mapping. `StreamResponse` and `PtyRun` stand on the
two sides of `ChainDispatch`: the dispatch thread of the first runs a walk
(abstracted to its three outcomes), and a walk's call may be a run of the second
or of `ChildRun` or `HttpCall` (abstracted to an outcome and a deadline with an overrun).
`ServerLife` instantiates `EnvCapture`, `TokenFile` and `ServerPool` on its own
variables and runs them in the order of `run_serve`; `ServerPool` extends `Routing`, and
the dispatch it abstracts to an outcome is `ChainDispatch`'s walk. A definition named
after another with a suffix, under a comment that starts with "Variant", is a
plausible wrong version of it; no specification uses one. They are there
to show that each property fails when the code is wrong.

### ChainDispatch

A walker is one request's thread of control: a worker, or the dispatch thread
of a stream. `active`, `failures` and `coolingUntil` are the two shared maps;
the rest are a walker's locals. Each action takes at most one of the two locks,
as the code does, so every interleaving of critical sections is one of the
model's.

| Action | Code |
|---|---|
| `RequestDirect`, `RequestRouted` | `handle_chat` up to `run_chain` or `classify_task` |
| `ClassifierBusy`, `CallClassifier`, `Classified` | `classify_task`: no slot; a slot and a call; its reply, then the guard dropped |
| `SnapshotCooling` | one candidate of the snapshot (the lock is taken per candidate) |
| `SkipBudget`, `SkipCooling`, `SkipBusy` | the three ways to leave a leg untried, in the code's order |
| `ReserveLeg`, `CallLeg` | the slot; then the second reading of the clock, the clamp and the call |
| `LegSucceeds`, `LegFails` | the call's result and its health record |
| `NextLeg`, `ReturnWinner`, `ReturnErrors` | the end of an iteration or of `run_chain`: the error pushed, the guard dropped |
| `Panic` | a panic in a call, unwinding to `handle_recovering` or `dispatch_or_panic_error` |
| `Respond` | the response; the walk's locals die |
| `Tick` | time |

Error messages are abstracted to the four kinds `cooldown_for` and `allow_empty`
tell apart. `last_error` and `last_latency_ms` are left out: only the report of
`/v1/backends` reads them. `active` has an entry for each capped backend from
the start, where the code inserts it on first use; a missing entry and a zero
mean the same to everyone who reads it.

*Time.* The clock is an integer. It advances while every thread waits for
something: for a request, for the classifier, for a call that may go on (`CallMayGoOn`),
or (at most one unit) around the slot mutex. The last is what
lets the budget run out between the check (`http.rs:739`) and the clamp
(`http.rs:777`); other local steps take no time. The overflow of a duration
(`checked_add` on a budget or cooldown near the end of the clock's range) is not
modelled: the clock is unbounded there. The budget's unset case is `Budgeted =
FALSE`.

*Calls.* A call's result is chosen freely; an HTTP backend never reports
`Timeout` (its read timeout is a `Spawn` error, `api.rs:120`), and a child
reports it only once its time is up. A zero timeout is no deadline for an HTTP
backend (`http_client.rs:106`). A positive one does not bound every call either: the HTTP
deadline is per read (`http_client.rs:150`), and a descendant may hold a call in a
pseudo-terminal (`pty.rs:119`). `Punctual` is the set of backends whose calls are over
within `Overrun` of their timeout (the plain children, by `ChildRun`'s kill and graces; a
pseudo-terminal whose child heeds the hangup and leaves nobody behind; no HTTP backend
that may drip); a call of another backend may outlast its deadline for as long as it likes.

### StreamResponse

`dispatcher`, `coordinator` and `worker` are the three threads of the code,
`result` and `body` its two channels; `wire` is the socket, with room for
`WireCap` frames. Dropping `tx` is `coordinator = "done"`; dropping `rx` is
`worker = "free"`. How tiny_http buffers chunks before it writes them is
external and not modelled: a frame is written when it is read from the channel.

### PtyRun

`caller` follows `run_in_pty` statement by statement from the write of the
prompt on; `reader` and `watchdog` are its threads. The child writes, forks,
exits or hangs as it likes. `blocks` says that the prompt is larger than the tty
takes and that the child never reads. The kill is one hangup, its result ignored
(`pty.rs:106`): it ends a child that `heeds` it and no other. `statusKept` says that the
child's status is there to be waited for; where it is not (a server started with SIGCHLD
ignored), `WaitFails` is the early return of `pty.rs:116`, which drops `done_tx` and joins
neither thread. The tty mode calls are left out.

### ChildRun

The two backends with pipes make the same call: spawn, an optional thread that
feeds stdin (`feeder`), a thread per output stream (`drainer`), polling
(`PollSeesExit`, `PollFails`, `PollOverdue`), `Kill` and `Wait`, a grace for each stream
(`Collect`, `GraceExpires`), and a decision (`Decide`). `reaped` says that the child has
been waited for. `PollFails` is the error of `try_wait`: the child has ended, and its status
is gone. They differ in the deadline,
which tmuxlet gets 5 s later and the model leaves to choice, and in that
tmuxlet's output is read as a report (`Tmuxlet`, `report`). A child's `program` is
the order in which it reads and writes; pipes hold `PipeCap` pieces, and reading an
empty pipe or writing a full one waits. A child that does not behave
may hang or exit anywhere in its program. The grace may expire while a drainer
still has something to read, not only when somebody holds the pipe.

### HttpCall

Bytes are counted in pieces: a head of `HeadLen`, a completion of `JsonLen`. The
upstream chooses its response once (declared length, chunked or not, status, JSON)
and then sends at any pace, more or less than it declared, and ends the connection
cleanly, without close_notify, with a reset, or never. `UsizeMax` is the largest
`usize`, and one of the lengths an upstream may declare; the variant
`DeclaredEndWrapping` is the plain addition that `checked_add` replaces. Reading is
`Read` (one `read`, and the check of the cap), `TakeFramed`, `TakeAtEnd`, `ReadFails`
and `ReadTimesOut`; `Parsed` is `parse_response` with the classification of
`dispatch`, on the body that `dechunk` leaves (`Decoded`). TLS is abstracted to the ways it
may end or fail. Whether a body is a completion is part of the upstream's choice; that only
all of its pieces, and no more, are a JSON text is the grammar of JSON (`IsJson`, external).
No property rests on that alone: `JudgedAtBoundary` is about which bytes are judged, whatever
they say.

### Routing, ServerPool

A request is its method, path, origin, body class, model and bearer token, each as far
as a check tells requests apart. `Check` is `handle` up to the body (`EarlyStatus` has the
early answers in the code's order), `ReadBody` the body and `handle_chat` up to the
dispatch, `DispatchEnds` the answer. Each answer carries the CORS decision of the worker
that gives it, which is the thread-local's: that is what `OwnAnswer` is about. The queue,
`unblock` and the automatic 500 for a dropped request are tiny_http's, modelled from how
`serve` and `main.rs` use them (version 0.12: `unblock` queues an entry that one receiver
takes). A worker that panics is `Panic`, at any point of a request.

### EnvCapture, TokenFile, ServerLife

`EnvCapture` follows `capture_shell`: the shell prints `EnvSize` pieces into a pipe of
`PipeCap`, may exit early, hang, or start something that keeps the pipe. `TokenFile` follows
`auth::resolve`, with one action for each call that touches the disk, so that a crash
or an edit may come between any two of them. The 64 bytes of the token are written whole
or not at all. Tokens are numbered as they are generated. `open` says that others may read the
file, `exposed` that they once could; `shown` and `edited` are history: what clients have
read, and whether the user has changed the file since this start read or wrote it. A file
that cannot be read is replaced, as the code does (`auth.rs:60`); its clients are then
not owed anything.

`ServerLife` keeps of a dead process only the disk and what clients know. The environment
is forgotten once the token is resolved (only the backends read it afterwards), and the
shell's leftovers once it is captured: this cuts the states, not the behaviours that the
properties see. After the bind policy a configured tmuxlet is probed: `ProbeStarts` runs
`tmuxlet --help`, and `Probed` follows when both its pipes have ended and so has the process,
in either order (`probe` is what has not been seen yet); nothing bounds the wait. Without a
tmuxlet backend, or with a tmuxlet that cannot be run, it is `Unprobed`. `BindFails` may come
with any setting (the address may be taken). One server runs at a time.

## 3. Runs

| Run | Instance | Shows |
|---|---|---|
| `chain_slots` | 2 threads, a capped CLI backend (cap 1) that is also the classifier, an HTTP backend behind it, cooldowns of 1 to 5, clock to 2 | the safety of slots, health and errors; `ImplementsPool` |
| `chain_budget` | the same without an HTTP backend, budget 2, clock to 4, fairness | `BudgetBound`, `WalkEnds`, `CapacityReturns`, where every backend is punctual |
| `chain_zero_timeout` | the same with an HTTP backend | `BudgetBound` fails: finding 1 |
| `chain_stale_snapshot` | as `chain_slots` | `SkipOnlyWhileOthersRemain` fails: finding 2 |
| `stream_response` | 4 keepalives, a wire of 2 frames, fairness | all of `StreamResponse` |
| `pty_run` | 2 pieces of output, tidy descendants, a child that heeds the hangup or not, a status kept or lost, fairness | all of `PtyRun` |
| `pty_held_slave` | descendants may stay | `CallReturns` fails: finding 3 |
| `child_run` | every program of up to 3 steps, a prompt of 2 pieces, pipes of 1, fairness | all of `ChildRun` |
| `http_call` | head and body of 2 pieces, `usize` to 7, a cap of 6, reads of up to 3, fairness | all of `HttpCall` |
| `server_life` | 2 starts under each of 3 settings, one with a tmuxlet to probe, 1 edit, 1 worker, 2 requests of 2 kinds, 1 signal, any crash, fairness | all of `ServerLife` |
| `env_silent` | an environment of 2 pieces, a pipe of 1 | `NoSilentFallback` fails: finding 4 |
| `server_shutdown` | 2 workers, 1 request, 1 signal, fairness | `SignalEndsServer` fails: finding 5 |

*Why the bounds are enough.* Two threads are the least that race for a slot, for a health record
or between a snapshot and its use, and no action involves three; a cap of 1 is the tightest. A
chain of two has a leg with one behind it and a last one. The constants of the cooldown are scaled
so that the cap of the backoff (5) lies between its base (2) doubled once and twice, and the other
cooldowns below: the third timeout in a row is the one that the cap cuts, and `FailureMax` 3 lets
the count saturate there. The limit of the shift (from the fifth failure on) is out of the run's
reach; `CooldownForBounds` and `CooldownsBounded` have it. A clock to 2 lets a cooldown begin, run
and expire between a snapshot and its use; a clock to 4 is the budget, one overrun, and one unit
more, which is where `BudgetBound` would fail. Four keepalives and a wire of two are enough for
either to fill before, during or after the other's part. Two pieces of output make a whole, a
partial and an empty output. Three steps of a child are enough to fill one pipe while another
waits, in every order, since a pipe holds one piece and the prompt has two. A body of two pieces
and a cap of six make lengths below, at and beyond the declared one, the cap and the largest
`usize`, and reads that jump over each. Two starts are a server and its successor, which is all
that a crash separates; one edit falls between any two steps of either; two requests are one and
the next on the same worker, which is what a stale thread-local or a lost worker takes. The three
settings are a server that must refuse to start, one with the token file and a tmuxlet to probe,
and one with the variable from a login shell. One worker suffices for these safety properties,
none of which relates two workers; that a server ends after as many signals as it has workers is
checked for one worker only, and `server_shutdown` has the two that its own property is about. The
theorems cover every value of the constants.

Deadlock is checked in the runs of `ChainDispatch`, where an idle thread can
always take a request. The other runs stop by design when their request or call
is over.

Symmetry between threads is used in the two runs of `ChainDispatch` that check
safety only.

### Fairness

- `ChainDispatch`: each thread that can step does (`WF_vars(Step(w))`). This
  includes that a call returns, which is the duty of each backend: the plain child
  is killed, the PTY call is `PtyRun`'s `CallReturns`, an HTTP read has a deadline
  (each read, not the whole call: an upstream that drips bytes can hold a call as
  long as it likes; `chain_budget` has no HTTP backend for this reason too). No
  request need arrive, and the clock need not advance.
- `StreamResponse`: the three threads run, the dispatch ends, and a client that stays
  reads. Nothing in the server bounds a write to a client that
  stays and does not read: such a client pins a worker, and the properties are not
  claimed for it.
- `PtyRun`: the server's threads run and the watchdog's time comes. Nothing is
  assumed of the child. `TidySpec` adds that a descendant releases the tty some day,
  infinitely often possible (`SF`), since forks and releases may alternate while the
  child lives; `FairSpec`, without it, is the run that fails.
- `ChildRun`: the server's threads run, the graces end. A child that behaves gets on
  with its program and its deadline need not come; for another the deadline does come.
  Nothing is assumed of descendants. So `ChildNotBlocked` is not won by the kill.
- `HttpCall`: the calling thread runs and a read's deadline passes while the upstream is
  silent. Nothing is assumed of the upstream, which may send for ever: it is the cap that
  ends the call then, and `CallReturns` is claimed for calls with a deadline and a cap.
- `ServerLife`: the process's threads run (`Main`, the shell's reader, each worker),
  the watchdog and the grace come. Nothing is assumed of the shell, of the probed tmuxlet
  (so `PhasesEnd` says that a start ends or is kept by it for ever), of users, clients or
  crashes. That a worker's step is fair says that a request's body arrives or
  breaks off (no deadline of this server's bounds it) and that its dispatch ends, which
  the modules above show or assume.

## 4. Findings

1. **Zero timeout** (`http.rs:778`). A budget that expires between the check and the
   clamp gives an HTTP leg a timeout of zero, which `connect` takes for none.
   The read is then unbounded, against the header of `http_client.rs` and
   the spec's "min(leg_timeout, remaining_budget)".
2. **Stale snapshot** (`http.rs:751`). The spec lets a cooling leg be skipped
   only while a non-cooling one remains; the code asks a snapshot from the
   start of the walk, which others have since overtaken.
3. **Unbounded join** (`pty.rs:119`). The reader is joined without a limit; a
   descendant that keeps the tty blocks the call past its timeout.
4. **Silent empty environment** (`env.rs:151`). When the shell has exited and something it
   started holds its stdout, two seconds later the environment is the empty map. Nothing is
   reported, against the comment at `env.rs:21`; the backends have no `PATH`.
5. **One worker per signal** (`main.rs:351`). `unblock()` is called once per signal and wakes
   one `recv`. `serve` joins all workers (16 or more by default), so that the server goes on with
   one worker less, against the comment at `main.rs:346`.

Also seen, and not the subject of a run: a stream abandoned before a keepalive returns
at `http.rs:642` without the closing log line that `http.rs:407` promises per request.

## 5. Proofs

`ChainDispatchProofs` proves, for any finite set of threads, any backends,
chains, caps and times (the three assumptions of `ChainDispatch`: finitely many
threads; what `config::validate` guarantees; times are naturals):

- `TypeCorrect`: `Spec => []TypeOK`;
- `SlotCounterExact`: the shared counter is the number of live guards;
- `NoSlotOutsideCalls`: a thread that is not around a call owns no slot;
- `CapHolds`: never more than `max_concurrent` calls under way;
- `BusyOnlyWhileEngaged`: the converse. While a backend turns calls away, exactly
  `max_concurrent` threads are at a call to it, about to make it or just back from
  it, so no rejection is owed to a leaked slot.

`CapRespected` is not inductive: it speaks of where threads are, the code of
counters. `IInv` bridges the two. `GuardMatchesCall` says that a thread owns exactly
the guard of the call it is at (none if that backend is uncapped), so the calls under way to a
backend are a subset of its guards' owners; `SlotsAccounted` says that the
counter is the number of owners; `CountWithinCap` bounds the counter. `LegInRange`
keeps the current backend defined. `TakeSlotCounts` and `DropSlotCounts` are
the two steps that matter: they show by the cardinality of the owners' set
that the count moves by one and that the saturating subtraction never
saturates. Each of the other actions leaves counters and guards alone
(`SlotsUntouched`) and is typed by a lemma about its walk.

`ChainWalkProofs` goes on from `IInv`, under the same assumptions:

- `SlotsImplementPool`: the walk implements `SlotPool`. The proof abstracts a step
  of the code to what it does to the guards (`SlotStep`: nothing, one taken below
  the cap, one dropped), and each of the three is a step of the pool or a stutter.
- `HealthFollowsCalls`, `CoolingIffFailing`, `CooldownsBounded`: here a step is
  abstracted to what it does to the health records (`HealthStep`: a call of some
  thread finishes and records its result at the same instant, or the records stay
  and time does not go back). `HealthOnlyFromCalls` follows directly; the other two are
  inductive on top of it, the last with `CooldownForBounds`.
- `EveryLegReported`, `NeverCoolingAlone`: from a second invariant, `RInv`. In the
  middle of a walk there is one error for each leg passed, it names that leg, and
  one of kind "cooling" is backed by the walk's snapshot: that leg was in it, and one behind
  it was not. The last part is what `CoolingNeverDecidesAlone` lacks to be
  inductive: it speaks of the end of the walk, when the snapshot has been used up.
- `BudgetHolds`: `BudgetBound` for configurations without HTTP backends (`Api = {}`) whose
  backends are all punctual (`Punctual = Backend`). The invariant is `BInv`: between the check of
  the budget and the clamp the clock is at most one unit past the check, which was in time, so
  that a call's deadline is within the budget even if its timeout comes out zero (`ClampInTime`).
  With an HTTP backend that same zero is no deadline, and `chain_zero_timeout` shows the bound
  broken.
- `BudgetOverrunCause`, `PunctualWalksKeepBudget`: what is left of the bound in every
  configuration. What takes a walk beyond it is time that passes in a call which nothing of
  this server bounds (`CallOutlasts`): an HTTP call whose timeout came out zero (finding 1), or
  a call, given a deadline within the budget, to a backend that is not punctual (finding 3, or a
  dripping upstream). No skip, clamp, lock or order of legs does it. A walk whose own chain is of
  punctual child processes keeps its budget, whatever the other walks do.
- `WalksAdvance`: each step of a walk raises `Progress` (five for a leg passed, plus the place
  within the leg), which is at most five per leg and five more, and nothing another thread
  does changes a walk's `Stand`.

`HttpCallProofs` proves `TypeOK`, `JudgedAtBoundary` (`HttpJudgedAtBoundary`), `CompleteIsTaken`
and `CapEnforced` under `HttpAssumption` (sizes are positive, and a head with its body fits
`usize`). What the four lack to be inductive is `BufferFollows`: until the call returns, the
buffer is all that was received and within the cap, and nothing has been received before the
request is written. So a body ends by its declared length only when that much is there
(`FramedWithin`), and what is judged at the end of the connection is all that was sent; a complete
answer is not passed over by any of the other ways to return. That a part of a completion is never
taken for one follows with the grammar of JSON, which `IsJson` states and nothing here proves.
`HttpCallAdvances`: under a cap a call takes three steps at most and one per piece up to the cap
and one read more, also from an upstream that sends for ever.

`RoutingProofs` proves of any configuration that `validate` accepts: every walk that a model
leads to is a non-empty sequence of configured backends (`ValidWalks`), which is the
assumption `ConfigAssumption` of `ChainDispatch` and makes both `Err` branches of `resolve`
dead code; and every class of a router leads to a chain or a backend
(`RoutesLeadSomewhere`), so that indexing `routes` at `http.rs:475` does not panic.

`PtyRunProofs` proves `TypeOK`, `NoTruncatedSuccess`, `KillIsTimeout` and `NoThreadLeft` (the last
two where the status is kept: the early return of a failed wait gives up both) for any length of
output, whether or not the child heeds the hangup. None is inductive alone: they speak of the end
of the call, and the invariant says what the caller has waited for until then (`CallerHasWaited`),
that the reader ends with everything written and nobody left to write (`ReaderHasAll`), and that
the watchdog raises its flag before it kills (`FlagBeforeKill`), so that the caller, which reads
the flag after joining the watchdog, cannot miss it. `PtyDelayedByProcessesOnly`: if no thread of
a call that has not returned can take a step, all output so far is collected, and the call waits
for a process of the backend: a descendant of an ended child that holds the tty, or a child that
has survived the hangup. The three threads never wait for each other. It needs `WatchdogCovers`
besides: when the watchdog has ended, the child has ended too, or has survived the hangup.
`PtyCallAdvances`: the threads take at most twelve steps and one per piece.

`ChildRunProofs` proves `TypeOK`, `NoTruncatedAnswer` and `ChildReaped` for programs, prompts and
pipes of any length. The strengthening is that a stream which a drainer has sent is whole:
the pipe was empty and nobody held it (`SentIsWhole`), so that what the caller has of stdout is
nothing or all (`StdoutWhole`), whichever of the graces expires.
`ChildNeverDeadlocked`: a running child can take its next step, or a thread of the server is about
to make it possible. The drainers and the writer of the prompt are threads of their own, and no
pipe that the child waits on, full or empty, is without the one that serves it. `ChildTrafficEnds`:
each of their steps uses up a piece of what `Remaining` counts.

`StreamResponseProofs` proves `TypeOK` and that `StreamResponse` implements `SseStream`
(`StreamImplementsSse`), for any number of keepalives and any room on the wire. What the client
has read is not enough to tell what it may read next: the invariant (`InOrder`) looks at the
frames it has read, those on the wire, those in the channel and those not sent yet as one row,
and says which frame stands at each place (`FrameAt`: keepalives, then one answer, then
the end) and how long the row is at each stage of the coordinator. Every step
moves frames within the row or appends to it what comes next; the client's step takes the first
one that it has not read, which is then a step of `SseStream`.
The same row gives `NothingIsLost`: what has been read, what is on the wire and in the channel and
what is not sent yet are together the keepalives, one whole answer and at most the end. And
`StreamHeldByIdleClientOnly`: a stream that nobody can move is held by a client that stays and
does not read, the answer being complete; `StreamEnds`: after the dispatch, each step brings
the measure `Left` (frames by how far they have to go, plus the stages) down.

`ServerLifeProofs` proves all safety properties of `ServerLife` (`TypeOK`, `NeverOpen`,
`SecretUnexposed`, `OwnAnswer`, `FileTokenAccepted`) over any number of starts, crashes, edits,
workers and requests, under `LifeAssumption`, `LoadedAssumption` and `TokenAssumption` (a user who
writes the file does not hit upon the 32 random bytes of a generated token). `StartInv` says how
the token and the resolver's progress belong together (`TokenInv`), and that an inode the resolver
has created and not yet filled is private and still the one at the path (`FileInv`). `PoolInv`
says that nothing of an earlier process is left when serving begins (`PoolFresh`) and that a
worker past the checks holds the CORS decision and the admission of the very request it serves
(`WorkerFollows`): the thread-local is written for each request before any answer to it is given.
`ShownInv`, for `FileTokenAccepted`, relates what clients have read to the file, and the file to
the stage of the resolver: what has been read is what the file says, and unless somebody edited
it, it holds nothing usable when a token is about to be generated and is removed. `TypeOK`
includes where requests are; it needs `InOnePlace` (no request is queued twice or with two
workers), since a worker that answers must leave no other entry behind. `OnlySignalsEndWorkers`
counts workers: those that have ended (`Gone`) and the unblocks still in the queue (`Pending`) are
together the signals handled. A worker that receives one takes it from the queue by a bijection of
places (`PendingReceived`); serving, panics included, ends nobody (`ServingEndsNobody`). So a
server with fewer signals than workers has a worker left (`FewSignalsLeaveAWorker`, for finitely
many workers), which is the safety half of `RequestsAnswered` and, with one signal, of finding 5.
`OnlyHolderLosesEnvironment` is the converse of finding 4: the capture takes the empty environment
only while a background process of the shell holds the pipe; otherwise what the server has is all
that the shell printed, or the process's own. It rests on `ReaderInv` (a reader that has sent has
read all there will be).

*Towards liveness.* Neither fairness nor `ENABLED` is within the prover's reach, and what is proved
of progress is what liveness rests on besides fairness: who can be waited for
(`PtyDelayedByProcessesOnly`, `ChildNeverDeadlocked`, `StreamHeldByIdleClientOnly`,
`BusyOnlyWhileEngaged`, `FewSignalsLeaveAWorker`) and that no step is taken for ever
(`PtyCallAdvances`, `ChildTrafficEnds`, `HttpCallAdvances`, `StreamEnds`,
`WalksAdvance`). `CanMove`, `ThreadReady` and `ChildReady` write out the guards of the
threads' actions and of the next step of the child's program; on the instances of the runs TLC
finds them equal to `ENABLED` of those. That fair threads then do end is left to TLC: `CallReturns`,
`ThreadsEnd`, `ChildNotBlocked`, `ClientServed`, `WalkEnds`, `CapacityReturns`,
`RequestsAnswered`, `PhasesEnd`.

Only model-checked: liveness, for the reason just given, and what the five runs show that
expect a violation. Every safety property of a passing run is proved; `BudgetBound` only where
every backend is a punctual child process, since it fails otherwise (finding 1). Of the
safety of cooldowns, the limit of the backoff's shift (a count of five and more) is beyond the
run and in the proofs only.

## 6. Plan, and what is not modelled

Next: one abstract call of a backend (it answers once, whole or with an error, and leaves nothing
behind) that `PtyRun`, `ChildRun` and `HttpCall` implement; algorithms against reference
definitions (`dechunk`, `glob_match`, `clean_output`, `parse_class`, `nearest`), and two servers
that start at once.

Not modelled:

- two servers that start at once (the loser of the race for the token file also loses the
  port, unless it listens on another);
- the parsing of the configuration, `expand_paths`, `lint` and the unknown-key suggestions:
  pure, run once;
- the wire format, logging and the contents of the pages, `GET /v1/backends` included:
  formatting, read by nobody inside the server;
- the command line, `--validate` and `--check-backends`: sequential, and they share no state
  with a server;
- what the probe of tmuxlet finds: it chooses between argv and stdin for the prompt, and
  `ChildRun` has both;
- building requests and TLS configurations (`request_bytes`, `tls_config_for`), argument lists
  of child processes, and the texts of errors.
