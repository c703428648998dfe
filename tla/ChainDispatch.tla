---------------------------- MODULE ChainDispatch ----------------------------
(***************************************************************************)
(* The walk of a fallback chain (src/src/http.rs): request threads that    *)
(* classify a task, snapshot which backends are cooling, and try the legs  *)
(* of a chain in order, under a per-backend concurrency cap, a per-backend *)
(* cooldown and a time budget for the whole walk.  The threads share two   *)
(* mutex-protected maps and nothing else: `active` (U-20) and `health`     *)
(* (P-9).  Each action takes at most one of the two locks, as the code     *)
(* does, so an action is one critical section and the local steps near it. *)
(***************************************************************************)
EXTENDS Integers, Sequences, FiniteSets

CONSTANTS
  Walker,         \* threads that run a chain: workers, or a stream's dispatcher
  Backend,
  NoBackend,      \* an Option<ActiveSlot> that is None; a router that is absent
  Chains,         \* the legs a model name resolves to
  Classifier,     \* the router's classifier backend, NoBackend without a router
  RouteTargets,   \* the chains the router's classes lead to
  FallbackTarget, \* the chain of the router's fallback_class
  Capped,         \* backends with Some(max_concurrent)
  Cap,            \* Cap[b]: its value
  AllowEmpty,     \* backends with allow_empty
  Api,            \* HTTP backends, for which a zero timeout is no timeout
  LegTimeout,     \* LegTimeout[b]: timeout_override, else the request timeout
  Punctual,       \* backends whose timed calls end near their deadline (see MayWait)
  Overrun,        \* Overrun[b]: how long past it a call to such a b may take
  CooldownOn,     \* server.cooldown
  CooldownSecs,   \* server.cooldown_secs
  TimeoutBase,    \* 30 in the code
  TimeoutMax,     \* 300 in the code
  RefusedSecs,    \* 5 in the code
  FailureMax,     \* u32::MAX, where consecutive_failures saturates
  Budgeted,       \* chain_budget_secs is set
  Budget,         \* its value
  MaxTime         \* bound of the clock

ASSUME WalkerAssumption == IsFiniteSet(Walker)

ASSUME ConfigAssumption ==
  /\ NoBackend \notin Backend
  /\ Chains \subseteq Seq(Backend) \ {<<>>}
  /\ Classifier \in Backend \cup {NoBackend}
  /\ RouteTargets \subseteq Chains
  /\ Classifier # NoBackend => FallbackTarget \in RouteTargets
  /\ Capped \subseteq Backend
  /\ Cap \in [Capped -> Nat]
  /\ AllowEmpty \subseteq Backend
  /\ Api \subseteq Backend

ASSUME TimeAssumption ==
  /\ LegTimeout \in [Backend -> Nat]
  /\ Punctual \subseteq Backend
  /\ Overrun \in [Backend -> Nat]
  /\ CooldownOn \in BOOLEAN
  /\ {CooldownSecs, TimeoutBase, TimeoutMax, RefusedSecs} \subseteq Nat
  /\ TimeoutBase <= TimeoutMax
  /\ FailureMax \in Nat \ {0}
  /\ Budgeted \in BOOLEAN
  /\ Budget \in Nat
  /\ MaxTime \in Nat

VARIABLES
  now,           \* the monotonic clock
  active,        \* State.active: in-flight count of each capped backend
  failures,      \* State.health: consecutive_failures
  coolingUntil,  \* State.health: cooling_until, Never for None
  pc,            \* where each walker is
  chain,         \* the candidate names of the walk
  leg,           \* index of the leg, or of the candidate being snapshotted
  cooling,       \* legs the snapshot found cooling
  errors,        \* one BackendError per leg given up
  slot,          \* the ActiveSlot guard the walker owns
  startedAt,     \* `start` of run_chain
  mark           \* clamp: when the slot was taken; calling: the call's deadline

health == <<failures, coolingUntil>>
walk == <<chain, leg, cooling, errors, startedAt>>
vars == <<now, active, failures, coolingUntil, pc, chain, leg, cooling, errors,
          slot, startedAt, mark>>

Never == -1      \* cooling_until = None
NoDeadline == -1 \* a call that nothing bounds

\* How a walker stands: waiting for a request, in classify_task, in run_chain.
PC == {"idle", "classify", "classifying", "snapshot", "leg", "clamp", "calling",
       "failed", "won", "answer"}

\* Why a leg was given up: never tried (three ways), or tried and failed.
Why == {"budget", "cooling", "busy", "tried"}

\* What a call can fail with, as far as cooldown_for tells errors apart.
Failure == {"timeout", "refused", "blank", "other"}

Output == {"text", "blank"}

TypeOK ==
  /\ now \in Nat
  /\ active \in [Capped -> Nat]
  /\ failures \in [Backend -> Nat]
  /\ coolingUntil \in [Backend -> Nat \cup {Never}]
  /\ pc \in [Walker -> PC]
  /\ chain \in [Walker -> Seq(Backend)]
  /\ leg \in [Walker -> Nat]
  /\ cooling \in [Walker -> SUBSET Nat]
  /\ errors \in [Walker -> Seq([backend : Backend, why : Why])]
  /\ slot \in [Walker -> Capped \cup {NoBackend}]
  /\ startedAt \in [Walker -> Nat]
  /\ mark \in [Walker -> Nat \cup {NoDeadline}]

Init ==
  /\ now = 0
  /\ active = [b \in Capped |-> 0]
  /\ failures = [b \in Backend |-> 0]
  /\ coolingUntil = [b \in Backend |-> Never]
  /\ pc = [w \in Walker |-> "idle"]
  /\ chain = [w \in Walker |-> <<>>]
  /\ leg = [w \in Walker |-> 1]
  /\ cooling = [w \in Walker |-> {}]
  /\ errors = [w \in Walker |-> <<>>]
  /\ slot = [w \in Walker |-> NoBackend]
  /\ startedAt = [w \in Walker |-> 0]
  /\ mark = [w \in Walker |-> 0]
-----------------------------------------------------------------------------
(* Concurrency slots (U-20). *)

Lesser(a, b) == IF a <= b THEN a ELSE b

\* Variant: off by one.
HasRoomForOneMore(b) == b \in Capped => active[b] <= Cap[b]

HasRoom(b) == b \in Capped => active[b] < Cap[b]

\* ActiveSlot::try_acquire, once HasRoom: nothing to take on an uncapped backend.
TakeSlot(w, b) ==
  IF b \in Capped
  THEN /\ active' = [active EXCEPT ![b] = @ + 1]
       /\ slot' = [slot EXCEPT ![w] = b]
  ELSE UNCHANGED <<active, slot>>

\* Variant: the guard is forgotten without its decrement.
DropSlotLeak(w) ==
  /\ slot' = [slot EXCEPT ![w] = NoBackend]
  /\ UNCHANGED active

\* Variant: an explicit decrement beside the guard's own.
DropSlotTwice(w) ==
  IF slot[w] # NoBackend
  THEN /\ active' = [active EXCEPT ![slot[w]] = @ - 2]
       /\ slot' = [slot EXCEPT ![w] = NoBackend]
  ELSE UNCHANGED <<active, slot>>

\* ActiveSlot::drop, on return and on unwinding alike.
DropSlot(w) ==
  IF slot[w] # NoBackend
  THEN /\ active' = [active EXCEPT ![slot[w]] = IF @ = 0 THEN 0 ELSE @ - 1]
       /\ slot' = [slot EXCEPT ![w] = NoBackend]
  ELSE UNCHANGED <<active, slot>>
-----------------------------------------------------------------------------
(* Health records (P-9). *)

\* Variant: the backoff is not capped.
CooldownForUncapped(kind, n) ==
  CASE kind = "timeout" -> TimeoutBase * <<1, 2, 4, 8, 16>>[1 + Lesser(n - 1, 4)]
    [] kind = "refused" -> RefusedSecs
    [] OTHER -> CooldownSecs

\* 30s doubling with each consecutive timeout up to the cap, a flat 5s for a
\* refused connection, cooldown_secs for the rest.
CooldownFor(kind, n) ==
  CASE kind = "timeout" ->
         Lesser(TimeoutBase * <<1, 2, 4, 8, 16>>[1 + Lesser(n - 1, 4)], TimeoutMax)
    [] kind = "refused" -> RefusedSecs
    [] OTHER -> CooldownSecs

\* Variant: success resets the count and leaves the cooldown.
RecordSuccessStillCooling(b) ==
  /\ failures' = [failures EXCEPT ![b] = 0]
  /\ UNCHANGED coolingUntil

RecordSuccess(b) ==
  /\ failures' = [failures EXCEPT ![b] = 0]
  /\ coolingUntil' = [coolingUntil EXCEPT ![b] = Never]

RecordFailure(b, kind) ==
  /\ failures' = [failures EXCEPT ![b] = Lesser(@ + 1, FailureMax)]
  /\ coolingUntil' = IF CooldownOn
                     THEN [coolingUntil EXCEPT ![b] = now + CooldownFor(kind, failures'[b])]
                     ELSE coolingUntil
-----------------------------------------------------------------------------
(* A request and its route. *)

\* run_chain begins: `start` is read and the snapshot has no entry yet.
BeginWalk(w, c) ==
  /\ pc' = [pc EXCEPT ![w] = "snapshot"]
  /\ chain' = [chain EXCEPT ![w] = c]
  /\ leg' = [leg EXCEPT ![w] = 1]
  /\ cooling' = [cooling EXCEPT ![w] = {}]
  /\ errors' = [errors EXCEPT ![w] = <<>>]
  /\ startedAt' = [startedAt EXCEPT ![w] = now]

\* run_chain's locals die with the request.
ForgetWalk(w) ==
  /\ pc' = [pc EXCEPT ![w] = "idle"]
  /\ chain' = [chain EXCEPT ![w] = <<>>]
  /\ leg' = [leg EXCEPT ![w] = 1]
  /\ cooling' = [cooling EXCEPT ![w] = {}]
  /\ errors' = [errors EXCEPT ![w] = <<>>]
  /\ startedAt' = [startedAt EXCEPT ![w] = 0]
  /\ mark' = [mark EXCEPT ![w] = 0]

\* A request whose model is a chain, a backend or falls back to default_chain.
RequestDirect(w) ==
  /\ pc[w] = "idle"
  /\ \E c \in Chains : BeginWalk(w, c)
  /\ UNCHANGED <<now, active, health, slot, mark>>

\* A request whose model is a router: classify_task comes first.
RequestRouted(w) ==
  /\ pc[w] = "idle"
  /\ Classifier # NoBackend
  /\ pc' = [pc EXCEPT ![w] = "classify"]
  /\ UNCHANGED <<now, active, health, slot, walk, mark>>

\* The classifier has no slot left: the fallback class, without a call.
ClassifierBusy(w) ==
  /\ pc[w] = "classify"
  /\ ~HasRoom(Classifier)
  /\ BeginWalk(w, FallbackTarget)
  /\ UNCHANGED <<now, active, health, slot, mark>>

\* Variant: the classifier's call takes no slot.
CallClassifierUncounted(w) ==
  /\ pc[w] = "classify"
  /\ pc' = [pc EXCEPT ![w] = "classifying"]
  /\ UNCHANGED <<now, active, health, slot, walk, mark>>

CallClassifier(w) ==
  /\ pc[w] = "classify"
  /\ HasRoom(Classifier)
  /\ TakeSlot(w, Classifier)
  /\ pc' = [pc EXCEPT ![w] = "classifying"]
  /\ UNCHANGED <<now, health, walk, mark>>

\* The reply names a class, or it names none or the call failed, and the class
\* is the fallback: some route target either way.  No health is recorded.
Classified(w) ==
  /\ pc[w] = "classifying"
  /\ \E c \in RouteTargets : BeginWalk(w, c)
  /\ DropSlot(w)
  /\ UNCHANGED <<now, health, mark>>
-----------------------------------------------------------------------------
(* The walk. *)

CurrentBackend(w) == chain[w][leg[w]]

IsCooling(w, b) == CooldownOn /\ coolingUntil[b] # Never /\ coolingUntil[b] >= startedAt[w]

\* One iteration of the snapshot: the health lock is taken per candidate.
SnapshotCooling(w) ==
  /\ pc[w] = "snapshot"
  /\ cooling' = [cooling EXCEPT ![w] =
                   IF IsCooling(w, CurrentBackend(w)) THEN @ \cup {leg[w]} ELSE @]
  /\ IF leg[w] < Len(chain[w])
     THEN /\ leg' = [leg EXCEPT ![w] = @ + 1]
          /\ UNCHANGED pc
     ELSE /\ leg' = [leg EXCEPT ![w] = 1]
          /\ pc' = [pc EXCEPT ![w] = "leg"]
  /\ UNCHANGED <<now, active, health, chain, errors, slot, startedAt, mark>>

AtLeg(w) == pc[w] = "leg" /\ leg[w] <= Len(chain[w])

BudgetSpent(w) == Budgeted /\ now >= startedAt[w] + Budget

\* Variant: a leg behind counts as one ahead.
NonCoolingAnywhere(w) == \E j \in 1 .. Len(chain[w]) : j \notin cooling[w]

\* The snapshot, not the live health, decides whether a leg may be skipped.
NonCoolingAhead(w) == \E j \in leg[w] + 1 .. Len(chain[w]) : j \notin cooling[w]

SkipForCooling(w) == leg[w] \in cooling[w] /\ NonCoolingAhead(w)

GiveUpLeg(w, why) ==
  /\ errors' = [errors EXCEPT ![w] = Append(@, [backend |-> CurrentBackend(w), why |-> why])]
  /\ leg' = [leg EXCEPT ![w] = @ + 1]

SkipBudget(w) ==
  /\ AtLeg(w)
  /\ BudgetSpent(w)
  /\ GiveUpLeg(w, "budget")
  /\ UNCHANGED <<now, active, health, pc, chain, cooling, slot, startedAt, mark>>

SkipCooling(w) ==
  /\ AtLeg(w)
  /\ ~BudgetSpent(w)
  /\ SkipForCooling(w)
  /\ GiveUpLeg(w, "cooling")
  /\ UNCHANGED <<now, active, health, pc, chain, cooling, slot, startedAt, mark>>

\* Variant: the rejection is not reported.
SkipBusySilently(w) ==
  /\ AtLeg(w)
  /\ ~BudgetSpent(w)
  /\ ~SkipForCooling(w)
  /\ ~HasRoom(CurrentBackend(w))
  /\ leg' = [leg EXCEPT ![w] = @ + 1]
  /\ UNCHANGED <<now, active, health, pc, chain, cooling, errors, slot, startedAt, mark>>

\* Variant: the rejection counts as a failure of the backend.
SkipBusyCooled(w) ==
  /\ AtLeg(w)
  /\ ~BudgetSpent(w)
  /\ ~SkipForCooling(w)
  /\ ~HasRoom(CurrentBackend(w))
  /\ GiveUpLeg(w, "busy")
  /\ RecordFailure(CurrentBackend(w), "other")
  /\ UNCHANGED <<now, active, pc, chain, cooling, slot, startedAt, mark>>

\* A saturated leg is Busy: no call, and no health record either.
SkipBusy(w) ==
  /\ AtLeg(w)
  /\ ~BudgetSpent(w)
  /\ ~SkipForCooling(w)
  /\ ~HasRoom(CurrentBackend(w))
  /\ GiveUpLeg(w, "busy")
  /\ UNCHANGED <<now, active, health, pc, chain, cooling, slot, startedAt, mark>>

ReserveLeg(w) ==
  /\ AtLeg(w)
  /\ ~BudgetSpent(w)
  /\ ~SkipForCooling(w)
  /\ HasRoom(CurrentBackend(w))
  /\ TakeSlot(w, CurrentBackend(w))
  /\ pc' = [pc EXCEPT ![w] = "clamp"]
  /\ mark' = [mark EXCEPT ![w] = now]
  /\ UNCHANGED <<now, health, walk>>

\* The timeout of a leg: its own, cut to what is left of the budget when the
\* clock is read a second time; it may come out zero.
Remaining(w) == IF now < startedAt[w] + Budget THEN startedAt[w] + Budget - now ELSE 0

\* Variant: the leg keeps its own timeout.
TimeoutUnclamped(w) == LegTimeout[CurrentBackend(w)]

Timeout(w) ==
  IF Budgeted THEN Lesser(Remaining(w), LegTimeout[CurrentBackend(w)])
  ELSE LegTimeout[CurrentBackend(w)]

\* A zero timeout ends a child process at once, and is no deadline to
\* http_client::connect.
CallDeadline(w) ==
  IF CurrentBackend(w) \in Api /\ Timeout(w) = 0 THEN NoDeadline ELSE now + Timeout(w)

CallLeg(w) ==
  /\ pc[w] = "clamp"
  /\ mark' = [mark EXCEPT ![w] = CallDeadline(w)]
  /\ pc' = [pc EXCEPT ![w] = "calling"]
  /\ UNCHANGED <<now, active, health, slot, walk>>

\* The call returned: blank output is a success of an allow_empty backend only.
LegSucceeds(w, output) ==
  /\ pc[w] = "calling"
  /\ output = "blank" => CurrentBackend(w) \in AllowEmpty
  /\ RecordSuccess(CurrentBackend(w))
  /\ pc' = [pc EXCEPT ![w] = "won"]
  /\ mark' = [mark EXCEPT ![w] = 0]
  /\ UNCHANGED <<now, active, slot, walk>>

\* The call returned an error, or blank output that is not allowed.  Only child
\* processes report Timeout: an HTTP read timeout is Spawn-class, so "other".
LegFails(w, kind) ==
  /\ pc[w] = "calling"
  /\ kind = "timeout" => CurrentBackend(w) \notin Api /\ now >= mark[w]
  /\ kind = "blank" => CurrentBackend(w) \notin AllowEmpty
  /\ RecordFailure(CurrentBackend(w), kind)
  /\ pc' = [pc EXCEPT ![w] = "failed"]
  /\ mark' = [mark EXCEPT ![w] = 0]
  /\ UNCHANGED <<now, active, slot, walk>>

\* Variant: the failed leg is tried again.
NextLegRetry(w) ==
  /\ pc[w] = "failed"
  /\ DropSlot(w)
  /\ pc' = [pc EXCEPT ![w] = "leg"]
  /\ UNCHANGED <<now, health, walk, mark>>

\* The iteration ends: its error is pushed and its slot guard dropped.
NextLeg(w) ==
  /\ pc[w] = "failed"
  /\ GiveUpLeg(w, "tried")
  /\ DropSlot(w)
  /\ pc' = [pc EXCEPT ![w] = "leg"]
  /\ UNCHANGED <<now, health, chain, cooling, startedAt, mark>>

\* Variant: the guard outlives run_chain and goes with the response.
ReturnWinnerHolding(w) ==
  /\ pc[w] = "won"
  /\ pc' = [pc EXCEPT ![w] = "answer"]
  /\ UNCHANGED <<now, active, health, slot, walk, mark>>

\* run_chain returns the winner, and the guard of its leg is dropped.
ReturnWinner(w) ==
  /\ pc[w] = "won"
  /\ DropSlot(w)
  /\ pc' = [pc EXCEPT ![w] = "answer"]
  /\ UNCHANGED <<now, health, walk, mark>>

\* No leg is left: run_chain returns every error.
ReturnErrors(w) ==
  /\ pc[w] = "leg"
  /\ leg[w] > Len(chain[w])
  /\ pc' = [pc EXCEPT ![w] = "answer"]
  /\ UNCHANGED <<now, active, health, slot, walk, mark>>

\* Variant: a counter without a guard, which unwinding does not give back.
PanicLeaking(w) ==
  /\ pc[w] \in {"classifying", "calling"}
  /\ slot' = [slot EXCEPT ![w] = NoBackend]
  /\ ForgetWalk(w)
  /\ UNCHANGED <<now, active, health>>

\* A panic in a call unwinds to handle_recovering (or to
\* dispatch_or_panic_error) and drops the guard; nothing is recorded.
Panic(w) ==
  /\ pc[w] \in {"classifying", "calling"}
  /\ DropSlot(w)
  /\ ForgetWalk(w)
  /\ UNCHANGED <<now, health>>

\* The response is written and the thread takes another request.
Respond(w) ==
  /\ pc[w] = "answer"
  /\ ForgetWalk(w)
  /\ UNCHANGED <<now, active, health, slot>>
-----------------------------------------------------------------------------
(* Time.  It passes while a thread waits: for a request, for the classifier,  *)
(* for a call, and for at most one unit around the slot mutex (clamp).  A     *)
(* call with a deadline to a punctual backend returns at most Overrun after   *)
(* it.  A plain child is punctual: it is killed, and its pipes have a grace.  *)
(* One in a pseudo-terminal is unless its processes hold the tty or survive   *)
(* the hangup; an HTTP upstream is unless it drips: its deadline is for each  *)
(* read, and the sum has none.                                                *)

CallMayGoOn(w) ==
  \/ mark[w] = NoDeadline
  \/ CurrentBackend(w) \notin Punctual
  \/ now < mark[w] + Overrun[CurrentBackend(w)]

MayWait(w) ==
  \/ pc[w] \in {"idle", "classifying"}
  \/ pc[w] = "clamp" /\ now = mark[w]
  \/ pc[w] = "calling" /\ CallMayGoOn(w)

Tick ==
  /\ now < MaxTime
  /\ \A w \in Walker : MayWait(w)
  /\ now' = now + 1
  /\ UNCHANGED <<active, health, pc, walk, slot, mark>>
-----------------------------------------------------------------------------
Receive(w) == RequestDirect(w) \/ RequestRouted(w)

Step(w) ==
  \/ ClassifierBusy(w) \/ CallClassifier(w) \/ Classified(w)
  \/ SnapshotCooling(w)
  \/ SkipBudget(w) \/ SkipCooling(w) \/ SkipBusy(w) \/ ReserveLeg(w)
  \/ CallLeg(w)
  \/ (\E output \in Output : LegSucceeds(w, output))
  \/ (\E kind \in Failure : LegFails(w, kind))
  \/ NextLeg(w) \/ ReturnWinner(w) \/ ReturnErrors(w)
  \/ Panic(w) \/ Respond(w)

Next == Tick \/ \E w \in Walker : Receive(w) \/ Step(w)

Spec == Init /\ [][Next]_vars

\* A thread that has something to do does it, and every call returns (each
\* backend bounds its own call); no request need ever arrive.
Fairness == \A w \in Walker : WF_vars(Step(w))

FairSpec == Spec /\ Fairness
-----------------------------------------------------------------------------
(* What must hold. *)

Walking == {"snapshot", "leg", "clamp", "calling", "failed", "won", "answer"}

\* The calls to b under way, a chain's and the classifier's alike.
Serving(b) == {w \in Walker : \/ pc[w] = "calling" /\ CurrentBackend(w) = b
                              \/ pc[w] = "classifying" /\ Classifier = b}

\* U-20: never more than max_concurrent calls to a backend are under way, in
\* whatever order requests race for it, fall through it, or panic in it.
CapRespected == \A b \in Capped : Cardinality(Serving(b)) <= Cap[b]

\* The shared counter is exactly the number of live ActiveSlot guards: a lost
\* decrement would saturate the backend until restart, a double one exceed the
\* cap, and the saturating_sub in drop would hide it.
SlotsAccounted ==
  \A b \in Capped : active[b] = Cardinality({w \in Walker : slot[w] = b})

\* A thread that has its answer (or waits for a request) owns no slot: the
\* client that sees its response can be served again at once.
IdleOwnsNoSlot ==
  \A w \in Walker : pc[w] \in {"idle", "classify", "snapshot", "leg", "answer"}
                       => slot[w] = NoBackend

\* The 503 body accounts for every leg, in the order of the chain: the errors
\* are one for each leg behind the current one, whatever path each took.
ErrorsCoverLegs ==
  \A w \in Walker : pc[w] \in Walking \ {"snapshot"} =>
     /\ Len(errors[w]) = leg[w] - 1
     /\ \A j \in 1 .. Len(errors[w]) : errors[w][j].backend = chain[w][j]

\* P-9, as the snapshot decides it: a leg skipped for cooling always has a leg
\* behind it that was not, so no walk fails on cooldowns alone.
CoolingNeverDecidesAlone ==
  \A w \in Walker : pc[w] = "answer" =>
     \A j \in 1 .. Len(errors[w]) : errors[w][j].why = "cooling" =>
        \E k \in j + 1 .. Len(chain[w]) : k <= Len(errors[w]) => errors[w][k].why # "cooling"

\* A backend cools exactly while its last finished call failed: success ends a
\* cooldown and resets the count together, whichever threads raced to record.
CoolingMeansFailing ==
  \A b \in Backend : coolingUntil[b] # Never <=> CooldownOn /\ failures[b] > 0

LongestCooldown ==
  CHOOSE n \in {TimeoutMax, RefusedSecs, CooldownSecs} :
    \A m \in {TimeoutMax, RefusedSecs, CooldownSecs} : m <= n

\* No run of failures benches a backend for longer than the cap of the backoff
\* (or the configured cooldown, where that is longer).
CooldownBounded == \A b \in Backend : coolingUntil[b] <= now + LongestCooldown

\* U-20 / P-9: only a finished call touches a backend's health. Skips, Busy
\* rejections, classifier calls and panics never cool a backend nor clear it.
HealthOnlyFromCalls ==
  [][\A b \in Backend :
       <<failures[b], coolingUntil[b]>>' # <<failures[b], coolingUntil[b]>> =>
         \E w \in Walker : /\ pc[w] = "calling" /\ CurrentBackend(w) = b
                           /\ pc'[w] \in {"won", "failed"}]_vars

\* P-9 in the words of the optimization spec: a cooling leg is skipped only while
\* one of the legs behind it is not cooling.  The code asks its snapshot.
SkipOnlyWhileOthersRemain ==
  [][\A w \in Walker :
       (pc[w] = "leg" /\ leg'[w] = leg[w] + 1 /\ errors'[w][leg[w]].why = "cooling") =>
         \E j \in leg[w] + 1 .. Len(chain[w]) : coolingUntil[chain[w][j]] < now]_vars

\* P-6: a walk is over when its budget is, but for what the last call may
\* overrun its own timeout.
BudgetBound ==
  Budgeted => \A w \in Walker : pc[w] \in Walking =>
     \E b \in Backend : now <= startedAt[w] + Budget + Overrun[b]

\* Every request that is being served gets its answer.
WalkEnds == \A w \in Walker : pc[w] # "idle" ~> pc[w] = "idle"

\* A saturated backend gets room again: no slot is lost for good.
CapacityReturns == \A b \in Capped : ~HasRoom(b) ~> HasRoom(b)

\* U-20 as a whole: the counter and its guards implement the slot pool.
Pool == INSTANCE SlotPool WITH
          holders <- [b \in Capped |-> {w \in Walker : slot[w] = b}]
ImplementsPool == Pool!Spec
=============================================================================
