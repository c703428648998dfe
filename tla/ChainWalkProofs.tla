--------------------------- MODULE ChainWalkProofs ---------------------------
(***************************************************************************)
(* More of what holds of every chain and configuration: the slots          *)
(* implement the pool, and only finished calls touch a backend's health,   *)
(* whose cooldowns are bounded.                                            *)
(***************************************************************************)
EXTENDS ChainDispatchProofs

-----------------------------------------------------------------------------
(* Slots: the refinement of SlotPool. *)

\* How a step may change the guards: not at all, one taken, or one dropped.
Takes(w, b) == slot[w] = NoBackend /\ HasRoom(b) /\ slot' = [slot EXCEPT ![w] = b]
Drops(w) == slot[w] # NoBackend /\ slot' = [slot EXCEPT ![w] = NoBackend]

SlotStep ==
  \/ slot' = slot
  \/ \E w \in Walker, b \in Capped : Takes(w, b)
  \/ \E w \in Walker : Drops(w)

\* Reserving changes the guards by at most one that is taken.
LEMMA TakeSlotStep ==
  ASSUME NEW w \in Walker, NEW b, slot[w] = NoBackend, HasRoom(b), TakeSlot(w, b)
  PROVE  SlotStep
BY DEF TakeSlot, SlotStep, Takes

\* Dropping changes the guards by at most one that is given back.
LEMMA DropSlotStep ==
  ASSUME NEW w \in Walker, DropSlot(w)
  PROVE  SlotStep
BY DEF DropSlot, SlotStep, Drops

\* Every step of the walk is such a step.
LEMMA NextSlotStep == IInv /\ [Next]_vars => SlotStep
<1> SUFFICES ASSUME IInv, [Next]_vars PROVE SlotStep
  OBVIOUS
<1>1. ASSUME NEW w \in Walker, Receive(w) PROVE SlotStep
  BY <1>1 DEF Receive, RequestDirect, RequestRouted, SlotStep
<1>2. ASSUME NEW w \in Walker, CallClassifier(w) PROVE SlotStep
  <2>1. slot[w] = NoBackend
    BY <1>2 DEF CallClassifier, IInv, GuardMatchesCall
  <2> QED
    BY <1>2, <2>1, TakeSlotStep DEF CallClassifier
<1>3. ASSUME NEW w \in Walker, ReserveLeg(w) PROVE SlotStep
  <2>1. slot[w] = NoBackend
    BY <1>3 DEF ReserveLeg, AtLeg, IInv, GuardMatchesCall
  <2> QED
    BY <1>3, <2>1, TakeSlotStep DEF ReserveLeg
<1>4. ASSUME NEW w \in Walker,
             Classified(w) \/ NextLeg(w) \/ ReturnWinner(w) \/ Panic(w)
      PROVE  SlotStep
  BY <1>4, DropSlotStep DEF Classified, NextLeg, ReturnWinner, Panic
<1>5. ASSUME NEW w \in Walker,
             \/ ClassifierBusy(w) \/ SnapshotCooling(w) \/ SkipBudget(w)
             \/ SkipCooling(w) \/ SkipBusy(w) \/ CallLeg(w)
             \/ \E output \in Output : LegSucceeds(w, output)
             \/ \E kind \in Failure : LegFails(w, kind)
             \/ ReturnErrors(w) \/ Respond(w)
      PROVE  SlotStep
  BY <1>5 DEF ClassifierBusy, SnapshotCooling, SkipBudget, SkipCooling, SkipBusy,
              CallLeg, LegSucceeds, LegFails, ReturnErrors, Respond, SlotStep
<1>6. CASE Tick
  BY <1>6 DEF Tick, SlotStep
<1>7. CASE UNCHANGED vars
  BY <1>7 DEF vars, SlotStep
<1> QED
  BY <1>1, <1>2, <1>3, <1>4, <1>5, <1>6, <1>7 DEF Next, Step

\* The refinement mapping.
PoolHolders == [b \in Capped |-> {w \in Walker : slot[w] = b}]

\* A step that takes a guard is Acquire, one that drops it Release.
LEMMA SlotStepRefines ==
  ASSUME IInv, IInv', SlotStep
  PROVE  Pool!Next \/ UNCHANGED PoolHolders
<1>0. /\ NoBackend \notin Capped
      /\ slot \in [Walker -> Capped \cup {NoBackend}]
      /\ slot' \in [Walker -> Capped \cup {NoBackend}]
  BY ConfigAssumption DEF IInv, TypeOK
<1>1. CASE slot' = slot
  BY <1>1 DEF PoolHolders
<1>2. ASSUME NEW w \in Walker, NEW b \in Capped, Takes(w, b)
      PROVE  Pool!Acquire(w, b)
  <2>1. slot[w] = NoBackend /\ HasRoom(b) /\ slot' = [slot EXCEPT ![w] = b]
    BY <1>2 DEF Takes
  <2>2. \A c \in Capped : w \notin PoolHolders[c]
    BY <1>0, <2>1 DEF PoolHolders
  <2>3. Cardinality(PoolHolders[b]) < Cap[b]
    BY <2>1 DEF PoolHolders, HasRoom, IInv, SlotsAccounted
  <2>4. PoolHolders' = [PoolHolders EXCEPT ![b] = @ \cup {w}]
    <3>1. ASSUME NEW c \in Capped
          PROVE  {v \in Walker : slot'[v] = c}
                   = IF c = b THEN PoolHolders[b] \cup {w} ELSE PoolHolders[c]
      BY <1>0, <2>1 DEF PoolHolders
    <3> QED
      BY <3>1 DEF PoolHolders
  <2>5. Pool!Cardinality(PoolHolders[b]) = Cardinality(PoolHolders[b])
    BY DEF Pool!Cardinality, Cardinality
  <2> QED
    BY <2>2, <2>3, <2>4, <2>5 DEF Pool!Acquire, PoolHolders
<1>3. ASSUME NEW w \in Walker, Drops(w)
      PROVE  \E b \in Capped : Pool!Release(w, b)
  <2>1. slot[w] \in Capped /\ slot' = [slot EXCEPT ![w] = NoBackend]
    BY <1>0, <1>3 DEF Drops
  <2>2. w \in PoolHolders[slot[w]]
    BY <2>1 DEF PoolHolders
  <2>3. PoolHolders' = [PoolHolders EXCEPT ![slot[w]] = @ \ {w}]
    <3>1. ASSUME NEW c \in Capped
          PROVE  {v \in Walker : slot'[v] = c}
                   = IF c = slot[w] THEN PoolHolders[slot[w]] \ {w} ELSE PoolHolders[c]
      BY <1>0, <2>1 DEF PoolHolders
    <3> QED
      BY <3>1 DEF PoolHolders
  <2> QED
    BY <2>1, <2>2, <2>3 DEF Pool!Release, PoolHolders
<1> QED
  BY <1>1, <1>2, <1>3 DEF SlotStep, Pool!Next

\* U-20 as a whole: whatever the walks do, the map of counters and the guards
\* behave as a pool of slots that nobody overfills or holds twice.
THEOREM SlotsImplementPool == Spec => ImplementsPool
<1>1. Init => Pool!Init
  <2> SUFFICES ASSUME Init PROVE PoolHolders = [b \in Capped |-> {}]
    BY DEF Pool!Init, PoolHolders
  <2>1. ASSUME NEW b \in Capped PROVE {w \in Walker : slot[w] = b} = {}
    BY ConfigAssumption DEF Init
  <2> QED
    BY <2>1 DEF PoolHolders
<1>2. IInv /\ IInv' /\ [Next]_vars => [Pool!Next]_PoolHolders
  BY NextSlotStep, SlotStepRefines
<1>3. Spec => []IInv
  BY InductiveInvariant
<1> QED
  BY <1>1, <1>2, <1>3, PTL DEF Spec, ImplementsPool, Pool!Spec, PoolHolders
-----------------------------------------------------------------------------
(* Health records. *)

\* A finished call of w records its result for the backend it is at.
Succeeds(w) == RecordSuccess(CurrentBackend(w)) /\ pc'[w] = "won"
Fails(w) == \E kind \in Failure : RecordFailure(CurrentBackend(w), kind) /\ pc'[w] = "failed"

HealthStep ==
  \/ UNCHANGED health /\ now' \in Nat /\ now <= now'
  \/ \E w \in Walker : /\ pc[w] = "calling" /\ CurrentBackend(w) \in Backend
                       /\ now' = now
                       /\ Succeeds(w) \/ Fails(w)

\* Every step records a finished call, or leaves the records alone while time
\* does not go back.
LEMMA NextHealthStep == IInv /\ [Next]_vars => HealthStep
<1> SUFFICES ASSUME IInv, [Next]_vars PROVE HealthStep
  OBVIOUS
<1>0. now \in Nat /\ pc \in [Walker -> PC]
  BY DEF IInv, TypeOK
<1>1. ASSUME NEW w \in Walker, NEW output \in Output, LegSucceeds(w, output)
      PROVE  HealthStep
  <2>1. CurrentBackend(w) \in Backend
    BY <1>1, CurrentBackendType DEF LegSucceeds, IInv
  <2> QED
    BY <1>0, <1>1, <2>1 DEF LegSucceeds, HealthStep, Succeeds
<1>2. ASSUME NEW w \in Walker, NEW kind \in Failure, LegFails(w, kind)
      PROVE  HealthStep
  <2>1. CurrentBackend(w) \in Backend
    BY <1>2, CurrentBackendType DEF LegFails, IInv
  <2> QED
    BY <1>0, <1>2, <2>1 DEF LegFails, HealthStep, Fails
<1>3. ASSUME NEW w \in Walker,
             \/ Receive(w) \/ ClassifierBusy(w) \/ CallClassifier(w) \/ Classified(w)
             \/ SnapshotCooling(w) \/ SkipBudget(w) \/ SkipCooling(w) \/ SkipBusy(w)
             \/ ReserveLeg(w) \/ CallLeg(w) \/ NextLeg(w) \/ ReturnWinner(w)
             \/ ReturnErrors(w) \/ Panic(w) \/ Respond(w)
      PROVE  HealthStep
  <2>1. UNCHANGED <<now, health>>
    BY <1>3 DEF Receive, RequestDirect, RequestRouted, ClassifierBusy, CallClassifier,
                Classified, SnapshotCooling, SkipBudget, SkipCooling, SkipBusy, ReserveLeg,
                CallLeg, NextLeg, ReturnWinner, ReturnErrors, Panic, Respond
  <2> QED
    BY <1>0, <2>1 DEF HealthStep
<1>4. CASE Tick
  BY <1>0, <1>4 DEF Tick, HealthStep
<1>5. CASE UNCHANGED vars
  BY <1>0, <1>5 DEF vars, health, HealthStep
<1>6. ASSUME NEW w \in Walker, Step(w) PROVE HealthStep
  BY <1>1, <1>2, <1>3, <1>6 DEF Step
<1> QED
  BY <1>3, <1>4, <1>5, <1>6 DEF Next

\* A success or a failure of one backend leaves every other record alone.
LEMMA RecordOne ==
  ASSUME IInv, NEW w \in Walker, Succeeds(w) \/ Fails(w),
         NEW b \in Backend, b # CurrentBackend(w)
  PROVE  failures'[b] = failures[b] /\ coolingUntil'[b] = coolingUntil[b]
BY DEF Succeeds, Fails, RecordSuccess, RecordFailure, IInv, TypeOK

\* Skips, Busy rejections, classifier calls and panics touch no record: the
\* backend whose record changes is one whose call has just finished.
THEOREM HealthFollowsCalls == Spec => HealthOnlyFromCalls
<1>1. ASSUME IInv, [Next]_vars, NEW b \in Backend,
             <<failures[b], coolingUntil[b]>>' # <<failures[b], coolingUntil[b]>>
      PROVE  \E w \in Walker : /\ pc[w] = "calling" /\ CurrentBackend(w) = b
                               /\ pc'[w] \in {"won", "failed"}
  <2>1. CASE UNCHANGED health
    BY <1>1, <2>1 DEF health
  <2>2. ASSUME NEW w \in Walker, pc[w] = "calling", Succeeds(w) \/ Fails(w)
        PROVE  CurrentBackend(w) = b /\ pc'[w] \in {"won", "failed"}
    BY <1>1, <2>2, RecordOne DEF Succeeds, Fails
  <2> QED
    BY <1>1, <2>1, <2>2, NextHealthStep DEF HealthStep
<1> DEFINE OnlyCalls ==
      \A b \in Backend :
        <<failures[b], coolingUntil[b]>>' # <<failures[b], coolingUntil[b]>> =>
          \E w \in Walker : /\ pc[w] = "calling" /\ CurrentBackend(w) = b
                            /\ pc'[w] \in {"won", "failed"}
<1>2. IInv /\ [Next]_vars => [OnlyCalls]_vars
  BY <1>1
<1>3. HealthOnlyFromCalls <=> [][OnlyCalls]_vars
  BY DEF HealthOnlyFromCalls
<1> QED
  BY <1>2, <1>3, InductiveInvariant, PTL DEF Spec

\* The records after the call of w to b failed.
LEMMA FailureRecord ==
  ASSUME IInv, NEW w \in Walker, Fails(w), CurrentBackend(w) \in Backend
  PROVE  LET b == CurrentBackend(w)
         IN  /\ failures'[b] \in Nat \ {0}
             /\ ~CooldownOn => coolingUntil'[b] = coolingUntil[b]
             /\ CooldownOn => /\ coolingUntil'[b] \in Nat
                              /\ \/ coolingUntil'[b] <= now + TimeoutMax
                                 \/ coolingUntil'[b] \in {now + RefusedSecs, now + CooldownSecs}
<1> DEFINE b == CurrentBackend(w)
<1>1. /\ now \in Nat /\ failures \in [Backend -> Nat]
      /\ coolingUntil \in [Backend -> Nat \cup {Never}] /\ b \in Backend
  BY DEF IInv, TypeOK
<1>2. PICK kind \in Failure : RecordFailure(b, kind)
  BY DEF Fails
<1>3. failures'[b] \in Nat /\ failures'[b] > 0
  BY <1>1, <1>2, RecordFailureTyped DEF RecordFailureType
<1>4. CASE CooldownOn
  <2>1. coolingUntil'[b] = now + CooldownFor(kind, failures'[b])
    BY <1>1, <1>2, <1>4 DEF RecordFailure
  <2>2. /\ CooldownFor(kind, failures'[b]) \in Nat
        /\ \/ CooldownFor(kind, failures'[b]) <= TimeoutMax
           \/ CooldownFor(kind, failures'[b]) \in {RefusedSecs, CooldownSecs}
    BY <1>3, CooldownForBounds
  <2>3. TimeoutMax \in Nat /\ RefusedSecs \in Nat /\ CooldownSecs \in Nat
    BY TimeAssumption
  <2> QED
    BY <1>1, <1>3, <1>4, <2>1, <2>2, <2>3
<1>5. CASE ~CooldownOn
  BY <1>2, <1>3, <1>5 DEF RecordFailure
<1> QED
  BY <1>4, <1>5, TimeAssumption

\* A backend cools exactly while its last finished call failed, whatever
\* overlapping calls raced to record.
THEOREM CoolingIffFailing == Spec => []CoolingMeansFailing
<1>1. Init => CoolingMeansFailing
  BY DEF Init, CoolingMeansFailing, Never
<1>2. IInv /\ CoolingMeansFailing /\ [Next]_vars => CoolingMeansFailing'
  <2> SUFFICES ASSUME IInv, CoolingMeansFailing, [Next]_vars, NEW b \in Backend
               PROVE  coolingUntil'[b] # Never <=> CooldownOn /\ failures'[b] > 0
    BY DEF CoolingMeansFailing
  <2>1. coolingUntil[b] # Never <=> CooldownOn /\ failures[b] > 0
    BY DEF CoolingMeansFailing
  <2>2. CASE UNCHANGED health
    BY <2>1, <2>2 DEF health
  <2>3. ASSUME NEW w \in Walker, Succeeds(w) \/ Fails(w), b # CurrentBackend(w)
        PROVE  coolingUntil'[b] # Never <=> CooldownOn /\ failures'[b] > 0
    BY <2>1, <2>3, RecordOne
  <2>4. ASSUME NEW w \in Walker, Succeeds(w), b = CurrentBackend(w)
        PROVE  coolingUntil'[b] # Never <=> CooldownOn /\ failures'[b] > 0
    <3>1. failures'[b] = 0 /\ coolingUntil'[b] = Never
      BY <2>4 DEF Succeeds, RecordSuccess, IInv, TypeOK
    <3> QED
      BY <3>1
  <2>5. ASSUME NEW w \in Walker, Fails(w), b = CurrentBackend(w)
        PROVE  coolingUntil'[b] # Never <=> CooldownOn /\ failures'[b] > 0
    <3>1. /\ failures'[b] \in Nat \ {0}
          /\ ~CooldownOn => coolingUntil'[b] = coolingUntil[b]
          /\ CooldownOn => coolingUntil'[b] \in Nat
      BY <2>5, FailureRecord
    <3> QED
      BY <2>1, <3>1, TimeAssumption DEF Never
  <2> QED
    BY <2>2, <2>3, <2>4, <2>5, NextHealthStep DEF HealthStep
<1> QED
  BY <1>1, <1>2, InductiveInvariant, PTL DEF Spec

\* The longest of the three cooldowns is one of them, and none is longer.
LEMMA LongestCooldownBounds ==
  /\ LongestCooldown \in Nat
  /\ TimeoutMax <= LongestCooldown
  /\ RefusedSecs <= LongestCooldown
  /\ CooldownSecs <= LongestCooldown
<1> DEFINE S == {TimeoutMax, RefusedSecs, CooldownSecs}
<1>1. TimeoutMax \in Nat /\ RefusedSecs \in Nat /\ CooldownSecs \in Nat
  BY TimeAssumption
<1>2. \E n \in S : \A m \in S : m <= n
  BY <1>1
<1>3. LongestCooldown \in S /\ \A m \in S : m <= LongestCooldown
  BY <1>2 DEF LongestCooldown
<1> QED
  BY <1>1, <1>3

\* No run of failures, of whatever length, benches a backend for longer than
\* the cap of the backoff or the configured cooldown.
THEOREM CooldownsBounded == Spec => []CooldownBounded
<1>1. Init => CooldownBounded
  BY LongestCooldownBounds DEF Init, CooldownBounded, Never
<1>2. IInv /\ CooldownBounded /\ [Next]_vars => CooldownBounded'
  <2> SUFFICES ASSUME IInv, CooldownBounded, [Next]_vars, NEW b \in Backend
               PROVE  coolingUntil'[b] <= now' + LongestCooldown
    BY DEF CooldownBounded
  <2>0. now \in Nat /\ coolingUntil[b] \in Nat \cup {Never} /\ LongestCooldown \in Nat
    BY LongestCooldownBounds DEF IInv, TypeOK
  <2>1. coolingUntil[b] <= now + LongestCooldown
    BY DEF CooldownBounded
  <2>2. CASE UNCHANGED health /\ now' \in Nat /\ now <= now'
    BY <2>0, <2>1, <2>2 DEF health, Never
  <2>3. ASSUME NEW w \in Walker, now' = now, Succeeds(w) \/ Fails(w), b # CurrentBackend(w)
        PROVE  coolingUntil'[b] <= now' + LongestCooldown
    BY <2>1, <2>3, RecordOne
  <2>4. ASSUME NEW w \in Walker, now' = now, Succeeds(w), b = CurrentBackend(w)
        PROVE  coolingUntil'[b] <= now' + LongestCooldown
    <3>1. coolingUntil'[b] = Never
      BY <2>4 DEF Succeeds, RecordSuccess, IInv, TypeOK
    <3> QED
      BY <2>0, <2>4, <3>1 DEF Never
  <2>5. ASSUME NEW w \in Walker, now' = now, Fails(w), b = CurrentBackend(w)
        PROVE  coolingUntil'[b] <= now' + LongestCooldown
    <3>1. /\ ~CooldownOn => coolingUntil'[b] = coolingUntil[b]
          /\ CooldownOn => /\ coolingUntil'[b] \in Nat
                           /\ \/ coolingUntil'[b] <= now + TimeoutMax
                              \/ coolingUntil'[b] \in {now + RefusedSecs, now + CooldownSecs}
      BY <2>5, FailureRecord
    <3> QED
      BY <2>0, <2>1, <2>5, <3>1, LongestCooldownBounds, TimeAssumption
  <2> QED
    BY <2>2, <2>3, <2>4, <2>5, NextHealthStep DEF HealthStep
<1> QED
  BY <1>1, <1>2, InductiveInvariant, PTL DEF Spec
-----------------------------------------------------------------------------
(* The report of a walk. *)

Trying == Walking \ {"snapshot"}

\* The error of the leg j of w's walk is the error of that leg; and if the leg was
\* skipped for cooling, the snapshot found it cooling and one behind it not.
LegReported(w, j) ==
  /\ errors[w][j].backend = chain[w][j]
  /\ errors[w][j].why = "cooling" =>
       /\ j \in cooling[w]
       /\ \E k \in j + 1 .. Len(chain[w]) : k \notin cooling[w]

\* There is one error for each leg behind the current one.
Reported(w) ==
  /\ pc[w] = "snapshot" => errors[w] = <<>>
  /\ pc[w] \in Trying => /\ Len(errors[w]) = leg[w] - 1
                         /\ \A j \in 1 .. Len(errors[w]) : LegReported(w, j)

RInv == \A w \in Walker : Reported(w)

\* A step that leaves w's walk alone leaves its report alone.
LEMMA ReportKept ==
  ASSUME NEW w \in Walker, Reported(w), pc'[w] = pc[w] \/ (pc[w] \in Trying /\ pc'[w] # "snapshot"),
         errors'[w] = errors[w], chain'[w] = chain[w], leg'[w] = leg[w],
         cooling'[w] = cooling[w]
  PROVE  Reported(w)'
BY DEF Reported, LegReported, Trying

\* Giving up a leg with a good reason appends the error of that leg.
LEMMA ReportExtended ==
  ASSUME IInv, NEW w \in Walker, Reported(w), pc[w] \in Trying,
         leg[w] \in 1 .. Len(chain[w]), NEW why \in Why, GiveUpLeg(w, why),
         why = "cooling" => SkipForCooling(w),
         chain' = chain, cooling' = cooling, pc'[w] \in Trying
  PROVE  Reported(w)'
<1> DEFINE e == [backend |-> CurrentBackend(w), why |-> why]
<1>1. /\ errors \in [Walker -> Seq([backend : Backend, why : Why])]
      /\ leg \in [Walker -> Nat] /\ chain[w] \in Seq(Backend)
  BY DEF IInv, TypeOK
<1>2. errors'[w] = Append(errors[w], e) /\ leg'[w] = leg[w] + 1
  BY <1>1 DEF GiveUpLeg
<1>3. CurrentBackend(w) = chain[w][leg[w]] /\ CurrentBackend(w) \in Backend
  BY <1>1 DEF CurrentBackend
<1>4. Len(errors[w]) = leg[w] - 1 /\ \A j \in 1 .. Len(errors[w]) : LegReported(w, j)
  BY DEF Reported
<1>5. errors[w] \in Seq([backend : Backend, why : Why]) /\ e \in [backend : Backend, why : Why]
  BY <1>1, <1>3
<1>6. /\ Len(errors'[w]) = Len(errors[w]) + 1
      /\ \A j \in 1 .. Len(errors[w]) : errors'[w][j] = errors[w][j]
      /\ errors'[w][Len(errors[w]) + 1] = e
  <2> HIDE DEF e
  <2> QED
    BY <1>2, <1>5
<1>7. Len(errors'[w]) = leg'[w] - 1
  BY <1>1, <1>2, <1>4, <1>6
<1>8. ASSUME NEW j \in 1 .. Len(errors[w]) PROVE LegReported(w, j)'
  <2>1. LegReported(w, j) /\ errors'[w][j] = errors[w][j]
    BY <1>4, <1>6
  <2> QED
    BY <2>1 DEF LegReported
<1>9. PICK l \in Nat : l = leg[w]
  BY <1>1
<1>10. LegReported(w, l)'
  <2>1. errors'[w][l] = e
    BY <1>1, <1>4, <1>6, <1>9
  <2>2. errors'[w][l].backend = chain[w][l] /\ errors'[w][l].why = why
    BY <1>3, <1>9, <2>1
  <2>3. why = "cooling" =>
          l \in cooling[w] /\ \E k \in l + 1 .. Len(chain[w]) : k \notin cooling[w]
    BY <1>9 DEF SkipForCooling, NonCoolingAhead
  <2> QED
    BY <2>2, <2>3 DEF LegReported
<1>11. ASSUME NEW j \in 1 .. Len(errors'[w]) PROVE LegReported(w, j)'
  <2>1. j \in 1 .. Len(errors[w]) \/ j = l
    BY <1>1, <1>4, <1>5, <1>6, <1>9
  <2> QED
    BY <1>8, <1>10, <2>1
<1> QED
  BY <1>7, <1>11 DEF Reported, Trying

\* The walks of other threads than w are as they were.
Others(w) == \A v \in Walker \ {w} :
  /\ pc'[v] = pc[v] /\ errors'[v] = errors[v] /\ chain'[v] = chain[v]
  /\ leg'[v] = leg[v] /\ cooling'[v] = cooling[v]

\* If one thread moves and its report stays right, all reports are.
LEMMA ReportOne ==
  ASSUME RInv, NEW w \in Walker, Others(w), Reported(w)'
  PROVE  RInv'
<1>1. ASSUME NEW v \in Walker \ {w} PROVE Reported(v)'
  BY ReportKept DEF RInv, Others
<1> QED
  BY <1>1 DEF RInv

\* Every step keeps the reports right.
LEMMA NextRInv == IInv /\ RInv /\ [Next]_vars => RInv'
<1> SUFFICES ASSUME IInv, RInv, [Next]_vars PROVE RInv'
  OBVIOUS
<1>0. /\ pc \in [Walker -> PC] /\ chain \in [Walker -> Seq(Backend)]
      /\ leg \in [Walker -> Nat] /\ cooling \in [Walker -> SUBSET Nat]
      /\ errors \in [Walker -> Seq([backend : Backend, why : Why])]
  BY DEF IInv, TypeOK
<1>1. ASSUME NEW w \in Walker, NEW c, BeginWalk(w, c) PROVE RInv'
  <2>1. pc'[w] = "snapshot" /\ errors'[w] = <<>>
    BY <1>0, <1>1 DEF BeginWalk
  <2>2. Reported(w)' /\ Others(w)
    BY <1>0, <1>1, <2>1 DEF BeginWalk, Reported, Others, Trying
  <2> QED
    BY <2>2, ReportOne
<1>2. ASSUME NEW w \in Walker, ForgetWalk(w) PROVE RInv'
  <2>1. pc'[w] = "idle"
    BY <1>0, <1>2 DEF ForgetWalk
  <2>2. Reported(w)' /\ Others(w)
    BY <1>0, <1>2, <2>1 DEF ForgetWalk, Reported, Others, Trying, Walking
  <2> QED
    BY <2>2, ReportOne
<1>3. ASSUME NEW w \in Walker, RequestRouted(w) \/ CallClassifier(w) PROVE RInv'
  <2>1. UNCHANGED walk /\ Others(w) /\ pc'[w] \in {"classify", "classifying"}
    BY <1>0, <1>3 DEF RequestRouted, CallClassifier, walk, Others
  <2>2. Reported(w)'
    BY <2>1 DEF Reported, Trying, Walking
  <2> QED
    BY <2>1, <2>2, ReportOne
<1>4. ASSUME NEW w \in Walker, SnapshotCooling(w) PROVE RInv'
  <2>1. /\ pc[w] = "snapshot" /\ UNCHANGED <<chain, errors>>
        /\ \/ pc'[w] = "snapshot"
           \/ pc'[w] = "leg" /\ leg'[w] = 1
    BY <1>0, <1>4 DEF SnapshotCooling
  <2>2. errors'[w] = <<>>
    BY <2>1 DEF RInv, Reported
  <2>3. Reported(w)'
    BY <2>1, <2>2 DEF Reported, Trying
  <2>4. Others(w)
    BY <1>0, <1>4 DEF SnapshotCooling, Others
  <2> QED
    BY <2>3, <2>4, ReportOne
<1>5. ASSUME NEW w \in Walker, SkipBudget(w) \/ SkipCooling(w) \/ SkipBusy(w) PROVE RInv'
  <2>1. PICK why \in {"budget", "cooling", "busy"} :
           GiveUpLeg(w, why) /\ (why = "cooling" => SkipForCooling(w))
    BY <1>5 DEF SkipBudget, SkipCooling, SkipBusy
  <2>2. /\ pc[w] = "leg" /\ leg[w] <= Len(chain[w])
        /\ pc' = pc /\ chain' = chain /\ cooling' = cooling
    BY <1>5 DEF SkipBudget, SkipCooling, SkipBusy, AtLeg
  <2>3. leg[w] \in 1 .. Len(chain[w])
    BY <1>0, <2>2 DEF IInv, LegInRange
  <2>4. Reported(w)'
    BY <2>1, <2>2, <2>3, ReportExtended DEF RInv, Trying, Walking, Why
  <2>5. Others(w)
    BY <1>0, <2>1, <2>2 DEF GiveUpLeg, Others
  <2> QED
    BY <2>4, <2>5, ReportOne
<1>6. ASSUME NEW w \in Walker, NextLeg(w) PROVE RInv'
  <2>1. /\ pc[w] = "failed" /\ pc'[w] = "leg" /\ GiveUpLeg(w, "tried")
        /\ chain' = chain /\ cooling' = cooling
    BY <1>0, <1>6 DEF NextLeg
  <2>2. leg[w] \in 1 .. Len(chain[w])
    BY <2>1 DEF IInv, LegInRange
  <2>3. Reported(w)'
    BY <2>1, <2>2, ReportExtended DEF RInv, Trying, Walking, Why
  <2>4. Others(w)
    BY <1>0, <1>6 DEF NextLeg, GiveUpLeg, Others
  <2> QED
    BY <2>3, <2>4, ReportOne
<1>7. ASSUME NEW w \in Walker,
             \/ ReserveLeg(w) \/ CallLeg(w) \/ ReturnWinner(w) \/ ReturnErrors(w)
             \/ \E output \in Output : LegSucceeds(w, output)
             \/ \E kind \in Failure : LegFails(w, kind)
      PROVE  RInv'
  <2>1. /\ UNCHANGED walk /\ Others(w)
        /\ pc[w] \in {"leg", "clamp", "calling", "won"}
        /\ pc'[w] \in {"clamp", "calling", "won", "failed", "answer"}
    BY <1>0, <1>7 DEF ReserveLeg, AtLeg, CallLeg, ReturnWinner, ReturnErrors, LegSucceeds,
                      LegFails, walk, Others
  <2>2. Reported(w)'
    BY <2>1, ReportKept DEF RInv, walk, Trying, Walking
  <2> QED
    BY <2>1, <2>2, ReportOne
<1>8. CASE Tick \/ UNCHANGED vars
  BY <1>8, ReportKept DEF Tick, vars, walk, RInv
<1>9. ASSUME NEW w \in Walker, RequestDirect(w) \/ ClassifierBusy(w) \/ Classified(w)
      PROVE  RInv'
  BY <1>1, <1>9 DEF RequestDirect, ClassifierBusy, Classified
<1>10. ASSUME NEW w \in Walker, Panic(w) \/ Respond(w) PROVE RInv'
  BY <1>2, <1>10 DEF Panic, Respond
<1> QED
  BY <1>3, <1>4, <1>5, <1>6, <1>7, <1>8, <1>9, <1>10 DEF Next, Receive, Step

\* The reports are right in every reachable state.
LEMMA ReportsRight == Spec => [](IInv /\ RInv)
<1>1. Init => RInv
  BY DEF Init, RInv, Reported, Trying, Walking
<1> QED
  BY <1>1, NextRInv, InductiveInvariant, PTL DEF Spec

\* The answer accounts for every leg, in the order of the chain, whatever mix
\* of skips, Busy rejections and failures the walk met.
THEOREM EveryLegReported == Spec => []ErrorsCoverLegs
<1>1. RInv => ErrorsCoverLegs
  BY DEF RInv, Reported, LegReported, Trying, ErrorsCoverLegs
<1> QED
  BY <1>1, ReportsRight, PTL

\* A leg skipped for cooling always has one behind it that was not skipped for
\* cooling: no walk fails on cooldowns alone.
THEOREM NeverCoolingAlone == Spec => []CoolingNeverDecidesAlone
<1>1. ASSUME IInv, RInv, NEW w \in Walker, pc[w] = "answer",
             NEW j \in 1 .. Len(errors[w]), errors[w][j].why = "cooling"
      PROVE  \E k \in j + 1 .. Len(chain[w]) : k <= Len(errors[w]) => errors[w][k].why # "cooling"
  <2>1. errors[w] \in Seq([backend : Backend, why : Why]) /\ chain[w] \in Seq(Backend)
    BY <1>1 DEF IInv, TypeOK
  <2>2. \A i \in 1 .. Len(errors[w]) : LegReported(w, i)
    BY <1>1 DEF RInv, Reported, Trying, Walking
  <2>3. PICK k \in j + 1 .. Len(chain[w]) : k \notin cooling[w]
    BY <1>1, <2>2 DEF LegReported
  <2>4. k <= Len(errors[w]) => errors[w][k].why # "cooling"
    BY <2>1, <2>2, <2>3 DEF LegReported
  <2> QED
    BY <2>3, <2>4
<1>2. IInv /\ RInv => CoolingNeverDecidesAlone
  BY <1>1 DEF CoolingNeverDecidesAlone
<1> QED
  BY <1>2, ReportsRight, PTL
-----------------------------------------------------------------------------
(* The budget of a walk. *)

\* Every call was begun within the budget: its slot was taken before the budget ran
\* out and is clamped a unit later at most, so a deadline it has is within the
\* budget; and only an HTTP backend is called without one.
DeadlineInBudget(w) ==
  Budgeted =>
    /\ pc[w] = "clamp" => /\ mark[w] \in Nat
                          /\ mark[w] < startedAt[w] + Budget
                          /\ now <= mark[w] + 1
    /\ pc[w] = "calling" => \/ mark[w] = NoDeadline /\ CurrentBackend(w) \in Api
                            \/ mark[w] \in Nat /\ mark[w] <= startedAt[w] + Budget

DInv == \A w \in Walker : DeadlineInBudget(w)

\* w's walk is not past its budget by more than one of its legs may overrun.
InBudget(w) ==
  \E j \in 1 .. Len(chain[w]) : now <= startedAt[w] + Budget + Overrun[chain[w][j]]

\* No time passes, and only the thread w moves.
OnlyMoves(w) ==
  /\ now' = now
  /\ \A v \in Walker \ {w} :
       /\ pc'[v] = pc[v] /\ startedAt'[v] = startedAt[v] /\ mark'[v] = mark[v]
       /\ chain'[v] = chain[v] /\ leg'[v] = leg[v]

\* A step of w that begins, ends or goes on with its walk.
Begins(w) == /\ pc[w] \notin Walking /\ pc'[w] = "snapshot"
             /\ chain'[w] \in Chains /\ startedAt'[w] = now
Leaves(w) == pc'[w] \notin Walking
GoesOn(w) == /\ pc[w] \in Walking /\ pc'[w] \in Walking
             /\ chain'[w] = chain[w] /\ startedAt'[w] = startedAt[w]

\* What a step is to time and to the walks: all wait, or one of them moves; and it
\* is in a call afterwards only if it has just taken its slot, or has just clamped.
WalkStep ==
  \/ Tick
  \/ UNCHANGED vars
  \/ \E w \in Walker :
       /\ OnlyMoves(w)
       /\ Begins(w) \/ Leaves(w) \/ GoesOn(w)
       /\ pc'[w] = "clamp" => ReserveLeg(w)
       /\ pc'[w] = "calling" => CallLeg(w)

LEMMA BeginWalkStep ==
  ASSUME IInv, NEW w \in Walker, NEW c \in Chains, BeginWalk(w, c),
         pc[w] \notin Walking, now' = now, mark' = mark
  PROVE  WalkStep
BY DEF BeginWalk, IInv, TypeOK, OnlyMoves, Begins, WalkStep

LEMMA NextWalkStep == IInv /\ [Next]_vars => WalkStep
<1> SUFFICES ASSUME IInv, [Next]_vars PROVE WalkStep
  OBVIOUS
<1>0. /\ pc \in [Walker -> PC] /\ chain \in [Walker -> Seq(Backend)] /\ leg \in [Walker -> Nat]
      /\ startedAt \in [Walker -> Nat] /\ mark \in [Walker -> Nat \cup {NoDeadline}]
  BY DEF IInv, TypeOK
<1>1. ASSUME NEW w \in Walker, RequestDirect(w) PROVE WalkStep
  BY <1>1, BeginWalkStep DEF RequestDirect, Walking
<1>2. ASSUME NEW w \in Walker, ClassifierBusy(w) PROVE WalkStep
  <2>1. FallbackTarget \in Chains
    BY <1>2, ConfigAssumption DEF ClassifierBusy, IInv, LegInRange
  <2> QED BY <1>2, <2>1, BeginWalkStep DEF ClassifierBusy, Walking
<1>3. ASSUME NEW w \in Walker, Classified(w) PROVE WalkStep
  <2>1. PICK c \in Chains : BeginWalk(w, c)
    BY <1>3, ConfigAssumption DEF Classified
  <2> QED BY <1>3, <2>1, BeginWalkStep DEF Classified, Walking
<1>4. ASSUME NEW w \in Walker,
             RequestRouted(w) \/ CallClassifier(w) \/ Panic(w) \/ Respond(w)
      PROVE  WalkStep
  <2>1. OnlyMoves(w) /\ pc'[w] \notin Walking
    BY <1>0, <1>4 DEF RequestRouted, CallClassifier, Panic, Respond, ForgetWalk, walk,
                      OnlyMoves, Walking
  <2> QED BY <2>1 DEF Leaves, WalkStep, Walking
<1>5. ASSUME NEW w \in Walker,
             \/ SnapshotCooling(w) \/ SkipBudget(w) \/ SkipCooling(w) \/ SkipBusy(w)
             \/ NextLeg(w) \/ ReturnWinner(w) \/ ReturnErrors(w)
             \/ \E output \in Output : LegSucceeds(w, output)
             \/ \E kind \in Failure : LegFails(w, kind)
      PROVE  WalkStep
  <2>1. OnlyMoves(w) /\ GoesOn(w) /\ pc'[w] \notin {"clamp", "calling"}
    BY <1>0, <1>5 DEF SnapshotCooling, SkipBudget, SkipCooling, SkipBusy, AtLeg, GiveUpLeg,
                      NextLeg, ReturnWinner, ReturnErrors, LegSucceeds, LegFails, walk,
                      OnlyMoves, GoesOn, Walking
  <2> QED BY <2>1 DEF WalkStep
<1>6. ASSUME NEW w \in Walker, ReserveLeg(w) \/ CallLeg(w) PROVE WalkStep
  <2>1. OnlyMoves(w) /\ GoesOn(w)
    BY <1>0, <1>6 DEF ReserveLeg, AtLeg, CallLeg, walk, OnlyMoves, GoesOn, Walking
  <2>2. pc'[w] = "clamp" => ReserveLeg(w)
    BY <1>0, <1>6 DEF CallLeg
  <2>3. pc'[w] = "calling" => CallLeg(w)
    BY <1>0, <1>6 DEF ReserveLeg
  <2> QED BY <2>1, <2>2, <2>3 DEF WalkStep
<1>7. CASE Tick \/ UNCHANGED vars
  BY <1>7 DEF WalkStep
<1> QED
  BY <1>1, <1>2, <1>3, <1>4, <1>5, <1>6, <1>7 DEF Next, Receive, Step

\* The clamp: a deadline is within the budget, even if the budget ran out since it
\* was checked; and only an HTTP backend may be called without one.
LEMMA ClampInBudget ==
  ASSUME IInv, DInv, NEW w \in Walker, CallLeg(w), Budgeted
  PROVE  \/ mark'[w] = NoDeadline /\ CurrentBackend(w)' \in Api
         \/ mark'[w] \in Nat /\ mark'[w] <= startedAt'[w] + Budget
<1>1. /\ mark \in [Walker -> Nat \cup {NoDeadline}] /\ startedAt[w] \in Nat /\ now \in Nat
      /\ chain[w] \in Seq(Backend)
      /\ chain' = chain /\ leg' = leg /\ startedAt' = startedAt
  BY DEF IInv, TypeOK, CallLeg, walk
<1>2. CurrentBackend(w) \in Backend /\ CurrentBackend(w)' = CurrentBackend(w)
  BY <1>1 DEF CallLeg, IInv, LegInRange, CurrentBackend
<1>3. LegTimeout[CurrentBackend(w)] \in Nat /\ Budget \in Nat
  BY <1>2, TimeAssumption
<1>4. now <= startedAt[w] + Budget
  <2>1. mark[w] \in Nat /\ mark[w] < startedAt[w] + Budget /\ now <= mark[w] + 1
    BY DEF DInv, DeadlineInBudget, CallLeg
  <2> QED BY <1>1, <1>3, <2>1
<1>5. Timeout(w) \in Nat /\ now + Timeout(w) <= startedAt[w] + Budget
  BY <1>1, <1>3, <1>4 DEF Timeout, Remaining, Lesser
<1>6. mark'[w] = CallDeadline(w)
  BY <1>1 DEF CallLeg
<1> QED BY <1>1, <1>2, <1>5, <1>6 DEF CallDeadline

\* Every step keeps the deadlines of all walks within their budgets.
LEMMA NextDInv == IInv /\ DInv /\ [Next]_vars => DInv'
<1> SUFFICES ASSUME IInv, DInv, [Next]_vars PROVE DInv'
  OBVIOUS
<1>0. /\ pc \in [Walker -> PC] /\ startedAt \in [Walker -> Nat]
      /\ mark \in [Walker -> Nat \cup {NoDeadline}] /\ now \in Nat /\ Budget \in Nat
  BY TimeAssumption DEF IInv, TypeOK
<1>1. ASSUME NEW w \in Walker, OnlyMoves(w), Begins(w) \/ Leaves(w) \/ GoesOn(w),
             pc'[w] = "clamp" => ReserveLeg(w), pc'[w] = "calling" => CallLeg(w)
      PROVE  DInv'
  <2>1. DeadlineInBudget(w)'
    <3> SUFFICES ASSUME Budgeted PROVE DeadlineInBudget(w)'
      BY DEF DeadlineInBudget
    <3>1. CASE pc'[w] = "clamp"
      <4>1. mark'[w] = now /\ startedAt' = startedAt /\ now < startedAt[w] + Budget
        BY <1>0, <1>1, <3>1 DEF ReserveLeg, walk, BudgetSpent
      <4> QED BY <1>0, <1>1, <3>1, <4>1 DEF DeadlineInBudget, OnlyMoves
    <3>2. CASE pc'[w] = "calling"
      BY <1>1, <3>2, ClampInBudget DEF DeadlineInBudget
    <3> QED BY <3>1, <3>2 DEF DeadlineInBudget
  <2>2. ASSUME NEW v \in Walker \ {w} PROVE DeadlineInBudget(v)'
    <3>1. /\ pc'[v] = pc[v] /\ startedAt'[v] = startedAt[v] /\ mark'[v] = mark[v]
          /\ CurrentBackend(v)' = CurrentBackend(v) /\ now' = now
      BY <1>1 DEF OnlyMoves, CurrentBackend
    <3> QED BY <3>1 DEF DInv, DeadlineInBudget
  <2> QED BY <2>1, <2>2 DEF DInv
<1>2. CASE Tick
  <2> SUFFICES ASSUME NEW w \in Walker PROVE DeadlineInBudget(w)'
    BY DEF DInv
  <2>1. /\ now' = now + 1 /\ UNCHANGED <<pc, startedAt, mark>> /\ MayWait(w)
        /\ CurrentBackend(w)' = CurrentBackend(w)
    BY <1>2 DEF Tick, walk, CurrentBackend
  <2>2. pc[w] = "clamp" => now = mark[w]
    BY <2>1 DEF MayWait
  <2> QED BY <1>0, <2>1, <2>2 DEF DInv, DeadlineInBudget
<1>3. CASE UNCHANGED vars
  BY <1>3 DEF vars, walk, DInv, DeadlineInBudget, CurrentBackend
<1> QED
  BY <1>1, <1>2, <1>3, NextWalkStep DEF WalkStep

\* The deadlines of all walks are always within their budgets.
LEMMA DeadlinesInBudget == Spec => [](IInv /\ DInv)
<1>1. Init => DInv
  BY DEF Init, DInv, DeadlineInBudget
<1> QED
  BY <1>1, NextDInv, InductiveInvariant, PTL DEF Spec

\* A walk that begins has its whole budget.
LEMMA BeginsInBudget ==
  ASSUME IInv, NEW w \in Walker, OnlyMoves(w), Begins(w)
  PROVE  InBudget(w)'
<1>1. /\ chain'[w] \in Seq(Backend) /\ chain'[w] # <<>>
      /\ startedAt'[w] = now /\ now' = now /\ now \in Nat
  BY ConfigAssumption DEF Begins, OnlyMoves, IInv, TypeOK
<1>2. 1 \in 1 .. Len(chain'[w]) /\ chain'[w][1] \in Backend
  BY <1>1
<1>3. Overrun[chain'[w][1]] \in Nat /\ Budget \in Nat
  BY <1>2, TimeAssumption
<1>4. now <= now + Budget + Overrun[chain'[w][1]]
  BY <1>1, <1>3
<1> QED BY <1>1, <1>2, <1>4 DEF InBudget

\* w is in a call that outlasts the deadline it was given, if it was given one: a zero
\* timeout is none for an HTTP backend; and any other is within the budget, but nothing
\* makes a backend that is not punctual keep to it.
CallOutlasts(w) ==
  /\ pc[w] = "calling"
  /\ \/ mark[w] = NoDeadline /\ CurrentBackend(w) \in Api
     \/ mark[w] \in Nat /\ mark[w] <= startedAt[w] + Budget /\ CurrentBackend(w) \notin Punctual

\* A walk goes past its budget only in such a call.
LEMMA StaysInBudget ==
  ASSUME IInv, DInv, [Next]_vars, NEW w \in Walker, Budgeted, InBudget(w),
         pc[w] \in Walking, pc'[w] \in Walking
  PROVE  InBudget(w)' \/ CallOutlasts(w)
<1>0. /\ chain[w] \in Seq(Backend) /\ startedAt \in [Walker -> Nat]
      /\ mark \in [Walker -> Nat \cup {NoDeadline}] /\ now \in Nat /\ Budget \in Nat
  BY TimeAssumption DEF IInv, TypeOK
<1>1. ASSUME NEW v \in Walker, OnlyMoves(v), Begins(v) \/ Leaves(v) \/ GoesOn(v)
      PROVE  InBudget(w)'
  <2>1. now' = now /\ chain'[w] = chain[w] /\ startedAt'[w] = startedAt[w]
    BY <1>1 DEF OnlyMoves, Begins, Leaves, GoesOn
  <2> QED BY <2>1 DEF InBudget
<1>2. CASE Tick
  <2>1. /\ now' = now + 1 /\ UNCHANGED <<pc, chain, leg, startedAt, mark>> /\ MayWait(w)
    BY <1>2 DEF Tick, walk
  <2>2. CASE pc[w] = "clamp" /\ now = mark[w]
    <3>1. now < startedAt[w] + Budget
      BY <2>2 DEF DInv, DeadlineInBudget
    <3>2. PICK j \in 1 .. Len(chain[w]) : now <= startedAt[w] + Budget + Overrun[chain[w][j]]
      BY DEF InBudget
    <3>3. Overrun[chain[w][j]] \in Nat
      BY <1>0, TimeAssumption, SMTT(30)
    <3>4. now' <= startedAt[w] + Budget + Overrun[chain[w][j]]
      BY <1>0, <2>1, <3>1, <3>3
    <3> QED BY <2>1, <3>4 DEF InBudget
  <2>3. CASE pc[w] = "calling" /\ ~CallOutlasts(w)
    <3>1. /\ mark[w] \in Nat /\ mark[w] <= startedAt[w] + Budget
          /\ now < mark[w] + Overrun[CurrentBackend(w)]
      <4>1. /\ mark[w] \in Nat /\ mark[w] <= startedAt[w] + Budget
            /\ CurrentBackend(w) \in Punctual
        BY <2>3 DEF DInv, DeadlineInBudget, CallOutlasts
      <4>2. mark[w] # NoDeadline
        BY <4>1 DEF NoDeadline
      <4> QED BY <2>1, <2>3, <4>1, <4>2 DEF MayWait, CallMayGoOn
    <3>2. leg[w] \in 1 .. Len(chain[w]) /\ CurrentBackend(w) = chain[w][leg[w]]
          /\ CurrentBackend(w) \in Backend
      BY <1>0, <2>3 DEF IInv, LegInRange, CurrentBackend
    <3>3. Overrun[CurrentBackend(w)] \in Nat
      BY <3>2, TimeAssumption
    <3>4. now' <= startedAt[w] + Budget + Overrun[chain[w][leg[w]]]
      BY <1>0, <2>1, <3>1, <3>2, <3>3
    <3> QED BY <2>1, <3>2, <3>4 DEF InBudget
  <2>4. pc[w] \notin {"idle", "classifying"}
    BY DEF Walking
  <2> QED BY <2>1, <2>2, <2>3, <2>4 DEF MayWait
<1>3. CASE UNCHANGED vars
  BY <1>3 DEF vars, walk, InBudget
<1> QED
  BY <1>1, <1>2, <1>3, NextWalkStep DEF WalkStep

\* P-6, for every chain: what takes a walk past its budget, beyond what a punctual call
\* may overrun its deadline, is one call that outlasts its own: an HTTP call whose timeout
\* came out zero, or a call to a backend that is not punctual, whose deadline was within
\* the budget.  Nothing else does: no order of legs, no wait for a slot, no slow snapshot.
OnlyOutlastingCallOverruns ==
  [][\A w \in Walker :
       Budgeted /\ pc[w] \in Walking /\ pc'[w] \in Walking /\ InBudget(w) =>
         InBudget(w)' \/ CallOutlasts(w)]_vars

THEOREM BudgetOverrunCause == Spec => OnlyOutlastingCallOverruns
<1> DEFINE Cause ==
      \A w \in Walker :
        Budgeted /\ pc[w] \in Walking /\ pc'[w] \in Walking /\ InBudget(w) =>
          InBudget(w)' \/ CallOutlasts(w)
<1>1. IInv /\ DInv /\ [Next]_vars => [Cause]_vars
  BY StaysInBudget
<1>2. OnlyOutlastingCallOverruns <=> [][Cause]_vars
  BY DEF OnlyOutlastingCallOverruns
<1> QED
  BY <1>1, <1>2, DeadlinesInBudget, PTL DEF Spec

\* P-6 walk by walk: a walk whose own legs are punctual child processes keeps its budget,
\* but for what one of them may overrun its deadline, whatever the other walks do.
PunctualWalksInBudget ==
  Budgeted => \A w \in Walker :
    pc[w] \in Walking /\ (\A j \in 1 .. Len(chain[w]) : chain[w][j] \in Punctual \ Api) =>
      InBudget(w)

THEOREM PunctualWalksKeepBudget == Spec => []PunctualWalksInBudget
<1>1. Init => PunctualWalksInBudget
  BY DEF Init, PunctualWalksInBudget, Walking
<1>2. IInv /\ DInv /\ PunctualWalksInBudget /\ [Next]_vars => PunctualWalksInBudget'
  <2> SUFFICES ASSUME IInv, DInv, PunctualWalksInBudget, [Next]_vars, Budgeted,
                      NEW w \in Walker, pc'[w] \in Walking,
                      \A j \in 1 .. Len(chain'[w]) : chain'[w][j] \in Punctual \ Api
               PROVE  InBudget(w)'
    BY DEF PunctualWalksInBudget
  <2>1. CASE pc[w] \in Walking
    <3>1. chain'[w] = chain[w]
      BY <2>1, NextWalkStep DEF WalkStep, OnlyMoves, Begins, Leaves, GoesOn, Tick, vars, walk
    <3>2. InBudget(w)
      BY <2>1, <3>1 DEF PunctualWalksInBudget
    <3>3. ~CallOutlasts(w)
      <4> SUFFICES ASSUME CallOutlasts(w) PROVE FALSE
        OBVIOUS
      <4>1. pc[w] = "calling" /\ CurrentBackend(w) \notin Punctual \ Api
        BY DEF CallOutlasts
      <4>2. leg[w] \in 1 .. Len(chain[w]) /\ CurrentBackend(w) = chain[w][leg[w]]
        BY <4>1 DEF IInv, LegInRange, CurrentBackend
      <4> QED BY <3>1, <4>1, <4>2
    <3> QED BY <2>1, <3>2, <3>3, StaysInBudget
  <2>2. CASE pc[w] \notin Walking
    <3>1. OnlyMoves(w) /\ Begins(w)
      BY <2>2, NextWalkStep DEF WalkStep, OnlyMoves, Begins, Leaves, GoesOn, Tick, vars
    <3> QED BY <3>1, BeginsInBudget
  <2> QED BY <2>1, <2>2
<1> QED
  BY <1>1, <1>2, DeadlinesInBudget, PTL DEF Spec

\* P-6 where every backend is a punctual child process: no walk outlives its budget by
\* more than what a call may overrun its deadline, whatever the legs, their order and
\* timeouts.  (With an HTTP leg it may: its zero timeout is no deadline.)
THEOREM BudgetHolds == Api = {} /\ Punctual = Backend /\ Spec => []BudgetBound
<1>1. Api = {} /\ Punctual = Backend /\ IInv /\ PunctualWalksInBudget => BudgetBound
  <2> SUFFICES ASSUME Api = {}, Punctual = Backend, IInv, PunctualWalksInBudget, Budgeted,
                      NEW w \in Walker, pc[w] \in Walking
               PROVE  \E b \in Backend : now <= startedAt[w] + Budget + Overrun[b]
    BY DEF BudgetBound
  <2>1. \A j \in 1 .. Len(chain[w]) : chain[w][j] \in Backend
    BY DEF IInv, TypeOK
  <2>2. PICK j \in 1 .. Len(chain[w]) : now <= startedAt[w] + Budget + Overrun[chain[w][j]]
    BY <2>1 DEF PunctualWalksInBudget, InBudget
  <2> QED BY <2>1, <2>2
<1>2. CASE Api = {} /\ Punctual = Backend
  <2>1. IInv /\ PunctualWalksInBudget => BudgetBound
    BY <1>1, <1>2
  <2> QED
    BY <2>1, PunctualWalksKeepBudget, InductiveInvariant, PTL
<1>3. CASE ~(Api = {} /\ Punctual = Backend)
  BY <1>3
<1> QED
  BY <1>2, <1>3
-----------------------------------------------------------------------------
(* The progress of a walk. *)

\* Where a walk is: each candidate of the snapshot, then each leg in four stages,
\* then the answer.
Progress(w) ==
  LET n == Len(chain[w])
  IN  CASE pc[w] = "snapshot" -> leg[w]
        [] pc[w] = "leg"      -> n + 4 * leg[w]
        [] pc[w] = "clamp"    -> n + 4 * leg[w] + 1
        [] pc[w] = "calling"  -> n + 4 * leg[w] + 2
        [] pc[w] \in {"failed", "won"} -> n + 4 * leg[w] + 3
        [] OTHER -> n + 4 * n + 5

\* A walk is somewhere between its first candidate and its answer.
ProgressInRange ==
  \A w \in Walker : pc[w] \in Walking => Progress(w) \in 1 .. 5 * Len(chain[w]) + 5

LEMMA ProgressBounds == IInv => ProgressInRange
<1> SUFFICES ASSUME IInv, NEW w \in Walker, pc[w] \in Walking
             PROVE  Progress(w) \in 1 .. 5 * Len(chain[w]) + 5
  BY DEF ProgressInRange
<1>1. Len(chain[w]) \in Nat /\ leg[w] \in Nat
  BY DEF IInv, TypeOK
<1>2. /\ pc[w] \in {"snapshot", "clamp", "calling", "failed", "won"} =>
           leg[w] >= 1 /\ leg[w] <= Len(chain[w])
      /\ pc[w] = "leg" => leg[w] >= 1 /\ leg[w] <= Len(chain[w]) + 1
  BY <1>1 DEF IInv, LegInRange
<1>3. CASE pc[w] = "snapshot"
  <2>1. Progress(w) = leg[w]
    BY <1>3 DEF Progress
  <2> QED BY <1>1, <1>2, <1>3, <2>1
<1>4. CASE pc[w] \in {"leg", "clamp", "calling", "failed", "won"}
  <2>1. \E stage \in 0 .. 3 :
          /\ Progress(w) = Len(chain[w]) + 4 * leg[w] + stage
          /\ stage # 0 => leg[w] <= Len(chain[w])
    <3>1. CASE pc[w] = "leg"
      BY <1>1, <3>1 DEF Progress
    <3>2. CASE pc[w] = "clamp"
      BY <1>2, <3>2 DEF Progress
    <3>3. CASE pc[w] = "calling"
      BY <1>2, <3>3 DEF Progress
    <3>4. CASE pc[w] \in {"failed", "won"}
      BY <1>2, <3>4 DEF Progress
    <3> QED BY <1>4, <3>1, <3>2, <3>3, <3>4
  <2>2. leg[w] >= 1 /\ leg[w] <= Len(chain[w]) + 1
    BY <1>1, <1>2, <1>4
  <2> QED BY <1>1, <2>1, <2>2
<1>5. CASE pc[w] = "answer"
  <2>1. Progress(w) = Len(chain[w]) + 4 * Len(chain[w]) + 5
    BY <1>5 DEF Progress
  <2> QED BY <1>1, <2>1
<1> QED BY <1>3, <1>4, <1>5 DEF Walking

\* What thread w is at, in its walk.
Stand(w) == <<pc[w], chain[w], leg[w], cooling[w], errors[w], slot[w], startedAt[w], mark[w]>>

\* A step of a walk leads on.
LEMMA StepAdvances ==
  ASSUME IInv, NEW w \in Walker, Step(w), pc[w] \in Walking, pc'[w] \in Walking
  PROVE  chain'[w] = chain[w] /\ Progress(w)' > Progress(w)
<1>0. /\ pc \in [Walker -> PC] /\ chain \in [Walker -> Seq(Backend)] /\ leg \in [Walker -> Nat]
      /\ leg[w] \in Nat /\ Len(chain[w]) \in Nat
  BY DEF IInv, TypeOK
<1>1. CASE SnapshotCooling(w)
  <2>1. /\ pc[w] = "snapshot" /\ chain' = chain /\ leg[w] >= 1 /\ leg[w] <= Len(chain[w])
        /\ \/ pc'[w] = "snapshot" /\ leg'[w] = leg[w] + 1
           \/ pc'[w] = "leg" /\ leg'[w] = 1
    BY <1>0, <1>1 DEF SnapshotCooling, IInv, LegInRange
  <2> QED BY <1>0, <2>1 DEF Progress
<1>2. CASE SkipBudget(w) \/ SkipCooling(w) \/ SkipBusy(w)
  <2>1. pc[w] = "leg" /\ pc' = pc /\ chain' = chain /\ leg'[w] = leg[w] + 1
    BY <1>0, <1>2 DEF SkipBudget, SkipCooling, SkipBusy, AtLeg, GiveUpLeg
  <2> QED BY <1>0, <2>1 DEF Progress
<1>3. CASE \/ ReserveLeg(w) \/ CallLeg(w) \/ ReturnWinner(w)
           \/ (\E output \in Output : LegSucceeds(w, output))
           \/ (\E kind \in Failure : LegFails(w, kind))
  <2>1. /\ chain' = chain /\ leg' = leg
        /\ \/ pc[w] = "leg" /\ pc'[w] = "clamp"
           \/ pc[w] = "clamp" /\ pc'[w] = "calling"
           \/ pc[w] = "calling" /\ pc'[w] \in {"won", "failed"}
           \/ pc[w] = "won" /\ pc'[w] = "answer"
    BY <1>0, <1>3 DEF ReserveLeg, AtLeg, CallLeg, LegSucceeds, LegFails, ReturnWinner, walk
  <2>2. pc[w] = "won" => leg[w] <= Len(chain[w])
    BY <1>0 DEF IInv, LegInRange
  <2> QED BY <1>0, <2>1, <2>2 DEF Progress
<1>4. CASE NextLeg(w)
  <2>1. pc[w] = "failed" /\ pc'[w] = "leg" /\ chain' = chain /\ leg'[w] = leg[w] + 1
    BY <1>0, <1>4 DEF NextLeg, GiveUpLeg
  <2> QED BY <1>0, <2>1 DEF Progress
<1>5. CASE ReturnErrors(w)
  <2>1. /\ pc[w] = "leg" /\ pc'[w] = "answer" /\ chain' = chain
        /\ leg[w] <= Len(chain[w]) + 1
    BY <1>0, <1>5 DEF ReturnErrors, walk, IInv, LegInRange
  <2> QED BY <1>0, <2>1 DEF Progress
<1>6. CASE ClassifierBusy(w) \/ CallClassifier(w) \/ Classified(w) \/ Panic(w) \/ Respond(w)
  <2>1. pc[w] \notin Walking \/ pc'[w] \notin Walking
    BY <1>0, <1>6 DEF ClassifierBusy, CallClassifier, Classified, Panic, Respond, ForgetWalk,
                      Walking
  <2> QED BY <2>1
<1> QED
  BY <1>1, <1>2, <1>3, <1>4, <1>5, <1>6 DEF Step

\* A step of another thread, and time, leave a walk where it is.
LEMMA OthersStand ==
  ASSUME IInv, NEW w \in Walker, NEW v \in Walker, v # w, Receive(v) \/ Step(v)
  PROVE  Stand(w)' = Stand(w)
<1>0. /\ pc \in [Walker -> PC] /\ chain \in [Walker -> Seq(Backend)] /\ leg \in [Walker -> Nat]
      /\ cooling \in [Walker -> SUBSET Nat]
      /\ errors \in [Walker -> Seq([backend : Backend, why : Why])]
      /\ slot \in [Walker -> Capped \cup {NoBackend}]
      /\ startedAt \in [Walker -> Nat] /\ mark \in [Walker -> Nat \cup {NoDeadline}]
  BY DEF IInv, TypeOK
<1>1. ASSUME NEW c, BeginWalk(v, c)
      PROVE  /\ pc'[w] = pc[w] /\ chain'[w] = chain[w] /\ leg'[w] = leg[w]
             /\ cooling'[w] = cooling[w] /\ errors'[w] = errors[w]
             /\ startedAt'[w] = startedAt[w]
  BY <1>0, <1>1 DEF BeginWalk
<1>2. ASSUME ForgetWalk(v)
      PROVE  /\ pc'[w] = pc[w] /\ chain'[w] = chain[w] /\ leg'[w] = leg[w]
             /\ cooling'[w] = cooling[w] /\ errors'[w] = errors[w]
             /\ startedAt'[w] = startedAt[w] /\ mark'[w] = mark[w]
  BY <1>0, <1>2 DEF ForgetWalk
<1>3. ASSUME DropSlot(v) PROVE slot'[w] = slot[w]
  BY <1>0, <1>3 DEF DropSlot
<1>4. CASE RequestDirect(v) \/ ClassifierBusy(v)
  BY <1>1, <1>4 DEF RequestDirect, ClassifierBusy, Stand
<1>5. CASE Classified(v)
  BY <1>1, <1>3, <1>5 DEF Classified, Stand
<1>6. CASE Panic(v) \/ Respond(v)
  BY <1>2, <1>3, <1>6 DEF Panic, Respond, Stand
<1>7. CASE \/ RequestRouted(v) \/ CallClassifier(v) \/ ReserveLeg(v) \/ CallLeg(v)
           \/ (\E output \in Output : LegSucceeds(v, output))
           \/ (\E kind \in Failure : LegFails(v, kind))
           \/ ReturnWinner(v) \/ ReturnErrors(v)
  <2>1. slot'[w] = slot[w]
    BY <1>0, <1>3, <1>7 DEF RequestRouted, CallClassifier, ReserveLeg, TakeSlot, CallLeg,
      LegSucceeds, LegFails, ReturnWinner, ReturnErrors
  <2>2. pc'[w] = pc[w] /\ UNCHANGED walk /\ mark'[w] = mark[w]
    BY <1>0, <1>7 DEF RequestRouted, CallClassifier, ReserveLeg, CallLeg, LegSucceeds,
      LegFails, ReturnWinner, ReturnErrors
  <2> QED BY <2>1, <2>2 DEF walk, Stand
<1>8. CASE SnapshotCooling(v)
  BY <1>0, <1>8 DEF SnapshotCooling, Stand
<1>9. CASE SkipBudget(v) \/ SkipCooling(v) \/ SkipBusy(v)
  BY <1>0, <1>9 DEF SkipBudget, SkipCooling, SkipBusy, GiveUpLeg, Stand
<1>10. CASE NextLeg(v)
  BY <1>0, <1>3, <1>10 DEF NextLeg, GiveUpLeg, Stand
<1> QED
  BY <1>4, <1>5, <1>6, <1>7, <1>8, <1>9, <1>10 DEF Receive, Step

\* No walk returns to where it was: each of its steps leads on through its chain,
\* nothing another thread does sets it back, and it is over after at most five steps
\* per leg and five more.  (That it takes them is what fairness is for.)
WalkAdvances ==
  [][\A w \in Walker : pc[w] \in Walking /\ pc'[w] \in Walking =>
       \/ Stand(w)' = Stand(w)
       \/ /\ chain'[w] = chain[w]
          /\ Progress(w) < Progress(w)' /\ Progress(w)' <= 5 * Len(chain[w]) + 5]_vars

THEOREM WalksAdvance == Spec => WalkAdvances
<1> DEFINE Advance ==
      \A w \in Walker : pc[w] \in Walking /\ pc'[w] \in Walking =>
        \/ Stand(w)' = Stand(w)
        \/ /\ chain'[w] = chain[w]
           /\ Progress(w) < Progress(w)' /\ Progress(w)' <= 5 * Len(chain[w]) + 5
<1>1. IInv => ProgressInRange
  BY ProgressBounds
<1>2. IInv /\ ProgressInRange' /\ [Next]_vars => [Advance]_vars
  <2> SUFFICES ASSUME IInv, ProgressInRange', Next, NEW w \in Walker,
                      pc[w] \in Walking, pc'[w] \in Walking
               PROVE  \/ Stand(w)' = Stand(w)
                      \/ /\ chain'[w] = chain[w]
                         /\ Progress(w) < Progress(w)'
                         /\ Progress(w)' <= 5 * Len(chain[w]) + 5
    OBVIOUS
  <2>1. CASE Tick
    <3>1. /\ pc' = pc /\ chain' = chain /\ leg' = leg /\ cooling' = cooling /\ errors' = errors
          /\ slot' = slot /\ startedAt' = startedAt /\ mark' = mark
      BY <2>1 DEF Tick, walk
    <3> QED BY <3>1 DEF Stand
  <2>2. ASSUME NEW v \in Walker, v # w, Receive(v) \/ Step(v) PROVE Stand(w)' = Stand(w)
    BY <2>2, OthersStand
  <2>3. ~Receive(w)
    BY DEF Receive, RequestDirect, RequestRouted, Walking
  <2>4. CASE Step(w)
    <3>1. chain'[w] = chain[w] /\ Progress(w)' > Progress(w)
      BY <2>4, StepAdvances
    <3>2. Progress(w)' \in 1 .. 5 * Len(chain'[w]) + 5
      BY DEF ProgressInRange
    <3>3. Progress(w) \in Int /\ Len(chain[w]) \in Nat
      <4>1. leg[w] \in Nat /\ Len(chain[w]) \in Nat
        BY DEF IInv, TypeOK
      <4>2. Progress(w) \in 1 .. 5 * Len(chain[w]) + 5
        BY ProgressBounds DEF ProgressInRange
      <4> QED BY <4>1, <4>2
    <3> QED BY <3>1, <3>2, <3>3
  <2>5. CASE \E v \in Walker : Receive(v) \/ Step(v)
    <3>1. PICK v \in Walker : Receive(v) \/ Step(v)
      BY <2>5
    <3>2. CASE v = w
      BY <3>1, <3>2, <2>3, <2>4
    <3>3. CASE v # w
      BY <3>1, <3>3, <2>2
    <3> QED BY <3>2, <3>3
  <2> QED BY <2>1, <2>5 DEF Next
<1>3. WalkAdvances <=> [][Advance]_vars
  BY DEF WalkAdvances
<1> QED
  BY <1>1, <1>2, <1>3, InductiveInvariant, PTL DEF Spec
=============================================================================
