------------------------- MODULE ChainDispatchProofs -------------------------
(***************************************************************************)
(* What holds of every chain, cap and configuration: the walk is type      *)
(* correct, the slot counter is exact, and no backend serves more calls    *)
(* than its max_concurrent.                                                *)
(***************************************************************************)
EXTENDS ChainDispatch, FiniteSetTheorems, TLAPS

-----------------------------------------------------------------------------
(* The pure parts. *)

\* The lesser of two counts is a count, and at most either of them.
LEMMA LesserNat ==
  ASSUME NEW a \in Nat, NEW b \in Nat
  PROVE  Lesser(a, b) \in Nat /\ Lesser(a, b) <= a /\ Lesser(a, b) <= b
BY DEF Lesser

\* The table of the backoff: shifting left by n is one of five factors.
LEMMA BackoffFactor ==
  ASSUME NEW n \in Nat \ {0}
  PROVE  <<1, 2, 4, 8, 16>>[1 + Lesser(n - 1, 4)] \in Nat \ {0}
<1>1. Lesser(n - 1, 4) \in 0 .. 4
  BY DEF Lesser
<1>2. \A k \in 0 .. 4 : <<1, 2, 4, 8, 16>>[1 + k] \in Nat \ {0}
  OBVIOUS
<1> QED
  BY <1>1, <1>2

\* cooldown_for never exceeds the longest of its three rules.
LEMMA CooldownForBounds ==
  ASSUME NEW kind \in Failure, NEW n \in Nat \ {0}
  PROVE  /\ CooldownFor(kind, n) \in Nat
         /\ \/ CooldownFor(kind, n) <= TimeoutMax
            \/ CooldownFor(kind, n) \in {RefusedSecs, CooldownSecs}
<1>1. {CooldownSecs, TimeoutBase, TimeoutMax, RefusedSecs} \subseteq Nat
  BY TimeAssumption
<1>2. CASE kind = "timeout"
  <2> DEFINE f == <<1, 2, 4, 8, 16>>[1 + Lesser(n - 1, 4)]
  <2>1. f \in Nat
    BY BackoffFactor
  <2>2. TimeoutBase * f \in Nat
    <3> HIDE DEF f
    <3> QED BY <1>1, <2>1
  <2>3. CooldownFor(kind, n) = Lesser(TimeoutBase * f, TimeoutMax)
    BY <1>2 DEF CooldownFor
  <2> QED
    <3> HIDE DEF f
    <3> QED BY <1>1, <2>2, <2>3, LesserNat
<1>3. CASE kind = "refused"
  BY <1>1, <1>3 DEF CooldownFor
<1>4. CASE kind \in {"blank", "other"}
  BY <1>1, <1>4 DEF CooldownFor
<1> QED
  BY <1>2, <1>3, <1>4 DEF Failure
-----------------------------------------------------------------------------
(* The inductive invariant. *)

\* The guard a thread owns is the one for the call it is at.
SlotFor(b) == IF b \in Capped THEN b ELSE NoBackend

GuardMatchesCall ==
  \A w \in Walker :
    slot[w] = IF pc[w] = "classifying" THEN SlotFor(Classifier)
              ELSE IF pc[w] \in {"clamp", "calling", "failed", "won"}
                   THEN SlotFor(CurrentBackend(w))
                   ELSE NoBackend

\* The leg a thread is at is a leg of its chain, or the end of the chain.
LegInRange ==
  \A w \in Walker :
    /\ pc[w] \in {"snapshot", "clamp", "calling", "failed", "won"} =>
         leg[w] \in 1 .. Len(chain[w])
    /\ pc[w] = "leg" => leg[w] \in 1 .. Len(chain[w]) + 1
    /\ pc[w] \in {"classify", "classifying"} => Classifier \in Backend

CountWithinCap == \A b \in Capped : active[b] <= Cap[b]

IInv == TypeOK /\ LegInRange /\ GuardMatchesCall /\ SlotsAccounted /\ CountWithinCap
-----------------------------------------------------------------------------
(* Slots. *)

Holders(s, b) == {w \in Walker : s[w] = b}

\* The owners of slots of one backend are finitely many threads.
LEMMA HoldersFinite ==
  ASSUME NEW s, NEW b
  PROVE  IsFiniteSet(Holders(s, b)) /\ Cardinality(Holders(s, b)) \in Nat
<1>1. Holders(s, b) \subseteq Walker
  BY DEF Holders
<1> QED
  BY <1>1, WalkerAssumption, FS_Subset, FS_CardinalityType

\* Taking a slot adds its owner to the holders of one backend.
LEMMA TakeSlotCounts ==
  ASSUME active \in [Capped -> Nat], slot \in [Walker -> Capped \cup {NoBackend}],
         SlotsAccounted, CountWithinCap,
         NEW w \in Walker, NEW b \in Backend,
         slot[w] = NoBackend, HasRoom(b), TakeSlot(w, b)
  PROVE  /\ active' \in [Capped -> Nat]
         /\ slot' = [slot EXCEPT ![w] = SlotFor(b)]
         /\ SlotsAccounted' /\ CountWithinCap'
<1>0. NoBackend \notin Capped /\ Cap \in [Capped -> Nat]
  BY ConfigAssumption
<1>1. CASE b \notin Capped
  <2>1. active' = active /\ slot' = slot
    BY <1>1 DEF TakeSlot
  <2> QED
    BY <1>1, <2>1 DEF SlotFor, SlotsAccounted, CountWithinCap
<1>2. CASE b \in Capped
  <2>1. /\ active' = [active EXCEPT ![b] = @ + 1]
        /\ slot' = [slot EXCEPT ![w] = b]
    BY <1>2 DEF TakeSlot
  <2>2. active' \in [Capped -> Nat] /\ active'[b] = active[b] + 1
    BY <1>2, <2>1
  <2>3. CountWithinCap'
    BY <1>0, <1>2, <2>1, <2>2 DEF CountWithinCap, HasRoom
  <2>4. ASSUME NEW c \in Capped
        PROVE  active'[c] = Cardinality(Holders(slot', c))
    <3>1. active[c] = Cardinality(Holders(slot, c))
      BY DEF SlotsAccounted, Holders
    <3>2. CASE c = b
      <4>1. Holders(slot', b) = Holders(slot, b) \cup {w} /\ w \notin Holders(slot, b)
        BY <1>0, <1>2, <2>1 DEF Holders
      <4>2. Cardinality(Holders(slot', b)) = Cardinality(Holders(slot, b)) + 1
        BY <4>1, HoldersFinite, FS_AddElement
      <4> QED
        BY <2>2, <3>1, <3>2, <4>2
    <3>3. CASE c # b
      <4>1. Holders(slot', c) = Holders(slot, c)
        BY <1>0, <2>1, <3>3 DEF Holders
      <4>2. active'[c] = active[c]
        BY <2>1, <3>3
      <4> QED
        BY <3>1, <4>1, <4>2
    <3> QED
      BY <3>2, <3>3
  <2>5. SlotsAccounted'
    BY <2>4 DEF SlotsAccounted, Holders
  <2> QED
    BY <1>2, <2>1, <2>2, <2>3, <2>5 DEF SlotFor
<1> QED
  BY <1>1, <1>2

\* Dropping a guard takes its owner out of the holders of one backend, whose
\* count is at least one: the saturating subtraction never saturates.
LEMMA DropSlotCounts ==
  ASSUME active \in [Capped -> Nat], slot \in [Walker -> Capped \cup {NoBackend}],
         SlotsAccounted, CountWithinCap,
         NEW w \in Walker, DropSlot(w)
  PROVE  /\ active' \in [Capped -> Nat]
         /\ slot' = [slot EXCEPT ![w] = NoBackend]
         /\ SlotsAccounted' /\ CountWithinCap'
<1>0. NoBackend \notin Capped /\ Cap \in [Capped -> Nat]
  BY ConfigAssumption
<1>1. CASE slot[w] = NoBackend
  <2>1. active' = active /\ slot' = slot
    BY <1>1 DEF DropSlot
  <2> QED
    BY <1>1, <2>1 DEF SlotsAccounted, CountWithinCap
<1>2. CASE slot[w] # NoBackend
  <2> DEFINE b == slot[w]
  <2>0. b \in Capped
    BY <1>2
  <2>1. /\ active' = [active EXCEPT ![b] = IF @ = 0 THEN 0 ELSE @ - 1]
        /\ slot' = [slot EXCEPT ![w] = NoBackend]
    BY <1>2 DEF DropSlot
  <2> HIDE DEF b
  <2>2. w \in Holders(slot, b) /\ active[b] = Cardinality(Holders(slot, b))
    BY <2>0 DEF b, SlotsAccounted, Holders
  <2>3. Holders(slot', b) = Holders(slot, b) \ {w}
    BY <1>0, <2>0, <2>1 DEF Holders
  <2>4. Cardinality(Holders(slot', b)) = Cardinality(Holders(slot, b)) - 1
    BY <2>2, <2>3, HoldersFinite, FS_RemoveElement
  <2>5. Cardinality(Holders(slot', b)) \in Nat
    BY HoldersFinite
  <2>6. active[b] \in Nat /\ active[b] # 0
    BY <2>0, <2>2, <2>4, <2>5
  <2>7. /\ active' \in [Capped -> Nat]
        /\ active'[b] = active[b] - 1
        /\ \A c \in Capped : c # b => active'[c] = active[c]
    BY <2>0, <2>1, <2>6
  <2>8. CountWithinCap'
    BY <1>0, <2>0, <2>7 DEF CountWithinCap
  <2>9. ASSUME NEW c \in Capped, c # b
        PROVE  Holders(slot', c) = Holders(slot, c)
    BY <1>0, <2>1, <2>9, b = slot[w] DEF Holders, b
  <2>10. SlotsAccounted'
    BY <2>2, <2>4, <2>7, <2>9 DEF SlotsAccounted, Holders
  <2> QED
    BY <2>1, <2>7, <2>8, <2>10
<1> QED
  BY <1>1, <1>2
-----------------------------------------------------------------------------
(* Every step preserves the invariant. *)

\* The server starts in the invariant: no thread walks, no slot is taken.
LEMMA InitIInv == Init => IInv
<1> SUFFICES ASSUME Init PROVE IInv
  OBVIOUS
<1> USE ConfigAssumption
<1>1. TypeOK
  BY DEF Init, TypeOK, PC, Never, NoDeadline
<1>2. LegInRange /\ GuardMatchesCall
  BY DEF Init, LegInRange, GuardMatchesCall
<1>3. CountWithinCap
  BY DEF Init, CountWithinCap
<1>4. ASSUME NEW b \in Capped
      PROVE  active[b] = Cardinality({w \in Walker : slot[w] = b})
  <2>1. {w \in Walker : slot[w] = b} = {}
    BY DEF Init
  <2> QED
    BY <2>1, FS_EmptySet DEF Init
<1> QED
  BY <1>1, <1>2, <1>3, <1>4 DEF IInv, SlotsAccounted

\* At a call, and while snapshotting, the current backend is one.
LEMMA CurrentBackendType ==
  ASSUME TypeOK, LegInRange, NEW w \in Walker,
         \/ pc[w] \in {"snapshot", "clamp", "calling", "failed", "won"}
         \/ pc[w] = "leg" /\ leg[w] <= Len(chain[w])
  PROVE  leg[w] \in 1 .. Len(chain[w]) /\ CurrentBackend(w) \in Backend
<1>1. leg[w] \in 1 .. Len(chain[w])
  BY DEF TypeOK, LegInRange
<1>2. chain[w] \in Seq(Backend)
  BY DEF TypeOK
<1> QED
  BY <1>1, <1>2 DEF CurrentBackend

\* A walk begins well typed, at the first leg of a non-empty chain.
LEMMA BeginWalkInv ==
  ASSUME TypeOK, LegInRange, NEW w \in Walker, NEW c \in Chains, BeginWalk(w, c)
  PROVE  /\ pc' \in [Walker -> PC]
         /\ chain' \in [Walker -> Seq(Backend)]
         /\ leg' \in [Walker -> Nat]
         /\ cooling' \in [Walker -> SUBSET Nat]
         /\ errors' \in [Walker -> Seq([backend : Backend, why : Why])]
         /\ startedAt' \in [Walker -> Nat]
         /\ LegInRange'
<1>1. c \in Seq(Backend) /\ Len(c) \in Nat \ {0}
  BY ConfigAssumption
<1>2. /\ pc' \in [Walker -> PC]
      /\ chain' \in [Walker -> Seq(Backend)]
      /\ leg' \in [Walker -> Nat]
      /\ startedAt' \in [Walker -> Nat]
  BY <1>1 DEF TypeOK, BeginWalk, PC
<1>3. /\ cooling' \in [Walker -> SUBSET Nat]
      /\ errors' \in [Walker -> Seq([backend : Backend, why : Why])]
  <2> DEFINE E == [backend : Backend, why : Why]
  <2>1. <<>> \in Seq(E)
    <3> HIDE DEF E
    <3> QED OBVIOUS
  <2>2. /\ errors \in [Walker -> Seq(E)]
        /\ errors' = [errors EXCEPT ![w] = <<>>]
    BY DEF TypeOK, BeginWalk
  <2>3. errors' \in [Walker -> Seq(E)]
    <3> HIDE DEF E
    <3> QED BY <2>1, <2>2
  <2>4. cooling' \in [Walker -> SUBSET Nat]
    BY DEF TypeOK, BeginWalk
  <2> QED
    BY <2>3, <2>4
<1>4. LegInRange'
  BY <1>1 DEF TypeOK, LegInRange, BeginWalk
<1> QED
  BY <1>2, <1>3, <1>4

\* A forgotten walk is back in its initial state.
LEMMA ForgetWalkInv ==
  ASSUME TypeOK, LegInRange, NEW w \in Walker, ForgetWalk(w)
  PROVE  /\ pc' \in [Walker -> PC]
         /\ chain' \in [Walker -> Seq(Backend)]
         /\ leg' \in [Walker -> Nat]
         /\ cooling' \in [Walker -> SUBSET Nat]
         /\ errors' \in [Walker -> Seq([backend : Backend, why : Why])]
         /\ startedAt' \in [Walker -> Nat]
         /\ mark' \in [Walker -> Nat \cup {NoDeadline}]
         /\ LegInRange'
<1>0. <<>> \in Seq(Backend) /\ "idle" \in PC
  BY DEF PC
<1>1. /\ pc' \in [Walker -> PC]
      /\ chain' \in [Walker -> Seq(Backend)]
      /\ leg' \in [Walker -> Nat]
      /\ startedAt' \in [Walker -> Nat]
      /\ mark' \in [Walker -> Nat \cup {NoDeadline}]
  BY <1>0 DEF TypeOK, ForgetWalk
<1>2. /\ cooling' \in [Walker -> SUBSET Nat]
      /\ errors' \in [Walker -> Seq([backend : Backend, why : Why])]
  <2> DEFINE E == [backend : Backend, why : Why]
  <2>1. <<>> \in Seq(E)
    <3> HIDE DEF E
    <3> QED OBVIOUS
  <2>2. /\ errors \in [Walker -> Seq(E)]
        /\ errors' = [errors EXCEPT ![w] = <<>>]
    BY DEF TypeOK, ForgetWalk
  <2>3. errors' \in [Walker -> Seq(E)]
    <3> HIDE DEF E
    <3> QED BY <2>1, <2>2
  <2>4. cooling' \in [Walker -> SUBSET Nat]
    BY DEF TypeOK, ForgetWalk
  <2> QED
    BY <2>3, <2>4
<1>3. LegInRange'
  BY DEF TypeOK, LegInRange, ForgetWalk
<1> QED
  BY <1>1, <1>2, <1>3

\* Giving up a leg appends a well-typed error and moves to the next leg.
LEMMA GiveUpLegInv ==
  ASSUME TypeOK, NEW w \in Walker, CurrentBackend(w) \in Backend,
         NEW why \in Why, GiveUpLeg(w, why)
  PROVE  /\ errors' \in [Walker -> Seq([backend : Backend, why : Why])]
         /\ leg' = [leg EXCEPT ![w] = @ + 1]
         /\ leg' \in [Walker -> Nat]
<1> DEFINE e == [backend |-> CurrentBackend(w), why |-> why]
           E == [backend : Backend, why : Why]
<1>1. e \in E
  OBVIOUS
<1>2. errors[w] \in Seq(E)
  BY DEF TypeOK
<1>3. errors' = [errors EXCEPT ![w] = Append(errors[w], e)]
  BY DEF GiveUpLeg
<1>4. errors \in [Walker -> Seq(E)]
  BY DEF TypeOK
<1>5. Append(errors[w], e) \in Seq(E)
  <2> HIDE DEF e, E
  <2> QED BY <1>1, <1>2
<1>6. errors' \in [Walker -> Seq(E)]
  <2> HIDE DEF e, E
  <2> QED BY <1>3, <1>4, <1>5
<1>7. leg' = [leg EXCEPT ![w] = @ + 1] /\ leg' \in [Walker -> Nat]
  BY DEF GiveUpLeg, TypeOK
<1> QED
  BY <1>6, <1>7

\* What recording a failure leaves behind: a positive count and, where
\* cooldowns are on, a later time.
RecordFailureType(b, kind) ==
  /\ failures' \in [Backend -> Nat] /\ failures'[b] > 0
  /\ coolingUntil' \in [Backend -> Nat \cup {Never}]

LEMMA RecordFailureTyped ==
  ASSUME now \in Nat, failures \in [Backend -> Nat],
         coolingUntil \in [Backend -> Nat \cup {Never}],
         NEW b \in Backend, NEW kind \in Failure, RecordFailure(b, kind)
  PROVE  RecordFailureType(b, kind)
<1>1. failures' = [failures EXCEPT ![b] = Lesser(@ + 1, FailureMax)]
  BY DEF RecordFailure
<1>2. Lesser(failures[b] + 1, FailureMax) \in Nat \ {0}
  BY TimeAssumption DEF Lesser
<1>3. failures' \in [Backend -> Nat] /\ failures'[b] \in Nat \ {0}
  BY <1>1, <1>2
<1>4. now + CooldownFor(kind, failures'[b]) \in Nat
  BY <1>3, CooldownForBounds
<1>5. coolingUntil' \in [Backend -> Nat \cup {Never}]
  BY <1>4 DEF RecordFailure
<1> QED
  BY <1>3, <1>5 DEF RecordFailureType

\* A step that leaves the counters, the guards and the health alone keeps what
\* says something about them only.
LEMMA SlotsUntouched ==
  ASSUME UNCHANGED <<active, slot>>, SlotsAccounted, CountWithinCap
  PROVE  SlotsAccounted' /\ CountWithinCap'
BY DEF SlotsAccounted, CountWithinCap

\* Every step of every thread, and of the clock, keeps the invariant.
LEMMA NextIInv == IInv /\ [Next]_vars => IInv'
<1> SUFFICES ASSUME IInv, [Next]_vars PROVE IInv'
  OBVIOUS
<1> USE DEF IInv
<1>0. NoBackend \notin Backend /\ NoBackend \notin Capped /\ Capped \subseteq Backend
  BY ConfigAssumption
<1>1. ASSUME NEW w \in Walker, RequestDirect(w) PROVE IInv'
  <2>1. PICK c \in Chains : BeginWalk(w, c)
    BY <1>1 DEF RequestDirect
  <2>2. UNCHANGED <<now, active, failures, coolingUntil, slot, mark>> /\ pc[w] = "idle"
    BY <1>1 DEF RequestDirect, health
  <2>3. TypeOK' /\ LegInRange'
    BY <2>1, <2>2, BeginWalkInv DEF TypeOK
  <2>4. GuardMatchesCall'
    BY <2>1, <2>2 DEF GuardMatchesCall, BeginWalk, CurrentBackend, TypeOK
  <2> QED
    BY <2>2, <2>3, <2>4, SlotsUntouched
<1>2. ASSUME NEW w \in Walker, RequestRouted(w) PROVE IInv'
  <2>1. /\ pc[w] = "idle" /\ pc' = [pc EXCEPT ![w] = "classify"]
        /\ Classifier \in Backend
        /\ UNCHANGED <<now, active, failures, coolingUntil, slot, mark,
                       chain, leg, cooling, errors, startedAt>>
    BY <1>2, ConfigAssumption DEF RequestRouted, health, walk
  <2>2. TypeOK'
    BY <2>1 DEF TypeOK, PC
  <2>3. LegInRange'
    BY <2>1 DEF TypeOK, LegInRange
  <2>4. GuardMatchesCall'
    BY <2>1 DEF GuardMatchesCall, CurrentBackend, TypeOK
  <2> QED
    BY <2>1, <2>2, <2>3, <2>4, SlotsUntouched
<1>3. ASSUME NEW w \in Walker, ClassifierBusy(w) PROVE IInv'
  <2>1. FallbackTarget \in Chains
    BY <1>3, ConfigAssumption DEF ClassifierBusy, LegInRange
  <2>2. /\ BeginWalk(w, FallbackTarget) /\ pc[w] = "classify"
        /\ UNCHANGED <<now, active, failures, coolingUntil, slot, mark>>
    BY <1>3 DEF ClassifierBusy, health
  <2>3. TypeOK' /\ LegInRange'
    BY <2>1, <2>2, BeginWalkInv DEF TypeOK
  <2>4. GuardMatchesCall'
    BY <2>2 DEF GuardMatchesCall, BeginWalk, CurrentBackend, TypeOK
  <2> QED
    BY <2>2, <2>3, <2>4, SlotsUntouched
<1>4. ASSUME NEW w \in Walker, CallClassifier(w) PROVE IInv'
  <2>1. /\ pc[w] = "classify" /\ pc' = [pc EXCEPT ![w] = "classifying"]
        /\ HasRoom(Classifier) /\ TakeSlot(w, Classifier)
        /\ UNCHANGED <<now, failures, coolingUntil, mark, chain, leg, cooling, errors, startedAt>>
    BY <1>4 DEF CallClassifier, health, walk
  <2>2. Classifier \in Backend /\ slot[w] = NoBackend
    BY <2>1 DEF LegInRange, GuardMatchesCall
  <2>3. /\ active' \in [Capped -> Nat]
        /\ slot' = [slot EXCEPT ![w] = SlotFor(Classifier)]
        /\ SlotsAccounted' /\ CountWithinCap'
    BY <2>1, <2>2, TakeSlotCounts DEF TypeOK
  <2>4. TypeOK'
    BY <2>1, <2>3 DEF TypeOK, PC, SlotFor
  <2>5. LegInRange'
    BY <2>1, <2>2 DEF TypeOK, LegInRange
  <2>6. GuardMatchesCall'
    BY <2>1, <2>3 DEF GuardMatchesCall, CurrentBackend, TypeOK
  <2> QED
    BY <2>3, <2>4, <2>5, <2>6
<1>5. ASSUME NEW w \in Walker, Classified(w) PROVE IInv'
  <2>1. PICK c \in Chains : BeginWalk(w, c)
    BY <1>5, ConfigAssumption DEF Classified
  <2>2. DropSlot(w) /\ UNCHANGED <<now, failures, coolingUntil, mark>>
    BY <1>5 DEF Classified, health
  <2>3. /\ active' \in [Capped -> Nat]
        /\ slot' = [slot EXCEPT ![w] = NoBackend]
        /\ SlotsAccounted' /\ CountWithinCap'
    BY <2>2, DropSlotCounts DEF TypeOK
  <2>4. TypeOK' /\ LegInRange'
    BY <2>1, <2>2, <2>3, BeginWalkInv DEF TypeOK
  <2>5. GuardMatchesCall'
    BY <2>1, <2>3 DEF GuardMatchesCall, BeginWalk, CurrentBackend, TypeOK
  <2> QED
    BY <2>3, <2>4, <2>5
<1>6. ASSUME NEW w \in Walker, SnapshotCooling(w) PROVE IInv'
  <2>1. /\ pc[w] = "snapshot"
        /\ UNCHANGED <<now, active, failures, coolingUntil, chain, errors, slot, startedAt, mark>>
    BY <1>6 DEF SnapshotCooling, health
  <2>2. leg[w] \in 1 .. Len(chain[w]) /\ Len(chain[w]) \in Nat
    <3>1. chain[w] \in Seq(Backend)
      BY DEF TypeOK
    <3> QED
      BY <2>1, <3>1, CurrentBackendType
  <2>3. \/ /\ leg[w] < Len(chain[w])
           /\ leg' = [leg EXCEPT ![w] = @ + 1]
           /\ pc' = pc
        \/ /\ leg' = [leg EXCEPT ![w] = 1]
           /\ pc' = [pc EXCEPT ![w] = "leg"]
    BY <1>6 DEF SnapshotCooling
  <2>4. cooling' \in [Walker -> SUBSET Nat]
    <3>1. cooling \in [Walker -> SUBSET Nat] /\ leg[w] \in Nat
      BY DEF TypeOK
    <3>2. PICK s \in SUBSET Nat : cooling' = [cooling EXCEPT ![w] = s]
      BY <1>6, <3>1 DEF SnapshotCooling
    <3> QED
      BY <3>1, <3>2
  <2>5. leg' \in [Walker -> Nat] /\ pc' \in [Walker -> PC]
    <3>1. leg \in [Walker -> Nat] /\ pc \in [Walker -> PC] /\ "leg" \in PC /\ 1 \in Nat
      BY DEF TypeOK, PC
    <3>2. leg[w] + 1 \in Nat
      BY <3>1
    <3> QED
      BY <2>3, <3>1, <3>2
  <2>6. TypeOK'
    <3>1. /\ now' \in Nat /\ active' \in [Capped -> Nat]
          /\ failures' \in [Backend -> Nat]
          /\ coolingUntil' \in [Backend -> Nat \cup {Never}]
          /\ slot' \in [Walker -> Capped \cup {NoBackend}]
          /\ startedAt' \in [Walker -> Nat]
          /\ mark' \in [Walker -> Nat \cup {NoDeadline}]
      BY <2>1 DEF TypeOK
    <3>2. /\ chain' \in [Walker -> Seq(Backend)]
          /\ errors' \in [Walker -> Seq([backend : Backend, why : Why])]
      BY <2>1 DEF TypeOK
    <3> QED
      BY <2>4, <2>5, <3>1, <3>2 DEF TypeOK
  <2>7. LegInRange'
    <3>1. pc \in [Walker -> PC] /\ leg \in [Walker -> Nat]
      BY DEF TypeOK
    <3>2. CASE leg[w] < Len(chain[w]) /\ leg' = [leg EXCEPT ![w] = @ + 1] /\ pc' = pc
      BY <2>1, <2>2, <3>1, <3>2 DEF LegInRange
    <3>3. CASE leg' = [leg EXCEPT ![w] = 1] /\ pc' = [pc EXCEPT ![w] = "leg"]
      BY <2>1, <2>2, <3>1, <3>3 DEF LegInRange
    <3> QED
      BY <2>3, <3>2, <3>3
  <2>8. GuardMatchesCall'
    BY <2>1, <2>3 DEF GuardMatchesCall, CurrentBackend, TypeOK
  <2> QED
    BY <2>1, <2>6, <2>7, <2>8, SlotsUntouched
<1>7. ASSUME NEW w \in Walker, SkipBudget(w) \/ SkipCooling(w) \/ SkipBusy(w) PROVE IInv'
  <2>1. PICK why \in Why : GiveUpLeg(w, why)
    BY <1>7 DEF SkipBudget, SkipCooling, SkipBusy, Why
  <2>2. /\ AtLeg(w)
        /\ UNCHANGED <<now, active, failures, coolingUntil, pc, chain, cooling, slot, startedAt, mark>>
    BY <1>7 DEF SkipBudget, SkipCooling, SkipBusy, health
  <2>3. leg[w] \in 1 .. Len(chain[w]) /\ CurrentBackend(w) \in Backend /\ pc[w] = "leg"
    BY <2>2, CurrentBackendType DEF AtLeg
  <2>4. /\ errors' \in [Walker -> Seq([backend : Backend, why : Why])]
        /\ leg' = [leg EXCEPT ![w] = @ + 1]
        /\ leg' \in [Walker -> Nat]
    BY <2>1, <2>3, GiveUpLegInv
  <2>5. TypeOK'
    BY <2>2, <2>4 DEF TypeOK
  <2>6. LegInRange'
    BY <2>2, <2>3, <2>4, SMTT(30) DEF TypeOK, LegInRange
  <2>7. GuardMatchesCall'
    BY <2>2, <2>3, <2>4 DEF GuardMatchesCall, CurrentBackend, TypeOK
  <2> QED
    BY <2>2, <2>5, <2>6, <2>7, SlotsUntouched
<1>8. ASSUME NEW w \in Walker, ReserveLeg(w) PROVE IInv'
  <2>1. /\ AtLeg(w) /\ HasRoom(CurrentBackend(w)) /\ TakeSlot(w, CurrentBackend(w))
        /\ pc' = [pc EXCEPT ![w] = "clamp"] /\ mark' = [mark EXCEPT ![w] = now]
        /\ UNCHANGED <<now, failures, coolingUntil, chain, leg, cooling, errors, startedAt>>
    BY <1>8 DEF ReserveLeg, health, walk
  <2>2. leg[w] \in 1 .. Len(chain[w]) /\ CurrentBackend(w) \in Backend /\ pc[w] = "leg"
    BY <2>1, CurrentBackendType DEF AtLeg
  <2>3. slot[w] = NoBackend
    BY <2>2 DEF GuardMatchesCall
  <2>4. /\ active' \in [Capped -> Nat]
        /\ slot' = [slot EXCEPT ![w] = SlotFor(CurrentBackend(w))]
        /\ SlotsAccounted' /\ CountWithinCap'
    BY <2>1, <2>2, <2>3, TakeSlotCounts DEF TypeOK
  <2>5. TypeOK'
    BY <2>1, <2>4 DEF TypeOK, PC, SlotFor
  <2>6. LegInRange'
    BY <2>1, <2>2 DEF TypeOK, LegInRange
  <2>7. GuardMatchesCall'
    BY <2>1, <2>4 DEF GuardMatchesCall, CurrentBackend, TypeOK
  <2> QED
    BY <2>4, <2>5, <2>6, <2>7
<1>9. ASSUME NEW w \in Walker, CallLeg(w) PROVE IInv'
  <2>1. /\ pc[w] = "clamp" /\ pc' = [pc EXCEPT ![w] = "calling"]
        /\ mark' = [mark EXCEPT ![w] = CallDeadline(w)]
        /\ UNCHANGED <<now, active, failures, coolingUntil, slot, chain, leg, cooling, errors, startedAt>>
    BY <1>9 DEF CallLeg, health, walk
  <2>2. CurrentBackend(w) \in Backend
    BY <2>1, CurrentBackendType
  <2>3. LegTimeout[CurrentBackend(w)] \in Nat /\ Budget \in Nat
    BY <2>2, TimeAssumption
  <2>4. Remaining(w) \in Nat
    BY <2>3 DEF Remaining, TypeOK
  <2>5. Timeout(w) \in Nat
    BY <2>3, <2>4, LesserNat DEF Timeout
  <2>6. CallDeadline(w) \in Nat \cup {NoDeadline}
    BY <2>5 DEF CallDeadline, TypeOK
  <2>7. TypeOK'
    BY <2>1, <2>6 DEF TypeOK, PC
  <2>8. LegInRange'
    BY <2>1 DEF TypeOK, LegInRange
  <2>9. GuardMatchesCall'
    BY <2>1 DEF GuardMatchesCall, CurrentBackend, TypeOK
  <2> QED
    BY <2>1, <2>7, <2>8, <2>9, SlotsUntouched
<1>10. ASSUME NEW w \in Walker, NEW output \in Output, LegSucceeds(w, output) PROVE IInv'
  <2>1. /\ pc[w] = "calling" /\ pc' = [pc EXCEPT ![w] = "won"]
        /\ mark' = [mark EXCEPT ![w] = 0]
        /\ UNCHANGED <<now, active, slot, chain, leg, cooling, errors, startedAt>>
        /\ RecordSuccess(CurrentBackend(w))
    BY <1>10 DEF LegSucceeds, walk
  <2>2. CurrentBackend(w) \in Backend
    BY <2>1, CurrentBackendType
  <2>3. /\ failures' \in [Backend -> Nat]
        /\ coolingUntil' \in [Backend -> Nat \cup {Never}]
    BY <2>1, <2>2 DEF RecordSuccess, TypeOK
  <2>4. TypeOK'
    BY <2>1, <2>3 DEF TypeOK, PC
  <2>5. LegInRange'
    BY <2>1 DEF TypeOK, LegInRange
  <2>6. GuardMatchesCall'
    BY <2>1 DEF GuardMatchesCall, CurrentBackend, TypeOK
  <2> QED
    BY <2>1, <2>4, <2>5, <2>6, SlotsUntouched
<1>11. ASSUME NEW w \in Walker, NEW kind \in Failure, LegFails(w, kind) PROVE IInv'
  <2>1. /\ pc[w] = "calling" /\ pc' = [pc EXCEPT ![w] = "failed"]
        /\ mark' = [mark EXCEPT ![w] = 0]
        /\ UNCHANGED <<now, active, slot, chain, leg, cooling, errors, startedAt>>
        /\ RecordFailure(CurrentBackend(w), kind)
    BY <1>11 DEF LegFails, walk
  <2>2. CurrentBackend(w) \in Backend
    BY <2>1, CurrentBackendType
  <2>3. RecordFailureType(CurrentBackend(w), kind)
    BY <2>1, <2>2, RecordFailureTyped DEF TypeOK
  <2>4. TypeOK'
    BY <2>1, <2>3 DEF TypeOK, PC, RecordFailureType
  <2>5. LegInRange'
    BY <2>1 DEF TypeOK, LegInRange
  <2>6. GuardMatchesCall'
    BY <2>1 DEF GuardMatchesCall, CurrentBackend, TypeOK
  <2> QED
    BY <2>1, <2>4, <2>5, <2>6, SlotsUntouched
<1>12. ASSUME NEW w \in Walker, NextLeg(w) PROVE IInv'
  <2>1. /\ pc[w] = "failed" /\ pc' = [pc EXCEPT ![w] = "leg"]
        /\ GiveUpLeg(w, "tried") /\ DropSlot(w)
        /\ UNCHANGED <<now, failures, coolingUntil, chain, cooling, startedAt, mark>>
    BY <1>12 DEF NextLeg, health
  <2>2. leg[w] \in 1 .. Len(chain[w]) /\ CurrentBackend(w) \in Backend
    BY <2>1, CurrentBackendType
  <2>3. /\ errors' \in [Walker -> Seq([backend : Backend, why : Why])]
        /\ leg' = [leg EXCEPT ![w] = @ + 1]
        /\ leg' \in [Walker -> Nat]
    BY <2>1, <2>2, GiveUpLegInv DEF Why
  <2>4. /\ active' \in [Capped -> Nat]
        /\ slot' = [slot EXCEPT ![w] = NoBackend]
        /\ SlotsAccounted' /\ CountWithinCap'
    BY <2>1, DropSlotCounts DEF TypeOK
  <2>5. TypeOK'
    BY <2>1, <2>3, <2>4 DEF TypeOK, PC
  <2>6. LegInRange'
    BY <2>1, <2>2, <2>3 DEF TypeOK, LegInRange
  <2>7. GuardMatchesCall'
    BY <2>1, <2>3, <2>4 DEF GuardMatchesCall, CurrentBackend, TypeOK
  <2> QED
    BY <2>4, <2>5, <2>6, <2>7
<1>13. ASSUME NEW w \in Walker, ReturnWinner(w) PROVE IInv'
  <2>1. /\ pc[w] = "won" /\ pc' = [pc EXCEPT ![w] = "answer"] /\ DropSlot(w)
        /\ UNCHANGED <<now, failures, coolingUntil, chain, leg, cooling, errors, startedAt, mark>>
    BY <1>13 DEF ReturnWinner, health, walk
  <2>2. /\ active' \in [Capped -> Nat]
        /\ slot' = [slot EXCEPT ![w] = NoBackend]
        /\ SlotsAccounted' /\ CountWithinCap'
    BY <2>1, DropSlotCounts DEF TypeOK
  <2>3. TypeOK'
    BY <2>1, <2>2 DEF TypeOK, PC
  <2>4. LegInRange'
    BY <2>1 DEF TypeOK, LegInRange
  <2>5. GuardMatchesCall'
    BY <2>1, <2>2 DEF GuardMatchesCall, CurrentBackend, TypeOK
  <2> QED
    BY <2>2, <2>3, <2>4, <2>5
<1>14. ASSUME NEW w \in Walker, ReturnErrors(w) PROVE IInv'
  <2>1. /\ pc[w] = "leg" /\ pc' = [pc EXCEPT ![w] = "answer"]
        /\ UNCHANGED <<now, active, slot, failures, coolingUntil, chain, leg, cooling, errors, startedAt, mark>>
    BY <1>14 DEF ReturnErrors, health, walk
  <2>2. TypeOK'
    BY <2>1 DEF TypeOK, PC
  <2>3. LegInRange'
    BY <2>1 DEF TypeOK, LegInRange
  <2>4. GuardMatchesCall'
    BY <2>1 DEF GuardMatchesCall, CurrentBackend, TypeOK
  <2> QED
    BY <2>1, <2>2, <2>3, <2>4, SlotsUntouched
<1>15. ASSUME NEW w \in Walker, Panic(w) PROVE IInv'
  <2>1. DropSlot(w) /\ ForgetWalk(w) /\ UNCHANGED <<now, failures, coolingUntil>>
    BY <1>15 DEF Panic, health
  <2>2. /\ active' \in [Capped -> Nat]
        /\ slot' = [slot EXCEPT ![w] = NoBackend]
        /\ SlotsAccounted' /\ CountWithinCap'
    BY <2>1, DropSlotCounts DEF TypeOK
  <2>3. TypeOK' /\ LegInRange'
    BY <2>1, <2>2, ForgetWalkInv DEF TypeOK
  <2>4. GuardMatchesCall'
    BY <2>1, <2>2 DEF GuardMatchesCall, ForgetWalk, CurrentBackend, TypeOK
  <2> QED
    BY <2>2, <2>3, <2>4
<1>16. ASSUME NEW w \in Walker, Respond(w) PROVE IInv'
  <2>1. /\ pc[w] = "answer" /\ ForgetWalk(w)
        /\ UNCHANGED <<now, active, slot, failures, coolingUntil>>
    BY <1>16 DEF Respond, health
  <2>2. TypeOK' /\ LegInRange'
    BY <2>1, ForgetWalkInv DEF TypeOK
  <2>3. GuardMatchesCall'
    BY <2>1 DEF GuardMatchesCall, ForgetWalk, CurrentBackend, TypeOK
  <2> QED
    BY <2>1, <2>2, <2>3, SlotsUntouched
<1>17. ASSUME Tick PROVE IInv'
  <2>1. /\ now' = now + 1
        /\ UNCHANGED <<active, failures, coolingUntil, pc, chain, leg, cooling, errors, startedAt, slot, mark>>
    BY <1>17 DEF Tick, health, walk
  <2>2. TypeOK'
    <3>1. now' \in Nat
      BY <2>1 DEF TypeOK
    <3> QED
      BY <2>1, <3>1 DEF TypeOK
  <2>3. LegInRange' /\ GuardMatchesCall'
    BY <2>1 DEF LegInRange, GuardMatchesCall, CurrentBackend
  <2> QED
    BY <2>1, <2>2, <2>3, SlotsUntouched
<1>18. ASSUME UNCHANGED vars PROVE IInv'
  BY <1>18 DEF vars, TypeOK, LegInRange, GuardMatchesCall, CurrentBackend,
               SlotsAccounted, CountWithinCap
<1> QED
  BY <1>1, <1>2, <1>3, <1>4, <1>5, <1>6, <1>7, <1>8, <1>9, <1>10, <1>11, <1>12,
     <1>13, <1>14, <1>15, <1>16, <1>17, <1>18 DEF Next, Receive, Step
-----------------------------------------------------------------------------
(* The theorems. *)

\* The inductive invariant holds throughout: it ties each guard to the call
\* its owner is at, which is what makes the count of guards preserved.
THEOREM InductiveInvariant == Spec => []IInv
<1>1. Init => IInv
  BY InitIInv
<1>2. IInv /\ [Next]_vars => IInv'
  BY NextIInv
<1> QED
  BY <1>1, <1>2, PTL DEF Spec

\* Every variable of the walk keeps its type.
THEOREM TypeCorrect == Spec => []TypeOK
<1>1. IInv => TypeOK
  BY DEF IInv
<1> QED
  BY <1>1, InductiveInvariant, PTL

\* State.active counts exactly the live ActiveSlot guards, through fallbacks,
\* wins and panics alike.
THEOREM SlotCounterExact == Spec => []SlotsAccounted
<1>1. IInv => SlotsAccounted
  BY DEF IInv
<1> QED
  BY <1>1, InductiveInvariant, PTL

\* A thread outside a call owns no slot, so an answered client occupies none.
THEOREM NoSlotOutsideCalls == Spec => []IdleOwnsNoSlot
<1>1. IInv => IdleOwnsNoSlot
  BY DEF IInv, GuardMatchesCall, IdleOwnsNoSlot
<1> QED
  BY <1>1, InductiveInvariant, PTL

\* No backend serves more calls at once than its max_concurrent, the calls of
\* chains and of the classifier counted together.
THEOREM CapHolds == Spec => []CapRespected
<1>1. ASSUME IInv, NEW b \in Capped
      PROVE  Cardinality(Serving(b)) <= Cap[b]
  <2>1. Serving(b) \subseteq Holders(slot, b)
    <3>1. ASSUME NEW w \in Walker, pc[w] = "calling", CurrentBackend(w) = b
          PROVE  slot[w] = b
      BY <1>1, <3>1 DEF IInv, GuardMatchesCall, SlotFor
    <3>2. ASSUME NEW w \in Walker, pc[w] = "classifying", Classifier = b
          PROVE  slot[w] = b
      BY <1>1, <3>2 DEF IInv, GuardMatchesCall, SlotFor
    <3> QED
      BY <3>1, <3>2 DEF Serving, Holders
  <2>2. /\ Cardinality(Serving(b)) <= Cardinality(Holders(slot, b))
        /\ Cardinality(Serving(b)) \in Nat
    BY <2>1, HoldersFinite, FS_Subset, FS_CardinalityType
  <2>3. Cardinality(Holders(slot, b)) = active[b] /\ active[b] <= Cap[b] /\ Cap[b] \in Nat
    BY <1>1, ConfigAssumption DEF IInv, SlotsAccounted, CountWithinCap, Holders
  <2> QED
    BY <2>2, <2>3, HoldersFinite
<1>2. IInv => CapRespected
  BY <1>1 DEF CapRespected
<1> QED
  BY <1>2, InductiveInvariant, PTL

\* The threads that are between the taking of a slot and its guard's drop, for b.
Engaged(b) ==
  {w \in Walker : \/ pc[w] \in {"clamp", "calling", "failed", "won"} /\ CurrentBackend(w) = b
                  \/ pc[w] = "classifying" /\ Classifier = b}

\* A backend turns requests away only while exactly max_concurrent threads are at a
\* call to it, about to make it or just back from it: no rejection is owed to a slot
\* that a panic, an early return or a lost race left behind.
BusyMeansEngaged == \A b \in Capped : ~HasRoom(b) => Cardinality(Engaged(b)) = Cap[b]

THEOREM BusyOnlyWhileEngaged == Spec => []BusyMeansEngaged
<1>1. ASSUME IInv, NEW b \in Capped, ~HasRoom(b)
      PROVE  Cardinality(Engaged(b)) = Cap[b]
  <2>0. NoBackend # b
    BY ConfigAssumption
  <2>1. Engaged(b) = Holders(slot, b)
    <3>1. ASSUME NEW w \in Walker
          PROVE  w \in Engaged(b) <=> slot[w] = b
      <4>1. CASE pc[w] = "classifying"
        BY <1>1, <2>0, <4>1 DEF IInv, GuardMatchesCall, SlotFor, Engaged
      <4>2. CASE pc[w] \in {"clamp", "calling", "failed", "won"}
        BY <1>1, <2>0, <4>2 DEF IInv, GuardMatchesCall, SlotFor, Engaged
      <4>3. CASE pc[w] \notin {"classifying", "clamp", "calling", "failed", "won"}
        BY <1>1, <2>0, <4>3 DEF IInv, GuardMatchesCall, Engaged
      <4> QED BY <4>1, <4>2, <4>3
    <3> QED BY <3>1 DEF Engaged, Holders
  <2>2. Cardinality(Holders(slot, b)) = active[b] /\ active[b] <= Cap[b]
    BY <1>1 DEF IInv, SlotsAccounted, CountWithinCap, Holders
  <2>3. active[b] \in Nat /\ Cap[b] \in Nat /\ ~(active[b] < Cap[b])
    BY <1>1, ConfigAssumption DEF IInv, TypeOK, HasRoom
  <2> QED
    BY <2>1, <2>2, <2>3
<1>2. IInv => BusyMeansEngaged
  BY <1>1 DEF BusyMeansEngaged
<1> QED
  BY <1>2, InductiveInvariant, PTL
=============================================================================
