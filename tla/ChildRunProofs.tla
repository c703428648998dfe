---------------------------- MODULE ChildRunProofs ----------------------------
(***************************************************************************)
(* Proofs that ChildRun takes only whole outputs for answers and leaves no *)
(* child behind, for programs, prompts and pipes of any length.            *)
(***************************************************************************)
EXTENDS ChildRun, TLAPS

\* How far the caller is tells what has become of the child.
ChildFollows ==
  /\ caller = "spawning" => child = "none"
  /\ child = "none" => /\ \A s \in Stream : drainer[s] = "none"
                       /\ caller = "spawning" \/ (caller = "returned" /\ outcome = "spawn")
  /\ child = "killed" => \/ caller = "reaping"
                         \/ caller = "returned" /\ outcome = "timeout"
  /\ caller \in {"reaping", "out", "err", "deciding", "returned"} => child # "running"
  /\ caller \in {"out", "err", "deciding"} \/ (caller = "returned" /\ child # "none") => reaped

\* Nothing is decided before the end, and an answer is of a child that exited.
OutcomeAtEnd ==
  /\ caller # "returned" => outcome = "none"
  /\ outcome = "content" => /\ child \in {"ok", "fail"}
                            /\ child = "fail" => stdout > 0

\* A stream that was sent is whole, and nobody can add to it.
SentIsWhole ==
  \A s \in Stream : drainer[s] = "sent" =>
    pipe[s] = 0 /\ child \notin {"none", "running"}

\* What the caller holds of stdout is nothing or all of it.
StdoutWhole == stdout # 0 => stdout = wrote["out"] /\ child \notin {"none", "running"}

IInv == TypeOK /\ ChildFollows /\ OutcomeAtEnd /\ SentIsWhole /\ StdoutWhole

LEMMA InitIInv == Init => IInv
<1> SUFFICES ASSUME Init PROVE IInv
  OBVIOUS
<1> USE ChildAssumption
<1>1. /\ program \in Seq({"read"} \cup Stream)
      /\ unsent \in 0 .. PromptLen /\ stdin \in 0 .. PipeCap
  BY SMT DEF Init
<1>2. wrote \in [Stream -> Nat] /\ pipe \in [Stream -> 0 .. PipeCap]
  BY SMT DEF Init
<1>3. \A s \in Stream : pipe[s] <= wrote[s]
  BY SMT DEF Init
<1>4. drainer \in [Stream -> {"none", "reading", "sent"}] /\ stdout \in Nat
  BY SMT DEF Init
<1>5. report \in {"completed", "other", "raw"}
  BY DEF Init
<1>6. TypeOK
  BY <1>1, <1>2, <1>3, <1>4, <1>5 DEF Init, TypeOK
<1>7. ChildFollows /\ OutcomeAtEnd /\ SentIsWhole /\ StdoutWhole
  BY SMT DEF Init, ChildFollows, OutcomeAtEnd, SentIsWhole, StdoutWhole
<1> QED BY <1>6, <1>7 DEF IInv

\* Only a running child writes: a stream that was sent stays as it was.
LEMMA ProcessesIInv == IInv /\ (Child \/ Descendant) => IInv'
<1> SUFFICES ASSUME IInv, Child \/ Descendant PROVE IInv'
  OBVIOUS
<1> USE ChildAssumption
<1>1. CASE ChildReads
  <2>1. program' \in Seq({"read"} \cup Stream) /\ stdin' \in 0 .. PipeCap
    BY <1>1, SMT DEF ChildReads, IInv, TypeOK
  <2>2. TypeOK'
    BY <1>1, <2>1 DEF ChildReads, IInv, TypeOK, streams
  <2> QED
    BY <1>1, <2>2 DEF ChildReads, IInv, streams, ChildFollows, OutcomeAtEnd, SentIsWhole,
       StdoutWhole
<1>2. CASE ChildWrites
  <2>1. PICK s \in Stream :
          /\ s = Head(program)
          /\ child = "running" /\ program # <<>> /\ pipe[s] < PipeCap
          /\ wrote' = [wrote EXCEPT ![s] = @ + 1]
          /\ pipe' = [pipe EXCEPT ![s] = @ + 1]
          /\ program' = Tail(program)
    BY <1>2 DEF ChildWrites
  <2>2. wrote' \in [Stream -> Nat] /\ pipe' \in [Stream -> 0 .. PipeCap]
        /\ \A t \in Stream : pipe'[t] <= wrote'[t]
    BY <2>1, SMT DEF IInv, TypeOK
  <2>3. program' \in Seq({"read"} \cup Stream)
    BY <2>1, SMT DEF IInv, TypeOK
  <2>4. TypeOK'
    BY <1>2, <2>2, <2>3, SMTT(30) DEF ChildWrites, IInv, TypeOK, feed
  <2>5. stdout = 0 /\ \A t \in Stream : drainer[t] # "sent"
    BY <2>1 DEF IInv, StdoutWhole, SentIsWhole
  <2> QED
    BY <1>2, <2>4, <2>5 DEF ChildWrites, IInv, feed, ChildFollows, OutcomeAtEnd,
       SentIsWhole, StdoutWhole
<1>3. CASE ChildExits
  <2>1. child = "running" /\ child' \in {"ok", "fail"}
        /\ UNCHANGED <<behaves, program, reaped, grandchild, report, feed, streams, caller, stdout,
                      outcome>>
    BY <1>3 DEF ChildExits
  <2>2. TypeOK'
    BY <2>1 DEF IInv, TypeOK, feed, streams
  <2>3. OutcomeAtEnd'
    BY <2>1 DEF IInv, ChildFollows, OutcomeAtEnd
  <2> QED
    BY <2>1, <2>2, <2>3 DEF IInv, feed, streams, ChildFollows, SentIsWhole, StdoutWhole
<1>4. CASE ChildForks \/ GrandchildExits
  BY <1>4 DEF ChildForks, GrandchildExits, IInv, TypeOK, feed, streams, ChildFollows,
     OutcomeAtEnd, SentIsWhole, StdoutWhole
<1> QED BY <1>1, <1>2, <1>3, <1>4 DEF Child, Descendant

\* The threads of a stream take from its pipe, and send it at its end.
LEMMA ThreadsIInv ==
  IInv /\ (Feeder \/ \E s \in Stream : Drainer(s)) => IInv'
<1> SUFFICES ASSUME IInv, Feeder \/ \E s \in Stream : Drainer(s) PROVE IInv'
  OBVIOUS
<1> USE ChildAssumption
<1>1. CASE Feeder
  <2>1. /\ unsent' \in 0 .. PromptLen /\ stdin' \in 0 .. PipeCap
        /\ feeder' \in {"none", "writing", "ended"}
        /\ UNCHANGED <<life, streams, caller, stdout, outcome>>
    BY <1>1, SMT DEF Feeder, FeederWrites, FeederEnds, IInv, TypeOK
  <2> QED
    BY <2>1 DEF IInv, TypeOK, life, streams, ChildFollows, OutcomeAtEnd, SentIsWhole,
       StdoutWhole
<1>2. ASSUME NEW s \in Stream, DrainerReads(s)
      PROVE  IInv'
  <2>1. /\ drainer[s] = "reading" /\ pipe[s] > 0
        /\ pipe' = [pipe EXCEPT ![s] = @ - 1]
        /\ UNCHANGED <<life, feed, wrote, drainer, caller, stdout, outcome>>
    BY <1>2 DEF DrainerReads
  <2>2. pipe' \in [Stream -> 0 .. PipeCap] /\ \A t \in Stream : pipe'[t] <= wrote[t]
    BY <2>1, SMT DEF IInv, TypeOK
  <2>3. \A t \in Stream : drainer[t] = "sent" => pipe'[t] = pipe[t]
    BY <2>1 DEF IInv, TypeOK
  <2> QED
    BY <2>1, <2>2, <2>3 DEF IInv, TypeOK, life, feed, ChildFollows, OutcomeAtEnd,
       SentIsWhole, StdoutWhole
<1>3. ASSUME NEW s \in Stream, DrainerSends(s)
      PROVE  IInv'
  <2>1. /\ drainer[s] = "reading" /\ pipe[s] = 0 /\ ~PipesHeld
        /\ drainer' = [drainer EXCEPT ![s] = "sent"]
        /\ UNCHANGED <<life, feed, wrote, pipe, caller, stdout, outcome>>
    BY <1>3 DEF DrainerSends
  <2>2. drainer' \in [Stream -> {"none", "reading", "sent"}]
    BY <2>1 DEF IInv, TypeOK
  <2>3. child # "running"
    BY <2>1 DEF PipesHeld
  <2>4. child # "none"
    BY <2>1 DEF IInv, ChildFollows
  <2> QED
    BY <2>1, <2>2, <2>3, <2>4 DEF IInv, TypeOK, life, feed, ChildFollows, OutcomeAtEnd,
       SentIsWhole, StdoutWhole
<1> QED BY <1>1, <1>2, <1>3 DEF Drainer

\* The caller's steps: it decides only on what it has waited for.
LEMMA CallerIInv == IInv /\ (Caller \/ PollOverdue) => IInv'
<1> SUFFICES ASSUME IInv, Caller \/ PollOverdue PROVE IInv'
  OBVIOUS
<1> USE DEF IInv, ChildFollows, OutcomeAtEnd, SentIsWhole, StdoutWhole
<1>1. CASE Spawn
  <2>1. /\ caller = "spawning" /\ child = "none" /\ outcome = "none" /\ stdout = 0
        /\ child' = "running" /\ caller' = "polling"
        /\ feeder' \in {"none", "writing"}
        /\ drainer' = [s \in Stream |-> "reading"]
        /\ UNCHANGED <<behaves, program, reaped, grandchild, report, unsent, stdin, wrote, pipe,
                      stdout, outcome>>
    BY <1>1 DEF Spawn
  <2>2. drainer' \in [Stream -> {"none", "reading", "sent"}]
        /\ \A s \in Stream : drainer'[s] = "reading"
    BY <2>1
  <2>3. TypeOK'
    BY <2>1, <2>2 DEF TypeOK
  <2> QED BY <2>1, <2>2, <2>3
<1>2. CASE SpawnFails
  BY <1>2 DEF SpawnFails, TypeOK, life, feed, streams
<1>3. CASE PollSeesExit \/ PollFails
  <2>1. /\ caller = "polling" /\ child \in {"ok", "fail", "killed"} /\ reaped' = TRUE
        /\ \/ caller' = "out" /\ outcome' = outcome
           \/ caller' = "returned" /\ outcome' = "spawn"
        /\ UNCHANGED <<behaves, program, child, grandchild, report, feed, streams, stdout>>
    BY <1>3 DEF PollSeesExit, PollFails, TypeOK
  <2>2. TypeOK'
    BY <2>1 DEF TypeOK, feed, streams
  <2> QED BY <2>1, <2>2 DEF streams
<1>4. CASE PollOverdue
  BY <1>4 DEF PollOverdue, TypeOK, life, feed, streams
<1>5. CASE Kill
  <2>1. child # "none" /\ child' \in {"ok", "fail", "killed"}
    BY <1>5 DEF Kill, TypeOK
  <2> QED BY <1>5, <2>1 DEF Kill, TypeOK, feed, streams
<1>6. CASE Wait
  BY <1>6 DEF Wait, TypeOK, feed, streams
<1>7. ASSUME NEW s \in Stream, Collect(s)
      PROVE  IInv'
  <2>1. /\ caller = s /\ drainer[s] = "sent" /\ outcome = "none"
        /\ stdout' = IF s = "out" THEN Drained("out") ELSE stdout
        /\ caller' = IF s = "out" THEN "err" ELSE "deciding"
        /\ UNCHANGED <<life, feed, streams, outcome>>
    BY <1>7 DEF Collect, Awaits, AfterStream, Stream
  <2>2. pipe[s] = 0 /\ child \notin {"none", "running"}
    BY <2>1
  <2>3. wrote["out"] \in Nat /\ pipe["out"] \in Nat
    BY SMT DEF TypeOK, Stream
  <2>4. stdout' \in {stdout, wrote["out"]} /\ stdout' \in Nat
    BY <2>1, <2>2, <2>3, SMT DEF Drained, TypeOK
  <2>5. stdout' # 0 => stdout' = wrote["out"]
    BY <2>4
  <2>6. caller' \in {"err", "deciding"}
    BY <2>1
  <2> QED BY <2>1, <2>2, <2>4, <2>5, <2>6 DEF TypeOK, life, feed, streams, Stream
<1>8. ASSUME NEW s \in Stream, GraceExpires(s)
      PROVE  IInv'
  BY <1>8 DEF GraceExpires, Awaits, AfterStream, Stream, TypeOK, life, feed, streams
<1>9. CASE Decide
  <2>1. caller = "deciding" /\ caller' = "returned" /\ outcome' = Result
        /\ UNCHANGED <<life, feed, streams, stdout>>
    BY <1>9 DEF Decide
  <2>2. child \in {"ok", "fail"}
    BY <2>1 DEF TypeOK
  <2>3. outcome' \in {"content", "exit", "backend"}
    BY <2>1 DEF Result
  <2>4. outcome' = "content" /\ child = "fail" => stdout > 0
    BY <2>1, SMT DEF Result, TypeOK
  <2> QED BY <2>1, <2>2, <2>3, <2>4 DEF TypeOK, life, feed, streams
<1> QED BY <1>1, <1>2, <1>3, <1>4, <1>5, <1>6, <1>7, <1>8, <1>9 DEF Caller

LEMMA IInvHolds == Spec => []IInv
<1>1. IInv /\ [Next]_vars => IInv'
  <2>1. IInv /\ UNCHANGED vars => IInv'
    BY DEF vars, life, feed, streams, IInv, TypeOK, ChildFollows, OutcomeAtEnd,
       SentIsWhole, StdoutWhole
  <2> QED BY <2>1, ProcessesIInv, ThreadsIInv, CallerIInv DEF Next
<1> QED BY <1>1, InitIInv, PTL DEF Spec
-----------------------------------------------------------------------------
\* Type correctness of a call of a plain child.
THEOREM ChildTypes == Spec => []TypeOK
<1>1. IInv => TypeOK
  BY DEF IInv
<1> QED BY <1>1, IInvHolds, PTL

\* An answer is the whole output of a child that ended by itself, or empty.
THEOREM ChildAnswersWhole == Spec => []NoTruncatedAnswer
<1>1. IInv => NoTruncatedAnswer
  BY DEF IInv, OutcomeAtEnd, StdoutWhole, NoTruncatedAnswer
<1> QED BY <1>1, IInvHolds, PTL

\* Every path that returns leaves the child reaped.
THEOREM ChildIsReaped == Spec => []ChildReaped
<1>1. IInv => ChildReaped
  BY DEF IInv, ChildFollows, ChildReaped
<1> QED BY <1>1, IInvHolds, PTL
-----------------------------------------------------------------------------
(* Nothing between the server and its child blocks for good. *)

\* The stdin thread, or that of a stream, has something to do at once.
ThreadReady ==
  \/ feeder = "writing" /\ (unsent = 0 \/ stdin < PipeCap)
  \/ \E s \in Stream : drainer[s] = "reading" /\ pipe[s] > 0

\* The child's next read or write would not block, or it has none left.
ChildReady ==
  \/ program = <<>>
  \/ Head(program) = "read" /\ (stdin > 0 \/ feeder # "writing")
  \/ Head(program) \in Stream /\ pipe[Head(program)] < PipeCap

\* Both streams are read as long as the child runs.
BothDrained == child = "running" => \A s \in Stream : drainer[s] = "reading"

LEMMA BothAlwaysDrained == Spec => []BothDrained
<1>1. Init => BothDrained
  BY DEF Init, BothDrained
<1>2. IInv /\ BothDrained /\ [Next]_vars => BothDrained'
  <2> SUFFICES ASSUME IInv, BothDrained, [Next]_vars PROVE BothDrained'
    OBVIOUS
  <2> USE DEF BothDrained
  <2>1. CASE Spawn
    BY <2>1 DEF Spawn
  <2>2. ASSUME NEW s \in Stream, DrainerSends(s) PROVE BothDrained'
    BY <2>2 DEF DrainerSends, PipesHeld, life
  <2>3. ASSUME NEW s \in Stream, DrainerReads(s) PROVE BothDrained'
    BY <2>3 DEF DrainerReads, life
  <2>4. CASE Child \/ Descendant \/ Feeder
    BY <2>4 DEF Child, ChildReads, ChildWrites, ChildExits, Descendant, ChildForks,
       GrandchildExits, Feeder, FeederWrites, FeederEnds, life, streams
  <2>5. CASE Kill
    <3>1. drainer' = drainer /\ child' # "running"
      BY <2>5 DEF Kill, streams
    <3> QED BY <3>1
  <2>6. CASE SpawnFails \/ PollSeesExit \/ PollFails \/ PollOverdue \/ Wait \/ Decide
             \/ UNCHANGED vars
    BY <2>6 DEF SpawnFails, PollSeesExit, PollFails, PollOverdue, Wait, Decide, life, streams, vars
  <2>7. ASSUME NEW s \in Stream, Collect(s) \/ GraceExpires(s) PROVE BothDrained'
    BY <2>7 DEF Collect, GraceExpires, life, streams
  <2> QED
    BY <2>1, <2>2, <2>3, <2>4, <2>5, <2>6, <2>7 DEF Next, Caller, Drainer
<1> QED BY <1>1, <1>2, IInvHolds, PTL DEF Spec

\* In whatever order the child reads its prompt and writes its two streams, and
\* however little a pipe holds, it never waits for a thread that waits for it: its next
\* step can be taken, or a thread of the server is about to make it possible.
NoPipeDeadlock == child = "running" => ChildReady \/ ThreadReady

THEOREM ChildNeverDeadlocked == Spec => []NoPipeDeadlock
<1>1. IInv /\ BothDrained => NoPipeDeadlock
  <2> SUFFICES ASSUME IInv, BothDrained, child = "running", program # <<>>, ~ThreadReady
               PROVE  ChildReady
    BY DEF NoPipeDeadlock, ChildReady
  <2>1. Head(program) \in {"read"} \cup Stream
    BY DEF IInv, TypeOK
  <2>2. CASE Head(program) = "read"
    <3>1. stdin = 0 /\ feeder = "writing" => ThreadReady
      BY ChildAssumption, SMT DEF ThreadReady
    <3>2. stdin \in Nat
      BY SMT, ChildAssumption DEF IInv, TypeOK
    <3> QED BY <2>2, <3>1, <3>2 DEF ChildReady
  <2>3. CASE Head(program) \in Stream
    <3> DEFINE s == Head(program)
    <3>1. drainer[s] = "reading" /\ pipe[s] \in 0 .. PipeCap
      BY <2>3 DEF BothDrained, IInv, TypeOK
    <3>2. ~(pipe[s] > 0)
      BY <2>3, <3>1 DEF ThreadReady
    <3>3. pipe[s] < PipeCap
      BY <3>1, <3>2, ChildAssumption
    <3> QED BY <2>3, <3>3 DEF ChildReady
  <2> QED BY <2>1, <2>2, <2>3
<1> QED BY <1>1, IInvHolds, BothAlwaysDrained, PTL

\* What the pipes have still to carry: a piece the child writes is moved twice.
FeederLeft == IF feeder = "writing" THEN 1 ELSE 0
DrainersLeft ==
  (IF drainer["out"] = "reading" THEN 1 ELSE 0) + (IF drainer["err"] = "reading" THEN 1 ELSE 0)
Remaining == 2 * Len(program) + unsent + FeederLeft + pipe["out"] + pipe["err"] + DrainersLeft

traffic == <<program, feed, streams>>

\* Once the child has been spawned, each step of its own, of the stdin thread and of
\* the drainers uses up something that nothing ever gives back.  With NoPipeDeadlock:
\* a child that behaves is at its end after so many steps.
TrafficEnds ==
  [][caller # "spawning" => UNCHANGED traffic \/ (Remaining' < Remaining /\ Remaining' >= 0)]_vars

THEOREM ChildTrafficEnds == Spec => TrafficEnds
<1> DEFINE Less ==
      caller # "spawning" => UNCHANGED traffic \/ (Remaining' < Remaining /\ Remaining' >= 0)
<1>1. IInv /\ IInv' /\ [Next]_vars => [Less]_vars
  <2> SUFFICES ASSUME IInv, IInv', Next, caller # "spawning" PROVE Less
    OBVIOUS
  <2>0. "out" \in Stream /\ "err" \in Stream /\ \A s \in Stream : s \in {"out", "err"}
    BY DEF Stream
  <2>1. /\ Len(program) \in Nat /\ unsent \in Nat
        /\ pipe["out"] \in Nat /\ pipe["err"] \in Nat
    BY <2>0, ChildAssumption, SMT DEF IInv, TypeOK
  <2>2. /\ Len(program') \in Nat /\ unsent' \in Nat
        /\ pipe'["out"] \in Nat /\ pipe'["err"] \in Nat
    BY <2>0, ChildAssumption, SMT DEF IInv, TypeOK
  <2>3. /\ FeederLeft \in Nat /\ DrainersLeft \in Nat
        /\ \E n \in Nat : FeederLeft' = n
        /\ \E n \in Nat : DrainersLeft' = n
    BY SMT DEF FeederLeft, DrainersLeft
  <2>4. PICK l \in Nat, u \in Nat, f \in Nat, o \in Nat, e \in Nat, d \in Nat :
          /\ Len(program) = l /\ unsent = u /\ FeederLeft = f
          /\ pipe["out"] = o /\ pipe["err"] = e /\ DrainersLeft = d
    BY <2>1, <2>3
  <2>5. PICK l2 \in Nat, u2 \in Nat, f2 \in Nat, o2 \in Nat, e2 \in Nat, d2 \in Nat :
          /\ Len(program') = l2 /\ unsent' = u2 /\ FeederLeft' = f2
          /\ pipe'["out"] = o2 /\ pipe'["err"] = e2 /\ DrainersLeft' = d2
    BY <2>2, <2>3
  <2>6. Remaining = 2 * l + u + f + o + e + d /\ Remaining' = 2 * l2 + u2 + f2 + o2 + e2 + d2
    BY <2>4, <2>5 DEF Remaining
  <2> HIDE DEF Remaining
  <2>7. Remaining' >= 0
    BY <2>5, <2>6
  <2>8. ASSUME 2 * l2 + u2 + f2 + o2 + e2 + d2 < 2 * l + u + f + o + e + d
        PROVE  Less
    BY <2>7, <2>6, <2>8
  <2>9. CASE ChildReads
    <3>1. /\ Len(program') = Len(program) - 1
          /\ unsent' = unsent /\ feeder' = feeder /\ pipe' = pipe /\ drainer' = drainer
      BY <2>9 DEF ChildReads, streams, IInv, TypeOK
    <3>2. FeederLeft' = FeederLeft /\ DrainersLeft' = DrainersLeft
      BY <3>1 DEF FeederLeft, DrainersLeft
    <3>3. l2 = l - 1 /\ u2 = u /\ f2 = f /\ o2 = o /\ e2 = e /\ d2 = d
      BY <2>4, <2>5, <3>1, <3>2
    <3> QED BY <2>8, <3>3
  <2>10. CASE ChildWrites
    <3>1. PICK s \in Stream : s = Head(program) /\ pipe' = [pipe EXCEPT ![s] = @ + 1]
      BY <2>10 DEF ChildWrites
    <3>2. /\ Len(program') = Len(program) - 1
          /\ unsent' = unsent /\ feeder' = feeder /\ drainer' = drainer
      BY <2>10 DEF ChildWrites, feed, IInv, TypeOK
    <3>3. pipe'["out"] + pipe'["err"] = pipe["out"] + pipe["err"] + 1
      <4>1. CASE s = "out"
        <5>1. pipe'["out"] = pipe["out"] + 1 /\ pipe'["err"] = pipe["err"]
          BY <2>0, <3>1, <4>1 DEF IInv, TypeOK
        <5> QED BY <2>1, <5>1
      <4>2. CASE s = "err"
        <5>1. pipe'["err"] = pipe["err"] + 1 /\ pipe'["out"] = pipe["out"]
          BY <2>0, <3>1, <4>2 DEF IInv, TypeOK
        <5> QED BY <2>1, <5>1
      <4> QED BY <2>0, <4>1, <4>2
    <3>4. FeederLeft' = FeederLeft /\ DrainersLeft' = DrainersLeft
      BY <3>2 DEF FeederLeft, DrainersLeft
    <3>5. l2 = l - 1 /\ u2 = u /\ f2 = f /\ o2 + e2 = o + e + 1 /\ d2 = d
      BY <2>4, <2>5, <3>2, <3>3, <3>4
    <3> QED BY <2>8, <3>5
  <2>11. CASE Feeder
    <3>1. program' = program /\ pipe' = pipe /\ drainer' = drainer
      BY <2>11 DEF Feeder, FeederWrites, FeederEnds, life, streams
    <3>2. unsent' + FeederLeft' + 1 = unsent + FeederLeft
      BY <2>1, <2>11, SMT DEF Feeder, FeederWrites, FeederEnds, FeederLeft
    <3>3. DrainersLeft' = DrainersLeft
      BY <3>1 DEF DrainersLeft
    <3>4. l2 = l /\ u2 + f2 + 1 = u + f /\ o2 = o /\ e2 = e /\ d2 = d
      BY <2>4, <2>5, <3>1, <3>2, <3>3
    <3> QED BY <2>8, <3>4
  <2>12. ASSUME NEW s \in Stream, DrainerReads(s) PROVE Less
    <3>1. /\ program' = program /\ unsent' = unsent /\ feeder' = feeder /\ drainer' = drainer
          /\ pipe' = [pipe EXCEPT ![s] = @ - 1]
      BY <2>12 DEF DrainerReads, life, feed
    <3>2. pipe'["out"] + pipe'["err"] + 1 = pipe["out"] + pipe["err"]
      <4>1. CASE s = "out"
        <5>1. pipe'["out"] = pipe["out"] - 1 /\ pipe'["err"] = pipe["err"]
          BY <2>0, <3>1, <4>1 DEF IInv, TypeOK
        <5> QED BY <2>1, <5>1
      <4>2. CASE s = "err"
        <5>1. pipe'["err"] = pipe["err"] - 1 /\ pipe'["out"] = pipe["out"]
          BY <2>0, <3>1, <4>2 DEF IInv, TypeOK
        <5> QED BY <2>1, <5>1
      <4> QED BY <2>0, <4>1, <4>2
    <3>3. FeederLeft' = FeederLeft /\ DrainersLeft' = DrainersLeft
      BY <3>1 DEF FeederLeft, DrainersLeft
    <3>4. program' = program /\ unsent' = unsent
      BY <3>1
    <3>5. l2 = l /\ u2 = u /\ f2 = f /\ o2 + e2 + 1 = o + e /\ d2 = d
      BY <2>4, <2>5, <3>2, <3>3, <3>4
    <3> QED BY <2>8, <3>5
  <2>13. ASSUME NEW s \in Stream, DrainerSends(s) PROVE Less
    <3>1. /\ program' = program /\ unsent' = unsent /\ feeder' = feeder /\ pipe' = pipe
          /\ drainer[s] = "reading" /\ drainer' = [drainer EXCEPT ![s] = "sent"]
      BY <2>13 DEF DrainerSends, life, feed
    <3>2. DrainersLeft' + 1 = DrainersLeft
      <4>1. CASE s = "out"
        <5>1. drainer'["out"] = "sent" /\ drainer'["err"] = drainer["err"]
          BY <2>0, <3>1, <4>1 DEF IInv, TypeOK
        <5> QED BY <3>1, <4>1, <5>1, SMT DEF DrainersLeft
      <4>2. CASE s = "err"
        <5>1. drainer'["err"] = "sent" /\ drainer'["out"] = drainer["out"]
          BY <2>0, <3>1, <4>2 DEF IInv, TypeOK
        <5> QED BY <3>1, <4>2, <5>1, SMT DEF DrainersLeft
      <4> QED BY <2>0, <4>1, <4>2
    <3>3. FeederLeft' = FeederLeft
      BY <3>1 DEF FeederLeft
    <3>4. l2 = l /\ u2 = u /\ f2 = f /\ o2 = o /\ e2 = e /\ d2 + 1 = d
      BY <2>4, <2>5, <3>1, <3>2, <3>3
    <3> QED BY <2>8, <3>4
  <2>14. CASE ChildExits \/ Descendant
    BY <2>14 DEF ChildExits, Descendant, ChildForks, GrandchildExits, traffic
  <2>15. CASE SpawnFails \/ PollSeesExit \/ PollFails \/ PollOverdue \/ Kill \/ Wait \/ Decide
    BY <2>15 DEF SpawnFails, PollSeesExit, PollFails, PollOverdue, Kill, Wait, Decide, life, traffic
  <2>16. ASSUME NEW s \in Stream, Collect(s) \/ GraceExpires(s) PROVE Less
    BY <2>16 DEF Collect, GraceExpires, life, traffic
  <2>17. ~Spawn
    BY DEF Spawn
  <2> QED
    BY <2>9, <2>10, <2>11, <2>12, <2>13, <2>14, <2>15, <2>16, <2>17 DEF Next, Child, Caller, Drainer
<1>2. TrafficEnds <=> [][Less]_vars
  BY DEF TrafficEnds
<1> QED BY <1>1, <1>2, IInvHolds, PTL DEF Spec
=============================================================================
