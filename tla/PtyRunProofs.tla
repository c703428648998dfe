----------------------------- MODULE PtyRunProofs -----------------------------
(***************************************************************************)
(* Proofs that no race of exit, timeout, prompt and closing tty makes a    *)
(* truncated answer a success of PtyRun, hides a kill, or leaves a thread, *)
(* for outputs of any length.                                              *)
(***************************************************************************)
EXTENDS PtyRun, TLAPS

\* Before the spawn, and after one that failed, there is nothing.
NothingStarted ==
  caller = "spawning" \/ (outcome = "spawn" /\ child = "none") =>
    /\ child = "none" /\ reader = "none" /\ watchdog = "none" /\ ~fired
    /\ caller # "spawning" => caller = "returned"

\* How far the caller is tells what it has waited for.
CallerHasWaited ==
  /\ caller = "spawning" => outcome = "none"
  /\ caller \notin {"spawning", "returned"} => child # "none" /\ outcome = "none"
  /\ caller \in {"signalling", "joiningWatchdog", "joiningReader", "returning"} =>
       child \in {"ok", "fail", "killed"} /\ writeRes # "none"
  /\ caller = "waiting" => writeRes # "none"
  /\ caller \in {"joiningReader", "returning"} => watchdog = "ended"
  /\ caller = "returning" => reader = "ended"
  /\ caller = "returned" =>
       \/ outcome = "spawn" /\ child = "none"
       \/ outcome = "spawn" /\ ~statusKept /\ child # "running"
       \/ reader = "ended" /\ watchdog = "ended" /\ writeRes # "none"
          /\ outcome = Result

\* The reader ends with everything, and nobody can write any more.
ReaderHasAll == reader = "ended" => collected = written /\ ~SlaveHeld /\ child # "none"

\* The flag is up before the kill.
FlagBeforeKill ==
  /\ watchdog = "killing" => fired
  /\ child = "killed" => fired

IInv == TypeOK /\ NothingStarted /\ CallerHasWaited /\ ReaderHasAll /\ FlagBeforeKill

LEMMA InitIInv == Init => IInv
<1> SUFFICES ASSUME Init PROVE IInv
  OBVIOUS
<1>1. TypeOK
  <2>1. written \in 0 .. MaxChunks /\ collected \in 0 .. written
    BY ChunksAssumption, SMT DEF Init
  <2>2. caller \in Caller
    BY DEF Init, Caller
  <2> QED BY <2>1, <2>2 DEF Init, TypeOK
<1>2. NothingStarted /\ ReaderHasAll /\ FlagBeforeKill
  BY DEF Init, NothingStarted, ReaderHasAll, FlagBeforeKill
<1>3. CallerHasWaited
  BY SMT DEF Init, CallerHasWaited
<1> QED BY <1>1, <1>2, <1>3 DEF IInv

\* Output grows only while the child runs: what the reader ended with stays whole.
LEMMA ProcessesIInv == IInv /\ Processes => IInv'
<1> SUFFICES ASSUME IInv, Processes PROVE IInv'
  OBVIOUS
<1> USE ChunksAssumption DEF IInv, TypeOK, Caller, NothingStarted, CallerHasWaited,
      ReaderHasAll, FlagBeforeKill, SlaveHeld, Result, given
<1>1. CASE ChildWrites
  BY <1>1, SMT DEF ChildWrites
<1>2. CASE ChildForks
  BY <1>2, SMT DEF ChildForks
<1>3. CASE GrandchildExits
  BY <1>3, SMT DEF GrandchildExits
<1>4. CASE ChildExits
  BY <1>4, SMT DEF ChildExits
<1> QED BY <1>1, <1>2, <1>3, <1>4 DEF Processes

\* A thread that has ended is not heard of again.
LEMMA ThreadsIInv == IInv /\ (ReaderThread \/ WatchdogThread) => IInv'
<1> SUFFICES ASSUME IInv, ReaderThread \/ WatchdogThread PROVE IInv'
  OBVIOUS
<1> USE ChunksAssumption DEF IInv, TypeOK, Caller, NothingStarted, CallerHasWaited,
      ReaderHasAll, FlagBeforeKill, SlaveHeld, Result, given
<1>1. CASE ReaderReads
  BY <1>1, SMT DEF ReaderReads
<1>2. CASE ReaderEnds
  BY <1>2, SMT DEF ReaderEnds
<1>3. CASE WatchdogFires
  BY <1>3, SMT DEF WatchdogFires
<1>4. CASE WatchdogKills
  BY <1>4, SMT DEF WatchdogKills
<1>5. CASE WatchdogDismissed
  BY <1>5, SMT DEF WatchdogDismissed
<1> QED BY <1>1, <1>2, <1>3, <1>4, <1>5 DEF ReaderThread, WatchdogThread

LEMMA CallerIInv == IInv /\ CallerThread => IInv'
<1> SUFFICES ASSUME IInv, CallerThread PROVE IInv'
  OBVIOUS
<1> USE ChunksAssumption DEF IInv, TypeOK, Caller, NothingStarted, CallerHasWaited,
      ReaderHasAll, FlagBeforeKill, SlaveHeld, Result, given
<1>1. CASE Spawn
  BY <1>1, SMT DEF Spawn
<1>2. CASE SpawnFails
  BY <1>2, SMT DEF SpawnFails
<1>3. CASE WritePrompt
  BY <1>3, SMT DEF WritePrompt
<1>4. CASE WaitChild
  BY <1>4, SMT DEF WaitChild
<1>9. CASE WaitFails
  BY <1>9, SMT DEF WaitFails
<1>5. CASE SignalDone
  BY <1>5, SMT DEF SignalDone
<1>6. CASE JoinWatchdog
  BY <1>6, SMT DEF JoinWatchdog
<1>7. CASE JoinReader
  BY <1>7, SMT DEF JoinReader
<1>8. CASE Return
  BY <1>8, SMT DEF Return
<1> QED BY <1>1, <1>2, <1>3, <1>4, <1>5, <1>6, <1>7, <1>8, <1>9 DEF CallerThread

LEMMA IInvHolds == Spec => []IInv
<1>1. IInv /\ [Next]_vars => IInv'
  <2>1. IInv /\ UNCHANGED vars => IInv'
    BY DEF vars, given, IInv, TypeOK, NothingStarted, CallerHasWaited, ReaderHasAll,
       FlagBeforeKill, SlaveHeld, Result
  <2> QED BY <2>1, ProcessesIInv, ThreadsIInv, CallerIInv DEF Next
<1> QED BY <1>1, InitIInv, PTL DEF Spec
-----------------------------------------------------------------------------
\* Type correctness of a call in a pseudo-terminal.
THEOREM PtyTypes == Spec => []TypeOK
<1>1. IInv => TypeOK
  BY DEF IInv
<1> QED BY <1>1, IInvHolds, PTL

\* What run_in_pty returns as content is the whole output of a child that ended by
\* itself and was given its whole prompt.
THEOREM PtyAnswersWhole == Spec => []NoTruncatedSuccess
<1>1. IInv => NoTruncatedSuccess
  BY SMT DEF IInv, TypeOK, CallerHasWaited, ReaderHasAll, FlagBeforeKill, SlaveHeld,
     NoTruncatedSuccess, Result, Caller
<1> QED BY <1>1, IInvHolds, PTL

\* A child the watchdog killed is reported as a timeout, and as nothing else.
THEOREM PtyKillIsTimeout == Spec => []KillIsTimeout
<1>1. IInv => KillIsTimeout
  BY SMT DEF IInv, TypeOK, CallerHasWaited, FlagBeforeKill, KillIsTimeout, Result, Caller
<1> QED BY <1>1, IInvHolds, PTL

\* Reader and watchdog are gone when the call returns.
THEOREM PtyThreadsGone == Spec => []NoThreadLeft
<1>1. IInv => NoThreadLeft
  BY SMT DEF IInv, TypeOK, NothingStarted, CallerHasWaited, NoThreadLeft, Caller
<1> QED BY <1>1, IInvHolds, PTL
-----------------------------------------------------------------------------
(* Who can hold a call up. *)

\* One of the three threads of the server can take a step: the guards of
\* ReaderThread, WatchdogThread and CallerThread.
CanMove ==
  \/ reader = "reading" /\ (collected < written \/ ~SlaveHeld)
  \/ watchdog \in {"armed", "killing"}
  \/ caller \in {"spawning", "signalling", "returning"}
  \/ caller = "writing" /\ (~blocks \/ ~SlaveHeld)
  \/ caller = "waiting" /\ child # "running"
  \/ caller = "joiningWatchdog" /\ watchdog = "ended"
  \/ caller = "joiningReader" /\ reader = "ended"

\* The watchdog leaves no child running that heeds it: it ends by a kill, or when told
\* that the child is gone.  All three threads are there from the spawn on.
WatchdogCovers ==
  /\ done => caller \in {"joiningWatchdog", "joiningReader", "returning", "returned"}
  /\ watchdog = "ended" => \/ child \in {"ok", "fail", "killed"}
                           \/ child = "running" /\ ~heeds /\ fired
  /\ caller \notin {"spawning", "returned"} => reader # "none" /\ watchdog # "none"

LEMMA WatchdogAlwaysCovers == Spec => []WatchdogCovers
<1>1. Init => WatchdogCovers
  BY SMT DEF Init, WatchdogCovers
<1>2. IInv /\ WatchdogCovers /\ [Next]_vars => WatchdogCovers'
  <2> SUFFICES ASSUME IInv, WatchdogCovers, [Next]_vars PROVE WatchdogCovers'
    OBVIOUS
  <2> USE DEF IInv, TypeOK, Caller, CallerHasWaited, WatchdogCovers
  <2>1. CASE Processes
    BY <2>1, SMT DEF Processes, ChildWrites, ChildForks, GrandchildExits, ChildExits, given
  <2>2. CASE ReaderThread
    BY <2>2, SMT DEF ReaderThread, ReaderReads, ReaderEnds, given
  <2>3. CASE WatchdogThread
    <3>1. watchdog # "none" => child # "none"
      BY DEF NothingStarted
    <3>2. CASE WatchdogFires
      BY <3>2, SMT DEF WatchdogFires, given
    <3>3. CASE WatchdogKills
      <4>1. fired /\ child # "none" /\ watchdog' = "ended" /\ fired' = fired
        BY <3>1, <3>3 DEF WatchdogKills, FlagBeforeKill
      <4>2. UNCHANGED <<heeds, done, caller, reader>>
        BY <3>3 DEF WatchdogKills, given
      <4>3. child' \in {"ok", "fail", "killed"} \/ (child' = "running" /\ ~heeds)
        BY <3>3, <4>1 DEF WatchdogKills
      <4> QED BY <4>1, <4>2, <4>3
    <3>4. CASE WatchdogDismissed
      <4>1. /\ watchdog = "armed" /\ done /\ watchdog' = "ended"
            /\ UNCHANGED <<child, done, caller, reader>>
        BY <3>4 DEF WatchdogDismissed
      <4>2. child \in {"ok", "fail", "killed"}
        BY <3>1, <4>1
      <4> QED BY <4>1, <4>2
    <3> QED BY <2>3, <3>2, <3>3, <3>4 DEF WatchdogThread
  <2>4. CASE CallerThread
    BY <2>4, SMT DEF CallerThread, Spawn, SpawnFails, WritePrompt, WaitChild, WaitFails,
       SignalDone, JoinWatchdog, JoinReader, Return, given
  <2>5. CASE UNCHANGED vars
    BY <2>5, SMT DEF vars, given
  <2> QED BY <2>1, <2>2, <2>3, <2>4, <2>5 DEF Next
<1> QED BY <1>1, <1>2, IInvHolds, PTL DEF Spec

\* A call that has not returned goes on: nothing can keep all its threads waiting but
\* a process of the backend, and then every piece of output has been collected.  It is
\* a descendant that holds the slave open after the child's end, in the write of the
\* prompt or in the join of the reader, or a child that has survived the one hangup.
OnlyProcessesDelay ==
  caller # "returned" /\ ~CanMove =>
    /\ collected = written
    /\ \/ /\ grandchild = "holding" /\ child \in {"ok", "fail", "killed"}
          /\ caller \in {"writing", "joiningReader"}
       \/ /\ child = "running" /\ ~heeds /\ fired
          /\ caller \in {"writing", "waiting"}

THEOREM PtyDelayedByProcessesOnly == Spec => []OnlyProcessesDelay
<1>1. IInv /\ WatchdogCovers => OnlyProcessesDelay
  BY SMT DEF IInv, TypeOK, Caller, CallerHasWaited, ReaderHasAll, WatchdogCovers,
     SlaveHeld, CanMove, OnlyProcessesDelay
<1> QED BY <1>1, IInvHolds, WatchdogAlwaysCovers, PTL

\* How far the threads of the server have come.
CallerAt ==
  CASE caller = "spawning" -> 0 [] caller = "writing" -> 1 [] caller = "waiting" -> 2
    [] caller = "signalling" -> 3 [] caller = "joiningWatchdog" -> 4
    [] caller = "joiningReader" -> 5 [] caller = "returning" -> 6 [] OTHER -> 7
WatchdogAt ==
  CASE watchdog = "none" -> 0 [] watchdog = "armed" -> 1 [] watchdog = "killing" -> 2
    [] OTHER -> 3
ReaderAt == CASE reader = "none" -> 0 [] reader = "reading" -> 1 [] OTHER -> 2
Progress == CallerAt + WatchdogAt + ReaderAt + collected

threads == <<caller, writeRes, collected, reader, watchdog, fired, done, outcome>>

\* The threads of a call take at most twelve steps, and one per piece of output; no
\* step of theirs is undone or repeated.  With PtyDelayedByProcessesOnly: a call
\* whose threads are run, and whose output ends, returns or waits for such a process.
CallAdvances ==
  [][UNCHANGED threads \/ (Progress < Progress' /\ Progress' <= 12 + written)]_vars

THEOREM PtyCallAdvances == Spec => CallAdvances
<1> DEFINE Advance == UNCHANGED threads \/ (Progress < Progress' /\ Progress' <= 12 + written)
<1>1. IInv /\ [Next]_vars => [Advance]_vars
  <2> SUFFICES ASSUME IInv, Next PROVE Advance
    OBVIOUS
  <2>1. written \in Nat /\ collected \in 0 .. written /\ caller \in Caller
    BY ChunksAssumption, SMT DEF IInv, TypeOK
  <2>2. CallerAt \in 0 .. 7 /\ WatchdogAt \in 0 .. 3 /\ ReaderAt \in 0 .. 2
    BY SMT DEF CallerAt, WatchdogAt, ReaderAt
  <2>3. CallerAt' \in 0 .. 7 /\ WatchdogAt' \in 0 .. 3 /\ ReaderAt' \in 0 .. 2
    BY SMT DEF CallerAt, WatchdogAt, ReaderAt
  <2>4. CASE Processes
    BY <2>4, SMT DEF Processes, ChildWrites, ChildForks, GrandchildExits, ChildExits, threads
  <2>5. CASE ReaderThread
    <3>1. written' = written /\ CallerAt' = CallerAt /\ WatchdogAt' = WatchdogAt
      BY <2>5, SMT DEF ReaderThread, ReaderReads, ReaderEnds, CallerAt, WatchdogAt
    <3>2. \/ collected' = collected + 1 /\ collected' <= written /\ ReaderAt' = ReaderAt
          \/ collected' = collected /\ ReaderAt' = ReaderAt + 1
      BY <2>5, <2>1, SMT DEF ReaderThread, ReaderReads, ReaderEnds, ReaderAt
    <3> QED BY <2>1, <2>2, <2>3, <3>1, <3>2, SMT DEF Progress
  <2>6. CASE WatchdogThread
    <3>1. /\ collected' = collected /\ CallerAt' = CallerAt /\ ReaderAt' = ReaderAt
      BY <2>6, SMT DEF WatchdogThread, WatchdogFires, WatchdogKills, WatchdogDismissed,
         CallerAt, ReaderAt
    <3>2. WatchdogAt' \in 0 .. 3 /\ \E n \in 1 .. 3 : WatchdogAt' = WatchdogAt + n
      BY <2>6, SMT DEF WatchdogThread, WatchdogFires, WatchdogKills, WatchdogDismissed,
         WatchdogAt
    <3>3. collected \in Nat /\ collected <= written
      BY <2>1, SMT
    <3>4. Progress < Progress'
      BY <2>2, <3>1, <3>2, <3>3, SMT DEF Progress
    <3>5. Progress' <= 12 + written
      BY <2>1, <2>2, <3>1, <3>2, <3>3, SMT DEF Progress
    <3> QED BY <3>4, <3>5
  <2>7. CASE CallerThread
    <3>1. collected' = collected /\ \E n \in 1 .. 7 : CallerAt' = CallerAt + n
      BY <2>7, SMT DEF CallerThread, Spawn, SpawnFails, WritePrompt, WaitChild, WaitFails, SignalDone,
         JoinWatchdog, JoinReader, Return, CallerAt
    <3>2. /\ \E n \in 0 .. 3 : WatchdogAt' = WatchdogAt + n
          /\ \E n \in 0 .. 2 : ReaderAt' = ReaderAt + n
      BY <2>7, SMT DEF CallerThread, Spawn, SpawnFails, WritePrompt, WaitChild, WaitFails, SignalDone,
         JoinWatchdog, JoinReader, Return, WatchdogAt, ReaderAt, IInv, NothingStarted
    <3>3. collected \in Nat /\ collected <= written
      BY <2>1, SMT
    <3>4. Progress < Progress'
      BY <2>2, <3>1, <3>2, <3>3, SMT DEF Progress
    <3>5. Progress' <= 12 + written
      BY <2>1, <2>3, <3>1, <3>3, SMT DEF Progress
    <3> QED BY <3>4, <3>5
  <2> QED BY <2>4, <2>5, <2>6, <2>7 DEF Next
<1>2. CallAdvances <=> [][Advance]_vars
  BY DEF CallAdvances
<1> QED BY <1>1, <1>2, IInvHolds, PTL DEF Spec
=============================================================================
