---------------------------- MODULE HttpCallProofs ----------------------------
(***************************************************************************)
(* Proofs that every call of HttpCall keeps its type, judges a response    *)
(* only at a boundary of its sender's, takes every complete one, and       *)
(* enforces the response cap, for every size of head, body, cap, read and  *)
(* usize.                                                                  *)
(***************************************************************************)
EXTENDS HttpCall, TLAPS

\* While a call reads, its buffer is all that was received and within the cap,
\* and nothing is decided; before that, nothing has been received.
BufferFollows ==
  /\ caller # "returned" => /\ buf = received
                            /\ MaxBytes # 0 => buf <= MaxBytes
                            /\ outcome = "none"
  /\ caller \in {"connecting", "writing"} => received = 0

IInv == TypeOK /\ BufferFollows /\ JudgedAtBoundary /\ CompleteIsTaken /\ CapEnforced

LEMMA ConstantTypes ==
  /\ HeadLen \in Nat /\ HeadLen > 0 /\ JsonLen \in Nat /\ JsonLen > 0
  /\ ReadMax \in Nat /\ ReadMax > 0 /\ Window \in Nat
  /\ MaxBytes \in Nat /\ SentMax \in Nat
  /\ UsizeMax \in Nat /\ HeadLen + JsonLen <= UsizeMax
BY HttpAssumption

\* What a response declares is a number of pieces or nothing.
LEMMA DeclaredTypes ==
  ASSUME TypeOK
  PROVE  /\ response.declared \in Int
         /\ response.declared \in {-1, 0, JsonLen, JsonLen + 1, UsizeMax}
         /\ response.chunked \in BOOLEAN
BY ConstantTypes DEF TypeOK, Response, NoLength

\* A body that is framed by its declared length ends within what has arrived.
LEMMA FramedWithin ==
  ASSUME TypeOK, Framed
  PROVE  DeclaredEnd \in 0 .. buf
BY ConstantTypes, DeclaredTypes, SMT DEF Framed, DeclaredEnd, TypeOK, NoLength

\* parse_response ends in one of the four classes dispatch knows.
LEMMA ParsedTypes ==
  ASSUME NEW n
  PROVE  Parsed(n) \in {"content", "spawn", "http", "parse"}
BY DEF Parsed

\* A body of the right length, or of chunks that end where the body does, is
\* taken when its status and JSON are right.
LEMMA WholeIsContent ==
  ASSUME response.status = "2xx", response.json = "completion"
  PROVE  Parsed(HeadLen + JsonLen) = "content"
<1>1. IsJson(Decoded(HeadLen + JsonLen))
  BY ConstantTypes, SMT DEF IsJson, Decoded
<1>2. ~(HeadLen + JsonLen < HeadLen)
  BY ConstantTypes, SMT
<1> QED BY <1>1, <1>2 DEF Parsed

LEMMA InitIInv == Init => IInv
BY ConstantTypes, SMT
   DEF Init, IInv, TypeOK, BufferFollows, JudgedAtBoundary, CompleteIsTaken, CapEnforced

\* While the call is not over, the upstream's steps and the first steps of the
\* call leave the outcome and the buffer alone: nothing is decided yet.
LEMMA StepIInv == IInv /\ [Next]_vars => IInv'
<1> SUFFICES ASSUME IInv, [Next]_vars PROVE IInv'
  OBVIOUS
<1> USE ConstantTypes
<1>0. TypeOK /\ BufferFollows /\ JudgedAtBoundary /\ CompleteIsTaken /\ CapEnforced
  BY DEF IInv
<1>1. CASE UpstreamSends
  <2>1. TypeOK' /\ BufferFollows'
    BY <1>0, <1>1, SMT DEF UpstreamSends, TypeOK, BufferFollows
  <2>2. JudgedAtBoundary'
    BY <1>0, <1>1 DEF UpstreamSends, BufferFollows, JudgedAtBoundary
  <2>3. CompleteIsTaken' /\ CapEnforced'
    BY <1>0, <1>1, SMT DEF UpstreamSends, CompleteIsTaken, CapEnforced
  <2> QED BY <2>1, <2>2, <2>3 DEF IInv
<1>2. CASE UpstreamCloses
  <2>1. TypeOK' /\ BufferFollows'
    BY <1>0, <1>2, SMT DEF UpstreamCloses, TypeOK, BufferFollows
  <2>2. JudgedAtBoundary'
    BY <1>0, <1>2 DEF UpstreamCloses, BufferFollows, JudgedAtBoundary
  <2>3. CompleteIsTaken' /\ CapEnforced'
    BY <1>0, <1>2, SMT DEF UpstreamCloses, CompleteIsTaken, CapEnforced
  <2> QED BY <2>1, <2>2, <2>3 DEF IInv
<1>3. CASE Connect \/ Write
  <2>1. /\ caller \in {"connecting", "writing"} /\ received = 0 /\ buf = 0
        /\ UNCHANGED <<response, timed, sent, received, buf>>
        /\ connection' \in {connection, "open"}
        /\ \/ caller' \in {"writing", "reading"} /\ outcome' = outcome
           \/ caller' = "returned" /\ outcome' = "spawn"
    BY <1>0, <1>3, SMT DEF Connect, Write, Return, BufferFollows
  <2>2. TypeOK'
    BY <1>0, <2>1, SMT DEF TypeOK
  <2>3. BufferFollows'
    BY <1>0, <2>1, SMT DEF BufferFollows
  <2>4. JudgedAtBoundary'
    BY <1>0, <2>1 DEF BufferFollows, JudgedAtBoundary
  <2>5. CompleteIsTaken' /\ CapEnforced'
    BY <1>0, <2>1, SMT DEF CompleteIsTaken, CapEnforced
  <2> QED BY <2>2, <2>3, <2>4, <2>5 DEF IInv
<1>4. CASE Read
  <2>1. PICK n \in 1 .. ReadMax :
          /\ received + n <= sent
          /\ received' = received + n
          /\ buf' = buf + n
          /\ IF MaxBytes # 0 /\ buf' > MaxBytes
             THEN Return("parse")
             ELSE UNCHANGED <<caller, outcome>>
    BY <1>4 DEF Read
  <2>2. caller = "reading" /\ UNCHANGED <<response, timed, connection, sent>>
    BY <1>4 DEF Read
  <2>3. buf = received /\ buf' = received' /\ (MaxBytes # 0 => buf <= MaxBytes)
    BY <1>0, <2>1, <2>2 DEF BufferFollows
  <2>4. \/ caller' = "returned" /\ outcome' = "parse" /\ MaxBytes # 0 /\ buf' > MaxBytes
        \/ caller' = "reading" /\ outcome' = outcome /\ ~(MaxBytes # 0 /\ buf' > MaxBytes)
    BY <2>1, <2>2 DEF Return
  <2>5. n \in Nat /\ n <= ReadMax /\ buf \in Nat /\ sent \in Nat /\ received \in Nat
    BY <1>0, <2>1, SMT DEF TypeOK
  <2>6. TypeOK'
    <3>1. received' \in 0 .. sent' /\ buf' \in 0 .. received'
      BY <2>1, <2>2, <2>3, <2>5, SMT
    <3> QED BY <1>0, <2>2, <2>4, <3>1 DEF TypeOK
  <2>7. BufferFollows'
    <3>1. /\ caller' \notin {"connecting", "writing"}
          /\ caller' # "returned" => outcome' = "none"
      BY <1>0, <2>2, <2>4 DEF BufferFollows
    <3>2. buf' = received' /\ (caller' # "returned" /\ MaxBytes # 0 => buf' <= MaxBytes)
      BY <2>1, <2>3, <2>4, <2>5, SMT
    <3> QED BY <3>1, <3>2 DEF BufferFollows
  <2>8. JudgedAtBoundary'
    <3>1. buf' \in Nat /\ MaxBytes \in Nat
      BY <2>1, <2>5, SMT
    <3> QED BY <1>0, <2>2, <2>4, <3>1, SMT DEF BufferFollows, JudgedAtBoundary
  <2>9. CompleteIsTaken'
    BY <2>3, <2>4, <2>5, <2>1, SMT DEF CompleteIsTaken
  <2>10. CapEnforced'
    BY <2>1, <2>3, <2>4, <2>5, SMT DEF CapEnforced
  <2> QED BY <2>6, <2>7, <2>8, <2>9, <2>10 DEF IInv
<1>5. CASE TakeFramed
  <2>1. /\ caller = "reading" /\ Framed /\ buf' = DeclaredEnd
        /\ caller' = "returned" /\ outcome' = Parsed(DeclaredEnd)
        /\ UNCHANGED <<response, timed, connection, sent, received>>
    BY <1>5 DEF TakeFramed, Return
  <2>2. DeclaredEnd \in 0 .. buf /\ DeclaredEnd \in Nat
    BY <1>0, <2>1, FramedWithin DEF TypeOK
  <2>3. buf = received /\ (MaxBytes # 0 => buf <= MaxBytes) /\ buf \in Nat
    BY <1>0, <2>1, SMT DEF BufferFollows, TypeOK
  <2>4. TypeOK'
    <3>1. buf' \in 0 .. received'
      BY <2>1, <2>2, <2>3, SMT
    <3>2. outcome' \in {"none", "content", "spawn", "http", "parse"}
      BY <2>1, ParsedTypes
    <3> QED BY <1>0, <2>1, <3>1, <3>2 DEF TypeOK
  <2>5. BufferFollows'
    BY <2>1 DEF BufferFollows
  <2>6. JudgedAtBoundary'
    <3>1. EndsAsDeclared'
      BY <2>1 DEF Framed, DeclaredEnd, EndsAsDeclared
    <3> QED BY <3>1 DEF JudgedAtBoundary
  <2>7. CompleteIsTaken'
    <3> SUFFICES ASSUME Complete', received >= HeadLen + JsonLen
                 PROVE  outcome' = "content"
      BY <2>1 DEF CompleteIsTaken
    <3>1. Complete
      BY <2>1 DEF Complete
    <3>2. response.declared = JsonLen
      BY <1>0, <2>1, <2>3, <3>1, DeclaredTypes, SMT
         DEF Complete, Framed, DeclaredEnd, NoLength
    <3>3. DeclaredEnd = HeadLen + JsonLen
      BY <3>2 DEF DeclaredEnd
    <3> QED BY <2>1, <3>1, <3>3, WholeIsContent DEF Complete
  <2>8. CapEnforced'
    BY <2>1, <2>2, <2>3, SMT DEF CapEnforced
  <2> QED BY <2>4, <2>5, <2>6, <2>7, <2>8 DEF IInv
<1>6. CASE TakeAtEnd
  <2>1. /\ caller = "reading" /\ ~Framed /\ received = sent
        /\ connection \in {"closed", "unclean"}
        /\ caller' = "returned" /\ outcome' = Parsed(buf)
        /\ UNCHANGED <<response, timed, connection, sent, received, buf>>
    BY <1>6 DEF TakeAtEnd, Return
  <2>2. buf = received /\ (MaxBytes # 0 => buf <= MaxBytes) /\ buf \in Nat
    BY <1>0, <2>1, SMT DEF BufferFollows, TypeOK
  <2>3. TypeOK'
    <3>1. outcome' \in {"none", "content", "spawn", "http", "parse"}
      BY <2>1, ParsedTypes
    <3> QED BY <1>0, <2>1, <3>1 DEF TypeOK
  <2>4. BufferFollows'
    BY <2>1 DEF BufferFollows
  <2>5. JudgedAtBoundary'
    <3>1. EndsWithConnection'
      BY <2>1, <2>2 DEF EndsWithConnection
    <3> QED BY <3>1 DEF JudgedAtBoundary
  <2>6. CompleteIsTaken'
    <3> SUFFICES ASSUME Complete', received >= HeadLen + JsonLen
                 PROVE  outcome' = "content"
      BY <2>1 DEF CompleteIsTaken
    <3>1. Complete
      BY <2>1 DEF Complete
    <3>2. ~(~response.chunked /\ response.declared = JsonLen)
      BY <1>0, <2>1, <2>2, SMT DEF Framed, DeclaredEnd, NoLength
    <3>3. buf = HeadLen + JsonLen
      BY <2>2, <3>1, <3>2 DEF Complete
    <3> QED BY <2>1, <3>1, <3>3, WholeIsContent DEF Complete
  <2>7. CapEnforced'
    BY <2>1, <2>2, SMT DEF CapEnforced
  <2> QED BY <2>3, <2>4, <2>5, <2>6, <2>7 DEF IInv
<1>7. CASE ReadFails \/ ReadTimesOut
  <2>1. /\ caller = "reading" /\ ~Framed /\ connection \in {"reset", "open"}
        /\ caller' = "returned" /\ outcome' = "spawn"
        /\ UNCHANGED <<response, timed, connection, sent, received, buf>>
    BY <1>7 DEF ReadFails, ReadTimesOut, Return
  <2>2. buf = received /\ (MaxBytes # 0 => buf <= MaxBytes) /\ buf \in Nat
    BY <1>0, <2>1, SMT DEF BufferFollows, TypeOK
  <2>3. TypeOK' /\ BufferFollows' /\ JudgedAtBoundary'
    BY <1>0, <2>1 DEF TypeOK, BufferFollows, JudgedAtBoundary
  <2>4. CompleteIsTaken'
    BY <2>1, <2>2, SMT DEF CompleteIsTaken, Complete, Framed, DeclaredEnd, NoLength
  <2>5. CapEnforced'
    BY <2>1, <2>2, SMT DEF CapEnforced
  <2> QED BY <2>3, <2>4, <2>5 DEF IInv
<1>8. CASE UNCHANGED vars
  BY <1>8 DEF vars, IInv, TypeOK, BufferFollows, JudgedAtBoundary, EndsAsDeclared, EndsWithConnection,
     CompleteIsTaken, Complete, CapEnforced
<1> QED
  BY <1>1, <1>2, <1>3, <1>4, <1>5, <1>6, <1>7, <1>8 DEF Next, Upstream, Caller

LEMMA IInvHolds == Spec => []IInv
BY InitIInv, StepIInv, PTL DEF Spec
-----------------------------------------------------------------------------
\* Type correctness of a call, for every constant.
THEOREM HttpTypes == Spec => []TypeOK
<1>1. IInv => TypeOK
  BY DEF IInv
<1> QED BY <1>1, IInvHolds, PTL

\* read_body hands to parse_response only what ends where the upstream declared, or
\* where it ended the connection, and all of it: never what a reset or a deadline left.
THEOREM HttpJudgedAtBoundary == Spec => []JudgedAtBoundary
<1>1. IInv => JudgedAtBoundary
  BY DEF IInv
<1> QED BY <1>1, IInvHolds, PTL

\* A complete answer within the cap is always an answer, for every length an
\* upstream declares up to the largest usize.
THEOREM HttpCompleteTaken == Spec => []CompleteIsTaken
<1>1. IInv => CompleteIsTaken
  BY DEF IInv
<1> QED BY <1>1, IInvHolds, PTL

\* max_response_bytes bounds the buffer to the cap and one read, and decides the
\* class of what goes beyond it.
THEOREM HttpCapEnforced == Spec => []CapEnforced
<1>1. IInv => CapEnforced
  BY DEF IInv
<1> QED BY <1>1, IInvHolds, PTL
-----------------------------------------------------------------------------
(* How long a call can go on. *)

CallerAt ==
  CASE caller = "connecting" -> 0 [] caller = "writing" -> 1 [] caller = "reading" -> 2
    [] OTHER -> 3
Progress == CallerAt + received

call == <<caller, received, buf, outcome>>

\* With a cap a call takes at most three steps and one per piece that is read, up to the
\* cap and one read more, however much the upstream sends and however it is cut into
\* reads; none is undone or repeated.
CallAdvances ==
  [][MaxBytes # 0 =>
       UNCHANGED call \/ (Progress < Progress' /\ Progress' <= MaxBytes + ReadMax + 3)]_vars

\* A step of the upstream leaves the call alone; one of the call takes it to a later
\* stage, or by some pieces on in the same one.
LEMMA CallStep ==
  IInv /\ [Next]_vars =>
    \/ UNCHANGED call
    \/ \E k \in 1 .. 3 : CallerAt' = CallerAt + k /\ received' = received
    \/ \E n \in 1 .. ReadMax :
         /\ received' = received + n
         /\ CallerAt' = CallerAt \/ CallerAt' = CallerAt + 1
<1> SUFFICES ASSUME IInv, [Next]_vars
             PROVE  \/ UNCHANGED call
                    \/ \E k \in 1 .. 3 : CallerAt' = CallerAt + k /\ received' = received
                    \/ \E n \in 1 .. ReadMax :
                         /\ received' = received + n
                         /\ CallerAt' = CallerAt \/ CallerAt' = CallerAt + 1
  OBVIOUS
<1>1. CASE Upstream \/ UNCHANGED vars
  BY <1>1 DEF Upstream, UpstreamSends, UpstreamCloses, vars, call
<1>2. CASE Connect \/ Write \/ TakeFramed \/ TakeAtEnd \/ ReadFails \/ ReadTimesOut
  BY <1>2 DEF Connect, Write, TakeFramed, TakeAtEnd, ReadFails, ReadTimesOut, Return, CallerAt
<1>3. CASE Read
  BY <1>3 DEF Read, Return, CallerAt
<1> QED BY <1>1, <1>2, <1>3 DEF Next, Caller

\* read_body ends for an upstream that sends for ever: the cap bounds the work of a call,
\* and not only its memory.  (Fairness makes it take the steps: CallReturns.)
THEOREM HttpCallAdvances == Spec => CallAdvances
<1> DEFINE Far == MaxBytes + ReadMax + 3
           Step == MaxBytes # 0 =>
                     UNCHANGED call \/ (Progress < Progress' /\ Progress' <= Far)
<1>1. IInv /\ [Next]_vars => Step
  <2> SUFFICES ASSUME IInv, [Next]_vars, MaxBytes # 0, ~UNCHANGED call
               PROVE  Progress < Progress' /\ Progress' <= Far
    BY DEF Step
  <2>1. received \in Nat /\ CallerAt \in 0 .. 3
    BY DEF IInv, TypeOK, CallerAt
  <2>2. received <= MaxBytes
    <3>1. caller # "returned"
      BY DEF Next, Caller, Upstream, UpstreamSends, UpstreamCloses, Connect, Write, Read, TakeFramed,
        TakeAtEnd, ReadFails, ReadTimesOut, vars, call
    <3> QED BY <3>1 DEF IInv, BufferFollows
  <2>3. \E k \in 0 .. 3 : CallerAt' = k
    BY DEF CallerAt
  <2>4. CASE \E k \in 1 .. 3 : CallerAt' = CallerAt + k /\ received' = received
    BY <2>1, <2>2, <2>3, <2>4, ConstantTypes DEF Progress
  <2>5. CASE \E n \in 1 .. ReadMax :
               received' = received + n /\ (CallerAt' = CallerAt \/ CallerAt' = CallerAt + 1)
    BY <2>1, <2>2, <2>3, <2>5, ConstantTypes DEF Progress
  <2> QED BY <2>4, <2>5, CallStep
<1> QED BY <1>1, IInvHolds, PTL DEF Spec, CallAdvances
=============================================================================
