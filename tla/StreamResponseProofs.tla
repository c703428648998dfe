------------------------- MODULE StreamResponseProofs -------------------------
(***************************************************************************)
(* Proof that a streamed request implements SseStream: whatever dispatcher,*)
(* coordinator, worker and client do in whatever order, the client reads   *)
(* keepalives, then the frames of one answer, and the end only after that; *)
(* for any number of keepalives and any size of the socket's buffer.       *)
(***************************************************************************)
EXTENDS StreamResponse, SequenceTheorems, TLAPS

Answers == {OkFrames, ErrorFrames}

\* The n-th thing a client is to read: keepalives, the answer, the end.
FrameAt(a, k, n) ==
  IF n <= k THEN "keepalive" ELSE IF n <= k + Len(a) THEN a[n - k] ELSE EndMark

\* s is what the client is to read after the first o.
Fits(a, k, s, o) == \A i \in 1 .. Len(s) : s[i] = FrameAt(a, k, o + i)

\* How far the threads are.
StagesFollow ==
  /\ dispatcher = "done" /\ coordinator = "waiting" => result # "none"
  /\ coordinator # "sending" => unsent = <<>>
  /\ worker = "free" => body = <<>>
  /\ worker = "free" /\ client = "reading" => coordinator = "done"

\* Everything on its way to a client that reads, from the frames it has read to
\* those not sent yet, is one row without gaps, and as long as the stage says.
Flow(a) ==
  /\ Fits(a, kept, seen, 0)
  /\ Fits(a, kept, wire, Len(seen))
  /\ Fits(a, kept, body, Len(seen) + Len(wire))
  /\ Fits(a, kept, unsent, Len(seen) + Len(wire) + Len(body))
  /\ ended => worker = "free" /\ wire = <<>>
  /\ LET total == Len(seen) + Len(wire) + Len(body) + Len(unsent)
     IN  CASE coordinator = "waiting" -> total = kept
           [] coordinator = "sending" -> total = kept + Len(a)
           [] OTHER -> IF worker = "free" /\ ~ended THEN total = kept + Len(a) + 1
                       ELSE total = kept + Len(a)

InOrder == client = "reading" => \E a \in Answers : Flow(a)

IInv == TypeOK /\ StagesFollow /\ InOrder
-----------------------------------------------------------------------------
(* Rows of frames. *)

\* Both answers are rows of frames, and not empty.
LEMMA AnswerTypes ==
  \A a \in Answers : /\ a \in Seq(Frame) /\ Len(a) \in Nat \ {0}
                     /\ \A i \in 1 .. Len(a) : a[i] \in Frame
<1>1. OkFrames \in Seq(Frame) /\ Len(OkFrames) \in Nat \ {0}
  BY DEF OkFrames, Frame
<1>2. ErrorFrames \in Seq(Frame) /\ Len(ErrorFrames) \in Nat \ {0}
  BY DEF ErrorFrames, Frame
<1>3. \A a \in Answers : a \in Seq(Frame) /\ Len(a) \in Nat \ {0}
  BY <1>1, <1>2, Zenon DEF Answers
<1> QED BY <1>3, ElementOfSeq

\* What a row taken in at one end and out at the other consists of.
LEMMA RowTypes ==
  ASSUME NEW S
  PROVE  /\ <<>> \in Seq(S) /\ Len(<<>>) = 0
         /\ \A s \in Seq(S), e \in S : Append(s, e) \in Seq(S) /\ Len(Append(s, e)) = Len(s) + 1
         /\ \A s \in Seq(S) : Len(s) \in Nat
         /\ \A s \in Seq(S) : s # <<>> =>
              Head(s) \in S /\ Tail(s) \in Seq(S) /\ Len(s) = Len(Tail(s)) + 1
<1>1. <<>> \in Seq(S) /\ Len(<<>>) = 0
  BY EmptySeq
<1>2. \A s \in Seq(S), e \in S : Append(s, e) \in Seq(S) /\ Len(Append(s, e)) = Len(s) + 1
  BY AppendProperties
<1>3. \A s \in Seq(S) : Len(s) \in Nat
  BY LenProperties
<1>4. \A s \in Seq(S) : s # <<>> =>
        Head(s) \in S /\ Tail(s) \in Seq(S) /\ Len(s) = Len(Tail(s)) + 1
  BY EmptySeq, HeadTailProperties, LenProperties, ElementOfSeq
<1> QED BY <1>1, <1>2, <1>3, <1>4

LEMMA EndIsNoFrame == EndMark \notin Frame
BY DEF EndMark, Frame

\* A row may be longer by what comes next in it.
LEMMA FitsAppend ==
  ASSUME NEW a \in Answers, NEW k \in Nat, NEW o \in Nat, NEW S, NEW s \in Seq(S),
         Fits(a, k, s, o), NEW e \in S, e = FrameAt(a, k, o + Len(s) + 1)
  PROVE  Fits(a, k, Append(s, e), o)
<1>1. /\ Len(Append(s, e)) = Len(s) + 1 /\ Len(s) \in Nat
      /\ Append(s, e)[Len(s) + 1] = e
      /\ \A i \in 1 .. Len(s) : Append(s, e)[i] = s[i]
  BY AppendProperties, LenProperties
<1> SUFFICES ASSUME NEW i \in 1 .. Len(s) + 1
             PROVE  Append(s, e)[i] = FrameAt(a, k, o + i)
  BY <1>1 DEF Fits
<1>2. CASE i = Len(s) + 1
  <2>1. o + i = o + Len(s) + 1
    BY <1>1, <1>2
  <2> QED BY <1>1, <1>2, <2>1
<1>3. CASE i # Len(s) + 1
  <2>1. i \in 1 .. Len(s)
    BY <1>1, <1>3
  <2> QED BY <1>1, <2>1 DEF Fits
<1> QED BY <1>2, <1>3

\* A row without its first frame starts one later.
LEMMA FitsTail ==
  ASSUME NEW a \in Answers, NEW k \in Nat, NEW o \in Nat, NEW S, NEW s \in Seq(S),
         Fits(a, k, s, o), s # <<>>
  PROVE  /\ Head(s) = FrameAt(a, k, o + 1) /\ Head(s) \in S
         /\ Fits(a, k, Tail(s), o + 1)
         /\ Tail(s) \in Seq(S) /\ Len(s) = Len(Tail(s)) + 1 /\ Len(Tail(s)) \in Nat
<1>1. /\ Len(s) \in Nat \ {0} /\ Tail(s) \in Seq(S) /\ Len(Tail(s)) = Len(s) - 1
      /\ \A i \in 1 .. Len(Tail(s)) : Tail(s)[i] = s[i + 1]
      /\ Head(s) = s[1] /\ Head(s) \in S
  BY HeadTailProperties, EmptySeq, ElementOfSeq, LenProperties
<1>2. Head(s) = FrameAt(a, k, o + 1)
  BY <1>1 DEF Fits
<1>3. Fits(a, k, Tail(s), o + 1)
  <2> SUFFICES ASSUME NEW i \in 1 .. Len(Tail(s))
               PROVE  Tail(s)[i] = FrameAt(a, k, o + 1 + i)
    BY DEF Fits
  <2>1. i + 1 \in 1 .. Len(s) /\ o + 1 + i = o + (i + 1) /\ Tail(s)[i] = s[i + 1]
    BY <1>1
  <2> QED BY <2>1 DEF Fits
<1> QED BY <1>1, <1>2, <1>3

\* The end is only where the row ends.
LEMMA EndIsLast ==
  ASSUME NEW a \in Answers, NEW k \in Nat, NEW n \in Nat \ {0}
  PROVE  FrameAt(a, k, n) = EndMark <=> n > k + Len(a)
<1>1. Len(a) \in Nat /\ \A i \in 1 .. Len(a) : a[i] # EndMark
  BY AnswerTypes, EndIsNoFrame
<1>2. "keepalive" # EndMark
  BY DEF EndMark
<1>3. CASE n <= k
  BY <1>1, <1>2, <1>3 DEF FrameAt
<1>4. CASE n > k /\ n <= k + Len(a)
  <2>1. n - k \in 1 .. Len(a)
    BY <1>1, <1>4
  <2> QED BY <1>1, <1>4, <2>1 DEF FrameAt
<1>5. CASE n > k + Len(a)
  BY <1>1, <1>5 DEF FrameAt
<1> QED BY <1>1, <1>3, <1>4, <1>5

LEMMA FitsEmpty == \A a, k, o : Fits(a, k, <<>>, o)
BY DEF Fits

\* A row of keepalives only is one whatever answer and however many follow.
LEMMA FitsKeptMore ==
  ASSUME NEW a \in Answers, NEW k \in Nat, NEW o \in Nat, NEW s, Len(s) \in Nat,
         Fits(a, k, s, o), o + Len(s) <= k, NEW b \in Answers, NEW l \in Nat, k <= l
  PROVE  Fits(b, l, s, o)
BY DEF Fits, FrameAt

\* An answer is what comes after the keepalives.
LEMMA FitsAnswer ==
  ASSUME NEW a \in Answers, NEW k \in Nat
  PROVE  Fits(a, k, a, k)
<1>1. Len(a) \in Nat
  BY AnswerTypes
<1> QED BY <1>1 DEF Fits, FrameAt
-----------------------------------------------------------------------------
LEMMA InitIInv == Init => IInv
<1> SUFFICES ASSUME Init PROVE IInv
  OBVIOUS
<1>1. TypeOK
  <2>1. <<>> \in Seq(Frame) /\ <<>> \in Seq(Frame \cup {EndMark}) /\ Len(<<>>) = 0
    BY RowTypes
  <2>2. kept \in 0 .. MaxKeepalives /\ Len(wire) <= WireCap
    BY <2>1, StreamAssumption DEF Init
  <2> QED BY <2>1, <2>2, Zenon DEF Init, TypeOK
<1>2. StagesFollow
  BY DEF Init, StagesFollow
<1>3. InOrder
  BY FitsEmpty DEF Init, InOrder, Answers, Flow
<1> QED BY <1>1, <1>2, <1>3 DEF IInv

LEMMA NextTypes == IInv /\ Next => TypeOK' /\ StagesFollow'
<1> SUFFICES ASSUME IInv, Next PROVE TypeOK' /\ StagesFollow'
  OBVIOUS
<1> USE StreamAssumption DEF IInv, TypeOK, StagesFollow
<1>a. /\ <<>> \in Seq(Frame)
      /\ \A s \in Seq(Frame), e \in Frame : Append(s, e) \in Seq(Frame)
      /\ \A s \in Seq(Frame) : s # <<>> => Head(s) \in Frame /\ Tail(s) \in Seq(Frame)
  BY RowTypes
<1>b. LET Written == Frame \cup {EndMark} IN
      /\ <<>> \in Seq(Written) /\ Len(<<>>) = 0
      /\ \A s \in Seq(Written), e \in Written :
           Append(s, e) \in Seq(Written) /\ Len(Append(s, e)) = Len(s) + 1
      /\ \A s \in Seq(Written) : Len(s) \in Nat
      /\ \A s \in Seq(Written) : s # <<>> =>
           Head(s) \in Written /\ Tail(s) \in Seq(Written) /\ Len(s) = Len(Tail(s)) + 1
  BY RowTypes
<1>1. CASE Dispatcher
  BY <1>1 DEF Dispatcher, DispatchReturns, DispatchPanics
<1>2. CASE KeepaliveTick
  <2>1. "keepalive" \in Frame
    BY DEF Frame
  <2>2. body' \in Seq(Frame)
    BY <1>2, <1>a, <2>1, ZenonT(30) DEF KeepaliveTick
  <2>3. kept' \in 0 .. MaxKeepalives
    BY <1>2 DEF KeepaliveTick
  <2> QED BY <1>2, <2>2, <2>3 DEF KeepaliveTick, BodyReceived
<1>3. CASE ReceiveResult
  BY <1>3, <1>a, AnswerTypes DEF ReceiveResult, Answer, Answers
<1>4. CASE SendFrame
  BY <1>4, <1>a DEF SendFrame, BodyReceived
<1>5. CASE WriteFrame
  BY <1>5, <1>a, <1>b DEF WriteFrame
<1>6. CASE WriteEnd
  BY <1>6, <1>b DEF WriteEnd
<1>7. CASE WriteToNobody
  BY <1>7, <1>a DEF WriteToNobody
<1>8. CASE ClientReads
  <2>1. /\ Tail(wire) \in Seq(Frame \cup {EndMark}) /\ Len(Tail(wire)) <= WireCap
        /\ Head(wire) \in Frame \cup {EndMark}
    BY <1>8, <1>b DEF ClientReads
  <2>2. seen' \in Seq(Frame) /\ ended' \in BOOLEAN
    BY <1>8, <1>a, <2>1 DEF ClientReads
  <2> QED BY <1>8, <2>1, <2>2 DEF ClientReads
<1>9. CASE ClientLeaves
  BY <1>9, <1>b DEF ClientLeaves
<1> QED BY <1>1, <1>2, <1>3, <1>4, <1>5, <1>6, <1>7, <1>8, <1>9
        DEF Next, Coordinator, Server, Client
-----------------------------------------------------------------------------
(* Each action leaves the row in order. *)

LEMMA Lengths ==
  IInv => /\ Len(seen) \in Nat /\ Len(wire) \in Nat /\ Len(body) \in Nat
          /\ Len(unsent) \in Nat /\ kept \in Nat
          /\ Len(<<>>) = 0
BY RowTypes, StreamAssumption DEF IInv, TypeOK

LEMMA Rows ==
  IInv => /\ seen \in Seq(Frame) /\ wire \in Seq(Frame \cup {EndMark})
          /\ body \in Seq(Frame) /\ unsent \in Seq(Frame)
BY DEF IInv, TypeOK

LEMMA KeepaliveInOrder == IInv /\ KeepaliveTick => InOrder'
<1> SUFFICES ASSUME IInv, KeepaliveTick, client = "reading"
             PROVE  \E a \in Answers : Flow(a)'
  BY DEF InOrder, KeepaliveTick
<1>1. PICK a \in Answers : Flow(a)
  BY DEF IInv, InOrder
<1>2. /\ coordinator = "waiting" /\ worker = "responding" /\ unsent = <<>>
      /\ ~ended
      /\ body' = Append(body, "keepalive") /\ kept' = kept + 1
      /\ UNCHANGED <<coordinator, unsent, worker, wire, seen, ended>>
  BY <1>1 DEF IInv, TypeOK, StagesFollow, KeepaliveTick, BodyReceived, Flow
<1>3. Len(seen) + Len(wire) + Len(body) = kept
  BY <1>1, <1>2, Lengths DEF Flow
<1>4. /\ Fits(a, kept + 1, seen, 0)
      /\ Fits(a, kept + 1, wire, Len(seen))
      /\ Fits(a, kept + 1, body, Len(seen) + Len(wire))
  <2>1. Fits(a, kept, seen, 0) /\ Fits(a, kept, wire, Len(seen))
        /\ Fits(a, kept, body, Len(seen) + Len(wire))
    BY <1>1 DEF Flow
  <2>2. /\ 0 + Len(seen) <= kept /\ Len(seen) + Len(wire) <= kept
        /\ Len(seen) + Len(wire) + Len(body) <= kept /\ Len(seen) + Len(wire) \in Nat
        /\ kept + 1 \in Nat /\ kept <= kept + 1
    BY <1>3, Lengths
  <2> QED BY <2>1, <2>2, Lengths, FitsKeptMore
<1>5. "keepalive" \in Frame
      /\ "keepalive" = FrameAt(a, kept + 1, Len(seen) + Len(wire) + Len(body) + 1)
  BY <1>3, Lengths DEF Frame, FrameAt
<1>6. Fits(a, kept + 1, Append(body, "keepalive"), Len(seen) + Len(wire))
  BY <1>4, <1>5, Lengths, Rows, FitsAppend DEF IInv, TypeOK
<1>7. Len(body') = Len(body) + 1
  BY <1>2, <1>5, RowTypes DEF IInv, TypeOK
<1>8. /\ Fits(a, kept', seen', 0)
      /\ Fits(a, kept', wire', Len(seen'))
      /\ Fits(a, kept', body', Len(seen') + Len(wire'))
      /\ Fits(a, kept', unsent', Len(seen') + Len(wire') + Len(body'))
  BY <1>2, <1>4, <1>6, FitsEmpty
<1>9. Len(seen') + Len(wire') + Len(body') + Len(unsent') = kept'
  BY <1>2, <1>3, <1>7, Lengths
<1> QED BY <1>1, <1>2, <1>8, <1>9 DEF Flow

LEMMA ReceiveInOrder == IInv /\ ReceiveResult => InOrder'
<1> SUFFICES ASSUME IInv, ReceiveResult, client = "reading"
             PROVE  \E a \in Answers : Flow(a)'
  BY DEF InOrder, ReceiveResult
<1>1. PICK b \in Answers : Flow(b)
  BY DEF IInv, InOrder
<1> DEFINE a == Answer(result)
<1>2. /\ a \in Answers
      /\ coordinator = "waiting" /\ coordinator' = "sending"
      /\ unsent = <<>> /\ unsent' = a /\ ~ended
      /\ UNCHANGED <<kept, body, worker, wire, client, seen, ended>>
  BY <1>1 DEF IInv, TypeOK, StagesFollow, ReceiveResult, Answer, Answers, Flow
<1> HIDE DEF a
<1>3. Len(seen) + Len(wire) + Len(body) = kept
  BY <1>1, <1>2, Lengths DEF Flow
<1>4. /\ Fits(a, kept, seen, 0)
      /\ Fits(a, kept, wire, Len(seen))
      /\ Fits(a, kept, body, Len(seen) + Len(wire))
  <2>1. Fits(b, kept, seen, 0) /\ Fits(b, kept, wire, Len(seen))
        /\ Fits(b, kept, body, Len(seen) + Len(wire))
    BY <1>1 DEF Flow
  <2>2. /\ 0 + Len(seen) <= kept /\ Len(seen) + Len(wire) <= kept
        /\ Len(seen) + Len(wire) + Len(body) <= kept /\ Len(seen) + Len(wire) \in Nat
        /\ kept <= kept
    BY <1>3, Lengths
  <2> QED BY <1>2, <2>1, <2>2, Lengths, FitsKeptMore
<1>5. Fits(a, kept, unsent', Len(seen) + Len(wire) + Len(body))
  BY <1>2, <1>3, Lengths, FitsAnswer
<1>6. Len(a) \in Nat
  BY <1>2, AnswerTypes
<1> QED BY <1>2, <1>3, <1>4, <1>5, <1>6, Lengths DEF Flow

LEMMA SendInOrder == IInv /\ SendFrame => InOrder'
<1> SUFFICES ASSUME IInv, SendFrame, client = "reading"
             PROVE  \E a \in Answers : Flow(a)'
  BY DEF InOrder, SendFrame
<1>1. PICK a \in Answers : Flow(a)
  BY DEF IInv, InOrder
<1>2. /\ coordinator = "sending" /\ worker = "responding" /\ ~ended
      /\ UNCHANGED <<kept, worker, wire, client, seen, ended>>
  BY <1>1 DEF IInv, TypeOK, StagesFollow, SendFrame, Flow
<1>a. Len(a) \in Nat
  BY AnswerTypes
<1>3. CASE unsent = <<>>
  <2>1. coordinator' = "done" /\ unsent' = <<>> /\ body' = body
    BY <1>3 DEF SendFrame
  <2> QED BY <1>1, <1>2, <1>3, <1>a, <2>1 DEF Flow
<1>4. CASE unsent # <<>>
  <2>1. /\ body' = Append(body, Head(unsent)) /\ unsent' = Tail(unsent)
        /\ coordinator' = "sending"
    BY <1>2, <1>4 DEF SendFrame, BodyReceived
  <2> DEFINE o == Len(seen) + Len(wire)
  <2>o. /\ o \in Nat /\ o + Len(body) \in Nat
        /\ Fits(a, kept, unsent, o + Len(body)) /\ Fits(a, kept, body, o)
    BY <1>1, Lengths DEF Flow
  <2> HIDE DEF o
  <2>2. /\ Head(unsent) = FrameAt(a, kept, o + Len(body) + 1) /\ Head(unsent) \in Frame
        /\ Fits(a, kept, Tail(unsent), o + Len(body) + 1)
        /\ Len(unsent) = Len(Tail(unsent)) + 1 /\ Len(Tail(unsent)) \in Nat
    BY <1>4, <2>o, Lengths, Rows, FitsTail
  <2>3. Fits(a, kept, Append(body, Head(unsent)), o)
    BY <2>o, <2>2, Lengths, Rows, FitsAppend
  <2>4. Len(body') = Len(body) + 1
    BY <2>1, <2>2, RowTypes DEF IInv, TypeOK
  <2>5. /\ o + Len(body) + 1 = Len(seen') + Len(wire') + Len(body')
        /\ Len(seen') + Len(wire') + Len(body') + Len(unsent')
            = Len(seen) + Len(wire) + Len(body) + Len(unsent)
    <3>1. Len(seen') = Len(seen) /\ Len(wire') = Len(wire)
      BY <1>2
    <3>2. Len(unsent) = Len(unsent') + 1 /\ Len(unsent') \in Nat
      BY <2>1, <2>2
    <3> QED BY <2>4, <3>1, <3>2, Lengths DEF o
  <2> QED BY <1>1, <1>2, <2>1, <2>2, <2>3, <2>5 DEF Flow, o
<1> QED BY <1>3, <1>4

LEMMA WriteInOrder == IInv /\ WriteFrame => InOrder'
<1> SUFFICES ASSUME IInv, WriteFrame
             PROVE  \E a \in Answers : Flow(a)'
  BY DEF InOrder
<1>1. PICK a \in Answers : Flow(a)
  BY DEF IInv, InOrder, WriteFrame
<1>2. /\ worker = "responding" /\ body # <<>> /\ ~ended
      /\ wire' = Append(wire, Head(body)) /\ body' = Tail(body)
      /\ UNCHANGED <<coordinator, unsent, kept, worker, seen, ended>>
  BY <1>1 DEF WriteFrame, Flow
<1> DEFINE o == Len(seen)
<1>3. /\ o \in Nat /\ o + Len(wire) \in Nat
      /\ Fits(a, kept, wire, o) /\ Fits(a, kept, body, o + Len(wire))
  BY <1>1, Lengths DEF Flow
<1>4. /\ Head(body) = FrameAt(a, kept, o + Len(wire) + 1) /\ Head(body) \in Frame
      /\ Fits(a, kept, Tail(body), o + Len(wire) + 1)
      /\ Len(body) = Len(Tail(body)) + 1 /\ Len(Tail(body)) \in Nat
  BY <1>2, <1>3, Lengths, Rows, FitsTail
<1>5. Head(body) \in Frame \cup {EndMark}
  BY <1>4
<1>6. Fits(a, kept, Append(wire, Head(body)), o)
  BY <1>3, <1>4, <1>5, Lengths, Rows, FitsAppend
<1>7. Len(wire') = Len(wire) + 1
  BY <1>2, <1>5, RowTypes, Rows, Lengths
<1>8. /\ Len(seen') = Len(seen) /\ Len(unsent') = Len(unsent)
      /\ Len(body) = Len(body') + 1 /\ Len(body') \in Nat
  BY <1>2, <1>4
<1>9. /\ o + Len(wire) + 1 = Len(seen') + Len(wire')
      /\ Len(seen') + Len(wire') + Len(body') = Len(seen) + Len(wire) + Len(body)
  BY <1>7, <1>8, Lengths
<1> QED BY <1>1, <1>2, <1>4, <1>6, <1>8, <1>9 DEF Flow

LEMMA EndInOrder == IInv /\ WriteEnd => InOrder'
<1> SUFFICES ASSUME IInv, WriteEnd, client = "reading"
             PROVE  \E a \in Answers : Flow(a)'
  BY DEF InOrder, WriteEnd
<1>1. PICK a \in Answers : Flow(a)
  BY DEF IInv, InOrder
<1>2. /\ worker = "responding" /\ worker' = "free" /\ ~ended
      /\ body = <<>> /\ unsent = <<>> /\ coordinator = "done"
      /\ wire' = Append(wire, EndMark)
      /\ UNCHANGED <<coordinator, unsent, kept, body, seen, ended>>
  BY <1>1 DEF WriteEnd, Flow, IInv, StagesFollow
<1>a. Len(a) \in Nat
  BY AnswerTypes
<1>3. Len(seen) + Len(wire) = kept + Len(a)
  BY <1>1, <1>2, <1>a, Lengths DEF Flow
<1>4. EndMark = FrameAt(a, kept, Len(seen) + Len(wire) + 1)
  BY <1>3, <1>a, Lengths, EndIsLast
<1>5. Fits(a, kept, seen, 0) /\ Fits(a, kept, wire, Len(seen))
  BY <1>1 DEF Flow
<1>6. EndMark \in Frame \cup {EndMark}
  OBVIOUS
<1>7. Fits(a, kept, wire', Len(seen)) /\ Len(wire') = Len(wire) + 1
  <2>1. Fits(a, kept, Append(wire, EndMark), Len(seen))
    BY <1>4, <1>5, <1>6, Lengths, Rows, FitsAppend
  <2>2. Len(Append(wire, EndMark)) = Len(wire) + 1
    BY <1>6, Lengths, Rows, RowTypes
  <2> QED BY <1>2, <2>1, <2>2
<1>8. /\ Fits(a, kept', seen', 0)
      /\ Fits(a, kept', wire', Len(seen'))
      /\ Fits(a, kept', body', Len(seen') + Len(wire'))
      /\ Fits(a, kept', unsent', Len(seen') + Len(wire') + Len(body'))
  BY <1>2, <1>5, <1>7, FitsEmpty
<1>9. Len(seen') + Len(wire') + Len(body') + Len(unsent') = kept' + Len(a) + 1
  <2>1. Len(seen') = Len(seen) /\ Len(body') = 0 /\ Len(unsent') = 0
    BY <1>2, Lengths
  <2> QED BY <1>2, <1>3, <1>7, <1>a, <2>1, Lengths
<1> QED BY <1>1, <1>2, <1>8, <1>9 DEF Flow

\* The client reads the end only when nothing else is on its way.
LEMMA ReadInOrder ==
  ASSUME IInv, ClientReads
  PROVE  /\ InOrder'
         /\ ~ended
         /\ \E a \in Answers :
              /\ Fits(a, kept, seen, 0)
              /\ IF Head(wire) = EndMark THEN Len(seen) = kept + Len(a)
                 ELSE Head(wire) = FrameAt(a, kept, Len(seen) + 1)
<1>1. PICK a \in Answers : Flow(a)
  BY DEF IInv, InOrder, ClientReads
<1>2. /\ wire # <<>> /\ ~ended /\ wire' = Tail(wire)
      /\ UNCHANGED <<coordinator, unsent, kept, body, worker, client>>
  BY <1>1 DEF ClientReads, Flow
<1>a. Len(a) \in Nat
  BY AnswerTypes
<1>3. /\ Fits(a, kept, seen, 0) /\ Fits(a, kept, wire, Len(seen))
      /\ Fits(a, kept, body, Len(seen) + Len(wire))
      /\ Fits(a, kept, unsent, Len(seen) + Len(wire) + Len(body))
  BY <1>1 DEF Flow
<1>4. /\ Head(wire) = FrameAt(a, kept, Len(seen) + 1)
      /\ Fits(a, kept, Tail(wire), Len(seen) + 1)
      /\ Len(wire) = Len(Tail(wire)) + 1 /\ Len(Tail(wire)) \in Nat
  BY <1>2, <1>3, Lengths, Rows, FitsTail
<1>b. Len(wire) = Len(wire') + 1 /\ Len(wire') \in Nat
  BY <1>2, <1>4
<1>5. Head(wire) \in Frame \cup {EndMark}
  BY <1>2, Lengths, Rows, RowTypes
<1>6. CASE Head(wire) = EndMark
  <2>1. Len(seen) + 1 > kept + Len(a)
    <3>1. Len(seen) + 1 \in Nat \ {0} /\ kept \in Nat
      BY Lengths
    <3> QED BY <1>4, <1>6, <3>1, EndIsLast
  <2>2. /\ coordinator = "done" /\ worker = "free"
        /\ Len(seen) + Len(wire) + Len(body) + Len(unsent) = kept + Len(a) + 1
    BY <1>1, <1>2, <1>a, <1>b, <2>1, Lengths DEF Flow, IInv, TypeOK
  <2>3. /\ Len(seen) = kept + Len(a) /\ Len(wire') = 0
        /\ Len(body) = 0 /\ Len(unsent) = 0
    BY <1>a, <1>b, <2>1, <2>2, Lengths
  <2>4. wire' = <<>> /\ body = <<>> /\ unsent = <<>>
    BY <1>2, <2>3, Lengths, Rows, RowTypes, EmptySeq
  <2>5. Flow(a)'
    <3>1. seen' = seen /\ ended' = TRUE
      BY <1>6 DEF ClientReads
    <3>2. /\ Fits(a, kept', seen', 0)
          /\ Fits(a, kept', wire', Len(seen'))
          /\ Fits(a, kept', body', Len(seen') + Len(wire'))
          /\ Fits(a, kept', unsent', Len(seen') + Len(wire') + Len(body'))
      BY <1>2, <1>3, <2>4, <3>1, FitsEmpty
    <3>3. Len(seen') + Len(wire') + Len(body') + Len(unsent') = kept' + Len(a)
      <4>1. Len(seen') = Len(seen) /\ Len(body') = Len(body) /\ Len(unsent') = Len(unsent)
        BY <1>2, <3>1
      <4> QED BY <1>2, <1>a, <2>3, <4>1, Lengths, SMTT(30)
    <3> QED BY <1>2, <2>2, <2>4, <3>1, <3>2, <3>3 DEF Flow
  <2> QED BY <1>2, <1>3, <1>6, <2>3, <2>5 DEF InOrder
<1>7. CASE Head(wire) # EndMark
  <2>1. seen' = Append(seen, Head(wire)) /\ ended' = ended /\ Head(wire) \in Frame
    BY <1>5, <1>7 DEF ClientReads
  <2>2. 0 + Len(seen) + 1 = Len(seen) + 1
    BY Lengths
  <2>3. Fits(a, kept, Append(seen, Head(wire)), 0)
    BY <1>3, <1>4, <2>1, <2>2, Lengths, Rows, FitsAppend
  <2>4. Len(seen') = Len(seen) + 1
    BY <2>1, Lengths, Rows, RowTypes
  <2>5. Len(body') = Len(body) /\ Len(unsent') = Len(unsent)
    BY <1>2
  <2>6. /\ Len(seen') + Len(wire') = Len(seen) + Len(wire)
        /\ Len(seen') + Len(wire') + Len(body') = Len(seen) + Len(wire) + Len(body)
        /\ Len(seen') + Len(wire') + Len(body') + Len(unsent')
            = Len(seen) + Len(wire) + Len(body) + Len(unsent)
    BY <1>b, <2>4, <2>5, Lengths
  <2>7. Flow(a)'
    BY <1>1, <1>2, <1>3, <1>4, <2>1, <2>3, <2>4, <2>6 DEF Flow
  <2> QED BY <1>2, <1>3, <1>4, <1>7, <2>7 DEF InOrder
<1> QED BY <1>6, <1>7

LEMMA NextIInv == IInv /\ [Next]_vars => IInv'
<1> SUFFICES ASSUME IInv, [Next]_vars PROVE IInv'
  OBVIOUS
<1>1. CASE Next
  <2>1. TypeOK' /\ StagesFollow'
    BY <1>1, NextTypes
  <2>2. InOrder'
    <3>1. CASE Dispatcher
      <4>1. UNCHANGED <<coordinator, unsent, kept, body, worker, wire, client, seen, ended>>
        BY <3>1 DEF Dispatcher, DispatchReturns, DispatchPanics
      <4> QED BY <4>1 DEF IInv, InOrder, Flow
    <3>2. CASE KeepaliveTick
      BY <3>2, KeepaliveInOrder
    <3>3. CASE ReceiveResult
      BY <3>3, ReceiveInOrder
    <3>4. CASE SendFrame
      BY <3>4, SendInOrder
    <3>5. CASE WriteFrame
      BY <3>5, WriteInOrder
    <3>6. CASE WriteEnd
      BY <3>6, EndInOrder
    <3>7. CASE WriteToNobody \/ ClientLeaves
      BY <3>7 DEF WriteToNobody, ClientLeaves, InOrder
    <3>8. CASE ClientReads
      BY <3>8, ReadInOrder
    <3> QED BY <1>1, <3>1, <3>2, <3>3, <3>4, <3>5, <3>6, <3>7, <3>8
            DEF Next, Coordinator, Server, Client
  <2> QED BY <2>1, <2>2 DEF IInv
<1>2. CASE UNCHANGED vars
  <2>1. TypeOK' /\ StagesFollow'
    BY <1>2 DEF vars, IInv, TypeOK, StagesFollow
  <2>2. InOrder'
    BY <1>2 DEF vars, IInv, InOrder, Flow
  <2> QED BY <2>1, <2>2 DEF IInv
<1> QED BY <1>1, <1>2

LEMMA InductiveInvariant == Spec => []IInv
BY InitIInv, NextIInv, PTL DEF Spec

\* The channels and the socket hold frames only, the end mark is only written to
\* the socket, and that never holds more than it has room for.
THEOREM StreamTypes == Spec => []TypeOK
<1>1. IInv => TypeOK
  BY DEF IInv
<1> QED BY <1>1, InductiveInvariant, PTL
-----------------------------------------------------------------------------
(* Nothing is lost. *)

\* Two rows that follow each other are one.
LEMMA FitsJoined ==
  ASSUME NEW a \in Answers, NEW k \in Nat, NEW S, NEW s \in Seq(S), NEW t \in Seq(S),
         Fits(a, k, s, 0), Fits(a, k, t, Len(s))
  PROVE  Fits(a, k, s \o t, 0)
<1>1. /\ s \o t \in Seq(S) /\ Len(s \o t) = Len(s) + Len(t)
      /\ Len(s) \in Nat /\ Len(t) \in Nat
      /\ \A i \in 1 .. Len(s) + Len(t) :
           (s \o t)[i] = IF i <= Len(s) THEN s[i] ELSE t[i - Len(s)]
  BY ConcatProperties, LenProperties
<1>2. ASSUME NEW i \in 1 .. Len(s) + Len(t)
      PROVE  (s \o t)[i] = FrameAt(a, k, 0 + i)
  <2>1. CASE i <= Len(s)
    BY <1>1, <2>1 DEF Fits
  <2>2. CASE i > Len(s)
    <3>1. i - Len(s) \in 1 .. Len(t) /\ Len(s) + (i - Len(s)) = 0 + i
      BY <1>1, <2>2
    <3>2. t[i - Len(s)] = FrameAt(a, k, Len(s) + (i - Len(s)))
      BY <3>1 DEF Fits
    <3> QED BY <1>1, <2>2, <3>1, <3>2
  <2> QED BY <1>1, <2>1, <2>2
<1> QED BY <1>1, <1>2 DEF Fits

LEMMA JoinedRows ==
  ASSUME NEW S, NEW s \in Seq(S), NEW t \in Seq(S)
  PROVE  s \o t \in Seq(S) /\ Len(s \o t) = Len(s) + Len(t)
BY ConcatProperties

LEMMA FitsJoinedThrice ==
  ASSUME NEW a \in Answers, NEW k \in Nat, NEW S, NEW s \in Seq(S), NEW t \in Seq(S),
         NEW u \in Seq(S), NEW v \in Seq(S),
         Fits(a, k, s, 0), Fits(a, k, t, Len(s)), Fits(a, k, u, Len(s) + Len(t)),
         Fits(a, k, v, Len(s) + Len(t) + Len(u))
  PROVE  /\ Fits(a, k, s \o t \o u \o v, 0) /\ s \o t \o u \o v \in Seq(S)
         /\ Len(s \o t \o u \o v) = Len(s) + Len(t) + Len(u) + Len(v)
<1>1. s \o t \in Seq(S) /\ Len(s \o t) = Len(s) + Len(t)
  BY JoinedRows
<1>2. Fits(a, k, s \o t, 0)
  BY FitsJoined
<1>3. s \o t \o u \in Seq(S) /\ Len(s \o t \o u) = Len(s) + Len(t) + Len(u)
  BY <1>1, JoinedRows
<1>4. Fits(a, k, s \o t \o u, 0)
  <2>1. Fits(a, k, u, Len(s \o t))
    BY <1>1
  <2> QED BY <1>1, <1>2, <2>1, FitsJoined
<1>5. s \o t \o u \o v \in Seq(S) /\ Len(s \o t \o u \o v) = Len(s) + Len(t) + Len(u) + Len(v)
  BY <1>3, JoinedRows
<1>6. Fits(a, k, s \o t \o u \o v, 0)
  <2>1. Fits(a, k, v, Len(s \o t \o u))
    BY <1>3
  <2> QED BY <1>3, <1>4, <2>1, FitsJoined
<1> QED BY <1>5, <1>6

\* Two rows of the same things are equal.
LEMMA FitsUnique ==
  ASSUME NEW a \in Answers, NEW k \in Nat, NEW S, NEW s \in Seq(S), NEW t \in Seq(S),
         Fits(a, k, s, 0), Fits(a, k, t, 0), Len(s) = Len(t)
  PROVE  s = t
<1>1. \A i \in 1 .. Len(s) : s[i] = t[i]
  BY DEF Fits
<1> QED BY <1>1, SeqEqual

\* What a client is to read, from the keepalives to the end, is such a row.
LEMMA OwedFits ==
  ASSUME NEW a \in Answers, NEW k \in Nat, NEW end \in {<<>>, <<EndMark>>}
  PROVE  LET Written == Frame \cup {EndMark}
             owed == Keepalives(k) \o a \o end
         IN  /\ Fits(a, k, owed, 0) /\ owed \in Seq(Written)
             /\ Len(owed) = k + Len(a) + Len(end)
<1> DEFINE Written == Frame \cup {EndMark}
<1>1. /\ Keepalives(k) \in Seq(Written) /\ Len(Keepalives(k)) = k
      /\ Fits(a, k, Keepalives(k), 0)
  <2>1. "keepalive" \in Written
    BY DEF Frame
  <2>2. Keepalives(k) \in Seq(Written) /\ Len(Keepalives(k)) = k
    BY <2>1 DEF Keepalives
  <2> QED BY <2>2 DEF Keepalives, Fits, FrameAt
<1>2. /\ a \in Seq(Written) /\ Len(a) \in Nat /\ Fits(a, k, a, Len(Keepalives(k)))
  <2>1. \A i \in 1 .. Len(a) : a[i] \in Written
    BY AnswerTypes
  <2>2. a \in Seq(Written)
    BY <2>1, AnswerTypes
  <2> QED BY <1>1, <2>2, AnswerTypes, FitsAnswer
<1>3. end \in Seq(Written) /\ Fits(a, k, end, k + Len(a))
  <2>1. CASE end = <<>>
    BY <2>1, RowTypes, FitsEmpty
  <2>2. CASE end = <<EndMark>>
    <3>1. EndMark = FrameAt(a, k, k + Len(a) + 1)
      BY <1>2, EndIsLast
    <3>2. end \in Seq(Written) /\ Len(end) = 1 /\ end[1] = EndMark
      BY <2>2
    <3> QED BY <3>1, <3>2 DEF Fits
  <2> QED BY <2>1, <2>2
<1> HIDE DEF Written
<1>4. Fits(a, k, a, Len(Keepalives(k))) /\ Fits(a, k, end, Len(Keepalives(k)) + Len(a))
  BY <1>1, <1>2, <1>3
<1>5. Keepalives(k) \o a \in Seq(Written) /\ Len(Keepalives(k) \o a) = k + Len(a)
  BY <1>1, <1>2, JoinedRows
<1>6. Fits(a, k, Keepalives(k) \o a, 0)
  BY <1>1, <1>2, <1>4, FitsJoined
<1>7. /\ Keepalives(k) \o a \o end \in Seq(Written)
      /\ Len(Keepalives(k) \o a \o end) = k + Len(a) + Len(end)
  BY <1>3, <1>5, JoinedRows, SMTT(30)
<1>8. Fits(a, k, Keepalives(k) \o a \o end, 0)
  <2>1. Fits(a, k, end, Len(Keepalives(k) \o a))
    BY <1>3, <1>5
  <2> QED BY <1>3, <1>5, <1>6, <2>1, FitsJoined
<1> QED BY <1>7, <1>8 DEF Written

\* U-18: a frame is lost only with the client; what it has read, what the socket
\* and the channel hold and what the coordinator has still to send are together
\* every keepalive, one whole answer and at most the end, however the threads run.
THEOREM NothingIsLost == Spec => []NothingLost
<1>1. IInv => NothingLost
  <2> SUFFICES ASSUME IInv, client = "reading", coordinator # "waiting"
               PROVE  \E a \in Answers, end \in {<<>>, <<EndMark>>} :
                        seen \o wire \o body \o unsent = Keepalives(kept) \o a \o end
    BY DEF NothingLost, Answers
  <2>1. PICK a \in Answers : Flow(a)
    BY DEF IInv, InOrder
  <2> DEFINE Written == Frame \cup {EndMark}
  <2>2. /\ seen \in Seq(Written) /\ wire \in Seq(Written)
        /\ body \in Seq(Written) /\ unsent \in Seq(Written)
    <3>1. \A s \in Seq(Frame) : s \in Seq(Written)
      OBVIOUS
    <3> QED BY <3>1, Rows
  <2>3. PICK row \in Seq(Written) :
          /\ row = seen \o wire \o body \o unsent
          /\ Fits(a, kept, row, 0)
          /\ Len(row) = Len(seen) + Len(wire) + Len(body) + Len(unsent)
    <3>1. /\ Fits(a, kept, seen, 0) /\ Fits(a, kept, wire, Len(seen))
          /\ Fits(a, kept, body, Len(seen) + Len(wire))
          /\ Fits(a, kept, unsent, Len(seen) + Len(wire) + Len(body))
      BY <2>1, Lengths DEF Flow
    <3>2. kept \in Nat
      BY Lengths
    <3> HIDE DEF Written
    <3>3. /\ Fits(a, kept, seen \o wire \o body \o unsent, 0)
          /\ seen \o wire \o body \o unsent \in Seq(Written)
          /\ Len(seen \o wire \o body \o unsent)
              = Len(seen) + Len(wire) + Len(body) + Len(unsent)
      BY <2>2, <3>1, <3>2, FitsJoinedThrice
    <3> QED BY <3>3
  <2>4. Len(a) \in Nat
    BY AnswerTypes
  <2>5. PICK end \in {<<>>, <<EndMark>>} : Len(row) = kept + Len(a) + Len(end)
    <3>1. Len(<<>>) = 0 /\ Len(<<EndMark>>) = 1
      OBVIOUS
    <3>2. Len(row) = kept + Len(a) \/ Len(row) = kept + Len(a) + 1
      BY <2>1, <2>3 DEF Flow, IInv, TypeOK
    <3> QED BY <2>4, <3>1, <3>2, Lengths
  <2>6. /\ Fits(a, kept, Keepalives(kept) \o a \o end, 0)
        /\ Keepalives(kept) \o a \o end \in Seq(Written)
        /\ Len(Keepalives(kept) \o a \o end) = kept + Len(a) + Len(end)
    BY Lengths, OwedFits
  <2> QED BY <2>3, <2>5, <2>6, Lengths, FitsUnique
<1> QED BY <1>1, InductiveInvariant, PTL
-----------------------------------------------------------------------------
(* The client's side is a behaviour of SseStream. *)

\* What fits the row so far is keepalives and the beginning of an answer.
LEMMA FitsShows ==
  ASSUME NEW a \in Answers, NEW k \in Nat, NEW s \in Seq(Frame), Fits(a, k, s, 0),
         NEW m \in 0 .. Len(a), Len(s) = k + m
  PROVE  Sse!Shows(s, a, m)
<1>1. a \in Seq(Frame) /\ Len(a) \in Nat /\ \A i \in 1 .. Len(a) : a[i] \in Frame
  BY AnswerTypes
<1>2. \A i \in 1 .. k + m : s[i] \in Frame /\ s[i] = FrameAt(a, k, i)
  <2> SUFFICES ASSUME NEW i \in 1 .. k + m PROVE s[i] \in Frame /\ s[i] = FrameAt(a, k, i)
    OBVIOUS
  <2>1. 0 + i = i
    OBVIOUS
  <2> QED BY <2>1, ElementOfSeq DEF Fits
<1> DEFINE front == SubSeq(s, 1, k)
<1> DEFINE back == SubSeq(s, k + 1, k + m)
<1> DEFINE begun == SubSeq(a, 1, m)
<1>3. Len(s) - m = k /\ Len(s) - m + 1 = k + 1
  OBVIOUS
<1>4. Sse!IsKeepalives(front)
  <2>1. \A i \in 1 .. k : s[i] \in Frame
    BY <1>2
  <2>2. Len(front) = k /\ \A i \in 1 .. k : front[i] = s[i]
    BY <2>1, SubSeqProperties
  <2>3. \A i \in 1 .. k : s[i] = "keepalive"
    BY <1>2 DEF FrameAt
  <2> QED BY <2>2, <2>3 DEF Sse!IsKeepalives
<1>5. /\ back \in Seq(Frame) /\ Len(back) = m
      /\ \A i \in 1 .. m : back[i] = s[k + i]
  <2>1. \A i \in k + 1 .. k + m : s[i] \in Frame
    BY <1>2
  <2>2. /\ back \in Seq(Frame)
        /\ Len(back) = IF k + 1 <= k + m THEN (k + m) - (k + 1) + 1 ELSE 0
        /\ \A i \in 1 .. (k + m) - (k + 1) + 1 : back[i] = s[k + 1 + i - 1]
    BY <2>1, SubSeqProperties
  <2>3. (k + m) - (k + 1) + 1 = m /\ \A i \in 1 .. m : k + 1 + i - 1 = k + i
    OBVIOUS
  <2> QED BY <2>2, <2>3
<1>6. /\ begun \in Seq(Frame) /\ Len(begun) = m
      /\ \A i \in 1 .. m : begun[i] = a[i]
  <2>1. \A i \in 1 .. m : a[i] \in Frame
    BY <1>1
  <2> QED BY <2>1, SubSeqProperties
<1>7. \A i \in 1 .. m : s[k + i] = a[i]
  BY <1>1, <1>2 DEF FrameAt
<1>8. back = begun
  <2>1. \A i \in 1 .. Len(back) : back[i] = begun[i]
    BY <1>5, <1>6, <1>7
  <2> QED BY <1>5, <1>6, <2>1, SeqEqual
<1> HIDE DEF front, back, begun
<1>9. m <= Len(s) /\ m <= Len(a) /\ k + m = Len(s)
  BY <1>1
<1> QED BY <1>3, <1>4, <1>8, <1>9 DEF Sse!Shows, front, back, begun

LEMMA ReadRefines ==
  ASSUME IInv, ClientReads
  PROVE  Sse!SeeKeepalive \/ Sse!SeeFrame \/ Sse!SeeEnd
<1>1. PICK a \in Answers :
        /\ Fits(a, kept, seen, 0)
        /\ IF Head(wire) = EndMark THEN Len(seen) = kept + Len(a)
           ELSE Head(wire) = FrameAt(a, kept, Len(seen) + 1)
  BY ReadInOrder
<1>2. ~ended /\ a \in {OkFrames, ErrorFrames} /\ Len(a) \in Nat
  BY ReadInOrder, AnswerTypes DEF Answers
<1>3. CASE Head(wire) = EndMark
  <2>1. Sse!Shows(seen, a, Len(a))
    BY <1>1, <1>2, <1>3, Rows, Lengths, FitsShows
  <2>2. ended' = TRUE /\ UNCHANGED seen
    BY <1>3 DEF ClientReads
  <2> QED BY <1>2, <2>1, <2>2 DEF Sse!SeeEnd
<1>4. CASE Head(wire) # EndMark
  <2>1. seen' = Append(seen, Head(wire)) /\ UNCHANGED ended
    BY <1>4 DEF ClientReads
  <2>2. Head(wire) = FrameAt(a, kept, Len(seen) + 1)
    BY <1>1, <1>4
  <2>3. CASE Len(seen) + 1 <= kept
    <3>1. Head(wire) = "keepalive"
      BY <2>2, <2>3 DEF FrameAt
    <3>2. Sse!IsKeepalives(seen)
      BY <1>1, <2>3, Lengths DEF Sse!IsKeepalives, Fits, FrameAt
    <3> QED BY <1>2, <2>1, <3>1, <3>2 DEF Sse!SeeKeepalive
  <2>4. CASE ~(Len(seen) + 1 <= kept)
    <3> DEFINE m == Len(seen) - kept
    <3>1. Len(seen) + 1 <= kept + Len(a)
      <4>1. Len(seen) + 1 \in Nat \ {0} /\ kept \in Nat
        BY Lengths
      <4> QED BY <1>2, <1>4, <2>2, <4>1, EndIsLast
    <3>2. m \in 0 .. Len(a) - 1 /\ m \in 0 .. Len(a) /\ Len(seen) = kept + m
      BY <1>2, <2>4, <3>1, Lengths
    <3>3. Head(wire) = a[m + 1]
      <4>1. (Len(seen) + 1) - kept = m + 1
        BY Lengths
      <4>2. Head(wire) = a[(Len(seen) + 1) - kept]
        BY <2>2, <2>4, <3>1 DEF FrameAt
      <4> HIDE DEF m
      <4> QED BY <4>1, <4>2, Zenon
    <3> HIDE DEF m
    <3>4. Sse!Shows(seen, a, m)
      BY <1>1, <3>2, Rows, Lengths, FitsShows
    <3> QED BY <1>2, <2>1, <3>2, <3>3, <3>4 DEF Sse!SeeFrame
  <2> QED BY <2>3, <2>4
<1> QED BY <1>3, <1>4

\* U-18, A3: a client sees keepalives, then one whole answer or an in-band error
\* closed by [DONE], and the end of the body only after that, in whatever order
\* dispatcher, coordinator and worker run and whichever of them panics.
THEOREM StreamImplementsSse == Spec => ImplementsSseStream
<1>1. Init => Sse!Init
  BY DEF Init, Sse!Init
<1>2. IInv /\ [Next]_vars =>
        [Sse!SeeKeepalive \/ Sse!SeeFrame \/ Sse!SeeEnd]_<<seen, ended>>
  <2> SUFFICES ASSUME IInv, [Next]_vars
               PROVE  (Sse!SeeKeepalive \/ Sse!SeeFrame \/ Sse!SeeEnd)
                      \/ UNCHANGED <<seen, ended>>
    OBVIOUS
  <2>1. CASE ClientReads
    BY <2>1, ReadRefines
  <2>2. CASE Dispatcher \/ Coordinator
    BY <2>2 DEF Dispatcher, DispatchReturns, DispatchPanics, Coordinator,
      KeepaliveTick, ReceiveResult, SendFrame
  <2>3. CASE Server \/ ClientLeaves
    BY <2>3 DEF Server, WriteFrame, WriteEnd, WriteToNobody, ClientLeaves
  <2>4. CASE UNCHANGED vars
    BY <2>4 DEF vars
  <2> QED BY <2>1, <2>2, <2>3, <2>4 DEF Next, Client
<1> QED BY <1>1, <1>2, InductiveInvariant, PTL DEF Spec, ImplementsSseStream, Sse!Spec
-----------------------------------------------------------------------------
(* How a streamed request ends. *)

\* The dispatcher, the coordinator or the worker can take a step.
CanMove ==
  \/ dispatcher = "running"
  \/ coordinator = "sending" \/ (coordinator = "waiting" /\ dispatcher = "done")
  \/ /\ worker = "responding"
     /\ body # <<>> \/ coordinator = "done"
     /\ client = "reading" => Len(wire) < WireCap

\* No thread waits for another that is gone: what can hold a stream up is only a
\* client that stays and does not read, and then dispatcher and coordinator are
\* through, the worker alone is held, and the client is owed nothing else than what
\* socket and channel hold.
OnlyIdleClientHolds ==
  ~(worker = "free" /\ coordinator = "done") /\ ~CanMove =>
    /\ client = "reading" /\ Len(wire) = WireCap /\ worker = "responding"
    /\ dispatcher = "done" /\ coordinator = "done"
    /\ \E answer \in {OkFrames, ErrorFrames} :
         seen \o wire \o body = Keepalives(kept) \o answer

THEOREM StreamHeldByIdleClientOnly == Spec => []OnlyIdleClientHolds
<1>1. IInv /\ NothingLost => OnlyIdleClientHolds
  <2> SUFFICES ASSUME IInv, NothingLost, ~(worker = "free" /\ coordinator = "done"), ~CanMove
               PROVE  /\ client = "reading" /\ Len(wire) = WireCap /\ worker = "responding"
                      /\ dispatcher = "done" /\ coordinator = "done"
                      /\ \E answer \in {OkFrames, ErrorFrames} :
                           seen \o wire \o body = Keepalives(kept) \o answer
    BY DEF OnlyIdleClientHolds
  <2>1. dispatcher = "done" /\ coordinator = "done" /\ worker = "responding"
    BY DEF CanMove, IInv, TypeOK
  <2>2. client = "reading" /\ ~(Len(wire) < WireCap)
    BY <2>1 DEF CanMove, IInv, TypeOK
  <2>3. Len(wire) = WireCap
    BY <2>2, Lengths, StreamAssumption DEF IInv, TypeOK
  <2>4. unsent = <<>>
    BY <2>1 DEF IInv, TypeOK
  <2>5. PICK a \in Answers : Flow(a)
    BY <2>2 DEF IInv, InOrder
  <2>6. PICK answer \in {OkFrames, ErrorFrames}, end \in {<<>>, <<EndMark>>} :
          seen \o wire \o body \o unsent = Keepalives(kept) \o answer \o end
    BY <2>1, <2>2 DEF NothingLost
  <2> DEFINE Written == Frame \cup {EndMark}
  <2>7. /\ seen \in Seq(Written) /\ wire \in Seq(Written) /\ body \in Seq(Written)
        /\ answer \in Seq(Written) /\ end \in Seq(Written) /\ Keepalives(kept) \in Seq(Written)
    <3>1. \A s \in Seq(Frame) : s \in Seq(Written)
      OBVIOUS
    <3>2. Keepalives(kept) \in Seq(Frame)
      BY Lengths DEF Keepalives, Frame
    <3>3. answer \in Seq(Frame)
      BY AnswerTypes DEF Answers
    <3>4. end \in Seq(Written)
      <4>1. EndMark \in Written
        OBVIOUS
      <4> HIDE DEF Written
      <4>2. <<>> \in Seq(Written) /\ <<EndMark>> \in Seq(Written)
        BY <4>1
      <4> QED BY <4>2
    <3> QED BY <3>1, <3>2, <3>3, <3>4, Rows
  <2> HIDE DEF Written
  <2>8. seen \o wire \o body \o unsent = seen \o wire \o body
    <3>1. seen \o wire \o body \in Seq(Written)
      BY <2>7
    <3> QED BY <2>4, <3>1
  <2>9. end = <<>>
    <3>1. Len(seen \o wire \o body) = Len(seen) + Len(wire) + Len(body)
      <4>1. /\ seen \o wire \o body \in Seq(Written)
            /\ Len(seen \o wire) = Len(seen) + Len(wire) /\ seen \o wire \in Seq(Written)
        BY <2>7
      <4> QED BY <2>7, <4>1, JoinedRows
    <3>2. Len(Keepalives(kept) \o answer \o end) = kept + Len(answer) + Len(end)
      BY Lengths, OwedFits DEF Answers
    <3>3. Len(seen) + Len(wire) + Len(body) = kept + Len(a)
      <4>1. ~ended
        BY <2>1, <2>5 DEF Flow
      <4> QED BY <2>1, <2>4, <2>5, <4>1, Lengths DEF Flow
    <3>4. /\ Len(a) = 2 \/ Len(a) = 4
          /\ Len(answer) = 2 \/ Len(answer) = 4
          /\ Len(<<EndMark>>) = 1
      BY DEF Answers, OkFrames, ErrorFrames
    <3>5. Len(a) = Len(answer) + Len(end)
      BY <2>6, <2>8, <3>1, <3>2, <3>3, <3>4, Lengths
    <3>6. ASSUME Len(end) = 1 PROVE FALSE
      <4>1. Len(a) = Len(answer) + 1
        BY <3>5, <3>6
      <4>2. PICK m \in {2, 4} : Len(a) = m
        BY <3>4
      <4>3. PICK n \in {2, 4} : Len(answer) = n
        BY <3>4
      <4>4. m = n + 1
        BY <4>1, <4>2, <4>3
      <4> QED BY <4>4
    <3> QED BY <3>4, <3>6
  <2>10. Keepalives(kept) \o answer \o <<>> = Keepalives(kept) \o answer
    <3>1. Keepalives(kept) \o answer \in Seq(Written)
      BY <2>7
    <3> QED BY <3>1
  <2> QED BY <2>1, <2>2, <2>3, <2>6, <2>8, <2>9, <2>10
<1> QED BY <1>1, InductiveInvariant, NothingIsLost, PTL

\* What a stream whose dispatch is over has still to do: a frame is sent, written and
\* read; the coordinator may have an answer to take over, the worker an end to write.
CoordinatorLeft == CASE coordinator = "waiting" -> 16 [] coordinator = "sending" -> 1 [] OTHER -> 0
WorkerLeft == IF worker = "responding" THEN 2 ELSE 0
ClientLeft == IF client = "reading" THEN 1 ELSE 0
Left ==
  3 * Len(unsent) + 2 * Len(body) + Len(wire) + CoordinatorLeft + WorkerLeft + ClientLeft

\* Once the dispatch is over, every step of anybody brings the stream nearer to its
\* end: no keepalive follows, nothing is sent, written or read twice, and no thread
\* goes back.  With OnlyIdleClientHolds: it ends with its threads free, or waits for
\* a client that stays and does not read.
StreamRunsDown == [][dispatcher = "done" => Left' < Left /\ Left' >= 0]_vars

THEOREM StreamEnds == Spec => StreamRunsDown
<1> DEFINE Less == dispatcher = "done" => Left' < Left /\ Left' >= 0
<1>1. IInv /\ IInv' /\ [Next]_vars => [Less]_vars
  <2> SUFFICES ASSUME IInv, IInv', Next, dispatcher = "done" PROVE Left' < Left /\ Left' >= 0
    OBVIOUS
  <2> DEFINE S == Frame \cup {EndMark}
  <2>1. /\ Len(unsent) \in Nat /\ Len(body) \in Nat /\ Len(wire) \in Nat
        /\ CoordinatorLeft \in Nat /\ WorkerLeft \in Nat /\ ClientLeft \in Nat
        /\ Len(<<>>) = 0
    BY Lengths, SMT DEF CoordinatorLeft, WorkerLeft, ClientLeft
  <2>2. /\ \E n \in Nat : Len(unsent') = n
        /\ \E n \in Nat : Len(body') = n
        /\ \E n \in Nat : Len(wire') = n
    BY RowTypes DEF IInv, TypeOK
  <2>3. /\ \E n \in Nat : CoordinatorLeft' = n
        /\ \E n \in Nat : WorkerLeft' = n
        /\ \E n \in Nat : ClientLeft' = n
    BY SMT DEF CoordinatorLeft, WorkerLeft, ClientLeft
  <2>4. Left' >= 0
    BY <2>2, <2>3, SMT DEF Left
  <2>5. CASE Dispatcher \/ KeepaliveTick
    BY <2>5 DEF Dispatcher, DispatchReturns, DispatchPanics, KeepaliveTick
  <2>6. CASE ReceiveResult
    <3>1. /\ CoordinatorLeft = 16 /\ CoordinatorLeft' <= 1
          /\ WorkerLeft' = WorkerLeft /\ ClientLeft' = ClientLeft
          /\ body' = body /\ wire' = wire
      BY <2>6, SMT DEF ReceiveResult, CoordinatorLeft, WorkerLeft, ClientLeft
    <3>2. \E n \in 0 .. 4 : Len(unsent') = n
      <4>1. unsent' \in {unsent, OkFrames, ErrorFrames}
        BY <2>6 DEF ReceiveResult, Answer
      <4>2. unsent = <<>>
        BY <2>6 DEF ReceiveResult, IInv, TypeOK
      <4>3. Len(OkFrames) = 4 /\ Len(ErrorFrames) = 2
        BY DEF OkFrames, ErrorFrames
      <4> QED BY <2>1, <4>1, <4>2, <4>3
    <3>3. Left' < Left
      BY <2>1, <2>3, <3>1, <3>2, SMTT(30) DEF Left
    <3> QED BY <2>4, <3>3
  <2>7. CASE SendFrame
    <3>1. /\ CoordinatorLeft = 1 /\ WorkerLeft' = WorkerLeft /\ ClientLeft' = ClientLeft
          /\ wire' = wire
      BY <2>7, SMT DEF SendFrame, CoordinatorLeft, WorkerLeft, ClientLeft
    <3>2. \/ /\ CoordinatorLeft' = 1
             /\ \E n \in Nat : Len(unsent') = n /\ Len(unsent) = n + 1
             /\ Len(body') = Len(body) + 1
          \/ /\ CoordinatorLeft' = 0 /\ Len(unsent') = 0 /\ body' = body
      <4>1. CASE unsent # <<>> /\ BodyReceived
        <5>1. unsent' = Tail(unsent) /\ body' = Append(body, Head(unsent)) /\ coordinator' = coordinator
              /\ coordinator = "sending"
          BY <2>7, <4>1 DEF SendFrame
        <5>2. /\ Len(unsent) = Len(Tail(unsent)) + 1 /\ Len(Tail(unsent)) \in Nat
              /\ Head(unsent) \in Frame
          BY <4>1, Rows, RowTypes
        <5>3. Len(Append(body, Head(unsent))) = Len(body) + 1
          BY <5>2, Rows, RowTypes
        <5> QED BY <5>1, <5>2, <5>3 DEF CoordinatorLeft
      <4>2. CASE ~(unsent # <<>> /\ BodyReceived)
        <5>1. unsent' = <<>> /\ body' = body /\ coordinator' = "done"
          BY <2>7, <4>2 DEF SendFrame
        <5> QED BY <2>1, <5>1 DEF CoordinatorLeft
      <4> QED BY <4>1, <4>2
    <3>3. Left' < Left
      BY <2>1, <3>1, <3>2, SMT DEF Left
    <3> QED BY <2>4, <3>3
  <2>8. CASE WriteFrame
    <3>1. /\ CoordinatorLeft' = CoordinatorLeft /\ WorkerLeft' = WorkerLeft
          /\ ClientLeft' = ClientLeft /\ unsent' = unsent
      BY <2>8, SMT DEF WriteFrame, CoordinatorLeft, WorkerLeft, ClientLeft
    <3>2. /\ \E n \in Nat : Len(body') = n /\ Len(body) = n + 1
          /\ Len(wire') = Len(wire) + 1
      <4>1. body # <<>> /\ wire' = Append(wire, Head(body)) /\ body' = Tail(body)
        BY <2>8 DEF WriteFrame
      <4>2. /\ Len(body) = Len(Tail(body)) + 1 /\ Len(Tail(body)) \in Nat
            /\ Head(body) \in S
        BY <4>1, Rows, RowTypes
      <4>3. Len(Append(wire, Head(body))) = Len(wire) + 1
        BY <4>2, Rows, RowTypes
      <4> QED BY <4>1, <4>2, <4>3
    <3>3. Left' < Left
      BY <2>1, <3>1, <3>2, SMT DEF Left
    <3> QED BY <2>4, <3>3
  <2>9. CASE WriteEnd
    <3>1. /\ CoordinatorLeft' = CoordinatorLeft /\ WorkerLeft = 2 /\ WorkerLeft' = 0
          /\ ClientLeft' = ClientLeft /\ unsent' = unsent /\ body' = body
      BY <2>9, SMT DEF WriteEnd, CoordinatorLeft, WorkerLeft, ClientLeft
    <3>2. Len(wire') = Len(wire) \/ Len(wire') = Len(wire) + 1
      <4>1. wire' = Append(wire, EndMark) \/ wire' = wire
        BY <2>9 DEF WriteEnd
      <4>2. Len(Append(wire, EndMark)) = Len(wire) + 1
        BY Rows, RowTypes
      <4> QED BY <4>1, <4>2
    <3>3. Left' < Left
      BY <2>1, <3>1, <3>2, SMT DEF Left
    <3> QED BY <2>4, <3>3
  <2>10. CASE WriteToNobody
    <3>1. /\ CoordinatorLeft' = CoordinatorLeft
          /\ ClientLeft' = ClientLeft /\ unsent' = unsent /\ wire' = wire
          /\ WorkerLeft = 2 /\ (WorkerLeft' = 0 \/ WorkerLeft' = 2)
      BY <2>10, SMT DEF WriteToNobody, CoordinatorLeft, WorkerLeft, ClientLeft
    <3>2. \E n \in Nat : Len(body') = n /\ Len(body) >= n + 1
      <4>1. body # <<>> /\ (body' = <<>> \/ body' = Tail(body))
        BY <2>10 DEF WriteToNobody
      <4>2. Len(body) = Len(Tail(body)) + 1 /\ Len(Tail(body)) \in Nat
        BY <4>1, Rows, RowTypes
      <4> QED BY <2>1, <4>1, <4>2
    <3>3. Left' < Left
      BY <2>1, <3>1, <3>2, SMT DEF Left
    <3> QED BY <2>4, <3>3
  <2>11. CASE ClientReads
    <3>1. /\ CoordinatorLeft' = CoordinatorLeft /\ WorkerLeft' = WorkerLeft
          /\ ClientLeft' = ClientLeft /\ unsent' = unsent /\ body' = body
      BY <2>11, SMT DEF ClientReads, CoordinatorLeft, WorkerLeft, ClientLeft
    <3>2. \E n \in Nat : Len(wire') = n /\ Len(wire) = n + 1
      <4>1. wire # <<>> /\ wire' = Tail(wire)
        BY <2>11 DEF ClientReads
      <4>2. Len(wire) = Len(Tail(wire)) + 1 /\ Len(Tail(wire)) \in Nat
        BY <4>1, Rows, RowTypes
      <4> QED BY <4>1, <4>2
    <3>3. Left' < Left
      BY <2>1, <3>1, <3>2, SMT DEF Left
    <3> QED BY <2>4, <3>3
  <2>12. CASE ClientLeaves
    <3>1. /\ CoordinatorLeft' = CoordinatorLeft /\ WorkerLeft' = WorkerLeft
          /\ ClientLeft = 1 /\ ClientLeft' = 0 /\ unsent' = unsent /\ body' = body
          /\ wire' = <<>>
      BY <2>12, SMT DEF ClientLeaves, CoordinatorLeft, WorkerLeft, ClientLeft
    <3>2. Len(wire') = 0
      BY <2>1, <3>1
    <3>3. Left' < Left
      BY <2>1, <3>1, <3>2, SMT DEF Left
    <3> QED BY <2>4, <3>3
  <2> QED
    BY <2>5, <2>6, <2>7, <2>8, <2>9, <2>10, <2>11, <2>12 DEF Next, Coordinator, Server, Client
<1>2. StreamRunsDown <=> [][Less]_vars
  BY DEF StreamRunsDown
<1> QED BY <1>1, <1>2, InductiveInvariant, PTL DEF Spec
=============================================================================
