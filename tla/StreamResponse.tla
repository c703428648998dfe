--------------------------- MODULE StreamResponse ---------------------------
(***************************************************************************)
(* One `stream: true` request (stream_with_keepalive in src/src/http.rs):  *)
(* a dispatch thread runs the chain, a coordinator thread trickles         *)
(* keepalives and then the answer, the worker thread copies what the       *)
(* coordinator sends to the socket, and the client reads, or goes away.    *)
(* The threads share two channels: `result` (rtx/rrx) and `body` (tx/rx).  *)
(***************************************************************************)
EXTENDS Naturals, Sequences

CONSTANTS MaxKeepalives, \* bound: how many 15s periods a dispatch outlasts
          WireCap        \* frames the socket holds that the client has not read

ASSUME StreamAssumption == MaxKeepalives \in Nat /\ WireCap \in Nat \ {0}

VARIABLES
  dispatcher,  \* the dispatch thread: running or done
  result,      \* what it sent and nobody received: none, ok or errors
  coordinator, \* the coordinator thread: waiting, sending or done
  unsent,      \* the frames of the answer it has still to send
  kept,        \* keepalives it has sent
  body,        \* frames sent on tx and not received on rx
  worker,      \* the worker thread: responding, or free for another request
  wire,        \* written to the socket and not read by the client
  client,      \* reading, or gone
  seen,        \* the frames the client has read
  ended        \* the client has read the end of the body

vars == <<dispatcher, result, coordinator, unsent, kept, body, worker,
          wire, client, seen, ended>>

OkFrames == <<"role", "content", "stop", "DONE">>   \* openai::stream_frames
ErrorFrames == <<"error503", "DONE">>               \* build_503_body, in band
Frame == {"keepalive", "role", "content", "stop", "error503", "DONE"}
EndMark == "end"                                    \* the last, empty chunk

TypeOK ==
  /\ dispatcher \in {"running", "done"}
  /\ result \in {"none", "ok", "errors"}
  /\ coordinator \in {"waiting", "sending", "done"}
  /\ result # "none" => dispatcher = "done"
  /\ unsent \in Seq(Frame)
  /\ unsent # <<>> => coordinator = "sending"
  /\ kept \in 0 .. MaxKeepalives
  /\ body \in Seq(Frame)
  /\ worker \in {"responding", "free"}
  /\ wire \in Seq(Frame \cup {EndMark}) /\ Len(wire) <= WireCap
  /\ client \in {"reading", "gone"}
  /\ seen \in Seq(Frame)
  /\ ended \in BOOLEAN

Init ==
  /\ dispatcher = "running" /\ result = "none"
  /\ coordinator = "waiting" /\ unsent = <<>> /\ kept = 0
  /\ body = <<>> /\ worker = "responding"
  /\ wire = <<>> /\ client = "reading" /\ seen = <<>> /\ ended = FALSE
-----------------------------------------------------------------------------
(* The dispatch thread. *)

\* run_chain returns and its result is sent (the receiver may be gone).
DispatchReturns ==
  /\ dispatcher = "running"
  /\ dispatcher' = "done"
  /\ result' \in {"ok", "errors"}
  /\ UNCHANGED <<coordinator, unsent, kept, body, worker, wire, client, seen, ended>>

\* dispatch_or_panic_error: a panic in run_chain becomes an error result.
DispatchPanics ==
  /\ dispatcher = "running"
  /\ dispatcher' = "done"
  /\ result' = "errors"
  /\ UNCHANGED <<coordinator, unsent, kept, body, worker, wire, client, seen, ended>>
-----------------------------------------------------------------------------
(* The coordinator thread. *)

\* rx goes with the response: sending fails once the worker has left it.
BodyReceived == worker = "responding"

\* Variant: the 15s period goes on while the answer is being sent.
KeepaliveTickAnyTime ==
  /\ coordinator # "done"
  /\ BodyReceived
  /\ kept < MaxKeepalives
  /\ kept' = kept + 1
  /\ body' = Append(body, "keepalive")
  /\ UNCHANGED <<dispatcher, result, coordinator, unsent, worker, wire,
                 client, seen, ended>>

\* 15s without a result.  A failed send tells that the client is gone.
KeepaliveTick ==
  /\ coordinator = "waiting"
  /\ dispatcher = "running"
  /\ kept < MaxKeepalives
  /\ kept' = kept + 1
  /\ IF BodyReceived
     THEN body' = Append(body, "keepalive") /\ UNCHANGED coordinator
     ELSE coordinator' = "done" /\ UNCHANGED body
  /\ UNCHANGED <<dispatcher, result, unsent, worker, wire, client, seen, ended>>

Answer(r) == IF r = "ok" THEN OkFrames ELSE ErrorFrames

\* Variant: the loop is not left with the result.
ReceiveResultAgain ==
  /\ coordinator = "waiting"
  /\ result # "none"
  /\ unsent' = Answer(result)
  /\ UNCHANGED <<dispatcher, result, coordinator, kept, body, worker, wire, client, seen, ended>>

\* recv_timeout returns: the result, or that rtx is gone and there is none.
ReceiveResult ==
  /\ coordinator = "waiting"
  /\ dispatcher = "done"
  /\ IF result = "none"
     THEN coordinator' = "done" /\ UNCHANGED <<unsent, result>>
     ELSE /\ coordinator' = "sending"
          /\ unsent' = Answer(result)
          /\ result' = "none"
  /\ UNCHANGED <<dispatcher, kept, body, worker, wire, client, seen, ended>>

\* Variant: the sender outlives the answer.
SendFrameHoldingTx ==
  /\ coordinator = "sending"
  /\ unsent # <<>>
  /\ BodyReceived
  /\ body' = Append(body, Head(unsent))
  /\ unsent' = Tail(unsent)
  /\ UNCHANGED <<dispatcher, result, coordinator, kept, worker, wire,
                 client, seen, ended>>

\* Variant: a failed send is tried again.
SendFrameInsisting ==
  /\ coordinator = "sending"
  /\ unsent # <<>> => BodyReceived
  /\ IF unsent # <<>>
     THEN /\ body' = Append(body, Head(unsent))
          /\ unsent' = Tail(unsent)
          /\ UNCHANGED coordinator
     ELSE /\ coordinator' = "done"
          /\ UNCHANGED <<unsent, body>>
  /\ UNCHANGED <<dispatcher, result, kept, worker, wire, client, seen, ended>>

\* The next frame of the answer is sent; a failed send ends the thread, and so
\* does (for the error body, whose sends are not checked) running out of frames.
SendFrame ==
  /\ coordinator = "sending"
  /\ IF unsent # <<>> /\ BodyReceived
     THEN /\ body' = Append(body, Head(unsent))
          /\ unsent' = Tail(unsent)
          /\ UNCHANGED coordinator
     ELSE /\ coordinator' = "done"
          /\ unsent' = <<>>
          /\ UNCHANGED body
  /\ UNCHANGED <<dispatcher, result, kept, worker, wire, client, seen, ended>>
-----------------------------------------------------------------------------
(* The worker thread, in Request::respond, and the client. *)

\* ChannelSseBody::read yields a frame, and it is written to the socket, unless
\* the socket is full.
WriteFrame ==
  /\ worker = "responding"
  /\ client = "reading"
  /\ body # <<>>
  /\ Len(wire) < WireCap
  /\ wire' = Append(wire, Head(body))
  /\ body' = Tail(body)
  /\ UNCHANGED <<dispatcher, result, coordinator, unsent, kept, worker,
                 client, seen, ended>>

\* Variant: an empty channel is taken for the end of the body.
WriteEndEarly ==
  /\ worker = "responding"
  /\ body = <<>>
  /\ client = "reading" => Len(wire) < WireCap
  /\ wire' = IF client = "reading" THEN Append(wire, EndMark) ELSE wire
  /\ worker' = "free"
  /\ UNCHANGED <<dispatcher, result, coordinator, unsent, kept, body,
                 client, seen, ended>>

\* tx is dropped and the channel is drained: read returns 0, respond ends.
WriteEnd ==
  /\ worker = "responding"
  /\ body = <<>>
  /\ coordinator = "done"
  /\ client = "reading" => Len(wire) < WireCap
  /\ wire' = IF client = "reading" THEN Append(wire, EndMark) ELSE wire
  /\ worker' = "free"
  /\ UNCHANGED <<dispatcher, result, coordinator, unsent, kept, body,
                 client, seen, ended>>

\* Writing to a client that is gone fails and drops rx with what it holds, or
\* the kernel still takes the bytes, for nobody.
WriteToNobody ==
  /\ worker = "responding"
  /\ client = "gone"
  /\ body # <<>>
  /\ \/ worker' = "free" /\ body' = <<>>
     \/ body' = Tail(body) /\ UNCHANGED worker
  /\ UNCHANGED <<dispatcher, result, coordinator, unsent, kept, wire,
                 client, seen, ended>>

ClientReads ==
  /\ client = "reading"
  /\ wire # <<>>
  /\ wire' = Tail(wire)
  /\ IF Head(wire) = EndMark
     THEN ended' = TRUE /\ UNCHANGED seen
     ELSE seen' = Append(seen, Head(wire)) /\ UNCHANGED ended
  /\ UNCHANGED <<dispatcher, result, coordinator, unsent, kept, body,
                 worker, client>>

ClientLeaves ==
  /\ client = "reading"
  /\ ~ended
  /\ client' = "gone"
  /\ wire' = <<>>
  /\ UNCHANGED <<dispatcher, result, coordinator, unsent, kept, body,
                 worker, seen, ended>>
-----------------------------------------------------------------------------
Dispatcher == DispatchReturns \/ DispatchPanics
Coordinator == KeepaliveTick \/ ReceiveResult \/ SendFrame
Server == WriteFrame \/ WriteEnd \/ WriteToNobody
Client == ClientReads \/ ClientLeaves

Next == Dispatcher \/ Coordinator \/ Server \/ Client

Spec == Init /\ [][Next]_vars

\* The threads are scheduled, dispatch ends (each call is bounded), and a client
\* that stays reads on: nothing in the server bounds a write to one that does not.
FairSpec ==
  /\ Spec
  /\ WF_vars(Dispatcher) /\ WF_vars(Coordinator) /\ WF_vars(Server)
  /\ WF_vars(ClientReads)
-----------------------------------------------------------------------------
(* What must hold. *)

Keepalives(n) == [i \in 1 .. n |-> "keepalive"]

\* A frame the client is owed is lost only with the client: once the result is
\* there, what it has read, what the socket and the channel hold and what is
\* still to be sent are together every keepalive sent, one whole answer, and at
\* most the end, in this order; nothing is dropped, doubled or overtaken.
NothingLost ==
  client = "reading" /\ coordinator # "waiting" =>
    \E answer \in {OkFrames, ErrorFrames}, end \in {<<>>, <<EndMark>>} :
      seen \o wire \o body \o unsent = Keepalives(kept) \o answer \o end

\* Worker and coordinator are free again: once the answer is written, or, after
\* the client has gone, at a failed write and a failed send or with the result.
\* Neither waits for ever on a channel whose other end has left.
ThreadsEnd == <>(worker = "free" /\ coordinator = "done")

\* A client that stays gets the end of its stream.
ClientServed == <>(ended \/ client = "gone")

\* The client sees what SseStream promises: keepalives, then one whole answer,
\* then the end; also after a panic in the dispatch (A3), which is never a clean
\* end of file that looks like an empty success.
Sse == INSTANCE SseStream WITH Keepalive <- "keepalive", Answers <- {OkFrames, ErrorFrames}
ImplementsSseStream == Sse!Spec
=============================================================================
