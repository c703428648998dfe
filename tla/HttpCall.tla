------------------------------ MODULE HttpCall ------------------------------
(***************************************************************************)
(* One call of an HTTP backend: api::dispatch and http_client::post_json.  *)
(* Connect, write the request, read the response until its declared length *)
(* or the end of the connection, and classify it.  The upstream may answer *)
(* early, stop anywhere, send too much, keep the connection or drop it.    *)
(***************************************************************************)
EXTENDS Integers

CONSTANTS
  HeadLen,   \* pieces of the head of a response; its terminator is in the last
  JsonLen,   \* pieces of the completion the upstream means to send
  UsizeMax,  \* the largest usize
  MaxBytes,  \* max_response_bytes, in pieces; 0 is no cap
  ReadMax,   \* pieces one read returns at most
  Window,    \* pieces the upstream may be ahead of the reader
  SentMax    \* bound: pieces an upstream sends in a call without a cap

NoLength == -1

ASSUME HttpAssumption ==
  /\ {HeadLen, JsonLen, ReadMax, Window} \subseteq Nat \ {0}
  /\ {MaxBytes, SentMax} \subseteq Nat
  /\ UsizeMax \in Nat /\ HeadLen + JsonLen <= UsizeMax

\* What the upstream answers: a declared length (or none, or one that is wrong
\* or near the end of usize), chunked or not, and what its head and JSON say.
Response ==
  [declared : {NoLength, 0, JsonLen, JsonLen + 1, UsizeMax}, chunked : BOOLEAN,
   status : {"2xx", "other", "bad"}, json : {"completion", "other"}]

VARIABLES
  response,   \* what the upstream will send
  timed,      \* the call has a deadline: its timeout is not zero
  connection, \* none, open, or how the upstream ended it
  sent,       \* pieces the upstream has sent
  received,   \* pieces read from the connection
  buf,        \* pieces held in the buffer
  caller,     \* where post_json is
  outcome     \* what dispatch returns

vars == <<response, timed, connection, sent, received, buf, caller, outcome>>

TypeOK ==
  /\ response \in Response
  /\ timed \in BOOLEAN
  /\ connection \in {"none", "open", "closed", "unclean", "reset"}
  /\ sent \in Nat /\ received \in 0 .. sent /\ buf \in 0 .. received
  /\ caller \in {"connecting", "writing", "reading", "returned"}
  /\ outcome \in {"none", "content", "spawn", "http", "parse"}

Init ==
  /\ response \in Response
  /\ timed \in BOOLEAN
  /\ connection = "none" /\ sent = 0 /\ received = 0 /\ buf = 0
  /\ caller = "connecting" /\ outcome = "none"
-----------------------------------------------------------------------------
(* The upstream (not this code). *)

UpstreamSends ==
  /\ connection = "open"
  /\ caller # "returned"
  /\ sent < received + Window
  /\ MaxBytes = 0 => sent < SentMax
  /\ sent' = sent + 1
  /\ UNCHANGED <<response, timed, connection, received, buf, caller, outcome>>

\* A clean end, one without close_notify (UnexpectedEof under TLS), or a reset.
UpstreamCloses ==
  /\ connection = "open"
  /\ caller # "returned"
  /\ connection' \in {"closed", "unclean", "reset"}
  /\ UNCHANGED <<response, timed, sent, received, buf, caller, outcome>>
-----------------------------------------------------------------------------
(* The call. *)

Return(result) == caller' = "returned" /\ outcome' = result

\* connect: name resolution, the connect timeout, the TLS configuration.
Connect ==
  /\ caller = "connecting"
  /\ \/ /\ connection' = "open"
        /\ caller' = "writing"
        /\ UNCHANGED outcome
     \/ /\ Return("spawn")
        /\ UNCHANGED connection
  /\ UNCHANGED <<response, timed, sent, received, buf>>

\* write_all and flush; the handshake, the deadline and a dropped connection may
\* fail them.
Write ==
  /\ caller = "writing"
  /\ \/ caller' = "reading" /\ UNCHANGED outcome
     \/ Return("spawn")
  /\ UNCHANGED <<response, timed, connection, sent, received, buf>>

\* Variant: usize wraps.
DeclaredEndWrapping == (HeadLen + response.declared) % (UsizeMax + 1)

\* Where the response ends by its own account; a sum beyond usize is none.
DeclaredEnd == HeadLen + response.declared

\* Variant: the declared length is trusted before that much has arrived.
FramedEarly ==
  /\ buf >= HeadLen
  /\ response.declared # NoLength
  /\ ~response.chunked
  /\ DeclaredEnd <= UsizeMax

\* The head has been read, it declares a length, and so much has arrived.
Framed ==
  /\ buf >= HeadLen
  /\ response.declared # NoLength
  /\ ~response.chunked
  /\ DeclaredEnd <= UsizeMax
  /\ buf >= DeclaredEnd

\* Variant: the cap is for the class of connection errors.
ReadCapSpawn ==
  /\ caller = "reading"
  /\ ~Framed
  /\ \E n \in 1 .. ReadMax :
       /\ received + n <= sent
       /\ received' = received + n
       /\ buf' = buf + n
       /\ IF MaxBytes # 0 /\ buf' > MaxBytes
          THEN Return("spawn")
          ELSE UNCHANGED <<caller, outcome>>
  /\ UNCHANGED <<response, timed, connection, sent>>

\* Variant: the buffer is forgotten at its cap and reading goes on.
ReadDropping ==
  /\ caller = "reading"
  /\ ~Framed
  /\ \E n \in 1 .. ReadMax :
       /\ received + n <= sent
       /\ received' = received + (IF MaxBytes # 0 /\ buf + n > MaxBytes THEN 0 ELSE n)
       /\ buf' = received'
  /\ UNCHANGED <<response, timed, connection, sent, caller, outcome>>

\* One read; more than the cap is a Parse error (FileTooLarge).
Read ==
  /\ caller = "reading"
  /\ ~Framed
  /\ \E n \in 1 .. ReadMax :
       /\ received + n <= sent
       /\ received' = received + n
       /\ buf' = buf + n
       /\ IF MaxBytes # 0 /\ buf' > MaxBytes
          THEN Return("parse")
          ELSE UNCHANGED <<caller, outcome>>
  /\ UNCHANGED <<response, timed, connection, sent>>

\* The body in the first n pieces.  Chunks are decoded leniently: up to where
\* they end, or as far as they go; any other body is all that follows the head.
Decoded(n) ==
  IF response.chunked /\ n - HeadLen > JsonLen THEN JsonLen ELSE n - HeadLen

\* The body is a JSON text: by its grammar neither a part of an object is one nor
\* an object with more behind it.
IsJson(body) == body = JsonLen

\* parse_response and dispatch on the first n pieces: no terminator or status
\* line, a status that is no success, a body that is no completion.
Parsed(n) ==
  IF n < HeadLen \/ response.status = "bad" THEN "spawn"
  ELSE IF response.status = "other" THEN "http"
  ELSE IF IsJson(Decoded(n)) /\ response.json = "completion" THEN "content"
  ELSE "parse"

\* The declared body has arrived: what follows it is cut off.
TakeFramed ==
  /\ caller = "reading"
  /\ Framed
  /\ buf' = DeclaredEnd
  /\ Return(Parsed(DeclaredEnd))
  /\ UNCHANGED <<response, timed, connection, sent, received>>

\* Variant: every error of a read is taken for the end.
TakeAtAnyEnd ==
  /\ caller = "reading"
  /\ ~Framed
  /\ received = sent
  /\ connection \in {"closed", "unclean", "reset"}
  /\ Return(Parsed(buf))
  /\ UNCHANGED <<response, timed, connection, sent, received, buf>>

\* read returns 0, or UnexpectedEof, which is taken for it.
TakeAtEnd ==
  /\ caller = "reading"
  /\ ~Framed
  /\ received = sent
  /\ connection \in {"closed", "unclean"}
  /\ Return(Parsed(buf))
  /\ UNCHANGED <<response, timed, connection, sent, received, buf>>

\* A reset; what had arrived may be lost with it.
ReadFails ==
  /\ caller = "reading"
  /\ ~Framed
  /\ connection = "reset"
  /\ Return("spawn")
  /\ UNCHANGED <<response, timed, connection, sent, received, buf>>

\* The read timeout: nothing came for as long as the whole call's timeout.
ReadTimesOut ==
  /\ caller = "reading"
  /\ ~Framed
  /\ timed
  /\ received = sent
  /\ connection = "open"
  /\ Return("spawn")
  /\ UNCHANGED <<response, timed, connection, sent, received, buf>>
-----------------------------------------------------------------------------
Upstream == UpstreamSends \/ UpstreamCloses
Caller == Connect \/ Write \/ Read \/ TakeFramed \/ TakeAtEnd \/ ReadFails \/ ReadTimesOut

Next == Upstream \/ Caller

Spec == Init /\ [][Next]_vars

\* The calling thread runs and its deadlines pass.  Nothing is asked of the upstream.
FairSpec == Spec /\ WF_vars(Caller)
-----------------------------------------------------------------------------
(* What must hold. *)

\* The body in the buffer ends where its declared length says, and has arrived.
EndsAsDeclared ==
  /\ ~response.chunked /\ response.declared # NoLength
  /\ HeadLen + response.declared <= UsizeMax
  /\ buf = HeadLen + response.declared

\* All that the upstream has sent before it ended the connection.
EndsWithConnection == connection \in {"closed", "unclean"} /\ buf = sent

\* F-5: a response is judged (taken, or blamed for its status or its body) only on
\* what ends at a boundary of the upstream's, and then to the last piece before it:
\* never on what a reset, a silence or the cap happens to have left in the buffer.
JudgedAtBoundary ==
  \/ outcome \in {"content", "http"}
  \/ outcome = "parse" /\ (MaxBytes # 0 => buf <= MaxBytes)
  => EndsAsDeclared \/ EndsWithConnection

\* All of a completion has been sent, and how it ends is known: its length is
\* declared, or the connection is over.
Complete ==
  /\ response.status = "2xx" /\ response.json = "completion"
  /\ \/ ~response.chunked /\ response.declared = JsonLen
     \/ connection \in {"closed", "unclean"} /\ received = HeadLen + JsonLen
        /\ (response.chunked \/ response.declared # 0)

\* F-5, S-5: a complete answer within the cap is an answer: neither a held
\* connection, nor bytes after it, nor a length that overflows makes it a
\* failure that would move the chain on.
CompleteIsTaken ==
  (/\ caller = "returned" /\ Complete
   /\ received >= HeadLen + JsonLen
   /\ MaxBytes # 0 => received <= MaxBytes) => outcome = "content"

\* S-5: the buffer never holds more than the cap and one read, and an answer
\* beyond the cap is reported as such (its class decides the cooldown).
CapEnforced ==
  MaxBytes # 0 =>
    /\ buf <= MaxBytes + ReadMax
    /\ caller = "returned" /\ received > MaxBytes => outcome = "parse"

\* With a deadline and a cap every call returns, also from an upstream that
\* sends for ever without pausing for as long as the deadline.
CallReturns == timed /\ MaxBytes # 0 => <>(caller = "returned")
=============================================================================
