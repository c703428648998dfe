----------------------------- MODULE ServerPool -----------------------------
(***************************************************************************)
(* The workers of http::serve on one queue, and what http::handle and      *)
(* handle_chat make of a request: the order of the checks, the CORS        *)
(* decision kept per thread, the body, the dispatch, a panic anywhere, and *)
(* the signal handler, whose unblock() is one more entry of the queue.     *)
(* The walk of the chain is ChainDispatch's, a stream is StreamResponse's. *)
(***************************************************************************)
EXTENDS Naturals, Sequences, FiniteSets, Routing

CONSTANTS
  Worker,
  RequestMax,   \* bound: requests in the life of a process, numbered as they arrive
  NoRequest,
  Kinds,        \* what they may ask
  NoToken,      \* auth is off; also a request without a bearer token
  Config,       \* the configuration that was loaded
  CorsOn,       \* cors_origins is not empty
  StrictModels,
  StopMax       \* bound: signals in the life of a process

VARIABLES
  token,   \* State.auth_token
  queue,   \* tiny_http's: requests, and Stop for an unblock()
  request, \* each request: how far it is, what it asks, what was answered
  worker,  \* each worker: what it is doing, and for which request
  cors,    \* each worker's thread-local CORS decision
  stops    \* signals handled

Request == 1 .. RequestMax

poolVars == <<queue, request, worker, cors, stops>>

Stop == NoRequest

\* What a request may ask, as far as the checks tell requests apart.
Kind == [method : {"GET", "HEAD", "POST", "OPTIONS", "OTHER"},
         path : {"health", "models", "backends", "chat", "reserved", "unknown"},
         origin : {"none", "listed", "other"},
         body : {"fine", "unreadable", "huge", "garbled", "no_messages"}]

NoAnswer == [status |-> 0, vary |-> FALSE, origin |-> "none"]
NotSent == [at |-> "unsent", ask |-> NoRequest, model |-> NoRequest, bearer |-> NoToken,
            answer |-> NoAnswer]

TypeOK ==
  /\ queue \in Seq(Request \cup {Stop})
  /\ \A r \in Request :
       /\ request[r].at \in {"unsent", "queued", "taken", "answered"}
       /\ request[r].answer.status \in {0, 200, 204, 400, 401, 404, 405, 413, 500, 501, 503}
       /\ request[r].at = "answered" <=> request[r].answer # NoAnswer
       /\ request[r].at = "taken" <=> \E w \in Worker : worker[w].for = r
       /\ request[r].at = "queued" <=> \E i \in DOMAIN queue : queue[i] = r
  /\ \A w \in Worker :
       /\ worker[w].at \in {"waiting", "checking", "reading", "dispatching", "gone"}
       /\ worker[w].for \in Request <=> worker[w].at \in {"checking", "reading", "dispatching"}
       /\ cors[w] \in [enabled : BOOLEAN, origin : {"none", "listed"}]
  /\ stops \in 0 .. StopMax

Idle == [w \in Worker |-> [at |-> "waiting", for |-> NoRequest]]
Disabled == [w \in Worker |-> [enabled |-> FALSE, origin |-> "none"]]

\* A process that has just started serves nobody yet.
FreshRequests == [r \in Request |-> NotSent]

PoolInit ==
  /\ queue = <<>> /\ stops = 0
  /\ request = FreshRequests /\ worker = Idle /\ cors = Disabled

Fresh ==
  /\ queue' = <<>> /\ stops' = 0
  /\ request' = FreshRequests /\ worker' = Idle /\ cors' = Disabled
-----------------------------------------------------------------------------
(* The checks, in their order. *)

Pages == {"health", "models", "backends"}

\* classify: HEAD routes like GET.
Route(ask) ==
  IF ask.path \in Pages
  THEN IF ask.method \in {"GET", "HEAD"} THEN ask.path ELSE "wrong_method"
  ELSE IF ask.path = "chat" /\ ask.method # "POST" THEN "wrong_method"
  ELSE ask.path

Preflight(ask) == CorsOn /\ ask.method = "OPTIONS"

\* check_bearer, on the routes that need a token.
Refused(ask, bearer) ==
  /\ token # NoToken
  /\ Route(ask) \in {"models", "chat", "backends"}
  /\ bearer # token

Continue == 0

\* handle, up to the read of the body.
EarlyStatus(ask, bearer) ==
  LET route == Route(ask) IN
  IF Preflight(ask) THEN 204
  ELSE IF Refused(ask, bearer) THEN 401
  ELSE IF route = "wrong_method" THEN 405
  ELSE IF route \in Pages THEN 200
  ELSE IF route = "reserved" THEN 501
  ELSE IF route = "unknown" THEN 404
  ELSE Continue

\* The rest of handle, and handle_chat up to the dispatch.
BodyStatus(ask, model) ==
  IF ask.body = "unreadable" THEN 400
  ELSE IF ask.body = "huge" THEN 413
  ELSE IF ask.body \in {"garbled", "no_messages"} THEN 400
  ELSE IF StrictModels /\ Unknown(model, Config) THEN 404
  ELSE Continue

\* respond_*: the answer, with the CORS headers of the worker's decision.
Answer(r, status, decision) ==
  request' = [request EXCEPT ![r].at = "answered",
                             ![r].answer = [status |-> status, vary |-> decision.enabled,
                                            origin |-> decision.origin]]

WaitAgain(w) == worker' = [worker EXCEPT ![w] = [at |-> "waiting", for |-> NoRequest]]
-----------------------------------------------------------------------------
(* The clients and the user (not this code). *)

Arrive(r, ask, model, bearer) ==
  /\ request[r].at = "unsent"
  /\ \A earlier \in 1 .. r - 1 : request[earlier].at # "unsent"
  /\ request' = [request EXCEPT ![r] =
       [at |-> "queued", ask |-> ask, model |-> model, bearer |-> bearer, answer |-> NoAnswer]]
  /\ queue' = Append(queue, r)
  /\ UNCHANGED <<worker, cors, stops>>

\* SIGINT or SIGTERM: the handler unblocks one receiver.
Signal ==
  /\ stops < StopMax
  /\ stops' = stops + 1
  /\ queue' = Append(queue, Stop)
  /\ UNCHANGED <<request, worker, cors>>
-----------------------------------------------------------------------------
(* A worker. *)

\* recv: a request, or the error that ends the thread.
Receive(w) ==
  /\ worker[w].at = "waiting"
  /\ queue # <<>>
  /\ queue' = Tail(queue)
  /\ IF Head(queue) = Stop
     THEN /\ worker' = [worker EXCEPT ![w].at = "gone"]
          /\ UNCHANGED request
     ELSE /\ worker' = [worker EXCEPT ![w] = [at |-> "checking", for |-> Head(queue)]]
          /\ request' = [request EXCEPT ![Head(queue)].at = "taken"]
  /\ UNCHANGED <<cors, stops>>

\* Variant: the decision is made only for a request that names an origin.
SetCorsIfNamed(w, ask) ==
  cors' = IF ask.origin = "none" THEN cors
          ELSE [cors EXCEPT ![w] = [enabled |-> CorsOn,
                 origin |-> IF CorsOn /\ ask.origin = "listed" THEN "listed" ELSE "none"]]

\* set_cors, with the request's origin if it is listed.
SetCors(w, ask) ==
  cors' = [cors EXCEPT ![w] = [enabled |-> CorsOn,
            origin |-> IF CorsOn /\ ask.origin = "listed" THEN "listed" ELSE "none"]]

Check(w) ==
  LET r == worker[w].for
      ask == request[r].ask
      status == EarlyStatus(ask, request[r].bearer)
  IN  /\ worker[w].at = "checking"
      /\ SetCors(w, ask)
      /\ IF status = Continue
         THEN worker' = [worker EXCEPT ![w].at = "reading"] /\ UNCHANGED request
         ELSE WaitAgain(w) /\ Answer(r, status, cors'[w])
      /\ UNCHANGED <<queue, stops>>

\* The body is there, cut off, or beyond MAX_BODY; then the model is resolved.
ReadBody(w) ==
  LET r == worker[w].for
      status == BodyStatus(request[r].ask, request[r].model)
  IN  /\ worker[w].at = "reading"
      /\ IF status # Continue
         THEN WaitAgain(w) /\ Answer(r, status, cors[w])
         ELSE \E legs \in Walks(request[r].model, Config) :
                IF legs = NoLegs
                THEN WaitAgain(w) /\ \E s \in {400, 500} : Answer(r, s, cors[w])
                ELSE worker' = [worker EXCEPT ![w].at = "dispatching"] /\ UNCHANGED request
      /\ UNCHANGED <<queue, cors, stops>>

\* The chain is walked and answered (a stream: to its last frame).
DispatchEnds(w) ==
  /\ worker[w].at = "dispatching"
  /\ \E status \in {200, 503} : Answer(worker[w].for, status, cors[w])
  /\ WaitAgain(w)
  /\ UNCHANGED <<queue, cors, stops>>

\* Variant: the unwinding forgets the request.
DroppedSilently(r) == UNCHANGED request

\* tiny_http answers a request that is dropped, without headers of ours.
Dropped(r) ==
  request' = [request EXCEPT ![r].at = "answered",
                             ![r].answer = [NoAnswer EXCEPT !.status = 500]]

\* Variant: the panic ends the thread.
PanicEndsThread(w) ==
  /\ worker[w].at \in {"checking", "reading", "dispatching"}
  /\ Dropped(worker[w].for)
  /\ worker' = [worker EXCEPT ![w] = [at |-> "gone", for |-> NoRequest]]
  /\ UNCHANGED <<queue, cors, stops>>

\* handle_recovering: the request is dropped, the worker goes on.
Panic(w) ==
  /\ worker[w].at \in {"checking", "reading", "dispatching"}
  /\ Dropped(worker[w].for)
  /\ WaitAgain(w)
  /\ UNCHANGED <<queue, cors, stops>>

\* serve returns: all workers are joined.
Joined == \A w \in Worker : worker[w].at = "gone"
-----------------------------------------------------------------------------
Work(w) == Receive(w) \/ Check(w) \/ ReadBody(w) \/ DispatchEnds(w)

\* The pool on its own: a server without auth that has just begun to serve.
Init == token = NoToken /\ PoolInit

Next ==
  \/ \E r \in Request, ask \in Kinds, model \in DOMAIN Config.chains :
       Arrive(r, ask, model, NoToken)
  \/ Signal
  \/ \E w \in Worker : Work(w) \/ Panic(w)

\* Workers run, bodies arrive or break off, and dispatches end.
FairSpec ==
  /\ Init /\ [][Next /\ UNCHANGED token]_<<token, poolVars>>
  /\ \A w \in Worker : WF_poolVars(Work(w))
-----------------------------------------------------------------------------
(* What must hold. *)

\* "Signal handler -> unblock workers for graceful shutdown" (main.rs): after a
\* signal the workers end, and with them serve and the process.
SignalEndsServer == stops > 0 ~> Joined
=============================================================================
