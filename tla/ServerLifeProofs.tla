--------------------------- MODULE ServerLifeProofs ---------------------------
(***************************************************************************)
(* Proofs about the life of the server: over any number of starts, crashes *)
(* and edits of the token file it is never open by accident, no generated  *)
(* secret reaches an inode that others may have open, and no worker gives  *)
(* a request the decisions made for another, for any number of workers; a  *)
(* client's token stays good, and no request is lost or served twice.      *)
(***************************************************************************)
EXTENDS ServerLife, FiniteSetTheorems, FunctionTheorems, SequenceTheorems, TLAPS

\* The token file, and what the resolver has made of it so far.
FileInv ==
  /\ file \in Tokens!File \cup {NoFile}
  /\ issued \in Nat
  /\ ours \in BOOLEAN
  /\ ours => resolver = "writing" /\ file # NoFile /\ ~file.exposed
  /\ resolver \in {"removing", "creating", "writing"} => token \in Tokens!Generated

\* How far the start is tells what it has for a token.
TokenInv ==
  /\ resolver = "idle" => token = NoToken
  /\ resolver = "repairing" => token \in Tokens!RealToken
  /\ resolver = "done" =>
       token \in Tokens!RealToken \/ (token = NoToken /\ setting.auth = "off")
  /\ phase \in {"probing", "binding", "serving"} => resolver = "done" /\ ~BindRefused

StartInv == FileInv /\ TokenInv

\* The start enters its next phase, or the process it probes goes on.
Onward == Captured \/ ProbeStarts \/ Unprobed \/ Probed \/ ProbeGoesOn \/ Bind

\* It leaves everything else as it is.
LEMMA OnwardKeeps ==
  Onward =>
    /\ phase \in {"capturing", "resolving", "probing", "binding"}
    /\ phase' \in {"resolving", "probing", "binding", "serving"}
    /\ probe' \in SUBSET Awaited \/ probe' \in SUBSET probe
    /\ UNCHANGED <<diskVars, token, poolVars, setting, starts, edits>>
BY DEF Onward, Captured, Resolved, ProbeStarts, Unprobed, Probed, ProbeGoesOn, Bind
-----------------------------------------------------------------------------
(* Requests and workers. *)

RequestRecord ==
  [at : {"unsent", "queued", "taken", "answered"},
   ask : Kinds \cup {NoRequest}, model : Models \cup {NoRequest},
   bearer : Tokens!RealToken \cup {NoToken},
   answer : [status : Nat, vary : BOOLEAN, origin : {"none", "listed"}]]

PoolTypes ==
  /\ queue \in Seq(Pool!Request \cup {Pool!Stop})
  /\ request \in [Pool!Request -> RequestRecord]
  /\ worker \in [Worker -> [at : {"waiting", "checking", "reading", "dispatching", "gone"},
                            for : Pool!Request \cup {NoRequest}]]
  /\ cors \in [Worker -> [enabled : BOOLEAN, origin : {"none", "listed"}]]
  /\ shown \in Tokens!RealToken \cup {NoToken}

\* What is queued or served has been asked.
Asked ==
  /\ \A r \in Pool!Request : request[r].at # "unsent" => request[r].ask \in Kinds
  /\ \A i \in 1 .. Len(queue) :
       queue[i] # Pool!Stop => request[queue[i]].at # "unsent"

\* The CORS decision that a request is owed.
Owed(ask) ==
  [enabled |-> CorsOn, origin |-> IF CorsOn /\ ask.origin = "listed" THEN "listed" ELSE "none"]

\* The request may see what is behind the token.
Admitted(r) ==
  phase = "serving" /\ request[r].ask.path # "health" =>
    token \in {NoToken, request[r].bearer}

\* What a worker is doing is about its request, the decisions made so far included.
WorkerFollows(w) ==
  worker[w].at \in {"checking", "reading", "dispatching"} =>
    LET r == worker[w].for
    IN  /\ r \in Pool!Request
        /\ request[r].at \in {"taken", "answered"}
        /\ worker[w].at # "checking" => cors[w] = Owed(request[r].ask) /\ Admitted(r)

\* The answer is the request's own.
AnsweredWell(r) ==
  LET answer == request[r].answer
  IN  request[r].at = "answered" /\ answer.status # 500 =>
        /\ answer.vary = CorsOn
        /\ answer.origin = Owed(request[r].ask).origin
        /\ answer.status \in {200, 503} => Admitted(r)

\* Nothing of an earlier process is left when another starts to serve.
PoolFresh ==
  phase \in {"capturing", "resolving", "probing", "binding"} =>
    /\ request = Pool!FreshRequests
    /\ worker = Pool!Idle

PoolInv ==
  /\ PoolTypes /\ Asked /\ PoolFresh
  /\ \A w \in Worker : WorkerFollows(w)
  /\ \A r \in Pool!Request : AnsweredWell(r)
-----------------------------------------------------------------------------
(* The token file. *)

\* Generated secrets reach private inodes only; this is SecretUnexposed for a step.
SecretStep ==
  (/\ file' # NoFile /\ file'.content \in Tokens!Generated
   /\ (file = NoFile \/ file.content # file'.content)) => ~file'.exposed

LEMMA InitStartInv == Init => StartInv
<1> SUFFICES ASSUME Init PROVE StartInv
  OBVIOUS
<1>1. /\ file = NoFile /\ issued = 0 /\ ours = FALSE /\ resolver = "idle"
      /\ token = NoToken /\ phase = "down"
  BY DEF Init, Tokens!Init
<1>2. FileInv
  BY <1>1 DEF FileInv
<1>3. TokenInv
  BY <1>1 DEF TokenInv
<1> QED BY <1>2, <1>3 DEF StartInv

\* A step of auth::resolve.
LEMMA ResolveStarts == StartInv /\ ResolveStep => StartInv' /\ SecretStep
<1> SUFFICES ASSUME StartInv, ResolveStep PROVE StartInv' /\ SecretStep
  OBVIOUS
<1> USE TokenAssumption DEF StartInv, FileInv, TokenInv, SecretStep, Tokens!File,
      Tokens!RealToken, BindRefused
<1>0. /\ phase = "resolving" /\ UNCHANGED <<phase, setting>>
      /\ Tokens!Resolve(setting.auth, env)
  BY DEF ResolveStep, lifeVars
<1>1. CASE Tokens!AuthOff(setting.auth) \/ Tokens!FromEnv(setting.auth, env)
  BY <1>0, <1>1 DEF Tokens!AuthOff, Tokens!FromEnv
<1>2. CASE Tokens!ReadToken(setting.auth) \/ Tokens!ReadFails(setting.auth)
  BY <1>0, <1>2 DEF Tokens!ReadToken, Tokens!ReadFails, Tokens!Usable
<1>3. CASE Tokens!Repair
  BY <1>0, <1>3 DEF Tokens!Repair
<1>4. CASE Tokens!Generate
  BY <1>0, <1>4 DEF Tokens!Generate, Tokens!Generated
<1>5. CASE Tokens!Remove
  BY <1>0, <1>5 DEF Tokens!Remove
<1>6. CASE Tokens!Create
  <2>1. CASE resolver' = "failed" /\ UNCHANGED <<file, ours>>
    BY <1>0, <1>6, <2>1 DEF Tokens!Create
  <2>2. CASE ~(resolver' = "failed" /\ UNCHANGED <<file, ours>>)
    <3>1. /\ file' = [content |-> Blank, open |-> FALSE, exposed |-> FALSE]
          /\ ours' = TRUE /\ resolver' = "writing" /\ resolver = "creating"
          /\ UNCHANGED <<token, issued>>
      BY <1>6, <2>2 DEF Tokens!Create
    <3>2. file' \in Tokens!File /\ file'.exposed = FALSE /\ file'.content = Blank
      BY <3>1
    <3>3. file' # NoFile
      BY <3>2
    <3> QED BY <1>0, <3>1, <3>2, <3>3
  <2> QED BY <2>1, <2>2
<1>7. CASE Tokens!Write
  <2>1. /\ resolver = "writing" /\ resolver' \in {"done", "failed"} /\ ours' = FALSE
        /\ UNCHANGED <<token, issued>>
    BY <1>7 DEF Tokens!Write
  <2>2. token \in Tokens!Generated
    BY <2>1
  <2>3. CASE ours /\ file' = [file EXCEPT !.content = token]
    <3>1. file \in Tokens!File /\ file.exposed = FALSE
      BY <2>3
    <3>2. file' \in Tokens!File /\ file'.exposed = FALSE
      BY <2>2, <2>3, <3>1
    <3> QED BY <1>0, <2>1, <2>2, <3>2
  <2>4. CASE file' = file
    BY <1>0, <2>1, <2>2, <2>4
  <2> QED BY <1>7, <2>3, <2>4 DEF Tokens!Write
<1> QED BY <1>0, <1>1, <1>2, <1>3, <1>4, <1>5, <1>6, <1>7 DEF Tokens!Resolve

\* The user may do what she likes with the file.
LEMMA UserStarts == StartInv /\ UserEdits => StartInv' /\ SecretStep
<1> SUFFICES ASSUME StartInv, UserEdits PROVE StartInv' /\ SecretStep
  OBVIOUS
<1> USE TokenAssumption DEF StartInv, FileInv, TokenInv, SecretStep, Tokens!File, BindRefused
<1>0. UNCHANGED <<phase, setting>>
  BY DEF UserEdits
<1>1. CASE Tokens!UserWrites
  BY <1>0, <1>1 DEF Tokens!UserWrites
<1>2. CASE Tokens!UserDeletes
  BY <1>0, <1>2 DEF Tokens!UserDeletes
<1>3. CASE Tokens!UserOpens
  BY <1>0, <1>3 DEF Tokens!UserOpens
<1> QED BY <1>1, <1>2, <1>3 DEF UserEdits, Tokens!User

\* A process starts or ends: the file stays, and a file that was being written is
\* no longer anybody's.
LEMMA ProcessStarts ==
  StartInv /\ (Start \/ Crash \/ ResolveFails \/ Refused \/ BindFails \/ ServeReturns)
    => StartInv' /\ SecretStep
<1> SUFFICES ASSUME StartInv,
                    Start \/ Crash \/ ResolveFails \/ Refused \/ BindFails \/ ServeReturns
             PROVE  StartInv' /\ SecretStep
  OBVIOUS
<1>1. Tokens!Fresh /\ phase' \in {"down", "capturing"}
  BY DEF Start, Crash, ResolveFails, Refused, BindFails, ServeReturns, Exit
<1> QED BY <1>1 DEF Tokens!Fresh, StartInv, FileInv, TokenInv, SecretStep

\* Everything else leaves file and token alone, and serves only what it may.
LEMMA OthersStart ==
  StartInv /\ UNCHANGED <<file, ours, resolver, token, issued, setting>>
    /\ (phase' = phase \/ Onward)
    => StartInv' /\ SecretStep
BY DEF StartInv, FileInv, TokenInv, SecretStep, BindRefused, Onward, Captured, Resolved,
  ProbeStarts, Unprobed, Probed, ProbeGoesOn, Bind

LEMMA NextStartInv == StartInv /\ [Next]_vars => StartInv' /\ SecretStep
<1> SUFFICES ASSUME StartInv, [Next]_vars PROVE StartInv' /\ SecretStep
  OBVIOUS
<1> DEFINE Kept == UNCHANGED <<file, ours, resolver, token, issued, setting>>
<1>1. CASE Onward
  <2>1. Kept
    BY <1>1, OnwardKeeps DEF diskVars
  <2> QED BY <1>1, <2>1, OthersStart
<1>2. CASE ShellStep \/ ReaderStep \/ CaptureStep
  <2>1. Kept /\ phase' = phase
    BY <1>2 DEF ShellStep, ReaderStep, CaptureStep, Capturing, diskVars, lifeVars
  <2> QED BY <2>1, OthersStart
<1>3. CASE (\E w \in Worker : Work(w) \/ Panic(w)) \/ ClientSends \/ SignalHandled
  <2>1. Kept /\ phase' = phase
    BY <1>3 DEF Work, Panic, ClientSends, SignalHandled, diskVars, lifeVars
  <2> QED BY <2>1, OthersStart
<1>4. CASE ClientReadsFile \/ UNCHANGED vars
  <2>1. Kept /\ phase' = phase
    BY <1>4 DEF ClientReadsFile, Tokens!ClientReadsFile, vars, diskVars, lifeVars
  <2> QED BY <2>1, OthersStart
<1> QED BY <1>1, <1>2, <1>3, <1>4, ResolveStarts, UserStarts, ProcessStarts DEF Next, Main,
  Onward

LEMMA StartInvHolds == Spec => []StartInv
<1>1. StartInv /\ [Next]_vars => StartInv'
  BY NextStartInv
<1> QED BY <1>1, InitStartInv, PTL DEF Spec

\* S-2: a server that is to ask for a token, or must because it faces a network,
\* never serves without one, nor with an empty one.
THEOREM ServerNeverOpen == Spec => []NeverOpen
<1>1. StartInv => NeverOpen
  BY DEF StartInv, TokenInv, NeverOpen, BindRefused
<1> QED BY <1>1, StartInvHolds, PTL

\* S-1: whatever the user does between the steps of write_token, and wherever a
\* crash cuts it off, a generated secret reaches a private inode only.
THEOREM SecretsUnexposed == Spec => SecretUnexposed
<1>1. StartInv /\ [Next]_vars =>
        [(/\ file' # NoFile /\ file'.content \in Tokens!Generated
          /\ (file = NoFile \/ file.content # file'.content)) => ~file'.exposed]_file
  BY NextStartInv DEF SecretStep
<1> QED BY <1>1, StartInvHolds, PTL DEF Spec, SecretUnexposed
-----------------------------------------------------------------------------
(* The answers. *)

NobodyServed ==
  /\ queue = <<>> /\ request = Pool!FreshRequests
  /\ worker = Pool!Idle /\ cors = Pool!Disabled
  /\ shown \in Tokens!RealToken \cup {NoToken}

LEMMA NobodyServedGood == NobodyServed => PoolInv
<1> SUFFICES ASSUME NobodyServed PROVE PoolInv
  OBVIOUS
<1> USE DEF NobodyServed
<1>1. PoolTypes
  <2>1. request \in [Pool!Request -> RequestRecord]
    <3>1. Pool!NotSent \in RequestRecord
      BY DEF Pool!NotSent, Pool!NoAnswer, RequestRecord
    <3> QED BY <3>1 DEF Pool!FreshRequests
  <2>2. /\ worker \in [Worker -> [at : {"waiting", "checking", "reading", "dispatching", "gone"},
                                  for : Pool!Request \cup {NoRequest}]]
        /\ cors \in [Worker -> [enabled : BOOLEAN, origin : {"none", "listed"}]]
    BY DEF Pool!Idle, Pool!Disabled
  <2>3. queue \in Seq(Pool!Request \cup {Pool!Stop})
    BY EmptySeq
  <2> QED BY <2>1, <2>2, <2>3 DEF PoolTypes
<1>2. \A r \in Pool!Request : request[r].at = "unsent"
  BY DEF Pool!FreshRequests, Pool!NotSent
<1>3. \A w \in Worker : worker[w].at = "waiting"
  BY DEF Pool!Idle
<1>4. Asked
  BY <1>2, EmptySeq DEF Asked
<1>5. PoolFresh
  BY DEF PoolFresh
<1> QED BY <1>1, <1>2, <1>3, <1>4, <1>5 DEF PoolInv, WorkerFollows, AnsweredWell

\* Steps of other parts: the pool stays, and serving begins only with a fresh one.
LEMMA PoolStays ==
  ASSUME PoolInv, UNCHANGED poolVars, shown' \in Tokens!RealToken \cup {NoToken},
         \/ phase' = phase /\ (phase = "serving" => token' = token)
         \/ phase' = "down"
         \/ phase \in {"capturing", "resolving", "probing", "binding"}
  PROVE  PoolInv'
<1>1. PoolTypes' /\ Asked'
  BY DEF PoolInv, PoolTypes, Asked, poolVars
<1>2. PoolFresh'
  BY DEF PoolInv, PoolFresh, poolVars
<1>3. CASE phase \in {"capturing", "resolving", "probing", "binding"}
  <2>1. \A r \in Pool!Request : request'[r].at = "unsent"
    BY <1>3 DEF PoolInv, PoolFresh, poolVars, Pool!FreshRequests, Pool!NotSent
  <2>2. \A w \in Worker : worker'[w].at = "waiting"
    BY <1>3 DEF PoolInv, PoolFresh, poolVars, Pool!Idle
  <2> QED BY <1>1, <1>2, <2>1, <2>2 DEF PoolInv, WorkerFollows, AnsweredWell
<1>4. CASE ~(phase \in {"capturing", "resolving", "probing", "binding"})
  <2>1. \A r \in Pool!Request : Admitted(r) => Admitted(r)'
    BY <1>4 DEF Admitted, poolVars
  <2>2. \A w \in Worker : WorkerFollows(w)'
    BY <2>1 DEF PoolInv, WorkerFollows, poolVars, Owed
  <2>3. \A r \in Pool!Request : AnsweredWell(r)'
    BY <2>1 DEF PoolInv, AnsweredWell, poolVars, Owed
  <2> QED BY <1>1, <1>2, <2>2, <2>3 DEF PoolInv
<1> QED BY <1>3, <1>4

\* What a step of the pool leaves a request.
RequestsGoOn ==
  \A r \in Pool!Request :
    request[r].at # "unsent" =>
      /\ request'[r].ask = request[r].ask /\ request'[r].bearer = request[r].bearer
      /\ request'[r].at # "unsent"
      /\ request[r].at \in {"taken", "answered"} => request'[r].at \in {"taken", "answered"}

Serves == phase = "serving" /\ UNCHANGED <<phase, token, shown>>

LEMMA OthersFollow ==
  ASSUME NEW v \in Worker, WorkerFollows(v), worker'[v] = worker[v], cors'[v] = cors[v],
         RequestsGoOn, Serves
  PROVE  WorkerFollows(v)'
BY DEF WorkerFollows, RequestsGoOn, Serves, Owed, Admitted

\* The requests a step does not answer are answered as well as before.
LEMMA AnswersStay ==
  ASSUME NEW r \in Pool!Request, AnsweredWell(r), request'[r] = request[r], Serves
  PROVE  AnsweredWell(r)'
BY DEF AnsweredWell, Serves, Owed, Admitted

Changed(r, at, answer) ==
  request' = [request EXCEPT ![r].at = at, ![r].answer = answer]

\* A worker answers its request, or a panic drops it.
LEMMA AnswerGood ==
  ASSUME PoolInv, Serves, NEW r \in Pool!Request, request[r].at \in {"taken", "answered"},
         NEW answer \in [status : Nat, vary : BOOLEAN, origin : {"none", "listed"}],
         Changed(r, "answered", answer),
         answer.status # 500 =>
           /\ answer.vary = CorsOn
           /\ answer.origin = Owed(request[r].ask).origin
           /\ answer.status \in {200, 503} => Admitted(r)
  PROVE  /\ request' \in [Pool!Request -> RequestRecord]
         /\ RequestsGoOn
         /\ \A q \in Pool!Request : request'[q].at # "unsent" => request'[q].ask \in Kinds
         /\ \A q \in Pool!Request : AnsweredWell(q)'
<1>1. request \in [Pool!Request -> RequestRecord] /\ request[r] \in RequestRecord
  BY DEF PoolInv, PoolTypes
<1>2. /\ request'[r].at = "answered" /\ request'[r].answer = answer
      /\ request'[r].ask = request[r].ask /\ request'[r].bearer = request[r].bearer
      /\ request'[r].model = request[r].model
      /\ request'[r] \in RequestRecord
  BY <1>1 DEF Changed, RequestRecord
<1>3. \A q \in Pool!Request : q # r => request'[q] = request[q]
  BY <1>1 DEF Changed
<1>4. request' \in [Pool!Request -> RequestRecord]
  BY <1>1 DEF Changed, RequestRecord
<1>5. RequestsGoOn
  BY <1>2, <1>3 DEF RequestsGoOn
<1>6. \A q \in Pool!Request : request'[q].at # "unsent" => request'[q].ask \in Kinds
  BY <1>2, <1>3 DEF PoolInv, Asked
<1>7. AnsweredWell(r)'
  BY <1>2 DEF AnsweredWell, Admitted, Owed, Serves
<1>8. \A q \in Pool!Request : AnsweredWell(q)'
  BY <1>3, <1>7, AnswersStay DEF PoolInv
<1> QED BY <1>4, <1>5, <1>6, <1>8

\* handle lets nothing protected through without the token.
LEMMA EarlyAdmits ==
  ASSUME NEW ask \in Kinds, NEW bearer, ask.path # "health",
         Pool!EarlyStatus(ask, bearer) \in {200, Pool!Continue}
  PROVE  token \in {NoToken, bearer}
<1>1. ask \in Pool!Kind
  BY LifeAssumption
<1>2. /\ ~Pool!Refused(ask, bearer) /\ Pool!Route(ask) # "wrong_method"
      /\ Pool!Route(ask) \notin {"reserved", "unknown"}
  BY DEF Pool!EarlyStatus, Pool!Continue, Pool!Pages
<1>3. Pool!Route(ask) \in {"models", "backends", "chat"}
  BY <1>1, <1>2 DEF Pool!Route, Pool!Pages, Pool!Kind
<1> QED BY <1>2, <1>3 DEF Pool!Refused

LEMMA EarlyStatusType ==
  ASSUME NEW ask, NEW bearer
  PROVE  Pool!EarlyStatus(ask, bearer) \in {0, 200, 204, 401, 404, 405, 501}
BY DEF Pool!EarlyStatus, Pool!Continue

LEMMA BodyStatusType ==
  ASSUME NEW ask, NEW model
  PROVE  Pool!BodyStatus(ask, model) \in {0, 400, 404, 413}
BY DEF Pool!BodyStatus, Pool!Continue

\* A worker that has answered, or whose handler has panicked, waits again.
LEMMA WaitsAgain ==
  ASSUME PoolInv, Serves, NEW w \in Worker, UNCHANGED queue, Pool!WaitAgain(w),
         cors' \in [Worker -> [enabled : BOOLEAN, origin : {"none", "listed"}]],
         \A v \in Worker : v # w => cors'[v] = cors[v],
         NEW r \in Pool!Request, request[r].at \in {"taken", "answered"},
         NEW answer \in [status : Nat, vary : BOOLEAN, origin : {"none", "listed"}],
         Changed(r, "answered", answer),
         answer.status # 500 =>
           /\ answer.vary = CorsOn
           /\ answer.origin = Owed(request[r].ask).origin
           /\ answer.status \in {200, 503} => Admitted(r)
  PROVE  PoolInv'
<1>1. /\ request' \in [Pool!Request -> RequestRecord]
      /\ RequestsGoOn
      /\ \A q \in Pool!Request : request'[q].at # "unsent" => request'[q].ask \in Kinds
      /\ \A q \in Pool!Request : AnsweredWell(q)'
  BY AnswerGood
<1>2. PoolTypes'
  BY <1>1 DEF PoolInv, PoolTypes, Pool!WaitAgain, Serves
<1>3. \A v \in Worker : WorkerFollows(v)'
  <2>1. worker'[w].at = "waiting" /\ \A v \in Worker : v # w => worker'[v] = worker[v]
    BY DEF PoolInv, PoolTypes, Pool!WaitAgain
  <2>2. WorkerFollows(w)'
    BY <2>1 DEF WorkerFollows
  <2> QED BY <1>1, <2>1, <2>2, OthersFollow DEF PoolInv
<1>4. Asked'
  <2>1. ASSUME NEW i \in 1 .. Len(queue), queue[i] # Pool!Stop
        PROVE  request'[queue[i]].at # "unsent"
    <3>1. queue[i] \in Pool!Request
      BY <2>1, ElementOfSeq DEF PoolInv, PoolTypes
    <3> QED BY <1>1, <2>1, <3>1 DEF PoolInv, Asked, RequestsGoOn
  <2> QED BY <1>1, <2>1 DEF Asked
<1>5. PoolFresh'
  BY DEF PoolFresh, Serves
<1> QED BY <1>1, <1>2, <1>3, <1>4, <1>5 DEF PoolInv

\* The worker goes on with its request.
LEMMA GoesOn ==
  ASSUME PoolInv, Serves, NEW w \in Worker, UNCHANGED <<queue, request>>,
         NEW at \in {"reading", "dispatching"}, worker' = [worker EXCEPT ![w].at = at],
         worker[w].at \in {"checking", "reading", "dispatching"},
         cors' \in [Worker -> [enabled : BOOLEAN, origin : {"none", "listed"}]],
         \A v \in Worker : v # w => cors'[v] = cors[v],
         cors'[w] = Owed(request[worker[w].for].ask), Admitted(worker[w].for)
  PROVE  PoolInv'
<1>1. PoolTypes' /\ Asked' /\ PoolFresh'
  <2>1. worker' \in [Worker -> [at : {"waiting", "checking", "reading", "dispatching", "gone"},
                               for : Pool!Request \cup {NoRequest}]]
    BY DEF PoolInv, PoolTypes
  <2>2. PoolTypes'
    BY <2>1 DEF PoolInv, PoolTypes, Serves
  <2>3. Asked'
    BY DEF PoolInv, Asked
  <2>4. PoolFresh'
    BY DEF PoolFresh, Serves
  <2> QED BY <2>2, <2>3, <2>4
<1>2. RequestsGoOn
  BY DEF RequestsGoOn
<1>3. /\ worker'[w].at = at /\ worker'[w].for = worker[w].for
      /\ \A v \in Worker : v # w => worker'[v] = worker[v]
  BY DEF PoolInv, PoolTypes
<1>4. WorkerFollows(w)'
  BY <1>3 DEF PoolInv, WorkerFollows, Owed, Admitted, Serves
<1>5. \A v \in Worker : WorkerFollows(v)'
  BY <1>2, <1>3, <1>4, OthersFollow DEF PoolInv
<1>6. \A r \in Pool!Request : AnsweredWell(r)'
  BY AnswersStay DEF PoolInv
<1> QED BY <1>1, <1>5, <1>6 DEF PoolInv

LEMMA CheckGood == ASSUME PoolInv, Serves, NEW w \in Worker, Pool!Check(w) PROVE PoolInv'
<1> DEFINE r == worker[w].for
<1> DEFINE ask == request[r].ask
<1> DEFINE status == Pool!EarlyStatus(ask, request[r].bearer)
<1>1. /\ worker[w].at = "checking" /\ r \in Pool!Request
      /\ request[r].at \in {"taken", "answered"} /\ ask \in Kinds
  BY DEF Pool!Check, PoolInv, WorkerFollows, Asked
<1>2. /\ cors' = [cors EXCEPT ![w] = Owed(ask)] /\ UNCHANGED queue
      /\ IF status = Pool!Continue
         THEN worker' = [worker EXCEPT ![w].at = "reading"] /\ UNCHANGED request
         ELSE Pool!WaitAgain(w) /\ Pool!Answer(r, status, cors'[w])
  BY DEF Pool!Check, Pool!SetCors, Owed
<1> HIDE DEF status
<1>3. Owed(ask) \in [enabled : BOOLEAN, origin : {"none", "listed"}]
  BY LifeAssumption DEF Owed
<1>4. /\ cors' \in [Worker -> [enabled : BOOLEAN, origin : {"none", "listed"}]]
      /\ cors'[w] = Owed(ask)
      /\ \A v \in Worker : v # w => cors'[v] = cors[v]
  BY <1>2, <1>3 DEF PoolInv, PoolTypes
<1>5. status \in {200, 0} => Admitted(r)
  BY <1>1, EarlyAdmits DEF status, Admitted, Pool!Continue
<1>6. status \in {0, 200, 204, 401, 404, 405, 501}
  BY EarlyStatusType DEF status
<1>7. CASE status = Pool!Continue
  <2>1. Admitted(r)
    BY <1>5, <1>7 DEF Pool!Continue
  <2> QED BY <1>1, <1>2, <1>4, <1>7, <2>1, GoesOn
<1>8. CASE status # Pool!Continue
  <2> DEFINE answer == [status |-> status, vary |-> Owed(ask).enabled,
                        origin |-> Owed(ask).origin]
  <2>1. Changed(r, "answered", answer)
    BY <1>2, <1>4, <1>8 DEF Changed, Pool!Answer
  <2>2. answer \in [status : Nat, vary : BOOLEAN, origin : {"none", "listed"}]
    BY <1>3, <1>6
  <2>3. /\ answer.vary = CorsOn /\ answer.origin = Owed(ask).origin
        /\ answer.status \in {200, 503} => Admitted(r)
    BY <1>5, <1>6 DEF Owed
  <2>4. Pool!WaitAgain(w)
    BY <1>2, <1>8
  <2> HIDE DEF answer
  <2> QED BY <1>1, <1>2, <1>4, <2>1, <2>2, <2>3, <2>4, WaitsAgain
<1> QED BY <1>7, <1>8

\* What a worker that reads or dispatches answers with its decision.
LEMMA AnswersOwn ==
  ASSUME PoolInv, Serves, NEW w \in Worker, worker[w].at \in {"reading", "dispatching"},
         UNCHANGED <<queue, cors>>, Pool!WaitAgain(w),
         NEW status \in Nat, Pool!Answer(worker[w].for, status, cors[w])
  PROVE  PoolInv'
<1> DEFINE r == worker[w].for
<1>1. /\ r \in Pool!Request /\ request[r].at \in {"taken", "answered"}
      /\ cors[w] = Owed(request[r].ask) /\ Admitted(r)
  BY DEF PoolInv, WorkerFollows
<1>2. cors \in [Worker -> [enabled : BOOLEAN, origin : {"none", "listed"}]]
  BY DEF PoolInv, PoolTypes
<1> DEFINE answer == [status |-> status, vary |-> cors[w].enabled, origin |-> cors[w].origin]
<1>3. Changed(r, "answered", answer)
  BY DEF Changed, Pool!Answer
<1>4. answer \in [status : Nat, vary : BOOLEAN, origin : {"none", "listed"}]
  BY <1>2
<1>5. answer.vary = CorsOn /\ answer.origin = Owed(request[r].ask).origin
  BY <1>1 DEF Owed
<1> HIDE DEF answer, r
<1> QED BY <1>1, <1>2, <1>3, <1>4, <1>5, WaitsAgain

LEMMA ReadGood == ASSUME PoolInv, Serves, NEW w \in Worker, Pool!ReadBody(w) PROVE PoolInv'
<1>1. worker[w].at = "reading" /\ UNCHANGED <<queue, cors>>
  BY DEF Pool!ReadBody
<1> DEFINE r == worker[w].for
<1>2. \/ \E status \in Nat : Pool!WaitAgain(w) /\ Pool!Answer(r, status, cors[w])
      \/ worker' = [worker EXCEPT ![w].at = "dispatching"] /\ UNCHANGED request
  <2>1. Pool!BodyStatus(request[r].ask, request[r].model) \in Nat
    BY BodyStatusType
  <2>2. \/ Pool!WaitAgain(w) /\ Pool!Answer(r, Pool!BodyStatus(request[r].ask, request[r].model), cors[w])
        \/ \E s \in {400, 500} : Pool!WaitAgain(w) /\ Pool!Answer(r, s, cors[w])
        \/ worker' = [worker EXCEPT ![w].at = "dispatching"] /\ UNCHANGED request
    <3> DEFINE status == Pool!BodyStatus(request[r].ask, request[r].model)
    <3>1. CASE status # Pool!Continue
      BY <3>1 DEF Pool!ReadBody
    <3>2. CASE status = Pool!Continue
      <4>1. PICK legs \in Pool!Walks(request[r].model, Config) :
              IF legs = Pool!NoLegs
              THEN Pool!WaitAgain(w) /\ \E s \in {400, 500} : Pool!Answer(r, s, cors[w])
              ELSE worker' = [worker EXCEPT ![w].at = "dispatching"] /\ UNCHANGED request
        BY <3>2 DEF Pool!ReadBody
      <4> QED BY <4>1
    <3> QED BY <3>1, <3>2
  <2>3. \A s \in {400, 500} : s \in Nat
    OBVIOUS
  <2> QED BY <2>1, <2>2, <2>3, ZenonT(30)
<1>3. cors \in [Worker -> [enabled : BOOLEAN, origin : {"none", "listed"}]]
  BY DEF PoolInv, PoolTypes
<1>4. cors[w] = Owed(request[r].ask) /\ Admitted(r)
  BY <1>1 DEF PoolInv, WorkerFollows
<1>5. CASE \E status \in Nat : Pool!WaitAgain(w) /\ Pool!Answer(r, status, cors[w])
  BY <1>1, <1>5, AnswersOwn
<1>6. CASE worker' = [worker EXCEPT ![w].at = "dispatching"] /\ UNCHANGED request
  BY <1>1, <1>3, <1>4, <1>6, GoesOn
<1> QED BY <1>2, <1>5, <1>6

LEMMA DispatchGood == ASSUME PoolInv, Serves, NEW w \in Worker, Pool!DispatchEnds(w) PROVE PoolInv'
<1>1. PICK status \in {200, 503} : Pool!Answer(worker[w].for, status, cors[w])
  BY DEF Pool!DispatchEnds
<1>2. /\ worker[w].at = "dispatching" /\ UNCHANGED <<queue, cors>> /\ Pool!WaitAgain(w)
      /\ status \in Nat
  BY DEF Pool!DispatchEnds
<1> QED BY <1>1, <1>2, AnswersOwn

LEMMA PanicGood == ASSUME PoolInv, Serves, NEW w \in Worker, Pool!Panic(w) PROVE PoolInv'
<1> DEFINE r == worker[w].for
<1> DEFINE answer == [Pool!NoAnswer EXCEPT !.status = 500]
<1>1. /\ r \in Pool!Request /\ request[r].at \in {"taken", "answered"}
      /\ UNCHANGED <<queue, cors>> /\ Pool!WaitAgain(w)
  BY DEF PoolInv, WorkerFollows, Pool!Panic
<1>2. cors \in [Worker -> [enabled : BOOLEAN, origin : {"none", "listed"}]]
  BY DEF PoolInv, PoolTypes
<1>3. Changed(r, "answered", answer)
  BY DEF Pool!Panic, Pool!Dropped, Changed
<1>4. /\ answer \in [status : Nat, vary : BOOLEAN, origin : {"none", "listed"}]
      /\ answer.status = 500
  <2>1. Pool!NoAnswer \in [status : Nat, vary : BOOLEAN, origin : {"none", "listed"}]
    BY DEF Pool!NoAnswer
  <2> QED BY <2>1
<1> HIDE DEF answer, r
<1> QED BY <1>1, <1>2, <1>3, <1>4, WaitsAgain

LEMMA ReceiveGood == ASSUME PoolInv, Serves, NEW w \in Worker, Pool!Receive(w) PROVE PoolInv'
<1> DEFINE Entry == Pool!Request \cup {Pool!Stop}
<1>1. /\ queue \in Seq(Entry) /\ queue # <<>> /\ queue' = Tail(queue) /\ UNCHANGED cors
      /\ request \in [Pool!Request -> RequestRecord]
      /\ worker[w].at = "waiting"
  BY DEF PoolInv, PoolTypes, Pool!Receive
<1>2. /\ Head(queue) \in Entry /\ queue' \in Seq(Entry) /\ Head(queue) = queue[1]
      /\ Len(queue) \in Nat \ {0} /\ Len(queue') = Len(queue) - 1
      /\ \A i \in 1 .. Len(queue') : queue'[i] = queue[i + 1]
  BY <1>1, HeadTailProperties, EmptySeq, ElementOfSeq, LenProperties
<1> DEFINE r == Head(queue)
<1>3. CASE r = Pool!Stop
  <2>1. worker' = [worker EXCEPT ![w].at = "gone"] /\ UNCHANGED request
    BY <1>3 DEF Pool!Receive
  <2>2. PoolTypes'
    BY <1>1, <1>2, <2>1 DEF PoolInv, PoolTypes, Serves
  <2>3. /\ worker'[w].at = "gone"
        /\ \A v \in Worker : v # w => worker'[v] = worker[v]
    BY <2>1 DEF PoolInv, PoolTypes
  <2>4. RequestsGoOn
    BY <2>1 DEF RequestsGoOn
  <2>5. \A v \in Worker : WorkerFollows(v)'
    <3>1. WorkerFollows(w)'
      BY <2>3 DEF WorkerFollows
    <3> QED BY <1>1, <2>3, <2>4, <3>1, OthersFollow DEF PoolInv
  <2>6. \A q \in Pool!Request : AnsweredWell(q)'
    BY <2>1, AnswersStay DEF PoolInv
  <2>7. Asked'
    BY <1>2, <2>1 DEF PoolInv, Asked
  <2>8. PoolFresh'
    BY DEF PoolFresh, Serves
  <2> QED BY <2>2, <2>5, <2>6, <2>7, <2>8 DEF PoolInv
<1>4. CASE r # Pool!Stop
  <2>1. /\ worker' = [worker EXCEPT ![w] = [at |-> "checking", for |-> r]]
        /\ request' = [request EXCEPT ![r].at = "taken"]
        /\ r \in Pool!Request
    BY <1>2, <1>4 DEF Pool!Receive
  <2>2. request[r].at # "unsent" /\ request[r].ask \in Kinds
    BY <1>2, <1>4, <2>1 DEF PoolInv, Asked
  <2>3. /\ request'[r].at = "taken" /\ request'[r].ask = request[r].ask
        /\ request'[r].bearer = request[r].bearer
        /\ \A q \in Pool!Request : q # r => request'[q] = request[q]
        /\ request' \in [Pool!Request -> RequestRecord]
    BY <1>1, <2>1, ZenonT(30) DEF RequestRecord
  <2>4. PoolTypes'
    BY <1>1, <1>2, <2>1, <2>3 DEF PoolInv, PoolTypes, Serves
  <2>5. /\ worker'[w] = [at |-> "checking", for |-> r]
        /\ \A v \in Worker : v # w => worker'[v] = worker[v]
    BY <2>1 DEF PoolInv, PoolTypes
  <2>6. RequestsGoOn
    BY <2>3 DEF RequestsGoOn
  <2>7. \A v \in Worker : WorkerFollows(v)'
    <3>1. WorkerFollows(w)'
      BY <2>1, <2>3, <2>5 DEF WorkerFollows
    <3> QED BY <1>1, <2>5, <2>6, <3>1, OthersFollow DEF PoolInv
  <2>8. \A q \in Pool!Request : AnsweredWell(q)'
    <3> SUFFICES ASSUME NEW q \in Pool!Request PROVE AnsweredWell(q)'
      OBVIOUS
    <3>1. CASE q = r
      <4>1. request'[q].at = "taken"
        BY <2>3, <3>1
      <4> QED BY <4>1 DEF AnsweredWell
    <3>2. CASE q # r
      BY <2>3, <3>2, AnswersStay DEF PoolInv
    <3> QED BY <3>1, <3>2
  <2>9. Asked'
    <3>1. \A q \in Pool!Request : request'[q].at # "unsent" => request'[q].ask \in Kinds
      BY <2>2, <2>3 DEF PoolInv, Asked
    <3>2. ASSUME NEW i \in 1 .. Len(queue'), queue'[i] # Pool!Stop
          PROVE  request'[queue'[i]].at # "unsent"
      <4>1. i + 1 \in 1 .. Len(queue) /\ queue'[i] = queue[i + 1]
        BY <1>2
      <4>2. queue[i + 1] \in Pool!Request
        BY <1>1, <3>2, <4>1, ElementOfSeq
      <4> QED BY <2>6, <3>2, <4>1, <4>2 DEF PoolInv, Asked, RequestsGoOn
    <3> QED BY <3>1, <3>2 DEF Asked
  <2>10. PoolFresh'
    BY DEF PoolFresh, Serves
  <2> QED BY <2>4, <2>7, <2>8, <2>9, <2>10 DEF PoolInv
<1> QED BY <1>3, <1>4

\* A request or a wake-up is queued.
LEMMA QueueGrows ==
  ASSUME PoolInv, NEW e \in Pool!Request \cup {Pool!Stop}, queue' = Append(queue, e),
         request' \in [Pool!Request -> RequestRecord], UNCHANGED <<worker, cors>>, Serves,
         RequestsGoOn,
         \A q \in Pool!Request : request'[q].at # "unsent" => request'[q].ask \in Kinds,
         \A q \in Pool!Request : AnsweredWell(q)',
         e # Pool!Stop => request'[e].at # "unsent"
  PROVE  PoolInv'
<1> DEFINE Entry == Pool!Request \cup {Pool!Stop}
<1>1. /\ queue \in Seq(Entry) /\ queue' \in Seq(Entry)
      /\ Len(queue) \in Nat /\ Len(queue') = Len(queue) + 1
      /\ queue'[Len(queue) + 1] = e
      /\ \A i \in 1 .. Len(queue) : queue'[i] = queue[i]
  BY AppendProperties, LenProperties DEF PoolInv, PoolTypes
<1>2. PoolTypes'
  BY <1>1 DEF PoolInv, PoolTypes, Serves
<1>3. \A v \in Worker : WorkerFollows(v)'
  BY OthersFollow DEF PoolInv
<1>4. Asked'
  <2>1. ASSUME NEW i \in 1 .. Len(queue'), queue'[i] # Pool!Stop
        PROVE  request'[queue'[i]].at # "unsent"
    <3>1. CASE i = Len(queue) + 1
      BY <1>1, <2>1, <3>1
    <3>2. CASE i # Len(queue) + 1
      <4>1. i \in 1 .. Len(queue) /\ queue'[i] = queue[i]
        BY <1>1, <3>2
      <4>2. queue[i] \in Pool!Request
        BY <1>1, <2>1, <4>1, ElementOfSeq
      <4> QED BY <2>1, <4>1, <4>2 DEF PoolInv, Asked, RequestsGoOn
    <3> QED BY <3>1, <3>2
  <2> QED BY <2>1 DEF Asked
<1>5. PoolFresh'
  BY DEF PoolFresh, Serves
<1> QED BY <1>2, <1>3, <1>4, <1>5 DEF PoolInv

LEMMA ArriveGood ==
  ASSUME PoolInv, Serves, NEW r \in Pool!Request, NEW ask \in Kinds, NEW model \in Models,
         NEW bearer \in Tokens!RealToken \cup {NoToken}, Pool!Arrive(r, ask, model, bearer)
  PROVE  PoolInv'
<1> DEFINE new == [at |-> "queued", ask |-> ask, model |-> model, bearer |-> bearer,
                   answer |-> Pool!NoAnswer]
<1>1. /\ request[r].at = "unsent" /\ request' = [request EXCEPT ![r] = new]
      /\ queue' = Append(queue, r) /\ UNCHANGED <<worker, cors>>
  BY DEF Pool!Arrive
<1>2. new \in RequestRecord /\ new.at = "queued" /\ new.ask = ask
  BY DEF RequestRecord, Pool!NoAnswer
<1> HIDE DEF new
<1>3. /\ request' \in [Pool!Request -> RequestRecord]
      /\ request'[r] = new
      /\ \A q \in Pool!Request : q # r => request'[q] = request[q]
  BY <1>1, <1>2 DEF PoolInv, PoolTypes
<1>4. RequestsGoOn
  BY <1>1, <1>3 DEF RequestsGoOn
<1>5. \A q \in Pool!Request : request'[q].at # "unsent" => request'[q].ask \in Kinds
  BY <1>2, <1>3 DEF PoolInv, Asked
<1>6. \A q \in Pool!Request : AnsweredWell(q)'
  <2>1. AnsweredWell(r)'
    BY <1>2, <1>3 DEF AnsweredWell
  <2> QED BY <1>3, <2>1, AnswersStay DEF PoolInv
<1>7. request'[r].at # "unsent"
  BY <1>2, <1>3
<1> QED BY <1>1, <1>3, <1>4, <1>5, <1>6, <1>7, QueueGrows

LEMMA SignalGood == ASSUME PoolInv, Serves, Pool!Signal PROVE PoolInv'
<1>1. /\ queue' = Append(queue, Pool!Stop) /\ UNCHANGED <<request, worker, cors>>
  BY DEF Pool!Signal
<1>2. RequestsGoOn
  BY <1>1 DEF RequestsGoOn
<1>3. \A q \in Pool!Request : AnsweredWell(q)'
  BY <1>1, AnswersStay DEF PoolInv
<1>4. /\ request' \in [Pool!Request -> RequestRecord]
      /\ \A q \in Pool!Request : request'[q].at # "unsent" => request'[q].ask \in Kinds
  BY <1>1 DEF PoolInv, PoolTypes, Asked
<1> QED BY <1>1, <1>2, <1>3, <1>4, QueueGrows

LEMMA InitPoolInv == Init => PoolInv
<1> SUFFICES ASSUME Init PROVE PoolInv
  OBVIOUS
<1>1. /\ queue = <<>> /\ request = Pool!FreshRequests /\ worker = Pool!Idle
      /\ cors = Pool!Disabled /\ shown = NoToken
  BY DEF Init, Pool!PoolInit, Tokens!Init
<1> QED BY <1>1, NobodyServedGood DEF NobodyServed

\* Steps while the server serves.
LEMMA ServingGood ==
  ASSUME StartInv, PoolInv,
         (\E w \in Worker : Work(w) \/ Panic(w)) \/ ClientSends \/ SignalHandled
  PROVE  PoolInv'
<1>1. Serves
  BY DEF Work, Panic, ClientSends, SignalHandled, Serves, diskVars, lifeVars
<1>2. CASE \E w \in Worker : Work(w) \/ Panic(w)
  BY <1>1, <1>2, ReceiveGood, CheckGood, ReadGood, DispatchGood, PanicGood
     DEF Work, Panic, Pool!Work
<1>3. CASE ClientSends
  <2>1. \A bearer \in {shown, EnvToken} : bearer \in Tokens!RealToken \cup {NoToken}
    BY DEF PoolInv, PoolTypes, Tokens!RealToken
  <2> QED BY <1>1, <1>3, <2>1, ArriveGood DEF ClientSends
<1>4. CASE SignalHandled
  BY <1>1, <1>4, SignalGood DEF SignalHandled
<1> QED BY <1>2, <1>3, <1>4

\* What clients have read of the file, whoever wrote it.
LEMMA ShownType ==
  ASSUME StartInv, PoolInv, [Next]_vars
  PROVE  shown' \in Tokens!RealToken \cup {NoToken}
<1>1. shown \in Tokens!RealToken \cup {NoToken}
  BY DEF PoolInv, PoolTypes
<1>2. CASE ClientReadsFile
  BY <1>2 DEF ClientReadsFile, Tokens!ClientReadsFile, StartInv, FileInv, Tokens!File,
    Tokens!RealToken
<1>3. CASE ~ClientReadsFile
  <2>1. shown' \in {shown, NoToken}
    <3>1. CASE ResolveStep
      BY <3>1 DEF ResolveStep, Tokens!Resolve, Tokens!AuthOff, Tokens!FromEnv,
        Tokens!ReadToken, Tokens!ReadFails, Tokens!Repair, Tokens!Generate, Tokens!Remove,
        Tokens!Create, Tokens!Write, Tokens!ReadAgain
    <3>2. CASE UserEdits
      BY <3>2 DEF UserEdits, Tokens!User, Tokens!UserWrites, Tokens!UserDeletes,
        Tokens!UserOpens
    <3>3. CASE Start \/ Crash \/ ResolveFails \/ Refused \/ BindFails \/ ServeReturns
      BY <3>3 DEF Start, Crash, ResolveFails, Refused, BindFails, ServeReturns, Exit,
        Tokens!Fresh
    <3>4. CASE Onward \/ ShellStep \/ ReaderStep \/ CaptureStep
      BY <3>4, OnwardKeeps DEF ShellStep, ReaderStep, CaptureStep, Capturing, diskVars
    <3>5. CASE (\E w \in Worker : Work(w) \/ Panic(w)) \/ ClientSends \/ SignalHandled
      BY <3>5 DEF Work, Panic, ClientSends, SignalHandled, diskVars
    <3>6. CASE UNCHANGED vars
      BY <3>6 DEF vars, diskVars
    <3> QED BY <1>3, <3>1, <3>2, <3>3, <3>4, <3>5, <3>6 DEF Next, Main, Onward
  <2> QED BY <1>1, <2>1
<1> QED BY <1>2, <1>3

LEMMA NextPoolInv == StartInv /\ PoolInv /\ [Next]_vars => PoolInv'
<1> SUFFICES ASSUME StartInv, PoolInv, [Next]_vars PROVE PoolInv'
  OBVIOUS
<1>s. shown' \in Tokens!RealToken \cup {NoToken}
  BY ShownType
<1>1. CASE Start \/ Crash
  <2>1. Pool!Fresh
    BY <1>1 DEF Start, Crash
  <2>2. NobodyServed'
    BY <1>s, <2>1 DEF NobodyServed, Pool!Fresh, Pool!FreshRequests, Pool!Idle, Pool!Disabled
  <2> QED BY <2>2, NobodyServedGood, PTL
<1>2. CASE ResolveFails \/ Refused \/ BindFails \/ ServeReturns
  <2>1. UNCHANGED poolVars /\ phase' = "down"
    BY <1>2 DEF ResolveFails, Refused, BindFails, ServeReturns, Exit
  <2> QED BY <1>s, <2>1, PoolStays
<1>3. CASE Onward \/ ResolveStep
           \/ ShellStep \/ ReaderStep \/ CaptureStep
  <2>1. UNCHANGED poolVars /\ phase \in {"capturing", "resolving", "probing", "binding"}
    BY <1>3, OnwardKeeps DEF ResolveStep, ShellStep, ReaderStep, CaptureStep, Capturing
  <2> QED BY <1>s, <2>1, PoolStays
<1>4. CASE UserEdits \/ ClientReadsFile \/ UNCHANGED vars
  <2>1. UNCHANGED <<poolVars, phase, token>>
    BY <1>4 DEF UserEdits, Tokens!User, Tokens!UserWrites, Tokens!UserDeletes,
      Tokens!UserOpens, ClientReadsFile, Tokens!ClientReadsFile, vars, lifeVars
  <2> QED BY <1>s, <2>1, PoolStays
<1>5. CASE (\E w \in Worker : Work(w) \/ Panic(w)) \/ ClientSends \/ SignalHandled
  BY <1>5, ServingGood
<1> QED BY <1>1, <1>2, <1>3, <1>4, <1>5 DEF Next, Main, Onward

\* Every answer has the CORS headers of its own request, and only a request with
\* the token is answered from behind it: no early return leaves a worker with the
\* decision made for another, over any number of requests, panics and restarts.
THEOREM AnswersAreOwn == Spec => []OwnAnswer
<1>1. StartInv /\ PoolInv /\ [Next]_vars => StartInv' /\ PoolInv'
  BY NextStartInv, NextPoolInv
<1>2. Spec => [](StartInv /\ PoolInv)
  BY <1>1, InitStartInv, InitPoolInv, PTL DEF Spec
<1>3. PoolInv => OwnAnswer
  BY DEF PoolInv, AnsweredWell, OwnAnswer, Owed, Admitted
<1> QED BY <1>2, <1>3, PTL
-----------------------------------------------------------------------------
(* Clients that have read the file. *)

\* What a client has read is what the file says, and while nobody has edited the file
\* since this start read it, it says what the resolver's stage tells.
ShownInv ==
  /\ edited \in BOOLEAN
  /\ shown # NoToken => file # NoFile /\ file.content = shown /\ shown # Blank
  /\ ~edited =>
       /\ resolver \in {"generating", "removing"} => ~Tokens!Usable
       /\ resolver = "writing" => ours /\ file.content = Blank
       /\ resolver = "repairing" \/ (resolver = "done" /\ setting.auth = "file") =>
            file # NoFile /\ file.content = token

\* The server has refused no one for a token that is its own.
RefusedRightly ==
  phase = "serving" =>
    \A r \in Pool!Request : request[r].answer.status = 401 => request[r].bearer # token

\* A step of auth::resolve keeps the clients' token valid or tells them to read again.
LEMMA ResolveShows == StartInv /\ ShownInv /\ ResolveStep => ShownInv'
<1> SUFFICES ASSUME StartInv, ShownInv, ResolveStep PROVE ShownInv'
  OBVIOUS
<1> USE TokenAssumption DEF StartInv, FileInv, ShownInv, Tokens!File, Tokens!Usable
<1>0. UNCHANGED setting /\ Tokens!Resolve(setting.auth, env)
  BY DEF ResolveStep, lifeVars
<1>1. CASE Tokens!AuthOff(setting.auth) \/ Tokens!FromEnv(setting.auth, env)
  BY <1>0, <1>1 DEF Tokens!AuthOff, Tokens!FromEnv
<1>2. CASE Tokens!ReadToken(setting.auth) \/ Tokens!ReadFails(setting.auth)
  BY <1>0, <1>2 DEF Tokens!ReadToken, Tokens!ReadFails
<1>3. CASE Tokens!Repair
  BY <1>0, <1>3 DEF Tokens!Repair
<1>4. CASE Tokens!Generate
  BY <1>0, <1>4 DEF Tokens!Generate
<1>5. CASE Tokens!Remove
  BY <1>0, <1>5 DEF Tokens!Remove, Tokens!ReadAgain
<1>6. CASE Tokens!Create
  <2>1. CASE resolver' = "failed" /\ UNCHANGED file
    BY <1>0, <1>6, <2>1 DEF Tokens!Create
  <2>2. CASE ~(resolver' = "failed" /\ UNCHANGED file)
    <3>1. /\ file = NoFile /\ ours' = TRUE /\ resolver' = "writing"
          /\ file' = [content |-> Blank, open |-> FALSE, exposed |-> FALSE]
          /\ UNCHANGED <<shown, edited>>
      BY <1>6, <2>2 DEF Tokens!Create
    <3>2. file'.content = Blank /\ shown' = NoToken
      BY <3>1
    <3> QED BY <3>1, <3>2
  <2> QED BY <2>1, <2>2
<1>7. CASE Tokens!Write
  <2>1. /\ resolver = "writing" /\ resolver' \in {"done", "failed"} /\ UNCHANGED token
        /\ shown' = IF edited THEN NoToken ELSE shown
    BY <1>7 DEF Tokens!Write, Tokens!ReadAgain
  <2>2. shown' = NoToken
    BY <2>1
  <2>3. CASE resolver' = "failed" /\ UNCHANGED edited
    BY <2>2, <2>3
  <2>4. CASE ours /\ file' = [file EXCEPT !.content = token] /\ edited' = (edited /\ ~ours)
    <3>1. file \in Tokens!File /\ file # NoFile /\ token \in Tokens!Generated
      BY <2>1, <2>4
    <3>2. file' \in Tokens!File /\ file'.content = token
      BY <2>4, <3>1
    <3>3. file' # NoFile /\ edited' = FALSE
      BY <2>4, <3>2
    <3> QED BY <2>1, <2>2, <3>2, <3>3
  <2>5. CASE ~ours /\ edited' = (edited /\ ~ours)
    <3>1. edited' = TRUE
      BY <2>1, <2>5
    <3> QED BY <2>2, <3>1
  <2> QED BY <1>7, <2>3, <2>4, <2>5 DEF Tokens!Write
<1> QED BY <1>0, <1>1, <1>2, <1>3, <1>4, <1>5, <1>6, <1>7 DEF Tokens!Resolve

\* Users and clients at the file.
LEMMA UserShows == StartInv /\ ShownInv /\ (UserEdits \/ ClientReadsFile) => ShownInv'
<1> SUFFICES ASSUME StartInv, ShownInv, UserEdits \/ ClientReadsFile PROVE ShownInv'
  OBVIOUS
<1> USE TokenAssumption DEF StartInv, FileInv, ShownInv, Tokens!File, Tokens!Usable
<1>0. UNCHANGED setting
  BY DEF UserEdits, ClientReadsFile, lifeVars
<1>1. CASE Tokens!UserWrites \/ Tokens!UserDeletes
  <2>1. shown' = NoToken /\ edited' = TRUE
    BY <1>1 DEF Tokens!UserWrites, Tokens!UserDeletes
  <2> QED BY <2>1
<1>2. CASE Tokens!UserOpens
  <2>1. /\ file \in Tokens!File /\ file # NoFile /\ ~ours
        /\ file' = [file EXCEPT !.open = TRUE, !.exposed = TRUE]
        /\ UNCHANGED <<ours, resolver, token, shown, edited>>
    BY <1>2 DEF Tokens!UserOpens
  <2>2. file' \in Tokens!File /\ file'.content = file.content
    BY <2>1
  <2>3. file' # NoFile
    BY <2>2
  <2> QED BY <1>0, <2>1, <2>2, <2>3
<1>3. CASE ClientReadsFile
  BY <1>0, <1>3 DEF ClientReadsFile, Tokens!ClientReadsFile
<1> QED BY <1>1, <1>2, <1>3 DEF UserEdits, Tokens!User

LEMMA NextShownInv == StartInv /\ ShownInv /\ [Next]_vars => ShownInv'
<1> SUFFICES ASSUME StartInv, ShownInv, [Next]_vars PROVE ShownInv'
  OBVIOUS
<1> DEFINE Kept == UNCHANGED <<file, ours, resolver, token, shown, edited, setting>>
<1>1. CASE Start \/ Crash \/ ResolveFails \/ Refused \/ BindFails \/ ServeReturns
  <2>1. Tokens!Fresh
    BY <1>1 DEF Start, Crash, ResolveFails, Refused, BindFails, ServeReturns, Exit
  <2> QED BY <2>1 DEF Tokens!Fresh, ShownInv
<1>2. CASE Onward \/ ShellStep \/ ReaderStep \/ CaptureStep
  <2>1. Kept
    BY <1>2, OnwardKeeps DEF ShellStep, ReaderStep, CaptureStep, Capturing, diskVars, lifeVars
  <2> QED BY <2>1 DEF ShownInv, Tokens!Usable
<1>3. CASE \/ (\E w \in Worker : Work(w) \/ Panic(w)) \/ ClientSends \/ SignalHandled
           \/ UNCHANGED vars
  <2>1. Kept
    BY <1>3 DEF Work, Panic, ClientSends, SignalHandled, vars, diskVars, lifeVars
  <2> QED BY <2>1 DEF ShownInv, Tokens!Usable
<1> QED BY <1>1, <1>2, <1>3, ResolveShows, UserShows DEF Next, Main, Onward

\* A request that keeps its answer is refused as rightly as before.
RefusedOrNot(r) ==
  \/ request'[r].answer = request[r].answer /\ request'[r].bearer = request[r].bearer
  \/ request'[r].answer.status # 401
  \/ request'[r].bearer # token

\* Of all answers only the one of Check may be a refusal.
LEMMA WorkRefuses ==
  ASSUME PoolInv, NEW w \in Worker, Pool!Work(w) \/ Pool!Panic(w), NEW r \in Pool!Request
  PROVE  RefusedOrNot(r)
<1> USE DEF RefusedOrNot
<1>0. request \in [Pool!Request -> RequestRecord] /\ request[r] \in RequestRecord
  BY DEF PoolInv, PoolTypes
<1> DEFINE q == worker[w].for
<1>1. ASSUME NEW status \in Nat, NEW decision, Pool!Answer(q, status, decision),
             status = 401 /\ q = r => request[r].bearer # token
      PROVE  RefusedOrNot(r)
  <2>1. CASE r = q
    <3>1. /\ request'[r].bearer = request[r].bearer
          /\ request'[r].answer.status = status
      BY <1>0, <1>1, <2>1 DEF Pool!Answer, RequestRecord
    <3> QED BY <1>1, <2>1, <3>1
  <2>2. CASE r # q
    BY <1>0, <1>1, <2>2 DEF Pool!Answer
  <2> QED BY <2>1, <2>2
<1>2. CASE Pool!Receive(w)
  <2>1. \/ UNCHANGED request
        \/ request' = [request EXCEPT ![Head(queue)].at = "taken"]
    BY <1>2 DEF Pool!Receive
  <2> QED BY <1>0, <2>1 DEF RequestRecord
<1>3. CASE Pool!Check(w)
  <2> DEFINE status == Pool!EarlyStatus(request[q].ask, request[q].bearer)
  <2>1. UNCHANGED request \/ Pool!Answer(q, status, cors'[w])
    BY <1>3 DEF Pool!Check
  <2>2. status \in {0, 200, 204, 401, 404, 405, 501}
    BY EarlyStatusType
  <2>3. status = 401 => request[q].bearer # token
    BY DEF Pool!EarlyStatus, Pool!Refused, Pool!Continue
  <2> HIDE DEF status
  <2> QED BY <1>1, <2>1, <2>2, <2>3
<1>4. CASE Pool!ReadBody(w)
  <2> DEFINE status == Pool!BodyStatus(request[q].ask, request[q].model)
  <2>1. status \in {0, 400, 404, 413}
    BY BodyStatusType
  <2>2. \/ UNCHANGED request
        \/ Pool!Answer(q, status, cors[w])
        \/ \E s \in {400, 500} : Pool!Answer(q, s, cors[w])
    <3>1. CASE status # Pool!Continue
      BY <1>4, <3>1 DEF Pool!ReadBody
    <3>2. CASE status = Pool!Continue
      <4>1. PICK legs \in Pool!Walks(request[q].model, Config) :
              IF legs = Pool!NoLegs
              THEN Pool!WaitAgain(w) /\ \E s \in {400, 500} : Pool!Answer(q, s, cors[w])
              ELSE worker' = [worker EXCEPT ![w].at = "dispatching"] /\ UNCHANGED request
        BY <1>4, <3>2 DEF Pool!ReadBody
      <4> QED BY <4>1
    <3> QED BY <3>1, <3>2
  <2> HIDE DEF status, q
  <2>3. ASSUME NEW s \in {400, 500}, Pool!Answer(q, s, cors[w]) PROVE RefusedOrNot(r)
    BY <1>1, <2>3
  <2>4. CASE Pool!Answer(q, status, cors[w])
    BY <1>1, <2>1, <2>4
  <2> QED BY <2>2, <2>3, <2>4
<1>5. CASE Pool!DispatchEnds(w)
  <2>1. PICK s \in {200, 503} : Pool!Answer(q, s, cors[w])
    BY <1>5 DEF Pool!DispatchEnds
  <2> HIDE DEF q
  <2> QED BY <1>1, <2>1
<1>6. CASE Pool!Panic(w)
  <2>1. request' = [request EXCEPT ![q].at = "answered",
                                   ![q].answer = [Pool!NoAnswer EXCEPT !.status = 500]]
    BY <1>6 DEF Pool!Panic, Pool!Dropped
  <2> HIDE DEF q
  <2> QED BY <1>0, <2>1 DEF RequestRecord, Pool!NoAnswer
<1> QED BY <1>2, <1>3, <1>4, <1>5, <1>6 DEF Pool!Work

LEMMA NextRefused == PoolInv /\ RefusedRightly /\ [Next]_vars => RefusedRightly'
<1> SUFFICES ASSUME PoolInv, RefusedRightly, [Next]_vars, phase' = "serving",
                    NEW r \in Pool!Request, request'[r].answer.status = 401
             PROVE  request'[r].bearer # token'
  BY DEF RefusedRightly
<1>0. request \in [Pool!Request -> RequestRecord]
  BY DEF PoolInv, PoolTypes
<1>1. CASE ~(phase = "serving")
  <2>1. Bind
    BY <1>1 DEF Next, Main, Start, Crash, CaptureStep, ShellStep, ReaderStep, Capturing,
      Captured, ResolveStep, Resolved, ProbeStarts, Unprobed, Probed, ProbeGoesOn,
      ResolveFails, Refused, BindFails, ServeReturns, Exit, Work, Panic, UserEdits,
      ClientReadsFile, ClientSends, SignalHandled, lifeVars, vars
  <2>2. request' = request /\ request = Pool!FreshRequests
    BY <2>1 DEF Bind, poolVars, PoolInv, PoolFresh
  <2> QED BY <2>2 DEF Pool!FreshRequests, Pool!NotSent, Pool!NoAnswer
<1>2. ASSUME phase = "serving", token' = token, RefusedOrNot(r)
      PROVE  request'[r].bearer # token'
  BY <1>2 DEF RefusedOrNot, RefusedRightly
<1>3. CASE phase = "serving"
  <2>1. CASE \E w \in Worker : Work(w) \/ Panic(w)
    BY <1>2, <1>3, <2>1, WorkRefuses DEF Work, Panic
  <2>2. CASE ClientSends
    <3>1. PICK q \in Pool!Request, ask \in Kinds, model \in Models, bearer \in {shown, EnvToken} :
            Pool!Arrive(q, ask, model, bearer)
      BY <2>2 DEF ClientSends
    <3>2. RefusedOrNot(r)
      BY <1>0, <3>1 DEF Pool!Arrive, Pool!NoAnswer, RefusedOrNot
    <3> QED BY <1>2, <1>3, <2>2, <3>2 DEF ClientSends
  <2>3. CASE ~((\E w \in Worker : Work(w) \/ Panic(w)) \/ ClientSends)
    <3>1. UNCHANGED <<request, token>>
      BY <1>3, <2>3 DEF Next, Main, Start, Crash, CaptureStep, ShellStep, ReaderStep,
        Capturing, Captured, ResolveStep, Resolved, ProbeStarts, Unprobed, Probed,
        ProbeGoesOn, ResolveFails, Refused, Bind, BindFails, ServeReturns, Exit, UserEdits,
        Tokens!User, Tokens!UserWrites, Tokens!UserDeletes, Tokens!UserOpens, ClientReadsFile,
        Tokens!ClientReadsFile, SignalHandled, Pool!Signal, poolVars, vars
    <3> QED BY <1>2, <1>3, <3>1 DEF RefusedOrNot
  <2> QED BY <2>1, <2>2, <2>3
<1> QED BY <1>1, <1>3

\* Restarts do not invalidate clients: while nobody has edited the file since this
\* start read it, nobody who has read it is refused, over every crash and repair.
THEOREM FileTokensAccepted == Spec => []FileTokenAccepted
<1>1. Init => ShownInv /\ RefusedRightly
  BY DEF Init, Tokens!Init, ShownInv, RefusedRightly
<1>2. StartInv /\ PoolInv /\ [Next]_vars => StartInv' /\ PoolInv'
  BY NextStartInv, NextPoolInv
<1>3. Spec => [](StartInv /\ PoolInv /\ ShownInv /\ RefusedRightly)
  BY <1>1, <1>2, InitStartInv, InitPoolInv, NextShownInv, NextRefused, PTL DEF Spec
<1>4. StartInv /\ ShownInv /\ RefusedRightly => FileTokenAccepted
  BY DEF StartInv, TokenInv, ShownInv, RefusedRightly, FileTokenAccepted
<1> QED BY <1>3, <1>4, PTL
-----------------------------------------------------------------------------
(* Types: the start, and the whereabouts of every request. *)

\* All that the shell has printed is in the pipe or with the reader.
LifeTypes ==
  /\ Capture!TypeOK /\ printed = drained + pipe
  /\ Tokens!TypeOK
  /\ phase \in {"down", "capturing", "resolving", "probing", "binding", "serving"}
  /\ setting \in Setting /\ probe \subseteq Awaited
  /\ starts \in 0 .. StartMax /\ edits \in 0 .. EditMax

\* No two workers serve the same request, and none is queued twice.
InOnePlace ==
  /\ \A v, w \in Worker :
       worker[v].for = worker[w].for /\ worker[v].for \in Pool!Request => v = w
  /\ \A i, j \in 1 .. Len(queue) :
       queue[i] = queue[j] /\ queue[i] \in Pool!Request => i = j

LEMMA CaptureTypes ==
  ASSUME LifeTypes, ShellStep \/ ReaderStep \/ CaptureStep
  PROVE  Capture!TypeOK' /\ printed' = drained' + pipe'
<1>0. EnvSize \in Nat \ {0} /\ PipeCap \in Nat \ {0}
  BY LifeAssumption
<1> USE <1>0 DEF LifeTypes, Capture!TypeOK
<1>1. CASE ShellStep
  <2>1. CASE Capture!ShellPrints
    BY <2>1 DEF Capture!ShellPrints
  <2>2. CASE Capture!ShellForks \/ Capture!ShellExits \/ Capture!HolderExits
    <3>1. /\ UNCHANGED <<printed, pipe, reader, drained, capturer, env, warned>>
          /\ shell' \in {shell, "exited"} /\ held' \in BOOLEAN
      BY <2>2 DEF Capture!ShellForks, Capture!ShellExits, Capture!HolderExits
    <3> QED BY <3>1
  <2> QED BY <1>1, <2>1, <2>2 DEF ShellStep, Capturing, Capture!Shell
<1>2. CASE ReaderStep
  BY <1>2 DEF ReaderStep, Capturing, Capture!Reader, Capture!ReaderReads, Capture!ReaderSends
<1>3. CASE CaptureStep
  BY <1>3 DEF CaptureStep, Capturing, Capture!Caller, Capture!TakeProcessEnv, Capture!Spawn,
    Capture!SpawnFails, Capture!PollSeesExit, Capture!PollOverdue, Capture!Collect,
    Capture!GraceExpires, Capture!FallBack, Capture!Parsed
<1> QED BY <1>1, <1>2, <1>3

LEMMA TokenTypes ==
  ASSUME LifeTypes, StartInv, ResolveStep \/ UserEdits \/ ClientReadsFile
  PROVE  Tokens!TypeOK'
<1> USE TokenAssumption DEF LifeTypes, Tokens!TypeOK, Tokens!File, Tokens!RealToken,
      Tokens!ReadAgain
<1>1. CASE ResolveStep
  <2>1. StartInv'
    BY <1>1, ResolveStarts
  <2>2. file' \in Tokens!File \cup {NoFile} /\ ours' \in BOOLEAN /\ issued' \in Nat
    BY <2>1 DEF StartInv, FileInv
  <2>3. CASE Tokens!AuthOff(setting.auth) \/ Tokens!FromEnv(setting.auth, env)
    BY <2>2, <2>3 DEF Tokens!AuthOff, Tokens!FromEnv
  <2>4. CASE Tokens!ReadToken(setting.auth) \/ Tokens!ReadFails(setting.auth)
    BY <2>2, <2>4 DEF Tokens!ReadToken, Tokens!ReadFails, Tokens!Usable
  <2>5. CASE Tokens!Repair \/ Tokens!Remove \/ Tokens!Create
    BY <2>2, <2>5 DEF Tokens!Repair, Tokens!Remove, Tokens!Create
  <2>6. CASE Tokens!Generate
    BY <2>2, <2>6 DEF Tokens!Generate, Tokens!Generated
  <2>7. CASE Tokens!Write
    BY <2>2, <2>7 DEF Tokens!Write
  <2> QED BY <1>1, <2>3, <2>4, <2>5, <2>6, <2>7 DEF ResolveStep, Tokens!Resolve
<1>2. CASE UserEdits
  <2>1. StartInv'
    BY <1>2, UserStarts
  <2>2. file' \in Tokens!File \cup {NoFile} /\ ours' \in BOOLEAN /\ issued' \in Nat
    BY <2>1 DEF StartInv, FileInv
  <2> QED BY <1>2, <2>2 DEF UserEdits, Tokens!User, Tokens!UserWrites, Tokens!UserDeletes,
        Tokens!UserOpens
<1>3. CASE ClientReadsFile
  BY <1>3 DEF ClientReadsFile, Tokens!ClientReadsFile
<1> QED BY <1>1, <1>2, <1>3

LEMMA NextLifeTypes == StartInv /\ LifeTypes /\ [Next]_vars => LifeTypes'
<1> SUFFICES ASSUME StartInv, LifeTypes, [Next]_vars PROVE LifeTypes'
  OBVIOUS
<1> DEFINE Captures == Capture!TypeOK /\ printed = drained + pipe
<1> DEFINE Rest == /\ phase \in {"down", "capturing", "resolving", "probing", "binding",
                                 "serving"}
                   /\ setting \in Setting /\ probe \subseteq Awaited
                   /\ starts \in 0 .. StartMax /\ edits \in 0 .. EditMax
<1>1. UNCHANGED captureVars => Captures'
  BY DEF LifeTypes, captureVars, Capture!TypeOK
<1>2. UNCHANGED <<diskVars, token>> => Tokens!TypeOK'
  BY DEF LifeTypes, diskVars, Tokens!TypeOK
<1>3. UNCHANGED lifeVars => Rest'
  BY DEF LifeTypes, lifeVars
<1>4. NoSetting \in Setting
  BY DEF NoSetting, Setting
<1>z. 0 \in 0 .. EnvSize /\ 0 \in 0 .. PipeCap /\ 0 = 0 + 0
  BY LifeAssumption
<1>s. ForgetShell => /\ shell' = "none" /\ printed' \in 0 .. EnvSize /\ pipe' \in 0 .. PipeCap
                     /\ held' \in BOOLEAN /\ reader' = "none" /\ drained' \in 0 .. EnvSize
                     /\ printed' = drained' + pipe'
  BY <1>z DEF ForgetShell
<1>f. ForgetCapture => Captures'
  BY <1>s DEF ForgetCapture, Capture!TypeOK
<1>5. CASE Start \/ Crash \/ ResolveFails \/ Refused \/ BindFails \/ ServeReturns
  <2>1. Tokens!Fresh /\ (Captures' \/ UNCHANGED captureVars)
    <3>1. Tokens!Fresh /\ (ForgetCapture \/ UNCHANGED captureVars)
      BY <1>5 DEF Start, Crash, ResolveFails, Refused, BindFails, ServeReturns, Exit
    <3> QED BY <1>f, <3>1
  <2>2. Tokens!TypeOK'
    BY <2>1 DEF Tokens!Fresh, Tokens!TypeOK, LifeTypes
  <2>3. Rest'
    BY <1>4, <1>5, LifeAssumption DEF Start, Crash, ResolveFails, Refused, BindFails,
      ServeReturns, Exit, LifeTypes
  <2> QED BY <1>1, <2>1, <2>2, <2>3 DEF LifeTypes
<1>6. CASE Onward
  <2>1. Captures' \/ UNCHANGED captureVars
    <3>1. CASE Captured
      BY <1>s, <3>1 DEF Captured, Capture!TypeOK, LifeTypes
    <3> QED BY <1>f, <1>6, <3>1 DEF Onward, Resolved, ProbeStarts, Unprobed, Probed,
      ProbeGoesOn, Bind
  <2>2. Rest' /\ UNCHANGED <<diskVars, token>>
    BY <1>6, OnwardKeeps DEF LifeTypes
  <2> QED BY <1>1, <1>2, <2>1, <2>2 DEF LifeTypes
<1>7. CASE ShellStep \/ ReaderStep \/ CaptureStep
  <2>1. UNCHANGED <<diskVars, token>> /\ UNCHANGED lifeVars
    BY <1>7 DEF ShellStep, ReaderStep, CaptureStep, Capturing
  <2> QED BY <1>2, <1>3, <1>7, <2>1, CaptureTypes DEF LifeTypes
<1>8. CASE ResolveStep \/ UserEdits \/ ClientReadsFile
  <2>1. Rest' /\ UNCHANGED captureVars
    BY <1>3, <1>8, LifeAssumption DEF ResolveStep, UserEdits, ClientReadsFile, LifeTypes
  <2> QED BY <1>1, <1>8, <2>1, TokenTypes DEF LifeTypes
<1>9. CASE \/ (\E w \in Worker : Work(w) \/ Panic(w)) \/ ClientSends \/ SignalHandled
           \/ UNCHANGED vars
  <2>1. UNCHANGED captureVars /\ UNCHANGED <<diskVars, token>> /\ UNCHANGED lifeVars
    BY <1>9 DEF Work, Panic, ClientSends, SignalHandled, vars
  <2> QED BY <1>1, <1>2, <1>3, <2>1 DEF LifeTypes
<1> QED BY <1>5, <1>6, <1>7, <1>8, <1>9 DEF Next, Main, Onward

\* What a worker with a request is doing.
Busy == {"checking", "reading", "dispatching"}

\* Where each request is, and that its record says so.
Placed == Pool!TypeOK /\ InOnePlace

\* What a step that answers the request of a worker does.
Serve(w, answer) ==
  /\ worker[w].at \in Busy
  /\ Changed(worker[w].for, "answered", answer)
  /\ Pool!WaitAgain(w)
  /\ UNCHANGED <<queue, stops>>

Statuses == {200, 204, 400, 401, 404, 405, 413, 500, 501, 503}

LEMMA ServePlaces ==
  ASSUME PoolInv, Placed, NEW w \in Worker, NEW answer, answer.status \in Statuses,
         Serve(w, answer),
         \A v \in Worker : cors'[v] \in [enabled : BOOLEAN, origin : {"none", "listed"}]
  PROVE  Placed'
<1> DEFINE r == worker[w].for
<1>0. /\ request \in [Pool!Request -> RequestRecord]
      /\ worker \in [Worker -> [at : {"waiting", "checking", "reading", "dispatching", "gone"},
                                for : Pool!Request \cup {NoRequest}]]
      /\ queue \in Seq(Pool!Request \cup {Pool!Stop}) /\ NoRequest \notin Pool!Request
  BY LifeAssumption DEF PoolInv, PoolTypes
<1>1. r \in Pool!Request /\ request[r].at = "taken"
  BY <1>0 DEF Placed, Pool!TypeOK, Serve, Busy
<1>2. answer # Pool!NoAnswer
  BY DEF Pool!NoAnswer, Statuses
<1>3. /\ request'[r].at = "answered" /\ request'[r].answer = answer
      /\ \A q \in Pool!Request : q # r => request'[q] = request[q]
  BY <1>0, <1>1 DEF Serve, Changed, RequestRecord
<1>4. /\ worker'[w].at = "waiting" /\ worker'[w].for = NoRequest
      /\ \A v \in Worker : v # w => worker'[v] = worker[v]
      /\ queue' = queue
  BY <1>0 DEF Serve, Pool!WaitAgain
<1>5. InOnePlace'
  BY <1>0, <1>4 DEF Placed, InOnePlace
<1>6. ASSUME NEW q \in Pool!Request
      PROVE  /\ request'[q].at \in {"unsent", "queued", "taken", "answered"}
             /\ request'[q].answer.status \in {0} \cup Statuses
             /\ request'[q].at = "answered" <=> request'[q].answer # Pool!NoAnswer
             /\ request'[q].at = "taken" <=> \E v \in Worker : worker'[v].for = q
             /\ request'[q].at = "queued" <=> \E i \in DOMAIN queue' : queue'[i] = q
  <2>1. CASE q = r
    <3>1. \A v \in Worker : worker'[v].for # r
      BY <1>0, <1>1, <1>4 DEF Placed, InOnePlace
    <3>2. \A i \in DOMAIN queue : queue[i] # r
      BY <1>1 DEF Placed, Pool!TypeOK
    <3> QED BY <1>2, <1>3, <1>4, <2>1, <3>1, <3>2
  <2>2. CASE q # r
    <3>1. (\E v \in Worker : worker'[v].for = q) <=> (\E v \in Worker : worker[v].for = q)
      BY <1>0, <1>4, <2>2
    <3> QED BY <1>3, <1>4, <2>2, <3>1 DEF Placed, Pool!TypeOK, Statuses
  <2> QED BY <2>1, <2>2
<1>7. ASSUME NEW v \in Worker
      PROVE  /\ worker'[v].at \in {"waiting", "checking", "reading", "dispatching", "gone"}
             /\ worker'[v].for \in Pool!Request <=> worker'[v].at \in Busy
  BY <1>0, <1>4 DEF Placed, Pool!TypeOK, Busy
<1> QED BY <1>0, <1>4, <1>5, <1>6, <1>7 DEF Placed, Pool!TypeOK, Serve, Busy, Statuses

LEMMA AnswerPlaces ==
  ASSUME PoolInv, Placed, NEW w \in Worker, worker[w].at \in Busy, NEW status \in Statuses,
         NEW decision, Pool!Answer(worker[w].for, status, decision), Pool!WaitAgain(w),
         UNCHANGED <<queue, stops>>,
         \A v \in Worker : cors'[v] \in [enabled : BOOLEAN, origin : {"none", "listed"}]
  PROVE  Placed'
<1> DEFINE answer == [status |-> status, vary |-> decision.enabled, origin |-> decision.origin]
<1>1. answer.status \in Statuses
  OBVIOUS
<1>2. Serve(w, answer)
  BY DEF Serve, Changed, Pool!Answer
<1> HIDE DEF answer
<1> QED BY <1>1, <1>2, ServePlaces

\* A worker goes on with its request.
LEMMA GoesOnPlaces ==
  ASSUME PoolInv, Placed, NEW w \in Worker, worker[w].at \in Busy, NEW at \in Busy,
         worker' = [worker EXCEPT ![w].at = at], UNCHANGED <<queue, request, stops>>,
         \A v \in Worker : cors'[v] \in [enabled : BOOLEAN, origin : {"none", "listed"}]
  PROVE  Placed'
<1>1. /\ worker'[w].at = at
      /\ \A v \in Worker : worker'[v].for = worker[v].for
      /\ \A v \in Worker : v # w => worker'[v].at = worker[v].at
  BY DEF PoolInv, PoolTypes
<1>2. InOnePlace'
  BY <1>1 DEF Placed, InOnePlace
<1> QED BY <1>1, <1>2 DEF Placed, Pool!TypeOK, Busy

\* A worker takes the head of the queue.
LEMMA ReceivePlaces ==
  ASSUME PoolInv, Placed, NEW w \in Worker, Pool!Receive(w)
  PROVE  Placed'
<1> DEFINE Entry == Pool!Request \cup {Pool!Stop}
<1>0. /\ request \in [Pool!Request -> RequestRecord]
      /\ worker \in [Worker -> [at : {"waiting", "checking", "reading", "dispatching", "gone"},
                                for : Pool!Request \cup {NoRequest}]]
      /\ queue \in Seq(Entry) /\ NoRequest \notin Pool!Request
      /\ Pool!Stop = NoRequest
  BY LifeAssumption DEF PoolInv, PoolTypes, Pool!Stop
<1>1. /\ worker[w].at = "waiting" /\ queue # <<>> /\ queue' = Tail(queue)
      /\ UNCHANGED <<cors, stops>>
  BY DEF Pool!Receive
<1>2. /\ Head(queue) \in Entry /\ queue' \in Seq(Entry) /\ Head(queue) = queue[1]
      /\ Len(queue) \in Nat \ {0} /\ Len(queue') = Len(queue) - 1
      /\ DOMAIN queue = 1 .. Len(queue) /\ DOMAIN queue' = 1 .. Len(queue')
      /\ \A i \in 1 .. Len(queue') : queue'[i] = queue[i + 1]
  BY <1>0, <1>1, HeadTailProperties, EmptySeq, ElementOfSeq, LenProperties
<1>3. worker[w].for = NoRequest
  BY <1>0, <1>1 DEF Placed, Pool!TypeOK
<1> DEFINE r == Head(queue)
<1>4. \A q \in Pool!Request : q # r =>
        ((\E i \in DOMAIN queue' : queue'[i] = q) <=> (\E i \in DOMAIN queue : queue[i] = q))
  <2> SUFFICES ASSUME NEW q \in Pool!Request, q # r
               PROVE  (\E i \in 1 .. Len(queue') : queue'[i] = q)
                        <=> (\E i \in 1 .. Len(queue) : queue[i] = q)
    BY <1>2
  <2>1. ASSUME NEW i \in 1 .. Len(queue'), queue'[i] = q
        PROVE  \E j \in 1 .. Len(queue) : queue[j] = q
    <3>1. i + 1 \in 1 .. Len(queue) /\ queue[i + 1] = q
      BY <1>2, <2>1
    <3> QED BY <3>1
  <2>2. ASSUME NEW j \in 1 .. Len(queue), queue[j] = q
        PROVE  \E i \in 1 .. Len(queue') : queue'[i] = q
    <3>1. j # 1
      BY <1>2, <2>2
    <3>2. j - 1 \in 1 .. Len(queue') /\ queue'[j - 1] = queue[(j - 1) + 1]
      BY <1>2, <3>1
    <3>3. (j - 1) + 1 = j
      BY <1>2
    <3> QED BY <2>2, <3>2, <3>3
  <2> QED BY <2>1, <2>2
<1>5. \A i, j \in 1 .. Len(queue') :
        queue'[i] = queue'[j] /\ queue'[i] \in Pool!Request => i = j
  <2> SUFFICES ASSUME NEW i \in 1 .. Len(queue'), NEW j \in 1 .. Len(queue'),
                      queue'[i] = queue'[j], queue'[i] \in Pool!Request
               PROVE  i = j
    OBVIOUS
  <2>1. /\ i + 1 \in 1 .. Len(queue) /\ j + 1 \in 1 .. Len(queue)
        /\ queue[i + 1] = queue[j + 1] /\ queue[i + 1] \in Pool!Request
    BY <1>2
  <2>2. i + 1 = j + 1
    BY <2>1 DEF Placed, InOnePlace
  <2> QED BY <1>2, <2>2
<1>6. CASE r = Pool!Stop
  <2>1. worker' = [worker EXCEPT ![w].at = "gone"] /\ UNCHANGED request
    BY <1>6 DEF Pool!Receive
  <2>2. /\ worker'[w].at = "gone"
        /\ \A v \in Worker : worker'[v].for = worker[v].for
        /\ \A v \in Worker : v # w => worker'[v].at = worker[v].at
    BY <1>0, <2>1
  <2>3. \A q \in Pool!Request : q # r
    BY <1>0, <1>6
  <2>4. InOnePlace'
    BY <1>5, <2>2 DEF Placed, InOnePlace
  <2> QED BY <1>0, <1>1, <1>2, <1>3, <1>4, <2>1, <2>2, <2>3, <2>4 DEF Placed, Pool!TypeOK
<1>7. CASE r # Pool!Stop
  <2>1. /\ worker' = [worker EXCEPT ![w] = [at |-> "checking", for |-> r]]
        /\ request' = [request EXCEPT ![r].at = "taken"]
        /\ r \in Pool!Request
    BY <1>2, <1>7 DEF Pool!Receive
  <2>2. /\ worker'[w].at = "checking" /\ worker'[w].for = r
        /\ \A v \in Worker : v # w => worker'[v] = worker[v]
    BY <1>0, <2>1
  <2>3. request[r].at = "queued"
    BY <1>2, <2>1, SMTT(30) DEF Placed, Pool!TypeOK
  <2>4. \A v \in Worker : worker[v].for # r
    BY <2>1, <2>3 DEF Placed, Pool!TypeOK
  <2>5. /\ request'[r].at = "taken" /\ request'[r].answer = request[r].answer
        /\ \A q \in Pool!Request : q # r => request'[q] = request[q]
    BY <1>0, <2>1 DEF RequestRecord
  <2>6. \A i \in DOMAIN queue' : queue'[i] # r
    <3> SUFFICES ASSUME NEW i \in 1 .. Len(queue'), queue'[i] = r PROVE FALSE
      BY <1>2
    <3>1. i + 1 \in 1 .. Len(queue) /\ 1 \in 1 .. Len(queue) /\ queue[i + 1] = queue[1]
      BY <1>2
    <3>2. i + 1 = 1
      BY <1>2, <2>1, <3>1 DEF Placed, InOnePlace
    <3> QED BY <1>2, <3>2
  <2>7. InOnePlace'
    BY <1>0, <1>5, <2>2, <2>4 DEF Placed, InOnePlace
  <2>8. ASSUME NEW q \in Pool!Request
        PROVE  /\ request'[q].at \in {"unsent", "queued", "taken", "answered"}
               /\ request'[q].answer.status \in {0} \cup Statuses
               /\ request'[q].at = "answered" <=> request'[q].answer # Pool!NoAnswer
               /\ request'[q].at = "taken" <=> \E v \in Worker : worker'[v].for = q
               /\ request'[q].at = "queued" <=> \E i \in DOMAIN queue' : queue'[i] = q
    <3>1. CASE q = r
      BY <2>2, <2>3, <2>5, <2>6, <3>1, SMTT(30) DEF Placed, Pool!TypeOK, Statuses
    <3>2. CASE q # r
      <4>1. (\E v \in Worker : worker'[v].for = q) <=> (\E v \in Worker : worker[v].for = q)
        BY <1>0, <1>3, <2>2, <3>2
      <4> QED BY <1>4, <2>5, <3>2, <4>1 DEF Placed, Pool!TypeOK, Statuses
    <3> QED BY <3>1, <3>2
  <2>9. ASSUME NEW v \in Worker
        PROVE  /\ worker'[v].at \in {"waiting", "checking", "reading", "dispatching", "gone"}
               /\ worker'[v].for \in Pool!Request <=> worker'[v].at \in Busy
    BY <2>1, <2>2 DEF Placed, Pool!TypeOK, Busy
  <2> QED BY <1>1, <1>2, <2>7, <2>8, <2>9 DEF Placed, Pool!TypeOK, Busy, Statuses
<1> QED BY <1>6, <1>7

\* An entry that is nowhere yet is queued.
LEMMA QueuePlaces ==
  ASSUME PoolInv, Placed, NEW e \in Pool!Request \cup {Pool!Stop}, queue' = Append(queue, e),
         UNCHANGED <<worker, cors>>, stops' \in 0 .. StopMax,
         \A q \in Pool!Request : q # e => request'[q] = request[q],
         e \in Pool!Request =>
           /\ request[e].at = "unsent"
           /\ request'[e].at = "queued" /\ request'[e].answer = Pool!NoAnswer
  PROVE  Placed'
<1> DEFINE Entry == Pool!Request \cup {Pool!Stop}
<1>1. /\ queue \in Seq(Entry) /\ queue' \in Seq(Entry)
      /\ Len(queue) \in Nat /\ Len(queue') = Len(queue) + 1
      /\ DOMAIN queue = 1 .. Len(queue) /\ DOMAIN queue' = 1 .. Len(queue')
      /\ queue'[Len(queue) + 1] = e
      /\ \A i \in 1 .. Len(queue) : queue'[i] = queue[i]
  BY AppendProperties, LenProperties DEF PoolInv, PoolTypes
<1>2. \A i \in 1 .. Len(queue') : i \in 1 .. Len(queue) \/ i = Len(queue) + 1
  BY <1>1
<1>3. \A i \in 1 .. Len(queue) : queue[i] = e => e \notin Pool!Request
  BY <1>1 DEF Placed, Pool!TypeOK
<1>4. \A q \in Pool!Request :
        (\E i \in DOMAIN queue' : queue'[i] = q) <=> (q = e \/ \E i \in DOMAIN queue : queue[i] = q)
  <2>1. \A i \in 1 .. Len(queue) : i \in 1 .. Len(queue')
    BY <1>1
  <2>2. Len(queue) + 1 \in 1 .. Len(queue')
    BY <1>1
  <2> QED BY <1>1, <1>2, <2>1, <2>2
<1>5. InOnePlace'
  <2>1. \A i, j \in 1 .. Len(queue') :
          queue'[i] = queue'[j] /\ queue'[i] \in Pool!Request => i = j
    BY <1>1, <1>2, <1>3 DEF Placed, InOnePlace
  <2> QED BY <2>1 DEF Placed, InOnePlace
<1>6. ASSUME NEW q \in Pool!Request
      PROVE  /\ request'[q].at \in {"unsent", "queued", "taken", "answered"}
             /\ request'[q].answer.status \in {0} \cup Statuses
             /\ request'[q].at = "answered" <=> request'[q].answer # Pool!NoAnswer
             /\ request'[q].at = "taken" <=> \E v \in Worker : worker'[v].for = q
             /\ request'[q].at = "queued" <=> \E i \in DOMAIN queue' : queue'[i] = q
  <2>1. CASE q = e
    <3>1. ~\E v \in Worker : worker[v].for = q
      BY <2>1 DEF Placed, Pool!TypeOK
    <3>2. request'[q].answer.status = 0
      BY <2>1 DEF Pool!NoAnswer
    <3> QED BY <1>4, <2>1, <3>1, <3>2
  <2>2. CASE q # e
    BY <1>4, <2>2 DEF Placed, Pool!TypeOK, Statuses
  <2> QED BY <2>1, <2>2
<1> QED BY <1>1, <1>5, <1>6 DEF Placed, Pool!TypeOK, Statuses

\* A process has just started: nobody has sent anything yet.
LEMMA FreshPlaces ==
  ASSUME queue = <<>>, stops = 0, request = Pool!FreshRequests, worker = Pool!Idle,
         cors = Pool!Disabled
  PROVE  Placed
<1>1. /\ queue \in Seq(Pool!Request \cup {Pool!Stop}) /\ Len(queue) = 0 /\ DOMAIN queue = {}
      /\ 1 .. Len(queue) = {}
  BY EmptySeq
<1>2. stops \in 0 .. StopMax /\ NoRequest \notin Pool!Request
  BY LifeAssumption
<1>3. \A r \in Pool!Request : /\ request[r].at = "unsent"
                             /\ request[r].answer = Pool!NoAnswer
                             /\ request[r].answer.status = 0
  BY DEF Pool!FreshRequests, Pool!NotSent, Pool!NoAnswer
<1>4. \A w \in Worker : /\ worker[w].at = "waiting" /\ worker[w].for \notin Pool!Request
                       /\ cors[w] \in [enabled : BOOLEAN, origin : {"none", "listed"}]
  BY <1>2 DEF Pool!Idle, Pool!Disabled
<1>5. InOnePlace
  BY <1>1, <1>4 DEF InOnePlace
<1> QED BY <1>1, <1>2, <1>3, <1>4, <1>5 DEF Placed, Pool!TypeOK

LEMMA UnchangedPlaces == Placed /\ UNCHANGED poolVars => Placed'
BY DEF Placed, InOnePlace, Pool!TypeOK, poolVars

\* A worker's step.
LEMMA WorkPlaces ==
  ASSUME PoolInv, PoolInv', Placed, NEW w \in Worker, Pool!Work(w) \/ Pool!Panic(w)
  PROVE  Placed'
<1>0. \A v \in Worker : cors'[v] \in [enabled : BOOLEAN, origin : {"none", "listed"}]
  BY DEF PoolInv, PoolTypes
<1> DEFINE r == worker[w].for
<1>1. CASE Pool!Check(w)
  <2> DEFINE status == Pool!EarlyStatus(request[r].ask, request[r].bearer)
  <2>1. status \in {0, 200, 204, 401, 404, 405, 501}
    BY EarlyStatusType
  <2>2. /\ worker[w].at = "checking" /\ UNCHANGED <<queue, stops>>
        /\ IF status = 0
           THEN worker' = [worker EXCEPT ![w].at = "reading"] /\ UNCHANGED request
           ELSE Pool!WaitAgain(w) /\ Pool!Answer(r, status, cors'[w])
    BY <1>1 DEF Pool!Check, Pool!Continue
  <2> HIDE DEF status
  <2>3. CASE status = 0
    BY <1>0, <2>2, <2>3, GoesOnPlaces DEF Busy
  <2>4. CASE status # 0
    <3>1. status \in Statuses
      BY <2>1, <2>4 DEF Statuses
    <3>2. /\ worker[w].at \in Busy /\ UNCHANGED <<queue, stops>>
          /\ Pool!WaitAgain(w) /\ Pool!Answer(r, status, cors'[w])
      BY <2>2, <2>4 DEF Busy
    <3> QED BY <1>0, <3>1, <3>2, AnswerPlaces
  <2> QED BY <2>3, <2>4
<1>2. CASE Pool!ReadBody(w)
  <2> DEFINE status == Pool!BodyStatus(request[r].ask, request[r].model)
  <2>1. status \in {0, 400, 404, 413}
    BY BodyStatusType
  <2>2. worker[w].at = "reading" /\ UNCHANGED <<queue, stops>>
    BY <1>2 DEF Pool!ReadBody
  <2>3. \/ status # 0 /\ Pool!WaitAgain(w) /\ Pool!Answer(r, status, cors[w])
        \/ \E s \in {400, 500} : Pool!WaitAgain(w) /\ Pool!Answer(r, s, cors[w])
        \/ worker' = [worker EXCEPT ![w].at = "dispatching"] /\ UNCHANGED request
    <3>1. CASE status # Pool!Continue
      BY <1>2, <3>1 DEF Pool!ReadBody, Pool!Continue
    <3>2. CASE status = Pool!Continue
      <4>1. PICK legs \in Pool!Walks(request[r].model, Config) :
              IF legs = Pool!NoLegs
              THEN Pool!WaitAgain(w) /\ \E s \in {400, 500} : Pool!Answer(r, s, cors[w])
              ELSE worker' = [worker EXCEPT ![w].at = "dispatching"] /\ UNCHANGED request
        BY <1>2, <3>2 DEF Pool!ReadBody
      <4> QED BY <4>1
    <3> QED BY <3>1, <3>2
  <2> HIDE DEF status
  <2>4. ASSUME NEW s \in Statuses, Pool!WaitAgain(w), Pool!Answer(r, s, cors[w])
        PROVE  Placed'
    <3>1. worker[w].at \in Busy
      BY <2>2 DEF Busy
    <3> QED BY <1>0, <2>2, <2>4, <3>1, AnswerPlaces
  <2>5. CASE worker' = [worker EXCEPT ![w].at = "dispatching"] /\ UNCHANGED request
    BY <1>0, <2>2, <2>5, GoesOnPlaces DEF Busy
  <2>6. {400, 500} \subseteq Statuses /\ (status # 0 => status \in Statuses)
    BY <2>1 DEF Statuses
  <2> QED BY <2>3, <2>4, <2>5, <2>6
<1>3. CASE Pool!DispatchEnds(w)
  <2>1. PICK s \in {200, 503} : Pool!Answer(r, s, cors[w])
    BY <1>3 DEF Pool!DispatchEnds
  <2>2. worker[w].at \in Busy /\ Pool!WaitAgain(w) /\ UNCHANGED <<queue, stops>>
    BY <1>3 DEF Pool!DispatchEnds, Busy
  <2>3. s \in Statuses
    BY DEF Statuses
  <2> QED BY <1>0, <2>1, <2>2, <2>3, AnswerPlaces
<1>4. CASE Pool!Panic(w)
  <2> DEFINE answer == [Pool!NoAnswer EXCEPT !.status = 500]
  <2>1. answer.status \in Statuses
    BY DEF Pool!NoAnswer, Statuses
  <2>2. Serve(w, answer)
    BY <1>4 DEF Serve, Changed, Pool!Panic, Pool!Dropped, Busy
  <2> HIDE DEF answer
  <2> QED BY <1>0, <2>1, <2>2, ServePlaces
<1> QED BY <1>1, <1>2, <1>3, <1>4, ReceivePlaces DEF Pool!Work

LEMMA NextPlaced == PoolInv /\ PoolInv' /\ Placed /\ [Next]_vars => Placed'
<1> SUFFICES ASSUME PoolInv, PoolInv', Placed, [Next]_vars PROVE Placed'
  OBVIOUS
<1>1. CASE Start \/ Crash
  <2>1. Pool!Fresh
    BY <1>1 DEF Start, Crash
  <2>2. (/\ queue = <<>> /\ stops = 0 /\ request = Pool!FreshRequests
         /\ worker = Pool!Idle /\ cors = Pool!Disabled)'
    BY <2>1 DEF Pool!Fresh, Pool!FreshRequests, Pool!Idle, Pool!Disabled
  <2> QED BY <2>2, FreshPlaces, PTL
<1>2. CASE \E w \in Worker : Work(w) \/ Panic(w)
  BY <1>2, WorkPlaces DEF Work, Panic
<1>3. CASE ClientSends
  <2>1. PICK r \in Pool!Request, ask \in Kinds, model \in Models, bearer \in {shown, EnvToken} :
          Pool!Arrive(r, ask, model, bearer)
    BY <1>3 DEF ClientSends
  <2> DEFINE new == [at |-> "queued", ask |-> ask, model |-> model, bearer |-> bearer,
                     answer |-> Pool!NoAnswer]
  <2>2. /\ request[r].at = "unsent" /\ request' = [request EXCEPT ![r] = new]
        /\ queue' = Append(queue, r) /\ UNCHANGED <<worker, cors, stops>>
    BY <2>1 DEF Pool!Arrive
  <2>3. new.at = "queued" /\ new.answer = Pool!NoAnswer
    OBVIOUS
  <2> HIDE DEF new
  <2>4. request'[r] = new /\ \A q \in Pool!Request : q # r => request'[q] = request[q]
    BY <2>2 DEF PoolInv, PoolTypes
  <2>5. stops' \in 0 .. StopMax
    BY <2>2 DEF Placed, Pool!TypeOK
  <2> QED BY <2>2, <2>3, <2>4, <2>5, QueuePlaces
<1>4. CASE SignalHandled
  <2>1. /\ queue' = Append(queue, Pool!Stop) /\ UNCHANGED <<request, worker, cors>>
        /\ stops' = stops + 1 /\ stops < StopMax
    BY <1>4 DEF SignalHandled, Pool!Signal
  <2>2. stops' \in 0 .. StopMax
    BY <2>1, LifeAssumption DEF Placed, Pool!TypeOK
  <2>3. Pool!Stop \notin Pool!Request
    BY LifeAssumption DEF Pool!Stop
  <2> QED BY <2>1, <2>2, <2>3, QueuePlaces
<1>5. CASE ~(\/ Start \/ Crash \/ (\E w \in Worker : Work(w) \/ Panic(w))
             \/ ClientSends \/ SignalHandled)
  <2>1. UNCHANGED poolVars
    BY <1>5 DEF Next, Main, CaptureStep, ShellStep, ReaderStep, Capturing, Captured,
      ResolveStep, Resolved, ProbeStarts, Unprobed, Probed, ProbeGoesOn, ResolveFails,
      Refused, Bind, BindFails, ServeReturns, Exit, UserEdits, ClientReadsFile, vars
  <2> QED BY <2>1, UnchangedPlaces
<1> QED BY <1>1, <1>2, <1>3, <1>4, <1>5

LEMMA LifeInvHolds == Spec => [](StartInv /\ PoolInv /\ LifeTypes /\ Placed)
<1>1. Init => LifeTypes /\ Placed
  <2> SUFFICES ASSUME Init PROVE LifeTypes /\ Placed
    OBVIOUS
  <2>1. Capture!TypeOK /\ printed = drained + pipe
    <3>1. 0 \in 0 .. EnvSize /\ 0 \in 0 .. PipeCap /\ 0 = 0 + 0
      BY LifeAssumption
    <3> QED BY <3>1 DEF Init, Capture!Init, Capture!TypeOK
  <2>2. Tokens!TypeOK
    BY DEF Init, Tokens!Init, Tokens!TypeOK
  <2>3. /\ phase = "down" /\ setting \in Setting /\ probe \subseteq Awaited
        /\ starts \in 0 .. StartMax /\ edits \in 0 .. EditMax
    BY LifeAssumption DEF Init, NoSetting, Setting
  <2>4. Placed
    BY FreshPlaces DEF Init, Pool!PoolInit
  <2> QED BY <2>1, <2>2, <2>3, <2>4 DEF LifeTypes
<1>2. StartInv /\ PoolInv /\ [Next]_vars => StartInv' /\ PoolInv'
  BY NextStartInv, NextPoolInv
<1> QED BY <1>1, <1>2, InitStartInv, InitPoolInv, NextLifeTypes, NextPlaced, PTL DEF Spec

\* Types of the whole server; with them: a request is in one place, the queue or one
\* worker, until it is answered, and its record says so; none is lost or served twice.
THEOREM LifeTypesHold == Spec => []TypeOK
<1>1. LifeTypes /\ Placed => TypeOK
  BY DEF LifeTypes, Placed, TypeOK
<1> QED BY <1>1, LifeInvHolds, PTL
-----------------------------------------------------------------------------
(* What ends a worker. *)

Gone == {w \in Worker : worker[w].at = "gone"}

\* The places in the queue of the unblock()s that no worker has received yet.
Pending(q) == {i \in 1 .. Len(q) : q[i] = Pool!Stop}

\* Every worker that has ended took one signal with it, and every signal ends one
\* worker or waits in the queue for it: no panic, no answer and no body costs a
\* worker, and no signal is lost or counted twice.
WorkersEndBySignals ==
  /\ IsFiniteSet(Gone) /\ IsFiniteSet(Pending(queue))
  /\ Cardinality(Gone) + Cardinality(Pending(queue)) = stops

QueueEntry == Pool!Request \cup {Pool!Stop}

LEMMA PendingAppended ==
  ASSUME NEW q \in Seq(QueueEntry), NEW e \in QueueEntry, IsFiniteSet(Pending(q))
  PROVE  /\ IsFiniteSet(Pending(Append(q, e)))
         /\ Cardinality(Pending(Append(q, e))) =
              IF e = Pool!Stop THEN Cardinality(Pending(q)) + 1 ELSE Cardinality(Pending(q))
<1> DEFINE n == Len(q) + 1
<1>1. /\ Len(q) \in Nat /\ Len(Append(q, e)) = n /\ Append(q, e)[n] = e
      /\ \A i \in 1 .. Len(q) : Append(q, e)[i] = q[i]
  BY AppendProperties, LenProperties
<1>2. n \notin Pending(q)
  BY <1>1 DEF Pending
<1>3. CASE e = Pool!Stop
  <2>1. Pending(Append(q, e)) = Pending(q) \cup {n}
    BY <1>1, <1>3 DEF Pending
  <2> HIDE DEF n
  <2> QED BY <1>2, <1>3, <2>1, FS_AddElement
<1>4. CASE e # Pool!Stop
  <2>1. Pending(Append(q, e)) = Pending(q)
    BY <1>1, <1>4 DEF Pending
  <2> QED BY <1>4, <2>1
<1> QED BY <1>3, <1>4

LEMMA PendingReceived ==
  ASSUME NEW q \in Seq(QueueEntry), q # <<>>, IsFiniteSet(Pending(q))
  PROVE  /\ IsFiniteSet(Pending(Tail(q)))
         /\ Cardinality(Pending(q)) =
              IF Head(q) = Pool!Stop THEN Cardinality(Pending(Tail(q))) + 1
              ELSE Cardinality(Pending(Tail(q)))
<1>1. /\ Len(q) \in Nat \ {0} /\ Len(Tail(q)) = Len(q) - 1 /\ Head(q) = q[1]
      /\ \A i \in 1 .. Len(Tail(q)) : Tail(q)[i] = q[i + 1]
  BY HeadTailProperties, EmptySeq, LenProperties
<1> DEFINE later == Pending(q) \ {1}
<1>2. IsFiniteSet(later)
  BY FS_RemoveElement
<1>3. IsFiniteSet(Pending(Tail(q))) /\ Cardinality(Pending(Tail(q))) = Cardinality(later)
  <2> DEFINE back == [i \in later |-> i - 1]
  <2>1. \A i \in later : i \in 2 .. Len(q) /\ q[i] = Pool!Stop
    BY <1>1 DEF Pending
  <2>2. back \in [later -> Pending(Tail(q))]
    <3> SUFFICES ASSUME NEW i \in later PROVE i - 1 \in Pending(Tail(q))
      OBVIOUS
    <3>1. i - 1 \in 1 .. Len(Tail(q)) /\ i = (i - 1) + 1
      BY <1>1, <2>1
    <3>2. Tail(q)[i - 1] = q[i]
      BY <1>1, <3>1
    <3> QED BY <2>1, <3>1, <3>2 DEF Pending
  <2>3. \A i, j \in later : back[i] = back[j] => i = j
    BY <2>1
  <2>4. \A k \in Pending(Tail(q)) : \E i \in later : back[i] = k
    <3> SUFFICES ASSUME NEW k \in Pending(Tail(q)) PROVE \E i \in later : back[i] = k
      OBVIOUS
    <3>1. k \in 1 .. Len(Tail(q)) /\ q[k + 1] = Pool!Stop
      BY <1>1 DEF Pending
    <3>2. k + 1 \in later /\ (k + 1) - 1 = k
      BY <1>1, <3>1 DEF Pending
    <3> QED BY <3>2
  <2>5. ExistsBijection(later, Pending(Tail(q)))
    <3>1. back \in Bijection(later, Pending(Tail(q)))
      BY <2>2, <2>3, <2>4, Fun_IsBij
    <3> QED BY <3>1 DEF ExistsBijection
  <2> QED BY <1>2, <2>5, FS_Bijection
<1>4. 1 \in Pending(q) <=> Head(q) = Pool!Stop
  BY <1>1 DEF Pending
<1>5. /\ Cardinality(later) = IF 1 \in Pending(q) THEN Cardinality(Pending(q)) - 1
                              ELSE Cardinality(Pending(q))
      /\ Cardinality(Pending(q)) \in Nat
  BY FS_RemoveElement, FS_CardinalityType
<1> QED BY <1>3, <1>4, <1>5

\* Nothing that a worker does with a request ends it, a panic included.
LEMMA ServingEndsNobody ==
  ASSUME PoolInv, NEW w \in Worker,
         Pool!Check(w) \/ Pool!ReadBody(w) \/ Pool!DispatchEnds(w) \/ Pool!Panic(w)
  PROVE  Gone' = Gone /\ UNCHANGED <<queue, stops>>
<1>1. worker[w].at # "gone" /\ UNCHANGED <<queue, stops>>
  BY DEF Pool!Check, Pool!ReadBody, Pool!DispatchEnds, Pool!Panic
<1>2. \/ Pool!WaitAgain(w)
      \/ worker' = [worker EXCEPT ![w].at = "reading"]
      \/ worker' = [worker EXCEPT ![w].at = "dispatching"]
  <2>1. CASE Pool!Check(w)
    BY <2>1 DEF Pool!Check
  <2>2. CASE Pool!ReadBody(w)
    <3>1. CASE Pool!BodyStatus(request[worker[w].for].ask, request[worker[w].for].model)
                 # Pool!Continue
      BY <2>2, <3>1 DEF Pool!ReadBody
    <3>2. CASE Pool!BodyStatus(request[worker[w].for].ask, request[worker[w].for].model)
                 = Pool!Continue
      <4>1. PICK legs \in Pool!Walks(request[worker[w].for].model, Config) :
              IF legs = Pool!NoLegs THEN Pool!WaitAgain(w)
              ELSE worker' = [worker EXCEPT ![w].at = "dispatching"]
        BY <2>2, <3>2 DEF Pool!ReadBody
      <4> QED BY <4>1
    <3> QED BY <3>1, <3>2
  <2>3. CASE Pool!DispatchEnds(w) \/ Pool!Panic(w)
    BY <2>3 DEF Pool!DispatchEnds, Pool!Panic
  <2> QED BY <2>1, <2>2, <2>3
<1>3. /\ worker'[w].at # "gone"
      /\ \A v \in Worker : v # w => worker'[v] = worker[v]
  BY <1>2 DEF PoolInv, PoolTypes, Pool!WaitAgain
<1> QED BY <1>1, <1>3 DEF Gone

LEMMA ReceiveEndsOne ==
  ASSUME PoolInv, WorkersEndBySignals, NEW w \in Worker, Pool!Receive(w)
  PROVE  WorkersEndBySignals'
<1>1. /\ queue \in Seq(QueueEntry) /\ queue # <<>> /\ queue' = Tail(queue) /\ stops' = stops
      /\ worker[w].at = "waiting"
  BY DEF Pool!Receive, PoolInv, PoolTypes, QueueEntry
<1>2. /\ IsFiniteSet(Pending(queue'))
      /\ Cardinality(Pending(queue)) =
           IF Head(queue) = Pool!Stop THEN Cardinality(Pending(queue')) + 1
           ELSE Cardinality(Pending(queue'))
  BY <1>1, PendingReceived DEF WorkersEndBySignals
<1>3. Cardinality(Gone) \in Nat /\ Cardinality(Pending(queue')) \in Nat
  BY <1>2, FS_CardinalityType DEF WorkersEndBySignals
<1>4. CASE Head(queue) = Pool!Stop
  <2>1. /\ worker'[w].at = "gone"
        /\ \A v \in Worker : v # w => worker'[v].at = worker[v].at
    BY <1>4 DEF Pool!Receive, PoolInv, PoolTypes
  <2>2. Gone' = Gone \cup {w} /\ w \notin Gone
    BY <1>1, <2>1 DEF Gone
  <2>3. IsFiniteSet(Gone') /\ Cardinality(Gone') = Cardinality(Gone) + 1
    BY <2>2, FS_AddElement DEF WorkersEndBySignals
  <2> QED BY <1>1, <1>2, <1>3, <1>4, <2>3 DEF WorkersEndBySignals
<1>5. CASE Head(queue) # Pool!Stop
  <2>1. /\ worker'[w].at = "checking"
        /\ \A v \in Worker : v # w => worker'[v].at = worker[v].at
    BY <1>5 DEF Pool!Receive, PoolInv, PoolTypes
  <2>2. Gone' = Gone
    BY <1>1, <2>1 DEF Gone
  <2> QED BY <1>1, <1>2, <1>5, <2>2 DEF WorkersEndBySignals
<1> QED BY <1>4, <1>5

\* A process that has just started has all its workers and no signal.
LEMMA FreshWorkers ==
  queue = <<>> /\ worker = Pool!Idle /\ stops = 0 => WorkersEndBySignals
<1> SUFFICES ASSUME queue = <<>>, worker = Pool!Idle, stops = 0 PROVE WorkersEndBySignals
  OBVIOUS
<1>1. Gone = {}
  BY DEF Gone, Pool!Idle
<1>2. Pending(queue) = {}
  BY EmptySeq DEF Pending
<1> QED BY <1>1, <1>2, FS_EmptySet DEF WorkersEndBySignals

LEMMA NextWorkersEnd ==
  PoolInv /\ TypeOK /\ WorkersEndBySignals /\ [Next]_vars => WorkersEndBySignals'
<1> SUFFICES ASSUME PoolInv, TypeOK, WorkersEndBySignals, [Next]_vars
             PROVE  WorkersEndBySignals'
  OBVIOUS
<1>0. queue \in Seq(QueueEntry)
  BY DEF PoolInv, PoolTypes, QueueEntry
<1>1. CASE Start \/ Crash
  <2>1. (queue = <<>> /\ worker = Pool!Idle /\ stops = 0)'
    BY <1>1 DEF Start, Crash, Pool!Fresh, Pool!Idle
  <2> QED BY <2>1, FreshWorkers, PTL
<1>2. CASE \E w \in Worker : Work(w) \/ Panic(w)
  <2>1. PICK w \in Worker : Pool!Work(w) \/ Pool!Panic(w)
    BY <1>2 DEF Work, Panic
  <2>2. CASE Pool!Receive(w)
    BY <2>2, ReceiveEndsOne
  <2>3. CASE ~Pool!Receive(w)
    <3>1. Gone' = Gone /\ queue' = queue /\ stops' = stops
      BY <2>1, <2>3, ServingEndsNobody DEF Pool!Work
    <3> QED BY <3>1 DEF WorkersEndBySignals
  <2> QED BY <2>2, <2>3
<1>3. CASE ClientSends
  <2>1. PICK r \in Pool!Request : queue' = Append(queue, r) /\ UNCHANGED <<worker, stops>>
    BY <1>3 DEF ClientSends, Pool!Arrive
  <2>2. r # Pool!Stop /\ r \in QueueEntry
    BY LifeAssumption DEF Pool!Stop, QueueEntry
  <2>3. /\ IsFiniteSet(Pending(queue'))
        /\ Cardinality(Pending(queue')) = Cardinality(Pending(queue))
    BY <1>0, <2>1, <2>2, PendingAppended DEF WorkersEndBySignals
  <2>4. Gone' = Gone
    BY <2>1 DEF Gone
  <2> QED BY <2>1, <2>3, <2>4 DEF WorkersEndBySignals
<1>4. CASE SignalHandled
  <2>1. queue' = Append(queue, Pool!Stop) /\ worker' = worker /\ stops' = stops + 1
    BY <1>4 DEF SignalHandled, Pool!Signal
  <2>2. Pool!Stop \in QueueEntry
    BY DEF QueueEntry
  <2>3. /\ IsFiniteSet(Pending(queue'))
        /\ Cardinality(Pending(queue')) = Cardinality(Pending(queue)) + 1
    BY <1>0, <2>1, <2>2, PendingAppended DEF WorkersEndBySignals
  <2>4. Gone' = Gone
    BY <2>1 DEF Gone
  <2>5. Cardinality(Gone) \in Nat /\ Cardinality(Pending(queue)) \in Nat
    BY FS_CardinalityType DEF WorkersEndBySignals
  <2> QED BY <2>1, <2>3, <2>4, <2>5 DEF WorkersEndBySignals
<1>5. CASE ~(\/ Start \/ Crash \/ (\E w \in Worker : Work(w) \/ Panic(w))
             \/ ClientSends \/ SignalHandled)
  <2>1. UNCHANGED poolVars
    BY <1>5 DEF Next, Main, CaptureStep, ShellStep, ReaderStep, Capturing, Captured,
      ResolveStep, Resolved, ProbeStarts, Unprobed, Probed, ProbeGoesOn, ResolveFails,
      Refused, Bind, BindFails, ServeReturns, Exit, UserEdits, ClientReadsFile, vars
  <2> QED BY <2>1 DEF WorkersEndBySignals, Gone, poolVars
<1> QED BY <1>1, <1>2, <1>3, <1>4, <1>5

\* serve ends its workers one by one: each unblock() of the signal handler ends one
\* of them, and nothing else does, over any number of starts and requests.
THEOREM OnlySignalsEndWorkers == Spec => []WorkersEndBySignals
<1>1. Init => WorkersEndBySignals
  BY FreshWorkers DEF Init, Pool!PoolInit, Pool!Idle
<1>2. PoolInv /\ TypeOK /\ WorkersEndBySignals /\ [Next]_vars => WorkersEndBySignals'
  BY NextWorkersEnd
<1> QED BY <1>1, <1>2, LifeInvHolds, LifeTypesHold, PTL DEF Spec

\* While fewer signals have come than there are workers, a worker is left to serve, and
\* serve does not return: one signal ends one worker, whatever the doc says of it.
SomeoneServes == stops < Cardinality(Worker) => \E w \in Worker : worker[w].at # "gone"

\* So the server goes on while signals are fewer than its workers (the handler
\* calls unblock() once for each signal, main.rs).
THEOREM FewSignalsLeaveAWorker == IsFiniteSet(Worker) /\ Spec => []SomeoneServes
<1>1. CASE IsFiniteSet(Worker)
  <2>1. WorkersEndBySignals => SomeoneServes
    <3> SUFFICES ASSUME WorkersEndBySignals, stops < Cardinality(Worker),
                        \A w \in Worker : worker[w].at = "gone"
                 PROVE  FALSE
      BY DEF SomeoneServes
    <3>1. Gone = Worker
      BY DEF Gone
    <3>2. Cardinality(Gone) \in Nat /\ Cardinality(Pending(queue)) \in Nat
      BY FS_CardinalityType DEF WorkersEndBySignals
    <3> QED BY <3>1, <3>2 DEF WorkersEndBySignals
  <2> QED BY <2>1, OnlySignalsEndWorkers, PTL
<1>2. CASE ~IsFiniteSet(Worker)
  BY <1>2
<1> QED BY <1>1, <1>2
-----------------------------------------------------------------------------
(* What the capture of the environment can lose. *)

\* A reader that has sent has read all there will be; before the caller spawns there
\* is none.
ReaderInv ==
  /\ reader = "sent" => shell # "running" /\ pipe = 0
  /\ capturer = "idle" => reader = "none"

\* The environment that the capture ends with is all that the shell printed, or the
\* process's, with a report unless it was asked for.  Something else, the empty
\* one, it takes only when a background process of the shell holds the pipe.
LossNeedsHolder ==
  [][capturer # "done" /\ capturer' = "done" =>
       \/ env' = Capture!Parsed(printed)
       \/ env' = "process" /\ (warned' \/ setting.source = "process")
       \/ env' = "empty" /\ held]_vars

LEMMA NextReaderInv == LifeTypes /\ ReaderInv /\ [Next]_vars => ReaderInv'
<1> SUFFICES ASSUME LifeTypes, ReaderInv, [Next]_vars PROVE ReaderInv'
  OBVIOUS
<1> USE DEF ReaderInv
<1>1. CASE ShellStep
  BY <1>1 DEF ShellStep, Capturing, Capture!Shell, Capture!ShellPrints, Capture!ShellForks,
    Capture!ShellExits, Capture!HolderExits
<1>2. CASE ReaderStep
  BY <1>2 DEF ReaderStep, Capturing, Capture!Reader, Capture!ReaderReads, Capture!ReaderSends
<1>3. CASE CaptureStep
  BY <1>3 DEF CaptureStep, Capturing, Capture!Caller, Capture!TakeProcessEnv, Capture!Spawn,
    Capture!SpawnFails, Capture!PollSeesExit, Capture!PollOverdue, Capture!Collect,
    Capture!GraceExpires, Capture!FallBack
<1>4. CASE \/ Captured \/ ProbeStarts \/ Unprobed
           \/ ResolveFails \/ Refused \/ BindFails \/ ServeReturns \/ Crash
  BY <1>4 DEF Captured, Resolved, ProbeStarts, Unprobed, ResolveFails, Refused, BindFails,
    ServeReturns, Crash, Exit, ForgetCapture, ForgetShell
<1>5. CASE UNCHANGED captureVars
  BY <1>5 DEF captureVars
<1>6. CASE ~(\/ ShellStep \/ ReaderStep \/ CaptureStep \/ Captured \/ ProbeStarts \/ Unprobed
             \/ ResolveFails \/ Refused \/ BindFails \/ ServeReturns \/ Crash)
  <2>1. UNCHANGED captureVars
    BY <1>6 DEF Next, Main, Start, ResolveStep, Probed, ProbeGoesOn, Bind, Work, Panic,
      UserEdits, ClientReadsFile, ClientSends, SignalHandled, vars
  <2> QED BY <2>1 DEF captureVars
<1> QED BY <1>1, <1>2, <1>3, <1>4, <1>5, <1>6

\* No race of the shell, its reader and the watchdog gives the server a part of what
\* the shell printed, or an environment nobody told of: the one way is a process
\* that the shell leaves behind with the pipe open, which EnvSilent shows.
THEOREM OnlyHolderLosesEnvironment == Spec => LossNeedsHolder
<1> DEFINE Whole ==
      capturer # "done" /\ capturer' = "done" =>
        \/ env' = Capture!Parsed(printed)
        \/ env' = "process" /\ (warned' \/ setting.source = "process")
        \/ env' = "empty" /\ held
<1>1. Init => ReaderInv
  BY DEF Init, Capture!Init, ReaderInv
<1>2. LifeTypes /\ ReaderInv /\ [Next]_vars => Whole
  <2> SUFFICES ASSUME LifeTypes, ReaderInv, [Next]_vars, capturer # "done", capturer' = "done"
               PROVE  Whole
    OBVIOUS
  <2>1. CaptureStep
    BY DEF Next, Main, Start, Crash, Captured, ResolveStep, Resolved, ProbeStarts, Unprobed,
      Probed, ProbeGoesOn, ResolveFails, Refused, Bind, BindFails, ServeReturns, Exit,
      ForgetCapture, Work, Panic, UserEdits, ClientReadsFile, ClientSends, SignalHandled,
      ShellStep, ReaderStep, Capturing, Capture!Shell, Capture!ShellPrints,
      Capture!ShellForks, Capture!ShellExits, Capture!HolderExits, Capture!Reader,
      Capture!ReaderReads, Capture!ReaderSends, vars, captureVars
  <2>2. \/ Capture!TakeProcessEnv(setting.source) \/ Capture!SpawnFails(setting.source)
        \/ Capture!PollOverdue \/ Capture!Collect \/ Capture!GraceExpires
    BY <2>1 DEF CaptureStep, Capturing, Capture!Caller, Capture!Spawn, Capture!PollSeesExit
  <2>3. CASE Capture!TakeProcessEnv(setting.source)
    BY <2>3 DEF Capture!TakeProcessEnv
  <2>4. CASE Capture!SpawnFails(setting.source) \/ Capture!PollOverdue
    BY <2>4 DEF Capture!SpawnFails, Capture!PollOverdue, Capture!FallBack
  <2>5. CASE Capture!Collect
    <3>1. printed = drained
      BY <2>5 DEF Capture!Collect, ReaderInv, LifeTypes, Capture!TypeOK
    <3> QED BY <2>5, <3>1 DEF Capture!Collect
  <2>6. CASE Capture!GraceExpires
    <3>1. Capture!Parsed(0) = "empty"
      BY LifeAssumption DEF Capture!Parsed
    <3> QED BY <2>6, <3>1 DEF Capture!GraceExpires
  <2> QED BY <2>2, <2>3, <2>4, <2>5, <2>6
<1> QED BY <1>1, <1>2, LifeInvHolds, NextReaderInv, PTL DEF Spec, LossNeedsHolder
=============================================================================
