---------------------------- MODULE RoutingProofs ----------------------------
(***************************************************************************)
(* What config::validate guarantees at run time: every walk that a request *)
(* may start under a valid configuration has a leg, and each of its legs   *)
(* is a configured backend.  Both Err branches of resolve are dead.        *)
(***************************************************************************)
EXTENDS Routing, TLAPS

\* The shape the parser gives a configuration (serde).
Parsed(cfg) ==
  /\ \A name \in DOMAIN cfg.chains : \E S : cfg.chains[name] \in Seq(S)

\* A chain that ChainValid accepts is a walk over configured backends.
LEMMA ChainIsWalk ==
  ASSUME NEW cfg, NEW order, \E S : order \in Seq(S), ChainValid(order, cfg)
  PROVE  order \in Seq(cfg.backends) \ {<<>>}
<1>1. PICK S : order \in Seq(S)
  OBVIOUS
<1>2. Len(order) \in Nat /\ DOMAIN order = 1 .. Len(order) /\ order = [i \in 1 .. Len(order) |-> order[i]]
  BY <1>1
<1>3. \A i \in 1 .. Len(order) : order[i] \in cfg.backends
  BY <1>2 DEF ChainValid
<1>4. order \in [1 .. Len(order) -> cfg.backends]
  BY <1>2, <1>3
<1>5. order \in Seq(cfg.backends)
  BY <1>2, <1>4
<1> QED BY <1>5 DEF ChainValid

\* A backend named as the model is a walk of one leg.
LEMMA SingletonWalk ==
  ASSUME NEW S, NEW x \in S
  PROVE  <<x>> \in Seq(S) /\ <<x>> # <<>>
<1>1. <<x>> \in Seq(S)
  OBVIOUS
<1>2. Len(<<x>>) = 1 /\ Len(<<>>) = 0
  OBVIOUS
<1> QED BY <1>1, <1>2

\* A target of a valid configuration names a walk.
LEMMA TargetNamesWalk ==
  ASSUME NEW cfg, Parsed(cfg), Valid(cfg), NEW name \in Targets(cfg)
  PROVE  Named(name, cfg) \in Seq(cfg.backends) \ {<<>>}
<1>1. CASE name \in DOMAIN cfg.chains
  <2>1. Named(name, cfg) = cfg.chains[name]
    BY <1>1 DEF Named
  <2>2. ChainValid(cfg.chains[name], cfg) /\ \E S : cfg.chains[name] \in Seq(S)
    BY <1>1 DEF Valid, Parsed
  <2> QED BY <2>1, <2>2, ChainIsWalk
<1>2. CASE name \notin DOMAIN cfg.chains
  <2>1. name \in cfg.backends /\ Named(name, cfg) = <<name>>
    BY <1>2 DEF Targets, Named
  <2>2. <<name>> \in Seq(cfg.backends)
    BY <2>1, SingletonWalk
  <2>3. <<name>> # <<>>
    BY <2>1, SingletonWalk
  <2> QED BY <2>1, <2>2, <2>3
<1> QED BY <1>1, <1>2

\* resolve never fails on a valid configuration, whatever the model.
LEMMA ResolveWalks ==
  ASSUME NEW cfg, Parsed(cfg), Valid(cfg), NEW model
  PROVE  Resolve(model, cfg) \in Seq(cfg.backends) \ {<<>>}
<1>1. CASE model \in Targets(cfg)
  BY <1>1, TargetNamesWalk DEF Resolve
<1>2. CASE model \notin Targets(cfg)
  BY <1>2, TargetNamesWalk DEF Resolve, Valid
<1> QED BY <1>1, <1>2

\* The walks of handle_chat, direct or by a router's class: never empty, and over
\* configured backends only.
THEOREM ValidWalks ==
  ASSUME NEW cfg, Parsed(cfg), Valid(cfg), NEW model
  PROVE  Walks(model, cfg) \subseteq Seq(cfg.backends) \ {<<>>}
BY ResolveWalks DEF Walks

\* Whatever class a router's classifier names, or the fallback when it names
\* none, its route leads to a backend or a chain: the default chain never
\* stands in for a routed class.
THEOREM RoutesLeadSomewhere ==
  ASSUME NEW cfg, Valid(cfg), NEW model \in DOMAIN cfg.routers,
         NEW class \in DOMAIN cfg.routers[model].routes \cup {cfg.routers[model].fallback}
  PROVE  /\ class \in DOMAIN cfg.routers[model].routes
         /\ cfg.routers[model].routes[class] \in Targets(cfg)
BY DEF Valid, RouterValid
=============================================================================
