------------------------------- MODULE Routing -------------------------------
(***************************************************************************)
(* What config::validate accepts (config.rs), and the backends that the    *)
(* model of a request leads to (router.rs and handle_chat).  A parsed      *)
(* configuration is a record: chains gives each chain its order, routers   *)
(* each router its classifier, its routes (class to target) and its        *)
(* fallback class, defaultChain is server.default_chain.                   *)
(***************************************************************************)
EXTENDS Naturals, Sequences

\* The names a model, a route or default_chain may lead to.
Targets(cfg) == DOMAIN cfg.chains \cup cfg.backends

ChainValid(order, cfg) ==
  /\ order # <<>>
  /\ \A i \in DOMAIN order : order[i] \in cfg.backends

RouterValid(name, cfg) ==
  LET router == cfg.routers[name] IN
  /\ name \notin Targets(cfg)
  /\ router.classifier \in cfg.backends
  /\ DOMAIN router.routes # {}
  /\ \A class \in DOMAIN router.routes : router.routes[class] \in Targets(cfg)
  /\ router.fallback \in DOMAIN router.routes

\* validate, but for the check that the listen address resolves.
Valid(cfg) ==
  /\ \A name \in DOMAIN cfg.chains : ChainValid(cfg.chains[name], cfg)
  /\ cfg.defaultChain \in Targets(cfg)
  /\ \A name \in DOMAIN cfg.routers : RouterValid(name, cfg)

NoLegs == <<>> \* the Err of resolve

\* A chain shadows a backend of its name; any other model is the default chain.
Named(name, cfg) ==
  IF name \in DOMAIN cfg.chains THEN cfg.chains[name]
  ELSE IF name \in cfg.backends THEN <<name>>
  ELSE NoLegs

Resolve(model, cfg) ==
  IF model \in Targets(cfg) THEN Named(model, cfg) ELSE Named(cfg.defaultChain, cfg)

\* U-3: a model that is neither router, chain nor backend.
Unknown(model, cfg) == model \notin DOMAIN cfg.routers /\ model \notin Targets(cfg)

\* The walks handle_chat may start for a model: a router's depends on the class
\* that its classifier, or the fallback, names.
Walks(model, cfg) ==
  IF model \in DOMAIN cfg.routers
  THEN LET routes == cfg.routers[model].routes
       IN  {Resolve(routes[class], cfg) : class \in DOMAIN routes}
  ELSE {Resolve(model, cfg)}
=============================================================================
