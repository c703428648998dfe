---------------------------- MODULE MCServerLife ----------------------------
(***************************************************************************)
(* A small instance of ServerLife.                                         *)
(***************************************************************************)
EXTENDS ServerLife

\* A router and a chain, and a model that nobody defines.
Routed == [chains |-> [fallback |-> <<"cli">>], backends |-> {"cli"},
           routers |-> [auto |-> [classifier |-> "cli", routes |-> [easy |-> "fallback"],
                                  fallback |-> "easy"]],
           defaultChain |-> "fallback"]
Names == {"auto"}

Ask(method, path, origin, body) ==
  [method |-> method, path |-> path, origin |-> origin, body |-> body]

SomeKinds == {Ask("POST", "chat", "listed", "fine"), Ask("POST", "chat", "none", "huge")}

\* A server that faces a network: without a token, with the file's and a
\* tmuxlet backend, and with the variable's out of the login shell's environment.
ThreeSettings ==
  {[auth |-> "off", remote |-> TRUE, allow |-> FALSE, source |-> "process",
    tmuxlet |-> FALSE],
   [auth |-> "file", remote |-> TRUE, allow |-> FALSE, source |-> "process",
    tmuxlet |-> TRUE],
   [auth |-> "env", remote |-> TRUE, allow |-> FALSE, source |-> "shell",
    tmuxlet |-> FALSE]}
=============================================================================
