---------------------------- MODULE MCServerPool ----------------------------
(***************************************************************************)
(* A small instance of ServerPool: two workers, one chain of one backend.  *)
(***************************************************************************)
EXTENDS ServerPool

OneChain == [chains |-> [fallback |-> <<"cli">>], backends |-> {"cli"},
             routers |-> [none \in {} |-> 0], defaultChain |-> "fallback"]

Chat == [method |-> "POST", path |-> "chat", origin |-> "none", body |-> "fine"]
OnlyChat == {Chat}
=============================================================================
