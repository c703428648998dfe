--------------------------- MODULE MCChainDispatch ---------------------------
(***************************************************************************)
(* Small instances of ChainDispatch.                                       *)
(***************************************************************************)
EXTENDS ChainDispatch, TLC

CONSTANTS w1, w2, cli, api

Threads == Permutations(Walker)

\* One chain: a capped child process, then an HTTP backend behind it.
CliThenApi == <<cli, api>>
FallbackPair == {CliThenApi}
OnlyCli == {cli}
OnlyApi == {api}
Nobody == {}
Everybody == {cli, api}
CapOne == [b \in Capped |-> 1]
EveryOne == [b \in Backend |-> 1]
=============================================================================
