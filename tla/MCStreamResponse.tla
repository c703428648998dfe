-------------------------- MODULE MCStreamResponse --------------------------
(***************************************************************************)
(* A small instance of StreamResponse.                                     *)
(***************************************************************************)
EXTENDS StreamResponse
=============================================================================
