----------------------------- MODULE MCHttpCall -----------------------------
(***************************************************************************)
(* A small instance of HttpCall.                                           *)
(***************************************************************************)
EXTENDS HttpCall
=============================================================================
