------------------------------ MODULE MCPtyRun ------------------------------
(***************************************************************************)
(* A small instance of PtyRun.                                             *)
(***************************************************************************)
EXTENDS PtyRun
=============================================================================
