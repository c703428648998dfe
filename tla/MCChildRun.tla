----------------------------- MODULE MCChildRun -----------------------------
(***************************************************************************)
(* Small instances of ChildRun: every program of up to MaxSteps steps.     *)
(***************************************************************************)
EXTENDS ChildRun, SequencesExt

CONSTANT MaxSteps

ShortPrograms == BoundedSeq({"read", "out", "err"}, MaxSteps)
=============================================================================
