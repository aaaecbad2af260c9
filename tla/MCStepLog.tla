----------------------------- MODULE MCStepLog -----------------------------
(***************************************************************************)
(* StepLog for TLC: three steps of the driver, the last one with two log   *)
(* steps, as the debug facilities, and two companion tools.                *)
(***************************************************************************)
EXTENDS StepLog

ThreeSteps == <<{"Installing kernel headers"}, {"Installing C library"},
                {"Installing dmalloc", "Installing strace"}>>
=============================================================================
