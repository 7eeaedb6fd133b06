------------------------------- MODULE MCKernel -------------------------------
(***************************************************************************)
(* Instances of the kernel for model checking.                             *)
(***************************************************************************)
EXTENDS ProcessKernel

CONSTANTS a, b, c

Two   == {a, b}
Three == {a, b, c}
Boot2 == <<a, b>>
Boot3 == <<a, b, c>>
=============================================================================
