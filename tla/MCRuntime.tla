------------------------------ MODULE MCRuntime ------------------------------
(***************************************************************************)
(* The policy runtime on small instances.                                  *)
(***************************************************************************)
EXTENDS PolicyRuntime
=============================================================================
