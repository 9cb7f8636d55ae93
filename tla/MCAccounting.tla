---------------------------- MODULE MCAccounting ----------------------------
(***************************************************************************)
(* Accounting on small instances: seconds stand for the minutes of the     *)
(* real constants and a day lasts a few of them, so that a run crosses     *)
(* midnight, the idle timeout and the budget.                              *)
(***************************************************************************)
EXTENDS Accounting
=============================================================================
