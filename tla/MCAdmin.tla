------------------------------- MODULE MCAdmin -------------------------------
(***************************************************************************)
(* AdminServer for TLC: clients and passwords are interchangeable.         *)
(***************************************************************************)
EXTENDS AdminServer, TLC

Symmetry == Permutations(Clients) \cup Permutations(Passwords)
=============================================================================
