------------------------------ MODULE MCJSON ------------------------------
(***************************************************************************)
(* The JSON store on small instances.                                        *)
(***************************************************************************)
EXTENDS JSONStore, TLC

\* Callers are interchangeable, and so are mutations.
Symmetry == Permutations(Callers) \cup Permutations(Mutations)
=============================================================================
