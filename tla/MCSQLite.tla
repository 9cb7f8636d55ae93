------------------------------ MODULE MCSQLite ------------------------------
(***************************************************************************)
(* The SQLite store on small instances.                                        *)
(***************************************************************************)
EXTENDS SQLiteStore, TLC

\* Callers are interchangeable, and so are mutations.
Symmetry == Permutations(Callers) \cup Permutations(Mutations)
=============================================================================
