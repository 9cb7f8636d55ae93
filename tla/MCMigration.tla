----------------------------- MODULE MCMigration -----------------------------
(***************************************************************************)
(* Migration for TLC.                                                      *)
(***************************************************************************)
EXTENDS Migration
=============================================================================
