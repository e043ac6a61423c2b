----------------------------- MODULE MCMigrations -----------------------------
(* Migrations with a few runs of any command, and their mutants.             *)
EXTENDS Migrations
=============================================================================
