---------------------------- MODULE MCMigrations ----------------------------
(* Values for TLC: the repository's two files.                             *)
EXTENDS Migrations, TLC

Symmetry == Permutations(Runners)
=============================================================================
