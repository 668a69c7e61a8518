----------------------------- MODULE MCMigrations -----------------------------
(* Two processes, two migrations, up to three database files at the path. *)
EXTENDS Migrations, TLC

Symmetry == Permutations(Openers)
===============================================================================
