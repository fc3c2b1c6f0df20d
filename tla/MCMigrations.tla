---------------------------- MODULE MCMigrations ----------------------------
(* The four migration files of the repository: 001 and 003 are repeatable. *)
EXTENDS Migrations, TLC

RepeatableFiles == {1, 3}
Symmetry == Permutations(Replicas)
=============================================================================
