-------------------------- MODULE MCMigrationRunner --------------------------
(***************************************************************************)
(* Small instances of MigrationRunner.                                     *)
(***************************************************************************)
EXTENDS MigrationRunner, TLC

CONSTANTS p, q, blank, broken, t, u

Symmetry == Permutations(Processes)

=============================================================================
