-------------------------- MODULE MCPostgresServer --------------------------
(***************************************************************************)
(* PostgresServer for TLC: processes are interchangeable model values.     *)
(***************************************************************************)
EXTENDS PostgresServer, TLC

Symmetry == Permutations(Process)

=============================================================================
