------------------------- MODULE MCPostgresRepository -------------------------
(* A small instance of PostgresRepository for TLC. *)
EXTENDS PostgresRepository, TLC

Interchangeable == Permutations(Callers)

=============================================================================
