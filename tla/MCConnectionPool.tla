--------------------------- MODULE MCConnectionPool ---------------------------
(* Instances of ConnectionPool for TLC. *)
EXTENDS ConnectionPool, TLC

\* Calls are interchangeable, and so are connections.
PoolSymmetry == Permutations(Call) \cup Permutations(Connection)
=============================================================================
