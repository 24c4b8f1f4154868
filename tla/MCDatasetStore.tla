---------------------------- MODULE MCDatasetStore ----------------------------
(* Instances of DatasetStore for TLC. *)
EXTENDS DatasetStore, TLC

CONSTANTS p1, p2, u1, u2, u3, old, new

\* Two users of one process, whose hashes agree, and one of another.
TwoHomes == (u1 :> p1) @@ (u2 :> p1) @@ (u3 :> p2)
SameHome == Permutations({u1, u2})

\* A list of one record and a list of two.
SomeBatches == {<<old>>, <<old, new>>}
=============================================================================
