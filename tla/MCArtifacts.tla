----------------------------- MODULE MCArtifacts -----------------------------
(* An instance of Artifacts for TLC. *)
EXTENDS Artifacts, TLC

CONSTANTS c1, c2, p1, p2

\* The second has a prompt twice.
Answers ==
  {[cover |-> p1, gallery |-> <<p2, p1>>], [cover |-> p2, gallery |-> <<p2>>]}

Interchangeable == Permutations({c1, c2})
=============================================================================
