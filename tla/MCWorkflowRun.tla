--------------------------- MODULE MCWorkflowRun ---------------------------
(* Instances of WorkflowRun for TLC. *)
EXTENDS WorkflowRun, TLC

\* Requests are interchangeable.  (Not used with liveness properties.)
InvocationSymmetry == Permutations(Invocation)

\* The second node of the chain may fail softly, as collect-04 and collect-05 do.
SecondIsSoft == {2}
=============================================================================
