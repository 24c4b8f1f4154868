---------------------------- MODULE MCScheduler ----------------------------
(* Instances of Scheduler for TLC. *)
EXTENDS Scheduler, TLC

\* Not used with liveness properties.
Interchangeable == Permutations(Process) \cup Permutations(Schedule)

\* Expressions that fire at every second, and at every third, instant ...
Often == {f \in Instant : f % 2 = 0}
Rarely == {f \in Instant : f % 3 = 0}
Regular == {Often, Rarely}
JustOften == {Often}

\* ... and one like "0 0 29 2 *", whose next instant may be out of reach.
Once == {{2}}
Mixed == {Often, {2}}
=============================================================================
