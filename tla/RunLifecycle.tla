---------------------------- MODULE RunLifecycle ----------------------------
(***************************************************************************)
(* What a run promises its clients, whatever the workers, the state file   *)
(* and the checkpoints do: a run is executing or at rest; progress is only *)
(* added, and only while executing; a completed run stays as it is; only a *)
(* failed or blocked run is taken up again; and a completed run has done   *)
(* every node that is not allowed to fail softly.                          *)
(* (README.md and api.md on runs and resume; WorkflowRun implements it.)   *)
(***************************************************************************)
CONSTANTS Node, SoftNodes

VARIABLES phase, done

vars == <<phase, done>>

Rest == {"completed", "failed", "blocked"}

\* "stuck" is a run that a crash or a failed sync left without a final status.
Phase == Rest \cup {"absent", "executing", "stuck"}

Init == phase = "absent" /\ done = {}

Start == phase = "absent" /\ phase' = "executing" /\ UNCHANGED done

Resume == phase \in {"failed", "blocked"} /\ phase' = "executing" /\ UNCHANGED done

Record ==
  /\ phase = "executing"
  /\ \E n \in Node \ done : done' = done \cup {n}
  /\ UNCHANGED phase

Settle ==
  /\ phase = "executing"
  /\ phase' \in Rest
  /\ phase' = "completed" => Node \ done \subseteq SoftNodes
  /\ UNCHANGED done

\* The process dies, or a request dies before it saved anything.
Abandon ==
  /\ phase = "executing"
  /\ phase' \in {"absent", "stuck"}
  /\ phase' = "absent" => done = {}
  /\ UNCHANGED done

Next == Start \/ Resume \/ Record \/ Settle \/ Abandon

\* An execution does not go on for ever.
Spec == Init /\ [][Next]_vars /\ WF_vars(Settle \/ Abandon)

=============================================================================
