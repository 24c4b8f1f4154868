------------------------------ MODULE RunState ------------------------------
(***************************************************************************)
(* The contents of one run's state.json and the functions StateRepository  *)
(* (workflow/runtime/persistence.py) applies to it.  Every mark_* method   *)
(* of the repository is a load, one of these functions, and a save; the    *)
(* load, the save and the database sync around it are steps of             *)
(* WorkflowRun.                                                            *)
(*                                                                         *)
(* A flow is a chain of nodes 1..NodeCount, which is the shape of all four *)
(* registered graphs.  errors is kept as "is the list non-empty", because  *)
(* that is all the code ever tests of it; messages, outputs, artifacts and *)
(* timestamps are data no decision depends on and are left out, and        *)
(* finished_at is kept as "has it been set".                               *)
(***************************************************************************)
EXTENDS Naturals

CONSTANT NodeCount      \* length of the flow's chain of nodes

ASSUME NodeCountAssumption == NodeCount \in Nat \ {0}

Node == 1..NodeCount

\* The empty current_node; as a key of node_statuses, the entry "unknown"
\* that _execute uses when no node is current.
NoNode == 0

Key == Node \cup {NoNode}

RunStatus == {"pending", "running", "soft_failed", "blocked", "failed", "completed"}

NodeStatus == {"none", "running", "soft_failed", "blocked", "failed", "completed"}

\* What a node's function hands back to the runtime: a normal patch, a patch
\* of soft_fail_state, or a patch of block_state.
Patch == {"ok", "soft", "block"}

StateFile ==
  [status          : RunStatus,
   current_node    : Key,
   completed_nodes : SUBSET Node,
   node_statuses   : [Key -> NodeStatus],
   errors          : BOOLEAN,
   resume_count    : Nat,
   finished_at     : BOOLEAN]

\* The values of the LangGraph channels a node can see.
Channels == [status : {"running", "soft_failed", "blocked"}, errors : BOOLEAN]

base_state ==
  [status          |-> "pending",
   current_node    |-> NoNode,
   completed_nodes |-> {},
   node_statuses   |-> [k \in Key |-> "none"],
   errors          |-> FALSE,
   resume_count    |-> 0,
   finished_at     |-> FALSE]

-----------------------------------------------------------------------------

\* Definitions named Mutant... are plausible bugs, which no specification uses:
\* each takes the place of a definition below to see the property that notices.
MutantStartClearsErrors(s) == [s EXCEPT !.status = "running", !.errors = FALSE]

mark_run_started(s) == [s EXCEPT !.status = "running"]

MutantResumePending(s) == s.status \in {"failed", "blocked", "pending"}
MutantResumeAny(s) == s.status # "pending"

Resumable(s) == s.status \in {"failed", "blocked"}

MutantResumeKeepsStatus(s) ==
  [s EXCEPT !.current_node = NoNode, !.errors = FALSE, !.resume_count = @ + 1]
MutantResumeForgetsNodes(s) ==
  [s EXCEPT !.status = "running", !.errors = FALSE, !.completed_nodes = {}]

\* Node statuses other than completed and soft_failed are dropped.
prepare_resume(s) ==
  [s EXCEPT !.status        = "running",
            !.current_node  = NoNode,
            !.errors        = FALSE,
            !.node_statuses = [k \in Key |-> IF @[k] \in {"completed", "soft_failed"}
                                               THEN @[k] ELSE "none"],
            !.resume_count  = @ + 1]

MutantSkipFromSecond(s, n) == n \in s.completed_nodes /\ s.resume_count > 1

should_skip_node(s, n) ==
  /\ s.status = "running"
  /\ n \in s.completed_nodes
  /\ s.resume_count > 0

mark_node_skipped(s, n) ==
  [s EXCEPT !.node_statuses[n] = "completed", !.current_node = NoNode]

mark_node_started(s, n) ==
  [s EXCEPT !.node_statuses[n] = "running",
            !.status           = "running",
            !.current_node     = n]

\* The first of the two saves of mark_node_finished: update(result_patch).
merge_state(s, patch) ==
  CASE patch = "ok"    -> s
    [] patch = "soft"  -> [s EXCEPT !.status = "soft_failed"]
    [] patch = "block" -> [s EXCEPT !.status = "blocked", !.errors = TRUE]

FinishedNodeStatus(s, patch) ==
  CASE patch = "soft"              -> "soft_failed"
    [] patch # "soft" /\ s.errors  -> "blocked"
    [] patch # "soft" /\ ~s.errors -> "completed"

\* The second save of mark_node_finished, computed from the merged state in
\* memory.
mark_node_finished(s, n, patch) ==
  LET st == FinishedNodeStatus(s, patch)
  IN  [s EXCEPT !.node_statuses[n] = st,
                !.completed_nodes  = IF st = "completed" THEN @ \cup {n} ELSE @,
                !.current_node     = NoNode,
                !.status           = IF st = "blocked" THEN "blocked" ELSE "running"]

mark_node_failed(s, n) ==
  [s EXCEPT !.errors           = TRUE,
            !.node_statuses[n] = "failed",
            !.current_node     = NoNode,
            !.status           = "failed"]

\* The final channel values overlay the file: errors is replaced, and with
\* errors left the channel's own status is what is written.
mark_run_finished(s, channels) ==
  [s EXCEPT !.errors       = channels.errors,
            !.status       = IF channels.errors THEN channels.status ELSE "completed",
            !.current_node = NoNode,
            !.finished_at  = TRUE]

-----------------------------------------------------------------------------

Terminal(s) == s.status \in {"completed", "failed", "blocked"}

\* The columns of workflow_runs that _sync_run_metadata derives from the state.
\* completed_node_count is kept as the set it counts.
RunRow(s) ==
  [status          |-> s.status,
   current_node    |-> s.current_node,
   completed_nodes |-> s.completed_nodes,
   errors          |-> s.errors,
   resume_count    |-> s.resume_count,
   finished_at     |-> s.finished_at \/ Terminal(s)]

RunRows ==
  [status          : RunStatus,
   current_node    : Key,
   completed_nodes : SUBSET Node,
   errors          : BOOLEAN,
   resume_count    : Nat,
   finished_at     : BOOLEAN]

=============================================================================
