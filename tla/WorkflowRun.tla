---------------------------- MODULE WorkflowRun ----------------------------
(***************************************************************************)
(* One workflow run - one directory var/runs/<tenant>/<flow>/<batch_id> -  *)
(* and the invocations that work on it: workflow/runtime/engine.py and     *)
(* persistence.py as driven by POST /flows/{flow_id}/runs, by              *)
(* POST /flows/{flow_id}/runs/{batch_id}/resume and by the scheduler.      *)
(*                                                                         *)
(* An invocation is a request and the worker thread it starts.  It         *)
(* advances in the steps between which the code lets others in: reading    *)
(* state.json, truncating it, writing it, upserting the workflow_runs row, *)
(* running a node's body, and LangGraph storing a checkpoint.  state.json  *)
(* is written in place (Path.write_text), so a reader - or a crash -       *)
(* between the truncation and the write sees a file that does not parse,   *)
(* for which load() answers base_state().                                  *)
(*                                                                         *)
(* Bounds: each member of Invocation is one request, so the set bounds the *)
(* requests; MaxCrashes bounds process crashes and MaxFaults failed        *)
(* database syncs.                                                         *)
(***************************************************************************)
EXTENDS RunState

CONSTANTS
  Invocation,   \* the requests made on this run, each served once
  SoftNodes,    \* nodes that use soft_fail_state
  Overlaps,     \* may a client send a request while another is being worked on?
  Reposts,      \* may a client POST the same batch_id again?
  MaxCrashes,
  MaxFaults,
  Absent,       \* no state.json, or no workflow_runs row
  Torn          \* a state.json that does not parse

ASSUME EnvironmentAssumption ==
  /\ SoftNodes \subseteq Node
  /\ Overlaps \in BOOLEAN
  /\ Reposts \in BOOLEAN
  /\ MaxCrashes \in Nat
  /\ MaxFaults \in Nat

ASSUME SentinelAssumption ==
  /\ Absent # Torn
  /\ Absent \notin StateFile
  /\ Torn \notin StateFile
  /\ Absent \notin RunRows

VARIABLES
  file,         \* state.json
  row,          \* the run's row of workflow_runs
  ckpt,         \* is the errors channel of the stored checkpoint non-empty?
  pc,           \* pc[i]: where invocation i is
  op,           \* op[i]: the repository method it is in
  node,         \* node[i]: the node it is at
  buf,          \* buf[i]: the state it holds in memory
  channels,     \* channels[i]: its LangGraph channel values
  patch,        \* patch[i]: what its node last returned
  recorded,     \* history: nodes ever saved in completed_nodes
  ran,          \* history: nodes whose body ran to an ok or soft-failed end
  troubled,     \* history: has a node blocked or raised, or a sync raised?
  lost,         \* history: what a POST that met a torn state.json started without
  crashes,
  faults

local == <<pc, op, node, buf, channels, patch>>
vars  == <<file, row, ckpt, local, recorded, ran, troubled, lost, crashes, faults>>

PC == {"idle", "load", "open", "write", "sync", "launch", "check", "body",
       "return", "who", "done"}

Op == {"none", "run_started", "prepare_resume", "node_skipped", "node_started",
       "node_patch", "node_finished", "node_failed", "graph_failed", "run_finished"}

NoChannels == [status |-> "running", errors |-> FALSE]

TypeOK ==
  /\ file \in StateFile \cup {Absent, Torn}
  /\ row \in RunRows \cup {Absent}
  /\ ckpt \in BOOLEAN
  /\ pc \in [Invocation -> PC]
  /\ op \in [Invocation -> Op]
  /\ node \in [Invocation -> Key]
  /\ buf \in [Invocation -> StateFile]
  /\ channels \in [Invocation -> Channels]
  /\ patch \in [Invocation -> Patch]
  /\ recorded \subseteq Node
  /\ ran \subseteq Node
  /\ troubled \in BOOLEAN
  /\ lost \subseteq {"progress", "errors"}
  /\ crashes \in 0..MaxCrashes
  /\ faults \in 0..MaxFaults

Init ==
  /\ file = Absent
  /\ row = Absent
  /\ ckpt = FALSE
  /\ pc = [i \in Invocation |-> "idle"]
  /\ op = [i \in Invocation |-> "none"]
  /\ node = [i \in Invocation |-> NoNode]
  /\ buf = [i \in Invocation |-> base_state]
  /\ channels = [i \in Invocation |-> NoChannels]
  /\ patch = [i \in Invocation |-> "ok"]
  /\ recorded = {}
  /\ ran = {}
  /\ troubled = FALSE
  /\ lost = {}
  /\ crashes = 0
  /\ faults = 0

-----------------------------------------------------------------------------

Live(i) == pc[i] \notin {"idle", "done"}

\* load(): a missing or unparsable file yields base_state().
load == IF file \in {Absent, Torn} THEN base_state ELSE file

Goto(i, label) == pc' = [pc EXCEPT ![i] = label]

Enter(i, method, label) ==
  /\ op' = [op EXCEPT ![i] = method]
  /\ Goto(i, label)

\* The request or worker thread of i is over; what it held is gone.
Retire(i) ==
  /\ Enter(i, "none", "done")
  /\ node' = [node EXCEPT ![i] = NoNode]
  /\ buf' = [buf EXCEPT ![i] = base_state]
  /\ channels' = [channels EXCEPT ![i] = NoChannels]
  /\ patch' = [patch EXCEPT ![i] = "ok"]

-----------------------------------------------------------------------------
(* Requests.                                                               *)

MayRequest(i) ==
  /\ pc[i] = "idle"
  /\ Overlaps \/ \A j \in Invocation : ~Live(j)

\* POST /flows/{flow_id}/runs, or a scheduler run.
RunFlow(i) ==
  /\ MayRequest(i)
  /\ \/ Reposts
     \/ file = Absent /\ \A j \in Invocation : ~Live(j)
  /\ Enter(i, "run_started", "load")
  /\ UNCHANGED <<file, row, ckpt, node, buf, channels, patch, recorded, ran, troubled, lost, crashes, faults>>

\* POST .../resume.  load_run_state answers an error for a missing or
\* unparsable file.
ResumeFlow(i) ==
  /\ MayRequest(i)
  /\ file \notin {Absent, Torn}
  /\ Enter(i, "prepare_resume", "load")
  /\ UNCHANGED <<file, row, ckpt, node, buf, channels, patch, recorded, ran, troubled, lost, crashes, faults>>

-----------------------------------------------------------------------------
(* The repository's methods: load, save, sync.                             *)

\* A POST over a torn state.json starts from base_state(), without what the file
\* said was done and without the errors it shared with the stored checkpoint,
\* which only a resume deletes.
LoadRunStarted(i) ==
  /\ pc[i] = "load" /\ op[i] = "run_started"
  /\ buf' = [buf EXCEPT ![i] = mark_run_started(load)]
  /\ lost' = lost \cup {what \in {"progress", "errors"} :
                         file = Torn /\ (what = "errors" => ckpt)}
  /\ Goto(i, "open")
  /\ UNCHANGED <<file, row, ckpt, op, node, channels, patch, recorded, ran, troubled, crashes, faults>>

\* A resume of a run in any other status than failed or blocked is refused.
RefuseResume(i) ==
  /\ pc[i] = "load" /\ op[i] = "prepare_resume"
  /\ ~Resumable(load)
  /\ Retire(i)
  /\ UNCHANGED <<file, row, ckpt, recorded, ran, troubled, lost, crashes, faults>>

\* reset_checkpoint() deletes the stored thread before the state is saved.
AcceptResume(i) ==
  /\ pc[i] = "load" /\ op[i] = "prepare_resume"
  /\ Resumable(load)
  /\ buf' = [buf EXCEPT ![i] = prepare_resume(load)]
  /\ ckpt' = FALSE
  /\ Goto(i, "open")
  /\ UNCHANGED <<file, row, op, node, channels, patch, recorded, ran, troubled, lost, crashes, faults>>

Marked(i, s) ==
  CASE op[i] = "node_skipped"  -> mark_node_skipped(s, node[i])
    [] op[i] = "node_started"  -> mark_node_started(s, node[i])
    [] op[i] = "node_patch"    -> merge_state(s, patch[i])
    [] op[i] = "node_failed"   -> mark_node_failed(s, node[i])
    [] op[i] = "graph_failed"  -> mark_node_failed(s, node[i])
    [] op[i] = "run_finished"  -> mark_run_finished(s, channels[i])

LoadForMark(i) ==
  /\ pc[i] = "load" /\ op[i] \notin {"none", "run_started", "prepare_resume", "node_finished"}
  /\ buf' = [buf EXCEPT ![i] = Marked(i, load)]
  /\ Goto(i, "open")
  /\ UNCHANGED <<file, row, ckpt, op, node, channels, patch, recorded, ran, troubled, lost, crashes, faults>>

\* write_text truncates the file ...
OpenFile(i) ==
  /\ pc[i] = "open"
  /\ file' = Torn
  /\ Goto(i, "write")
  /\ UNCHANGED <<row, ckpt, op, node, buf, channels, patch, recorded, ran, troubled, lost, crashes, faults>>

\* ... and then writes it.
WriteFile(i) ==
  /\ pc[i] = "write"
  /\ file' = buf[i]
  /\ recorded' = recorded \cup buf[i].completed_nodes
  /\ Goto(i, "sync")
  /\ UNCHANGED <<row, ckpt, op, node, buf, channels, patch, ran, troubled, lost, crashes, faults>>

\* What follows a method that returned.
Continue(i) ==
  \/ /\ op[i] \in {"run_started", "prepare_resume"}
     /\ Goto(i, "launch")
     /\ UNCHANGED <<op, node, buf, channels, patch>>
  \/ /\ op[i] = "node_started"
     /\ Goto(i, "body")
     /\ UNCHANGED <<op, node, buf, channels, patch>>
  \/ /\ op[i] = "node_patch"
     /\ buf' = [buf EXCEPT ![i] = mark_node_finished(@, node[i], patch[i])]
     /\ Enter(i, "node_finished", "open")
     /\ UNCHANGED <<node, channels, patch>>
  \/ /\ op[i] \in {"node_skipped", "node_finished"}
     /\ Goto(i, "return")
     /\ UNCHANGED <<op, node, buf, channels, patch>>
  \/ /\ op[i] = "node_failed"
     /\ Enter(i, "graph_failed", "who")
     /\ UNCHANGED <<node, buf, channels, patch>>
  \/ /\ op[i] \in {"graph_failed", "run_finished"}
     /\ Retire(i)

\* What follows a method that raised: inside the graph, the handler of
\* _execute; in the request, or in the last method of the worker, the end.
Unwind(i) ==
  \/ /\ op[i] \in {"node_skipped", "node_started", "node_patch", "node_finished", "node_failed"}
     /\ Enter(i, "graph_failed", "who")
     /\ UNCHANGED <<node, buf, channels, patch>>
  \/ /\ op[i] \in {"run_started", "prepare_resume", "graph_failed", "run_finished"}
     /\ Retire(i)

\* (A mutant, see RunState: the last save is not synced.)
MutantSyncNotLast(i) ==
  /\ pc[i] = "sync"
  /\ row' = IF op[i] = "run_finished" THEN row ELSE RunRow(buf[i])
  /\ Continue(i)
  /\ UNCHANGED <<file, ckpt, recorded, ran, troubled, lost, crashes, faults>>

Sync(i) ==
  /\ pc[i] = "sync"
  /\ row' = RunRow(buf[i])
  /\ Continue(i)
  /\ UNCHANGED <<file, ckpt, recorded, ran, troubled, lost, crashes, faults>>

\* A commit on a connection that broke: connect_postgres returns from its
\* finally block and the error is gone.
SyncLost(i) ==
  /\ pc[i] = "sync"
  /\ faults < MaxFaults
  /\ faults' = faults + 1
  /\ Continue(i)
  /\ UNCHANGED <<file, row, ckpt, recorded, ran, troubled, lost, crashes>>

SyncRaises(i) ==
  /\ pc[i] = "sync"
  /\ faults < MaxFaults
  /\ faults' = faults + 1
  /\ troubled' = TRUE
  /\ Unwind(i)
  /\ UNCHANGED <<file, row, ckpt, recorded, ran, lost, crashes>>

-----------------------------------------------------------------------------
(* The graph.                                                              *)

\* compiled.invoke(state): the input is merged into the channels of the stored
\* checkpoint; errors is appended to, status is replaced.
Launch(i) ==
  /\ pc[i] = "launch"
  /\ channels' = [channels EXCEPT ![i] = [status |-> buf[i].status,
                                          errors |-> ckpt \/ buf[i].errors]]
  /\ ckpt' = (ckpt \/ buf[i].errors)
  /\ node' = [node EXCEPT ![i] = 1]
  /\ Goto(i, "check")
  /\ UNCHANGED <<file, row, op, buf, patch, recorded, ran, troubled, lost, crashes, faults>>

\* should_skip_node.
CheckNode(i) ==
  /\ pc[i] = "check"
  /\ Enter(i, IF should_skip_node(load, node[i]) THEN "node_skipped" ELSE "node_started", "load")
  /\ UNCHANGED <<file, row, ckpt, node, buf, channels, patch, recorded, ran, troubled, lost, crashes, faults>>

skip_if_blocked(c) == c.status = "blocked" \/ c.errors

\* The body of a node that sees an earlier block: it returns {}.
PassNode(i) ==
  /\ pc[i] = "body"
  /\ skip_if_blocked(channels[i])
  /\ patch' = [patch EXCEPT ![i] = "ok"]
  /\ Enter(i, "node_patch", "load")
  /\ UNCHANGED <<file, row, ckpt, node, buf, channels, recorded, ran, troubled, lost, crashes, faults>>

\* The body does its work and returns a patch.
RunNode(i) ==
  /\ pc[i] = "body"
  /\ ~skip_if_blocked(channels[i])
  /\ \E p \in Patch :
       /\ p = "soft" => node[i] \in SoftNodes
       /\ patch' = [patch EXCEPT ![i] = p]
       /\ ran' = IF p = "block" THEN ran ELSE ran \cup {node[i]}
       /\ troubled' = (troubled \/ p = "block")
  /\ Enter(i, "node_patch", "load")
  /\ UNCHANGED <<file, row, ckpt, node, buf, channels, recorded, lost, crashes, faults>>

\* The body raises.
RaiseNode(i) ==
  /\ pc[i] = "body"
  /\ ~skip_if_blocked(channels[i])
  /\ troubled' = TRUE
  /\ Enter(i, "node_failed", "load")
  /\ UNCHANGED <<file, row, ckpt, node, buf, channels, patch, recorded, ran, lost, crashes, faults>>

ApplyPatch(c, p) ==
  CASE p = "ok"    -> c
    [] p = "soft"  -> [c EXCEPT !.status = "soft_failed"]
    [] p = "block" -> [status |-> "blocked", errors |-> TRUE]

\* LangGraph applies the patch to its channels, stores a checkpoint and goes
\* to the next node, or hands the final state to mark_run_finished.
NodeReturn(i) ==
  /\ pc[i] = "return"
  /\ channels' = [channels EXCEPT ![i] = ApplyPatch(@, patch[i])]
  /\ ckpt' = ApplyPatch(channels[i], patch[i]).errors
  /\ patch' = [patch EXCEPT ![i] = "ok"]
  /\ \/ /\ node[i] < NodeCount
        /\ node' = [node EXCEPT ![i] = @ + 1]
        /\ Goto(i, "check")
        /\ UNCHANGED op
     \/ /\ node[i] = NodeCount
        /\ Enter(i, "run_finished", "load")
        /\ UNCHANGED node
  /\ UNCHANGED <<file, row, buf, recorded, ran, troubled, lost, crashes, faults>>

\* The handler of _execute asks state.json which node was current.
LoadCurrentNode(i) ==
  /\ pc[i] = "who"
  /\ node' = [node EXCEPT ![i] = load.current_node]
  /\ Goto(i, "load")
  /\ UNCHANGED <<file, row, ckpt, op, buf, channels, patch, recorded, ran, troubled, lost, crashes, faults>>

-----------------------------------------------------------------------------

\* The process dies: request handlers and daemon workers with it.  A file that
\* was being written stays torn.
Crash ==
  /\ crashes < MaxCrashes
  /\ \E i \in Invocation : Live(i)
  /\ crashes' = crashes + 1
  /\ pc' = [i \in Invocation |-> IF Live(i) THEN "done" ELSE pc[i]]
  /\ op' = [i \in Invocation |-> "none"]
  /\ node' = [i \in Invocation |-> NoNode]
  /\ buf' = [i \in Invocation |-> base_state]
  /\ channels' = [i \in Invocation |-> NoChannels]
  /\ patch' = [i \in Invocation |-> "ok"]
  /\ UNCHANGED <<file, row, ckpt, recorded, ran, troubled, lost, faults>>

Step(i) ==
  \/ LoadRunStarted(i) \/ RefuseResume(i) \/ AcceptResume(i) \/ LoadForMark(i)
  \/ OpenFile(i) \/ WriteFile(i)
  \/ Sync(i) \/ SyncLost(i) \/ SyncRaises(i)
  \/ Launch(i) \/ CheckNode(i) \/ PassNode(i) \/ RunNode(i) \/ RaiseNode(i)
  \/ NodeReturn(i) \/ LoadCurrentNode(i)

Next ==
  \/ \E i \in Invocation : RunFlow(i) \/ ResumeFlow(i) \/ Step(i)
  \/ Crash

\* A started thread keeps being scheduled, and a node's body returns: every
\* external call it makes carries a timeout.  Clients owe no request.
Spec == Init /\ [][Next]_vars /\ \A i \in Invocation : WF_vars(Step(i))

-----------------------------------------------------------------------------
(* Properties.                                                             *)

Quiet == \A i \in Invocation : ~Live(i)

Readable == file \notin {Absent, Torn}

\* What is said of a run is true of it.  A run whose state.json says "completed"
\* (mark_run_finished) really went through the whole chain: no error is left, every
\* node is listed completed or soft-failed, and the body of every node ran to such
\* an end - unless a POST took a torn state.json for a new run while the stored
\* checkpoint still had errors.  And when no invocation is at work, and no crash or
\* failed sync came between, the row of workflow_runs that GET /runs lists says what
\* state.json says.
StatusIsTrue ==
  Readable =>
    /\ "errors" \notin lost /\ file.status = "completed" =>
         /\ ~file.errors
         /\ \A n \in Node : file.node_statuses[n] \in {"completed", "soft_failed"}
         /\ ran = Node
    /\ Quiet /\ crashes = 0 /\ faults = 0 => row = RunRow(file)

\* completed_nodes, which should_skip_node trusts on resume, never lists a node
\* whose body did not run: a node that only passed an earlier block on
\* (skip_if_blocked) or failed is not recorded as done - unless a POST took a torn
\* state.json for a new run while the stored checkpoint still had errors, which the
\* nodes then pass on and the new state.json knows nothing of.
RecordedMeansRan == "errors" \notin lost => recorded \subseteq ran

\* Through blocks, resumes, repeated POSTs, crashes and failed syncs, a node once
\* saved as completed is in every later state.json: no save of a mark_* method drops
\* what an earlier one recorded.  Only a POST over a torn state.json forgets it.
ProgressKept == Readable /\ lost = {} => recorded = file.completed_nodes

\* A node recorded as completed is not executed again.
ResumeSkipsCompleted ==
  [][\A i \in Invocation : RunNode(i) \/ RaiseNode(i) => node[i] \notin recorded]_vars

\* At most one invocation at a time is past acceptance.
Executing(i) ==
  Live(i) /\ ~(pc[i] = "load" /\ op[i] \in {"run_started", "prepare_resume"})

OneExecutor == \A i, j \in Invocation : Executing(i) /\ Executing(j) => i = j

\* As long as no node has blocked or raised and no sync has raised, a resume
\* that comes in while the run executes - or that reads state.json while it is
\* being written - is refused, so one invocation at a time works on the run.
HealthyRunIsExclusive == ~troubled => OneExecutor

(* WorkflowRun implements RunLifecycle when requests do not overlap and a   *)
(* batch_id is posted once.                                                *)

phase ==
  CASE \E i \in Invocation : Executing(i) -> "executing"
    [] OTHER -> IF file = Absent THEN "absent"
                ELSE IF Readable /\ Terminal(file) THEN file.status
                ELSE "stuck"

Lifecycle == INSTANCE RunLifecycle WITH done <- recorded

\* The run keeps the promises of RunLifecycle.
LifecycleSpec == Lifecycle!Spec

=============================================================================
