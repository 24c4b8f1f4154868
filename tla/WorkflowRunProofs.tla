-------------------------- MODULE WorkflowRunProofs --------------------------
(* Theorems about WorkflowRun, for every chain length, every set of        *)
(* invocations and every bound.                                            *)
EXTENDS WorkflowRun, TLAPS

-----------------------------------------------------------------------------
(* The functions of RunState keep a state file a state file.               *)

LEMMA BaseStateType == base_state \in StateFile
  BY DEF base_state, StateFile, Key, NoNode, RunStatus, NodeStatus

LEMMA MarkType ==
  ASSUME NEW s \in StateFile, NEW n \in Key, NEW p \in Patch, NEW c \in Channels
  PROVE  /\ mark_run_started(s) \in StateFile
         /\ prepare_resume(s) \in StateFile
         /\ mark_node_skipped(s, n) \in StateFile
         /\ mark_node_started(s, n) \in StateFile
         /\ merge_state(s, p) \in StateFile
         /\ n # NoNode => mark_node_finished(s, n, p) \in StateFile
         /\ mark_node_failed(s, n) \in StateFile
         /\ mark_run_finished(s, c) \in StateFile
  <1> USE DEF StateFile, RunStatus, NodeStatus
  <1>1. mark_run_started(s) \in StateFile
    BY DEF mark_run_started
  <1>2. prepare_resume(s) \in StateFile
    <2> DEFINE kept == [k \in Key |-> IF s.node_statuses[k] \in {"completed", "soft_failed"}
                                       THEN s.node_statuses[k] ELSE "none"]
    <2>1. kept \in [Key -> NodeStatus]
      OBVIOUS
    <2>2. s.resume_count + 1 \in Nat /\ NoNode \in Key
      BY DEF Key, NoNode
    <2>3. prepare_resume(s) = [s EXCEPT !.status = "running", !.current_node = NoNode,
                                        !.errors = FALSE, !.node_statuses = kept,
                                        !.resume_count = s.resume_count + 1]
      BY DEF prepare_resume
    <2> HIDE DEF kept
    <2> QED
      BY <2>1, <2>2, <2>3
  <1>3. mark_node_skipped(s, n) \in StateFile
    BY DEF mark_node_skipped, Key, NoNode
  <1>4. mark_node_started(s, n) \in StateFile
    BY DEF mark_node_started
  <1>5. merge_state(s, p) \in StateFile
    BY DEF merge_state, Patch
  <1>6. n # NoNode => mark_node_finished(s, n, p) \in StateFile
    BY DEF mark_node_finished, FinishedNodeStatus, Key, NoNode
  <1>7. mark_node_failed(s, n) \in StateFile
    BY DEF mark_node_failed, Key, NoNode
  <1>8. mark_run_finished(s, c) \in StateFile
    BY DEF mark_run_finished, Channels, Key, NoNode
  <1> QED
    BY <1>1, <1>2, <1>3, <1>4, <1>5, <1>6, <1>7, <1>8

-----------------------------------------------------------------------------
(* Type correctness.  completed_nodes only ever holds nodes because a      *)
(* method that adds one is entered with a node of the chain (never the     *)
(* empty current_node), and the graph is launched on a "running" state.    *)

StartOps == {"run_started", "prepare_resume"}

NodeOps == {"node_skipped", "node_started", "node_patch", "node_finished", "node_failed"}

Control ==
  \A i \in Invocation :
    /\ pc[i] \in {"check", "body", "return"} \/ op[i] \in NodeOps => node[i] \in Node
    /\ pc[i] \in {"open", "write", "sync", "launch"} /\ op[i] \in StartOps
         => buf[i].status = "running"
    /\ pc[i] = "launch" => op[i] \in StartOps
    /\ pc[i] = "who" => op[i] = "graph_failed"

TypeInv == TypeOK /\ Control

LEMMA LoadType == TypeOK => load \in StateFile
  BY BaseStateType DEF TypeOK, load

LEMMA RowType == ASSUME NEW s \in StateFile PROVE RunRow(s) \in RunRows
  BY DEF RunRow, RunRows, StateFile, Terminal

LEMMA InitTypeInv == Init => TypeInv
  <1> SUFFICES ASSUME Init PROVE TypeInv
    OBVIOUS
  <1>1. NoNode \in Key
    BY DEF NoNode, Key
  <1>2. NoChannels \in Channels
    BY DEF NoChannels, Channels
  <1>3. TypeOK
    <2>1. crashes \in 0..MaxCrashes /\ faults \in 0..MaxFaults
      BY EnvironmentAssumption DEF Init
    <2>2. pc \in [Invocation -> PC] /\ op \in [Invocation -> Op] /\ patch \in [Invocation -> Patch]
      BY DEF Init, PC, Op, Patch
    <2>3. /\ node \in [Invocation -> Key] /\ buf \in [Invocation -> StateFile]
          /\ channels \in [Invocation -> Channels]
      BY <1>1, <1>2, BaseStateType DEF Init
    <2> QED
      BY <2>1, <2>2, <2>3 DEF Init, TypeOK
  <1>4. Control
    BY DEF Init, Control, NodeOps, StartOps
  <1> QED
    BY <1>3, <1>4 DEF TypeInv

LEMMA RetireType ==
  ASSUME TypeInv, NEW i \in Invocation, Retire(i)
  PROVE  /\ pc' \in [Invocation -> PC]
         /\ op' \in [Invocation -> Op]
         /\ node' \in [Invocation -> Key]
         /\ buf' \in [Invocation -> StateFile]
         /\ channels' \in [Invocation -> Channels]
         /\ patch' \in [Invocation -> Patch]
         /\ Control'
  <1>1. NoNode \in Key
    BY DEF NoNode, Key
  <1>2. NoChannels \in Channels
    BY DEF NoChannels, Channels
  <1>3. Control'
    BY DEF TypeInv, TypeOK, Control, Retire, Enter, Goto, NodeOps, StartOps
  <1> QED
    BY <1>1, <1>2, <1>3, BaseStateType DEF TypeInv, TypeOK, Retire, Enter, Goto, PC, Op, Patch

LEMMA ContinueType ==
  ASSUME TypeInv, NEW i \in Invocation, pc[i] = "sync", Continue(i)
  PROVE  /\ pc' \in [Invocation -> PC]
         /\ op' \in [Invocation -> Op]
         /\ node' \in [Invocation -> Key]
         /\ buf' \in [Invocation -> StateFile]
         /\ channels' \in [Invocation -> Channels]
         /\ patch' \in [Invocation -> Patch]
         /\ Control'
  <1> USE DEF TypeInv, TypeOK
  <1>1. CASE op[i] \in StartOps
    <2>1. Goto(i, "launch") /\ UNCHANGED <<op, node, buf, channels, patch>>
      BY <1>1 DEF Continue, StartOps
    <2> QED
      BY <1>1, <2>1 DEF Goto, PC, Control, StartOps, NodeOps
  <1>2. CASE op[i] = "node_started"
    <2>1. Goto(i, "body") /\ UNCHANGED <<op, node, buf, channels, patch>>
      BY <1>2 DEF Continue
    <2> QED
      BY <1>2, <2>1 DEF Goto, PC, Control, StartOps, NodeOps
  <1>3. CASE op[i] = "node_patch"
    <2>1. /\ buf' = [buf EXCEPT ![i] = mark_node_finished(buf[i], node[i], patch[i])]
          /\ Enter(i, "node_finished", "open")
          /\ UNCHANGED <<node, channels, patch>>
      BY <1>3 DEF Continue
    <2>2. node[i] \in Node
      BY <1>3 DEF Control, NodeOps
    <2>3. mark_node_finished(buf[i], node[i], patch[i]) \in StateFile
      <3>1. buf[i] \in StateFile /\ patch[i] \in Patch /\ node[i] \in Key /\ channels[i] \in Channels
        OBVIOUS
      <3>2. node[i] # NoNode
        BY <2>2, NodeCountAssumption DEF Node, NoNode
      <3> QED
        BY <3>1, <3>2, MarkType
    <2>4. Control'
      BY <2>1, <2>2 DEF Enter, Goto, Control, StartOps, NodeOps
    <2> QED
      BY <2>1, <2>3, <2>4 DEF Enter, Goto, PC, Op
  <1>4. CASE op[i] \in {"node_skipped", "node_finished"}
    <2>1. Goto(i, "return") /\ UNCHANGED <<op, node, buf, channels, patch>>
      BY <1>4 DEF Continue
    <2> QED
      BY <1>4, <2>1 DEF Goto, PC, Control, StartOps, NodeOps
  <1>5. CASE op[i] = "node_failed"
    <2>1. Enter(i, "graph_failed", "who") /\ UNCHANGED <<node, buf, channels, patch>>
      BY <1>5 DEF Continue
    <2> QED
      BY <1>5, <2>1 DEF Enter, Goto, PC, Op, Control, StartOps, NodeOps
  <1>6. CASE op[i] \in {"graph_failed", "run_finished"}
    BY <1>6, RetireType DEF Continue
  <1> QED
    BY <1>1, <1>2, <1>3, <1>4, <1>5, <1>6 DEF Continue, StartOps

LEMMA UnwindType ==
  ASSUME TypeInv, NEW i \in Invocation, pc[i] = "sync", Unwind(i)
  PROVE  /\ pc' \in [Invocation -> PC]
         /\ op' \in [Invocation -> Op]
         /\ node' \in [Invocation -> Key]
         /\ buf' \in [Invocation -> StateFile]
         /\ channels' \in [Invocation -> Channels]
         /\ patch' \in [Invocation -> Patch]
         /\ Control'
  <1>1. CASE Enter(i, "graph_failed", "who") /\ UNCHANGED <<node, buf, channels, patch>>
    BY <1>1 DEF TypeInv, TypeOK, Enter, Goto, PC, Op, Control, StartOps, NodeOps
  <1>2. CASE Retire(i)
    BY <1>2, RetireType
  <1> QED
    BY <1>1, <1>2 DEF Unwind

LEMMA NextTypeInv == TypeInv /\ [Next]_vars => TypeInv'
  <1> SUFFICES ASSUME TypeInv, [Next]_vars PROVE TypeInv'
    OBVIOUS
  <1> USE DEF TypeInv
  <1>0. load \in StateFile
    BY LoadType
  <1>1. ASSUME NEW i \in Invocation, RunFlow(i) \/ ResumeFlow(i) PROVE TypeInv'
    <2>1. PICK method \in StartOps :
             /\ Enter(i, method, "load")
             /\ UNCHANGED <<file, row, ckpt, node, buf, channels, patch, recorded, ran, troubled,
                            lost, crashes, faults>>
      BY <1>1 DEF RunFlow, ResumeFlow, StartOps
    <2>2. TypeOK'
      BY <2>1 DEF Enter, Goto, TypeOK, PC, Op, StartOps
    <2>3. Control'
      BY <2>1 DEF Enter, Goto, TypeOK, Control, NodeOps, StartOps
    <2> QED
      BY <2>2, <2>3
  <1>2. ASSUME NEW i \in Invocation, LoadRunStarted(i) PROVE TypeInv'
    <2>1. mark_run_started(load) \in StateFile
      BY <1>0 DEF mark_run_started, StateFile, RunStatus
    <2>2. mark_run_started(load).status = "running"
      BY <1>0 DEF mark_run_started, StateFile
    <2>3. TypeOK'
      BY <1>2, <2>1 DEF LoadRunStarted, Goto, TypeOK, PC
    <2>4. Control'
      BY <1>2, <2>2 DEF LoadRunStarted, Goto, TypeOK, Control, NodeOps, StartOps
    <2> QED
      BY <2>3, <2>4
  <1>3. ASSUME NEW i \in Invocation, RefuseResume(i) PROVE TypeInv'
    BY <1>3, RetireType DEF RefuseResume, TypeOK
  <1>4. ASSUME NEW i \in Invocation, AcceptResume(i) PROVE TypeInv'
    <2>1. prepare_resume(load) \in StateFile
      <3>1. NoNode \in Key /\ "ok" \in Patch /\ NoChannels \in Channels
        BY DEF NoNode, Key, Patch, NoChannels, Channels
      <3> QED
        BY <1>0, <3>1, MarkType
    <2>2. prepare_resume(load).status = "running"
      BY <1>0 DEF prepare_resume, StateFile
    <2>3. TypeOK'
      BY <1>4, <2>1 DEF AcceptResume, Goto, TypeOK, PC
    <2>4. Control'
      BY <1>4, <2>2 DEF AcceptResume, Goto, TypeOK, Control, NodeOps, StartOps
    <2> QED
      BY <2>3, <2>4
  <1>5. ASSUME NEW i \in Invocation, LoadForMark(i) PROVE TypeInv'
    <2>1. node[i] \in Key /\ patch[i] \in Patch /\ channels[i] \in Channels
      BY DEF TypeOK
    <2>2. op[i] \in {"node_skipped", "node_started", "node_patch", "node_failed",
                     "graph_failed", "run_finished"}
      BY <1>5 DEF LoadForMark, TypeOK, Op
    <2>3. Marked(i, load) \in StateFile
      BY <1>0, <2>1, <2>2, MarkType DEF Marked
    <2>4. TypeOK'
      BY <1>5, <2>3 DEF LoadForMark, Goto, TypeOK, PC
    <2>5. Control'
      BY <1>5, <2>2 DEF LoadForMark, Goto, TypeOK, Control, NodeOps, StartOps
    <2> QED
      BY <2>4, <2>5
  <1>6. ASSUME NEW i \in Invocation, OpenFile(i) PROVE TypeInv'
    BY <1>6 DEF OpenFile, Goto, TypeOK, PC, Control, NodeOps, StartOps
  <1>7. ASSUME NEW i \in Invocation, WriteFile(i) PROVE TypeInv'
    <2>1. buf[i] \in StateFile /\ buf[i].completed_nodes \subseteq Node
      BY DEF TypeOK, StateFile
    <2> QED
      BY <1>7, <2>1 DEF WriteFile, Goto, TypeOK, PC, Control, NodeOps, StartOps
  <1>8. ASSUME NEW i \in Invocation, Sync(i) PROVE TypeInv'
    <2>1. RunRow(buf[i]) \in RunRows
      BY RowType DEF TypeOK
    <2>2. pc[i] = "sync" /\ Continue(i)
      BY <1>8 DEF Sync
    <2> QED
      BY <1>8, <2>1, <2>2, ContinueType DEF Sync, TypeOK
  <1>9. ASSUME NEW i \in Invocation, SyncLost(i) PROVE TypeInv'
    <2>1. faults' \in 0..MaxFaults
      BY <1>9, EnvironmentAssumption DEF SyncLost, TypeOK
    <2>2. pc[i] = "sync" /\ Continue(i)
      BY <1>9 DEF SyncLost
    <2> QED
      BY <1>9, <2>1, <2>2, ContinueType DEF SyncLost, TypeOK
  <1>10. ASSUME NEW i \in Invocation, SyncRaises(i) PROVE TypeInv'
    <2>1. faults' \in 0..MaxFaults
      BY <1>10, EnvironmentAssumption DEF SyncRaises, TypeOK
    <2>2. pc[i] = "sync" /\ Unwind(i)
      BY <1>10 DEF SyncRaises
    <2> QED
      BY <1>10, <2>1, <2>2, UnwindType DEF SyncRaises, TypeOK
  <1>11. ASSUME NEW i \in Invocation, Launch(i) PROVE TypeInv'
    <2>1. buf[i].status = "running" /\ buf[i].errors \in BOOLEAN /\ ckpt \in BOOLEAN
      BY <1>11 DEF Launch, Control, TypeOK, StateFile
    <2>2. [status |-> buf[i].status, errors |-> ckpt \/ buf[i].errors] \in Channels
      BY <2>1 DEF Channels
    <2>3. 1 \in Node /\ 1 \in Key
      BY NodeCountAssumption DEF Node, Key
    <2>4. TypeOK'
      BY <1>11, <2>1, <2>2, <2>3 DEF Launch, Goto, TypeOK, PC
    <2>5. Control'
      BY <1>11, <2>3 DEF Launch, Goto, TypeOK, Control, NodeOps, StartOps
    <2> QED
      BY <2>4, <2>5
  <1>12. ASSUME NEW i \in Invocation, CheckNode(i) PROVE TypeInv'
    <2>1. pc[i] = "check" /\ node[i] \in Node
      BY <1>12 DEF CheckNode, Control
    <2> QED
      BY <1>12, <2>1 DEF CheckNode, Enter, Goto, TypeOK, PC, Op, Control, NodeOps, StartOps
  <1>13. ASSUME NEW i \in Invocation, PassNode(i) PROVE TypeInv'
    <2>1. pc[i] = "body" /\ node[i] \in Node
      BY <1>13 DEF PassNode, Control
    <2> QED
      BY <1>13, <2>1 DEF PassNode, Enter, Goto, TypeOK, PC, Op, Patch, Control, NodeOps, StartOps
  <1>14. ASSUME NEW i \in Invocation, RunNode(i) PROVE TypeInv'
    <2>1. pc[i] = "body" /\ node[i] \in Node
      BY <1>14 DEF RunNode, Control
    <2>2. PICK p \in Patch :
             /\ patch' = [patch EXCEPT ![i] = p]
             /\ ran' = IF p = "block" THEN ran ELSE ran \cup {node[i]}
             /\ troubled' = (troubled \/ p = "block")
      BY <1>14 DEF RunNode
    <2>3. TypeOK'
      BY <1>14, <2>1, <2>2 DEF RunNode, Enter, Goto, TypeOK, PC, Op
    <2>4. Control'
      BY <1>14, <2>1 DEF RunNode, Enter, Goto, TypeOK, Control, NodeOps, StartOps
    <2> QED
      BY <2>3, <2>4
  <1>15. ASSUME NEW i \in Invocation, RaiseNode(i) PROVE TypeInv'
    <2>1. pc[i] = "body" /\ node[i] \in Node
      BY <1>15 DEF RaiseNode, Control
    <2> QED
      BY <1>15, <2>1 DEF RaiseNode, Enter, Goto, TypeOK, PC, Op, Control, NodeOps, StartOps
  <1>16. ASSUME NEW i \in Invocation, NodeReturn(i) PROVE TypeInv'
    <2>1. pc[i] = "return" /\ node[i] \in Node
      BY <1>16 DEF NodeReturn, Control
    <2>2. ApplyPatch(channels[i], patch[i]) \in Channels
      <3>1. channels[i] \in Channels /\ patch[i] \in Patch
        BY DEF TypeOK
      <3> QED
        BY <3>1 DEF ApplyPatch, Channels, Patch
    <2>3. ApplyPatch(channels[i], patch[i]).errors \in BOOLEAN
      BY <2>2 DEF Channels
    <2>4. CASE node[i] < NodeCount
      <3>1. /\ node' = [node EXCEPT ![i] = node[i] + 1]
            /\ Goto(i, "check")
            /\ UNCHANGED op
        BY <1>16, <2>4, NodeCountAssumption, <2>1 DEF NodeReturn, Node
      <3>2. node[i] + 1 \in Node
        BY <2>1, <2>4, NodeCountAssumption DEF Node
      <3>3. TypeOK'
        BY <1>16, <2>2, <2>3, <3>1, <3>2 DEF NodeReturn, Goto, TypeOK, PC, Patch, Key
      <3>4. Control'
        BY <1>16, <3>1, <3>2 DEF NodeReturn, Goto, TypeOK, Control, NodeOps, StartOps
      <3> QED
        BY <3>3, <3>4
    <2>5. CASE node[i] = NodeCount
      <3>1. Enter(i, "run_finished", "load") /\ UNCHANGED node
        BY <1>16, <2>5, NodeCountAssumption DEF NodeReturn
      <3>2. TypeOK'
        BY <1>16, <2>2, <2>3, <3>1 DEF NodeReturn, Enter, Goto, TypeOK, PC, Op, Patch
      <3>3. Control'
        BY <1>16, <3>1 DEF NodeReturn, Enter, Goto, TypeOK, Control, NodeOps, StartOps
      <3> QED
        BY <3>2, <3>3
    <2> QED
      BY <1>16, <2>4, <2>5 DEF NodeReturn
  <1>17. ASSUME NEW i \in Invocation, LoadCurrentNode(i) PROVE TypeInv'
    <2>1. load.current_node \in Key
      BY <1>0 DEF StateFile
    <2>2. TypeOK'
      BY <1>17, <2>1 DEF LoadCurrentNode, Goto, TypeOK, PC
    <2>3. op[i] = "graph_failed"
      BY <1>17 DEF LoadCurrentNode, Control
    <2>4. Control'
      BY <1>17, <2>3 DEF LoadCurrentNode, Goto, TypeOK, Control, NodeOps, StartOps
    <2> QED
      BY <2>2, <2>4
  <1>18. CASE Crash
    <2>1. crashes' \in 0..MaxCrashes
      BY <1>18, EnvironmentAssumption DEF Crash, TypeOK
    <2>2. NoNode \in Key /\ NoChannels \in Channels
      BY DEF NoNode, Key, NoChannels, Channels
    <2>3. TypeOK'
      BY <1>18, <2>1, <2>2, BaseStateType DEF Crash, TypeOK, PC, Op, Patch
    <2>4. Control'
      BY <1>18 DEF Crash, Live, TypeOK, Control, NodeOps, StartOps
    <2> QED
      BY <2>3, <2>4
  <1>19. CASE UNCHANGED vars
    BY <1>19 DEF vars, local, TypeOK, Control
  <1> QED
    BY <1>1, <1>2, <1>3, <1>4, <1>5, <1>6, <1>7, <1>8, <1>9, <1>10, <1>11, <1>12, <1>13,
       <1>14, <1>15, <1>16, <1>17, <1>18, <1>19 DEF Next, Step

\* Every reachable state is well-typed: whatever requests, crashes and failed
\* syncs interleave, state.json is absent, torn or a record of the shape the
\* runtime writes, and completed_nodes holds nodes of the flow only.
THEOREM TypeCorrect == Spec => []TypeOK
  <1>1. Spec => []TypeInv
    BY InitTypeInv, NextTypeInv, PTL DEF Spec
  <1>2. TypeInv => TypeOK
    BY DEF TypeInv
  <1> QED
    BY <1>1, <1>2, PTL

-----------------------------------------------------------------------------
(* Sequential use: requests do not overlap.  Then one invocation at a time *)
(* is at work, and inside the graph it finds in state.json what it wrote:  *)
(* the file carries an error exactly when the channels block the nodes.    *)
(* What the checkpoint and the file say of errors is worth something only  *)
(* as long as no POST took a torn file for a new run over a checkpoint     *)
(* with errors: the invariant is claimed for the runs in which ErrorsKnown *)
(* holds, and a step keeps it if ErrorsKnown still holds after the step.   *)

AtRest(i) == op[i] = "none" /\ patch[i] = "ok" /\ buf[i] = base_state

\* What invocation i is about to make of state.json, or has made of it.
View(i) == IF pc[i] \in {"open", "write"} THEN buf[i] ELSE file

InGraph(i) == pc[i] \in {"check", "body", "return"} \/ op[i] \in NodeOps

PatchIsFresh(i) ==
  /\ op[i] \in StartOps \cup {"node_skipped", "node_started"} \/ pc[i] = "check"
       => patch[i] = "ok"
  /\ pc[i] = "check" => op[i] \in StartOps \cup {"node_skipped", "node_finished"}
  /\ pc[i] = "body" => op[i] = "node_started"
  /\ pc[i] = "return" => op[i] \in {"node_skipped", "node_finished"}

\* Where state.json stands while i is at work.  Only a POST may still find it
\* absent, or torn by a crash.
OnDisk(i) ==
  /\ pc[i] = "write" => file = Torn
  /\ file = Torn /\ pc[i] # "write" => op[i] = "run_started" /\ pc[i] \in {"load", "open"}
  /\ file = Absent => op[i] = "run_started" /\ pc[i] \in {"load", "open"}
  /\ pc[i] \in {"sync", "launch"} => file = buf[i]

\* The node of i has handed its patch back, and it blocks the run.
Handed(i) == op[i] \in {"node_patch", "node_finished"} /\ pc[i] # "check"

Blocks(i) == Handed(i) /\ pc[i] # "load" /\ patch[i] = "block"

\* The checkpoint, the channels and state.json tell the same of errors; and a
\* node that handed back a patch that does not block, in a run without errors,
\* has run.
ErrorsAgree(i) ==
  /\ ckpt /\ pc[i] \in {"open", "write"} => buf[i].errors
  /\ InGraph(i) \/ op[i] = "run_finished" =>
       /\ channels[i].status = "blocked" => channels[i].errors
       /\ ckpt <=> channels[i].errors
  /\ InGraph(i) /\ op[i] # "node_failed" => (View(i).errors <=> channels[i].errors \/ Blocks(i))
  /\ op[i] = "run_finished" /\ pc[i] = "load" => (file.errors <=> channels[i].errors)
  /\ Handed(i) /\ patch[i] # "block" /\ ~channels[i].errors => node[i] \in ran

WorkInv(i) ==
  /\ buf[i].completed_nodes \subseteq ran
  /\ PatchIsFresh(i)
  /\ OnDisk(i)
  /\ ErrorsAgree(i)

StoreInv ==
  /\ ckpt => file # Absent /\ (Readable => file.errors)
  /\ Readable => file.completed_nodes \subseteq ran
  /\ recorded \subseteq ran

SeqInv ==
  /\ \A i, j \in Invocation : Live(i) /\ Live(j) => i = j
  /\ \A i \in Invocation : Live(i) => WorkInv(i)
  /\ \A i \in Invocation : ~Live(i) => AtRest(i)
  /\ StoreInv

ErrorsKnown == "errors" \notin lost

\* What a POST started without stays unknown, and only such a POST loses anything.
LEMMA LostGrows ==
  ASSUME [Next]_vars
  PROVE  /\ lost \subseteq lost'
         /\ lost' = lost \/ \E i \in Invocation : LoadRunStarted(i)
  BY DEF Next, Step, RunFlow, ResumeFlow, LoadRunStarted, RefuseResume, AcceptResume, LoadForMark,
     OpenFile, WriteFile, Sync, SyncLost, SyncRaises, Launch, CheckNode, PassNode, RunNode,
     RaiseNode, NodeReturn, LoadCurrentNode, Crash, vars

LEMMA InitSeqInv == Init => SeqInv
  BY SentinelAssumption DEF Init, SeqInv, Live, AtRest, StoreInv, Readable

\* Only one invocation is at work, so a step of it has its own part of the
\* invariant to keep and nobody else's.
LEMMA StepFrame ==
  ASSUME SeqInv, TypeInv, NEW i \in Invocation, Live(i),
         \A j \in Invocation \ {i} : /\ pc'[j] = pc[j] /\ op'[j] = op[j]
                                     /\ patch'[j] = patch[j] /\ buf'[j] = buf[j],
         Live(i)' => WorkInv(i)',
         ~Live(i)' => AtRest(i)',
         StoreInv'
  PROVE  SeqInv'
  <1>1. \A j \in Invocation \ {i} : ~Live(j) /\ AtRest(j)
    BY DEF SeqInv
  <1>2. \A j \in Invocation \ {i} : ~Live(j)' /\ AtRest(j)'
    BY <1>1 DEF Live, AtRest
  <1> QED
    BY <1>2 DEF SeqInv

\* The steps that only move invocation i change nothing the others own.
LEMMA RetireFrame ==
  ASSUME SeqInv, TypeInv, NEW i \in Invocation, Live(i), Retire(i), StoreInv'
  PROVE  SeqInv'
  <1>1. ~Live(i)' /\ AtRest(i)'
    BY DEF TypeInv, TypeOK, Retire, Enter, Goto, Live, AtRest
  <1>2. \A j \in Invocation \ {i} : /\ pc'[j] = pc[j] /\ op'[j] = op[j]
                                    /\ patch'[j] = patch[j] /\ buf'[j] = buf[j]
    BY DEF TypeInv, TypeOK, Retire, Enter, Goto
  <1> QED
    BY <1>1, <1>2, StepFrame

\* A method never takes an error out of the state, and of the methods before
\* mark_node_finished none adds a completed node.
LEMMA MarkKeeps ==
  ASSUME NEW s \in StateFile, NEW n \in Key, NEW p \in Patch, NEW c \in Channels
  PROVE  /\ mark_node_skipped(s, n).completed_nodes = s.completed_nodes
         /\ mark_node_started(s, n).completed_nodes = s.completed_nodes
         /\ merge_state(s, p).completed_nodes = s.completed_nodes
         /\ mark_node_failed(s, n).completed_nodes = s.completed_nodes
         /\ mark_run_finished(s, c).completed_nodes = s.completed_nodes
         /\ mark_node_skipped(s, n).errors = s.errors
         /\ mark_node_started(s, n).errors = s.errors
         /\ merge_state(s, p).errors = (s.errors \/ p = "block")
         /\ mark_node_failed(s, n).errors
         /\ mark_run_finished(s, c).errors = c.errors
  BY DEF mark_node_skipped, mark_node_started, merge_state, mark_node_failed,
         mark_run_finished, StateFile, Patch

\* ... and so for whichever of them an invocation is in.
LEMMA MarkedKeeps ==
  ASSUME NEW i, NEW s \in StateFile, node[i] \in Key, patch[i] \in Patch, channels[i] \in Channels,
         op[i] \in {"node_skipped", "node_started", "node_patch", "node_failed",
                    "graph_failed", "run_finished"}
  PROVE  /\ Marked(i, s).completed_nodes = s.completed_nodes
         /\ op[i] # "run_finished" /\ s.errors => Marked(i, s).errors
         /\ op[i] \in {"node_skipped", "node_started"} => Marked(i, s).errors = s.errors
         /\ op[i] = "node_patch" => Marked(i, s).errors = (s.errors \/ patch[i] = "block")
         /\ op[i] \in {"node_failed", "graph_failed"} => Marked(i, s).errors
         /\ op[i] = "run_finished" => Marked(i, s).errors = channels[i].errors
  <1>1. CASE op[i] = "node_skipped"
    <2>1. Marked(i, s) = mark_node_skipped(s, node[i])
      BY <1>1 DEF Marked
    <2> QED
      BY <1>1, <2>1, MarkKeeps
  <1>2. CASE op[i] = "node_started"
    <2>1. Marked(i, s) = mark_node_started(s, node[i])
      BY <1>2 DEF Marked
    <2> QED
      BY <1>2, <2>1, MarkKeeps
  <1>3. CASE op[i] = "node_patch"
    <2>1. Marked(i, s) = merge_state(s, patch[i])
      BY <1>3 DEF Marked
    <2>2. /\ merge_state(s, patch[i]).completed_nodes = s.completed_nodes
          /\ merge_state(s, patch[i]).errors = (s.errors \/ patch[i] = "block")
      BY MarkKeeps
    <2>3. s.errors \in BOOLEAN
      BY DEF StateFile
    <2> QED
      BY <1>3, <2>1, <2>2, <2>3
  <1>4. CASE op[i] \in {"node_failed", "graph_failed"}
    <2>1. Marked(i, s) = mark_node_failed(s, node[i])
      BY <1>4 DEF Marked
    <2> QED
      BY <1>4, <2>1, MarkKeeps
  <1>5. CASE op[i] = "run_finished"
    <2>1. Marked(i, s) = mark_run_finished(s, channels[i])
      BY <1>5 DEF Marked
    <2> QED
      BY <1>5, <2>1, MarkKeeps
  <1> QED
    BY <1>1, <1>2, <1>3, <1>4, <1>5

\* A node is added only by a normal patch, to a state without errors.
LEMMA FinishedKeeps ==
  ASSUME NEW s \in StateFile, NEW n \in Node, NEW p \in Patch, p = "block" => s.errors
  PROVE  /\ mark_node_finished(s, n, p).errors = s.errors
         /\ mark_node_finished(s, n, p).completed_nodes \subseteq s.completed_nodes \cup {n}
         /\ p # "ok" \/ s.errors
              => mark_node_finished(s, n, p).completed_nodes = s.completed_nodes
  BY DEF mark_node_finished, FinishedNodeStatus, StateFile, Patch

LEMMA LoadRan == SeqInv => load.completed_nodes \subseteq ran
  BY DEF SeqInv, StoreInv, Readable, load, base_state

\* An invocation at work that is not writing finds a file that parses, unless it
\* is a POST that has yet to write its first state.
LEMMA LoadsFile ==
  ASSUME SeqInv, NEW i \in Invocation, Live(i), pc[i] # "write",
         op[i] # "run_started" \/ pc[i] \notin {"load", "open"}
  PROVE  /\ file # Torn
         /\ Readable /\ load = file
         /\ ckpt => load.errors
  <1>1. WorkInv(i) /\ StoreInv
    BY DEF SeqInv
  <1> QED
    BY <1>1 DEF WorkInv, OnDisk, Readable, load, StoreInv

LEMMA ContinueSeqInv ==
  ASSUME SeqInv, TypeInv, NEW i \in Invocation, pc[i] = "sync", Continue(i),
         UNCHANGED <<file, ckpt, recorded, ran>>
  PROVE  SeqInv'
  <1> USE DEF TypeInv, TypeOK
  <1>1. StoreInv'
    BY DEF SeqInv, StoreInv, Readable
  <1>2. Live(i) /\ WorkInv(i)
    BY DEF SeqInv, Live
  <1>3. file = buf[i] /\ Readable
    BY <1>2, SentinelAssumption DEF WorkInv, OnDisk, Readable
  <1> DEFINE Same == \A j \in Invocation \ {i} : /\ pc'[j] = pc[j] /\ op'[j] = op[j]
                                                 /\ patch'[j] = patch[j] /\ buf'[j] = buf[j]
  <1>4. CASE op[i] \in StartOps
    <2>1. Goto(i, "launch") /\ UNCHANGED <<op, node, buf, channels, patch>>
      BY <1>4 DEF Continue, StartOps
    <2>2. WorkInv(i)'
      BY <1>2, <1>3, <1>4, <2>1
      DEF Goto, WorkInv, PatchIsFresh, OnDisk, ErrorsAgree, InGraph, Handed, Readable, StartOps, NodeOps
    <2>3. Same
      BY <2>1 DEF Goto
    <2> QED
      BY <1>1, <1>2, <2>1, <2>2, <2>3, StepFrame DEF Goto, Live
  <1>5. CASE op[i] \in {"node_started", "node_skipped", "node_finished"}
    <2>1. PICK l \in {"body", "return"} :
             /\ l = "return" => op[i] \in {"node_skipped", "node_finished"}
             /\ l = "body" => op[i] = "node_started"
             /\ Goto(i, l)
             /\ UNCHANGED <<op, node, buf, channels, patch>>
      BY <1>5 DEF Continue
    <2>2. WorkInv(i)'
      <3>1. ErrorsAgree(i)'
        BY <1>2, <1>3, <1>5, <2>1
        DEF Goto, WorkInv, ErrorsAgree, InGraph, View, Handed, Blocks, NodeOps
      <3> QED
        BY <1>2, <1>3, <1>5, <2>1, <3>1
        DEF Goto, WorkInv, PatchIsFresh, OnDisk, Readable, StartOps
    <2>3. Same
      BY <2>1 DEF Goto
    <2> QED
      BY <1>1, <1>2, <2>1, <2>2, <2>3, StepFrame DEF Goto, Live
  <1>6. CASE op[i] = "node_patch"
    <2>1. /\ buf' = [buf EXCEPT ![i] = mark_node_finished(buf[i], node[i], patch[i])]
          /\ Enter(i, "node_finished", "open")
          /\ UNCHANGED <<node, channels, patch>>
      BY <1>6 DEF Continue
    <2>2. node[i] \in Node /\ patch[i] \in Patch /\ buf[i] \in StateFile /\ channels[i] \in Channels
      BY <1>6 DEF Control, NodeOps
    <2>3. /\ buf[i].errors <=> channels[i].errors \/ patch[i] = "block"
          /\ ckpt => buf[i].errors
          /\ patch[i] # "block" /\ ~channels[i].errors => node[i] \in ran
      <3>1. buf[i].errors <=> channels[i].errors \/ patch[i] = "block"
        BY <1>2, <1>3, <1>6 DEF WorkInv, ErrorsAgree, InGraph, View, Handed, Blocks, NodeOps
      <3>2. ckpt => buf[i].errors
        BY <1>3 DEF SeqInv, StoreInv
      <3> QED
        BY <1>2, <1>6, <3>1, <3>2 DEF WorkInv, ErrorsAgree, Handed
    <2>4. /\ mark_node_finished(buf[i], node[i], patch[i]).errors = buf[i].errors
          /\ mark_node_finished(buf[i], node[i], patch[i]).completed_nodes \subseteq ran
      <3>1. buf[i].completed_nodes \subseteq ran
        BY <1>2 DEF WorkInv
      <3>2. patch[i] = "block" => buf[i].errors
        BY <2>3
      <3>3. patch[i] = "ok" /\ ~buf[i].errors => node[i] \in ran
        BY <2>3
      <3> QED
        BY <2>2, <3>1, <3>2, <3>3, FinishedKeeps
    <2>5. WorkInv(i)'
      <3>1. ErrorsAgree(i)'
        <4>1. pc'[i] = "open" /\ op'[i] = "node_finished" /\ buf'[i].errors = buf[i].errors
          BY <2>1, <2>4 DEF Enter, Goto
        <4>2. (channels[i].status = "blocked" => channels[i].errors) /\ (ckpt <=> channels[i].errors)
          BY <1>2, <1>6 DEF WorkInv, ErrorsAgree, InGraph, NodeOps
        <4> QED
          BY <2>1, <2>3, <4>1, <4>2 DEF ErrorsAgree, InGraph, View, Handed, Blocks, NodeOps
      <3> QED
        BY <1>3, <2>1, <2>4, <3>1
        DEF Enter, Goto, WorkInv, PatchIsFresh, OnDisk, Readable, StartOps
    <2>6. Same
      BY <2>1 DEF Enter, Goto
    <2> QED
      BY <1>1, <1>2, <2>1, <2>5, <2>6, StepFrame DEF Enter, Goto, Live
  <1>7. CASE op[i] = "node_failed"
    <2>1. Enter(i, "graph_failed", "who") /\ UNCHANGED <<node, buf, channels, patch>>
      BY <1>7 DEF Continue
    <2>2. WorkInv(i)'
      BY <1>2, <1>3, <2>1
      DEF Enter, Goto, WorkInv, PatchIsFresh, OnDisk, ErrorsAgree, InGraph, Handed, Readable, StartOps, NodeOps
    <2>3. Same
      BY <2>1 DEF Enter, Goto
    <2> QED
      BY <1>1, <1>2, <2>1, <2>2, <2>3, StepFrame DEF Enter, Goto, Live
  <1>8. CASE op[i] \in {"graph_failed", "run_finished"}
    BY <1>1, <1>2, <1>8, RetireFrame DEF Continue
  <1> QED
    BY <1>4, <1>5, <1>6, <1>7, <1>8 DEF Continue, StartOps

LEMMA UnwindSeqInv ==
  ASSUME SeqInv, TypeInv, NEW i \in Invocation, pc[i] = "sync", Unwind(i),
         UNCHANGED <<file, ckpt, recorded, ran>>
  PROVE  SeqInv'
  <1>1. StoreInv'
    BY DEF SeqInv, StoreInv, Readable
  <1>2. Live(i) /\ WorkInv(i)
    BY DEF SeqInv, Live
  <1>3. CASE Enter(i, "graph_failed", "who") /\ UNCHANGED <<node, buf, channels, patch>>
    <2> USE DEF TypeInv, TypeOK
    <2>1. WorkInv(i)'
      <3>1. file # Torn /\ file # Absent
        BY <1>2 DEF WorkInv, OnDisk
      <3> QED
        BY <1>2, <1>3, <3>1
        DEF Enter, Goto, WorkInv, PatchIsFresh, OnDisk, ErrorsAgree, InGraph, Handed, StartOps, NodeOps
    <2>2. \A j \in Invocation \ {i} : /\ pc'[j] = pc[j] /\ op'[j] = op[j]
                                      /\ patch'[j] = patch[j] /\ buf'[j] = buf[j]
      BY <1>3 DEF Enter, Goto
    <2> QED
      BY <1>1, <1>2, <1>3, <2>1, <2>2, StepFrame DEF Enter, Goto, Live
  <1>4. CASE Retire(i)
    BY <1>1, <1>2, <1>4, RetireFrame
  <1> QED
    BY <1>3, <1>4 DEF Unwind
LEMMA NextSeqInv ==
  ASSUME ~Overlaps, SeqInv, TypeInv, [Next]_vars, ErrorsKnown'
  PROVE  SeqInv'
  <1> USE DEF TypeInv, TypeOK
  <1> DEFINE Same(i) == \A j \in Invocation \ {i} : /\ pc'[j] = pc[j] /\ op'[j] = op[j]
                                                    /\ patch'[j] = patch[j] /\ buf'[j] = buf[j]
  <1>0. load \in StateFile /\ load.completed_nodes \subseteq ran
    BY LoadType, LoadRan
  <1>1. ASSUME NEW i \in Invocation, RunFlow(i) \/ ResumeFlow(i) PROVE SeqInv'
    <2>1. /\ \A j \in Invocation : ~Live(j)
          /\ op[i] = "none" /\ patch[i] = "ok" /\ buf[i] = base_state
      BY <1>1 DEF RunFlow, ResumeFlow, MayRequest, SeqInv, AtRest
    <2>2. file \in {Absent, Torn} => op'[i] = "run_started"
      BY <1>1 DEF RunFlow, ResumeFlow, Enter, Goto
    <2>3. pc'[i] = "load" /\ op'[i] \in StartOps /\ Same(i) /\ Live(i)'
      BY <1>1 DEF RunFlow, ResumeFlow, Enter, Goto, StartOps, Live
    <2>4. UNCHANGED <<file, ckpt, recorded, ran, buf, patch>>
      BY <1>1 DEF RunFlow, ResumeFlow
    <2>5. WorkInv(i)'
      BY <2>1, <2>2, <2>3, <2>4
      DEF WorkInv, PatchIsFresh, OnDisk, ErrorsAgree, InGraph, Handed, StartOps, NodeOps, base_state
    <2>6. StoreInv'
      BY <2>4 DEF SeqInv, StoreInv, Readable
    <2>7. \A j \in Invocation \ {i} : ~Live(j)' /\ AtRest(j)'
      BY <2>1, <2>3 DEF SeqInv, Live, AtRest
    <2> QED
      BY <2>3, <2>5, <2>6, <2>7 DEF SeqInv
  <1>2. ASSUME NEW i \in Invocation, Step(i) PROVE SeqInv'
    <2>1. CASE LoadRunStarted(i)
      <3>1. Live(i) /\ WorkInv(i) /\ (ckpt => load.errors)
        <4>1. Live(i) /\ WorkInv(i) /\ StoreInv
          BY <2>1 DEF LoadRunStarted, Live, SeqInv
        <4>2. file = Torn => ~ckpt
          BY <2>1 DEF LoadRunStarted, ErrorsKnown
        <4> QED
          BY <4>1, <4>2 DEF StoreInv, Readable, load
      <3>2. buf'[i] = mark_run_started(load) /\ pc'[i] = "open" /\ Same(i)
        BY <2>1 DEF LoadRunStarted, Goto
      <3>3. buf'[i].errors = load.errors /\ buf'[i].completed_nodes = load.completed_nodes
        BY <1>0, <3>2 DEF mark_run_started, StateFile
      <3>4. WorkInv(i)' /\ StoreInv'
        BY <1>0, <2>1, <3>1, <3>2, <3>3
        DEF LoadRunStarted, WorkInv, PatchIsFresh, OnDisk, ErrorsAgree, InGraph, Handed,
            StartOps, NodeOps, SeqInv, StoreInv, Readable
      <3> QED
        BY <3>1, <3>2, <3>4, StepFrame DEF Live
    <2>2. CASE RefuseResume(i)
      <3>1. Live(i) /\ Retire(i) /\ StoreInv'
        BY <2>2 DEF RefuseResume, Live, SeqInv, StoreInv, Readable
      <3> QED
        BY <3>1, RetireFrame
    <2>3. CASE AcceptResume(i)
      <3>1. Live(i) /\ WorkInv(i) /\ file # Torn
        BY <2>3, LoadsFile DEF AcceptResume, Live, SeqInv
      <3>2. buf'[i] = prepare_resume(load) /\ pc'[i] = "open" /\ ~ckpt' /\ Same(i)
        BY <2>3 DEF AcceptResume, Goto
      <3>3. buf'[i].completed_nodes \subseteq ran
        BY <1>0, <3>2 DEF prepare_resume, StateFile
      <3>4. WorkInv(i)' /\ StoreInv'
        BY <2>3, <3>1, <3>2, <3>3
        DEF AcceptResume, WorkInv, PatchIsFresh, OnDisk, ErrorsAgree, InGraph, Handed,
            StartOps, NodeOps, SeqInv, StoreInv, Readable
      <3> QED
        BY <3>1, <3>2, <3>4, StepFrame DEF Live
    <2>4. CASE LoadForMark(i)
      <3>1. Live(i) /\ WorkInv(i)
        BY <2>4 DEF LoadForMark, Live, SeqInv
      <3>2. op[i] \in {"node_skipped", "node_started", "node_patch", "node_failed",
                       "graph_failed", "run_finished"}
        BY <2>4 DEF LoadForMark, Op
      <3>3. /\ buf'[i] = Marked(i, load) /\ pc[i] = "load" /\ pc'[i] = "open" /\ Same(i)
            /\ UNCHANGED <<file, ckpt, op, node, channels, patch, recorded, ran>>
        BY <2>4 DEF LoadForMark, Goto
      <3>4. node[i] \in Key /\ patch[i] \in Patch /\ channels[i] \in Channels
        OBVIOUS
      <3>5. Marked(i, load).completed_nodes \subseteq ran
        BY <1>0, <3>2, <3>4, MarkedKeeps
      <3>6. /\ op[i] \in {"node_skipped", "node_started"} => Marked(i, load).errors = load.errors
            /\ op[i] = "node_patch" => Marked(i, load).errors = (load.errors \/ patch[i] = "block")
            /\ op[i] \in {"node_failed", "graph_failed"} => Marked(i, load).errors
            /\ op[i] = "run_finished" => Marked(i, load).errors = channels[i].errors
        BY <1>0, <3>2, <3>4, MarkedKeeps
      <3>7. load = file /\ Readable /\ (ckpt => load.errors)
        BY <3>1, <3>2, <3>3, LoadsFile
      <3>8. ErrorsAgree(i)'
        BY <3>1, <3>2, <3>3, <3>6, <3>7
        DEF WorkInv, ErrorsAgree, InGraph, View, Handed, Blocks, NodeOps
      <3>9. WorkInv(i)' /\ StoreInv'
        BY <3>1, <3>2, <3>3, <3>5, <3>7, <3>8
        DEF WorkInv, PatchIsFresh, OnDisk, StartOps, SeqInv, StoreInv, Readable
      <3> QED
        BY <3>1, <3>3, <3>9, StepFrame DEF Live
    <2>5. CASE OpenFile(i)
      <3>1. Live(i) /\ WorkInv(i)
        BY <2>5 DEF OpenFile, Live, SeqInv
      <3>2. pc'[i] = "write" /\ file' = Torn /\ Same(i)
            /\ UNCHANGED <<ckpt, op, node, buf, channels, patch, recorded, ran>>
        BY <2>5 DEF OpenFile, Goto
      <3>3. ErrorsAgree(i)'
        BY <2>5, <3>1, <3>2
        DEF OpenFile, WorkInv, ErrorsAgree, InGraph, View, Handed, Blocks, NodeOps
      <3>4. WorkInv(i)'
        BY <2>5, <3>1, <3>2, <3>3, SentinelAssumption
        DEF OpenFile, WorkInv, PatchIsFresh, OnDisk, StartOps
      <3>5. StoreInv'
        BY <3>2, SentinelAssumption DEF SeqInv, StoreInv, Readable
      <3> QED
        BY <3>1, <3>2, <3>4, <3>5, StepFrame DEF Live
    <2>6. CASE WriteFile(i)
      <3>1. Live(i) /\ WorkInv(i)
        BY <2>6 DEF WriteFile, Live, SeqInv
      <3>2. /\ pc'[i] = "sync" /\ file' = buf[i] /\ Same(i)
            /\ recorded' = recorded \cup buf[i].completed_nodes
            /\ UNCHANGED <<ckpt, op, node, buf, channels, patch, ran>>
        BY <2>6 DEF WriteFile, Goto
      <3>3. Readable' /\ file' # Absent /\ file' # Torn
        <4>1. buf[i] \in StateFile
          OBVIOUS
        <4> QED
          BY <3>2, <4>1, SentinelAssumption DEF Readable
      <3>4. ErrorsAgree(i)'
        BY <2>6, <3>1, <3>2
        DEF WriteFile, WorkInv, ErrorsAgree, InGraph, View, Handed, Blocks, NodeOps
      <3>5. WorkInv(i)'
        BY <2>6, <3>1, <3>2, <3>3, <3>4 DEF WriteFile, WorkInv, PatchIsFresh, OnDisk, StartOps
      <3>6. StoreInv'
        BY <2>6, <3>1, <3>2, <3>3 DEF WriteFile, SeqInv, StoreInv, WorkInv, ErrorsAgree
      <3> QED
        BY <3>1, <3>2, <3>5, <3>6, StepFrame DEF Live
    <2>7. CASE Sync(i) \/ SyncLost(i)
      BY <2>7, ContinueSeqInv DEF Sync, SyncLost
    <2>8. CASE SyncRaises(i)
      BY <2>8, UnwindSeqInv DEF SyncRaises
    <2>9. CASE Launch(i)
      <3>1. Live(i) /\ WorkInv(i) /\ op[i] \in StartOps /\ buf[i].status = "running"
        BY <2>9 DEF Launch, Live, SeqInv, Control
      <3>2. file = buf[i] /\ Readable /\ patch[i] = "ok" /\ (ckpt => buf[i].errors)
        BY <2>9, <3>1, SentinelAssumption
        DEF Launch, WorkInv, OnDisk, PatchIsFresh, Readable, SeqInv, StoreInv
      <3>3. /\ channels'[i].status = "running" /\ (channels'[i].errors <=> buf[i].errors)
            /\ (ckpt' <=> buf[i].errors) /\ pc'[i] = "check" /\ Same(i)
            /\ UNCHANGED <<file, op, buf, patch, recorded, ran>>
        <4>1. ckpt \in BOOLEAN /\ buf[i].errors \in BOOLEAN
          BY DEF StateFile
        <4>2. (ckpt \/ buf[i].errors) = buf[i].errors
          BY <3>2, <4>1
        <4> QED
          BY <2>9, <3>1, <4>2 DEF Launch, Goto
      <3>4. ErrorsAgree(i)'
        BY <3>1, <3>2, <3>3 DEF ErrorsAgree, InGraph, View, Handed, Blocks, StartOps, NodeOps
      <3>5. WorkInv(i)' /\ StoreInv'
        BY <3>1, <3>2, <3>3, <3>4
        DEF WorkInv, PatchIsFresh, OnDisk, Readable, SeqInv, StoreInv, StartOps
      <3> QED
        BY <3>1, <3>3, <3>5, StepFrame DEF Live
    <2>10. CASE CheckNode(i)
      <3>1. Live(i) /\ WorkInv(i) /\ InGraph(i) /\ patch[i] = "ok" /\ file # Torn /\ file # Absent
        BY <2>10 DEF CheckNode, Live, SeqInv, InGraph, WorkInv, PatchIsFresh, OnDisk
      <3>2. /\ pc[i] = "check" /\ pc'[i] = "load" /\ op'[i] \in {"node_skipped", "node_started"}
            /\ Same(i)
            /\ UNCHANGED <<file, ckpt, node, buf, channels, patch, recorded, ran>>
        BY <2>10 DEF CheckNode, Enter, Goto
      <3>3. ErrorsAgree(i)'
        <4>1. file.errors <=> channels[i].errors
          <5>1. /\ op[i] # "node_failed" /\ ~Blocks(i) /\ View(i) = file
                /\ file.errors \in BOOLEAN /\ channels[i].errors \in BOOLEAN
            BY <3>1, <3>2 DEF WorkInv, PatchIsFresh, StartOps, View, Handed, Blocks, StateFile, Channels
          <5> QED
            BY <3>1, <5>1 DEF WorkInv, ErrorsAgree
        <4>2. op'[i] # "run_finished" /\ ~Handed(i)'
          BY <3>2 DEF Handed
        <4> QED
          BY <3>1, <3>2, <4>1, <4>2 DEF WorkInv, ErrorsAgree, InGraph, View, Blocks, NodeOps
      <3>4. WorkInv(i)' /\ StoreInv'
        BY <3>1, <3>2, <3>3
        DEF WorkInv, PatchIsFresh, OnDisk, Readable, SeqInv, StoreInv, StartOps
      <3> QED
        BY <3>1, <3>2, <3>4, StepFrame DEF Live
    <2>11. CASE PassNode(i) \/ RunNode(i) \/ RaiseNode(i)
      <3>1. Live(i) /\ WorkInv(i) /\ InGraph(i) /\ file # Torn /\ file # Absent /\ pc[i] = "body"
        BY <2>11 DEF PassNode, RunNode, RaiseNode, Live, SeqInv, InGraph, WorkInv, OnDisk
      <3>2. /\ pc'[i] = "load" /\ op'[i] \in {"node_patch", "node_failed"} /\ Same(i)
            /\ ran \subseteq ran'
            /\ UNCHANGED <<file, ckpt, node, buf, channels, recorded>>
        BY <2>11 DEF PassNode, RunNode, RaiseNode, Enter, Goto
      <3>3. op'[i] = "node_patch" /\ patch'[i] # "block" /\ ~channels[i].errors => node[i] \in ran'
        <4>1. channels[i].status = "blocked" => channels[i].errors
          BY <3>1 DEF WorkInv, ErrorsAgree
        <4> QED
          BY <2>11, <4>1 DEF PassNode, RunNode, RaiseNode, Enter, Goto, skip_if_blocked
      <3>4. ErrorsAgree(i)'
        <4>1. op[i] = "node_started" /\ ~Blocks(i)
          BY <3>1 DEF WorkInv, PatchIsFresh, Blocks, Handed
        <4>2. /\ file.errors <=> channels[i].errors
              /\ ckpt <=> channels[i].errors
              /\ channels[i].status = "blocked" => channels[i].errors
          <5>1. file.errors \in BOOLEAN /\ channels[i].errors \in BOOLEAN /\ View(i) = file
            BY <3>1 DEF StateFile, Channels, View
          <5> QED
            BY <3>1, <4>1, <5>1 DEF WorkInv, ErrorsAgree
        <4> QED
          BY <3>1, <3>2, <3>3, <4>2 DEF ErrorsAgree, InGraph, View, Handed, Blocks, NodeOps
      <3>5. WorkInv(i)' /\ StoreInv'
        BY <3>1, <3>2, <3>4
        DEF WorkInv, PatchIsFresh, OnDisk, Readable, SeqInv, StoreInv, StartOps
      <3> QED
        BY <3>1, <3>2, <3>5, StepFrame DEF Live
    <2>12. CASE NodeReturn(i)
      <3>1. /\ Live(i) /\ WorkInv(i) /\ InGraph(i) /\ file # Torn /\ file # Absent
            /\ pc[i] = "return" /\ op[i] \in {"node_skipped", "node_finished"} /\ patch[i] \in Patch
        BY <2>12 DEF NodeReturn, Live, SeqInv, InGraph, WorkInv, OnDisk, PatchIsFresh
      <3>2. /\ Same(i) /\ patch'[i] = "ok"
            /\ \/ pc'[i] = "check" /\ op'[i] = op[i]
               \/ pc'[i] = "load" /\ op'[i] = "run_finished"
            /\ channels'[i] = ApplyPatch(channels[i], patch[i])
            /\ ckpt' = ApplyPatch(channels[i], patch[i]).errors
            /\ UNCHANGED <<file, buf, recorded, ran>>
        BY <2>12 DEF NodeReturn, Enter, Goto
      <3>3. /\ channels'[i].status = "blocked" => channels'[i].errors
            /\ file.errors <=> channels'[i].errors
            /\ ckpt' <=> channels'[i].errors
        <4>1. /\ channels[i].status = "blocked" => channels[i].errors
              /\ file.errors <=> channels[i].errors \/ patch[i] = "block"
          BY <3>1 DEF WorkInv, ErrorsAgree, View, PatchIsFresh, StartOps, Handed, Blocks
        <4>2. channels[i] \in Channels /\ channels[i].errors \in BOOLEAN
          BY DEF Channels
        <4>3. CASE patch[i] = "ok"
          BY <3>2, <4>1, <4>2, <4>3 DEF ApplyPatch, Channels
        <4>4. CASE patch[i] = "soft"
          <5>1. ApplyPatch(channels[i], patch[i]) = [channels[i] EXCEPT !.status = "soft_failed"]
            BY <4>4 DEF ApplyPatch
          <5>2. /\ channels'[i].status = "soft_failed" /\ channels'[i].errors = channels[i].errors
                /\ ckpt' = channels[i].errors
            BY <3>2, <4>2, <5>1 DEF Channels
          <5> QED
            BY <4>1, <4>2, <4>4, <5>2
        <4>5. CASE patch[i] = "block"
          <5>1. ApplyPatch(channels[i], patch[i]) = [status |-> "blocked", errors |-> TRUE]
            BY <4>5 DEF ApplyPatch
          <5>2. channels'[i].status = "blocked" /\ channels'[i].errors /\ ckpt'
            BY <3>2, <4>2, <5>1
          <5> QED
            BY <4>1, <4>5, <5>2
        <4> QED
          BY <3>1, <4>3, <4>4, <4>5 DEF Patch
      <3>4. ErrorsAgree(i)'
        <4>1. ~Handed(i)' /\ pc'[i] \notin {"open", "write"} /\ op'[i] # "node_failed"
          BY <3>1, <3>2 DEF Handed
        <4>2. View(i)' = file
          BY <3>2, <4>1 DEF View
        <4> QED
          BY <3>2, <3>3, <4>1, <4>2 DEF ErrorsAgree, Blocks
      <3>5. WorkInv(i)' /\ StoreInv'
        BY <3>1, <3>2, <3>3, <3>4
        DEF WorkInv, PatchIsFresh, OnDisk, Readable, SeqInv, StoreInv, StartOps
      <3> QED
        BY <3>1, <3>2, <3>5, StepFrame DEF Live
    <2>13. CASE LoadCurrentNode(i)
      <3>1. Live(i) /\ WorkInv(i) /\ op[i] = "graph_failed" /\ file # Torn /\ file # Absent
        BY <2>13 DEF LoadCurrentNode, Live, SeqInv, Control, WorkInv, OnDisk
      <3>2. pc'[i] = "load" /\ Same(i) /\ UNCHANGED <<file, ckpt, op, buf, channels, patch, recorded, ran>>
        BY <2>13 DEF LoadCurrentNode, Goto
      <3>3. WorkInv(i)' /\ StoreInv'
        BY <3>1, <3>2
        DEF WorkInv, PatchIsFresh, OnDisk, ErrorsAgree, InGraph, Handed, Readable, SeqInv,
            StoreInv, StartOps, NodeOps
      <3> QED
        BY <3>1, <3>2, <3>3, StepFrame DEF Live
    <2> QED
      BY <1>2, <2>1, <2>2, <2>3, <2>4, <2>5, <2>6, <2>7, <2>8, <2>9, <2>10, <2>11, <2>12, <2>13
      DEF Step
  <1>3. CASE Crash
    <2>1. \A j \in Invocation : ~Live(j)' /\ AtRest(j)'
      BY <1>3 DEF Crash, Live, AtRest
    <2>2. StoreInv'
      BY <1>3 DEF Crash, SeqInv, StoreInv, Readable
    <2> QED
      BY <2>1, <2>2 DEF SeqInv
  <1>4. CASE UNCHANGED vars
    BY <1>4 DEF vars, local, SeqInv, Live, WorkInv, AtRest, PatchIsFresh, OnDisk,
       ErrorsAgree, View, InGraph, Handed, Blocks, StoreInv, Readable
  <1> QED
    BY <1>1, <1>2, <1>3, <1>4 DEF Next

\* In sequential use, whatever crashes and failed syncs come in between and
\* however often the run is resumed or its batch_id posted again - after a crash
\* too - completed_nodes never lists a node whose body did not run: should_skip_node
\* skips only work that was done.  The one exception is part of RecordedMeansRan: a
\* POST that met a state.json torn by a crash while the stored checkpoint had errors.
THEOREM SequentialRecordedMeansRan ==
  ASSUME ~Overlaps
  PROVE  Spec => []RecordedMeansRan
  <1> DEFINE Inv == TypeInv /\ (ErrorsKnown => SeqInv)
  <1>1. Init => Inv
    BY InitTypeInv, InitSeqInv
  <1>2. Inv /\ [Next]_vars => Inv'
    BY NextTypeInv, NextSeqInv, LostGrows DEF ErrorsKnown
  <1>3. Inv => RecordedMeansRan
    BY DEF SeqInv, StoreInv, RecordedMeansRan, ErrorsKnown
  <1> QED
    BY <1>1, <1>2, <1>3, PTL DEF Spec

-----------------------------------------------------------------------------
(* Progress.  state.json is always what was last recorded, until a POST    *)
(* meets a torn one: each method saves what it has just loaded, with at    *)
(* most its own node added.                                                *)

ProgressInv ==
  /\ Readable => recorded = file.completed_nodes
  /\ file = Absent => recorded = {}
  /\ \A i \in Invocation : Live(i) /\ pc[i] \in {"open", "write"} =>
       /\ recorded \subseteq buf[i].completed_nodes
       /\ buf[i].completed_nodes \subseteq recorded \cup (IF op[i] = "node_finished" THEN {node[i]} ELSE {})

\* The second save of mark_node_finished.
Finishes(i) ==
  /\ pc[i] = "sync" /\ op[i] = "node_patch"
  /\ buf' = [buf EXCEPT ![i] = mark_node_finished(buf[i], node[i], patch[i])]
  /\ Enter(i, "node_finished", "open")
  /\ UNCHANGED <<file, recorded, ran, ckpt, node, channels, patch>>

\* A step that brings no invocation any nearer to writing state.json.
Keeps ==
  /\ UNCHANGED <<file, recorded>>
  /\ \A j \in Invocation :
       pc'[j] \in {"open", "write"} => /\ pc[j] \in {"open", "write"}
                                       /\ op'[j] = op[j] /\ node'[j] = node[j] /\ buf'[j] = buf[j]

\* Every step is one of those by which state.json gets its contents, or keeps it.
LEMMA StepKinds ==
  ASSUME TypeInv, [Next]_vars
  PROVE  \/ \E i \in Invocation : \/ LoadRunStarted(i) \/ AcceptResume(i) \/ LoadForMark(i)
                                  \/ OpenFile(i) \/ WriteFile(i) \/ Finishes(i)
         \/ Keeps
  <1> USE DEF TypeInv, TypeOK
  <1>1. ASSUME NEW i \in Invocation, RunFlow(i) \/ ResumeFlow(i) PROVE Keeps
    BY <1>1 DEF RunFlow, ResumeFlow, Enter, Goto, Keeps
  <1>2. ASSUME NEW i \in Invocation, Retire(i), UNCHANGED <<file, recorded>> PROVE Keeps
    BY <1>2 DEF Retire, Enter, Goto, Keeps
  <1>3. ASSUME NEW i \in Invocation, pc[i] = "sync", Continue(i), UNCHANGED <<file, recorded, ran, ckpt>>
        PROVE  Finishes(i) \/ Keeps
    <2>1. CASE op[i] = "node_patch"
      BY <1>3, <2>1 DEF Continue, Finishes
    <2>2. CASE op[i] # "node_patch" /\ ~Retire(i)
      BY <1>3, <2>2 DEF Continue, Enter, Goto, Keeps
    <2> QED
      BY <1>2, <1>3, <2>1, <2>2
  <1>4. ASSUME NEW i \in Invocation, Unwind(i), UNCHANGED <<file, recorded>> PROVE Keeps
    <2>1. CASE Enter(i, "graph_failed", "who") /\ UNCHANGED <<node, buf, channels, patch>>
      BY <1>4, <2>1 DEF Enter, Goto, Keeps
    <2> QED
      BY <1>2, <1>4, <2>1 DEF Unwind
  <1>5. ASSUME NEW i \in Invocation,
               Launch(i) \/ CheckNode(i) \/ PassNode(i) \/ RunNode(i) \/ RaiseNode(i)
                 \/ NodeReturn(i) \/ LoadCurrentNode(i)
        PROVE  Keeps
    <2>1. PICK l \in {"check", "load"} : Goto(i, l)
      BY <1>5 DEF Launch, CheckNode, PassNode, RunNode, RaiseNode, NodeReturn, LoadCurrentNode, Enter
    <2>2. /\ UNCHANGED <<file, recorded, buf>>
          /\ \A j \in Invocation \ {i} : op'[j] = op[j] /\ node'[j] = node[j]
      BY <1>5 DEF Launch, CheckNode, PassNode, RunNode, RaiseNode, NodeReturn, LoadCurrentNode, Enter
    <2> QED
      BY <2>1, <2>2 DEF Goto, Keeps
  <1>6. CASE Crash
    BY <1>6 DEF Crash, Live, Keeps
  <1>7. CASE UNCHANGED vars
    BY <1>7 DEF vars, local, Keeps
  <1>8. ASSUME NEW i \in Invocation, Step(i)
        PROVE  \/ LoadRunStarted(i) \/ AcceptResume(i) \/ LoadForMark(i)
               \/ OpenFile(i) \/ WriteFile(i) \/ Finishes(i) \/ Keeps
    <2>1. CASE RefuseResume(i)
      BY <1>2, <2>1 DEF RefuseResume
    <2>2. CASE Sync(i) \/ SyncLost(i)
      BY <1>3, <2>2 DEF Sync, SyncLost
    <2>3. CASE SyncRaises(i)
      BY <1>4, <2>3 DEF SyncRaises
    <2> QED
      BY <1>5, <1>8, <2>1, <2>2, <2>3 DEF Step
  <1> QED
    BY <1>1, <1>6, <1>7, <1>8 DEF Next

LEMMA LoadProgress ==
  ASSUME ProgressInv, file # Torn
  PROVE  load.completed_nodes = recorded
  BY DEF ProgressInv, Readable, load, base_state

LEMMA InitProgressInv == Init => ProgressInv
  BY DEF Init, ProgressInv, Live, Readable

LEMMA NextProgressInv ==
  ASSUME ~Overlaps, SeqInv, TypeInv, ProgressInv, [Next]_vars, lost' = {}
  PROVE  ProgressInv'
  <1> USE DEF TypeInv, TypeOK
  <1> DEFINE Extra(i) == IF op[i] = "node_finished" THEN {node[i]} ELSE {}
             Same(i) == \A j \in Invocation \ {i} : pc'[j] = pc[j]
  <1>0. load \in StateFile
    BY LoadType
  <1>1. ASSUME NEW i \in Invocation, Live(i), Same(i),
               UNCHANGED <<file, recorded>>,
               recorded \subseteq buf'[i].completed_nodes,
               buf'[i].completed_nodes \subseteq recorded \cup Extra(i)'
        PROVE  ProgressInv'
    <2>1. \A j \in Invocation \ {i} : ~Live(j)'
      BY <1>1 DEF SeqInv, Live
    <2> QED
      BY <1>1, <2>1 DEF ProgressInv, Readable
  <1>2. ASSUME NEW i \in Invocation, LoadRunStarted(i) PROVE ProgressInv'
    <2>1. Live(i) /\ Same(i) /\ UNCHANGED <<file, recorded>> /\ file # Torn
      BY <1>2 DEF LoadRunStarted, Live, Goto
    <2>2. buf'[i].completed_nodes = recorded
      BY <1>0, <1>2, <2>1, LoadProgress DEF LoadRunStarted, mark_run_started, StateFile
    <2> QED
      BY <1>1, <2>1, <2>2
  <1>3. ASSUME NEW i \in Invocation, AcceptResume(i) PROVE ProgressInv'
    <2>1. Live(i) /\ Same(i) /\ UNCHANGED <<file, recorded>> /\ file # Torn
      BY <1>3, LoadsFile DEF AcceptResume, Live, Goto
    <2>2. buf'[i].completed_nodes = recorded
      BY <1>0, <1>3, <2>1, LoadProgress DEF AcceptResume, prepare_resume, StateFile
    <2> QED
      BY <1>1, <2>1, <2>2
  <1>4. ASSUME NEW i \in Invocation, LoadForMark(i) PROVE ProgressInv'
    <2>1. Live(i) /\ Same(i) /\ UNCHANGED <<file, recorded>> /\ file # Torn
      BY <1>4, LoadsFile DEF LoadForMark, Live, Goto
    <2>2. buf'[i] = Marked(i, load)
      BY <1>4 DEF LoadForMark
    <2>3. op[i] \in {"node_skipped", "node_started", "node_patch", "node_failed",
                     "graph_failed", "run_finished"}
      BY <1>4 DEF LoadForMark, Op
    <2>4. node[i] \in Key /\ patch[i] \in Patch /\ channels[i] \in Channels
      OBVIOUS
    <2>5. buf'[i].completed_nodes = recorded
      BY <1>0, <2>1, <2>2, <2>3, <2>4, MarkedKeeps, LoadProgress
    <2> QED
      BY <1>1, <2>1, <2>5
  <1>5. ASSUME NEW i \in Invocation, OpenFile(i) PROVE ProgressInv'
    BY <1>5, SentinelAssumption DEF OpenFile, Goto, Live, ProgressInv, Readable
  <1>6. ASSUME NEW i \in Invocation, WriteFile(i) PROVE ProgressInv'
    <2>1. Live(i) /\ pc[i] = "write" /\ Same(i) /\ pc'[i] = "sync" /\ file' = buf[i]
      BY <1>6 DEF WriteFile, Live, Goto
    <2>2. recorded \subseteq buf[i].completed_nodes /\ recorded' = recorded \cup buf[i].completed_nodes
      BY <1>6, <2>1 DEF WriteFile, ProgressInv
    <2>3. file' # Absent
      <3>1. buf[i] \in StateFile
        OBVIOUS
      <3> QED
        BY <2>1, <3>1, SentinelAssumption
    <2>4. \A j \in Invocation \ {i} : ~Live(j)'
      BY <2>1 DEF SeqInv, Live
    <2> QED
      BY <2>1, <2>2, <2>3, <2>4 DEF ProgressInv
  <1>7. ASSUME NEW i \in Invocation, Finishes(i) PROVE ProgressInv'
    <2>1. Live(i) /\ Same(i) /\ UNCHANGED <<file, recorded, node>> /\ op'[i] = "node_finished"
      BY <1>7 DEF Finishes, Enter, Goto, Live
    <2>2. Readable /\ file = buf[i]
      BY <1>7, <2>1, LoadsFile DEF Finishes, SeqInv, WorkInv, OnDisk
    <2>3. buf'[i] = mark_node_finished(buf[i], node[i], patch[i]) /\ buf[i] \in StateFile
      BY <1>7 DEF Finishes
    <2>4. /\ buf[i].completed_nodes \subseteq buf'[i].completed_nodes
          /\ buf'[i].completed_nodes \subseteq buf[i].completed_nodes \cup {node[i]}
      BY <2>3 DEF mark_node_finished, StateFile
    <2>5. recorded = buf[i].completed_nodes
      BY <2>2 DEF ProgressInv
    <2> QED
      BY <1>1, <2>1, <2>4, <2>5
  <1>8. CASE Keeps
    BY <1>8 DEF Keeps, ProgressInv, Readable, Live
  <1> QED
    BY <1>2, <1>3, <1>4, <1>5, <1>6, <1>7, <1>8, StepKinds

\* In sequential use a node once saved as completed is in every later state.json,
\* through resumes, POSTs, crashes and failed syncs: no mark_* method drops what an
\* earlier one recorded.  The one exception is part of ProgressKept: a POST that met
\* a state.json torn by a crash.
THEOREM SequentialProgressKept ==
  ASSUME ~Overlaps
  PROVE  Spec => []ProgressKept
  <1> DEFINE Inv == TypeInv /\ (ErrorsKnown => SeqInv) /\ (lost = {} => ProgressInv)
  <1>1. Init => Inv
    BY InitTypeInv, InitSeqInv, InitProgressInv
  <1>2. Inv /\ [Next]_vars => Inv'
    BY NextTypeInv, NextSeqInv, NextProgressInv, LostGrows DEF ErrorsKnown
  <1>3. Inv => ProgressKept
    BY DEF ProgressInv, ProgressKept
  <1> QED
    BY <1>1, <1>2, <1>3, PTL DEF Spec

-----------------------------------------------------------------------------
(* Without a crash nothing is lost: state.json is torn only while somebody *)
(* writes it, and then nobody else is at work.                             *)

TornInv == crashes = 0 => lost = {} /\ (file = Torn => \E i \in Invocation : pc[i] = "write")

LEMMA InitTornInv == Init => TornInv
  BY SentinelAssumption DEF Init, TornInv

LEMMA NextTornInv ==
  ASSUME ~Overlaps, TypeInv, ErrorsKnown => SeqInv, TornInv, [Next]_vars
  PROVE  TornInv'
  <1> USE DEF TypeInv, TypeOK
  <1> SUFFICES ASSUME crashes' = 0
               PROVE  lost' = {} /\ (file' = Torn => \E i \in Invocation : pc'[i] = "write")
    BY DEF TornInv
  <1>1. crashes = 0
    <2>1. crashes' \in {crashes, crashes + 1}
      BY DEF Next, Step, RunFlow, ResumeFlow, LoadRunStarted, RefuseResume, AcceptResume, LoadForMark,
         OpenFile, WriteFile, Sync, SyncLost, SyncRaises, Launch, CheckNode, PassNode, RunNode,
         RaiseNode, NodeReturn, LoadCurrentNode, Crash, vars
    <2> QED
      BY <2>1, EnvironmentAssumption
  <1>2. lost = {} /\ SeqInv
    BY <1>1 DEF TornInv, ErrorsKnown
  <1>3. lost' = {}
    <2>1. ASSUME NEW i \in Invocation, LoadRunStarted(i) PROVE file # Torn
      <3>1. pc[i] = "load" /\ \A j \in Invocation : pc[j] = "write" => j = i
        BY <1>2, <2>1 DEF LoadRunStarted, SeqInv, Live
      <3> QED
        BY <1>1, <3>1 DEF TornInv
    <2> QED
      BY <1>2, <2>1, LostGrows DEF LoadRunStarted
  \* A step that leaves the file and whoever writes it alone.
  <1>4. ASSUME NEW i \in Invocation, pc[i] # "write", \A j \in Invocation \ {i} : pc'[j] = pc[j],
               UNCHANGED file
        PROVE  file' = Torn => \E j \in Invocation : pc'[j] = "write"
    BY <1>1, <1>4 DEF TornInv
  <1>5. ASSUME NEW i \in Invocation, RunFlow(i) \/ ResumeFlow(i) \/ Step(i)
        PROVE  file' = Torn => \E j \in Invocation : pc'[j] = "write"
    <2>1. CASE OpenFile(i)
      BY <2>1 DEF OpenFile, Goto
    <2>2. CASE WriteFile(i)
      <3>1. file' \in StateFile
        BY <2>2 DEF WriteFile
      <3> QED
        BY <3>1, SentinelAssumption
    <2>3. CASE ~OpenFile(i) /\ ~WriteFile(i)
      <3>1. UNCHANGED file /\ pc[i] # "write"
        BY <1>5, <2>3
        DEF Step, RunFlow, ResumeFlow, MayRequest, LoadRunStarted, RefuseResume, AcceptResume,
            LoadForMark, Sync, SyncLost, SyncRaises, Launch, CheckNode, PassNode, RunNode, RaiseNode,
            NodeReturn, LoadCurrentNode
      <3>2. \E l \in PC : Goto(i, l)
        BY <1>5, <2>3
        DEF Step, RunFlow, ResumeFlow, LoadRunStarted, RefuseResume, AcceptResume,
            LoadForMark, Sync, SyncLost, SyncRaises, Launch, CheckNode, PassNode, RunNode, RaiseNode,
            NodeReturn, LoadCurrentNode, Continue, Unwind, Retire, Enter, PC
      <3>3. \A j \in Invocation \ {i} : pc'[j] = pc[j]
        BY <3>2 DEF Goto
      <3> QED
        BY <1>4, <3>1, <3>3
    <2> QED
      BY <2>1, <2>2, <2>3
  <1>6. ~Crash
    BY <1>1, EnvironmentAssumption DEF Crash
  <1>7. CASE UNCHANGED vars
    BY <1>1, <1>7 DEF vars, local, TornInv
  <1> QED
    BY <1>3, <1>5, <1>6, <1>7 DEF Next

-----------------------------------------------------------------------------
(* The row of workflow_runs follows state.json while nothing fails.        *)

RowInv ==
  crashes = 0 /\ faults = 0 /\ Readable /\ (\A i \in Invocation : pc[i] # "sync")
    => row = RunRow(file)

LEMMA InitRowInv == Init => RowInv
  BY DEF Init, RowInv, Readable

LEMMA NextRowInv ==
  ASSUME ~Overlaps, ErrorsKnown => SeqInv, TornInv, TornInv', TypeInv, RowInv, [Next]_vars
  PROVE  RowInv'
  <1> USE DEF TypeInv, TypeOK
  <1> SUFFICES ASSUME crashes' = 0 PROVE RowInv'
    BY DEF RowInv
  <1>0. SeqInv
    BY LostGrows DEF TornInv, ErrorsKnown
  <1>1. ASSUME NEW i \in Invocation, pc'[i] = "sync" PROVE RowInv'
    BY <1>1 DEF RowInv
  <1>2. CASE crashes' # 0 \/ faults' # 0
    BY <1>2 DEF RowInv
  \* A step of the one that is at work, which is not in its sync.
  <1>3. ASSUME NEW i \in Invocation, pc[i] # "sync", Live(i) \/ Quiet,
               UNCHANGED <<file, row, crashes, faults>>
        PROVE  RowInv'
    <2>1. \A j \in Invocation : pc[j] # "sync"
      BY <1>0, <1>3 DEF SeqInv, Live, Quiet
    <2> QED
      BY <1>3, <2>1 DEF RowInv, Readable
  <1>4. ASSUME NEW i \in Invocation, RunFlow(i) \/ ResumeFlow(i) PROVE RowInv'
    BY <1>3, <1>4 DEF RunFlow, ResumeFlow, MayRequest, Quiet
  <1>5. ASSUME NEW i \in Invocation, Step(i) PROVE RowInv'
    <2>1. CASE LoadRunStarted(i) \/ RefuseResume(i) \/ AcceptResume(i) \/ LoadForMark(i)
      BY <1>3, <2>1 DEF LoadRunStarted, RefuseResume, AcceptResume, LoadForMark, Live
    <2>2. CASE OpenFile(i)
      BY <2>2 DEF OpenFile, RowInv, Readable
    <2>3. CASE WriteFile(i)
      <3>1. pc'[i] = "sync"
        BY <2>3 DEF WriteFile, Goto
      <3> QED
        BY <1>1, <3>1
    <2>4. CASE Sync(i)
      <3>1. file = buf[i]
        BY <1>0, <2>4 DEF Sync, SeqInv, Live, WorkInv, OnDisk
      <3> QED
        BY <2>4, <3>1 DEF Sync, RowInv
    <2>5. CASE SyncLost(i) \/ SyncRaises(i)
      <3>1. faults' = faults + 1
        BY <2>5 DEF SyncLost, SyncRaises
      <3>2. faults' # 0
        BY <3>1, EnvironmentAssumption
      <3> QED
        BY <1>2, <3>2
    <2>6. CASE Launch(i) \/ CheckNode(i) \/ PassNode(i) \/ RunNode(i) \/ RaiseNode(i)
               \/ NodeReturn(i) \/ LoadCurrentNode(i)
      BY <1>3, <2>6
      DEF Launch, CheckNode, PassNode, RunNode, RaiseNode, NodeReturn, LoadCurrentNode, Live
    <2> QED
      BY <1>5, <2>1, <2>2, <2>3, <2>4, <2>5, <2>6 DEF Step
  <1>6. CASE Crash
    <2>1. crashes' # 0
      BY <1>6 DEF Crash
    <2> QED
      BY <1>2, <2>1
  <1>7. CASE UNCHANGED vars
    BY <1>7 DEF vars, local, RowInv, Readable
  <1> QED
    BY <1>4, <1>5, <1>6, <1>7 DEF Next

-----------------------------------------------------------------------------
(* Completion.  While no error is in the run, every node behind the one    *)
(* that is being worked on is done: it ended completed or soft-failed, its *)
(* body ran, and it is recorded unless it may fail softly.                 *)

Done(s, k) ==
  /\ s.node_statuses[k] \in {"completed", "soft_failed"}
  /\ k \in ran
  /\ k \in s.completed_nodes \cup SoftNodes

Whole(s) == s.status = "completed" => ~s.errors /\ \A k \in Node : Done(s, k)

\* The nodes that the state i works on should list as done.
Behind(i) ==
  IF pc[i] \in {"open", "write", "sync", "return"} /\ op[i] \in {"node_skipped", "node_finished"}
    THEN 1..node[i] ELSE 1..(node[i] - 1)

ChainWork(i) ==
  /\ pc[i] \in {"open", "write"} => Whole(buf[i])
  /\ Handed(i) /\ patch[i] = "soft" => node[i] \in SoftNodes
  /\ op[i] = "node_skipped" /\ pc[i] = "load" => node[i] \in file.completed_nodes
  /\ InGraph(i) => View(i).status # "completed"
  /\ InGraph(i) /\ op[i] # "node_failed" /\ ~View(i).errors => \A k \in Behind(i) : Done(View(i), k)
  /\ op[i] = "run_finished" /\ pc[i] = "load" /\ ~file.errors => \A k \in Node : Done(file, k)

ChainInv ==
  /\ Readable => Whole(file)
  /\ \A i \in Invocation : Live(i) => ChainWork(i)

LEMMA InitChainInv == Init => ChainInv
  BY DEF Init, ChainInv, Live, Readable

LEMMA ChainFrame ==
  ASSUME SeqInv, TypeInv, ChainInv, NEW i \in Invocation, Live(i),
         \A j \in Invocation \ {i} : pc'[j] = pc[j],
         UNCHANGED file, ran \subseteq ran',
         Live(i)' => ChainWork(i)'
  PROVE  ChainInv'
  <1>1. \A j \in Invocation \ {i} : ~Live(j)'
    BY DEF SeqInv, Live
  <1>2. Readable' => Whole(file)'
    BY DEF ChainInv, Readable, Whole, Done
  <1> QED
    BY <1>1, <1>2 DEF ChainInv

\* What the methods do to the entries of the nodes and to the status.
LEMMA SkipStatuses ==
  ASSUME NEW s \in StateFile, NEW n \in Key
  PROVE  /\ mark_node_skipped(s, n).status = s.status
         /\ mark_node_skipped(s, n).node_statuses = [s.node_statuses EXCEPT ![n] = "completed"]
  BY DEF mark_node_skipped, StateFile

LEMMA StartStatuses ==
  ASSUME NEW s \in StateFile, NEW n \in Key
  PROVE  /\ mark_node_started(s, n).status = "running"
         /\ mark_node_started(s, n).node_statuses = [s.node_statuses EXCEPT ![n] = "running"]
  BY DEF mark_node_started, StateFile

LEMMA MergeStatuses ==
  ASSUME NEW s \in StateFile, NEW p \in Patch
  PROVE  /\ merge_state(s, p).node_statuses = s.node_statuses
         /\ merge_state(s, p).status \in {s.status, "soft_failed", "blocked"}
  BY DEF merge_state, StateFile, Patch

LEMMA FailStatus ==
  ASSUME NEW s \in StateFile, NEW n \in Key
  PROVE  mark_node_failed(s, n).status = "failed"
  BY DEF mark_node_failed, StateFile

LEMMA RunStatuses ==
  ASSUME NEW s \in StateFile, NEW c \in Channels
  PROVE  /\ mark_run_finished(s, c).node_statuses = s.node_statuses
         /\ mark_run_finished(s, c).status = "completed" => ~c.errors
  BY DEF mark_run_finished, StateFile, Channels

\* A node that mark_node_finished handles in a run without errors is done, and
\* the entries of the others stay as they are.
LEMMA FinishStatuses ==
  ASSUME NEW s \in StateFile, NEW n \in Node, NEW p \in Patch
  PROVE  /\ mark_node_finished(s, n, p).status # "completed"
         /\ \A k \in Node \ {n} :
              mark_node_finished(s, n, p).node_statuses[k] = s.node_statuses[k]
         /\ s.completed_nodes \subseteq mark_node_finished(s, n, p).completed_nodes
         /\ ~s.errors =>
              /\ mark_node_finished(s, n, p).node_statuses[n] \in {"completed", "soft_failed"}
              /\ p # "soft" => n \in mark_node_finished(s, n, p).completed_nodes
  <1> DEFINE st == FinishedNodeStatus(s, p)
             r == mark_node_finished(s, n, p)
  <1>1. /\ st \in {"completed", "soft_failed", "blocked"}
        /\ ~s.errors => st \in {"completed", "soft_failed"} /\ (p # "soft" => st = "completed")
    BY DEF FinishedNodeStatus, StateFile
  <1>2. /\ r.status \in {"running", "blocked"}
        /\ r.node_statuses = [s.node_statuses EXCEPT ![n] = st]
        /\ r.completed_nodes = IF st = "completed" THEN s.completed_nodes \cup {n} ELSE s.completed_nodes
    BY DEF mark_node_finished, StateFile
  <1>3. s.node_statuses \in [Key -> NodeStatus] /\ Node \subseteq Key
    BY DEF StateFile, Key
  <1> HIDE DEF st, r
  <1>4. /\ r.status # "completed"
        /\ \A k \in Node \ {n} : r.node_statuses[k] = s.node_statuses[k]
        /\ s.completed_nodes \subseteq r.completed_nodes
        /\ ~s.errors => /\ r.node_statuses[n] \in {"completed", "soft_failed"}
                        /\ p # "soft" => n \in r.completed_nodes
    BY <1>1, <1>2, <1>3
  <1> QED
    BY <1>4 DEF r

LEMMA ChainLoadForMark ==
  ASSUME SeqInv, TypeInv, ChainInv, NEW i \in Invocation, LoadForMark(i)
  PROVE  ChainInv'
  <1> USE DEF TypeInv, TypeOK
  <1>1. /\ Live(i) /\ pc[i] = "load" /\ pc'[i] = "open" /\ buf'[i] = Marked(i, load)
        /\ \A j \in Invocation \ {i} : pc'[j] = pc[j]
        /\ UNCHANGED <<file, op, node, channels, patch, ran>>
    BY DEF LoadForMark, Live, Goto
  <1>2. op[i] \in {"node_skipped", "node_started", "node_patch", "node_failed",
                   "graph_failed", "run_finished"}
    BY DEF LoadForMark, Op
  <1>3. load = file /\ file \in StateFile /\ ChainWork(i) /\ WorkInv(i)
    BY <1>1, <1>2, LoadsFile, LoadType DEF ChainInv, SeqInv
  <1>4. node[i] \in Key /\ patch[i] \in Patch /\ channels[i] \in Channels
    OBVIOUS
  <1>5. buf'[i] = Marked(i, file)
    BY <1>1, <1>3
  <1>6. /\ buf'[i].completed_nodes = file.completed_nodes
        /\ op[i] # "run_finished" /\ file.errors => buf'[i].errors
        /\ op[i] = "run_finished" => buf'[i].errors = channels[i].errors
    BY <1>2, <1>3, <1>4, <1>5, MarkedKeeps
  <1>7. View(i) = file /\ View(i)' = buf'[i]
    BY <1>1 DEF View
  <1>8. /\ op[i] \in NodeOps => node[i] \in Node /\ file.status # "completed"
        /\ op[i] \in NodeOps \ {"node_failed"} /\ ~buf'[i].errors
             => \A k \in 1..(node[i] - 1) : Done(file, k)
    BY <1>1, <1>3, <1>6, <1>7 DEF ChainWork, InGraph, Behind, NodeOps, Control
  <1>9. ASSUME op[i] # "run_finished",
               buf'[i].status # "completed",
               op[i] \in NodeOps \ {"node_failed"} /\ ~buf'[i].errors
                 => \A k \in Behind(i)' : Done(buf[i], k)'
        PROVE  ChainInv'
    <2>1. ChainWork(i)'
      <3>1. Whole(buf[i])'
        BY <1>9 DEF Whole
      <3>2. InGraph(i)' => op[i] \in NodeOps
        BY <1>1 DEF InGraph
      <3>3. Handed(i)' /\ patch'[i] = "soft" => node'[i] \in SoftNodes
        BY <1>1, <1>3 DEF ChainWork, Handed
      <3> QED
        BY <1>1, <1>7, <1>9, <3>1, <3>2, <3>3 DEF ChainWork
    <2> QED
      BY <1>1, <2>1, ChainFrame
  \* The entries of the nodes behind are not touched.
  <1>10. ASSUME op[i] \in NodeOps \ {"node_failed"}, ~buf'[i].errors, NEW k \in 1..(node[i] - 1),
                buf'[i].node_statuses[k] = file.node_statuses[k]
         PROVE  Done(buf[i], k)'
    BY <1>1, <1>6, <1>8, <1>10 DEF Done
  <1>11. file.node_statuses \in [Key -> NodeStatus]
    BY <1>3 DEF StateFile
  <1>12. \A k \in 1..(node[i] - 1) : node[i] \in Node => k \in Key /\ k # node[i]
    BY NodeCountAssumption DEF Key, Node
  <1>13. CASE op[i] = "node_skipped"
    <2>1. buf'[i] = mark_node_skipped(file, node[i])
      BY <1>5, <1>13 DEF Marked
    <2>2. /\ buf'[i].status = file.status
          /\ buf'[i].node_statuses = [file.node_statuses EXCEPT ![node[i]] = "completed"]
      <3>1. /\ mark_node_skipped(file, node[i]).status = file.status
            /\ mark_node_skipped(file, node[i]).node_statuses
                 = [file.node_statuses EXCEPT ![node[i]] = "completed"]
        BY <1>3, <1>4, SkipStatuses
      <3> QED
        BY <2>1, <3>1
    <2>3. node[i] \in Node /\ node[i] \in Key /\ node[i] \in file.completed_nodes /\ node[i] \in ran
      BY <1>1, <1>3, <1>8, <1>13, LoadRan DEF ChainWork, NodeOps, Key
    <2>4. Done(buf[i], node[i])'
      <3>1. buf'[i].node_statuses[node[i]] = "completed"
        BY <1>11, <2>2, <2>3
      <3> QED
        BY <1>1, <1>6, <2>3, <3>1 DEF Done
    <2>5. ~buf'[i].errors => \A k \in 1..node[i] : Done(buf[i], k)'
      <3> SUFFICES ASSUME ~buf'[i].errors, NEW k \in 1..node[i] PROVE Done(buf[i], k)'
        OBVIOUS
      <3>1. CASE k = node[i]
        BY <1>1, <2>4, <3>1
      <3>2. CASE k # node[i]
        <4>1. k \in 1..(node[i] - 1)
          BY <2>3, <3>2, NodeCountAssumption DEF Node
        <4>2. buf'[i].node_statuses[k] = file.node_statuses[k]
          BY <1>11, <1>12, <2>2, <2>3, <4>1
        <4> QED
          BY <1>10, <1>13, <4>1, <4>2 DEF NodeOps
      <3> QED
        BY <3>1, <3>2
    <2>6. Behind(i)' = 1..node[i]
      BY <1>1, <1>13 DEF Behind
    <2> QED
      BY <1>8, <1>9, <1>13, <2>2, <2>5, <2>6 DEF NodeOps
  <1>14. CASE op[i] = "node_started"
    <2>1. buf'[i] = mark_node_started(file, node[i])
      BY <1>5, <1>14 DEF Marked
    <2>2. /\ buf'[i].status = "running"
          /\ buf'[i].node_statuses = [file.node_statuses EXCEPT ![node[i]] = "running"]
      <3>1. /\ mark_node_started(file, node[i]).status = "running"
            /\ mark_node_started(file, node[i]).node_statuses
                 = [file.node_statuses EXCEPT ![node[i]] = "running"]
        BY <1>3, <1>4, StartStatuses
      <3> QED
        BY <2>1, <3>1
    <2>3. ASSUME NEW k \in 1..(node[i] - 1) PROVE buf'[i].node_statuses[k] = file.node_statuses[k]
      BY <1>8, <1>11, <1>12, <1>14, <2>2 DEF NodeOps
    <2>4. Behind(i)' = 1..(node[i] - 1)
      BY <1>1, <1>14 DEF Behind
    <2> QED
      BY <1>9, <1>10, <1>14, <2>2, <2>3, <2>4 DEF NodeOps
  <1>15. CASE op[i] = "node_patch"
    <2>1. buf'[i] = merge_state(file, patch[i])
      BY <1>5, <1>15 DEF Marked
    <2>2. /\ buf'[i].status # "completed"
          /\ buf'[i].node_statuses = file.node_statuses
      <3>1. /\ merge_state(file, patch[i]).status \in {file.status, "soft_failed", "blocked"}
            /\ merge_state(file, patch[i]).node_statuses = file.node_statuses
        BY <1>3, <1>4, MergeStatuses
      <3> QED
        BY <1>8, <1>15, <2>1, <3>1 DEF NodeOps
    <2>3. Behind(i)' = 1..(node[i] - 1)
      BY <1>1, <1>15 DEF Behind
    <2> QED
      BY <1>9, <1>10, <1>15, <2>2, <2>3 DEF NodeOps
  <1>16. CASE op[i] \in {"node_failed", "graph_failed"}
    <2>1. buf'[i] = mark_node_failed(file, node[i])
      BY <1>5, <1>16 DEF Marked
    <2>2. mark_node_failed(file, node[i]).status = "failed"
      BY <1>3, <1>4, FailStatus
    <2> QED
      BY <1>9, <1>16, <2>1, <2>2 DEF NodeOps
  <1>17. CASE op[i] = "run_finished"
    <2>1. buf'[i] = mark_run_finished(file, channels[i])
      BY <1>5, <1>17 DEF Marked
    <2>2. /\ buf'[i].node_statuses = file.node_statuses
          /\ buf'[i].status = "completed" => ~channels[i].errors
      <3>1. /\ mark_run_finished(file, channels[i]).node_statuses = file.node_statuses
            /\ mark_run_finished(file, channels[i]).status = "completed" => ~channels[i].errors
        BY <1>3, <1>4, RunStatuses
      <3> QED
        BY <2>1, <3>1
    <2>3. ~channels[i].errors => \A k \in Node : Done(file, k)
      BY <1>1, <1>3, <1>17 DEF ChainWork, WorkInv, ErrorsAgree
    <2>4. Whole(buf[i])'
      BY <1>1, <1>6, <1>17, <2>2, <2>3 DEF Whole, Done
    <2>5. ChainWork(i)'
      BY <1>1, <1>17, <2>4 DEF ChainWork, InGraph, Handed, NodeOps
    <2> QED
      BY <1>1, <2>5, ChainFrame
  <1> QED
    BY <1>2, <1>13, <1>14, <1>15, <1>16, <1>17

LEMMA ChainFinishes ==
  ASSUME SeqInv, TypeInv, ChainInv, NEW i \in Invocation, Finishes(i)
  PROVE  ChainInv'
  <1> USE DEF TypeInv, TypeOK
  <1>1. /\ Live(i) /\ pc[i] = "sync" /\ op[i] = "node_patch"
        /\ pc'[i] = "open" /\ op'[i] = "node_finished"
        /\ \A j \in Invocation \ {i} : pc'[j] = pc[j]
        /\ buf'[i] = mark_node_finished(buf[i], node[i], patch[i])
        /\ UNCHANGED <<file, node, channels, patch, ran>>
    BY DEF Finishes, Enter, Goto, Live
  <1>2. file = buf[i] /\ ChainWork(i) /\ WorkInv(i)
    BY <1>1 DEF ChainInv, SeqInv, WorkInv, OnDisk
  <1>3. node[i] \in Node /\ buf[i] \in StateFile /\ patch[i] \in Patch
    BY <1>1 DEF Control, NodeOps
  <1>4. /\ buf'[i].status # "completed"
        /\ \A k \in Node \ {node[i]} : buf'[i].node_statuses[k] = buf[i].node_statuses[k]
        /\ buf[i].completed_nodes \subseteq buf'[i].completed_nodes
        /\ ~buf[i].errors => /\ buf'[i].node_statuses[node[i]] \in {"completed", "soft_failed"}
                             /\ patch[i] # "soft" => node[i] \in buf'[i].completed_nodes
    BY <1>1, <1>3, FinishStatuses
  <1>5. View(i) = buf[i] /\ View(i)' = buf'[i] /\ InGraph(i) /\ Behind(i) = 1..(node[i] - 1)
        /\ Behind(i)' = 1..node[i] /\ Handed(i)
    BY <1>1, <1>2 DEF View, InGraph, NodeOps, Behind, Handed
  <1>6. ~buf[i].errors => /\ node[i] \in ran
                          /\ \A k \in 1..(node[i] - 1) : Done(buf[i], k)
    <2>1. ~buf[i].errors => ~channels[i].errors /\ patch[i] # "block"
      BY <1>1, <1>2, <1>5 DEF WorkInv, ErrorsAgree, Blocks
    <2> QED
      BY <1>1, <1>2, <1>5, <2>1 DEF WorkInv, ErrorsAgree, ChainWork
  <1>7. buf'[i].errors <=> buf[i].errors
    BY <1>1, <1>3 DEF mark_node_finished, StateFile
  <1>8. ASSUME ~buf'[i].errors, NEW k \in 1..node[i] PROVE Done(buf[i], k)'
    <2>1. CASE k = node[i]
      <3>1. patch[i] = "soft" => node[i] \in SoftNodes
        BY <1>2, <1>5 DEF ChainWork
      <3> QED
        BY <1>1, <1>4, <1>6, <1>7, <1>8, <2>1, <3>1 DEF Done
    <2>2. CASE k # node[i]
      <3>1. k \in 1..(node[i] - 1) /\ k \in Node \ {node[i]}
        BY <1>3, <2>2, NodeCountAssumption DEF Node
      <3> QED
        BY <1>1, <1>4, <1>6, <1>7, <1>8, <3>1 DEF Done
    <2> QED
      BY <2>1, <2>2
  <1>9. ChainWork(i)'
    <2>1. Handed(i)' /\ patch'[i] = "soft" => node'[i] \in SoftNodes
      BY <1>1, <1>2, <1>5 DEF ChainWork
    <2> QED
      BY <1>1, <1>4, <1>5, <1>8, <2>1 DEF ChainWork, Whole
  <1> QED
    BY <1>1, <1>9, ChainFrame

LEMMA NextChainInv ==
  ASSUME ~Overlaps, SeqInv, TypeInv, ChainInv, [Next]_vars
  PROVE  ChainInv'
  <1> USE DEF TypeInv, TypeOK
  <1> DEFINE Same(i) == \A j \in Invocation \ {i} : pc'[j] = pc[j]
  <1>1. ASSUME NEW i \in Invocation, RunFlow(i) \/ ResumeFlow(i) PROVE ChainInv'
    <2>1. \A j \in Invocation : ~Live(j)
      BY <1>1 DEF RunFlow, ResumeFlow, MayRequest
    <2>2. /\ pc'[i] = "load" /\ op'[i] \in StartOps /\ Same(i)
          /\ UNCHANGED <<file, ran>>
      BY <1>1 DEF RunFlow, ResumeFlow, Enter, Goto, StartOps
    <2>3. ChainWork(i)'
      BY <2>2 DEF ChainWork, InGraph, Handed, StartOps, NodeOps
    <2>4. \A j \in Invocation \ {i} : ~Live(j)'
      BY <2>1, <2>2 DEF Live
    <2> QED
      BY <2>2, <2>3, <2>4 DEF ChainInv, Readable, Whole, Done
  <1>2. ASSUME NEW i \in Invocation, Step(i) PROVE ChainInv'
    \* Steps after which i is not in the graph and has no state to save.
    <2>1. ASSUME Live(i), Same(i), UNCHANGED <<file, ran>>,
                 Live(i)' => /\ pc'[i] \notin {"open", "write", "check", "body", "return"}
                             /\ op'[i] \in StartOps \cup {"graph_failed"}
          PROVE  ChainInv'
      <3>1. Live(i)' => ChainWork(i)'
        BY <2>1 DEF ChainWork, InGraph, Handed, StartOps, NodeOps
      <3> QED
        BY <2>1, <3>1, ChainFrame
    <2>2. ASSUME Retire(i), Live(i), UNCHANGED <<file, ran>> PROVE ChainInv'
      <3>1. ~Live(i)' /\ Same(i)
        BY <2>2 DEF Retire, Enter, Goto, Live
      <3> QED
        BY <2>1, <2>2, <3>1
    <2>3. CASE LoadRunStarted(i) \/ AcceptResume(i)
      <3>1. Live(i) /\ Same(i) /\ pc'[i] = "open" /\ op'[i] \in StartOps /\ UNCHANGED <<file, ran>>
        BY <2>3 DEF LoadRunStarted, AcceptResume, Goto, Live, StartOps
      <3>2. buf'[i].status = "running"
        <4>1. TypeInv'
          BY NextTypeInv
        <4> QED
          BY <3>1, <4>1 DEF Control
      <3>3. ChainWork(i)'
        BY <3>1, <3>2 DEF ChainWork, InGraph, Handed, Whole, StartOps, NodeOps
      <3> QED
        BY <3>1, <3>3, ChainFrame
    <2>4. CASE RefuseResume(i)
      BY <2>2, <2>4 DEF RefuseResume, Live
    <2>5. CASE LoadForMark(i)
      BY <2>5, ChainLoadForMark
    <2>6. CASE OpenFile(i) \/ WriteFile(i)
      <3>1. /\ Live(i) /\ Same(i) /\ pc[i] \in {"open", "write"} /\ ChainWork(i) /\ View(i) = buf[i]
            /\ UNCHANGED <<op, node, channels, patch, ran, buf>>
        BY <2>6 DEF OpenFile, WriteFile, Goto, Live, ChainInv, View
      <3>2. \/ pc'[i] = "write" /\ file' = Torn
            \/ pc'[i] = "sync" /\ file' = buf[i]
        BY <2>6 DEF OpenFile, WriteFile, Goto
      <3>3. View(i)' = buf[i]
        BY <3>1, <3>2 DEF View
      <3>4. (InGraph(i)' <=> InGraph(i)) /\ (Handed(i)' <=> Handed(i)) /\ Behind(i)' = Behind(i)
        BY <3>1, <3>2 DEF InGraph, Handed, Behind
      <3>5. ChainWork(i)'
        BY <3>1, <3>2, <3>3, <3>4 DEF ChainWork, Whole, Done
      <3>6. Readable' => Whole(file)'
        BY <3>1, <3>2 DEF Readable, ChainWork, Whole, Done
      <3>7. \A j \in Invocation \ {i} : ~Live(j)'
        BY <3>1 DEF SeqInv, Live
      <3> QED
        BY <3>5, <3>6, <3>7 DEF ChainInv
    <2>7. ASSUME pc[i] = "sync", Continue(i), UNCHANGED <<file, ckpt, recorded, ran>> PROVE ChainInv'
      <3>1. Live(i) /\ ChainWork(i) /\ View(i) = file
        BY <2>7 DEF Live, ChainInv, View
      <3>2. CASE op[i] \in StartOps
        BY <2>1, <2>7, <3>1, <3>2 DEF Continue, Goto, StartOps
      <3>3. CASE op[i] \in {"node_started", "node_skipped", "node_finished"}
        <4>1. PICK l \in {"body", "return"} :
                 /\ l = "return" => op[i] \in {"node_skipped", "node_finished"}
                 /\ l = "body" => op[i] = "node_started"
                 /\ Goto(i, l)
                 /\ UNCHANGED <<op, node, buf, channels, patch>>
          BY <2>7, <3>3 DEF Continue
        <4>2. /\ Same(i) /\ pc'[i] \in {"body", "return"} /\ View(i)' = file
              /\ InGraph(i) /\ Behind(i)' = Behind(i) /\ (Handed(i)' <=> Handed(i))
          BY <2>7, <3>3, <4>1 DEF Goto, View, InGraph, NodeOps, Behind, Handed
        <4>3. ChainWork(i)'
          BY <2>7, <3>1, <3>3, <4>1, <4>2 DEF ChainWork, Done
        <4> QED
          BY <2>7, <3>1, <4>2, <4>3, ChainFrame
      <3>4. CASE op[i] = "node_patch"
        <4>1. Finishes(i)
          BY <2>7, <3>4 DEF Continue, Finishes
        <4> QED
          BY <4>1, ChainFinishes
      <3>5. CASE op[i] = "node_failed"
        BY <2>1, <2>7, <3>1, <3>5 DEF Continue, Enter, Goto
      <3>6. CASE op[i] \in {"graph_failed", "run_finished"}
        BY <2>2, <2>7, <3>1, <3>6 DEF Continue
      <3> QED
        BY <2>7, <3>2, <3>3, <3>4, <3>5, <3>6 DEF Continue, StartOps
    <2>8. CASE Sync(i) \/ SyncLost(i)
      BY <2>7, <2>8 DEF Sync, SyncLost
    <2>9. CASE SyncRaises(i)
      <3>1. CASE Enter(i, "graph_failed", "who")
        BY <2>1, <2>9, <3>1 DEF SyncRaises, Enter, Goto, Live
      <3>2. CASE Retire(i)
        BY <2>2, <2>9, <3>2 DEF SyncRaises, Live
      <3> QED
        BY <2>9, <3>1, <3>2 DEF SyncRaises, Unwind
    <2>10. CASE Launch(i)
      <3>1. /\ Live(i) /\ Same(i) /\ pc'[i] = "check" /\ op'[i] \in StartOps /\ node'[i] = 1
            /\ file = buf[i] /\ buf[i].status = "running"
            /\ UNCHANGED <<file, ran>>
        BY <2>10 DEF Launch, Goto, Live, Control, SeqInv, WorkInv, OnDisk
      <3>2. Behind(i)' = {} /\ View(i)' = file /\ ~Handed(i)'
        BY <3>1 DEF Behind, View, Handed
      <3>3. ChainWork(i)'
        BY <3>1, <3>2 DEF ChainWork, StartOps
      <3> QED
        BY <3>1, <3>3, ChainFrame
    <2>11. CASE CheckNode(i)
      <3>1. /\ Live(i) /\ Same(i) /\ pc[i] = "check" /\ pc'[i] = "load"
            /\ op'[i] \in {"node_skipped", "node_started"}
            /\ op'[i] = "node_skipped" => node[i] \in load.completed_nodes
            /\ UNCHANGED <<file, node, channels, patch, ran>>
        BY <2>11 DEF CheckNode, Enter, Goto, Live, should_skip_node
      <3>2. ChainWork(i) /\ load = file /\ op[i] # "node_failed"
        BY <3>1, LoadsFile DEF ChainInv, SeqInv, WorkInv, PatchIsFresh, StartOps
      <3>3. /\ View(i) = file /\ View(i)' = file /\ InGraph(i) /\ Behind(i)' = Behind(i)
            /\ ~Handed(i)'
        BY <3>1 DEF View, InGraph, Behind, Handed
      <3>4. ChainWork(i)'
        BY <3>1, <3>2, <3>3 DEF ChainWork, Done
      <3> QED
        BY <3>1, <3>4, ChainFrame
    <2>12. CASE PassNode(i) \/ RunNode(i) \/ RaiseNode(i)
      <3>1. /\ Live(i) /\ Same(i) /\ pc[i] = "body" /\ pc'[i] = "load"
            /\ op'[i] \in {"node_patch", "node_failed"} /\ ran \subseteq ran'
            /\ UNCHANGED <<file, node, channels>>
        BY <2>12 DEF PassNode, RunNode, RaiseNode, Enter, Goto, Live
      <3>2. ChainWork(i) /\ op[i] = "node_started"
        BY <3>1 DEF ChainInv, SeqInv, Live, WorkInv, PatchIsFresh
      <3>3. op'[i] = "node_patch" /\ patch'[i] = "soft" => node[i] \in SoftNodes
        BY <2>12 DEF PassNode, RunNode, RaiseNode, Enter
      <3>4. View(i) = file /\ View(i)' = file /\ InGraph(i) /\ Behind(i)' = Behind(i)
        BY <3>1, <3>2 DEF View, InGraph, Behind
      <3>5. ChainWork(i)'
        BY <3>1, <3>2, <3>3, <3>4 DEF ChainWork, Handed, Done
      <3> QED
        BY <3>1, <3>5, ChainFrame
    <2>13. CASE NodeReturn(i)
      <3>1. /\ Live(i) /\ Same(i) /\ pc[i] = "return" /\ node[i] \in Node
            /\ \/ pc'[i] = "check" /\ op'[i] = op[i] /\ node'[i] = node[i] + 1
               \/ pc'[i] = "load" /\ op'[i] = "run_finished" /\ node[i] = NodeCount
            /\ UNCHANGED <<file, ran>>
        BY <2>13 DEF NodeReturn, Enter, Goto, Live, Control
      <3>2. ChainWork(i) /\ op[i] \in {"node_skipped", "node_finished"}
        BY <3>1 DEF ChainInv, SeqInv, WorkInv, PatchIsFresh
      <3>3. View(i) = file /\ View(i)' = file /\ InGraph(i) /\ Behind(i) = 1..node[i]
        BY <3>1, <3>2 DEF View, InGraph, Behind
      <3>4. /\ file.status # "completed"
            /\ ~file.errors => \A k \in 1..node[i] : Done(file, k)
        BY <3>2, <3>3 DEF ChainWork
      <3>5. CASE pc'[i] = "check" /\ op'[i] = op[i] /\ node'[i] = node[i] + 1
        <4>1. Behind(i)' = 1..node[i] /\ ~Handed(i)'
          BY <3>1, <3>5, NodeCountAssumption DEF Behind, Handed, Node
        <4>2. ChainWork(i)'
          BY <3>1, <3>3, <3>4, <3>5, <4>1 DEF ChainWork, Done
        <4> QED
          BY <3>1, <4>2, ChainFrame
      <3>6. CASE pc'[i] = "load" /\ op'[i] = "run_finished" /\ node[i] = NodeCount
        <4>1. ChainWork(i)'
          BY <3>1, <3>4, <3>6 DEF ChainWork, InGraph, Handed, NodeOps, Done, Node
        <4> QED
          BY <3>1, <4>1, ChainFrame
      <3> QED
        BY <3>1, <3>5, <3>6
    <2>14. CASE LoadCurrentNode(i)
      BY <2>1, <2>14 DEF LoadCurrentNode, Goto, Live, Control
    <2> QED
      BY <1>2, <2>3, <2>4, <2>5, <2>6, <2>8, <2>9, <2>10, <2>11, <2>12, <2>13, <2>14 DEF Step
  <1>3. CASE Crash
    <2>1. \A j \in Invocation : ~Live(j)'
      BY <1>3 DEF Crash, Live
    <2> QED
      BY <1>3, <2>1 DEF Crash, ChainInv, Readable, Whole, Done
  <1>4. CASE UNCHANGED vars
    BY <1>4 DEF vars, local, ChainInv, ChainWork, Live, Readable, Whole, Done, InGraph, Handed,
       View, Behind
  <1> QED
    BY <1>1, <1>2, <1>3, <1>4 DEF Next

\* In sequential use a "completed" run is complete - no error, every node ended
\* well, every body ran - unless a POST met a state.json torn by a crash while the
\* stored checkpoint had errors; and while nothing failed the row that GET /runs
\* lists says of a run at rest what its state.json says.
THEOREM SequentialStatusIsTrue ==
  ASSUME ~Overlaps
  PROVE  Spec => []StatusIsTrue
  <1> DEFINE Inv == /\ TypeInv /\ TornInv /\ RowInv
                    /\ ErrorsKnown => SeqInv /\ ChainInv
  <1>1. Init => Inv
    BY InitTypeInv, InitSeqInv, InitTornInv, InitRowInv, InitChainInv
  <1>2. Inv /\ [Next]_vars => Inv'
    BY NextTypeInv, NextSeqInv, NextTornInv, NextRowInv, NextChainInv, LostGrows DEF ErrorsKnown
  <1>3. Inv => StatusIsTrue
    <2> SUFFICES ASSUME TypeInv, RowInv, ErrorsKnown => ChainInv, Readable PROVE StatusIsTrue
      BY DEF StatusIsTrue
    <2>1. "errors" \notin lost /\ file.status = "completed" =>
            /\ ~file.errors
            /\ \A n \in Node : file.node_statuses[n] \in {"completed", "soft_failed"}
            /\ ran = Node
      BY DEF ErrorsKnown, ChainInv, Whole, Done, TypeInv, TypeOK
    <2>2. Quiet /\ crashes = 0 /\ faults = 0 => row = RunRow(file)
      BY DEF RowInv, Quiet, Live
    <2> QED
      BY <2>1, <2>2 DEF StatusIsTrue
  <1> QED
    BY <1>1, <1>2, <1>3, PTL DEF Spec

-----------------------------------------------------------------------------
(* No node twice.  A fresh run has recorded only nodes behind the one it is *)
(* at, and a resumed one skips what is recorded: should_skip_node asks for  *)
(* status "running" and resume_count > 0, which a run without errors has.   *)

RerunWork(i) ==
  /\ op[i] = "run_started" /\ pc[i] = "load" => file = Absent
  /\ pc[i] = "check" \/ op[i] \in {"node_skipped", "node_finished"}
       => View(i).errors \/ View(i).status = "running"
  /\ op[i] \in StartOps /\ pc[i] \in {"open", "write", "sync", "launch"} /\ buf[i].resume_count = 0
       => buf[i].completed_nodes = {}
  /\ InGraph(i) /\ View(i).resume_count = 0 => View(i).completed_nodes \subseteq Behind(i)
  /\ op[i] = "node_started" => channels[i].errors \/ node[i] \notin recorded

RerunInv == \A i \in Invocation : Live(i) => RerunWork(i)

LEMMA InitRerunInv == Init => RerunInv
  BY DEF Init, RerunInv, Live

LEMMA RerunFrame ==
  ASSUME SeqInv, NEW i \in Invocation, Live(i),
         \A j \in Invocation \ {i} : pc'[j] = pc[j],
         Live(i)' => RerunWork(i)'
  PROVE  RerunInv'
  BY DEF SeqInv, Live, RerunInv

\* Only prepare_resume counts a resume.
LEMMA MarkedResume ==
  ASSUME NEW i, NEW s \in StateFile,
         op[i] \in {"node_skipped", "node_started", "node_patch", "node_failed",
                    "graph_failed", "run_finished"},
         patch[i] \in Patch
  PROVE  /\ Marked(i, s).resume_count = s.resume_count
         /\ op[i] = "node_skipped" => Marked(i, s).status = s.status
  <1>1. CASE op[i] = "node_skipped"
    BY <1>1 DEF Marked, mark_node_skipped, StateFile
  <1>2. CASE op[i] = "node_started"
    BY <1>2 DEF Marked, mark_node_started, StateFile
  <1>3. CASE op[i] = "node_patch"
    BY <1>3 DEF Marked, merge_state, StateFile, Patch
  <1>4. CASE op[i] \in {"node_failed", "graph_failed"}
    BY <1>4 DEF Marked, mark_node_failed, StateFile
  <1>5. CASE op[i] = "run_finished"
    BY <1>5 DEF Marked, mark_run_finished, StateFile
  <1> QED
    BY <1>1, <1>2, <1>3, <1>4, <1>5

LEMMA FinishedResume ==
  ASSUME NEW s \in StateFile, NEW n \in Node, NEW p \in Patch
  PROVE  /\ mark_node_finished(s, n, p).resume_count = s.resume_count
         /\ mark_node_finished(s, n, p).completed_nodes \subseteq s.completed_nodes \cup {n}
         /\ \/ mark_node_finished(s, n, p).errors
            \/ mark_node_finished(s, n, p).status = "running"
  BY DEF mark_node_finished, FinishedNodeStatus, StateFile, Patch

LEMMA NextRerunInv ==
  ASSUME ~Overlaps, ~Reposts, SeqInv, TypeInv, ProgressInv, RerunInv, [Next]_vars
  PROVE  RerunInv'
  <1> USE DEF TypeInv, TypeOK
  <1> DEFINE Same(i) == \A j \in Invocation \ {i} : pc'[j] = pc[j]
  <1>0. load \in StateFile
    BY LoadType
  <1>1. ASSUME NEW i \in Invocation, RunFlow(i) \/ ResumeFlow(i) PROVE RerunInv'
    <2>1. \A j \in Invocation : ~Live(j)
      BY <1>1 DEF RunFlow, ResumeFlow, MayRequest
    <2>2. /\ pc'[i] = "load" /\ op'[i] \in StartOps /\ Same(i)
          /\ op'[i] = "run_started" => file' = Absent
      BY <1>1 DEF RunFlow, ResumeFlow, Enter, Goto, StartOps
    <2>3. RerunWork(i)'
      BY <2>2 DEF RerunWork, InGraph, StartOps, NodeOps
    <2> QED
      BY <2>1, <2>2, <2>3 DEF RerunInv, Live
  <1>2. ASSUME NEW i \in Invocation, Step(i) PROVE RerunInv'
    <2>1. ASSUME Live(i), Same(i),
                 Live(i)' => /\ pc'[i] \notin {"open", "write", "check", "body", "return"}
                             /\ op'[i] = "graph_failed"
          PROVE  RerunInv'
      <3>1. Live(i)' => RerunWork(i)'
        BY <2>1 DEF RerunWork, InGraph, StartOps, NodeOps
      <3> QED
        BY <2>1, <3>1, RerunFrame
    <2>2. ASSUME Retire(i), Live(i) PROVE RerunInv'
      <3>1. ~Live(i)' /\ Same(i)
        BY <2>2 DEF Retire, Enter, Goto, Live
      <3> QED
        BY <2>1, <2>2, <3>1
    <2>3. CASE LoadRunStarted(i) \/ AcceptResume(i)
      <3>1. Live(i) /\ Same(i) /\ pc[i] = "load" /\ pc'[i] = "open" /\ op'[i] = op[i] /\ op[i] \in StartOps
        BY <2>3 DEF LoadRunStarted, AcceptResume, Goto, Live, StartOps
      <3>2. buf'[i].resume_count = 0 => buf'[i].completed_nodes = {}
        <4>1. CASE LoadRunStarted(i)
          <5>1. load = base_state
            BY <3>1, <4>1 DEF LoadRunStarted, RerunInv, RerunWork, load
          <5> QED
            BY <4>1, <5>1 DEF LoadRunStarted, mark_run_started, base_state
        <4>2. CASE AcceptResume(i)
          <5>1. load.resume_count \in Nat /\ prepare_resume(load).resume_count = load.resume_count + 1
            BY <1>0 DEF prepare_resume, StateFile
          <5>2. prepare_resume(load).resume_count # 0
            BY <5>1
          <5> QED
            BY <4>2, <5>2 DEF AcceptResume
        <4> QED
          BY <2>3, <4>1, <4>2
      <3>3. RerunWork(i)'
        BY <3>1, <3>2 DEF RerunWork, InGraph, StartOps, NodeOps
      <3> QED
        BY <3>1, <3>3, RerunFrame
    <2>4. CASE RefuseResume(i)
      BY <2>2, <2>4 DEF RefuseResume, Live
    <2>5. CASE LoadForMark(i)
      <3>1. /\ Live(i) /\ Same(i) /\ pc[i] = "load" /\ pc'[i] = "open" /\ buf'[i] = Marked(i, load)
            /\ UNCHANGED <<file, op, node, channels, recorded>>
        BY <2>5 DEF LoadForMark, Goto, Live
      <3>2. op[i] \in {"node_skipped", "node_started", "node_patch", "node_failed",
                       "graph_failed", "run_finished"}
        BY <2>5 DEF LoadForMark, Op
      <3>3. load = file /\ RerunWork(i)
        BY <3>1, <3>2, LoadsFile DEF RerunInv
      <3>4. node[i] \in Key /\ patch[i] \in Patch /\ channels[i] \in Channels
        OBVIOUS
      <3>5. /\ buf'[i].completed_nodes = file.completed_nodes
            /\ op[i] # "run_finished" /\ file.errors => buf'[i].errors
            /\ buf'[i].resume_count = file.resume_count
            /\ op[i] = "node_skipped" => buf'[i].status = file.status
        <4>1. /\ Marked(i, load).completed_nodes = load.completed_nodes
              /\ op[i] # "run_finished" /\ load.errors => Marked(i, load).errors
          BY <1>0, <3>2, <3>4, MarkedKeeps
        <4>2. /\ Marked(i, load).resume_count = load.resume_count
              /\ op[i] = "node_skipped" => Marked(i, load).status = load.status
          BY <1>0, <3>2, <3>4, MarkedResume
        <4> QED
          BY <3>1, <3>3, <4>1, <4>2
      <3>6. View(i) = file /\ View(i)' = buf'[i]
        BY <3>1 DEF View
      <3>7. (InGraph(i)' <=> InGraph(i)) /\ op[i] # "node_finished"
        BY <3>1, <3>2 DEF InGraph
      <3>8. Behind(i) \subseteq Behind(i)'
        <4>1. CASE op[i] \in NodeOps
          <5>1. node[i] \in Node
            BY <4>1 DEF Control
          <5>2. Behind(i) = 1..(node[i] - 1) /\ Behind(i)' \in {1..(node[i] - 1), 1..node[i]}
            BY <3>1 DEF Behind
          <5>3. 1..(node[i] - 1) \subseteq 1..node[i]
            BY <5>1, NodeCountAssumption DEF Node
          <5> QED
            BY <5>2, <5>3
        <4>2. CASE op[i] \notin NodeOps
          BY <3>1, <4>2 DEF Behind, NodeOps
        <4> QED
          BY <4>1, <4>2
      <3>9. RerunWork(i)'
        BY <3>1, <3>2, <3>3, <3>5, <3>6, <3>7, <3>8 DEF RerunWork, StartOps
      <3> QED
        BY <3>1, <3>9, RerunFrame
    <2>6. CASE OpenFile(i) \/ WriteFile(i)
      <3>1. /\ Live(i) /\ Same(i) /\ pc[i] \in {"open", "write"} /\ RerunWork(i) /\ View(i) = buf[i]
            /\ UNCHANGED <<op, node, channels, buf>>
        BY <2>6 DEF OpenFile, WriteFile, Goto, Live, RerunInv, View
      <3>2. \/ pc'[i] = "write" /\ file' = Torn
            \/ pc'[i] = "sync" /\ file' = buf[i]
        BY <2>6 DEF OpenFile, WriteFile, Goto
      <3>3. View(i)' = buf[i]
        BY <3>1, <3>2 DEF View
      <3>4. (InGraph(i)' <=> InGraph(i)) /\ Behind(i)' = Behind(i)
        BY <3>1, <3>2 DEF InGraph, Behind
      <3>5. op[i] = "node_started" => recorded' = recorded
        BY <2>6, <3>1 DEF OpenFile, WriteFile, ProgressInv
      <3>6. RerunWork(i)'
        BY <3>1, <3>2, <3>3, <3>4, <3>5 DEF RerunWork
      <3> QED
        BY <3>1, <3>6, RerunFrame
    <2>7. ASSUME pc[i] = "sync", Continue(i), UNCHANGED <<file, ckpt, recorded, ran>> PROVE RerunInv'
      <3>1. Live(i) /\ RerunWork(i) /\ View(i) = file
        BY <2>7 DEF Live, RerunInv, View
      <3>2. CASE op[i] \in StartOps
        <4>1. Same(i) /\ pc'[i] = "launch" /\ UNCHANGED <<op, buf>>
          BY <2>7, <3>2 DEF Continue, Goto, StartOps
        <4>2. RerunWork(i)'
          BY <2>7, <3>1, <3>2, <4>1 DEF RerunWork, InGraph, StartOps, NodeOps
        <4> QED
          BY <3>1, <4>1, <4>2, RerunFrame
      <3>3. CASE op[i] \in {"node_started", "node_skipped", "node_finished"}
        <4>1. PICK l \in {"body", "return"} :
                 /\ l = "return" => op[i] \in {"node_skipped", "node_finished"}
                 /\ l = "body" => op[i] = "node_started"
                 /\ Goto(i, l)
                 /\ UNCHANGED <<op, node, buf, channels, patch>>
          BY <2>7, <3>3 DEF Continue
        <4>2. /\ Same(i) /\ pc'[i] \in {"body", "return"} /\ View(i)' = file
              /\ InGraph(i) /\ Behind(i)' = Behind(i)
          BY <2>7, <3>3, <4>1 DEF Goto, View, InGraph, NodeOps, Behind
        <4>3. RerunWork(i)'
          BY <2>7, <3>1, <3>3, <4>1, <4>2 DEF RerunWork, StartOps
        <4> QED
          BY <3>1, <4>2, <4>3, RerunFrame
      <3>4. CASE op[i] = "node_patch"
        <4>1. /\ pc'[i] = "open" /\ op'[i] = "node_finished" /\ Same(i) /\ node'[i] = node[i]
              /\ buf'[i] = mark_node_finished(buf[i], node[i], patch[i])
          BY <2>7, <3>4 DEF Continue, Enter, Goto
        <4>2. node[i] \in Node /\ buf[i] \in StateFile /\ patch[i] \in Patch /\ file = buf[i]
          BY <2>7, <3>1, <3>4 DEF Control, NodeOps, SeqInv, WorkInv, OnDisk
        <4>3. /\ buf'[i].resume_count = buf[i].resume_count
              /\ buf'[i].completed_nodes \subseteq buf[i].completed_nodes \cup {node[i]}
              /\ buf'[i].errors \/ buf'[i].status = "running"
          BY <4>1, <4>2, FinishedResume
        <4>4. buf[i].resume_count = 0 => buf[i].completed_nodes \subseteq 1..(node[i] - 1)
          BY <2>7, <3>1, <3>4, <4>2 DEF RerunWork, InGraph, NodeOps, Behind
        <4>5. 1..(node[i] - 1) \cup {node[i]} \subseteq 1..node[i]
          BY <4>2, NodeCountAssumption DEF Node
        <4>6. View(i)' = buf'[i] /\ Behind(i)' = 1..node[i]
          BY <4>1 DEF View, Behind
        <4>7. RerunWork(i)'
          BY <4>1, <4>3, <4>4, <4>5, <4>6 DEF RerunWork, StartOps
        <4> QED
          BY <3>1, <4>1, <4>7, RerunFrame
      <3>5. CASE op[i] = "node_failed"
        BY <2>1, <2>7, <3>1, <3>5 DEF Continue, Enter, Goto
      <3>6. CASE op[i] \in {"graph_failed", "run_finished"}
        BY <2>2, <2>7, <3>1, <3>6 DEF Continue
      <3> QED
        BY <2>7, <3>2, <3>3, <3>4, <3>5, <3>6 DEF Continue, StartOps
    <2>8. CASE Sync(i) \/ SyncLost(i)
      BY <2>7, <2>8 DEF Sync, SyncLost
    <2>9. CASE SyncRaises(i)
      <3>1. CASE Enter(i, "graph_failed", "who")
        BY <2>1, <2>9, <3>1 DEF SyncRaises, Enter, Goto, Live
      <3>2. CASE Retire(i)
        BY <2>2, <2>9, <3>2 DEF SyncRaises, Live
      <3> QED
        BY <2>9, <3>1, <3>2 DEF SyncRaises, Unwind
    <2>10. CASE Launch(i)
      <3>1. /\ Live(i) /\ Same(i) /\ pc[i] = "launch" /\ pc'[i] = "check"
            /\ op[i] \in StartOps /\ op'[i] = op[i] /\ file' = file
            /\ file = buf[i] /\ buf[i].status = "running"
        BY <2>10 DEF Launch, Goto, Live, Control, SeqInv, WorkInv, OnDisk
      <3>2. View(i)' = file /\ (file.resume_count = 0 => file.completed_nodes = {})
        BY <3>1 DEF View, RerunInv, RerunWork
      <3>3. RerunWork(i)'
        BY <3>1, <3>2 DEF RerunWork, StartOps
      <3> QED
        BY <3>1, <3>3, RerunFrame
    <2>11. CASE CheckNode(i)
      <3>1. /\ Live(i) /\ Same(i) /\ pc[i] = "check" /\ pc'[i] = "load"
            /\ op'[i] = IF should_skip_node(load, node[i]) THEN "node_skipped" ELSE "node_started"
            /\ UNCHANGED <<file, node, channels, recorded>>
        BY <2>11 DEF CheckNode, Enter, Goto, Live
      <3>2. /\ RerunWork(i) /\ WorkInv(i) /\ load = file /\ Readable /\ node[i] \in Node
            /\ op[i] \in StartOps \cup {"node_skipped", "node_finished"}
        BY <3>1, LoadsFile DEF RerunInv, SeqInv, WorkInv, PatchIsFresh, Control
      <3>3. View(i) = file /\ View(i)' = file /\ InGraph(i) /\ Behind(i)' = Behind(i)
            /\ Behind(i) = 1..(node[i] - 1)
        BY <3>1 DEF View, InGraph, Behind
      <3>4. recorded = file.completed_nodes
        BY <3>2 DEF ProgressInv
      <3>5. file.errors <=> channels[i].errors
        <4>1. ~Blocks(i) /\ op[i] # "node_failed"
          BY <3>1, <3>2 DEF Blocks, Handed, StartOps
        <4> QED
          BY <3>2, <3>3, <4>1 DEF WorkInv, ErrorsAgree
      <3>6. CASE should_skip_node(load, node[i])
        <4>1. op'[i] = "node_skipped" /\ file.status = "running"
          BY <3>1, <3>2, <3>6 DEF should_skip_node
        <4>2. RerunWork(i)'
          BY <3>1, <3>2, <3>3, <4>1 DEF RerunWork, StartOps
        <4> QED
          BY <3>1, <4>2, RerunFrame
      <3>7. CASE ~should_skip_node(load, node[i])
        <4>1. op'[i] = "node_started"
          BY <3>1, <3>7
        <4>2. channels[i].errors \/ node[i] \notin recorded
          <5> SUFFICES ASSUME ~file.errors, node[i] \in file.completed_nodes PROVE FALSE
            BY <3>4, <3>5
          <5>1. file.status = "running"
            BY <3>1, <3>2, <3>3 DEF RerunWork
          <5>2. file.resume_count \in Nat /\ ~(file.resume_count > 0)
            BY <1>0, <3>2, <3>7, <5>1 DEF should_skip_node, StateFile
          <5>3. file.resume_count = 0
            BY <5>2
          <5>4. node[i] \in 1..(node[i] - 1)
            BY <3>2, <3>3, <5>3 DEF RerunWork
          <5> QED
            BY <3>2, <5>4, NodeCountAssumption DEF Node
        <4>3. RerunWork(i)'
          BY <3>1, <3>2, <3>3, <4>1, <4>2 DEF RerunWork, StartOps
        <4> QED
          BY <3>1, <4>3, RerunFrame
      <3> QED
        BY <3>6, <3>7
    <2>12. CASE PassNode(i) \/ RunNode(i) \/ RaiseNode(i)
      <3>1. /\ Live(i) /\ Same(i) /\ pc[i] = "body" /\ pc'[i] = "load"
            /\ op'[i] \in {"node_patch", "node_failed"}
            /\ UNCHANGED <<file, node>>
        BY <2>12 DEF PassNode, RunNode, RaiseNode, Enter, Goto, Live
      <3>2. RerunWork(i) /\ op[i] = "node_started"
        BY <3>1 DEF RerunInv, SeqInv, WorkInv, PatchIsFresh
      <3>3. View(i) = file /\ View(i)' = file /\ InGraph(i) /\ Behind(i)' = Behind(i)
        BY <3>1, <3>2 DEF View, InGraph, Behind
      <3>4. RerunWork(i)'
        BY <3>1, <3>2, <3>3 DEF RerunWork, StartOps
      <3> QED
        BY <3>1, <3>4, RerunFrame
    <2>13. CASE NodeReturn(i)
      <3>1. /\ Live(i) /\ Same(i) /\ pc[i] = "return" /\ node[i] \in Node
            /\ \/ pc'[i] = "check" /\ op'[i] = op[i] /\ node'[i] = node[i] + 1
               \/ pc'[i] = "load" /\ op'[i] = "run_finished"
            /\ file' = file
        BY <2>13 DEF NodeReturn, Enter, Goto, Live, Control
      <3>2. RerunWork(i) /\ op[i] \in {"node_skipped", "node_finished"}
        BY <3>1 DEF RerunInv, SeqInv, WorkInv, PatchIsFresh
      <3>3. View(i) = file /\ View(i)' = file /\ InGraph(i) /\ Behind(i) = 1..node[i]
        BY <3>1, <3>2 DEF View, InGraph, Behind
      <3>4. CASE pc'[i] = "check" /\ op'[i] = op[i] /\ node'[i] = node[i] + 1
        <4>1. Behind(i)' = 1..node[i]
          BY <3>1, <3>4, NodeCountAssumption DEF Behind, Node
        <4>2. RerunWork(i)'
          BY <3>1, <3>2, <3>3, <3>4, <4>1 DEF RerunWork, StartOps
        <4> QED
          BY <3>1, <4>2, RerunFrame
      <3>5. CASE pc'[i] = "load" /\ op'[i] = "run_finished"
        <4>1. RerunWork(i)'
          BY <3>5 DEF RerunWork, InGraph, StartOps, NodeOps
        <4> QED
          BY <3>1, <4>1, RerunFrame
      <3> QED
        BY <3>1, <3>4, <3>5
    <2>14. CASE LoadCurrentNode(i)
      BY <2>1, <2>14 DEF LoadCurrentNode, Goto, Live, Control
    <2> QED
      BY <1>2, <2>3, <2>4, <2>5, <2>6, <2>8, <2>9, <2>10, <2>11, <2>12, <2>13, <2>14 DEF Step
  <1>3. CASE Crash
    BY <1>3 DEF Crash, Live, RerunInv
  <1>4. CASE UNCHANGED vars
    BY <1>4 DEF vars, local, RerunInv, RerunWork, Live, InGraph, View, Behind
  <1> QED
    BY <1>1, <1>2, <1>3, <1>4 DEF Next

\* A batch_id that is posted once meets no file, torn or whole, at its POST.
LEMMA PostedOnceLosesNothing ==
  ASSUME RerunInv, lost = {}, [Next]_vars
  PROVE  lost' = {}
  <1>1. ASSUME NEW i \in Invocation, LoadRunStarted(i) PROVE lost' = {}
    <2>1. Live(i) /\ file = Absent
      BY <1>1 DEF LoadRunStarted, Live, RerunInv, RerunWork
    <2> QED
      BY <1>1, <2>1, SentinelAssumption DEF LoadRunStarted
  <1> QED
    BY <1>1, LostGrows

\* In sequential use of a batch_id that is posted once, no node is executed
\* again after it was recorded as completed - across resumes, crashes and failed
\* syncs.
THEOREM SequentialResumeSkipsCompleted ==
  ASSUME ~Overlaps, ~Reposts
  PROVE  Spec => ResumeSkipsCompleted
  <1> DEFINE Inv == TypeInv /\ SeqInv /\ ProgressInv /\ RerunInv /\ lost = {}
             Skips == \A i \in Invocation : RunNode(i) \/ RaiseNode(i) => node[i] \notin recorded
  <1>1. Init => Inv
    BY InitTypeInv, InitSeqInv, InitProgressInv, InitRerunInv DEF Init
  <1>2. Inv /\ [Next]_vars => Inv'
    BY NextTypeInv, NextSeqInv, NextProgressInv, NextRerunInv, PostedOnceLosesNothing
    DEF ErrorsKnown
  <1>3. Inv /\ [Next]_vars => [Skips]_vars
    <2> SUFFICES ASSUME Inv, NEW i \in Invocation, RunNode(i) \/ RaiseNode(i)
                 PROVE  node[i] \notin recorded
      OBVIOUS
    <2>1. pc[i] = "body" /\ ~skip_if_blocked(channels[i])
      BY DEF RunNode, RaiseNode
    <2>2. Live(i) /\ op[i] = "node_started"
      BY <2>1 DEF Live, SeqInv, WorkInv, PatchIsFresh
    <2> QED
      BY <2>1, <2>2 DEF RerunInv, RerunWork, skip_if_blocked
  <1> QED
    BY <1>1, <1>2, <1>3, PTL DEF Spec, ResumeSkipsCompleted

-----------------------------------------------------------------------------
(* Overlapping requests.  As long as nothing went wrong state.json never    *)
(* reads "failed" or "blocked", so no resume gets past acceptance.          *)

\* i has been accepted, or is a first run, which nobody refuses.
Accepted(i) == Live(i) /\ ~(pc[i] = "load" /\ op[i] = "prepare_resume")

Healthy(s) == ~Resumable(s) /\ ~s.errors

HealthyWork(i) ==
  /\ op[i] \notin {"node_failed", "graph_failed"}
  /\ Healthy(buf[i])
  /\ ~skip_if_blocked(channels[i])
  /\ patch[i] # "block"

HealthInv ==
  ~troubled =>
    /\ \A i, j \in Invocation : Accepted(i) /\ Accepted(j) => i = j
    /\ ~ckpt
    /\ Readable => Healthy(file)
    /\ \A i \in Invocation : HealthyWork(i)

LEMMA InitHealthInv == Init => HealthInv
  BY DEF Init, HealthInv, Accepted, Live, Readable, HealthyWork, Healthy, base_state, Resumable,
         skip_if_blocked, NoChannels

\* No method makes a healthy run look failed or blocked, unless a node failed it.
LEMMA MarkHealthy ==
  ASSUME NEW s \in StateFile, Healthy(s), NEW n \in Key, NEW p \in Patch \ {"block"},
         NEW c \in Channels, ~skip_if_blocked(c)
  PROVE  /\ Healthy(mark_run_started(s))
         /\ Healthy(mark_node_skipped(s, n))
         /\ Healthy(mark_node_started(s, n))
         /\ Healthy(merge_state(s, p))
         /\ Healthy(mark_node_finished(s, n, p))
         /\ Healthy(mark_run_finished(s, c))
  <1> USE DEF Healthy, Resumable, StateFile, Patch, skip_if_blocked
  <1>1. Healthy(mark_run_started(s)) /\ Healthy(mark_node_skipped(s, n)) /\ Healthy(mark_node_started(s, n))
    BY DEF mark_run_started, mark_node_skipped, mark_node_started
  <1>2. Healthy(merge_state(s, p))
    BY DEF merge_state
  <1>3. Healthy(mark_node_finished(s, n, p))
    BY DEF mark_node_finished, FinishedNodeStatus
  <1>4. Healthy(mark_run_finished(s, c))
    BY DEF mark_run_finished
  <1> QED
    BY <1>1, <1>2, <1>3, <1>4

LEMMA NextHealthInv ==
  ASSUME ~Reposts, TypeInv, HealthInv, [Next]_vars
  PROVE  HealthInv'
  <1> USE DEF TypeInv, TypeOK
  <1> SUFFICES ASSUME ~troubled' PROVE HealthInv'
    BY DEF HealthInv
  <1>1. ~troubled
    BY DEF Next, Step, RunFlow, ResumeFlow, LoadRunStarted, RefuseResume, AcceptResume, LoadForMark,
       OpenFile, WriteFile, Sync, SyncLost, SyncRaises, Launch, CheckNode, PassNode, RunNode,
       RaiseNode, NodeReturn, LoadCurrentNode, Crash, vars
  <1>2. /\ \A i, j \in Invocation : Accepted(i) /\ Accepted(j) => i = j
        /\ ~ckpt
        /\ Readable => Healthy(file)
        /\ \A i \in Invocation : HealthyWork(i)
    BY <1>1 DEF HealthInv
  <1>3. load \in StateFile /\ Healthy(load)
    BY <1>2, LoadType DEF load, Readable, Healthy, Resumable, base_state
  <1> DEFINE Same(i) == \A j \in Invocation \ {i} : /\ pc'[j] = pc[j] /\ op'[j] = op[j]
                                                    /\ buf'[j] = buf[j] /\ channels'[j] = channels[j]
                                                    /\ patch'[j] = patch[j]
  <1>4. ASSUME NEW i \in Invocation, Same(i), Accepted(i)' => Accepted(i), ~ckpt',
               Readable' => Healthy(file)', HealthyWork(i)'
        PROVE  HealthInv'
    <2>1. \A j \in Invocation : (Accepted(j)' => Accepted(j)) /\ HealthyWork(j)'
      BY <1>2, <1>4 DEF Accepted, Live, HealthyWork, skip_if_blocked, Healthy, Resumable
    <2> QED
      BY <1>2, <1>4, <2>1 DEF HealthInv
  <1>5. ASSUME NEW i \in Invocation, RunFlow(i) PROVE HealthInv'
    <2>1. /\ \A j \in Invocation : ~Live(j)
          /\ Same(i) /\ UNCHANGED <<file, ckpt, buf, channels, patch>>
          /\ op'[i] = "run_started"
      BY <1>5 DEF RunFlow, Enter, Goto
    <2>2. \A j \in Invocation \ {i} : ~Accepted(j)'
      BY <2>1 DEF Accepted, Live
    <2>3. \A j \in Invocation : HealthyWork(j)'
      BY <1>2, <2>1 DEF HealthyWork, skip_if_blocked, Healthy, Resumable
    <2> QED
      BY <1>2, <2>1, <2>2, <2>3 DEF HealthInv, Readable, Healthy, Resumable
  <1>6. ASSUME NEW i \in Invocation, ResumeFlow(i) PROVE HealthInv'
    <2>1. /\ Same(i) /\ UNCHANGED <<file, ckpt, buf, channels, patch>>
          /\ pc'[i] = "load" /\ op'[i] = "prepare_resume"
      BY <1>6 DEF ResumeFlow, Enter, Goto
    <2>2. ~Accepted(i)' /\ HealthyWork(i)'
      BY <1>2, <2>1 DEF Accepted, HealthyWork, skip_if_blocked, Healthy, Resumable
    <2> QED
      BY <1>2, <1>4, <2>1, <2>2 DEF Readable, Healthy, Resumable
  <1>7. ASSUME NEW i \in Invocation, Retire(i), UNCHANGED <<file, ckpt>> PROVE HealthInv'
    <2>1. Same(i) /\ ~Accepted(i)'
      BY <1>7 DEF Retire, Enter, Goto, Accepted, Live
    <2>2. HealthyWork(i)'
      BY <1>7 DEF Retire, Enter, HealthyWork, skip_if_blocked, NoChannels, base_state, Healthy, Resumable
    <2> QED
      BY <1>2, <1>4, <1>7, <2>1, <2>2 DEF Readable, Healthy, Resumable
  <1>8. ASSUME NEW i \in Invocation, Step(i) PROVE HealthInv'
    <2>0. HealthyWork(i) /\ node[i] \in Key /\ patch[i] \in Patch \ {"block"} /\ channels[i] \in Channels
      BY <1>2 DEF HealthyWork
    <2>1. CASE LoadRunStarted(i)
      <3>1. Same(i) /\ Accepted(i) /\ UNCHANGED <<file, ckpt, op, channels, patch>>
            /\ buf'[i] = mark_run_started(load)
        BY <2>1 DEF LoadRunStarted, Goto, Accepted, Live
      <3>2. HealthyWork(i)'
        BY <1>3, <2>0, <3>1, MarkHealthy DEF HealthyWork, skip_if_blocked, Healthy, Resumable
      <3> QED
        BY <1>2, <1>4, <3>1, <3>2 DEF Readable, Healthy, Resumable
    <2>2. CASE RefuseResume(i)
      BY <1>7, <2>2 DEF RefuseResume
    <2>3. CASE AcceptResume(i)
      BY <1>3, <2>3 DEF AcceptResume, Healthy
    <2>4. CASE LoadForMark(i)
      <3>1. /\ Same(i) /\ Accepted(i) /\ UNCHANGED <<file, ckpt, op, channels, patch>>
            /\ buf'[i] = Marked(i, load)
        BY <2>4 DEF LoadForMark, Goto, Accepted, Live
      <3>2. op[i] \in {"node_skipped", "node_started", "node_patch", "run_finished"}
        BY <2>0, <2>4 DEF LoadForMark, Op, HealthyWork
      <3>3. /\ Healthy(mark_node_skipped(load, node[i]))
            /\ Healthy(mark_node_started(load, node[i]))
            /\ Healthy(merge_state(load, patch[i]))
            /\ Healthy(mark_run_finished(load, channels[i]))
        BY <1>3, <2>0, MarkHealthy DEF HealthyWork
      <3>4. Healthy(buf'[i])
        BY <3>1, <3>2, <3>3 DEF Marked
      <3>5. HealthyWork(i)'
        BY <2>0, <3>1, <3>4 DEF HealthyWork, skip_if_blocked, Healthy, Resumable
      <3> QED
        BY <1>2, <1>4, <3>1, <3>5 DEF Readable, Healthy, Resumable
    <2>5. CASE OpenFile(i) \/ WriteFile(i)
      <3>1. Same(i) /\ Accepted(i) /\ UNCHANGED <<ckpt, op, buf, channels, patch>> /\ file' \in {Torn, buf[i]}
        BY <2>5 DEF OpenFile, WriteFile, Goto, Accepted, Live
      <3>2. HealthyWork(i)'
        BY <2>0, <3>1 DEF HealthyWork, skip_if_blocked, Healthy, Resumable
      <3>3. Readable' => Healthy(file)'
        BY <2>0, <3>1 DEF Readable, HealthyWork, Healthy, Resumable
      <3> QED
        BY <1>2, <1>4, <3>1, <3>2, <3>3
    <2>6. CASE Sync(i) \/ SyncLost(i)
      <3>1. pc[i] = "sync" /\ Continue(i) /\ Accepted(i) /\ UNCHANGED <<file, ckpt>>
        BY <2>6 DEF Sync, SyncLost, Accepted, Live
      <3>2. CASE Retire(i)
        BY <1>7, <3>1, <3>2
      <3>3. CASE op[i] = "node_patch"
        <4>1. /\ Same(i) /\ op'[i] = "node_finished" /\ UNCHANGED <<channels, patch>>
              /\ buf'[i] = mark_node_finished(buf[i], node[i], patch[i])
          BY <3>1, <3>3 DEF Continue, Enter, Goto
        <4>2. Healthy(buf'[i])
          <5>1. buf[i] \in StateFile
            OBVIOUS
          <5> QED
            BY <2>0, <4>1, <5>1, MarkHealthy DEF HealthyWork
        <4>3. HealthyWork(i)'
          BY <2>0, <4>1, <4>2 DEF HealthyWork, skip_if_blocked, Healthy, Resumable
        <4> QED
          BY <1>2, <1>4, <3>1, <4>1, <4>3 DEF Readable, Healthy, Resumable
      <3>4. CASE ~Retire(i) /\ op[i] # "node_patch"
        <4>1. Same(i) /\ UNCHANGED <<op, buf, channels, patch>>
          BY <2>0, <3>1, <3>4 DEF Continue, Goto, HealthyWork
        <4>2. HealthyWork(i)'
          BY <2>0, <4>1 DEF HealthyWork, skip_if_blocked, Healthy, Resumable
        <4> QED
          BY <1>2, <1>4, <3>1, <4>1, <4>2 DEF Readable, Healthy, Resumable
      <3> QED
        BY <3>2, <3>3, <3>4
    <2>7. CASE SyncRaises(i)
      BY <2>7 DEF SyncRaises
    <2>8. CASE Launch(i)
      <3>1. Same(i) /\ Accepted(i) /\ UNCHANGED <<file, op, buf, patch>> /\ ~ckpt'
        BY <1>2, <2>0, <2>8 DEF Launch, Goto, Accepted, Live, HealthyWork, Healthy
      <3>2. ~skip_if_blocked(channels'[i])
        <4>1. buf[i].status = "running" /\ ~buf[i].errors
          BY <2>0, <2>8 DEF Launch, Control, HealthyWork, Healthy
        <4> QED
          BY <1>2, <2>8, <4>1 DEF Launch, skip_if_blocked
      <3>3. HealthyWork(i)'
        BY <2>0, <3>1, <3>2 DEF HealthyWork, skip_if_blocked, Healthy, Resumable
      <3> QED
        BY <1>2, <1>4, <3>1, <3>3 DEF Readable, Healthy, Resumable
    <2>9. CASE CheckNode(i) \/ PassNode(i) \/ RunNode(i) \/ RaiseNode(i)
      <3>1. /\ Same(i) /\ Accepted(i) /\ UNCHANGED <<file, ckpt, buf, channels>>
            /\ op'[i] \notin {"node_failed", "graph_failed"} /\ patch'[i] # "block"
        BY <2>0, <2>9
        DEF CheckNode, PassNode, RunNode, RaiseNode, Enter, Goto, Accepted, Live, HealthyWork
      <3>2. HealthyWork(i)'
        BY <2>0, <3>1 DEF HealthyWork, skip_if_blocked, Healthy, Resumable
      <3> QED
        BY <1>2, <1>4, <3>1, <3>2 DEF Readable, Healthy, Resumable
    <2>10. CASE NodeReturn(i)
      <3>1. /\ Same(i) /\ Accepted(i) /\ UNCHANGED <<file, buf>> /\ patch'[i] = "ok"
            /\ op'[i] \in {op[i], "run_finished"}
            /\ channels'[i] = ApplyPatch(channels[i], patch[i])
            /\ ckpt' = ApplyPatch(channels[i], patch[i]).errors
        BY <2>10 DEF NodeReturn, Enter, Goto, Accepted, Live
      <3>2. ~skip_if_blocked(channels'[i]) /\ ~ckpt'
        BY <2>0, <3>1 DEF ApplyPatch, skip_if_blocked, HealthyWork, Channels, Patch
      <3>3. HealthyWork(i)'
        BY <2>0, <3>1, <3>2 DEF HealthyWork, skip_if_blocked, Healthy, Resumable
      <3> QED
        BY <1>2, <1>4, <3>1, <3>2, <3>3 DEF Readable, Healthy, Resumable
    <2>11. CASE LoadCurrentNode(i)
      BY <2>0, <2>11 DEF LoadCurrentNode, Control, HealthyWork
    <2> QED
      BY <1>8, <2>1, <2>2, <2>3, <2>4, <2>5, <2>6, <2>7, <2>8, <2>9, <2>10, <2>11 DEF Step
  <1>9. CASE Crash
    <2>1. \A j \in Invocation : ~Accepted(j)' /\ HealthyWork(j)'
      BY <1>9
      DEF Crash, Accepted, Live, HealthyWork, skip_if_blocked, NoChannels, base_state, Healthy, Resumable
    <2> QED
      BY <1>2, <1>9, <2>1 DEF Crash, HealthInv, Readable, Healthy, Resumable
  <1>10. CASE UNCHANGED vars
    BY <1>2, <1>10 DEF vars, local, HealthInv, Accepted, Live, Readable, HealthyWork,
       skip_if_blocked, Healthy, Resumable
  <1> QED
    BY <1>5, <1>6, <1>8, <1>9, <1>10 DEF Next

\* However resume requests overlap with the run and with each other: until a node
\* blocks or raises, or a sync raises, at most one invocation works on the run,
\* for a batch_id that is posted once.
THEOREM PostedOnceHealthyRunIsExclusive ==
  ASSUME ~Reposts
  PROVE  Spec => []HealthyRunIsExclusive
  <1>1. Init => TypeInv /\ HealthInv
    BY InitTypeInv, InitHealthInv
  <1>2. TypeInv /\ HealthInv /\ [Next]_vars => TypeInv' /\ HealthInv'
    BY NextTypeInv, NextHealthInv
  <1>3. HealthInv => HealthyRunIsExclusive
    BY DEF HealthInv, HealthyRunIsExclusive, OneExecutor, Executing, Accepted
  <1> QED
    BY <1>1, <1>2, <1>3, PTL DEF Spec

-----------------------------------------------------------------------------
(* WorkflowRun implements RunLifecycle, step by step.                      *)

AtWork == \E i \in Invocation : Executing(i)

\* What a run at rest is to its clients.
Outcome ==
  IF file = Absent THEN "absent" ELSE IF Readable /\ Terminal(file) THEN file.status ELSE "stuck"

LEMMA PhaseValue ==
  /\ AtWork => phase = "executing"
  /\ ~AtWork => phase = Outcome
  BY DEF phase, AtWork, Outcome

LEMMA PhaseValueNext ==
  /\ AtWork' => phase' = "executing"
  /\ ~AtWork' => phase' = Outcome'
  BY DEF phase, AtWork, Outcome

\* An execution ends in a final status that is earned, or is abandoned.
LEMMA OutcomeIsEarned ==
  ASSUME TypeInv, ProgressInv, ChainInv
  PROVE  /\ Outcome \in {"completed", "failed", "blocked", "absent", "stuck"}
         /\ Outcome = "absent" => recorded = {}
         /\ Outcome = "completed" => Node \ recorded \subseteq SoftNodes
  <1>1. CASE file = Absent
    BY <1>1 DEF Outcome, ProgressInv
  <1>2. CASE file # Absent /\ Readable /\ Terminal(file)
    <2>1. Outcome = file.status /\ file.status \in {"completed", "failed", "blocked"}
      BY <1>2 DEF Outcome, Terminal
    <2>2. file.status = "completed" => \A k \in Node : k \in recorded \cup SoftNodes
      BY <1>2 DEF ChainInv, Whole, Done, ProgressInv
    <2> QED
      BY <2>1, <2>2
  <1>3. CASE file # Absent /\ ~(Readable /\ Terminal(file))
    BY <1>3 DEF Outcome
  <1> QED
    BY <1>1, <1>2, <1>3

LEMMA LifecycleInit == Init => Lifecycle!Init
  <1> SUFFICES ASSUME Init PROVE Lifecycle!Init
    OBVIOUS
  <1>1. ~AtWork /\ Outcome = "absent" /\ recorded = {}
    BY DEF Init, AtWork, Executing, Live, Outcome
  <1> QED
    BY <1>1, PhaseValue DEF Lifecycle!Init

LEMMA LifecycleStep ==
  ASSUME ~Overlaps, ~Reposts, TypeInv, SeqInv, ProgressInv, ChainInv, RerunInv, [Next]_vars
  PROVE  [Lifecycle!Next]_(Lifecycle!vars)
  <1> USE DEF TypeInv, TypeOK
  <1> DEFINE Same(i) == \A j \in Invocation \ {i} : pc'[j] = pc[j] /\ op'[j] = op[j]
  \* The kinds of steps the lifecycle sees.
  <1>1. ASSUME ~AtWork, ~AtWork', UNCHANGED <<file, recorded>> PROVE UNCHANGED Lifecycle!vars
    BY <1>1, PhaseValue, PhaseValueNext DEF Outcome, Readable, Terminal, Lifecycle!vars
  <1>2. ASSUME AtWork, AtWork', recorded' = recorded PROVE UNCHANGED Lifecycle!vars
    BY <1>2, PhaseValue, PhaseValueNext DEF Lifecycle!vars
  <1>3. ASSUME AtWork, ~AtWork', UNCHANGED <<file, recorded>> PROVE Lifecycle!Next
    <2>1. phase = "executing" /\ phase' = Outcome
      BY <1>3, PhaseValue, PhaseValueNext DEF Outcome, Readable, Terminal
    <2> QED
      BY <1>3, <2>1, OutcomeIsEarned
      DEF Lifecycle!Next, Lifecycle!Settle, Lifecycle!Abandon, Lifecycle!Rest
  <1>4. ASSUME NEW i \in Invocation, Live(i), Same(i), ~Executing(i)' PROVE ~AtWork'
    BY <1>4 DEF SeqInv, AtWork, Executing, Live
  <1>5. ASSUME NEW i \in Invocation, Live(i), ~Executing(i) PROVE ~AtWork
    BY <1>5 DEF SeqInv, AtWork, Executing
  <1>6. ASSUME NEW i \in Invocation, RunFlow(i) \/ ResumeFlow(i) PROVE UNCHANGED Lifecycle!vars
    <2>1. \A j \in Invocation : ~Live(j)
      BY <1>6 DEF RunFlow, ResumeFlow, MayRequest
    <2>2. /\ pc'[i] = "load" /\ op'[i] \in StartOps /\ Same(i) /\ UNCHANGED <<file, recorded>>
      BY <1>6 DEF RunFlow, ResumeFlow, Enter, Goto, StartOps
    <2>3. ~AtWork /\ ~AtWork'
      BY <2>1, <2>2 DEF AtWork, Executing, Live, StartOps
    <2> QED
      BY <1>1, <2>2, <2>3
  <1>7. ASSUME NEW i \in Invocation, Step(i) PROVE [Lifecycle!Next]_(Lifecycle!vars)
    <2>1. ASSUME Executing(i), Executing(i)', recorded' = recorded PROVE UNCHANGED Lifecycle!vars
      BY <1>2, <2>1 DEF AtWork
    <2>2. ASSUME Live(i), Retire(i), UNCHANGED <<file, recorded>>
          PROVE  [Lifecycle!Next]_(Lifecycle!vars)
      <3>1. ~AtWork'
        BY <1>4, <2>2 DEF Retire, Enter, Goto, Executing, Live
      <3> QED
        BY <1>1, <1>3, <2>2, <3>1
    <2>3. CASE LoadRunStarted(i)
      <3>1. Live(i) /\ ~Executing(i) /\ Executing(i)' /\ recorded' = recorded
        BY <2>3 DEF LoadRunStarted, Goto, Live, Executing
      <3>2. ~AtWork /\ AtWork'
        BY <1>5, <3>1 DEF AtWork
      <3>3. file = Absent
        BY <2>3, <3>1 DEF LoadRunStarted, RerunInv, RerunWork
      <3>4. phase = "absent" /\ phase' = "executing"
        BY <3>2, <3>3, PhaseValue, PhaseValueNext DEF Outcome
      <3> QED
        BY <3>1, <3>4 DEF Lifecycle!Next, Lifecycle!Start
    <2>4. CASE RefuseResume(i)
      BY <2>2, <2>4 DEF RefuseResume, Live
    <2>5. CASE AcceptResume(i)
      <3>1. Live(i) /\ ~Executing(i) /\ Executing(i)' /\ recorded' = recorded
        BY <2>5 DEF AcceptResume, Goto, Live, Executing
      <3>2. ~AtWork /\ AtWork'
        BY <1>5, <3>1 DEF AtWork
      <3>3. load = file /\ Readable /\ file.status \in {"failed", "blocked"}
        BY <2>5, <3>1, LoadsFile DEF AcceptResume, Resumable
      <3>4. phase \in {"failed", "blocked"} /\ phase' = "executing"
        BY <3>2, <3>3, PhaseValue, PhaseValueNext DEF Outcome, Terminal, Readable
      <3> QED
        BY <3>1, <3>4 DEF Lifecycle!Next, Lifecycle!Resume
    <2>6. CASE LoadForMark(i) \/ OpenFile(i)
      BY <2>1, <2>6 DEF LoadForMark, OpenFile, Goto, Live, Executing
    <2>7. CASE WriteFile(i)
      <3>1. Live(i) /\ Executing(i) /\ Executing(i)' /\ pc[i] = "write"
        BY <2>7 DEF WriteFile, Goto, Live, Executing
      <3>2. AtWork /\ AtWork'
        BY <3>1 DEF AtWork
      <3>3. CASE recorded' = recorded
        BY <1>2, <3>2, <3>3
      <3>4. CASE recorded' # recorded
        <4>1. recorded' = recorded \cup {node[i]} /\ op[i] = "node_finished"
          BY <2>7, <3>1, <3>4 DEF WriteFile, ProgressInv
        <4>2. node[i] \in Node \ recorded
          BY <3>4, <4>1 DEF Control, NodeOps
        <4>3. phase = "executing" /\ phase' = "executing"
          BY <3>2, PhaseValue, PhaseValueNext
        <4> QED
          BY <4>1, <4>2, <4>3 DEF Lifecycle!Next, Lifecycle!Record
      <3> QED
        BY <3>3, <3>4
    <2>8. CASE Sync(i) \/ SyncLost(i)
      <3>1. pc[i] = "sync" /\ Live(i) /\ Executing(i) /\ Continue(i) /\ UNCHANGED <<file, recorded>>
        BY <2>8 DEF Sync, SyncLost, Live, Executing
      <3>2. CASE Retire(i)
        BY <2>2, <3>1, <3>2
      <3>3. CASE ~Retire(i)
        <4>1. Executing(i)'
          BY <3>1, <3>3 DEF Continue, Enter, Goto, Live, Executing
        <4> QED
          BY <2>1, <3>1, <4>1
      <3> QED
        BY <3>2, <3>3
    <2>9. CASE SyncRaises(i)
      <3>1. pc[i] = "sync" /\ Live(i) /\ Executing(i) /\ Unwind(i) /\ UNCHANGED <<file, recorded>>
        BY <2>9 DEF SyncRaises, Live, Executing
      <3>2. CASE Retire(i)
        BY <2>2, <3>1, <3>2
      <3>3. CASE ~Retire(i)
        <4>1. Executing(i)'
          BY <3>1, <3>3 DEF Unwind, Enter, Goto, Live, Executing
        <4> QED
          BY <2>1, <3>1, <4>1
      <3> QED
        BY <3>2, <3>3
    <2>10. CASE Launch(i)
      BY <2>1, <2>10 DEF Launch, Goto, Live, Executing
    <2>11. CASE CheckNode(i) \/ PassNode(i) \/ RunNode(i) \/ RaiseNode(i)
      BY <2>1, <2>11 DEF CheckNode, PassNode, RunNode, RaiseNode, Enter, Goto, Live, Executing
    <2>12. CASE NodeReturn(i)
      BY <2>1, <2>12 DEF NodeReturn, Enter, Goto, Live, Executing
    <2>13. CASE LoadCurrentNode(i)
      <3>1. Executing(i) /\ Executing(i)' /\ recorded' = recorded
        BY <2>13 DEF LoadCurrentNode, Control, Goto, Live, Executing
      <3> QED
        BY <2>1, <3>1
    <2> QED
      BY <1>7, <2>3, <2>4, <2>5, <2>6, <2>7, <2>8, <2>9, <2>10, <2>11, <2>12, <2>13 DEF Step
  <1>8. CASE Crash
    <2>1. ~AtWork' /\ UNCHANGED <<file, recorded>>
      BY <1>8 DEF Crash, AtWork, Executing, Live
    <2> QED
      BY <1>1, <1>3, <2>1
  <1>9. CASE UNCHANGED vars
    <2>1. (AtWork' <=> AtWork) /\ UNCHANGED <<file, recorded>>
      BY <1>9 DEF vars, local, AtWork, Executing, Live
    <2> QED
      BY <1>1, <1>2, <2>1
  <1> QED
    BY <1>6, <1>7, <1>8, <1>9 DEF Next

\* The safety part of LifecycleSpec, for every chain and any number of requests,
\* crashes and failed syncs: in sequential use of a batch_id that is posted once
\* the run starts once, progress is only added and only while it executes, a
\* completed run has done every node that may not fail softly and stays as it is,
\* and only a failed or blocked one is taken up again.  (That an execution ends
\* is left to TLC, with the fairness it rests on.)
THEOREM ImplementsLifecycle ==
  ASSUME ~Overlaps, ~Reposts
  PROVE  Spec => Lifecycle!Init /\ [][Lifecycle!Next]_(Lifecycle!vars)
  <1> DEFINE Inv == TypeInv /\ SeqInv /\ ProgressInv /\ ChainInv /\ RerunInv /\ lost = {}
  <1>1. Init => Inv
    BY InitTypeInv, InitSeqInv, InitProgressInv, InitChainInv, InitRerunInv DEF Init
  <1>2. Inv /\ [Next]_vars => Inv'
    BY NextTypeInv, NextSeqInv, NextProgressInv, NextChainInv, NextRerunInv, PostedOnceLosesNothing
    DEF ErrorsKnown
  <1>3. Inv /\ [Next]_vars => [Lifecycle!Next]_(Lifecycle!vars)
    BY LifecycleStep
  <1>4. Init => Lifecycle!Init
    BY LifecycleInit
  <1> HIDE DEF Inv
  <1> QED
    BY <1>1, <1>2, <1>3, <1>4, PTL DEF Spec

=============================================================================
