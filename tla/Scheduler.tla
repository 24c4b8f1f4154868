------------------------------ MODULE Scheduler ------------------------------
(***************************************************************************)
(* The cron scheduler: TenantFlowScheduler (workflow/runtime/scheduler.py) *)
(* of one or more application processes over the tenant_flow_schedules     *)
(* table (model/schedule.py), and the requests that edit that table.       *)
(*                                                                         *)
(* Each statement of model/schedule.py is one transaction and one action.  *)
(* Between the statements of a process, time passes, the other processes   *)
(* take theirs, and clients put and delete schedules; a PUT computes its   *)
(* next_run_at in one step and writes it in another.  A tick of time is a  *)
(* second, the grain of the batch id an execution gets; a cron expression  *)
(* is the set of instants it fires at.                                     *)
(*                                                                         *)
(* The execution itself is an invocation of WorkflowRun; here it only      *)
(* takes time and ends.  last_status and last_error are what it returned   *)
(* and are left out.                                                       *)
(*                                                                         *)
(* Bounds: MaxTime, MaxEdits, MaxCrashes, MaxFaults.                       *)
(***************************************************************************)
EXTENDS Integers, FiniteSets

CONSTANTS
  Process,            \* application processes, each with its scheduler thread
  Schedule,           \* (tenant, flow) pairs that may have a schedule
  Cron,               \* the cron expressions clients use: sets of instants
  Horizon,            \* how far ahead compute_next_run_at looks (two years)
  Limit,              \* schedules one poll takes (20)
  StaleLock,          \* stale_lock_seconds (600)
  EditsWhileRunning,  \* may a client edit a schedule that is being executed?
  MaxTime,
  MaxEdits,
  MaxCrashes,
  MaxFaults,
  NoTime,             \* SQL null
  Absent,             \* no row
  NoJob

Time == 0..MaxTime
Instant == 0..(MaxTime + Horizon)

ASSUME SchedulerAssumption ==
  /\ Cron \subseteq SUBSET Instant
  /\ Horizon \in Nat /\ Limit \in Nat \ {0} /\ StaleLock \in Nat
  /\ EditsWhileRunning \in BOOLEAN
  /\ MaxTime \in Nat /\ MaxEdits \in Nat /\ MaxCrashes \in Nat /\ MaxFaults \in Nat
  /\ NoTime \notin Int

VARIABLES
  now,
  rows,      \* rows[s]: the schedule's row, or Absent
  lastId,    \* the id given to the newest row (created_at orders like it)
  pc,        \* pc[p]: where process p is
  due,       \* due[p]: the schedules its poll listed that it has yet to try
  due_at,    \* due_at[p]: when it polled
  job,       \* job[p]: the execution it is at, or NoJob
  puts,      \* the PUTs that have computed next_run_at and not yet written
  lastBegun, \* history: lastBegun[s]: when an execution of s last began
  overtaken, \* history: the schedules to which a PUT gave back an old instant
  edits,
  crashes,
  faults

mine == <<pc, due, due_at, job>>
history == <<lastBegun, overtaken>>
vars == <<now, rows, lastId, mine, puts, history, edits, crashes, faults>>

\* A row is locked exactly when it carries the time of the lock.
Row ==
  {r \in [id          : Nat,
          cron        : Cron,
          is_active   : BOOLEAN,
          next_run_at : Instant \cup {NoTime},
          is_running  : BOOLEAN,
          locked_at   : Time \cup {NoTime},
          last_run_at : Time \cup {NoTime}] :
     r.is_running <=> r.locked_at # NoTime}

Listed == [s : Schedule, id : Nat, next_run_at : Instant]

\* finished_at is the code's name for the time the execution begins.
Job == [s : Schedule, id : Nat, cron : Cron, finished_at : Time, next_run_at : Instant \cup {NoTime}]

\* A PUT under way: put_at is when it read the clock.
Put == {u \in [n : 1..MaxEdits, s : Schedule, cron : Cron, is_active : BOOLEAN,
               put_at : Time, next_run_at : Instant \cup {NoTime}] :
          u.is_active => u.next_run_at # NoTime /\ u.put_at < u.next_run_at}

ASSUME SentinelAssumption == Absent \notin Row /\ NoJob \notin Job

PC == {"exited", "down", "reset", "fill", "idle", "claim", "begin", "run", "complete"}

TypeOK ==
  /\ now \in Time
  /\ rows \in [Schedule -> Row \cup {Absent}]
  /\ lastId \in Nat
  /\ pc \in [Process -> PC]
  /\ due \in [Process -> SUBSET Listed]
  /\ due_at \in [Process -> Time]
  /\ job \in [Process -> Job \cup {NoJob}]
  /\ puts \subseteq Put
  /\ lastBegun \in [Schedule -> Time \cup {NoTime}]
  /\ overtaken \subseteq Schedule
  /\ edits \in 0..MaxEdits
  /\ crashes \in 0..MaxCrashes
  /\ faults \in 0..MaxFaults

Init ==
  /\ now = 0
  /\ rows = [s \in Schedule |-> Absent]
  /\ lastId = 0
  /\ pc = [p \in Process |-> "down"]
  /\ due = [p \in Process |-> {}]
  /\ due_at = [p \in Process |-> 0]
  /\ job = [p \in Process |-> NoJob]
  /\ puts = {}
  /\ lastBegun = [s \in Schedule |-> NoTime]
  /\ overtaken = {}
  /\ edits = 0
  /\ crashes = 0
  /\ faults = 0

Goto(p, label) == pc' = [pc EXCEPT ![p] = label]

\* Process p has claimed a schedule and is not done with it.
Executing(p) == pc[p] \in {"begin", "run", "complete"}

-----------------------------------------------------------------------------

\* The first instant after t at which the expression fires; NoTime where the
\* code gives up and raises ValueError.
MutantFiresNow(cron, t) ==
  LET soon == {f \in cron : t <= f /\ f <= t + Horizon}
  IN  IF soon = {} THEN NoTime ELSE CHOOSE f \in soon : \A g \in soon : f <= g

compute_next_run_at(cron, t) ==
  LET soon == {f \in cron : t < f /\ f <= t + Horizon}
  IN  IF soon = {} THEN NoTime ELSE CHOOSE f \in soon : \A g \in soon : f <= g

\* It takes a process that exited more than a second to be up again.
Tick ==
  /\ now < MaxTime
  /\ now' = now + 1
  /\ pc' = [p \in Process |-> IF pc[p] = "exited" THEN "down" ELSE pc[p]]
  /\ UNCHANGED <<rows, lastId, due, due_at, job, puts, history, edits, crashes, faults>>

-----------------------------------------------------------------------------
(* Requests on schedules.                                                  *)

\* Nobody executes the schedule, and its row is not locked.
AtRest(s) ==
  /\ rows[s] # Absent => ~rows[s].is_running
  /\ \A p \in Process : Executing(p) => job[p].s # s

MayWrite(s) == EditsWhileRunning \/ AtRest(s)

\* Mutants: bugs to try the properties on; no specification uses them.  The
\* upsert leaves locked_at, or next_run_at, of an existing row as it was.
MutantUpsertKeepsLockedAt(s, cron, active, next) ==
  [id |-> IF rows[s] = Absent THEN lastId + 1 ELSE rows[s].id,
   cron |-> cron, is_active |-> active, next_run_at |-> next, is_running |-> FALSE,
   locked_at |-> IF rows[s] = Absent THEN NoTime ELSE rows[s].locked_at,
   last_run_at |-> IF rows[s] = Absent THEN NoTime ELSE rows[s].last_run_at]

MutantUpsertKeepsNext(s, cron, active, next) ==
  [id |-> IF rows[s] = Absent THEN lastId + 1 ELSE rows[s].id,
   cron |-> cron, is_active |-> active,
   next_run_at |-> IF rows[s] = Absent THEN next ELSE rows[s].next_run_at,
   is_running |-> FALSE, locked_at |-> NoTime,
   last_run_at |-> IF rows[s] = Absent THEN NoTime ELSE rows[s].last_run_at]

\* upsert_tenant_flow_schedule: an insert, or an update that also clears the
\* lock and leaves last_run_at alone.
Upserted(s, cron, active, next) ==
  [id          |-> IF rows[s] = Absent THEN lastId + 1 ELSE rows[s].id,
   cron        |-> cron,
   is_active   |-> active,
   next_run_at |-> next,
   is_running  |-> FALSE,
   locked_at   |-> NoTime,
   last_run_at |-> IF rows[s] = Absent THEN NoTime ELSE rows[s].last_run_at]

\* The route validates the request, reads the clock and computes next_run_at ...
PutSchedule(s) ==
  /\ edits < MaxEdits
  /\ edits' = edits + 1
  /\ \E cron \in Cron, active \in BOOLEAN :
       LET next == IF active THEN compute_next_run_at(cron, now) ELSE NoTime
       IN  /\ active => next # NoTime
           /\ puts' = puts \cup {[n |-> edits + 1, s |-> s, cron |-> cron, is_active |-> active,
                                  put_at |-> now, next_run_at |-> next]}
  /\ UNCHANGED <<now, rows, lastId, mine, history, crashes, faults>>

\* An execution that began since the PUT read the clock has answered to the
\* instant that the PUT is about to write.
Overtaken(u) ==
  /\ u.is_active
  /\ lastBegun[u.s] # NoTime
  /\ u.put_at < lastBegun[u.s] /\ u.next_run_at <= lastBegun[u.s]

\* ... and writes the row, whatever happened to it in the meantime.
UpsertSchedule(u) ==
  /\ MayWrite(u.s)
  /\ rows' = [rows EXCEPT ![u.s] = Upserted(u.s, u.cron, u.is_active, u.next_run_at)]
  /\ lastId' = IF rows[u.s] = Absent THEN lastId + 1 ELSE lastId
  /\ puts' = puts \ {u}
  /\ overtaken' = IF Overtaken(u) THEN overtaken \cup {u.s} ELSE overtaken \ {u.s}
  /\ UNCHANGED <<now, mine, lastBegun, edits, crashes, faults>>

DeleteSchedule(s) ==
  /\ edits < MaxEdits
  /\ MayWrite(s)
  /\ rows[s] # Absent
  /\ rows' = [rows EXCEPT ![s] = Absent]
  /\ edits' = edits + 1
  /\ UNCHANGED <<now, lastId, mine, puts, history, crashes, faults>>

-----------------------------------------------------------------------------
(* A process comes up, recovers, and polls.                                *)

Start(p) ==
  /\ pc[p] = "down"
  /\ Goto(p, "reset")
  /\ UNCHANGED <<now, rows, lastId, due, due_at, job, puts, history, edits, crashes, faults>>

MutantStaleTooSoon(r) == r.is_running /\ r.locked_at <= now - StaleLock

Stale(r) == r.is_running /\ r.locked_at < now - StaleLock

\* recover(), its first statement: unlock what was locked too long ago.
ResetStaleLocks(p) ==
  /\ pc[p] = "reset"
  /\ rows' = [s \in Schedule |->
                IF rows[s] # Absent /\ Stale(rows[s])
                  THEN [rows[s] EXCEPT !.is_running = FALSE, !.locked_at = NoTime]
                  ELSE rows[s]]
  /\ Goto(p, "fill")
  /\ UNCHANGED <<now, lastId, due, due_at, job, puts, history, edits, crashes, faults>>

\* ... and the rest: a next_run_at for every active schedule that has none.
FillNextRun(p) ==
  /\ pc[p] = "fill"
  /\ rows' = [s \in Schedule |->
                IF rows[s] # Absent /\ rows[s].is_active /\ rows[s].next_run_at = NoTime
                  THEN [rows[s] EXCEPT !.next_run_at = compute_next_run_at(rows[s].cron, now)]
                  ELSE rows[s]]
  /\ Goto(p, "idle")
  /\ UNCHANGED <<now, lastId, due, due_at, job, puts, history, edits, crashes, faults>>

MutantDueExactly(r, t) ==
  r.is_active /\ ~r.is_running /\ r.next_run_at # NoTime /\ r.next_run_at = t

IsDue(r, t) ==
  /\ r.is_active
  /\ ~r.is_running
  /\ r.next_run_at # NoTime
  /\ r.next_run_at <= t

\* order by next_run_at, created_at
Before(x, y) ==
  x.next_run_at < y.next_run_at \/ (x.next_run_at = y.next_run_at /\ x.id < y.id)

DueNow ==
  {[s |-> s, id |-> rows[s].id, next_run_at |-> rows[s].next_run_at] :
     s \in {x \in Schedule : rows[x] # Absent /\ IsDue(rows[x], now)}}

\* list_due_tenant_flow_schedules.  (A poll that finds none changes nothing.)
Poll(p) ==
  /\ pc[p] = "idle"
  /\ DueNow # {}
  /\ due_at' = [due_at EXCEPT ![p] = now]
  /\ due' = [due EXCEPT ![p] =
               {x \in DueNow : Cardinality({y \in DueNow : Before(y, x)}) < Limit}]
  /\ Goto(p, "claim")
  /\ UNCHANGED <<now, rows, lastId, job, puts, history, edits, crashes, faults>>

First(p, x) == x \in due[p] /\ \A y \in due[p] : ~Before(y, x)

\* The where clause of claim_tenant_flow_schedule.
Claimable(p, x) ==
  /\ rows[x.s] # Absent
  /\ rows[x.s].id = x.id
  /\ IsDue(rows[x.s], due_at[p])

\* The claimed row as the execution sees it from then on.
Claimed(x) ==
  [s |-> x.s, id |-> x.id, cron |-> rows[x.s].cron, finished_at |-> 0, next_run_at |-> NoTime]

Take(p, x) ==
  /\ job' = [job EXCEPT ![p] = Claimed(x)]
  /\ due' = [due EXCEPT ![p] = @ \ {x}]
  /\ Goto(p, "begin")
  /\ UNCHANGED <<now, lastId, due_at, puts, history, edits, crashes>>

\* locked_at is the time of the poll.
Claim(p) ==
  /\ pc[p] = "claim"
  /\ \E x \in due[p] :
       /\ First(p, x) /\ Claimable(p, x)
       /\ rows' = [rows EXCEPT ![x.s].is_running = TRUE, ![x.s].locked_at = due_at[p]]
       /\ Take(p, x)
  /\ UNCHANGED faults

\* The commit is lost with the connection and connect_postgres swallows the
\* error: the caller has the row, the table does not have the lock.
ClaimLost(p) ==
  /\ pc[p] = "claim"
  /\ faults < MaxFaults
  /\ \E x \in due[p] : First(p, x) /\ Claimable(p, x) /\ Take(p, x)
  /\ faults' = faults + 1
  /\ UNCHANGED rows

\* The next schedule of the poll, or the end of it.
Turn(p, rest) == Goto(p, IF rest = {} THEN "idle" ELSE "claim")

ClaimMissed(p) ==
  /\ pc[p] = "claim"
  /\ \E x \in due[p] :
       /\ First(p, x) /\ ~Claimable(p, x)
       /\ due' = [due EXCEPT ![p] = @ \ {x}]
       /\ Turn(p, due[p] \ {x})
  /\ UNCHANGED <<now, rows, lastId, due_at, job, puts, history, edits, crashes, faults>>

-----------------------------------------------------------------------------
(* _execute_schedule.                                                      *)

Begin(p) ==
  /\ pc[p] = "begin"
  /\ compute_next_run_at(job[p].cron, now) # NoTime
  /\ job' = [job EXCEPT ![p].finished_at = now,
                        ![p].next_run_at = compute_next_run_at(job[p].cron, now)]
  /\ lastBegun' = [lastBegun EXCEPT ![job[p].s] = now]
  /\ overtaken' = overtaken \ {job[p].s}
  /\ Goto(p, "run")
  /\ UNCHANGED <<now, rows, lastId, due, due_at, puts, edits, crashes, faults>>

\* run_pending is left by an exception: the loop swallows it, and the rest of
\* the poll's schedules wait for the next one.
Abort(p) ==
  /\ job' = [job EXCEPT ![p] = NoJob]
  /\ due' = [due EXCEPT ![p] = {}]
  /\ Goto(p, "idle")

\* compute_next_run_at is called before the try: the lock stays.
BeginRaises(p) ==
  /\ pc[p] = "begin"
  /\ compute_next_run_at(job[p].cron, now) = NoTime
  /\ Abort(p)
  /\ UNCHANGED <<now, rows, lastId, due_at, puts, history, edits, crashes, faults>>

\* runtime.run returns or raises.
EndRun(p) ==
  /\ pc[p] = "run"
  /\ Goto(p, "complete")
  /\ UNCHANGED <<now, rows, lastId, due, due_at, job, puts, history, edits, crashes, faults>>

MutantKeepsLock(p) ==
  LET s == job[p].s
  IN  [rows EXCEPT ![s] = IF @ # Absent /\ @.id = job[p].id
                            THEN [@ EXCEPT !.next_run_at = job[p].next_run_at,
                                           !.last_run_at = job[p].finished_at]
                            ELSE @]

\* complete_tenant_flow_schedule_run: where id = ..., and nothing else.
Completed(p) ==
  LET s == job[p].s
  IN  [rows EXCEPT ![s] = IF @ # Absent /\ @.id = job[p].id
                            THEN [@ EXCEPT !.is_running  = FALSE,
                                           !.locked_at   = NoTime,
                                           !.next_run_at = job[p].next_run_at,
                                           !.last_run_at = job[p].finished_at]
                            ELSE @]

Complete(p) ==
  /\ pc[p] = "complete"
  /\ rows' = Completed(p)
  /\ job' = [job EXCEPT ![p] = NoJob]
  /\ Turn(p, due[p])
  /\ UNCHANGED <<now, lastId, due, due_at, puts, history, edits, crashes, faults>>

\* The update is lost with the connection, silently (see ClaimLost) ...
CompleteLost(p) ==
  /\ pc[p] = "complete"
  /\ faults < MaxFaults
  /\ faults' = faults + 1
  /\ job' = [job EXCEPT ![p] = NoJob]
  /\ Turn(p, due[p])
  /\ UNCHANGED <<now, rows, lastId, due, due_at, puts, history, edits, crashes>>

\* ... or the connection cannot be made and the finally clause raises.
CompleteRaises(p) ==
  /\ pc[p] = "complete"
  /\ faults < MaxFaults
  /\ faults' = faults + 1
  /\ Abort(p)
  /\ UNCHANGED <<now, rows, lastId, due_at, puts, history, edits, crashes>>

\* The process dies, or is stopped: its daemon thread is not waited for.
Crash(p) ==
  /\ pc[p] \notin {"down", "exited"}
  /\ crashes < MaxCrashes
  /\ crashes' = crashes + 1
  /\ job' = [job EXCEPT ![p] = NoJob]
  /\ due' = [due EXCEPT ![p] = {}]
  /\ Goto(p, "exited")
  /\ UNCHANGED <<now, rows, lastId, due_at, puts, history, edits, faults>>

-----------------------------------------------------------------------------

Step(p) ==
  \/ Start(p) \/ ResetStaleLocks(p) \/ FillNextRun(p)
  \/ Poll(p) \/ Claim(p) \/ ClaimLost(p) \/ ClaimMissed(p)
  \/ Begin(p) \/ BeginRaises(p) \/ EndRun(p)
  \/ Complete(p) \/ CompleteLost(p) \/ CompleteRaises(p)

Next ==
  \/ Tick
  \/ \E s \in Schedule : PutSchedule(s) \/ DeleteSchedule(s)
  \/ \E u \in puts : UpsertSchedule(u)
  \/ \E p \in Process : Step(p) \/ Crash(p)

\* A process is started and restarted, its thread is scheduled, and an execution
\* ends: every external call of a flow has a timeout.  Time moves on.
Spec ==
  /\ Init /\ [][Next]_vars
  /\ WF_vars(Tick)
  /\ \A p \in Process : WF_vars(Step(p))

-----------------------------------------------------------------------------
(* Properties.                                                             *)

\* No execution outlasts the stale lock limit, counted from its poll.
Punctual == \A p \in Process : Executing(p) => now - due_at[p] <= StaleLock

Alone ==
  \A p, q \in Process : Executing(p) /\ Executing(q) /\ job[p].s = job[q].s => p = q

\* Two processes never execute the same schedule at the same time, unless a
\* database call failed.
ExclusiveRun == faults = 0 => Alone

\* A schedule marked running is being executed, unless a crash or a failed
\* database call came between.  (An expression that runs out also leaves a
\* lock behind: see BeginRaises.)
LockIsHeld ==
  crashes = 0 /\ faults = 0 =>
    \A s \in Schedule : rows[s] # Absent /\ rows[s].is_running =>
      \E p \in Process : Executing(p) /\ job[p].s = s /\ job[p].id = rows[s].id

\* An active schedule always has a next_run_at, so polls find it and recover()
\* has nothing to fill in.
ActiveHasNext ==
  \A s \in Schedule :
    rows[s] # Absent /\ rows[s].is_active => rows[s].next_run_at # NoTime

\* The next_run_at of an active schedule is an instant its own cron expression
\* fires at.
NextFollowsCron ==
  \A s \in Schedule :
    rows[s] # Absent /\ rows[s].is_active => rows[s].next_run_at \in rows[s].cron

\* An execution answers to an instant its cron expression fired at since the
\* last execution began: no instant is executed twice, unless an execution was
\* interrupted, a database call failed, or an execution came between the two
\* steps of a PUT, which then gave the schedule the same instant again.
OneRunPerInstant ==
  [][\A p \in Process : crashes = 0 /\ faults = 0 /\ Begin(p) /\ job[p].s \notin overtaken =>
       \E f \in job[p].cron :
         /\ f <= now
         /\ lastBegun[job[p].s] = NoTime \/ lastBegun[job[p].s] < f]_vars

\* A schedule that is due is executed, or edited away.
DueIsExecuted ==
  \A s \in Schedule :
    (rows[s] # Absent /\ IsDue(rows[s], now))
      ~> (rows[s] = Absent \/ ~rows[s].is_active \/ rows[s].next_run_at > now)

=============================================================================
