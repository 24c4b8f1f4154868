--------------------------- MODULE SchedulerProofs ---------------------------
(* Theorems about Scheduler, for every set of processes, schedules and      *)
(* expressions and every bound.                                             *)
EXTENDS Scheduler, WellFoundedInduction, TLAPS

\* Names of tuples of variables.
USE DEF mine, history

-----------------------------------------------------------------------------
(* What compute_next_run_at returns.                                        *)

LEMMA MinimumExists ==
  ASSUME NEW T, T \subseteq Nat, T # {}
  PROVE  \E m \in T : \A n \in T : m <= n
  <1> DEFINE less == {ss \in Nat \X Nat : ss[1] < ss[2]}
  <1>0. IsWellFoundedOn(less, Nat)
    BY NatLessThanWellFounded, Zenon DEF OpToRel
  <1>1. PICK m \in T : \A n \in T : <<n, m>> \notin less
    <2> HIDE DEF less
    <2> QED
      BY <1>0, WFMin
  <1>2. ASSUME NEW n \in T PROVE m <= n
    <2>1. n \in Nat /\ m \in Nat
      OBVIOUS
    <2>2. ~(n < m)
      BY <1>1, <2>1
    <2> QED
      BY <2>1, <2>2
  <1> QED
    BY <1>2

LEMMA NextInstant ==
  ASSUME NEW cron \in Cron, NEW t \in Time
  PROVE  \/ compute_next_run_at(cron, t) = NoTime
         \/ /\ compute_next_run_at(cron, t) \in cron /\ compute_next_run_at(cron, t) \in Instant
            /\ t < compute_next_run_at(cron, t)
  <1> DEFINE soon == {f \in cron : t < f /\ f <= t + Horizon}
  <1>1. cron \subseteq Instant /\ Instant \subseteq Nat
    BY SchedulerAssumption DEF Instant
  <1>2. CASE soon = {}
    BY <1>2 DEF compute_next_run_at
  <1>3. CASE soon # {}
    <2>1. \E m \in soon : \A n \in soon : m <= n
      BY <1>1, <1>3, MinimumExists
    <2>2. compute_next_run_at(cron, t) = CHOOSE f \in soon : \A g \in soon : f <= g
      BY <1>3 DEF compute_next_run_at
    <2> QED
      BY <1>1, <2>1, <2>2
  <1> QED
    BY <1>2, <1>3

-----------------------------------------------------------------------------
(* Type correctness, and that an active schedule has a next_run_at.  The    *)
(* latter is an induction of its own: complete_tenant_flow_schedule_run     *)
(* writes what _execute_schedule computed before it ran the flow.           *)

JobHeld ==
  \A p \in Process : Executing(p) =>
    job[p] \in Job /\ (pc[p] # "begin" => job[p].next_run_at # NoTime)

TypeInv ==
  /\ TypeOK
  /\ JobHeld
  /\ ActiveHasNext

\* What a row may be, without the set that filters it.
LEMMA RowFields ==
  ASSUME NEW r
  PROVE  r \in Row <=>
           /\ r \in [id : Nat, cron : Cron, is_active : BOOLEAN,
                     next_run_at : Instant \cup {NoTime}, is_running : BOOLEAN,
                     locked_at : Time \cup {NoTime}, last_run_at : Time \cup {NoTime}]
           /\ r.is_running <=> r.locked_at # NoTime
  BY DEF Row

\* The two ways a row is changed in place: its lock, and the end of a run.
LEMMA RowChanged ==
  ASSUME NEW r \in Row, NEW b \in BOOLEAN, NEW l \in Time \cup {NoTime}, b <=> l # NoTime,
         NEW n \in Instant \cup {NoTime}, NEW t \in Time \cup {NoTime}
  PROVE  /\ [r EXCEPT !.is_running = b, !.locked_at = l] \in Row
         /\ [r EXCEPT !.is_running = b, !.locked_at = l, !.next_run_at = n, !.last_run_at = t] \in Row
  <1> DEFINE S == [id : Nat, cron : Cron, is_active : BOOLEAN,
                   next_run_at : Instant \cup {NoTime}, is_running : BOOLEAN,
                   locked_at : Time \cup {NoTime}, last_run_at : Time \cup {NoTime}]
             locked == [r EXCEPT !.is_running = b, !.locked_at = l]
             done == [r EXCEPT !.is_running = b, !.locked_at = l, !.next_run_at = n, !.last_run_at = t]
  <1>1. r \in S
    BY DEF Row
  <1>2. locked \in S /\ locked.is_running = b /\ locked.locked_at = l
    BY <1>1
  <1>3. done \in S /\ done.is_running = b /\ done.locked_at = l
    BY <1>1
  <1> HIDE DEF locked, done
  <1>4. locked \in Row /\ done \in Row
    BY <1>2, <1>3 DEF Row
  <1> QED
    BY <1>4 DEF locked, done

\* Replacing one row by a row or by none keeps the table a table.
LEMMA RowReplaced ==
  ASSUME TypeOK, ActiveHasNext, NEW s \in Schedule, NEW r \in Row \cup {Absent},
         r # Absent /\ r.is_active => r.next_run_at # NoTime,
         rows' = [rows EXCEPT ![s] = r]
  PROVE  rows' \in [Schedule -> Row \cup {Absent}] /\ ActiveHasNext'
  BY DEF TypeOK, ActiveHasNext

LEMMA InitTyped == Init => TypeInv
  BY SchedulerAssumption DEF Init, TypeInv, TypeOK, JobHeld, ActiveHasNext, Executing, PC, Time

LEMMA TickTyped == TypeInv /\ Tick => TypeInv'
  BY SchedulerAssumption DEF Tick, TypeInv, TypeOK, JobHeld, ActiveHasNext, Executing, PC, Time

LEMMA PutTyped ==
  ASSUME TypeInv, NEW s \in Schedule, PutSchedule(s)
  PROVE  TypeInv'
  <1> USE DEF TypeInv
  <1>1. PICK cron \in Cron, active \in BOOLEAN :
          LET next == IF active THEN compute_next_run_at(cron, now) ELSE NoTime
          IN  /\ active => next # NoTime
              /\ puts' = puts \cup {[n |-> edits + 1, s |-> s, cron |-> cron, is_active |-> active,
                                     put_at |-> now, next_run_at |-> next]}
    BY DEF PutSchedule
  <1> DEFINE next == IF active THEN compute_next_run_at(cron, now) ELSE NoTime
  <1> DEFINE u == [n |-> edits + 1, s |-> s, cron |-> cron, is_active |-> active,
                   put_at |-> now, next_run_at |-> next]
  <1>2. next \in Instant \cup {NoTime} /\ (active => next # NoTime /\ now < next)
    BY <1>1, NextInstant DEF TypeOK
  <1>3. edits + 1 \in 1..MaxEdits /\ edits' \in 0..MaxEdits
    BY SchedulerAssumption DEF PutSchedule, TypeOK
  <1>4. u \in Put
    <2> HIDE DEF next
    <2> QED
      BY <1>2, <1>3 DEF Put, TypeOK
  <1>5. puts' \subseteq Put
    BY <1>1, <1>4 DEF TypeOK
  <1>6. UNCHANGED <<now, rows, lastId, pc, due, due_at, job, lastBegun, overtaken, crashes, faults>>
    BY DEF PutSchedule
  <1> QED
    BY <1>3, <1>5, <1>6 DEF TypeOK, JobHeld, ActiveHasNext, Executing

\* What a PUT under way will write.
LEMMA UpsertRow ==
  ASSUME TypeInv, NEW u \in puts, UpsertSchedule(u)
  PROVE  \E r \in Row :
           /\ rows' = [rows EXCEPT ![u.s] = r]
           /\ r.cron = u.cron /\ r.is_active = u.is_active /\ r.next_run_at = u.next_run_at
           /\ ~r.is_running
  <1> DEFINE new == Upserted(u.s, u.cron, u.is_active, u.next_run_at)
             id == IF rows[u.s] = Absent THEN lastId + 1 ELSE rows[u.s].id
             last == IF rows[u.s] = Absent THEN NoTime ELSE rows[u.s].last_run_at
  <1>1. u \in Put /\ u.s \in Schedule
    BY DEF TypeInv, TypeOK, Put
  <1>2. rows[u.s] # Absent => rows[u.s] \in Row
    BY <1>1 DEF TypeInv, TypeOK
  <1>3. id \in Nat /\ last \in Time \cup {NoTime}
    BY <1>2, RowFields DEF TypeInv, TypeOK
  <1>4. new = [id |-> id, cron |-> u.cron, is_active |-> u.is_active, next_run_at |-> u.next_run_at,
               is_running |-> FALSE, locked_at |-> NoTime, last_run_at |-> last]
    BY DEF Upserted
  <1>5. rows' = [rows EXCEPT ![u.s] = new]
    BY DEF UpsertSchedule
  <1> HIDE DEF id, last, new
  <1>6. new \in Row
    BY <1>1, <1>3, <1>4, RowFields DEF Put
  <1> QED
    BY <1>4, <1>5, <1>6

LEMMA UpsertTyped ==
  ASSUME TypeInv, NEW u \in puts, UpsertSchedule(u)
  PROVE  TypeInv'
  <1> USE DEF TypeInv
  <1>1. u \in Put /\ u.s \in Schedule /\ (u.is_active => u.next_run_at # NoTime)
    BY DEF TypeOK, Put
  <1>2. rows' \in [Schedule -> Row \cup {Absent}] /\ ActiveHasNext'
    BY <1>1, UpsertRow, RowReplaced
  <1>3. lastId' \in Nat /\ puts' \subseteq Put /\ overtaken' \subseteq Schedule
    BY <1>1 DEF UpsertSchedule, TypeOK
  <1>4. UNCHANGED <<now, pc, due, due_at, job, lastBegun, edits, crashes, faults>>
    BY DEF UpsertSchedule
  <1> QED
    BY <1>2, <1>3, <1>4 DEF TypeOK, JobHeld, Executing

LEMMA DeleteTyped ==
  ASSUME TypeInv, NEW s \in Schedule, DeleteSchedule(s)
  PROVE  TypeInv'
  <1> USE DEF TypeInv
  <1>1. rows' \in [Schedule -> Row \cup {Absent}] /\ ActiveHasNext'
    BY RowReplaced DEF DeleteSchedule
  <1>2. edits' \in 0..MaxEdits
    BY SchedulerAssumption DEF DeleteSchedule, TypeOK
  <1> QED
    BY <1>1, <1>2 DEF DeleteSchedule, TypeOK, JobHeld, Executing

LEMMA StartTyped ==
  ASSUME TypeInv, NEW p \in Process, Start(p)
  PROVE  TypeInv'
  BY DEF TypeInv, Start, Goto, TypeOK, JobHeld, ActiveHasNext, Executing, PC

LEMMA ResetTyped ==
  ASSUME TypeInv, NEW p \in Process, ResetStaleLocks(p)
  PROVE  TypeInv'
  <1> USE DEF TypeInv
  <1>1. ASSUME NEW s \in Schedule
        PROVE  /\ rows'[s] \in Row \cup {Absent}
               /\ rows'[s] # Absent /\ rows'[s].is_active => rows'[s].next_run_at # NoTime
    <2> DEFINE r == [rows[s] EXCEPT !.is_running = FALSE, !.locked_at = NoTime]
    <2>1. rows'[s] = IF rows[s] # Absent /\ Stale(rows[s]) THEN r ELSE rows[s]
      BY DEF ResetStaleLocks
    <2>2. rows[s] \in Row \cup {Absent}
      BY DEF TypeOK
    <2>3. rows[s] # Absent => r \in Row
      BY <2>2, RowChanged
    <2>5. rows[s] # Absent => r.is_active = rows[s].is_active /\ r.next_run_at = rows[s].next_run_at
      BY <2>2 DEF Row
    <2>4. rows[s] # Absent /\ rows[s].is_active => rows[s].next_run_at # NoTime
      BY DEF ActiveHasNext
    <2> HIDE DEF r
    <2> QED
      BY <2>1, <2>2, <2>3, <2>4, <2>5
  <1>2. rows' \in [Schedule -> Row \cup {Absent}] /\ ActiveHasNext'
    BY <1>1 DEF ResetStaleLocks, ActiveHasNext
  <1> QED
    BY <1>2 DEF ResetStaleLocks, Goto, TypeOK, JobHeld, Executing, PC

LEMMA FillKeeps ==
  ASSUME TypeInv, NEW p \in Process, FillNextRun(p)
  PROVE  rows' = rows
  <1>1. rows = [s \in Schedule |-> rows[s]]
    BY DEF TypeInv, TypeOK
  <1> QED
    BY <1>1 DEF FillNextRun, TypeInv, ActiveHasNext

LEMMA FillTyped ==
  ASSUME TypeInv, NEW p \in Process, FillNextRun(p)
  PROVE  TypeInv'
  BY FillKeeps DEF TypeInv, FillNextRun, Goto, TypeOK, JobHeld, ActiveHasNext, Executing, PC

LEMMA PollTyped ==
  ASSUME TypeInv, NEW p \in Process, Poll(p)
  PROVE  TypeInv'
  <1> USE DEF TypeInv
  <1>1. DueNow \subseteq Listed
    BY RowFields DEF DueNow, IsDue, Listed, TypeOK
  <1>2. due' \in [Process -> SUBSET Listed] /\ due_at' \in [Process -> Time]
    BY <1>1 DEF Poll, TypeOK
  <1> QED
    BY <1>2 DEF Poll, Goto, TypeOK, JobHeld, ActiveHasNext, Executing, PC

\* Claim and ClaimLost: what they do to the process.
LEMMA TakeTyped ==
  ASSUME TypeInv, NEW p \in Process, pc[p] = "claim", NEW x \in due[p], Claimable(p, x), Take(p, x)
  PROVE  /\ pc' \in [Process -> PC] /\ due' \in [Process -> SUBSET Listed]
         /\ job' \in [Process -> Job \cup {NoJob}] /\ JobHeld'
         /\ UNCHANGED <<now, lastId, due_at, puts, lastBegun, overtaken, edits, crashes>>
  <1> USE DEF TypeInv
  <1>1. x \in Listed /\ rows[x.s] \in Row
    BY DEF Claimable, TypeOK, Listed
  <1>2. Claimed(x) \in Job
    BY <1>1, RowFields, SchedulerAssumption DEF Claimed, Job, Listed, Time
  <1>3. pc' = [pc EXCEPT ![p] = "begin"] /\ job' = [job EXCEPT ![p] = Claimed(x)]
        /\ due' = [due EXCEPT ![p] = due[p] \ {x}]
    BY DEF Take, Goto
  <1>4. pc' \in [Process -> PC]
    BY <1>3 DEF TypeOK, PC
  <1>5. job' \in [Process -> Job \cup {NoJob}] /\ due' \in [Process -> SUBSET Listed]
    BY <1>2, <1>3 DEF TypeOK
  <1>6. JobHeld'
    BY <1>2, <1>3 DEF TypeOK, JobHeld, Executing
  <1> QED
    BY <1>4, <1>5, <1>6 DEF Take

LEMMA ClaimTyped ==
  ASSUME TypeInv, NEW p \in Process, Claim(p)
  PROVE  TypeInv'
  <1> USE DEF TypeInv
  <1>1. PICK x \in due[p] :
          /\ Claimable(p, x) /\ Take(p, x)
          /\ rows' = [rows EXCEPT ![x.s].is_running = TRUE, ![x.s].locked_at = due_at[p]]
    BY DEF Claim
  <1>2. x.s \in Schedule /\ rows[x.s] \in Row /\ due_at[p] \in Time /\ due_at[p] # NoTime
    BY <1>1, SchedulerAssumption DEF Claimable, TypeOK, Listed, Time
  <1> DEFINE r == [rows[x.s] EXCEPT !.is_running = TRUE, !.locked_at = due_at[p]]
  <1>3. r \in Row /\ r.is_active = rows[x.s].is_active /\ r.next_run_at = rows[x.s].next_run_at
    <2>1. r \in Row
      BY <1>2, RowChanged
    <2> QED
      BY <1>2, <2>1 DEF Row
  <1>4. rows' = [rows EXCEPT ![x.s] = r]
    BY <1>1, <1>2 DEF TypeOK
  <1>5. rows' \in [Schedule -> Row \cup {Absent}] /\ ActiveHasNext'
    <2>1. r # Absent /\ r.is_active => r.next_run_at # NoTime
      BY <1>2, <1>3, SentinelAssumption DEF ActiveHasNext
    <2> HIDE DEF r
    <2> QED
      BY <1>2, <1>3, <1>4, <2>1, RowReplaced
  <1>6. faults' = faults /\ pc[p] = "claim"
    BY DEF Claim
  <1> QED
    BY <1>1, <1>5, <1>6, TakeTyped DEF TypeOK

LEMMA ClaimLostTyped ==
  ASSUME TypeInv, NEW p \in Process, ClaimLost(p)
  PROVE  TypeInv'
  <1>1. PICK x \in due[p] : Claimable(p, x) /\ Take(p, x)
    BY DEF ClaimLost
  <1>2. faults' \in 0..MaxFaults /\ rows' = rows /\ pc[p] = "claim"
    BY SchedulerAssumption DEF ClaimLost, TypeInv, TypeOK
  <1> QED
    BY <1>1, <1>2, TakeTyped DEF TypeInv, TypeOK, ActiveHasNext

LEMMA ClaimMissedTyped ==
  ASSUME TypeInv, NEW p \in Process, ClaimMissed(p)
  PROVE  TypeInv'
  BY DEF TypeInv, ClaimMissed, Turn, Goto, TypeOK, JobHeld, ActiveHasNext, Executing, PC

LEMMA BeginTyped ==
  ASSUME TypeInv, NEW p \in Process, Begin(p)
  PROVE  TypeInv'
  <1> USE DEF TypeInv
  <1> DEFINE next == compute_next_run_at(job[p].cron, now)
  <1>1. job[p] \in Job /\ next # NoTime
    BY DEF Begin, JobHeld, Executing
  <1>2. next \in Instant /\ now \in Time
    BY <1>1, NextInstant DEF Job, TypeOK
  <1> DEFINE j == [job[p] EXCEPT !.finished_at = now, !.next_run_at = next]
  <1>3. j \in Job /\ j.next_run_at # NoTime /\ job[p].s \in Schedule
    <2> HIDE DEF next
    <2> QED
      BY <1>1, <1>2 DEF Job
  <1>4. job' = [job EXCEPT ![p] = j] /\ pc' = [pc EXCEPT ![p] = "run"]
    BY DEF Begin, Goto, TypeOK
  <1>5. job' \in [Process -> Job \cup {NoJob}] /\ JobHeld'
    <2> HIDE DEF j
    <2> QED
      BY <1>3, <1>4 DEF JobHeld, Executing, TypeOK
  <1>6. lastBegun' \in [Schedule -> Time \cup {NoTime}]
    BY <1>2, <1>3 DEF Begin, TypeOK
  <1> QED
    BY <1>4, <1>5, <1>6 DEF Begin, TypeOK, ActiveHasNext, PC

LEMMA AbortTyped ==
  ASSUME TypeInv, NEW p \in Process, Abort(p)
  PROVE  /\ pc' \in [Process -> PC] /\ due' \in [Process -> SUBSET Listed]
         /\ job' \in [Process -> Job \cup {NoJob}] /\ JobHeld'
  BY DEF TypeInv, Abort, Goto, TypeOK, JobHeld, Executing, PC

LEMMA BeginRaisesTyped ==
  ASSUME TypeInv, NEW p \in Process, BeginRaises(p)
  PROVE  TypeInv'
  BY AbortTyped DEF TypeInv, BeginRaises, TypeOK, ActiveHasNext

LEMMA EndRunTyped ==
  ASSUME TypeInv, NEW p \in Process, EndRun(p)
  PROVE  TypeInv'
  BY DEF TypeInv, EndRun, Goto, TypeOK, JobHeld, ActiveHasNext, Executing, PC

LEMMA CompletedRow ==
  ASSUME TypeInv, NEW p \in Process, job[p] \in Job, job[p].next_run_at # NoTime,
         NEW s, s = job[p].s
  PROVE  \E r \in Row \cup {Absent} :
           /\ Completed(p) = [rows EXCEPT ![s] = r]
           /\ r # Absent /\ r.is_active => r.next_run_at # NoTime
           /\ r = Absent <=> rows[s] = Absent
           /\ r # Absent => r.cron = rows[s].cron /\ r.id = rows[s].id /\ r.is_active = rows[s].is_active
           /\ r # Absent => \/ r = rows[s]
                            \/ r.next_run_at = job[p].next_run_at /\ rows[s].id = job[p].id
  <1> USE DEF TypeInv
  <1> DEFINE j == job[p]
             done == [rows[s] EXCEPT !.is_running = FALSE, !.locked_at = NoTime,
                                     !.next_run_at = j.next_run_at, !.last_run_at = j.finished_at]
             hit == rows[s] # Absent /\ rows[s].id = j.id
  <1>1. s \in Schedule /\ rows[s] \in Row \cup {Absent}
    BY DEF Job, TypeOK
  <1>2. Completed(p) = [rows EXCEPT ![s] = IF hit THEN done ELSE rows[s]]
    BY <1>1 DEF Completed, TypeOK
  <1>3. hit => /\ done \in Row /\ done # Absent
               /\ done.is_active = rows[s].is_active /\ done.cron = rows[s].cron /\ done.id = rows[s].id
               /\ done.next_run_at = j.next_run_at /\ rows[s].id = j.id
    <2>1. j \in Job
      OBVIOUS
    <2>2. rows[s] \in Row => done \in Row
      <3>1. j.next_run_at \in Instant \cup {NoTime} /\ j.finished_at \in Time \cup {NoTime}
        BY <2>1 DEF Job
      <3> QED
        BY <3>1, RowChanged
    <2>3. rows[s] \in Row =>
            /\ done.is_active = rows[s].is_active /\ done.cron = rows[s].cron /\ done.id = rows[s].id
            /\ done.next_run_at = j.next_run_at
      BY DEF Row
    <2> HIDE DEF done, j
    <2> QED
      BY <1>1, <2>2, <2>3, SentinelAssumption
  <1>4. rows[s] # Absent /\ rows[s].is_active => rows[s].next_run_at # NoTime
    BY <1>1 DEF ActiveHasNext
  <1> HIDE DEF done, j
  <1>5. CASE hit
    <2>1. /\ done \in Row \cup {Absent} /\ done # Absent
          /\ Completed(p) = [rows EXCEPT ![s] = done]
          /\ done.next_run_at # NoTime
          /\ done.next_run_at = job[p].next_run_at /\ rows[s].id = job[p].id /\ rows[s] # Absent
          /\ done.cron = rows[s].cron /\ done.id = rows[s].id /\ done.is_active = rows[s].is_active
      BY <1>2, <1>3, <1>5 DEF j
    <2> QED
      BY <2>1
  <1>6. CASE ~hit
    <2> DEFINE same == rows[s]
    <2>1. Completed(p) = [rows EXCEPT ![s] = same]
      BY <1>2, <1>6
    <2>2. same \in Row \cup {Absent} /\ same = rows[s]
      BY <1>1
    <2>3. same # Absent /\ same.is_active => same.next_run_at # NoTime
      BY <1>4
    <2> HIDE DEF same
    <2> QED
      BY <2>1, <2>2, <2>3
  <1> QED
    BY <1>5, <1>6

LEMMA CompleteTyped ==
  ASSUME TypeInv, NEW p \in Process, Complete(p)
  PROVE  TypeInv'
  <1> USE DEF TypeInv
  <1>1. job[p] \in Job /\ job[p].next_run_at # NoTime
    BY DEF Complete, JobHeld, Executing
  <1>2. job[p].s \in Schedule
    BY <1>1 DEF Job
  <1>3. rows' \in [Schedule -> Row \cup {Absent}] /\ ActiveHasNext'
    BY <1>1, <1>2, CompletedRow, RowReplaced DEF Complete
  <1> QED
    BY <1>3 DEF Complete, Turn, Goto, TypeOK, JobHeld, Executing, PC

LEMMA CompleteLostTyped ==
  ASSUME TypeInv, NEW p \in Process, CompleteLost(p)
  PROVE  TypeInv'
  <1>1. faults' \in 0..MaxFaults
    BY SchedulerAssumption DEF CompleteLost, TypeInv, TypeOK
  <1> QED
    BY <1>1 DEF TypeInv, CompleteLost, Turn, Goto, TypeOK, JobHeld, ActiveHasNext, Executing, PC

LEMMA CompleteRaisesTyped ==
  ASSUME TypeInv, NEW p \in Process, CompleteRaises(p)
  PROVE  TypeInv'
  <1>1. faults' \in 0..MaxFaults
    BY SchedulerAssumption DEF CompleteRaises, TypeInv, TypeOK
  <1> QED
    BY <1>1, AbortTyped DEF TypeInv, CompleteRaises, TypeOK, ActiveHasNext

LEMMA CrashTyped ==
  ASSUME TypeInv, NEW p \in Process, Crash(p)
  PROVE  TypeInv'
  <1>1. crashes' \in 0..MaxCrashes
    BY SchedulerAssumption DEF Crash, TypeInv, TypeOK
  <1> QED
    BY <1>1 DEF TypeInv, Crash, Goto, TypeOK, JobHeld, ActiveHasNext, Executing, PC

LEMMA NextTyped == TypeInv /\ [Next]_vars => TypeInv'
  <1> SUFFICES ASSUME TypeInv, [Next]_vars
               PROVE  TypeInv'
    OBVIOUS
  <1>1. CASE Tick
    BY <1>1, TickTyped
  <1>2. ASSUME NEW s \in Schedule, PutSchedule(s) \/ DeleteSchedule(s)
        PROVE  TypeInv'
    BY <1>2, PutTyped, DeleteTyped
  <1>5. ASSUME NEW u \in puts, UpsertSchedule(u)
        PROVE  TypeInv'
    BY <1>5, UpsertTyped
  <1>3. ASSUME NEW p \in Process, Step(p) \/ Crash(p)
        PROVE  TypeInv'
    BY <1>3, StartTyped, ResetTyped, FillTyped, PollTyped, ClaimTyped, ClaimLostTyped,
       ClaimMissedTyped, BeginTyped, BeginRaisesTyped, EndRunTyped, CompleteTyped,
       CompleteLostTyped, CompleteRaisesTyped, CrashTyped
       DEF Step
  <1>4. CASE UNCHANGED vars
    BY <1>4 DEF vars, TypeInv, TypeOK, JobHeld, ActiveHasNext, Executing
  <1> QED
    BY <1>1, <1>2, <1>3, <1>4, <1>5 DEF Next

\* Every table, thread and execution of the scheduler is well formed: no
\* compute_next_run_at leaves the horizon, and a PUT computes a later instant.
THEOREM TypeCorrect == Spec => []TypeOK
  <1>1. TypeInv => TypeOK
    BY DEF TypeInv
  <1> QED
    BY <1>1, InitTyped, NextTyped, PTL DEF Spec

\* An active schedule always has a next_run_at, whatever clients, crashes and
\* lost database calls do: no poll overlooks it, and the repair that recover()
\* makes after a restart finds nothing to do.
THEOREM ActiveAlwaysHasNext == Spec => []ActiveHasNext
  <1>1. TypeInv => ActiveHasNext
    BY DEF TypeInv
  <1> QED
    BY <1>1, InitTyped, NextTyped, PTL DEF Spec

-----------------------------------------------------------------------------
(* What a reset of stale locks leaves alone.                                *)

LEMMA ResetKeeps ==
  ASSUME TypeInv, NEW p \in Process, ResetStaleLocks(p), NEW s \in Schedule
  PROVE  /\ rows'[s] = Absent <=> rows[s] = Absent
         /\ rows[s] # Absent /\ ~Stale(rows[s]) => rows'[s] = rows[s]
         /\ rows[s] # Absent => /\ rows'[s].cron = rows[s].cron
                                /\ rows'[s].id = rows[s].id
                                /\ rows'[s].is_active = rows[s].is_active
                                /\ rows'[s].next_run_at = rows[s].next_run_at
  <1> DEFINE r == [rows[s] EXCEPT !.is_running = FALSE, !.locked_at = NoTime]
  <1>1. rows'[s] = IF rows[s] # Absent /\ Stale(rows[s]) THEN r ELSE rows[s]
    BY DEF ResetStaleLocks
  <1>2. rows[s] \in Row \cup {Absent}
    BY DEF TypeInv, TypeOK
  <1>3. rows[s] # Absent => r \in Row
    BY <1>2, RowChanged
  <1>4. rows[s] # Absent => /\ r.cron = rows[s].cron /\ r.id = rows[s].id
                            /\ r.is_active = rows[s].is_active /\ r.next_run_at = rows[s].next_run_at
    BY <1>2 DEF Row
  <1> HIDE DEF r
  <1> QED
    BY <1>1, <1>2, <1>3, <1>4, SentinelAssumption

-----------------------------------------------------------------------------
(* next_run_at follows the cron expression, as long as clients leave alone  *)
(* the schedules that are being executed.  What an execution will write     *)
(* back is an instant of the expression it claimed, and that is still the   *)
(* row's: an upsert in between is what the assumption excludes.             *)

CronInv ==
  /\ \A p \in Process : pc[p] \in {"run", "complete"} => job[p].next_run_at \in job[p].cron
  /\ \A p \in Process :
       Executing(p) /\ rows[job[p].s] # Absent /\ rows[job[p].s].id = job[p].id =>
         rows[job[p].s].cron = job[p].cron
  /\ NextFollowsCron

\* The two requests that write the row of s.
Edit(s) == DeleteSchedule(s) \/ \E u \in puts : u.s = s /\ UpsertSchedule(u)

LEMMA EditOne ==
  ASSUME TypeInv, NEW s \in Schedule, Edit(s)
  PROVE  /\ UNCHANGED <<now, pc, due_at, job, lastBegun, crashes, faults>>
         /\ \E r \in Row \cup {Absent} :
              /\ rows' = [rows EXCEPT ![s] = r]
              /\ r # Absent =>
                   \E u \in puts : /\ u.s = s /\ UpsertSchedule(u) /\ r.cron = u.cron
                                  /\ r.is_active = u.is_active /\ r.next_run_at = u.next_run_at
                                  /\ ~r.is_running
  BY UpsertRow DEF Edit, DeleteSchedule, UpsertSchedule

\* The first half of a PUT leaves the table and the executions alone.
LEMMA PutAside ==
  ASSUME NEW s, PutSchedule(s)
  PROVE  UNCHANGED <<now, rows, pc, due_at, job, lastBegun, overtaken, crashes, faults>>
  BY DEF PutSchedule

LEMMA Request ==
  ASSUME TypeInv, [Next]_vars
  PROVE  \/ Tick
         \/ \E s \in Schedule : PutSchedule(s) \/ Edit(s)
         \/ \E p \in Process : Step(p) \/ Crash(p)
         \/ UNCHANGED vars
  BY DEF Next, Edit, TypeInv, TypeOK, Put

LEMMA QuietEdit ==
  ASSUME TypeInv, ~EditsWhileRunning, NEW s \in Schedule,
         Edit(s), NEW p \in Process, Executing(p)
  PROVE  job[p] \in Job /\ job[p].s # s /\ rows'[job[p].s] = rows[job[p].s]
  <1>1. job[p] \in Job /\ job[p].s \in Schedule
    BY DEF TypeInv, JobHeld, Job
  <1>2. job[p].s # s
    BY DEF Edit, UpsertSchedule, DeleteSchedule, MayWrite, AtRest
  <1>3. \E r : rows' = [rows EXCEPT ![s] = r]
    BY EditOne
  <1> QED
    BY <1>1, <1>2, <1>3 DEF TypeInv, TypeOK

\* What the PUTs under way will write.
PutsFollow == \A u \in puts : u.is_active => u.next_run_at \in u.cron

LEMMA PutFollows ==
  ASSUME TypeInv, PutsFollow, NEW s \in Schedule, PutSchedule(s)
  PROVE  PutsFollow'
  <1>1. PICK cron \in Cron, active \in BOOLEAN :
          LET next == IF active THEN compute_next_run_at(cron, now) ELSE NoTime
          IN  /\ active => next # NoTime
              /\ puts' = puts \cup {[n |-> edits + 1, s |-> s, cron |-> cron, is_active |-> active,
                                     put_at |-> now, next_run_at |-> next]}
    BY DEF PutSchedule
  <1>2. active => compute_next_run_at(cron, now) \in cron
    BY <1>1, NextInstant DEF TypeInv, TypeOK
  <1> QED
    BY <1>1, <1>2 DEF PutsFollow

LEMMA EditFollows ==
  ASSUME TypeInv, CronInv, PutsFollow, ~EditsWhileRunning, NEW s \in Schedule, Edit(s)
  PROVE  CronInv'
  <1>1. UNCHANGED <<pc, job>>
    BY EditOne
  <1>2. \A p \in Process : Executing(p) => rows'[job[p].s] = rows[job[p].s]
    BY QuietEdit
  <1>3. PICK r \in Row \cup {Absent} :
          /\ rows' = [rows EXCEPT ![s] = r]
          /\ r # Absent /\ r.is_active => r.next_run_at \in r.cron
    BY EditOne DEF PutsFollow
  <1>4. NextFollowsCron'
    BY <1>3 DEF NextFollowsCron, CronInv, TypeInv, TypeOK
  <1> QED
    BY <1>1, <1>2, <1>4 DEF CronInv, Executing

LEMMA ResetFollows ==
  ASSUME TypeInv, CronInv, NEW p \in Process, ResetStaleLocks(p)
  PROVE  CronInv'
  <1>1. job' = job /\ pc' = [pc EXCEPT ![p] = "fill"]
    BY DEF ResetStaleLocks, Goto
  <1>2. NextFollowsCron'
    BY ResetKeeps DEF NextFollowsCron, CronInv
  <1>3. ASSUME NEW q \in Process, Executing(q)'
        PROVE  Executing(q) /\ job[q].s \in Schedule
    BY <1>1, <1>3 DEF ResetStaleLocks, Executing, TypeInv, TypeOK, JobHeld, Job
  <1>4. ASSUME NEW q \in Process, Executing(q)', rows'[job'[q].s] # Absent, rows'[job'[q].s].id = job'[q].id
        PROVE  rows'[job'[q].s].cron = job'[q].cron
    BY <1>1, <1>3, <1>4, ResetKeeps DEF CronInv
  <1>5. \A q \in Process : pc'[q] \in {"run", "complete"} => job'[q].next_run_at \in job'[q].cron
    BY <1>1 DEF CronInv, TypeInv, TypeOK
  <1> QED
    BY <1>2, <1>4, <1>5 DEF CronInv

LEMMA TakeFollows ==
  ASSUME TypeInv, CronInv, NEW p \in Process, NEW x \in due[p], Claimable(p, x), Take(p, x),
         \/ rows' = rows
         \/ rows' = [rows EXCEPT ![x.s].is_running = TRUE, ![x.s].locked_at = due_at[p]]
  PROVE  CronInv'
  <1>1. x \in Listed /\ x.s \in Schedule /\ rows[x.s] \in Row /\ x.id = rows[x.s].id
    BY DEF Claimable, TypeInv, TypeOK, Listed
  <1>2. ASSUME NEW s \in Schedule, rows[s] # Absent
        PROVE  /\ rows'[s].cron = rows[s].cron /\ rows'[s].id = rows[s].id
               /\ rows'[s].is_active = rows[s].is_active /\ rows'[s].next_run_at = rows[s].next_run_at
    <2>1. rows[s] \in Row
      BY <1>2 DEF TypeInv, TypeOK
    <2>2. \/ rows'[s] = rows[s]
          \/ rows'[s] = [rows[s] EXCEPT !.is_running = TRUE, !.locked_at = due_at[p]]
      BY <1>1 DEF TypeInv, TypeOK
    <2> QED
      BY <2>1, <2>2 DEF Row
  <1>3. ASSUME NEW s \in Schedule PROVE rows[s] = Absent => rows'[s] = Absent
    BY <1>1, SentinelAssumption DEF TypeInv, TypeOK
  <1>4. pc' = [pc EXCEPT ![p] = "begin"] /\ job' = [job EXCEPT ![p] = Claimed(x)]
    BY DEF Take, Goto
  <1>5. NextFollowsCron'
    BY <1>2, <1>3 DEF NextFollowsCron, CronInv
  <1>6. ASSUME NEW q \in Process, q # p
        PROVE  pc'[q] = pc[q] /\ job'[q] = job[q] /\ (Executing(q) => job[q].s \in Schedule)
    BY <1>4, <1>6 DEF TypeInv, TypeOK, JobHeld, Job
  <1>7. \A q \in Process : pc'[q] \in {"run", "complete"} => job'[q].next_run_at \in job'[q].cron
    BY <1>4, <1>6 DEF CronInv, TypeInv, TypeOK
  <1>8. ASSUME NEW q \in Process, Executing(q)', rows'[job'[q].s] # Absent, rows'[job'[q].s].id = job'[q].id
        PROVE  rows'[job'[q].s].cron = job'[q].cron
    <2>1. CASE q = p
      <3>1. job'[p].s = x.s /\ job'[p].cron = rows[x.s].cron
        BY <1>4 DEF Claimed, TypeInv, TypeOK
      <3> QED
        BY <1>1, <1>2, <2>1, <3>1, SentinelAssumption
    <2>2. CASE q # p
      BY <1>2, <1>3, <1>6, <1>8, <2>2 DEF CronInv, Executing
    <2> QED
      BY <2>1, <2>2
  <1> QED
    BY <1>5, <1>7, <1>8 DEF CronInv

LEMMA BeginFollows ==
  ASSUME TypeInv, CronInv, NEW p \in Process, Begin(p)
  PROVE  CronInv'
  <1> DEFINE next == compute_next_run_at(job[p].cron, now)
  <1>1. job[p] \in Job /\ next # NoTime
    BY DEF Begin, TypeInv, JobHeld, Executing
  <1>2. next \in job[p].cron
    BY <1>1, NextInstant DEF Job, TypeInv, TypeOK
  <1>3. /\ job'[p].s = job[p].s /\ job'[p].id = job[p].id /\ job'[p].cron = job[p].cron
        /\ job'[p].next_run_at = next
    <2> HIDE DEF next
    <2> QED
      BY <1>1 DEF Begin, TypeInv, TypeOK, Job, next
  <1>4. ASSUME NEW q \in Process, q # p PROVE pc'[q] = pc[q] /\ job'[q] = job[q]
    BY <1>4 DEF Begin, Goto, TypeInv, TypeOK
  <1>5. rows' = rows /\ pc[p] = "begin"
    BY DEF Begin
  <1> HIDE DEF next
  <1>6. \A q \in Process : pc'[q] \in {"run", "complete"} => job'[q].next_run_at \in job'[q].cron
    BY <1>2, <1>3, <1>4 DEF CronInv
  <1>7. ASSUME NEW q \in Process, Executing(q)', rows'[job'[q].s] # Absent, rows'[job'[q].s].id = job'[q].id
        PROVE  rows'[job'[q].s].cron = job'[q].cron
    BY <1>3, <1>4, <1>5, <1>7 DEF CronInv, Executing
  <1> QED
    BY <1>5, <1>6, <1>7 DEF CronInv, NextFollowsCron

LEMMA CompleteFollows ==
  ASSUME TypeInv, CronInv, NEW p \in Process, Complete(p)
  PROVE  CronInv'
  <1> DEFINE s == job[p].s
  <1>1. job[p] \in Job /\ job[p].next_run_at # NoTime /\ s \in Schedule /\ job[p].next_run_at \in job[p].cron
    BY DEF Complete, TypeInv, JobHeld, Executing, Job, CronInv
  <1>2. PICK r \in Row \cup {Absent} :
           /\ rows' = [rows EXCEPT ![s] = r]
           /\ r = Absent <=> rows[s] = Absent
           /\ r # Absent => r.cron = rows[s].cron /\ r.id = rows[s].id /\ r.is_active = rows[s].is_active
           /\ r # Absent => \/ r = rows[s]
                            \/ r.next_run_at = job[p].next_run_at /\ rows[s].id = job[p].id
    <2> HIDE DEF s
    <2>1. s = job[p].s
      BY DEF s
    <2> QED
      BY <1>1, <2>1, CompletedRow DEF Complete
  <1>3. rows[s] # Absent /\ rows[s].id = job[p].id => rows[s].cron = job[p].cron
    BY DEF Complete, CronInv, Executing
  <1> HIDE DEF s
  <1>4. rows \in [Schedule -> Row \cup {Absent}]
    BY DEF TypeInv, TypeOK
  <1>5. NextFollowsCron'
    BY <1>1, <1>2, <1>3, <1>4 DEF NextFollowsCron, CronInv
  <1>6. ASSUME NEW t \in Schedule
        PROVE  /\ rows'[t] = Absent <=> rows[t] = Absent
               /\ rows[t] # Absent => rows'[t].cron = rows[t].cron /\ rows'[t].id = rows[t].id
    BY <1>1, <1>2, <1>4
  <1>7. ASSUME NEW q \in Process, Executing(q)'
        PROVE  pc'[q] = pc[q] /\ job'[q] = job[q] /\ Executing(q) /\ job[q].s \in Schedule
    BY <1>7 DEF Complete, Turn, Goto, Executing, TypeInv, TypeOK, JobHeld, Job
  <1>8. \A q \in Process : pc'[q] \in {"run", "complete"} => job'[q].next_run_at \in job'[q].cron
    BY <1>7 DEF CronInv, Executing
  <1>9. ASSUME NEW q \in Process, Executing(q)', rows'[job'[q].s] # Absent, rows'[job'[q].s].id = job'[q].id
        PROVE  rows'[job'[q].s].cron = job'[q].cron
    BY <1>6, <1>7, <1>9 DEF CronInv
  <1> QED
    BY <1>5, <1>8, <1>9 DEF CronInv

\* A step that leaves the table alone and begins no execution.
LEMMA AsideFollows ==
  ASSUME CronInv, rows' = rows,
         \A q \in Process : Executing(q)' => Executing(q) /\ job'[q] = job[q],
         \A q \in Process : pc'[q] \in {"run", "complete"} => pc[q] \in {"run", "complete"}
  PROVE  CronInv'
  BY DEF CronInv, NextFollowsCron, Executing

LEMMA StepKeepsPuts ==
  ASSUME NEW p, Step(p) \/ Crash(p)
  PROVE  puts' = puts
  BY DEF Step, Start, ResetStaleLocks, FillNextRun, Poll, Claim, ClaimLost, ClaimMissed, Take,
     Begin, BeginRaises, EndRun, Complete, CompleteLost, CompleteRaises, Crash

LEMMA StepFollows ==
  ASSUME TypeInv, CronInv, NEW p \in Process, Step(p) \/ Crash(p)
  PROVE  CronInv'
  <1>1. CASE Start(p)
    BY <1>1, AsideFollows DEF Start, Goto, Executing, TypeInv, TypeOK
  <1>2. CASE FillNextRun(p)
    BY <1>2, FillKeeps, AsideFollows DEF FillNextRun, Goto, Executing, TypeInv, TypeOK
  <1>3. CASE Poll(p)
    BY <1>3, AsideFollows DEF Poll, Goto, Executing, TypeInv, TypeOK
  <1>4. CASE Claim(p) \/ ClaimLost(p)
    BY <1>4, TakeFollows DEF Claim, ClaimLost
  <1>5. CASE ClaimMissed(p)
    BY <1>5, AsideFollows DEF ClaimMissed, Turn, Goto, Executing, TypeInv, TypeOK
  <1>6. CASE BeginRaises(p)
    BY <1>6, AsideFollows DEF BeginRaises, Abort, Goto, Executing, TypeInv, TypeOK
  <1>7. CASE EndRun(p)
    BY <1>7, AsideFollows DEF EndRun, Goto, Executing, TypeInv, TypeOK
  <1>8. CASE CompleteLost(p)
    BY <1>8, AsideFollows DEF CompleteLost, Turn, Goto, Executing, TypeInv, TypeOK
  <1>9. CASE CompleteRaises(p)
    BY <1>9, AsideFollows DEF CompleteRaises, Abort, Goto, Executing, TypeInv, TypeOK
  <1>10. CASE Crash(p)
    BY <1>10, AsideFollows DEF Crash, Goto, Executing, TypeInv, TypeOK
  <1> QED
    BY <1>1, <1>2, <1>3, <1>4, <1>5, <1>6, <1>7, <1>8, <1>9, <1>10,
       ResetFollows, BeginFollows, CompleteFollows DEF Step

LEMMA NextFollows ==
  ~EditsWhileRunning /\ TypeInv /\ CronInv /\ PutsFollow /\ [Next]_vars => CronInv' /\ PutsFollow'
  <1> SUFFICES ASSUME ~EditsWhileRunning, TypeInv, CronInv, PutsFollow, [Next]_vars
               PROVE  CronInv' /\ PutsFollow'
    OBVIOUS
  <1>1. CASE Tick
    <2>1. rows' = rows /\ job' = job /\ puts' = puts
      BY <1>1 DEF Tick
    <2>2. \A q \in Process : pc'[q] = pc[q] \/ pc'[q] = "down"
      BY <1>1 DEF Tick, TypeInv, TypeOK
    <2>3. CronInv'
      BY <2>1, <2>2, AsideFollows DEF Executing
    <2> QED
      BY <2>1, <2>3 DEF PutsFollow
  <1>2. ASSUME NEW s \in Schedule, PutSchedule(s) PROVE CronInv' /\ PutsFollow'
    <2>1. rows' = rows /\ pc' = pc /\ job' = job
      BY <1>2, PutAside
    <2> QED
      BY <1>2, <2>1, PutFollows, AsideFollows DEF Executing
  <1>3. ASSUME NEW s \in Schedule, Edit(s) PROVE CronInv' /\ PutsFollow'
    <2>1. puts' \subseteq puts
      BY <1>3 DEF Edit, DeleteSchedule, UpsertSchedule
    <2> QED
      BY <1>3, <2>1, EditFollows DEF PutsFollow
  <1>4. ASSUME NEW p \in Process, Step(p) \/ Crash(p) PROVE CronInv' /\ PutsFollow'
    <2>1. puts' = puts
      BY <1>4, StepKeepsPuts
    <2> QED
      BY <1>4, <2>1, StepFollows DEF PutsFollow
  <1>5. CASE UNCHANGED vars
    BY <1>5 DEF vars, CronInv, NextFollowsCron, Executing, PutsFollow
  <1> QED
    BY <1>1, <1>2, <1>3, <1>4, <1>5, Request

\* If clients leave alone the schedules that are being executed, an active
\* schedule's next_run_at is an instant of its own expression, through every
\* crash, lost or failed database call, and any number of processes.  (Without
\* the assumption the end of an execution overwrites what the edit computed
\* with an instant of the old expression.)
THEOREM QuietNextFollowsCron ==
  ASSUME ~EditsWhileRunning
  PROVE  Spec => []NextFollowsCron
  <1>1. Init => CronInv /\ PutsFollow
    BY DEF Init, CronInv, NextFollowsCron, Executing, PutsFollow
  <1>2. CronInv => NextFollowsCron
    BY DEF CronInv
  <1>3. TypeInv /\ CronInv /\ PutsFollow /\ [Next]_vars => CronInv' /\ PutsFollow'
    BY NextFollows
  <1> QED
    BY <1>1, <1>2, <1>3, InitTyped, NextTyped, PTL DEF Spec

-----------------------------------------------------------------------------
(* Exclusion.  The lock in the row is what keeps a second process out, so   *)
(* the invariant is that whoever executes a schedule has its row locked,    *)
(* since its own poll: then no claim succeeds, and a reset of stale locks   *)
(* spares it while executions are punctual.                                 *)

LockInv ==
  \A p \in Process : Executing(p) =>
    /\ rows[job[p].s] # Absent
    /\ rows[job[p].s].is_running
    /\ rows[job[p].s].locked_at = due_at[p]

SafeInv == LockInv /\ Alone

\* A step that begins no execution and keeps the rows of those under way.
LEMMA AsideExcludes ==
  ASSUME SafeInv,
         \A q \in Process : Executing(q)' =>
           /\ Executing(q) /\ job'[q] = job[q] /\ due_at'[q] = due_at[q]
           /\ rows'[job[q].s] = rows[job[q].s]
  PROVE  SafeInv'
  <1>1. LockInv'
    BY DEF SafeInv, LockInv
  <1>2. Alone'
    BY DEF SafeInv, Alone
  <1> QED
    BY <1>1, <1>2 DEF SafeInv

LEMMA EditExcludes ==
  ASSUME TypeInv, SafeInv, ~EditsWhileRunning, NEW s \in Schedule, Edit(s)
  PROVE  SafeInv'
  <1>1. UNCHANGED <<pc, job, due_at>>
    BY EditOne
  <1>2. \A q \in Process : Executing(q) => rows'[job[q].s] = rows[job[q].s]
    BY QuietEdit
  <1> QED
    BY <1>1, <1>2, AsideExcludes DEF Executing

LEMMA ResetExcludes ==
  ASSUME TypeInv, SafeInv, Punctual, NEW p \in Process, ResetStaleLocks(p)
  PROVE  SafeInv'
  <1>1. UNCHANGED <<job, due_at>> /\ pc' = [pc EXCEPT ![p] = "fill"]
    BY DEF ResetStaleLocks, Goto
  <1>2. ASSUME NEW q \in Process, Executing(q)'
        PROVE  Executing(q) /\ job[q].s \in Schedule
    BY <1>1, <1>2 DEF ResetStaleLocks, Executing, TypeInv, TypeOK, JobHeld, Job
  <1>3. ASSUME NEW q \in Process, Executing(q), job[q].s \in Schedule
        PROVE  rows'[job[q].s] = rows[job[q].s]
    <2>1. /\ rows[job[q].s] # Absent
          /\ rows[job[q].s].locked_at = due_at[q]
      BY <1>3 DEF SafeInv, LockInv
    <2>2. now - due_at[q] <= StaleLock
      BY <1>3 DEF Punctual
    <2>3. now \in Int /\ due_at[q] \in Int /\ StaleLock \in Int
      BY SchedulerAssumption DEF TypeInv, TypeOK, Time
    <2>4. ~Stale(rows[job[q].s])
      BY <2>1, <2>2, <2>3 DEF Stale
    <2> QED
      BY <1>3, <2>1, <2>4, ResetKeeps
  <1> QED
    BY <1>1, <1>2, <1>3, AsideExcludes

LEMMA ClaimExcludes ==
  ASSUME TypeInv, SafeInv, NEW p \in Process, Claim(p)
  PROVE  SafeInv'
  <1>1. PICK x \in due[p] :
          /\ Claimable(p, x) /\ Take(p, x)
          /\ rows' = [rows EXCEPT ![x.s].is_running = TRUE, ![x.s].locked_at = due_at[p]]
    BY DEF Claim
  <1>2. x.s \in Schedule /\ rows[x.s] \in Row /\ ~rows[x.s].is_running
    BY <1>1 DEF Claimable, IsDue, TypeInv, TypeOK, Listed
  <1>3. pc' = [pc EXCEPT ![p] = "begin"] /\ job' = [job EXCEPT ![p] = Claimed(x)] /\ due_at' = due_at
    BY <1>1 DEF Take, Goto
  <1>4. job'[p].s = x.s
    BY <1>3 DEF Claimed, TypeInv, TypeOK
  <1>5. rows'[x.s] # Absent /\ rows'[x.s].is_running /\ rows'[x.s].locked_at = due_at[p]
    <2> DEFINE r == [rows[x.s] EXCEPT !.is_running = TRUE, !.locked_at = due_at[p]]
    <2>1. due_at[p] \in Time \cup {NoTime} /\ due_at[p] # NoTime
      BY SchedulerAssumption DEF TypeInv, TypeOK, Time
    <2>2. r \in Row
      BY <1>2, <2>1, RowChanged
    <2>3. r.is_running = TRUE /\ r.locked_at = due_at[p]
      BY <1>2 DEF Row
    <2>4. rows'[x.s] = r
      BY <1>1, <1>2 DEF TypeInv, TypeOK
    <2> HIDE DEF r
    <2> QED
      BY <2>2, <2>3, <2>4, SentinelAssumption
  <1>6. ASSUME NEW q \in Process, q # p, Executing(q)'
        PROVE  /\ Executing(q) /\ job'[q] = job[q] /\ job[q].s # x.s
               /\ rows'[job[q].s] = rows[job[q].s]
    <2>1. Executing(q) /\ job'[q] = job[q]
      BY <1>3, <1>6 DEF Executing, TypeInv, TypeOK
    <2>2. job[q].s # x.s
      BY <1>2, <2>1 DEF SafeInv, LockInv
    <2>3. job[q].s \in Schedule
      BY <2>1 DEF TypeInv, JobHeld, Job
    <2> QED
      BY <1>1, <2>1, <2>2, <2>3 DEF TypeInv, TypeOK
  <1>7. LockInv'
    BY <1>3, <1>4, <1>5, <1>6 DEF SafeInv, LockInv
  <1>8. Alone'
    BY <1>4, <1>6 DEF SafeInv, Alone
  <1> QED
    BY <1>7, <1>8 DEF SafeInv

LEMMA BeginExcludes ==
  ASSUME TypeInv, SafeInv, NEW p \in Process, Begin(p)
  PROVE  SafeInv'
  <1>1. UNCHANGED <<rows, due_at>> /\ Executing(p) /\ job[p] \in Job
    BY DEF Begin, Executing, TypeInv, JobHeld
  <1>2. ASSUME NEW q \in Process, Executing(q)' PROVE Executing(q) /\ job'[q].s = job[q].s
    <2>1. CASE q = p
      BY <1>1, <2>1 DEF Begin, TypeInv, TypeOK, Job
    <2>2. CASE q # p
      BY <1>2, <2>2 DEF Begin, Goto, Executing, TypeInv, TypeOK
    <2> QED
      BY <2>1, <2>2
  <1>3. LockInv'
    BY <1>1, <1>2 DEF SafeInv, LockInv
  <1>4. Alone'
    BY <1>2 DEF SafeInv, Alone
  <1> QED
    BY <1>3, <1>4 DEF SafeInv

LEMMA CompleteExcludes ==
  ASSUME TypeInv, SafeInv, NEW p \in Process, Complete(p)
  PROVE  SafeInv'
  <1>1. Executing(p) /\ due_at' = due_at
    BY DEF Complete, Executing
  <1>2. ASSUME NEW q \in Process, Executing(q)'
        PROVE  Executing(q) /\ job'[q] = job[q] /\ q # p
    BY <1>2 DEF Complete, Turn, Goto, Executing, TypeInv, TypeOK
  <1>3. ASSUME NEW q \in Process, Executing(q), q # p
        PROVE  rows'[job[q].s] = rows[job[q].s]
    <2>1. job[q].s # job[p].s /\ job[q].s \in Schedule
      BY <1>1, <1>3 DEF SafeInv, Alone, TypeInv, JobHeld, Job
    <2>2. \E r : rows' = [rows EXCEPT ![job[p].s] = r]
      BY DEF Complete, Completed
    <2> QED
      BY <2>1, <2>2 DEF TypeInv, TypeOK
  <1> QED
    BY <1>1, <1>2, <1>3, AsideExcludes

LEMMA StepExcludes ==
  ASSUME TypeInv, SafeInv, Punctual, faults' = 0, NEW p \in Process, Step(p) \/ Crash(p)
  PROVE  SafeInv'
  <1>1. ~ClaimLost(p) /\ ~CompleteLost(p) /\ ~CompleteRaises(p)
    BY DEF ClaimLost, CompleteLost, CompleteRaises, TypeInv, TypeOK
  <1>2. CASE Start(p)
    BY <1>2, AsideExcludes DEF Start, Goto, Executing, TypeInv, TypeOK
  <1>3. CASE FillNextRun(p)
    BY <1>3, FillKeeps, AsideExcludes DEF FillNextRun, Goto, Executing, TypeInv, TypeOK
  <1>4. CASE Poll(p)
    BY <1>4, AsideExcludes DEF Poll, Goto, Executing, TypeInv, TypeOK
  <1>5. CASE ClaimMissed(p)
    BY <1>5, AsideExcludes DEF ClaimMissed, Turn, Goto, Executing, TypeInv, TypeOK
  <1>6. CASE BeginRaises(p)
    BY <1>6, AsideExcludes DEF BeginRaises, Abort, Goto, Executing, TypeInv, TypeOK
  <1>7. CASE EndRun(p)
    BY <1>7, AsideExcludes DEF EndRun, Goto, Executing, TypeInv, TypeOK
  <1>8. CASE Crash(p)
    BY <1>8, AsideExcludes DEF Crash, Goto, Executing, TypeInv, TypeOK
  <1> QED
    BY <1>1, <1>2, <1>3, <1>4, <1>5, <1>6, <1>7, <1>8,
       ResetExcludes, ClaimExcludes, BeginExcludes, CompleteExcludes DEF Step

LEMMA NextExcludes ==
  ~EditsWhileRunning /\ faults' = 0 /\ TypeInv /\ SafeInv /\ Punctual /\ [Next]_vars => SafeInv'
  <1> SUFFICES ASSUME ~EditsWhileRunning, faults' = 0, TypeInv, SafeInv, Punctual, [Next]_vars
               PROVE  SafeInv'
    OBVIOUS
  <1>1. CASE Tick
    <2>1. rows' = rows /\ job' = job /\ due_at' = due_at
      BY <1>1 DEF Tick
    <2>2. \A q \in Process : pc'[q] = pc[q] \/ pc'[q] = "down"
      BY <1>1 DEF Tick, TypeInv, TypeOK
    <2> QED
      BY <2>1, <2>2, AsideExcludes DEF Executing
  <1>2. ASSUME NEW s \in Schedule, Edit(s) PROVE SafeInv'
    BY <1>2, EditExcludes
  <1>5. ASSUME NEW s \in Schedule, PutSchedule(s) PROVE SafeInv'
    BY <1>5, PutAside, AsideExcludes DEF Executing
  <1>3. ASSUME NEW p \in Process, Step(p) \/ Crash(p) PROVE SafeInv'
    BY <1>3, StepExcludes
  <1>4. CASE UNCHANGED vars
    BY <1>4 DEF vars, SafeInv, LockInv, Alone, Executing
  <1> QED
    BY <1>1, <1>2, <1>3, <1>4, <1>5, Request

LEMMA FaultsGrow == TypeInv /\ [Next]_vars /\ faults' = 0 => faults = 0
  <1> SUFFICES ASSUME TypeInv, [Next]_vars PROVE faults' = faults \/ faults' = faults + 1
    BY DEF TypeInv, TypeOK
  <1>1. ASSUME NEW p \in Process, Step(p) \/ Crash(p)
        PROVE  faults' = faults \/ faults' = faults + 1
    BY <1>1 DEF Step, Start, ResetStaleLocks, FillNextRun, Poll, Claim, ClaimLost, ClaimMissed,
       Begin, BeginRaises, EndRun, Complete, CompleteLost, CompleteRaises, Crash
  <1> QED
    BY <1>1 DEF Next, Tick, PutSchedule, UpsertSchedule, DeleteSchedule, vars

\* Any number of processes may poll, and crash and restart, and no schedule is
\* executed by two of them at a time: provided that clients leave alone what is
\* being executed, that no database call failed, and that no execution outlasts
\* the stale lock limit.
THEOREM PunctualExclusiveRun ==
  ASSUME ~EditsWhileRunning
  PROVE  Spec /\ []Punctual => []ExclusiveRun
  <1> DEFINE Safe == faults = 0 => SafeInv
  <1>1. Init => Safe
    BY DEF Init, SafeInv, LockInv, Alone, Executing
  <1>2. Safe => ExclusiveRun
    BY DEF SafeInv, ExclusiveRun
  <1>3. TypeInv /\ Safe /\ Punctual /\ [Next]_vars => Safe'
    BY NextExcludes, FaultsGrow
  <1> HIDE DEF Safe
  <1> QED
    BY <1>1, <1>2, <1>3, InitTyped, NextTyped, PTL DEF Spec

-----------------------------------------------------------------------------
(* A lock is held by an execution.  Clients may edit what is being executed: *)
(* an upsert clears the lock, and the execution that a second process then   *)
(* begins may see its own lock cleared by the end of the first.  What the    *)
(* code cannot afford is an expression that runs out: _execute_schedule then *)
(* raises before its try, and the lock stays without an execution.           *)

\* No expression runs out.
Recurring == \A cron \in Cron, t \in Time : compute_next_run_at(cron, t) # NoTime

Holds(p, s) == Executing(p) /\ job[p].s = s /\ job[p].id = rows[s].id

HeldInv ==
  \A s \in Schedule : rows[s] # Absent /\ rows[s].is_running => \E p \in Process : Holds(p, s)

\* A step that locks no row, and ends no execution of a row it leaves locked.
LEMMA AsideHeld ==
  ASSUME HeldInv,
         \A s \in Schedule : rows'[s] # Absent /\ rows'[s].is_running =>
           /\ rows[s] # Absent /\ rows[s].is_running
           /\ \A q \in Process : Holds(q, s) => Holds(q, s)'
  PROVE  HeldInv'
  BY DEF HeldInv

\* As long as the table is the same, nobody who executes may stop.
LEMMA BystanderHeld ==
  ASSUME HeldInv, rows' = rows,
         \A q \in Process : Executing(q) =>
           Executing(q)' /\ job'[q].s = job[q].s /\ job'[q].id = job[q].id
  PROVE  HeldInv'
  BY AsideHeld DEF Holds

LEMMA EditHeld ==
  ASSUME TypeInv, HeldInv, NEW s \in Schedule, Edit(s)
  PROVE  HeldInv'
  <1>1. UNCHANGED <<pc, job>>
    BY EditOne
  <1>2. PICK r : rows' = [rows EXCEPT ![s] = r] /\ (r # Absent => ~r.is_running)
    BY EditOne
  <1>3. ASSUME NEW x \in Schedule, rows'[x] # Absent, rows'[x].is_running
        PROVE  rows'[x] = rows[x]
    BY <1>2, <1>3 DEF TypeInv, TypeOK
  <1> QED
    BY <1>1, <1>3, AsideHeld DEF Holds, Executing

LEMMA ResetHeld ==
  ASSUME TypeInv, HeldInv, NEW p \in Process, ResetStaleLocks(p)
  PROVE  HeldInv'
  <1>1. job' = job /\ pc[p] = "reset" /\ pc' = [pc EXCEPT ![p] = "fill"]
    BY DEF ResetStaleLocks, Goto
  <1>2. ASSUME NEW q \in Process, Executing(q) PROVE Executing(q)'
    BY <1>1, <1>2 DEF Executing, TypeInv, TypeOK
  <1>3. ASSUME NEW s \in Schedule, rows'[s] # Absent, rows'[s].is_running
        PROVE  rows'[s] = rows[s]
    <2>1. rows'[s] = IF rows[s] # Absent /\ Stale(rows[s])
                       THEN [rows[s] EXCEPT !.is_running = FALSE, !.locked_at = NoTime] ELSE rows[s]
      BY DEF ResetStaleLocks
    <2>2. rows[s] # Absent => ~[rows[s] EXCEPT !.is_running = FALSE, !.locked_at = NoTime].is_running
      BY DEF TypeInv, TypeOK, Row
    <2> QED
      BY <1>3, <2>1, <2>2
  <1> QED
    BY <1>1, <1>2, <1>3, AsideHeld DEF Holds

LEMMA ClaimHeld ==
  ASSUME TypeInv, HeldInv, NEW p \in Process, Claim(p)
  PROVE  HeldInv'
  <1>1. PICK x \in due[p] :
          /\ Claimable(p, x) /\ Take(p, x)
          /\ rows' = [rows EXCEPT ![x.s].is_running = TRUE, ![x.s].locked_at = due_at[p]]
    BY DEF Claim
  <1>2. x.s \in Schedule /\ rows[x.s] \in Row /\ rows[x.s].id = x.id /\ pc[p] = "claim"
    BY <1>1 DEF Claim, Claimable, TypeInv, TypeOK, Listed
  <1>3. pc' = [pc EXCEPT ![p] = "begin"] /\ job' = [job EXCEPT ![p] = Claimed(x)]
    BY <1>1 DEF Take, Goto
  <1>4. Holds(p, x.s)'
    <2>1. job'[p].s = x.s /\ job'[p].id = x.id /\ pc'[p] = "begin"
      BY <1>3 DEF Claimed, TypeInv, TypeOK
    <2>2. rows'[x.s].id = x.id
      BY <1>1, <1>2 DEF TypeInv, TypeOK, Row
    <2> QED
      BY <2>1, <2>2 DEF Holds, Executing
  <1>5. ASSUME NEW s \in Schedule, s # x.s PROVE rows'[s] = rows[s]
    BY <1>1, <1>5 DEF TypeInv, TypeOK
  <1>6. ASSUME NEW q \in Process, Executing(q) PROVE Executing(q)' /\ job'[q] = job[q]
    BY <1>2, <1>3, <1>6 DEF Executing, TypeInv, TypeOK
  <1>7. ASSUME NEW s \in Schedule, rows'[s] # Absent, rows'[s].is_running
        PROVE  \E q \in Process : Holds(q, s)'
    BY <1>4, <1>5, <1>6, <1>7 DEF HeldInv, Holds
  <1> QED
    BY <1>7 DEF HeldInv

LEMMA BeginHeld ==
  ASSUME TypeInv, HeldInv, NEW p \in Process, Begin(p)
  PROVE  HeldInv'
  <1>1. rows' = rows /\ job[p] \in Job /\ pc' = [pc EXCEPT ![p] = "run"]
    BY DEF Begin, Goto, Executing, TypeInv, JobHeld
  <1>2. job'[p].s = job[p].s /\ job'[p].id = job[p].id
    BY <1>1 DEF Begin, TypeInv, TypeOK, Job
  <1>3. ASSUME NEW q \in Process, q # p PROVE job'[q] = job[q]
    BY <1>3 DEF Begin, TypeInv, TypeOK
  <1> QED
    BY <1>1, <1>2, <1>3, BystanderHeld DEF Executing, TypeInv, TypeOK

\* The row that keeps its lock carries another id, or is of another schedule.
LEMMA CompleteHeld ==
  ASSUME TypeInv, HeldInv, NEW p \in Process, Complete(p)
  PROVE  HeldInv'
  <1> DEFINE s == job[p].s
  <1>1. job[p] \in Job /\ s \in Schedule
    BY DEF Complete, TypeInv, JobHeld, Executing, Job
  <1>2. ASSUME NEW q \in Process, q # p, Executing(q) PROVE Executing(q)' /\ job'[q] = job[q]
    BY <1>2 DEF Complete, Turn, Goto, Executing, TypeInv, TypeOK
  <1>3. ASSUME NEW x \in Schedule, rows'[x] # Absent, rows'[x].is_running
        PROVE  rows'[x] = rows[x] /\ ~Holds(p, x)
    <2> DEFINE done == [rows[s] EXCEPT !.is_running = FALSE, !.locked_at = NoTime,
                                       !.next_run_at = job[p].next_run_at,
                                       !.last_run_at = job[p].finished_at]
    <2>1. rows' = [rows EXCEPT ![s] = IF rows[s] # Absent /\ rows[s].id = job[p].id
                                        THEN done ELSE rows[s]]
      BY <1>1 DEF Complete, Completed, TypeInv, TypeOK
    <2>2. rows[s] # Absent => ~done.is_running
      BY <1>1 DEF TypeInv, TypeOK, Row
    <2>3. rows'[x] = IF x = s /\ rows[x] # Absent /\ rows[x].id = job[p].id THEN done ELSE rows[x]
      <3> HIDE DEF done
      <3> QED
        BY <1>1, <2>1 DEF TypeInv, TypeOK
    <2> HIDE DEF done
    <2> QED
      BY <1>3, <2>2, <2>3 DEF Holds
  <1> QED
    BY <1>2, <1>3, AsideHeld DEF Holds

LEMMA StepHeld ==
  ASSUME Recurring, TypeInv, HeldInv, crashes' = 0, faults' = 0, NEW p \in Process, Step(p) \/ Crash(p)
  PROVE  HeldInv'
  <1>1. ~ClaimLost(p) /\ ~CompleteLost(p) /\ ~CompleteRaises(p) /\ ~Crash(p)
    BY DEF ClaimLost, CompleteLost, CompleteRaises, Crash, TypeInv, TypeOK
  <1>2. ~BeginRaises(p)
    BY DEF BeginRaises, Recurring, TypeInv, TypeOK, JobHeld, Executing, Job
  <1>3. CASE Start(p)
    BY <1>3, BystanderHeld DEF Start, Goto, Executing, TypeInv, TypeOK
  <1>4. CASE FillNextRun(p)
    BY <1>4, FillKeeps, BystanderHeld DEF FillNextRun, Goto, Executing, TypeInv, TypeOK
  <1>5. CASE Poll(p)
    BY <1>5, BystanderHeld DEF Poll, Goto, Executing, TypeInv, TypeOK
  <1>6. CASE ClaimMissed(p)
    BY <1>6, BystanderHeld DEF ClaimMissed, Turn, Goto, Executing, TypeInv, TypeOK
  <1>7. CASE EndRun(p)
    BY <1>7, BystanderHeld DEF EndRun, Goto, Executing, TypeInv, TypeOK
  <1> QED
    BY <1>1, <1>2, <1>3, <1>4, <1>5, <1>6, <1>7,
       ResetHeld, ClaimHeld, BeginHeld, CompleteHeld DEF Step

LEMMA NextHeld ==
  Recurring /\ crashes' = 0 /\ faults' = 0 /\ TypeInv /\ HeldInv /\ [Next]_vars => HeldInv'
  <1> SUFFICES ASSUME Recurring, crashes' = 0, faults' = 0, TypeInv, HeldInv, [Next]_vars
               PROVE  HeldInv'
    OBVIOUS
  <1>1. CASE Tick
    <2>1. rows' = rows /\ job' = job
      BY <1>1 DEF Tick
    <2>2. ASSUME NEW q \in Process, Executing(q) PROVE Executing(q)'
      BY <1>1, <2>2 DEF Tick, Executing, TypeInv, TypeOK
    <2> QED
      BY <2>1, <2>2, BystanderHeld
  <1>2. ASSUME NEW s \in Schedule, Edit(s) PROVE HeldInv'
    BY <1>2, EditHeld
  <1>5. ASSUME NEW s \in Schedule, PutSchedule(s) PROVE HeldInv'
    BY <1>5, PutAside, BystanderHeld DEF Executing
  <1>3. ASSUME NEW p \in Process, Step(p) \/ Crash(p) PROVE HeldInv'
    BY <1>3, StepHeld
  <1>4. CASE UNCHANGED vars
    BY <1>4, BystanderHeld DEF vars, Executing
  <1> QED
    BY <1>1, <1>2, <1>3, <1>4, <1>5, Request

LEMMA CrashesGrow == TypeInv /\ [Next]_vars /\ crashes' = 0 => crashes = 0
  <1> SUFFICES ASSUME TypeInv, [Next]_vars PROVE crashes' = crashes \/ crashes' = crashes + 1
    BY DEF TypeInv, TypeOK
  <1>1. ASSUME NEW p \in Process, Step(p) \/ Crash(p)
        PROVE  crashes' = crashes \/ crashes' = crashes + 1
    BY <1>1 DEF Step, Start, ResetStaleLocks, FillNextRun, Poll, Claim, ClaimLost, ClaimMissed, Take,
       Begin, BeginRaises, EndRun, Complete, CompleteLost, CompleteRaises, Crash
  <1> QED
    BY <1>1 DEF Next, Tick, PutSchedule, UpsertSchedule, DeleteSchedule, vars

\* If no expression runs out, a row marked running is being executed: clients
\* may edit it meanwhile, executions may outlast the stale lock limit, and any
\* number of processes may poll, until one of them crashes or a database call
\* fails.  So nothing is left locked that nobody will unlock.
THEOREM RecurringLockIsHeld ==
  ASSUME Recurring
  PROVE  Spec => []LockIsHeld
  <1> DEFINE Held == crashes = 0 /\ faults = 0 => HeldInv
  <1>1. Init => Held
    BY DEF Init, HeldInv
  <1>2. Held => LockIsHeld
    BY DEF HeldInv, Holds, LockIsHeld
  <1>3. TypeInv /\ Held /\ [Next]_vars => Held'
    BY NextHeld, FaultsGrow, CrashesGrow
  <1> HIDE DEF Held
  <1> QED
    BY <1>1, <1>2, <1>3, InitTyped, NextTyped, PTL DEF Spec

-----------------------------------------------------------------------------
(* No instant is executed twice.  Between executions the next_run_at of an   *)
(* active row is later than the last one began, since it was computed then   *)
(* or at an edit after it; while an execution is under way, what it will     *)
(* write back is.  Who is about to begin found that next_run_at due at its   *)
(* poll, and the lock keeps it there.                                        *)

Since(t, s) == lastBegun[s] = NoTime \/ lastBegun[s] < t

\* Process p is past the beginning of an execution.
Begun(p) == pc[p] \in {"run", "complete"}

InstantInv ==
  /\ \A s \in Schedule : lastBegun[s] = NoTime \/ lastBegun[s] <= now
  /\ \A p \in Process : due_at[p] <= now
  /\ \A s \in Schedule :
       /\ rows[s] # Absent /\ rows[s].is_active /\ s \notin overtaken
       /\ \A p \in Process : Begun(p) => job[p].s # s
       => Since(rows[s].next_run_at, s)
  /\ \A p \in Process : Executing(p) =>
       /\ rows[job[p].s].id = job[p].id
       /\ rows[job[p].s].is_active
  /\ \A p \in Process : pc[p] = "begin" => rows[job[p].s].next_run_at <= due_at[p]
  /\ \A p \in Process : Begun(p) => Since(job[p].next_run_at, job[p].s)

\* A step that begins and ends no execution, keeps the rows of those under way,
\* and in the others writes no next_run_at but later ones than the last began.
LEMMA AsideInstant ==
  ASSUME TypeInv, InstantInv, lastBegun' = lastBegun, now' \in Int, now <= now',
         \A p \in Process : due_at'[p] <= now',
         \A p \in Process : Executing(p)' =>
           /\ Executing(p) /\ job'[p] = job[p] /\ due_at'[p] = due_at[p]
           /\ (pc'[p] = "begin" <=> pc[p] = "begin")
           /\ rows'[job[p].s].id = rows[job[p].s].id
           /\ rows'[job[p].s].is_active = rows[job[p].s].is_active
           /\ rows'[job[p].s].next_run_at = rows[job[p].s].next_run_at,
         \A p \in Process : Begun(p) => Begun(p)' /\ job'[p] = job[p],
         \A s \in Schedule : rows'[s] # Absent /\ rows'[s].is_active /\ s \notin overtaken' =>
           \/ /\ rows[s] # Absent /\ rows[s].is_active /\ s \notin overtaken
              /\ rows'[s].next_run_at = rows[s].next_run_at
           \/ Since(rows'[s].next_run_at, s)
  PROVE  InstantInv'
  <1>1. \A s \in Schedule : lastBegun'[s] = NoTime \/ lastBegun'[s] <= now'
    BY SchedulerAssumption DEF InstantInv, TypeInv, TypeOK, Time
  <1>2. ASSUME NEW s \in Schedule, rows'[s] # Absent, rows'[s].is_active, s \notin overtaken',
               \A p \in Process : Begun(p)' => job'[p].s # s
        PROVE  Since(rows[s].next_run_at, s)'
    <2>1. \A p \in Process : Begun(p) => job[p].s # s
      BY <1>2
    <2>2. Since(rows'[s].next_run_at, s)
      BY <1>2, <2>1 DEF InstantInv
    <2> QED
      BY <2>2 DEF Since
  <1>3. ASSUME NEW p \in Process, Executing(p)'
        PROVE  rows'[job'[p].s].id = job'[p].id /\ rows'[job'[p].s].is_active
    BY <1>3 DEF InstantInv
  <1>4. ASSUME NEW p \in Process, pc'[p] = "begin"
        PROVE  rows'[job'[p].s].next_run_at <= due_at'[p]
    BY <1>4 DEF InstantInv, Executing
  <1>5. ASSUME NEW p \in Process, Begun(p)' PROVE Since(job[p].next_run_at, job[p].s)'
    <2>1. Begun(p) /\ job'[p] = job[p]
      BY <1>5 DEF Begun, Executing
    <2> QED
      BY <2>1 DEF InstantInv, Since
  <1> QED
    BY <1>1, <1>2, <1>3, <1>4, <1>5 DEF InstantInv

\* The same for a step of one process that leaves the table and the time alone.
LEMMA BystanderInstant ==
  ASSUME TypeInv, InstantInv, NEW p \in Process, UNCHANGED <<rows, lastBegun, overtaken, now>>,
         ~Begun(p), pc'[p] # "begin", ~Begun(p)', due_at'[p] \in {due_at[p], now},
         \A q \in Process : q # p => pc'[q] = pc[q] /\ job'[q] = job[q] /\ due_at'[q] = due_at[q]
  PROVE  InstantInv'
  <1>1. now' \in Int /\ now <= now'
    BY SchedulerAssumption DEF TypeInv, TypeOK, Time
  <1>2. \A q \in Process : due_at'[q] <= now'
    BY <1>1 DEF InstantInv
  <1> QED
    BY <1>1, <1>2, AsideInstant DEF Executing, Begun

\* A PUT that no execution overtook writes an instant after the last one began.
LEMMA UpsertSince ==
  ASSUME TypeInv, InstantInv, NEW u \in puts, u.is_active, UpsertSchedule(u), u.s \notin overtaken'
  PROVE  Since(u.next_run_at, u.s)
  <1>1. /\ u.s \in Schedule /\ u.put_at \in Int /\ u.next_run_at \in Int
        /\ u.put_at < u.next_run_at
    BY SchedulerAssumption DEF TypeInv, TypeOK, Put, Time, Instant
  <1>2. ~Overtaken(u)
    BY DEF UpsertSchedule
  <1>3. lastBegun[u.s] # NoTime => lastBegun[u.s] \in Int
    BY <1>1, SchedulerAssumption DEF TypeInv, TypeOK, Time
  <1> QED
    BY <1>1, <1>2, <1>3 DEF Overtaken, Since

LEMMA EditInstant ==
  ASSUME TypeInv, InstantInv, ~EditsWhileRunning, NEW s \in Schedule, Edit(s)
  PROVE  InstantInv'
  <1>1. UNCHANGED <<now, pc, job, due_at, lastBegun>> /\ now \in Int /\ now <= now
    BY EditOne, SchedulerAssumption DEF TypeInv, TypeOK, Time
  <1>2. \A q \in Process : Executing(q) => rows'[job[q].s] = rows[job[q].s]
    BY QuietEdit
  <1>3. PICK r : /\ rows' = [rows EXCEPT ![s] = r]
                 /\ r # Absent /\ r.is_active /\ s \notin overtaken' => Since(r.next_run_at, s)
    BY EditOne, UpsertSince
  <1>4. ASSUME NEW x \in Schedule, rows'[x] # Absent, rows'[x].is_active, x \notin overtaken'
        PROVE  \/ rows'[x] = rows[x] /\ x \notin overtaken
               \/ Since(rows'[x].next_run_at, x)
    <2>1. CASE x = s
      BY <1>3, <1>4, <2>1 DEF TypeInv, TypeOK
    <2>2. CASE x # s
      <3>1. x \in overtaken' <=> x \in overtaken
        BY <2>2 DEF Edit, DeleteSchedule, UpsertSchedule
      <3> QED
        BY <1>3, <1>4, <2>2, <3>1 DEF TypeInv, TypeOK
    <2> QED
      BY <2>1, <2>2
  <1>5. \A q \in Process : due_at'[q] <= now'
    BY <1>1 DEF InstantInv
  <1> QED
    BY <1>1, <1>2, <1>4, <1>5, AsideInstant DEF Executing, Begun

LEMMA PutInstant ==
  ASSUME TypeInv, InstantInv, NEW s \in Schedule, PutSchedule(s)
  PROVE  InstantInv'
  <1>1. UNCHANGED <<now, rows, pc, due_at, job, lastBegun, overtaken>>
    BY PutAside
  <1>2. now \in Int /\ now <= now /\ \A q \in Process : due_at[q] <= now
    BY SchedulerAssumption DEF InstantInv, TypeInv, TypeOK, Time
  <1> QED
    BY <1>1, <1>2, AsideInstant DEF Executing, Begun

LEMMA ResetInstant ==
  ASSUME TypeInv, InstantInv, LockInv, NEW p \in Process, ResetStaleLocks(p)
  PROVE  InstantInv'
  <1>1. UNCHANGED <<now, job, due_at, lastBegun, overtaken>> /\ pc[p] = "reset" /\ pc' = [pc EXCEPT ![p] = "fill"]
    BY DEF ResetStaleLocks, Goto
  <1>2. now' \in Int /\ now <= now' /\ \A q \in Process : due_at'[q] <= now'
    BY <1>1, SchedulerAssumption DEF InstantInv, TypeInv, TypeOK, Time
  <1>3. ASSUME NEW q \in Process
        PROVE  /\ Begun(q) <=> Begun(q)'
               /\ (Executing(q)' => Executing(q) /\ job[q].s \in Schedule /\ rows[job[q].s] # Absent)
               /\ (Executing(q)' => (pc'[q] = "begin" <=> pc[q] = "begin"))
    BY <1>1 DEF Begun, Executing, TypeInv, TypeOK, JobHeld, Job, LockInv
  <1> QED
    BY <1>1, <1>2, <1>3, ResetKeeps, AsideInstant

\* What p took, and what it leaves of the others' executions.
LEMMA ClaimInstant ==
  ASSUME TypeInv, InstantInv, SafeInv, NEW p \in Process, Claim(p)
  PROVE  InstantInv'
  <1>1. PICK x \in due[p] :
          /\ Claimable(p, x) /\ Take(p, x)
          /\ rows' = [rows EXCEPT ![x.s].is_running = TRUE, ![x.s].locked_at = due_at[p]]
    BY DEF Claim
  <1>2. /\ x.s \in Schedule /\ rows[x.s] \in Row /\ rows[x.s].id = x.id
        /\ rows[x.s].is_active /\ ~rows[x.s].is_running /\ rows[x.s].next_run_at <= due_at[p]
    BY <1>1 DEF Claimable, IsDue, TypeInv, TypeOK, Listed
  <1>3. /\ pc[p] = "claim" /\ pc' = [pc EXCEPT ![p] = "begin"] /\ job' = [job EXCEPT ![p] = Claimed(x)]
        /\ UNCHANGED <<now, due_at, lastBegun, overtaken>>
    BY <1>1 DEF Claim, Take, Goto
  <1>4. ASSUME NEW s \in Schedule, rows[s] # Absent
        PROVE  /\ rows'[s].id = rows[s].id /\ rows'[s].is_active = rows[s].is_active
               /\ rows'[s].next_run_at = rows[s].next_run_at
    <2>1. rows[s] \in Row
      BY <1>4 DEF TypeInv, TypeOK
    <2>2. \/ rows'[s] = rows[s]
          \/ rows'[s] = [rows[s] EXCEPT !.is_running = TRUE, !.locked_at = due_at[p]]
      BY <1>1, <1>2 DEF TypeInv, TypeOK
    <2> QED
      BY <2>1, <2>2 DEF Row
  <1>5. ASSUME NEW s \in Schedule PROVE rows[s] = Absent => rows'[s] = Absent
    BY <1>1, <1>2, SentinelAssumption DEF TypeInv, TypeOK
  <1>6. job'[p].s = x.s /\ job'[p].id = x.id
    BY <1>3 DEF Claimed, TypeInv, TypeOK
  <1>7. ASSUME NEW q \in Process, q # p
        PROVE  pc'[q] = pc[q] /\ job'[q] = job[q]
               /\ (Executing(q) => job[q].s \in Schedule /\ rows[job[q].s] # Absent)
    BY <1>3, <1>7 DEF TypeInv, TypeOK, JobHeld, Job, SafeInv, LockInv
  <1>8. ~Begun(p) /\ ~Begun(p)' /\ rows[x.s] # Absent
    BY <1>2, <1>3, SentinelAssumption DEF Begun, TypeInv, TypeOK
  <1>9. ASSUME NEW s \in Schedule, rows'[s] # Absent, rows'[s].is_active, s \notin overtaken',
               \A q \in Process : Begun(q)' => job'[q].s # s
        PROVE  Since(rows[s].next_run_at, s)'
    <2>1. \A q \in Process : Begun(q) => job[q].s # s
      BY <1>7, <1>8, <1>9 DEF Begun
    <2>2. Since(rows[s].next_run_at, s)
      BY <1>3, <1>4, <1>5, <1>9, <2>1 DEF InstantInv
    <2> QED
      BY <1>3, <1>4, <1>5, <1>9, <2>2 DEF Since
  <1>10. ASSUME NEW q \in Process, Executing(q)'
         PROVE  /\ rows'[job'[q].s].id = job'[q].id /\ rows'[job'[q].s].is_active
                /\ pc'[q] = "begin" => rows'[job'[q].s].next_run_at <= due_at'[q]
    <2>1. CASE q = p
      BY <1>2, <1>3, <1>4, <1>6, <1>8, <2>1
    <2>2. CASE q # p
      BY <1>3, <1>4, <1>7, <1>10, <2>2 DEF InstantInv, Executing
    <2> QED
      BY <2>1, <2>2
  <1>11. ASSUME NEW q \in Process, Begun(q)' PROVE Since(job[q].next_run_at, job[q].s)'
    BY <1>3, <1>7, <1>8, <1>11 DEF InstantInv, Begun, Since
  <1> QED
    BY <1>3, <1>9, <1>10, <1>11 DEF InstantInv, Executing

LEMMA BeginInstant ==
  ASSUME TypeInv, InstantInv, SafeInv, NEW p \in Process, Begin(p)
  PROVE  InstantInv'
  <1> DEFINE s == job[p].s
             next == compute_next_run_at(job[p].cron, now)
  <1>1. job[p] \in Job /\ s \in Schedule /\ next # NoTime /\ Executing(p)
    BY DEF Begin, TypeInv, JobHeld, Executing, Job
  <1>2. next \in Instant /\ now < next
    BY <1>1, NextInstant DEF Job, TypeInv, TypeOK
  <1>3. now \in Time /\ now \in Int /\ now # NoTime
    BY SchedulerAssumption DEF TypeInv, TypeOK, Time
  <1>4. job'[p].s = s /\ job'[p].id = job[p].id /\ job'[p].next_run_at = next
    <2> HIDE DEF next
    <2> QED
      BY <1>1 DEF Begin, TypeInv, TypeOK, Job, next
  <1>5. /\ UNCHANGED <<now, rows, due_at>> /\ pc' = [pc EXCEPT ![p] = "run"]
        /\ lastBegun' = [lastBegun EXCEPT ![s] = now] /\ overtaken' = overtaken \ {s}
    BY DEF Begin, Goto
  <1>6. ASSUME NEW q \in Process, q # p PROVE pc'[q] = pc[q] /\ job'[q] = job[q]
    BY <1>5, <1>6 DEF Begin, TypeInv, TypeOK
  <1>7. ASSUME NEW q \in Process, q # p, Executing(q) PROVE job[q].s # s
    BY <1>1, <1>7 DEF SafeInv, Alone
  <1> HIDE DEF next, s
  <1>8. ASSUME NEW t \in Schedule
        PROVE  lastBegun'[t] = IF t = s THEN now ELSE lastBegun[t]
    BY <1>5 DEF TypeInv, TypeOK
  <1>9. Begun(p)' /\ pc'[p] = "run"
    BY <1>5 DEF Begun, TypeInv, TypeOK
  <1>10. ASSUME NEW t \in Schedule, rows'[t] # Absent, rows'[t].is_active, t \notin overtaken',
                \A q \in Process : Begun(q)' => job'[q].s # t
         PROVE  Since(rows[t].next_run_at, t)'
    <2>1. t # s
      BY <1>4, <1>9, <1>10
    <2>2. ASSUME NEW q \in Process, Begun(q) PROVE job[q].s # t
      BY <1>6, <1>9, <1>10, <2>1, <2>2 DEF Begun, s
    <2>3. Since(rows[t].next_run_at, t)
      BY <1>5, <1>10, <2>1, <2>2 DEF InstantInv
    <2> QED
      BY <1>5, <1>8, <2>1, <2>3 DEF Since
  <1>11. ASSUME NEW q \in Process, Executing(q)'
         PROVE  rows'[job'[q].s].id = job'[q].id /\ rows'[job'[q].s].is_active
    <2>1. CASE q = p
      BY <1>1, <1>4, <1>5, <2>1 DEF InstantInv, s
    <2>2. CASE q # p
      BY <1>5, <1>6, <1>11, <2>2 DEF InstantInv, Executing
    <2> QED
      BY <2>1, <2>2
  <1>12. ASSUME NEW q \in Process, pc'[q] = "begin"
         PROVE  rows'[job'[q].s].next_run_at <= due_at'[q]
    BY <1>5, <1>6, <1>9, <1>12 DEF InstantInv
  <1>13. ASSUME NEW q \in Process, Begun(q)' PROVE Since(job[q].next_run_at, job[q].s)'
    <2>1. CASE q = p
      BY <1>1, <1>2, <1>4, <1>8, <2>1 DEF Since
    <2>2. CASE q # p
      <3>1. Begun(q) /\ job'[q] = job[q] /\ job[q].s # s /\ job[q].s \in Schedule
        BY <1>6, <1>7, <1>13, <2>2 DEF Begun, Executing, TypeInv, JobHeld, Job
      <3> QED
        BY <1>8, <3>1 DEF InstantInv, Since
    <2> QED
      BY <2>1, <2>2
  <1>14. \A t \in Schedule : lastBegun'[t] = NoTime \/ lastBegun'[t] <= now'
    BY <1>3, <1>5, <1>8 DEF InstantInv
  <1>15. \A q \in Process : due_at'[q] <= now'
    BY <1>5 DEF InstantInv
  <1> QED
    BY <1>10, <1>11, <1>12, <1>13, <1>14, <1>15 DEF InstantInv

LEMMA CompleteInstant ==
  ASSUME TypeInv, InstantInv, SafeInv, NEW p \in Process, Complete(p)
  PROVE  InstantInv'
  <1> DEFINE s == job[p].s
  <1>1. /\ job[p] \in Job /\ job[p].next_run_at # NoTime /\ s \in Schedule
        /\ Executing(p) /\ Begun(p) /\ rows[s] # Absent /\ rows[s].id = job[p].id
    BY DEF Complete, TypeInv, JobHeld, Executing, Begun, Job, SafeInv, LockInv, InstantInv
  <1>2. /\ rows'[s].next_run_at = job[p].next_run_at
        /\ \A t \in Schedule : t # s => rows'[t] = rows[t]
    <2> DEFINE done == [rows[s] EXCEPT !.is_running = FALSE, !.locked_at = NoTime,
                                       !.next_run_at = job[p].next_run_at,
                                       !.last_run_at = job[p].finished_at]
    <2>1. rows' = [rows EXCEPT ![s] = done]
      BY <1>1 DEF Complete, Completed, TypeInv, TypeOK
    <2>2. done.next_run_at = job[p].next_run_at
      BY <1>1 DEF TypeInv, TypeOK, Row
    <2> HIDE DEF done
    <2> QED
      BY <1>1, <2>1, <2>2 DEF TypeInv, TypeOK
  <1>3. UNCHANGED <<now, due_at, lastBegun, overtaken>> /\ ~Executing(p)'
    BY DEF Complete, Turn, Goto, Executing, TypeInv, TypeOK
  <1>4. ASSUME NEW q \in Process, q # p
        PROVE  pc'[q] = pc[q] /\ job'[q] = job[q]
    BY <1>4 DEF Complete, Turn, Goto, TypeInv, TypeOK
  <1>5. ASSUME NEW q \in Process, q # p, Executing(q)
        PROVE  job[q].s # s /\ job[q].s \in Schedule
    BY <1>1, <1>5 DEF SafeInv, Alone, TypeInv, JobHeld, Job
  <1>6. Since(job[p].next_run_at, s)
    BY <1>1 DEF InstantInv
  <1> HIDE DEF s
  <1>7. ASSUME NEW t \in Schedule, rows'[t] # Absent, rows'[t].is_active, t \notin overtaken',
               \A q \in Process : Begun(q)' => job'[q].s # t
        PROVE  Since(rows[t].next_run_at, t)'
    <2>1. CASE t = s
      BY <1>2, <1>3, <1>6, <2>1 DEF Since
    <2>2. CASE t # s
      <3>1. ASSUME NEW q \in Process, Begun(q) PROVE job[q].s # t
        BY <1>4, <1>7, <2>2, <3>1 DEF Begun, s
      <3>2. Since(rows[t].next_run_at, t)
        BY <1>2, <1>3, <1>7, <2>2, <3>1 DEF InstantInv
      <3> QED
        BY <1>2, <1>3, <2>2, <3>2 DEF Since
    <2> QED
      BY <2>1, <2>2
  <1>8. ASSUME NEW q \in Process, Executing(q)'
        PROVE  /\ q # p /\ Executing(q) /\ pc'[q] = pc[q] /\ job'[q] = job[q]
               /\ rows'[job'[q].s] = rows[job[q].s]
    BY <1>2, <1>3, <1>4, <1>5, <1>8 DEF Executing
  <1>9. ASSUME NEW q \in Process, Executing(q)'
        PROVE  rows'[job'[q].s].id = job'[q].id /\ rows'[job'[q].s].is_active
    BY <1>8, <1>9 DEF InstantInv
  <1>10. ASSUME NEW q \in Process, pc'[q] = "begin"
         PROVE  rows'[job'[q].s].next_run_at <= due_at'[q]
    BY <1>3, <1>8, <1>10 DEF InstantInv, Executing
  <1>11. ASSUME NEW q \in Process, Begun(q)' PROVE Since(job[q].next_run_at, job[q].s)'
    <2>1. Begun(q) /\ job'[q] = job[q]
      BY <1>8, <1>11 DEF Begun, Executing
    <2> QED
      BY <1>3, <2>1 DEF InstantInv, Since
  <1> QED
    BY <1>3, <1>7, <1>9, <1>10, <1>11 DEF InstantInv

LEMMA StepInstant ==
  ASSUME TypeInv, InstantInv, SafeInv, crashes' = 0, crashes = 0, faults' = 0,
         NEW p \in Process, Step(p) \/ Crash(p)
  PROVE  InstantInv'
  <1>1. ~ClaimLost(p) /\ ~CompleteLost(p) /\ ~CompleteRaises(p) /\ ~Crash(p)
    BY DEF ClaimLost, CompleteLost, CompleteRaises, Crash, TypeInv, TypeOK
  <1>2. CASE Start(p)
    BY <1>2, BystanderInstant DEF Start, Goto, Begun, TypeInv, TypeOK
  <1>3. CASE FillNextRun(p)
    BY <1>3, FillKeeps, BystanderInstant DEF FillNextRun, Goto, Begun, TypeInv, TypeOK
  <1>4. CASE Poll(p)
    BY <1>4, BystanderInstant DEF Poll, Goto, Begun, TypeInv, TypeOK
  <1>5. CASE ClaimMissed(p)
    BY <1>5, BystanderInstant DEF ClaimMissed, Turn, Goto, Begun, TypeInv, TypeOK
  <1>6. CASE BeginRaises(p)
    BY <1>6, BystanderInstant DEF BeginRaises, Abort, Goto, Begun, TypeInv, TypeOK
  <1>7. CASE EndRun(p)
    <2>1. now' \in Int /\ now <= now' /\ \A q \in Process : due_at'[q] <= now'
      BY <1>7, SchedulerAssumption DEF EndRun, InstantInv, TypeInv, TypeOK, Time
    <2>2. \A q \in Process : /\ Executing(q) <=> Executing(q)'
                             /\ Begun(q) <=> Begun(q)'
                             /\ pc'[q] = "begin" <=> pc[q] = "begin"
      BY <1>7 DEF EndRun, Goto, Executing, Begun, TypeInv, TypeOK
    <2> QED
      BY <1>7, <2>1, <2>2, AsideInstant DEF EndRun
  <1>8. CASE ResetStaleLocks(p)
    BY <1>8, ResetInstant DEF SafeInv
  <1> QED
    BY <1>1, <1>2, <1>3, <1>4, <1>5, <1>6, <1>7, <1>8,
       ClaimInstant, BeginInstant, CompleteInstant DEF Step

LEMMA NextInstantInv ==
  ~EditsWhileRunning /\ crashes' = 0 /\ faults' = 0 /\ TypeInv /\ SafeInv /\ InstantInv /\ [Next]_vars
    => InstantInv'
  <1> SUFFICES ASSUME ~EditsWhileRunning, crashes' = 0, faults' = 0, TypeInv, SafeInv, InstantInv,
                      [Next]_vars
               PROVE  InstantInv'
    OBVIOUS
  <1>1. CASE Tick
    <2>1. now' \in Int /\ now <= now' /\ \A q \in Process : due_at'[q] <= now'
      BY <1>1, SchedulerAssumption DEF Tick, InstantInv, TypeInv, TypeOK, Time
    <2>2. \A q \in Process : /\ Executing(q) <=> Executing(q)'
                             /\ Begun(q) <=> Begun(q)'
                             /\ pc'[q] = "begin" <=> pc[q] = "begin"
      BY <1>1 DEF Tick, Executing, Begun, TypeInv, TypeOK
    <2> QED
      BY <1>1, <2>1, <2>2, AsideInstant DEF Tick
  <1>2. ASSUME NEW s \in Schedule, Edit(s) PROVE InstantInv'
    BY <1>2, EditInstant
  <1>5. ASSUME NEW s \in Schedule, PutSchedule(s) PROVE InstantInv'
    BY <1>5, PutInstant
  <1>3. ASSUME NEW p \in Process, Step(p) \/ Crash(p) PROVE InstantInv'
    BY <1>3, StepInstant, CrashesGrow
  <1>4. CASE UNCHANGED vars
    BY <1>4 DEF vars, InstantInv, Executing, Begun, Since
  <1> QED
    BY <1>1, <1>2, <1>3, <1>4, <1>5, Request

\* The instant an execution answers to is the next_run_at of its row.
LEMMA BeginAnswers ==
  ASSUME TypeInv, CronInv, SafeInv, InstantInv, NEW p \in Process, Begin(p), job[p].s \notin overtaken
  PROVE  \E f \in job[p].cron : f <= now /\ Since(f, job[p].s)
  <1> DEFINE s == job[p].s
             f == rows[s].next_run_at
  <1>1. pc[p] = "begin" /\ Executing(p) /\ s \in Schedule /\ rows[s] \in Row /\ rows[s] # Absent
    BY DEF Begin, Executing, TypeInv, TypeOK, JobHeld, Job, SafeInv, LockInv
  <1>2. rows[s].id = job[p].id /\ rows[s].is_active /\ f <= due_at[p] /\ due_at[p] <= now
    BY <1>1 DEF InstantInv
  <1>3. f \in job[p].cron
    BY <1>1, <1>2 DEF CronInv, NextFollowsCron
  <1>4. f \in Int /\ due_at[p] \in Int /\ now \in Int
    BY <1>1, <1>2, SchedulerAssumption DEF Row, TypeInv, TypeOK, ActiveHasNext, Time, Instant
  <1>5. ASSUME NEW q \in Process, Begun(q) PROVE job[q].s # s
    BY <1>1, <1>5 DEF Begun, Executing, SafeInv, Alone
  <1>6. Since(f, s)
    BY <1>1, <1>2, <1>5 DEF InstantInv
  <1> HIDE DEF f
  <1> QED
    BY <1>2, <1>3, <1>4, <1>6

\* Every execution answers to an instant of its own expression that came after
\* the last execution of the schedule began, and is not in the future: so no
\* instant is executed twice, by any number of processes, while clients edit
\* the schedules that are at rest.  It takes what PunctualExclusiveRun does,
\* and that no execution was interrupted.  What is left out is the execution
\* after a PUT that an earlier one overtook: it read the clock before that one
\* began, and wrote the same instant back after it ended.
THEOREM PunctualOneRunPerInstant ==
  ASSUME ~EditsWhileRunning
  PROVE  Spec /\ []Punctual => OneRunPerInstant
  <1> DEFINE Safe == faults = 0 => SafeInv
             OnTime == crashes = 0 /\ faults = 0 => InstantInv
             Inv == TypeInv /\ CronInv /\ PutsFollow /\ Safe /\ OnTime
             Answers ==
               \A p \in Process : crashes = 0 /\ faults = 0 /\ Begin(p) /\ job[p].s \notin overtaken =>
                 \E f \in job[p].cron :
                   /\ f <= now
                   /\ lastBegun[job[p].s] = NoTime \/ lastBegun[job[p].s] < f
  <1>1. Init => Inv
    <2>1. Init => Safe
      BY DEF Init, SafeInv, LockInv, Alone, Executing
    <2>2. Init => CronInv /\ PutsFollow
      BY DEF Init, CronInv, NextFollowsCron, Executing, PutsFollow
    <2>3. Init => OnTime
      BY DEF Init, InstantInv, Executing, Begun
    <2> QED
      BY <2>1, <2>2, <2>3, InitTyped
  <1>2. Inv /\ Punctual /\ [Next]_vars => Inv'
    <2>1. TypeInv /\ Safe /\ Punctual /\ [Next]_vars => Safe'
      BY NextExcludes, FaultsGrow
    <2>2. TypeInv /\ Safe /\ OnTime /\ [Next]_vars => OnTime'
      BY NextInstantInv, FaultsGrow, CrashesGrow
    <2> QED
      BY <2>1, <2>2, NextTyped, NextFollows
  <1>3. Inv => [Answers]_vars
    <2> SUFFICES ASSUME Inv, NEW p \in Process, crashes = 0, faults = 0, Begin(p),
                        job[p].s \notin overtaken
                 PROVE  \E f \in job[p].cron :
                          /\ f <= now
                          /\ lastBegun[job[p].s] = NoTime \/ lastBegun[job[p].s] < f
      OBVIOUS
    <2> QED
      BY BeginAnswers DEF Since
  <1> HIDE DEF Inv
  <1> QED
    BY <1>1, <1>2, <1>3, PTL DEF Spec, OneRunPerInstant

=============================================================================
