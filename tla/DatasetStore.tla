----------------------------- MODULE DatasetStore -----------------------------
(***************************************************************************)
(* One table dataset of a tenant (workflow/store/database.py,              *)
(* model/store_entry.py): the active rows of store_entries, as written by  *)
(* the nodes of the tenant's flows and by the table routes, which run at   *)
(* the same time and know nothing of each other.                           *)
(*                                                                         *)
(* Each function of model/store_entry.py is one transaction, and one       *)
(* action.  Replacing a table takes two, merging today's rows into it      *)
(* three, and updating a row two.                                          *)
(*                                                                         *)
(* A soft-deleted row is never looked at again, so it is left out.  A row  *)
(* has a key, which no other active row has, and a content: the record it  *)
(* was inserted with and the updates merged into it.  The key of a record  *)
(* without record_id is made of its index and of its hash, which depends   *)
(* on the process.  Order and the fields of records are left out.          *)
(*                                                                         *)
(* Bounds: a user makes one request or node call, so User bounds the       *)
(* operations; MaxCrashes, MaxFaults.                                      *)
(***************************************************************************)
EXTENDS Naturals, Sequences, FiniteSets

CONSTANTS
  Process,
  User,
  Home,         \* Home[u]: the process of user u
  Record,       \* what may be written
  Today,        \* the record of today's hotspots
  Batches,      \* the lists of records that a table may be replaced with
  RecordId,     \* the record_ids that clients choose
  MaxCrashes,
  MaxFaults

GeneratedKey == Process \X (Nat \ {0}) \X Record
Key     == RecordId \cup GeneratedKey
Content == SUBSET (Record \cup User)

\* by: the operation that inserted the row (a history; "before": none of these).
Row == [key : Key, content : Content, by : User \cup {"before"}]

ASSUME StoreAssumption ==
  /\ Home \in [User -> Process]
  /\ Today \in Record
  /\ Batches \subseteq Seq(Record)
  /\ RecordId \cap GeneratedKey = {}
  /\ {"before", "nobody"} \cap User = {}
  /\ MaxCrashes \in Nat /\ MaxFaults \in Nat

VARIABLES
  table,       \* the active rows
  op,          \* op[u]: what user u does
  pc,          \* pc[u]: the transaction it is at
  key,         \* key[u]: the record_id of its request
  seen,        \* seen[u]: the rows it has read
  batch,       \* batch[u]: the rows it is to insert
  last,        \* history: the operation that began last
  before,      \* history: the table when that began, if it was alone
  overlapped,  \* history: did one begin while another was under way?
  filled,      \* history: were there rows after the last insert?
  removed,     \* history: has a request deleted a row?
  crashes,
  faults

local == <<op, pc, key, seen, batch>>
past  == <<last, before, overlapped, filled, removed>>
vars  == <<table, local, past, crashes, faults>>

NoKey == <<>>
NoUser == "nobody"

Ops == {"none", "replace", "append", "merge", "read", "create", "update", "delete"}
PC  == {"idle", "read", "get", "clear", "insert", "update", "delete", "done", "missing", "failed", "dead"}

TypeOK ==
  /\ table \subseteq Row
  /\ \A r, s \in table : r.key = s.key => r = s       \* ux_store_entries_active
  /\ op \in [User -> Ops]
  /\ pc \in [User -> PC]
  /\ key \in [User -> Key \cup {NoKey}]
  /\ seen \in [User -> SUBSET Row]
  /\ batch \in [User -> SUBSET Row]
  /\ last \in User \cup {NoUser}
  /\ before \subseteq Row
  /\ overlapped \in BOOLEAN /\ filled \in BOOLEAN /\ removed \in BOOLEAN
  /\ crashes \in 0..MaxCrashes
  /\ faults \in 0..MaxFaults

Active(T) == {r.key : r \in T}

\* A table that holds what earlier days left.
InitialTables ==
  {{}} \cup {{[key |-> k, content |-> {c}, by |-> "before"]} : k \in RecordId, c \in Record \ {Today}}

Init ==
  /\ table \in InitialTables
  /\ op = [u \in User |-> "none"]
  /\ pc = [u \in User |-> "idle"]
  /\ key = [u \in User |-> NoKey]
  /\ seen = [u \in User |-> {}]
  /\ batch = [u \in User |-> {}]
  /\ last = NoUser
  /\ before = table
  /\ overlapped = FALSE /\ filled = (table # {}) /\ removed = FALSE
  /\ crashes = 0 /\ faults = 0

Live(u) == pc[u] \notin {"idle", "done", "missing", "failed", "dead"}
Goto(u, label) == pc' = [pc EXCEPT ![u] = label]

-----------------------------------------------------------------------------
(* Requests and node calls.                                                *)

Begin(u, kind, label) ==
  /\ pc[u] = "idle"
  /\ op' = [op EXCEPT ![u] = kind]
  /\ Goto(u, label)
  /\ overlapped' = (overlapped \/ \E v \in User : Live(v))
  /\ last' = IF overlapped' THEN NoUser ELSE u
  /\ before' = IF overlapped' THEN {} ELSE table
  /\ UNCHANGED <<table, seen, filled, removed, crashes, faults>>

\* The rows that insert_store_rows makes of a list of records without record_id,
\* the first of which has index i.
NewRows(u, records, i) ==
  {[key |-> <<Home[u], i + n, records[n]>>, content |-> {records[n]}, by |-> u] : n \in DOMAIN records}

\* write_table of the collection flow, mode replace.
ReplaceTable(u) ==
  /\ Begin(u, "replace", "clear")
  /\ \E records \in Batches : batch' = [batch EXCEPT ![u] = NewRows(u, records, 0)]
  /\ UNCHANGED key

\* write_table of the daily report and of the creation flow, mode append_latest.
AppendRow(u) ==
  /\ Begin(u, "append", "insert")
  /\ \E c \in Record : batch' = [batch EXCEPT ![u] = NewRows(u, <<c>>, 0)]
  /\ UNCHANGED key

\* The daily hotspots: read, merge, replace.
MergeToday(u) == Begin(u, "merge", "read") /\ UNCHANGED <<key, batch>>

ReadTable(u) == Begin(u, "read", "read") /\ UNCHANGED <<key, batch>>

\* POST of a row, with or without a record_id.
CreateRow(u) ==
  /\ Begin(u, "create", "insert")
  /\ \E c \in Record :
       \/ batch' = [batch EXCEPT ![u] = NewRows(u, <<c>>, 0)]
       \/ \E k \in RecordId :
            batch' = [batch EXCEPT ![u] = {[key |-> k, content |-> {c}, by |-> u]}]
  /\ UNCHANGED key

\* PUT and DELETE of the row with some record_id; clients know the keys they have read.
Named(u) == \E k \in RecordId \cup Active(table) : key' = [key EXCEPT ![u] = k]

UpdateRow(u) == Begin(u, "update", "get") /\ Named(u) /\ UNCHANGED batch
DeleteRow(u) == Begin(u, "delete", "delete") /\ Named(u) /\ UNCHANGED batch

-----------------------------------------------------------------------------
(* The transactions.                                                       *)

\* A transaction of u is over; what it found and left is in the first three.
Done(u, label) ==
  /\ Goto(u, label)
  /\ UNCHANGED <<op, key, past, crashes>>

\* keep_rows_except_today of T, which keep their record_id, and what was fetched.
Merged(u, T, fetched) ==
  LET kept == {r \in T : Today \notin r.content} IN
    {[r EXCEPT !.by = u] : r \in kept} \cup NewRows(u, fetched, Cardinality(kept))

\* list_store_entries for a reader, and for the daily hotspots, whose fetch may
\* have brought nothing.
ReadGives(u, T) ==
  /\ pc[u] = "read"
  /\ seen' = [seen EXCEPT ![u] = T]
  /\ \/ op[u] = "read" /\ Done(u, "done") /\ UNCHANGED batch
     \/ /\ op[u] = "merge" /\ Done(u, "clear")
        /\ \E fetched \in {<<>>, <<Today>>} : batch' = [batch EXCEPT ![u] = Merged(u, T, fetched)]
  /\ UNCHANGED table

Read(u) == ReadGives(u, table) /\ UNCHANGED faults

\* get_store_entry, by the update route.
Get(u) ==
  LET found == {r \in table : r.key = key[u]} IN
    /\ pc[u] = "get"
    /\ seen' = [seen EXCEPT ![u] = found]
    /\ Done(u, IF found = {} THEN "missing" ELSE "update")
    /\ UNCHANGED <<table, batch, faults>>

\* soft_delete_store_entries.
Clear(u) ==
  /\ pc[u] = "clear"
  /\ table' = {}
  /\ Done(u, "insert")
  /\ UNCHANGED <<seen, batch, faults>>

MutantNoUniqueIndex(u) == FALSE

\* ux_store_entries_active: no other active row has the key.
Collides(u) ==
  \/ Active(table) \cap Active(batch[u]) # {}
  \/ \E r, s \in batch[u] : r # s /\ r.key = s.key

MutantInsertSkipsCollisions(u) ==
  /\ pc[u] = "insert"
  /\ table' = table \cup {r \in batch[u] : r.key \notin Active(table)}
  /\ filled' = (table' # {})
  /\ Goto(u, "done")
  /\ UNCHANGED <<op, key, seen, batch, last, before, overlapped, removed, crashes, faults>>

\* insert_store_rows.
Insert(u) ==
  /\ pc[u] = "insert" /\ ~Collides(u)
  /\ table' = table \cup batch[u]
  /\ filled' = (table' # {})
  /\ Goto(u, "done")
  /\ UNCHANGED <<op, key, seen, batch, last, before, overlapped, removed, crashes, faults>>

\* The unique index rejects a row, and with it the transaction.
InsertCollides(u) ==
  /\ pc[u] = "insert" /\ Collides(u)
  /\ Done(u, "failed")
  /\ UNCHANGED <<table, seen, batch, faults>>

MutantUpdateOverwrites(u, r) == [r EXCEPT !.content = {u}]

\* What the update route makes of the row it has read.
Updated(u, r) ==
  [r EXCEPT !.content = {u} \cup UNION {s.content : s \in seen[u]}]

\* update_store_rows: the row as it was read, with the request merged into it.
Update(u) ==
  LET found == {r \in table : r.key = key[u]} IN
    /\ pc[u] = "update"
    /\ table' = (table \ found) \cup {Updated(u, r) : r \in found}
    /\ Done(u, IF found = {} THEN "missing" ELSE "done")
    /\ UNCHANGED <<seen, batch, faults>>

\* soft_delete_store_entry.
Delete(u) ==
  LET found == {r \in table : r.key = key[u]} IN
    /\ pc[u] = "delete"
    /\ table' = table \ found
    /\ removed' = (removed \/ found # {})
    /\ Goto(u, IF found = {} THEN "missing" ELSE "done")
    /\ UNCHANGED <<op, key, seen, batch, last, before, overlapped, filled, crashes, faults>>

Fault == faults < MaxFaults /\ faults' = faults + 1

\* A statement raises: nothing is written, and the operation ends.
StatementFails(u) ==
  /\ Fault /\ Live(u) /\ Done(u, "failed")
  /\ UNCHANGED <<table, seen, batch>>

\* A cut connection, whose exception connect_postgres swallows: a read finds its
\* list of rows still empty ...
ReadCut(u) == Fault /\ ReadGives(u, {})

\* ... and a commit that is lost looks like one that is not.
CommitLost(u) ==
  /\ Fault /\ pc[u] \in {"clear", "insert", "update", "delete"}
  /\ Done(u, IF pc[u] = "clear" THEN "insert" ELSE "done")
  /\ UNCHANGED <<table, seen, batch>>

\* A restarted process, which hashes anew, counts as another one.
Crash(p) ==
  /\ crashes < MaxCrashes /\ crashes' = crashes + 1
  /\ pc' = [u \in User |-> IF Home[u] = p /\ (pc[u] = "idle" \/ Live(u)) THEN "dead" ELSE pc[u]]
  /\ UNCHANGED <<table, op, key, seen, batch, past, faults>>

Request(u) ==
  \/ ReplaceTable(u) \/ AppendRow(u) \/ MergeToday(u) \/ ReadTable(u)
  \/ CreateRow(u) \/ UpdateRow(u) \/ DeleteRow(u)

Step(u) ==
  \/ Read(u) \/ Get(u) \/ Clear(u) \/ Insert(u) \/ InsertCollides(u)
  \/ Update(u) \/ Delete(u) \/ StatementFails(u) \/ ReadCut(u) \/ CommitLost(u)

Next ==
  \/ \E u \in User : Request(u) \/ Step(u)
  \/ \E p \in Process : Crash(p)

Spec == Init /\ [][Next]_vars

-----------------------------------------------------------------------------
(* Properties.                                                             *)

Smooth == crashes = 0 /\ faults = 0

Written(T, u) == {r.key : r \in {s \in T : s.by = u}}

\* What the table is, or was when somebody read it.
Snapshots == {table} \cup {seen[v] : v \in {w \in User : op[w] \in {"read", "merge"}}}

\* Rows that were written together are seen together: the table, and whatever a
\* reader has read, holds all the rows of an operation or none, however operations
\* overlap, collide, fail and crash, as long as no request has deleted single rows.
WholeBatches ==
  ~removed => \A T \in Snapshots : \A u \in User : Written(T, u) \in {{}, Active(batch[u])}

\* Nobody leaves a table empty that was filled: it is empty only while some
\* replacement is between its two transactions, however many overlap and
\* whichever of them collides.  (A crash or a failed insert does leave it empty.)
NeverLeftEmpty ==
  Smooth /\ ~removed /\ filled /\ table = {} =>
    \E u \in User : op[u] \in {"replace", "merge"} /\ pc[u] = "insert"

Plain(T) == {[key |-> r.key, content |-> r.content] : r \in T}

\* What an operation promises to make of table T.
Promised(u, T) ==
  CASE op[u] = "replace"            -> Plain(batch[u])
    [] op[u] \in {"append", "create"} -> Plain(T \cup batch[u])
    [] op[u] = "merge"              -> Plain({r \in T : Today \notin r.content} \cup batch[u])
    [] op[u] = "update"             -> {[key |-> r.key, content |-> IF r.key = key[u]
                                         THEN r.content \cup {u} ELSE r.content] : r \in T}
    [] op[u] = "delete"             -> Plain({r \in T : r.key # key[u]})
    [] op[u] = "read"               -> Plain(T)

\* An operation of two or three transactions that nothing overlaps amounts to one
\* atomic step: when it answers, it has done to the table what it promises, and
\* one that answers with an error has left the table alone.
AtomicWhenAlone ==
  Smooth /\ last # NoUser /\ ~Live(last) =>
    Plain(table) = IF pc[last] = "done" THEN Promised(last, before) ELSE Plain(before)
=============================================================================
