---------------------------- MODULE ConnectionPool ----------------------------
(***************************************************************************)
(* connect_postgres (model/db.py): the blocks of statements that the       *)
(* threads of one process run on connections to one database, and the pool *)
(* the connections go back to.                                             *)
(*                                                                         *)
(* A call is one `with connect_postgres(...)` block of one thread.  It     *)
(* writes its parts with one statement each.  A block that commits by      *)
(* itself does so as its last statement (model/store_entry.py); the commit *)
(* of connect_postgres then finds no transaction.  The database may cut a  *)
(* connection at any time (a restart, a proxy's idle timeout); the client  *)
(* learns of it with the next thing it asks of the connection, and not     *)
(* while the connection lies in the pool.                                  *)
(*                                                                         *)
(* Bounds: a call is made once, so Call bounds the calls; MaxCuts,         *)
(* MaxFaults.                                                              *)
(***************************************************************************)
EXTENDS Naturals, Sequences, FiniteSets

CONSTANTS
  Call,
  Connection,
  Parts,         \* the statements of a block
  MaxIdle,       \* _POSTGRES_POOL_MAX_SIZE
  MaxCuts,
  MaxFaults,
  NoConnection

ASSUME PoolAssumption ==
  /\ Parts \in Nat \ {0}
  /\ MaxIdle \in Nat \ {0}
  /\ MaxCuts \in Nat /\ MaxFaults \in Nat
  /\ NoConnection \notin Connection

VARIABLES
  pool,     \* the idle connections; the last is taken first (LifoQueue)
  client,   \* client[k]: what the client knows of connection k
  tx,       \* tx[k]: its transaction, as the client knows it
  pending,  \* pending[k]: what its transaction has written
  lost,     \* the connections the database has cut
  written,  \* what is committed
  pc,       \* pc[t]: where call t is
  holds,    \* holds[t]: its connection
  next,     \* next[t]: the part it writes next
  raised,   \* raised[t]: is an exception on its way out of the block?
  cuts,
  faults

connections == <<pool, client, tx, pending>>
calls       == <<pc, holds, next, raised>>
vars        == <<connections, lost, written, calls, cuts, faults>>

Part  == 1..Parts
Write == Call \X Part

\* How a block ends for its caller: it ran to its end; its exception went on to
\* the caller; its exception was swallowed by the `return` of the finally.
Ended == {"done", "failed", "swallowed"}

TypeOK ==
  /\ pool \in Seq(Connection) /\ Len(pool) <= MaxIdle
  /\ client \in [Connection -> {"new", "open", "broken", "closed"}]
  /\ tx \in [Connection -> {"idle", "open", "failed"}]
  /\ pending \in [Connection -> SUBSET Write]
  /\ lost \subseteq Connection
  /\ written \subseteq Write
  /\ pc \in [Call -> {"enter", "connect", "block", "except", "finally"} \cup Ended]
  /\ holds \in [Call -> Connection \cup {NoConnection}]
  /\ next \in [Call -> 1..Parts + 1]
  /\ raised \in [Call -> BOOLEAN]
  /\ cuts \in 0..MaxCuts
  /\ faults \in 0..MaxFaults

Init ==
  /\ pool = <<>>
  /\ client = [k \in Connection |-> "new"]
  /\ tx = [k \in Connection |-> "idle"]
  /\ pending = [k \in Connection |-> {}]
  /\ lost = {} /\ written = {}
  /\ pc = [t \in Call |-> "enter"]
  /\ holds = [t \in Call |-> NoConnection]
  /\ next = [t \in Call |-> 1]
  /\ raised = [t \in Call |-> FALSE]
  /\ cuts = 0 /\ faults = 0

Goto(t, label) == pc' = [pc EXCEPT ![t] = label]

\* The exception of call t leaves the block and enters the except clause.
Raise(t) ==
  /\ Goto(t, "except")
  /\ raised' = [raised EXCEPT ![t] = TRUE]

Holding(t, label) == pc[t] = label /\ holds[t] # NoConnection

\* Call t asks something of a connection that has been cut, and finds out.
FindsItCut(t) ==
  /\ holds[t] \in lost
  /\ client' = [client EXCEPT ![holds[t]] = "broken"]

-----------------------------------------------------------------------------
(* Before the block.                                                       *)

\* pool.get_nowait: the connection put last, if it looks usable.
TakeIdle(t) ==
  LET k == pool[Len(pool)] IN
    /\ pc[t] = "enter" /\ pool # <<>>
    /\ pool' = SubSeq(pool, 1, Len(pool) - 1)
    /\ IF client[k] = "open"
       THEN /\ holds' = [holds EXCEPT ![t] = k]
            /\ Goto(t, "block")
            /\ UNCHANGED client
       ELSE /\ client' = [client EXCEPT ![k] = "closed"]
            /\ Goto(t, "connect")
            /\ UNCHANGED holds
    /\ UNCHANGED <<tx, pending, lost, written, next, raised, cuts, faults>>

FindsPoolEmpty(t) ==
  /\ pc[t] = "enter" /\ pool = <<>>
  /\ Goto(t, "connect")
  /\ UNCHANGED <<connections, lost, written, holds, next, raised, cuts, faults>>

Connect(t) ==
  /\ pc[t] = "connect"
  /\ \E k \in Connection :
       /\ client[k] = "new"
       /\ client' = [client EXCEPT ![k] = "open"]
       /\ holds' = [holds EXCEPT ![t] = k]
  /\ Goto(t, "block")
  /\ UNCHANGED <<pool, tx, pending, lost, written, next, raised, cuts, faults>>

\* psycopg.connect raises, outside of the try.
CannotConnect(t) ==
  /\ pc[t] = "connect" /\ faults < MaxFaults
  /\ Goto(t, "failed")
  /\ faults' = faults + 1
  /\ UNCHANGED <<connections, lost, written, holds, next, raised, cuts>>

-----------------------------------------------------------------------------
(* The block.                                                              *)

\* (A mutant: every statement is committed by itself.)
MutantAutocommit(t) ==
  /\ Holding(t, "block") /\ next[t] \in Part /\ holds[t] \notin lost
  /\ written' = written \cup {<<t, next[t]>>}
  /\ next' = [next EXCEPT ![t] = @ + 1]
  /\ UNCHANGED <<connections, lost, pc, holds, raised, cuts, faults>>

Execute(t) ==
  LET k == holds[t] IN
    /\ Holding(t, "block") /\ next[t] \in Part /\ k \notin lost
    /\ tx' = [tx EXCEPT ![k] = "open"]
    /\ pending' = [pending EXCEPT ![k] = @ \cup {<<t, next[t]>>}]
    /\ next' = [next EXCEPT ![t] = @ + 1]
    /\ UNCHANGED <<pool, client, lost, written, pc, holds, raised, cuts, faults>>

\* The database rejects the statement: nothing of its transaction can be
\* committed any more.
Rejected(t) ==
  LET k == holds[t] IN
    /\ Holding(t, "block") /\ next[t] \in Part /\ k \notin lost
    /\ faults < MaxFaults /\ faults' = faults + 1
    /\ tx' = [tx EXCEPT ![k] = "failed"]
    /\ pending' = [pending EXCEPT ![k] = {}]
    /\ Raise(t)
    /\ UNCHANGED <<pool, client, lost, written, holds, next, cuts>>

\* The block's own code raises, with the transaction open.
BodyRaises(t) ==
  /\ Holding(t, "block")
  /\ faults < MaxFaults /\ faults' = faults + 1
  /\ Raise(t)
  /\ UNCHANGED <<connections, lost, written, holds, next, cuts>>

StatementFindsCut(t) ==
  /\ Holding(t, "block") /\ next[t] \in Part
  /\ FindsItCut(t)
  /\ Raise(t)
  /\ UNCHANGED <<pool, tx, pending, lost, written, holds, next, cuts, faults>>

-----------------------------------------------------------------------------
(* After the block.                                                        *)

Finished(t) == Holding(t, "block") /\ next[t] = Parts + 1

\* The database commits the transaction of connection k.
Committed(k) ==
  /\ written' = written \cup pending[k]
  /\ pending' = [pending EXCEPT ![k] = {}]

Commit(t) ==
  /\ Finished(t) /\ holds[t] \notin lost
  /\ Committed(holds[t])
  /\ tx' = [tx EXCEPT ![holds[t]] = "idle"]
  /\ Goto(t, "finally")
  /\ UNCHANGED <<pool, client, lost, holds, next, raised, cuts, faults>>

CommitFindsCut(t) ==
  /\ Finished(t)
  /\ FindsItCut(t)
  /\ Raise(t)
  /\ UNCHANGED <<pool, tx, pending, lost, written, holds, next, cuts, faults>>

\* The connection is cut between the commit and its acknowledgement.
CommitUnacknowledged(t) ==
  LET k == holds[t] IN
    /\ Finished(t) /\ k \notin lost
    /\ cuts < MaxCuts /\ cuts' = cuts + 1
    /\ Committed(k)
    /\ lost' = lost \cup {k}
    /\ client' = [client EXCEPT ![k] = "broken"]
    /\ Raise(t)
    /\ UNCHANGED <<pool, tx, holds, next, faults>>

\* (A mutant: no rollback.)
MutantNoRollback(t) ==
  /\ Holding(t, "except") /\ client[holds[t]] = "open" /\ holds[t] \notin lost
  /\ Goto(t, "finally")
  /\ UNCHANGED <<connections, lost, written, holds, next, raised, cuts, faults>>

\* The except clause: a connection that is not known to be closed is rolled back.
Rollback(t) ==
  LET k == holds[t] IN
    /\ Holding(t, "except") /\ client[k] = "open" /\ k \notin lost
    /\ tx' = [tx EXCEPT ![k] = "idle"]
    /\ pending' = [pending EXCEPT ![k] = {}]
    /\ Goto(t, "finally")
    /\ UNCHANGED <<pool, client, lost, written, holds, next, raised, cuts, faults>>

\* The rollback raises, and the connection is closed.
RollbackFindsCut(t) ==
  /\ Holding(t, "except") /\ client[holds[t]] = "open" /\ holds[t] \in lost
  /\ client' = [client EXCEPT ![holds[t]] = "closed"]
  /\ Goto(t, "finally")
  /\ UNCHANGED <<pool, tx, pending, lost, written, holds, next, raised, cuts, faults>>

NothingToRollBack(t) ==
  /\ Holding(t, "except") /\ client[holds[t]] # "open"
  /\ Goto(t, "finally")
  /\ UNCHANGED <<connections, lost, written, holds, next, raised, cuts, faults>>

\* The finally clause.  The block's connection is not its own any more.
Leave(t, outcome) ==
  /\ Goto(t, outcome)
  /\ holds' = [holds EXCEPT ![t] = NoConnection]
  /\ UNCHANGED <<lost, written, next, raised, cuts, faults>>

\* A connection that broke is closed, and the return swallows the exception.
Discard(t) ==
  /\ Holding(t, "finally") /\ client[holds[t]] # "open"
  /\ client' = [client EXCEPT ![holds[t]] = "closed"]
  /\ Leave(t, "swallowed")
  /\ UNCHANGED <<pool, tx, pending>>

\* (A mutant: the finally always returns.)
MutantAlwaysReturns(t) == IF raised[t] THEN "swallowed" ELSE "done"

Outcome(t) == IF raised[t] THEN "failed" ELSE "done"

\* (A mutant: off by one.)
MutantPutBackOneMore(t) ==
  /\ Holding(t, "finally") /\ client[holds[t]] = "open" /\ Len(pool) <= MaxIdle
  /\ pool' = Append(pool, holds[t])
  /\ Leave(t, Outcome(t))
  /\ UNCHANGED <<client, tx, pending>>

PutBack(t) ==
  /\ Holding(t, "finally") /\ client[holds[t]] = "open" /\ Len(pool) < MaxIdle
  /\ pool' = Append(pool, holds[t])
  /\ Leave(t, Outcome(t))
  /\ UNCHANGED <<client, tx, pending>>

\* The pool is full.
CloseSurplus(t) ==
  /\ Holding(t, "finally") /\ client[holds[t]] = "open" /\ Len(pool) = MaxIdle
  /\ client' = [client EXCEPT ![holds[t]] = "closed"]
  /\ Leave(t, Outcome(t))
  /\ UNCHANGED <<pool, tx, pending>>

-----------------------------------------------------------------------------
(* The database cuts a connection, and rolls its transaction back.         *)

Cut(k) ==
  /\ client[k] = "open" /\ k \notin lost
  /\ cuts < MaxCuts /\ cuts' = cuts + 1
  /\ lost' = lost \cup {k}
  /\ pending' = [pending EXCEPT ![k] = {}]
  /\ UNCHANGED <<pool, client, tx, written, calls, faults>>

Step(t) ==
  \/ TakeIdle(t) \/ FindsPoolEmpty(t) \/ Connect(t) \/ CannotConnect(t)
  \/ Execute(t) \/ Rejected(t) \/ BodyRaises(t) \/ StatementFindsCut(t)
  \/ Commit(t) \/ CommitFindsCut(t) \/ CommitUnacknowledged(t)
  \/ Rollback(t) \/ RollbackFindsCut(t) \/ NothingToRollBack(t)
  \/ Discard(t) \/ PutBack(t) \/ CloseSurplus(t)

Next ==
  \/ \E t \in Call : Step(t)
  \/ \E k \in Connection : Cut(k)

Spec == Init /\ [][Next]_vars

-----------------------------------------------------------------------------
(* Properties.                                                             *)

Idle == {pool[i] : i \in DOMAIN pool}
Held == {holds[t] : t \in Call} \ {NoConnection}

\* A connection has one user: no two calls hold it, none holds it while it lies
\* in the pool, and it does not lie there twice.  (Two threads on one connection
\* would commit and roll back each other's statements.)
OneUser ==
  /\ \A t, u \in Call : t # u /\ holds[t] # NoConnection => holds[t] # holds[u]
  /\ Held \cap Idle = {}
  /\ \A i, j \in DOMAIN pool : i # j => pool[i] # pool[j]

\* Connections are not leaked, and a connection that is known to be broken is
\* never handed out again: the open ones are those in the pool and those in use.
OpenAreKept == {k \in Connection : client[k] = "open"} \subseteq Idle \cup Held
               /\ \A k \in Idle : client[k] = "open"

\* Nothing of a call is left on a pooled connection for the next user to commit,
\* whichever way the call ended.
PooledAreClean == \A k \in Idle : tx[k] = "idle" /\ pending[k] = {}

\* The pool is sound: its connections are shared by nobody, open, and clean, and
\* no open one is leaked, whatever is cut, rejected or raised at any point.
PoolIsSound == OneUser /\ OpenAreKept /\ PooledAreClean

PartsWritten(t) == {i \in Part : <<t, i>> \in written}

\* The parts of a block are committed together or not at all, and its caller is
\* told the truth as far as it is told: a block that ran to its end is
\* committed, and one whose exception reaches the caller has left nothing.
\* Only of a swallowed exception nothing can be said.
BlocksAreAtomic ==
  \A t \in Call :
    /\ PartsWritten(t) \in {{}, Part}
    /\ pc[t] = "done" => PartsWritten(t) = Part
    /\ pc[t] = "failed" => PartsWritten(t) = {}

\* A cut connection costs one call: it does not go back to the pool, so no more
\* calls are swallowed than connections were cut.
OneCallPerCut == Cardinality({t \in Call : pc[t] = "swallowed"}) <= cuts
=============================================================================
