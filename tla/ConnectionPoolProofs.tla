------------------------- MODULE ConnectionPoolProofs -------------------------
(* Theorems about ConnectionPool, for every number of calls, connections,    *)
(* statements and cuts and every size of the pool.                           *)
EXTENDS ConnectionPool, SequenceTheorems, FiniteSetTheorems, TLAPS

-----------------------------------------------------------------------------
(* Who holds what.                                                           *)

HeldInv ==
  /\ \A t \in Call : pc[t] \in {"block", "except", "finally"} <=> holds[t] # NoConnection
  /\ \A t \in Call : holds[t] # NoConnection => client[holds[t]] # "new"
  /\ \A t \in Call : pc[t] = "block" => client[holds[t]] = "open"
  /\ \A t \in Call : pc[t] \in {"enter", "connect"} => next[t] = 1

\* What is pending on a connection was written by the call that holds it.
PendingInv ==
  /\ \A k \in Connection : \A w \in pending[k] : holds[w[1]] = k
  /\ \A k \in Connection : client[k] # "open" \/ k \in lost => pending[k] = {}
  /\ \A k \in Connection : client[k] = "new" => tx[k] = "idle" /\ k \notin lost
  /\ \A t \in Call : pc[t] = "block" /\ holds[t] \notin lost =>
       pending[holds[t]] = {t} \X (1 .. next[t] - 1)
  /\ \A t \in Call : pc[t] = "finally" /\ client[holds[t]] = "open" =>
       tx[holds[t]] = "idle" /\ pending[holds[t]] = {}

\* What is written of a call, by the place where it is.
WrittenOf(t) ==
  /\ PartsWritten(t) \in {{}, Part}
  /\ pc[t] \in {"enter", "connect", "block", "failed"} => PartsWritten(t) = {}
  /\ pc[t] = "except" /\ client[holds[t]] = "open" => PartsWritten(t) = {}
  /\ pc[t] = "finally" /\ client[holds[t]] = "open" =>
       PartsWritten(t) = IF raised[t] THEN {} ELSE Part
  /\ pc[t] = "done" => PartsWritten(t) = Part
  /\ pc[t] \in {"enter", "connect", "block"} => ~raised[t]
  /\ pc[t] = "except" => raised[t]

WrittenInv == \A t \in Call : WrittenOf(t)

IInv == TypeOK /\ HeldInv /\ PoolIsSound /\ PendingInv /\ WrittenInv
-----------------------------------------------------------------------------
(* The pool as a sequence, the held connections as a set.                    *)

LEMMA Taking ==
  ASSUME TypeOK, PoolIsSound, pool # <<>>, pool' = SubSeq(pool, 1, Len(pool) - 1)
  PROVE  /\ pool[Len(pool)] \in Connection
         /\ client[pool[Len(pool)]] = "open"
         /\ pool[Len(pool)] \in Idle
         /\ pool' \in Seq(Connection) /\ Len(pool') <= MaxIdle
         /\ Idle' = Idle \ {pool[Len(pool)]}
         /\ \A i, j \in DOMAIN pool' : i # j => pool'[i] # pool'[j]
  <1> DEFINE n == Len(pool)
  <1>1. n \in Nat \ {0} /\ n \in DOMAIN pool /\ DOMAIN pool = 1..n /\ n <= MaxIdle
    BY EmptySeq DEF TypeOK
  <1>2. pool[n] \in Connection /\ pool[n] \in Idle /\ client[pool[n]] = "open"
    BY <1>1 DEF TypeOK, Idle, PoolIsSound, OpenAreKept
  <1>3. /\ pool' \in Seq(Connection) /\ Len(pool') = n - 1 /\ DOMAIN pool' = 1..n-1
        /\ \A i \in 1..n-1 : pool'[i] = pool[i]
    BY <1>1 DEF TypeOK
  <1>4. \A i, j \in 1..n : i # j => pool[i] # pool[j]
    BY <1>1 DEF PoolIsSound, OneUser
  <1>5. Idle' = {pool[i] : i \in 1..n-1}
    BY <1>3 DEF Idle
  <1>6. Idle = {pool[i] : i \in 1..n}
    BY <1>1 DEF Idle
  <1>7. Idle' = Idle \ {pool[n]}
    BY <1>1, <1>4, <1>5, <1>6
  <1> HIDE DEF n
  <1>8. \A i, j \in DOMAIN pool' : i # j => pool'[i] # pool'[j]
    BY <1>1, <1>3, <1>4
  <1> QED
    BY <1>1, <1>2, <1>3, <1>7, <1>8, PoolAssumption DEF n

LEMMA Putting ==
  ASSUME TypeOK, OneUser, NEW k \in Connection, k \notin Idle, pool' = Append(pool, k)
  PROVE  /\ Idle' = Idle \cup {k}
         /\ \A i, j \in DOMAIN pool' : i # j => pool'[i] # pool'[j]
  <1>1. /\ Len(pool) \in Nat /\ DOMAIN pool = 1..Len(pool)
        /\ DOMAIN pool' = 1..Len(pool) + 1
        /\ pool'[Len(pool) + 1] = k
        /\ \A i \in 1..Len(pool) : pool'[i] = pool[i]
    BY DEF TypeOK
  <1>2. 1..Len(pool) + 1 = (1..Len(pool)) \cup {Len(pool) + 1}
    BY <1>1
  <1>3. Idle' = Idle \cup {k}
    BY <1>1, <1>2 DEF Idle
  <1>4. \A i \in 1..Len(pool) : pool[i] # k
    BY <1>1 DEF Idle
  <1>5. ASSUME NEW i \in DOMAIN pool', NEW j \in DOMAIN pool', i # j
        PROVE  pool'[i] # pool'[j]
    BY <1>1, <1>2, <1>4, <1>5 DEF OneUser
  <1> QED
    BY <1>3, <1>5

LEMMA Gaining ==
  ASSUME holds \in [Call -> Connection \cup {NoConnection}], NEW t \in Call, NEW k \in Connection,
         holds[t] = NoConnection, holds' = [holds EXCEPT ![t] = k]
  PROVE  Held' = Held \cup {k}
  BY PoolAssumption DEF Held

LEMMA Losing ==
  ASSUME holds \in [Call -> Connection \cup {NoConnection}], OneUser, NEW t \in Call,
         holds[t] # NoConnection, holds' = [holds EXCEPT ![t] = NoConnection]
  PROVE  Held' = Held \ {holds[t]}
  <1>1. ASSUME NEW u \in Call, holds'[u] # NoConnection
        PROVE  u # t /\ holds'[u] = holds[u] /\ holds[u] # holds[t]
    BY <1>1 DEF OneUser
  <1>2. ASSUME NEW u \in Call, holds[u] # holds[t]
        PROVE  holds'[u] = holds[u]
    BY <1>2
  <1> QED
    BY <1>1, <1>2 DEF Held

-----------------------------------------------------------------------------
(* Type correctness.                                                         *)

LEMMA StepType ==
  ASSUME TypeOK, PoolIsSound, NEW t \in Call, Step(t)
  PROVE  TypeOK'
  <1> USE PoolAssumption
  <1> USE DEF TypeOK, Goto, Holding, Ended, connections, calls, Write, Part
  <1>1. CASE TakeIdle(t)
    BY <1>1, Taking DEF TakeIdle
  <1>2. CASE FindsPoolEmpty(t)
    BY <1>2 DEF FindsPoolEmpty
  <1>3. CASE Connect(t)
    BY <1>3 DEF Connect
  <1>4. CASE CannotConnect(t)
    BY <1>4 DEF CannotConnect
  <1>5. CASE Execute(t)
    BY <1>5 DEF Execute
  <1>6. CASE Rejected(t)
    BY <1>6 DEF Rejected, Raise
  <1>7. CASE BodyRaises(t)
    BY <1>7 DEF BodyRaises, Raise
  <1>8. CASE StatementFindsCut(t)
    BY <1>8 DEF StatementFindsCut, Raise, FindsItCut
  <1>9. CASE Commit(t)
    BY <1>9 DEF Commit, Finished, Committed
  <1>10. CASE CommitFindsCut(t)
    BY <1>10 DEF CommitFindsCut, Finished, FindsItCut, Raise
  <1>11. CASE CommitUnacknowledged(t)
    BY <1>11 DEF CommitUnacknowledged, Finished, Committed, Raise
  <1>12. CASE Rollback(t)
    BY <1>12 DEF Rollback
  <1>13. CASE RollbackFindsCut(t)
    BY <1>13 DEF RollbackFindsCut
  <1>14. CASE NothingToRollBack(t)
    BY <1>14 DEF NothingToRollBack
  <1>15. CASE Discard(t)
    BY <1>15 DEF Discard, Leave
  <1>16. CASE PutBack(t)
    BY <1>16 DEF PutBack, Leave, Outcome
  <1>17. CASE CloseSurplus(t)
    BY <1>17 DEF CloseSurplus, Leave, Outcome
  <1> QED
    BY <1>1, <1>2, <1>3, <1>4, <1>5, <1>6, <1>7, <1>8, <1>9, <1>10, <1>11, <1>12, <1>13, <1>14, <1>15, <1>16, <1>17 DEF Step

-----------------------------------------------------------------------------
(* One step of a call.                                                       *)

\* What leaves the pool and the holders alone and touches at most the
\* connection of one call.
LEMMA Touching ==
  ASSUME IInv, NEW t \in Call, UNCHANGED <<pool, holds>>,
         \A k \in Connection : k # holds[t] =>
           /\ client'[k] = client[k] /\ tx'[k] = tx[k] /\ pending'[k] = pending[k],
         holds[t] = NoConnection \/ client[holds[t]] = "open" \/ client'[holds[t]] # "open"
  PROVE  PoolIsSound'
  <1>1. Idle' = Idle /\ Held' = Held /\ DOMAIN pool' = DOMAIN pool
    BY DEF Idle, Held
  <1>2. Idle \subseteq Connection
    BY DEF IInv, TypeOK, Idle
  <1>3. holds[t] # NoConnection => holds[t] \in Held
    BY DEF Held
  <1>4. \A k \in Idle : k # holds[t]
    BY <1>2, <1>3, PoolAssumption DEF IInv, PoolIsSound, OneUser
  <1>5. OneUser'
    BY <1>1 DEF IInv, PoolIsSound, OneUser
  <1>6. PooledAreClean'
    BY <1>1, <1>2, <1>4 DEF IInv, PoolIsSound, PooledAreClean
  <1>7. ASSUME NEW k \in Connection, client'[k] = "open"
        PROVE  k \in Idle \cup Held
    <2>1. CASE k # holds[t]
      BY <1>7, <2>1 DEF IInv, PoolIsSound, OpenAreKept
    <2>2. CASE k = holds[t]
      BY <1>3, <2>2, PoolAssumption
    <2> QED
      BY <2>1, <2>2
  <1>8. \A k \in Idle : client'[k] = "open"
    BY <1>2, <1>4 DEF IInv, PoolIsSound, OpenAreKept
  <1> QED
    BY <1>1, <1>5, <1>6, <1>7, <1>8 DEF PoolIsSound, OpenAreKept

LEMMA TakePool ==
  ASSUME IInv, NEW t \in Call, TakeIdle(t)
  PROVE  PoolIsSound'
  <1> DEFINE k == pool[Len(pool)]
  <1>1. /\ k \in Connection /\ client[k] = "open" /\ k \in Idle /\ Idle' = Idle \ {k}
        /\ \A i, j \in DOMAIN pool' : i # j => pool'[i] # pool'[j]
    BY Taking DEF IInv, TakeIdle
  <1>2. /\ UNCHANGED <<client, tx, pending>> /\ pc[t] = "enter"
        /\ holds' = [holds EXCEPT ![t] = k]
    BY <1>1 DEF TakeIdle
  <1> HIDE DEF k
  <1>3. holds[t] = NoConnection /\ holds \in [Call -> Connection \cup {NoConnection}]
    BY <1>2 DEF IInv, HeldInv, TypeOK
  <1>4. Held' = Held \cup {k}
    BY <1>1, <1>2, <1>3, Gaining
  <1>5. k \notin Held
    BY <1>1 DEF IInv, PoolIsSound, OneUser
  <1>6. \A u \in Call : holds[u] # k
    BY <1>1, <1>5, PoolAssumption DEF Held
  <1>7. OneUser'
    <2>1. Held' \cap Idle' = {}
      BY <1>1, <1>4 DEF IInv, PoolIsSound, OneUser
    <2>2. \A u, v \in Call : u # v /\ holds'[u] # NoConnection => holds'[u] # holds'[v]
      BY <1>2, <1>3, <1>6 DEF IInv, PoolIsSound, OneUser
    <2> QED
      BY <1>1, <2>1, <2>2 DEF OneUser
  <1>8. OpenAreKept' /\ PooledAreClean'
    BY <1>1, <1>2, <1>4 DEF IInv, PoolIsSound, OpenAreKept, PooledAreClean
  <1> QED
    BY <1>7, <1>8 DEF PoolIsSound

LEMMA ConnectPool ==
  ASSUME IInv, NEW t \in Call, Connect(t)
  PROVE  PoolIsSound'
  <1>1. PICK k \in Connection :
          /\ client[k] = "new"
          /\ client' = [client EXCEPT ![k] = "open"]
          /\ holds' = [holds EXCEPT ![t] = k]
    BY DEF Connect
  <1>2. UNCHANGED <<pool, tx, pending>> /\ pc[t] = "connect" /\ Idle' = Idle
    BY DEF Connect, Idle
  <1>3. /\ holds[t] = NoConnection /\ holds \in [Call -> Connection \cup {NoConnection}]
        /\ client \in [Connection -> {"new", "open", "broken", "closed"}]
    BY <1>2 DEF IInv, HeldInv, TypeOK
  <1>4. Held' = Held \cup {k}
    BY <1>1, <1>3, Gaining
  <1>5. \A u \in Call : holds[u] # k
    BY <1>1, PoolAssumption DEF IInv, HeldInv
  <1>6. k \notin Idle
    BY <1>1 DEF IInv, PoolIsSound, OpenAreKept
  <1>7. OneUser'
    <2>1. Held' \cap Idle' = {}
      BY <1>2, <1>4, <1>6 DEF IInv, PoolIsSound, OneUser
    <2>2. \A u, v \in Call : u # v /\ holds'[u] # NoConnection => holds'[u] # holds'[v]
      BY <1>1, <1>3, <1>5 DEF IInv, PoolIsSound, OneUser
    <2> QED
      BY <1>2, <2>1, <2>2 DEF IInv, PoolIsSound, OneUser
  <1>8. Idle \subseteq Connection
    BY DEF IInv, TypeOK, Idle
  <1>9. OpenAreKept' /\ PooledAreClean'
    BY <1>1, <1>2, <1>3, <1>4, <1>8 DEF IInv, PoolIsSound, OpenAreKept, PooledAreClean
  <1> QED
    BY <1>7, <1>9 DEF PoolIsSound

\* The three ways out of the finally clause.
LEMMA LeavePool ==
  ASSUME IInv, NEW t \in Call, Discard(t) \/ PutBack(t) \/ CloseSurplus(t)
  PROVE  PoolIsSound'
  <1> DEFINE k == holds[t]
  <1>1. /\ k \in Connection /\ pc[t] = "finally" /\ UNCHANGED <<tx, pending>>
        /\ holds' = [holds EXCEPT ![t] = NoConnection]
    BY DEF Discard, PutBack, CloseSurplus, Leave, Holding, IInv, TypeOK
  <1>2. /\ holds \in [Call -> Connection \cup {NoConnection}] /\ k # NoConnection
        /\ client \in [Connection -> {"new", "open", "broken", "closed"}]
        /\ Idle \subseteq Connection
    BY <1>1, PoolAssumption DEF IInv, TypeOK, Idle
  <1>3. Held' = Held \ {k} /\ k \in Held
    BY <1>1, <1>2, Losing DEF IInv, PoolIsSound, Held
  <1>4. k \notin Idle
    BY <1>3 DEF IInv, PoolIsSound, OneUser
  <1>5. \A u, v \in Call : u # v /\ holds'[u] # NoConnection => holds'[u] # holds'[v]
    BY <1>1, <1>2 DEF IInv, PoolIsSound, OneUser
  <1>6. CASE client' = [client EXCEPT ![k] = "closed"] /\ pool' = pool
    <2>1. Idle' = Idle /\ OneUser'
      BY <1>3, <1>5, <1>6 DEF IInv, PoolIsSound, OneUser, Idle
    <2>2. OpenAreKept' /\ PooledAreClean'
      BY <1>1, <1>2, <1>3, <1>4, <1>6, <2>1 DEF IInv, PoolIsSound, OpenAreKept, PooledAreClean
    <2> QED
      BY <2>1, <2>2 DEF PoolIsSound
  <1>7. CASE PutBack(t)
    <2>1. client[k] = "open" /\ client' = client /\ pool' = Append(pool, k)
      BY <1>7 DEF PutBack
    <2>2. tx[k] = "idle" /\ pending[k] = {}
      BY <1>1, <2>1 DEF IInv, PendingInv
    <2>3. /\ Idle' = Idle \cup {k}
          /\ \A i, j \in DOMAIN pool' : i # j => pool'[i] # pool'[j]
      BY <1>1, <1>4, <2>1, Putting DEF IInv, PoolIsSound
    <2>4. OneUser'
      BY <1>3, <1>5, <2>3 DEF IInv, PoolIsSound, OneUser
    <2>5. OpenAreKept' /\ PooledAreClean'
      BY <1>1, <1>3, <2>1, <2>2, <2>3 DEF IInv, PoolIsSound, OpenAreKept, PooledAreClean
    <2> QED
      BY <2>4, <2>5 DEF PoolIsSound
  <1> QED
    BY <1>6, <1>7 DEF Discard, CloseSurplus

LEMMA StepPool ==
  ASSUME IInv, NEW t \in Call, Step(t)
  PROVE  PoolIsSound'
  <1> USE DEF IInv, TypeOK, Holding, connections
  <1>1. CASE TakeIdle(t)
    BY <1>1, TakePool
  <1>2. CASE FindsPoolEmpty(t)
    BY <1>2, Touching DEF FindsPoolEmpty
  <1>3. CASE Connect(t)
    BY <1>3, ConnectPool
  <1>4. CASE CannotConnect(t)
    BY <1>4, Touching DEF CannotConnect
  <1>5. CASE Execute(t)
    BY <1>5, Touching DEF Execute
  <1>6. CASE Rejected(t)
    BY <1>6, Touching DEF Rejected, Raise
  <1>7. CASE BodyRaises(t)
    BY <1>7, Touching DEF BodyRaises, Raise
  <1>8. CASE StatementFindsCut(t)
    BY <1>8, Touching DEF StatementFindsCut, Raise, FindsItCut
  <1>9. CASE Commit(t)
    BY <1>9, Touching DEF Commit, Finished, Committed
  <1>10. CASE CommitFindsCut(t)
    BY <1>10, Touching DEF CommitFindsCut, Finished, FindsItCut, Raise
  <1>11. CASE CommitUnacknowledged(t)
    BY <1>11, Touching DEF CommitUnacknowledged, Finished, Committed, Raise
  <1>12. CASE Rollback(t)
    BY <1>12, Touching DEF Rollback
  <1>13. CASE RollbackFindsCut(t)
    BY <1>13, Touching DEF RollbackFindsCut
  <1>14. CASE NothingToRollBack(t)
    BY <1>14, Touching DEF NothingToRollBack
  <1>15. CASE Discard(t)
    BY <1>15, LeavePool
  <1>16. CASE PutBack(t)
    BY <1>16, LeavePool
  <1>17. CASE CloseSurplus(t)
    BY <1>17, LeavePool
  <1> QED
    BY <1>1, <1>2, <1>3, <1>4, <1>5, <1>6, <1>7, <1>8, <1>9, <1>10, <1>11, <1>12, <1>13, <1>14, <1>15, <1>16, <1>17 DEF Step

\* Both ways to a connection: it is open, nobody holds it, and nothing is on it.
LEMMA Obtaining ==
  ASSUME IInv, NEW t \in Call, TakeIdle(t) \/ Connect(t)
  PROVE  \E k \in Connection :
           /\ \A u \in Call : holds[u] # k
           /\ client[k] # "closed" /\ pending[k] = {} /\ tx[k] = "idle"
           /\ pc[t] \in {"enter", "connect"}
           /\ client' = [client EXCEPT ![k] = "open"]
           /\ holds' = [holds EXCEPT ![t] = k]
           /\ pc' = [pc EXCEPT ![t] = "block"]
           /\ UNCHANGED <<tx, pending, lost, written, next, raised>>
  <1>1. CASE TakeIdle(t)
    <2> DEFINE k == pool[Len(pool)]
    <2>1. k \in Connection /\ client[k] = "open" /\ k \in Idle
      BY <1>1, Taking DEF IInv, TakeIdle
    <2>2. /\ UNCHANGED <<client, tx, pending, lost, written, next, raised>> /\ pc[t] = "enter"
          /\ holds' = [holds EXCEPT ![t] = k] /\ pc' = [pc EXCEPT ![t] = "block"]
      BY <1>1, <2>1 DEF TakeIdle, Goto
    <2> HIDE DEF k
    <2>3. client' = [client EXCEPT ![k] = "open"]
      BY <2>1, <2>2 DEF IInv, TypeOK
    <2>4. \A u \in Call : holds[u] # k
      BY <2>1, PoolAssumption DEF IInv, PoolIsSound, OneUser, Held
    <2>5. pending[k] = {} /\ tx[k] = "idle"
      BY <2>1 DEF IInv, PoolIsSound, PooledAreClean
    <2> QED
      BY <2>1, <2>2, <2>3, <2>4, <2>5
  <1>2. CASE Connect(t)
    <2>1. PICK k \in Connection :
            /\ client[k] = "new"
            /\ client' = [client EXCEPT ![k] = "open"]
            /\ holds' = [holds EXCEPT ![t] = k]
      BY <1>2 DEF Connect
    <2>2. \A u \in Call : holds[u] # k
      BY <2>1, PoolAssumption DEF IInv, HeldInv
    <2>3. pending[k] = {} /\ tx[k] = "idle"
      BY <2>1 DEF IInv, PendingInv
    <2> QED
      BY <1>2, <2>1, <2>2, <2>3 DEF Connect, Goto
  <1> QED
    BY <1>1, <1>2

LEMMA ObtainingInv ==
  ASSUME IInv, NEW t \in Call, TakeIdle(t) \/ Connect(t)
  PROVE  HeldInv' /\ PendingInv' /\ WrittenInv'
  <1>1. PICK k \in Connection :
           /\ \A u \in Call : holds[u] # k
           /\ client[k] # "closed" /\ pending[k] = {} /\ tx[k] = "idle"
           /\ pc[t] \in {"enter", "connect"}
           /\ client' = [client EXCEPT ![k] = "open"]
           /\ holds' = [holds EXCEPT ![t] = k]
           /\ pc' = [pc EXCEPT ![t] = "block"]
           /\ UNCHANGED <<tx, pending, lost, written, next, raised>>
    BY Obtaining
  <1>2. /\ pc' \in [Call -> {"enter", "connect", "block", "except", "finally"} \cup Ended]
        /\ holds' \in [Call -> Connection \cup {NoConnection}]
        /\ pc'[t] = "block" /\ holds'[t] = k /\ client'[k] = "open"
        /\ \A u \in Call \ {t} : pc'[u] = pc[u] /\ holds'[u] = holds[u]
        /\ \A j \in Connection \ {k} : client'[j] = client[j]
        /\ next[t] = 1 /\ k # NoConnection /\ holds[t] = NoConnection
    BY <1>1, PoolAssumption DEF IInv, TypeOK, HeldInv
  <1>3. \A u \in Call \ {t} : holds'[u] = holds[u] /\ client'[holds[u]] = client[holds[u]]
    BY <1>1, <1>2 DEF IInv, TypeOK
  <1>4. HeldInv'
    BY <1>1, <1>2, <1>3 DEF IInv, HeldInv
  <1>5. PendingInv'
    <2>1. \A j \in Connection : \A w \in pending[j] : j # k /\ w[1] \in Call \ {t} /\ holds'[w[1]] = j
      <3> TAKE j \in Connection
      <3> TAKE w \in pending[j]
      <3>1. w \in Call \X Part /\ holds[w[1]] = j
        BY DEF IInv, TypeOK, PendingInv, Write
      <3>2. w[1] \in Call /\ w[1] # t /\ j # k
        BY <1>1, <1>2, <3>1, PoolAssumption
      <3> QED
        BY <1>2, <3>1, <3>2
    <2>2. pending[k] = {t} \X (1 .. next[t] - 1)
      BY <1>1, <1>2
    <2>3. \A j \in Connection : client'[j] # "open" \/ j \in lost => pending[j] = {}
      BY <1>1, <1>2 DEF IInv, PendingInv
    <2>4. \A j \in Connection : client'[j] = "new" => tx[j] = "idle" /\ j \notin lost
      BY <1>1, <1>2 DEF IInv, PendingInv
    <2> QED
      BY <1>1, <1>2, <1>3, <2>1, <2>2, <2>3, <2>4 DEF IInv, PendingInv
  <1>6. WrittenInv'
    BY <1>1, <1>2, <1>3 DEF IInv, WrittenInv, WrittenOf, PartsWritten
  <1> QED
    BY <1>4, <1>5, <1>6

\* A commit writes all of its own call's parts, and of no other.
LEMMA Committing ==
  ASSUME IInv, NEW t \in Call, Finished(t), holds[t] \notin lost, Committed(holds[t])
  PROVE  /\ PartsWritten(t)' = Part
         /\ \A u \in Call \ {t} : PartsWritten(u)' = PartsWritten(u)
  <1>1. pending[holds[t]] = {t} \X Part
    BY PoolAssumption DEF IInv, TypeOK, PendingInv, Finished, Holding, Part
  <1>2. written' = written \cup ({t} \X Part)
    BY <1>1 DEF Committed
  <1> QED
    BY <1>2 DEF PartsWritten

LEMMA StepHeld ==
  ASSUME IInv, NEW t \in Call, Step(t)
  PROVE  HeldInv'
  <1>0. \A u \in Call : u # t /\ holds[t] # NoConnection => holds[u] # holds[t]
    BY DEF IInv, PoolIsSound, OneUser
  <1> USE DEF IInv, TypeOK, HeldInv, Goto, Holding, Ended, connections, calls
  <1>1. CASE TakeIdle(t)
    BY <1>1, ObtainingInv
  <1>2. CASE FindsPoolEmpty(t)
    BY <1>2 DEF FindsPoolEmpty
  <1>3. CASE Connect(t)
    BY <1>3, ObtainingInv
  <1>4. CASE CannotConnect(t)
    BY <1>4 DEF CannotConnect
  <1>5. CASE Execute(t)
    BY <1>5 DEF Execute
  <1>6. CASE Rejected(t)
    BY <1>6 DEF Rejected, Raise
  <1>7. CASE BodyRaises(t)
    BY <1>7 DEF BodyRaises, Raise
  <1>8. CASE StatementFindsCut(t)
    BY <1>0, <1>8 DEF StatementFindsCut, Raise, FindsItCut
  <1>9. CASE Commit(t)
    BY <1>9 DEF Commit, Finished, Committed
  <1>10. CASE CommitFindsCut(t)
    BY <1>0, <1>10 DEF CommitFindsCut, Finished, FindsItCut, Raise
  <1>11. CASE CommitUnacknowledged(t)
    BY <1>0, <1>11 DEF CommitUnacknowledged, Finished, Committed, Raise
  <1>12. CASE Rollback(t)
    BY <1>12 DEF Rollback
  <1>13. CASE RollbackFindsCut(t)
    BY <1>0, <1>13 DEF RollbackFindsCut
  <1>14. CASE NothingToRollBack(t)
    BY <1>14 DEF NothingToRollBack
  <1>15. CASE Discard(t)
    BY <1>15 DEF Discard, Leave
  <1>16. CASE PutBack(t)
    BY <1>16 DEF PutBack, Leave, Outcome
  <1>17. CASE CloseSurplus(t)
    BY <1>0, <1>17 DEF CloseSurplus, Leave, Outcome
  <1> QED
    BY <1>1, <1>2, <1>3, <1>4, <1>5, <1>6, <1>7, <1>8, <1>9, <1>10, <1>11, <1>12, <1>13, <1>14, <1>15, <1>16, <1>17 DEF Step

LEMMA StepPending ==
  ASSUME IInv, NEW t \in Call, Step(t)
  PROVE  PendingInv'
  <1> USE DEF IInv, TypeOK, HeldInv, PoolIsSound, OneUser, OpenAreKept, PooledAreClean, Idle, Held, PendingInv, Goto, Holding, Ended, connections, calls
  <1>1. CASE TakeIdle(t)
    BY <1>1, ObtainingInv
  <1>2. CASE FindsPoolEmpty(t)
    BY <1>2 DEF FindsPoolEmpty
  <1>3. CASE Connect(t)
    BY <1>3, ObtainingInv
  <1>4. CASE CannotConnect(t)
    BY <1>4 DEF CannotConnect
  <1>5. CASE Execute(t)
    BY <1>5 DEF Execute
  <1>6. CASE Rejected(t)
    BY <1>6 DEF Rejected, Raise
  <1>7. CASE BodyRaises(t)
    BY <1>7 DEF BodyRaises, Raise
  <1>8. CASE StatementFindsCut(t)
    BY <1>8 DEF StatementFindsCut, Raise, FindsItCut
  <1>9. CASE Commit(t)
    BY <1>9 DEF Commit, Finished, Committed
  <1>10. CASE CommitFindsCut(t)
    BY <1>10 DEF CommitFindsCut, Finished, FindsItCut, Raise
  <1>11. CASE CommitUnacknowledged(t)
    BY <1>11 DEF CommitUnacknowledged, Finished, Committed, Raise
  <1>12. CASE Rollback(t)
    BY <1>12 DEF Rollback
  <1>13. CASE RollbackFindsCut(t)
    BY <1>13 DEF RollbackFindsCut
  <1>14. CASE NothingToRollBack(t)
    BY <1>14 DEF NothingToRollBack
  <1>15. CASE Discard(t)
    BY <1>15 DEF Discard, Leave
  <1>16. CASE PutBack(t)
    BY <1>16 DEF PutBack, Leave, Outcome
  <1>17. CASE CloseSurplus(t)
    BY <1>17 DEF CloseSurplus, Leave, Outcome
  <1> QED
    BY <1>1, <1>2, <1>3, <1>4, <1>5, <1>6, <1>7, <1>8, <1>9, <1>10, <1>11, <1>12, <1>13, <1>14, <1>15, <1>16, <1>17 DEF Step

\* A step of t leaves the other calls where they are.
LEMMA Others ==
  ASSUME IInv, NEW t \in Call, Step(t), ~TakeIdle(t), ~Connect(t), NEW u \in Call \ {t}
  PROVE  WrittenOf(u)'
  <1>1. holds[t] # NoConnection => holds[u] # holds[t]
    BY DEF IInv, PoolIsSound, OneUser
  <1>2. /\ pc'[u] = pc[u] /\ holds'[u] = holds[u] /\ raised'[u] = raised[u]
        /\ holds[u] # NoConnection => client'[holds[u]] = client[holds[u]]
    <2> USE <1>1 DEF IInv, TypeOK, Goto, Raise, Holding, connections, calls
    <2>1. CASE FindsPoolEmpty(t)
      BY <2>1 DEF FindsPoolEmpty
    <2>2. CASE CannotConnect(t)
      BY <2>2 DEF CannotConnect
    <2>3. CASE Execute(t)
      BY <2>3 DEF Execute
    <2>4. CASE Rejected(t)
      BY <2>4 DEF Rejected
    <2>5. CASE BodyRaises(t)
      BY <2>5 DEF BodyRaises
    <2>6. CASE StatementFindsCut(t)
      BY <2>6 DEF StatementFindsCut, FindsItCut
    <2>7. CASE Commit(t)
      BY <2>7 DEF Commit, Finished, Committed
    <2>8. CASE CommitFindsCut(t)
      BY <2>8 DEF CommitFindsCut, Finished, FindsItCut
    <2>9. CASE CommitUnacknowledged(t)
      BY <2>9 DEF CommitUnacknowledged, Finished, Committed
    <2>10. CASE Rollback(t)
      BY <2>10 DEF Rollback
    <2>11. CASE RollbackFindsCut(t)
      BY <2>11 DEF RollbackFindsCut
    <2>12. CASE NothingToRollBack(t)
      BY <2>12 DEF NothingToRollBack
    <2>13. CASE Discard(t)
      BY <2>13 DEF Discard, Leave
    <2>14. CASE PutBack(t)
      BY <2>14 DEF PutBack, Leave, Outcome
    <2>15. CASE CloseSurplus(t)
      BY <2>15 DEF CloseSurplus, Leave, Outcome
    <2> QED
      BY <2>1, <2>2, <2>3, <2>4, <2>5, <2>6, <2>7, <2>8, <2>9, <2>10, <2>11, <2>12, <2>13, <2>14, <2>15 DEF Step
  <1>3. PartsWritten(u)' = PartsWritten(u)
    BY Committing DEF Step, FindsPoolEmpty, CannotConnect, Execute, Rejected, BodyRaises,
      StatementFindsCut, Commit, CommitFindsCut, CommitUnacknowledged, Rollback,
      RollbackFindsCut, NothingToRollBack, Discard, PutBack, CloseSurplus, Leave, PartsWritten
  <1>4. pc[u] \in {"block", "except", "finally"} => holds[u] # NoConnection
    BY DEF IInv, HeldInv
  <1>5. WrittenOf(u)
    BY DEF IInv, WrittenInv
  <1> QED
    BY <1>2, <1>3, <1>4, <1>5 DEF WrittenOf

LEMMA StepWritten ==
  ASSUME IInv, NEW t \in Call, Step(t)
  PROVE  WrittenInv'
  <1>0. ASSUME ~TakeIdle(t), ~Connect(t), WrittenOf(t)'
        PROVE  WrittenInv'
    BY <1>0, Others DEF WrittenInv
  <1>a. WrittenOf(t) /\ (pc[t] = "block" => client[holds[t]] = "open")
    BY DEF IInv, WrittenInv, HeldInv
  <1>b. ASSUME ~TakeIdle(t), ~Connect(t)
        PROVE  WrittenOf(t)'
    <2> USE <1>a, <1>b DEF IInv, TypeOK, Goto, Holding, Ended, WrittenOf, PartsWritten, connections, calls
    <2>1. CASE FindsPoolEmpty(t)
      BY <2>1 DEF FindsPoolEmpty
    <2>2. CASE CannotConnect(t)
      BY <2>2 DEF CannotConnect
    <2>3. CASE Execute(t)
      BY <2>3 DEF Execute
    <2>4. CASE Rejected(t)
      BY <2>4 DEF Rejected, Raise
    <2>5. CASE BodyRaises(t)
      BY <2>5 DEF BodyRaises, Raise
    <2>6. CASE StatementFindsCut(t)
      BY <2>6 DEF StatementFindsCut, Raise, FindsItCut
    <2>7. CASE Commit(t)
      BY <2>7, Committing DEF Commit, Finished
    <2>8. CASE CommitFindsCut(t)
      BY <2>8 DEF CommitFindsCut, Finished, FindsItCut, Raise
    <2>9. CASE CommitUnacknowledged(t)
      BY <2>9, Committing DEF CommitUnacknowledged, Finished, Raise
    <2>10. CASE Rollback(t)
      BY <2>10 DEF Rollback
    <2>11. CASE RollbackFindsCut(t)
      BY <2>11 DEF RollbackFindsCut
    <2>12. CASE NothingToRollBack(t)
      BY <2>12 DEF NothingToRollBack
    <2>13. CASE Discard(t)
      BY <2>13 DEF Discard, Leave
    <2>14. CASE PutBack(t)
      BY <2>14 DEF PutBack, Leave, Outcome
    <2>15. CASE CloseSurplus(t)
      BY <2>15 DEF CloseSurplus, Leave, Outcome
    <2> QED
      BY <2>1, <2>2, <2>3, <2>4, <2>5, <2>6, <2>7, <2>8, <2>9, <2>10, <2>11, <2>12, <2>13, <2>14, <2>15 DEF Step
  <1> QED
    BY <1>0, <1>b, ObtainingInv

-----------------------------------------------------------------------------
(* The invariant.                                                            *)

LEMMA CutInv ==
  ASSUME IInv, NEW k \in Connection, Cut(k)
  PROVE  IInv'
  <1>1. /\ client[k] = "open" /\ lost' = lost \cup {k}
        /\ pending' = [pending EXCEPT ![k] = {}]
        /\ UNCHANGED <<pool, client, tx, written, calls, faults>>
        /\ cuts < MaxCuts /\ cuts' = cuts + 1
    BY DEF Cut
  <1>2. TypeOK'
    BY <1>1, PoolAssumption DEF IInv, TypeOK, calls
  <1>3. HeldInv' /\ WrittenInv'
    BY <1>1 DEF IInv, HeldInv, WrittenInv, WrittenOf, PartsWritten, calls
  <1>4. PoolIsSound'
    <2>1. Idle' = Idle /\ Held' = Held
      BY <1>1 DEF Idle, Held, calls
    <2>2. Idle \subseteq Connection
      BY DEF IInv, TypeOK, Idle
    <2>3. PooledAreClean'
      BY <1>1, <2>1, <2>2 DEF IInv, TypeOK, PoolIsSound, PooledAreClean
    <2>4. OneUser' /\ OpenAreKept'
      BY <1>1, <2>1 DEF IInv, PoolIsSound, OneUser, OpenAreKept, calls
    <2> QED
      BY <2>3, <2>4 DEF PoolIsSound
  <1>5. \A j \in Connection : pending'[j] = IF j = k THEN {} ELSE pending[j]
    BY <1>1 DEF IInv, TypeOK
  <1>6. \A t \in Call : pc[t] \in {"block", "finally"} => holds[t] \in Connection
    BY DEF IInv, TypeOK, HeldInv
  <1>7. PendingInv'
    BY <1>1, <1>5, <1>6 DEF IInv, PendingInv, calls
  <1> QED
    BY <1>2, <1>3, <1>4, <1>7 DEF IInv

LEMMA InitInv == Init => IInv
  <1> SUFFICES ASSUME Init PROVE IInv
    OBVIOUS
  <1>1. TypeOK
    BY PoolAssumption DEF Init, TypeOK, Part
  <1>2. HeldInv /\ PendingInv
    BY DEF Init, HeldInv, PendingInv
  <1>3. PoolIsSound
    BY DEF Init, PoolIsSound, OneUser, OpenAreKept, PooledAreClean, Idle, Held
  <1>4. WrittenInv
    BY DEF Init, WrittenInv, WrittenOf, PartsWritten
  <1> QED
    BY <1>1, <1>2, <1>3, <1>4 DEF IInv

LEMMA NextInv == IInv /\ [Next]_vars => IInv'
  <1> SUFFICES ASSUME IInv, [Next]_vars PROVE IInv'
    OBVIOUS
  <1>1. CASE \E t \in Call : Step(t)
    BY <1>1, StepType, StepHeld, StepPool, StepPending, StepWritten DEF IInv
  <1>2. CASE \E k \in Connection : Cut(k)
    BY <1>2, CutInv
  <1>3. CASE UNCHANGED vars
    <2> USE <1>3 DEF vars, connections, calls, IInv
    <2>1. TypeOK' /\ HeldInv' /\ PendingInv'
      BY DEF TypeOK, HeldInv, PendingInv
    <2>2. PoolIsSound'
      BY DEF PoolIsSound, OneUser, OpenAreKept, PooledAreClean, Idle, Held
    <2>3. WrittenInv'
      BY DEF WrittenInv, WrittenOf, PartsWritten
    <2> QED
      BY <2>1, <2>2, <2>3
  <1> QED
    BY <1>1, <1>2, <1>3 DEF Next

\* The pool, its connections and its calls are well formed, and never more than
\* MaxIdle connections lie in the pool.
THEOREM TypeCorrect == Spec => []TypeOK
  <1>1. IInv => TypeOK
    BY DEF IInv
  <1> QED
    BY <1>1, InitInv, NextInv, PTL DEF Spec

\* The pool is sound, however calls interleave and whatever is cut: a connection
\* has one user, no open one is leaked, none that broke is handed out again, and
\* nothing is left on one that lies in the pool.
THEOREM PoolStaysSound == Spec => []PoolIsSound
  <1>1. IInv => PoolIsSound
    BY DEF IInv
  <1> QED
    BY <1>1, InitInv, NextInv, PTL DEF Spec

\* A block is committed as a whole or not at all, and what its caller is told of
\* it is true.
THEOREM CallsAreAtomic == Spec => []BlocksAreAtomic
  <1>1. IInv => BlocksAreAtomic
    BY DEF IInv, WrittenInv, WrittenOf, BlocksAreAtomic
  <1> QED
    BY <1>1, InitInv, NextInv, PTL DEF Spec

-----------------------------------------------------------------------------
(* What a cut costs.  A swallowed call leaves behind a connection that was   *)
(* cut, is closed and has no holder, a different one each.                   *)

Swallowed == {t \in Call : pc[t] = "swallowed"}
Spent     == {k \in lost : client[k] = "closed" /\ k \notin Held}

HeldAreLost == \A t \in Call : holds[t] # NoConnection /\ client[holds[t]] # "open" => holds[t] \in lost

CostInv ==
  /\ HeldAreLost
  /\ IsFiniteSet(lost) /\ Cardinality(lost) = cuts
  /\ IsFiniteSet(Swallowed) /\ Cardinality(Swallowed) <= Cardinality(Spent)

LEMMA StepHeldAreLost ==
  ASSUME IInv, HeldAreLost, NEW t \in Call, Step(t)
  PROVE  HeldAreLost'
  <1>1. CASE TakeIdle(t) \/ Connect(t)
    BY <1>1, Obtaining DEF IInv, TypeOK, HeldAreLost
  <1>2. CASE ~TakeIdle(t) /\ ~Connect(t)
    <2>0. \A u \in Call : u # t /\ holds[t] # NoConnection => holds[u] # holds[t]
      BY DEF IInv, PoolIsSound, OneUser
    <2> USE <1>2, <2>0 DEF IInv, TypeOK, HeldAreLost, Holding, connections, calls
    <2>1. CASE FindsPoolEmpty(t)
      BY <2>1 DEF FindsPoolEmpty
    <2>2. CASE CannotConnect(t)
      BY <2>2 DEF CannotConnect
    <2>3. CASE Execute(t)
      BY <2>3 DEF Execute
    <2>4. CASE Rejected(t)
      BY <2>4 DEF Rejected, Raise
    <2>5. CASE BodyRaises(t)
      BY <2>5 DEF BodyRaises, Raise
    <2>6. CASE StatementFindsCut(t)
      BY <2>6 DEF StatementFindsCut, Raise, FindsItCut
    <2>7. CASE Commit(t)
      BY <2>7 DEF Commit, Finished, Committed
    <2>8. CASE CommitFindsCut(t)
      BY <2>8 DEF CommitFindsCut, Finished, FindsItCut, Raise
    <2>9. CASE CommitUnacknowledged(t)
      BY <2>9 DEF CommitUnacknowledged, Finished, Committed, Raise
    <2>10. CASE Rollback(t)
      BY <2>10 DEF Rollback
    <2>11. CASE RollbackFindsCut(t)
      BY <2>11 DEF RollbackFindsCut
    <2>12. CASE NothingToRollBack(t)
      BY <2>12 DEF NothingToRollBack
    <2>13. CASE Discard(t)
      BY <2>13 DEF Discard, Leave
    <2>14. CASE PutBack(t)
      BY <2>14 DEF PutBack, Leave, Outcome
    <2>15. CASE CloseSurplus(t)
      BY <2>15 DEF CloseSurplus, Leave, Outcome
    <2> QED
      BY <2>1, <2>2, <2>3, <2>4, <2>5, <2>6, <2>7, <2>8, <2>9, <2>10, <2>11, <2>12, <2>13, <2>14, <2>15 DEF Step
  <1> QED
    BY <1>1, <1>2

\* A closed connection stays closed, and is not taken up again.
LEMMA ClosedStays ==
  ASSUME IInv, NEW t \in Call, Step(t)
  PROVE  /\ \A k \in Connection : client[k] = "closed" => client'[k] = "closed"
         /\ \A u \in Call : holds'[u] \in {holds[u], NoConnection} \/ client[holds'[u]] # "closed"
         /\ lost \subseteq lost'
  <1>1. CASE TakeIdle(t) \/ Connect(t)
    BY <1>1, Obtaining DEF IInv, TypeOK
  <1>2. CASE ~TakeIdle(t) /\ ~Connect(t)
    <2>0. holds[t] # NoConnection /\ pc[t] = "block" => client[holds[t]] = "open"
      BY DEF IInv, HeldInv
    <2> USE <1>2, <2>0 DEF IInv, TypeOK, Holding, connections, calls
    <2>1. CASE FindsPoolEmpty(t)
      BY <2>1 DEF FindsPoolEmpty
    <2>2. CASE CannotConnect(t)
      BY <2>2 DEF CannotConnect
    <2>3. CASE Execute(t)
      BY <2>3 DEF Execute
    <2>4. CASE Rejected(t)
      BY <2>4 DEF Rejected, Raise
    <2>5. CASE BodyRaises(t)
      BY <2>5 DEF BodyRaises, Raise
    <2>6. CASE StatementFindsCut(t)
      BY <2>6 DEF StatementFindsCut, Raise, FindsItCut
    <2>7. CASE Commit(t)
      BY <2>7 DEF Commit, Finished, Committed
    <2>8. CASE CommitFindsCut(t)
      BY <2>8 DEF CommitFindsCut, Finished, FindsItCut, Raise
    <2>9. CASE CommitUnacknowledged(t)
      BY <2>9 DEF CommitUnacknowledged, Finished, Committed, Raise
    <2>10. CASE Rollback(t)
      BY <2>10 DEF Rollback
    <2>11. CASE RollbackFindsCut(t)
      BY <2>11 DEF RollbackFindsCut
    <2>12. CASE NothingToRollBack(t)
      BY <2>12 DEF NothingToRollBack
    <2>13. CASE Discard(t)
      BY <2>13 DEF Discard, Leave
    <2>14. CASE PutBack(t)
      BY <2>14 DEF PutBack, Leave, Outcome
    <2>15. CASE CloseSurplus(t)
      BY <2>15 DEF CloseSurplus, Leave, Outcome
    <2> QED
      BY <2>1, <2>2, <2>3, <2>4, <2>5, <2>6, <2>7, <2>8, <2>9, <2>10, <2>11, <2>12, <2>13, <2>14, <2>15 DEF Step
  <1> QED
    BY <1>1, <1>2

LEMMA SpentStays ==
  ASSUME IInv, NEW t \in Call, Step(t)
  PROVE  Spent \subseteq Spent'
  <1> SUFFICES ASSUME NEW k \in Spent PROVE k \in Spent'
    OBVIOUS
  <1>1. k \in Connection /\ k \in lost /\ client[k] = "closed" /\ k \notin Held
    BY DEF Spent, IInv, TypeOK
  <1>2. k \in lost' /\ client'[k] = "closed"
    BY <1>1, ClosedStays
  <1>3. ASSUME NEW u \in Call, holds'[u] = k PROVE FALSE
    BY <1>1, <1>3, ClosedStays, PoolAssumption DEF Held
  <1> QED
    BY <1>2, <1>3 DEF Spent, Held

\* lost grows with cuts, and calls are swallowed in Discard only.
LEMMA CostCounts ==
  ASSUME IInv, NEW t \in Call, Step(t)
  PROVE  /\ \/ lost' = lost /\ cuts' = cuts
            \/ \E k \in Connection \ lost : lost' = lost \cup {k} /\ cuts' = cuts + 1
         /\ ~Discard(t) => Swallowed' = Swallowed
  <1>1. CASE TakeIdle(t) \/ Connect(t)
    BY <1>1 DEF TakeIdle, Connect, Goto, IInv, TypeOK, Swallowed
  <1>2. CASE ~TakeIdle(t) /\ ~Connect(t)
    <2> USE <1>2 DEF IInv, TypeOK, Holding, Goto, Swallowed, connections, calls
    <2>1. CASE FindsPoolEmpty(t)
      BY <2>1 DEF FindsPoolEmpty
    <2>2. CASE CannotConnect(t)
      BY <2>2 DEF CannotConnect
    <2>3. CASE Execute(t)
      BY <2>3 DEF Execute
    <2>4. CASE Rejected(t)
      BY <2>4 DEF Rejected, Raise
    <2>5. CASE BodyRaises(t)
      BY <2>5 DEF BodyRaises, Raise
    <2>6. CASE StatementFindsCut(t)
      BY <2>6 DEF StatementFindsCut, Raise, FindsItCut
    <2>7. CASE Commit(t)
      BY <2>7 DEF Commit, Finished, Committed
    <2>8. CASE CommitFindsCut(t)
      BY <2>8 DEF CommitFindsCut, Finished, FindsItCut, Raise
    <2>9. CASE CommitUnacknowledged(t)
      BY <2>9 DEF CommitUnacknowledged, Finished, Committed, Raise
    <2>10. CASE Rollback(t)
      BY <2>10 DEF Rollback
    <2>11. CASE RollbackFindsCut(t)
      BY <2>11 DEF RollbackFindsCut
    <2>12. CASE NothingToRollBack(t)
      BY <2>12 DEF NothingToRollBack
    <2>13. CASE Discard(t)
      BY <2>13 DEF Discard, Leave
    <2>14. CASE PutBack(t)
      BY <2>14 DEF PutBack, Leave, Outcome
    <2>15. CASE CloseSurplus(t)
      BY <2>15 DEF CloseSurplus, Leave, Outcome
    <2> QED
      BY <2>1, <2>2, <2>3, <2>4, <2>5, <2>6, <2>7, <2>8, <2>9, <2>10, <2>11, <2>12, <2>13, <2>14, <2>15 DEF Step
  <1> QED
    BY <1>1, <1>2

LEMMA DiscardCosts ==
  ASSUME IInv, HeldAreLost, NEW t \in Call, Discard(t)
  PROVE  /\ Swallowed' = Swallowed \cup {t} /\ t \notin Swallowed
         /\ holds[t] \in Spent' /\ holds[t] \notin Spent
  <1>1. /\ holds[t] \in Connection /\ holds[t] # NoConnection /\ client[holds[t]] # "open"
        /\ pc[t] = "finally" /\ pc' = [pc EXCEPT ![t] = "swallowed"]
        /\ client' = [client EXCEPT ![holds[t]] = "closed"] /\ lost' = lost
        /\ holds' = [holds EXCEPT ![t] = NoConnection]
    BY DEF Discard, Holding, Leave, Goto, IInv, TypeOK
  <1>2. holds[t] \in Held /\ holds[t] \in lost
    BY <1>1 DEF Held, HeldAreLost
  <1>3. Held' = Held \ {holds[t]}
    BY <1>1, Losing DEF IInv, TypeOK, PoolIsSound
  <1> QED
    BY <1>1, <1>2, <1>3 DEF IInv, TypeOK, Spent, Swallowed

LEMMA NextCost == IInv /\ CostInv /\ [Next]_vars => CostInv'
  <1> SUFFICES ASSUME IInv, CostInv, [Next]_vars PROVE CostInv'
    OBVIOUS
  <1>1. /\ cuts \in Nat /\ IsFiniteSet(Spent) /\ Cardinality(Spent) \in Nat
        /\ Cardinality(Swallowed) \in Nat
    BY FS_Subset, FS_CardinalityType DEF CostInv, IInv, TypeOK, Spent
  <1>2. ASSUME NEW k \in Connection \ lost, lost' = lost \cup {k}, cuts' = cuts + 1
        PROVE  IsFiniteSet(lost') /\ Cardinality(lost') = cuts'
    BY <1>2, FS_AddElement DEF CostInv
  <1>3. ASSUME NEW t \in Call, Step(t) PROVE CostInv'
    <2>1. HeldAreLost'
      BY <1>3, StepHeldAreLost DEF CostInv
    <2>2. IsFiniteSet(lost') /\ Cardinality(lost') = cuts'
      BY <1>2, <1>3, CostCounts DEF CostInv
    <2>3. IsFiniteSet(Spent') /\ Cardinality(Spent') \in Nat
      BY <2>2, FS_Subset, FS_CardinalityType DEF Spent
    <2>4. Spent \subseteq Spent'
      BY <1>3, SpentStays
    <2>5. CASE ~Discard(t)
      <3>1. Cardinality(Spent) <= Cardinality(Spent')
        BY <2>3, <2>4, FS_Subset
      <3>2. Swallowed' = Swallowed
        BY <1>3, <2>5, CostCounts
      <3> QED
        BY <1>1, <2>1, <2>2, <2>3, <3>1, <3>2 DEF CostInv
    <2>6. CASE Discard(t)
      <3>1. /\ Swallowed' = Swallowed \cup {t} /\ t \notin Swallowed
            /\ holds[t] \in Spent' /\ holds[t] \notin Spent
        BY <2>6, DiscardCosts DEF CostInv
      <3>2. IsFiniteSet(Swallowed') /\ Cardinality(Swallowed') = Cardinality(Swallowed) + 1
        BY <3>1, FS_AddElement DEF CostInv
      <3>3. Cardinality(Spent \cup {holds[t]}) = Cardinality(Spent) + 1
        BY <1>1, <3>1, FS_AddElement
      <3>4. Cardinality(Spent \cup {holds[t]}) <= Cardinality(Spent')
        BY <2>3, <2>4, <3>1, FS_Subset
      <3> QED
        BY <1>1, <2>1, <2>2, <2>3, <3>2, <3>3, <3>4 DEF CostInv
    <2> QED
      BY <2>5, <2>6
  <1>4. ASSUME NEW k \in Connection, Cut(k) PROVE CostInv'
    <2>1. /\ k \notin lost /\ lost' = lost \cup {k} /\ cuts' = cuts + 1 /\ client[k] = "open"
          /\ UNCHANGED <<client, pc, holds>>
      BY <1>4 DEF Cut, calls
    <2>2. Spent' = Spent /\ Swallowed' = Swallowed /\ HeldAreLost'
      BY <2>1 DEF Spent, Swallowed, Held, HeldAreLost, CostInv
    <2> QED
      BY <1>2, <2>1, <2>2 DEF CostInv
  <1>5. CASE UNCHANGED vars
    <2>1. Spent' = Spent /\ Swallowed' = Swallowed /\ HeldAreLost' /\ UNCHANGED <<lost, cuts>>
      BY <1>5 DEF vars, connections, calls, Spent, Swallowed, Held, HeldAreLost, CostInv
    <2> QED
      BY <2>1 DEF CostInv
  <1> QED
    BY <1>3, <1>4, <1>5 DEF Next

\* Of the calls no more are swallowed than connections were cut: a broken
\* connection costs one call.
THEOREM CutsCostOneCall == Spec => []OneCallPerCut
  <1>1. Init => CostInv
    <2> SUFFICES ASSUME Init PROVE CostInv
      OBVIOUS
    <2>1. Swallowed = {} /\ Spent = {} /\ HeldAreLost
      BY DEF Init, Swallowed, Spent, HeldAreLost
    <2> QED
      BY <2>1, FS_EmptySet DEF Init, CostInv
  <1>2. IInv /\ CostInv => OneCallPerCut
    <2> SUFFICES ASSUME IInv, CostInv PROVE OneCallPerCut
      OBVIOUS
    <2>1. Cardinality(Spent) <= Cardinality(lost) /\ IsFiniteSet(Spent)
      BY FS_Subset DEF CostInv, Spent
    <2>2. Cardinality(Spent) \in Nat /\ Cardinality(Swallowed) \in Nat /\ cuts \in Nat
      BY <2>1, FS_CardinalityType DEF CostInv, IInv, TypeOK
    <2> QED
      BY <2>1, <2>2 DEF CostInv, OneCallPerCut, Swallowed
  <1> QED
    BY <1>1, <1>2, InitInv, NextInv, NextCost, PTL DEF Spec
=============================================================================
